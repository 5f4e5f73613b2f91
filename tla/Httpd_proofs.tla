----------------------------- MODULE Httpd_proofs -----------------------------
(***************************************************************************)
(* The web server for every number of clients and slots, every file and    *)
(* every set of requests.  The handlers have no part in whose slot is whose*)
(* (PoolInv): only the lookup by address, the choice of a free slot and the*)
(* retiring matter.  What a slot holds (WebInv) takes them one by one: each*)
(* leaves the slot well formed, accounts for what it takes and gives back, *)
(* and writes no partition but the one that does not run.  What a client is*)
(* told (AnswerInv) takes them once more: each adds to what was told the   *)
(* next part of an answer, in one packet, when the last was acknowledged.  *)
(***************************************************************************)
EXTENDS Httpd, Facts, SequenceTheorems, TLAPS

PoolTypes ==
    /\ conn \in [Slots -> Clients \cup {NULL}]
    /\ remote \in [Slots -> Clients \cup {NULL}]
    /\ link \in [Clients -> LinkStates]

PoolInv == PoolTypes /\ SlotOwnership

\* httpdFindConnData finds nothing but the slot that holds the address.
LEMMA FindIsOwner ==
    ASSUME PoolInv, NEW p \in Clients
    PROVE  Find(p) = {i \in Slots : remote[i] = p}
<1>1. ASSUME NEW i \in Slots, remote[i] = p, NEW j \in 1 .. i - 1, remote[j] = p
      PROVE  FALSE
    <2>1. j \in Slots /\ j # i
        BY HttpdAssumption DEF Slots
    <2>2. p # NULL
        BY HttpdAssumption
    <2> QED
        BY <1>1, <2>1, <2>2 DEF PoolInv, SlotOwnership
<1> QED
    BY <1>1 DEF Find

LEMMA PoolStart == Init => PoolInv
<1> SUFFICES ASSUME Init PROVE PoolInv
    OBVIOUS
<1>1. PoolTypes
    BY DEF Init, PoolTypes, LinkStates
<1>2. conn = remote
    BY DEF Init
<1>3. \A p \in Clients : link[p] = "closed"
    BY DEF Init
<1>4. \A i \in Slots : remote[i] = NULL
    BY DEF Init
<1>5. \A p \in Clients : link[p] \in {"open", "closing"} <=> \E i \in Slots : remote[i] = p
    BY <1>3, <1>4, HttpdAssumption
<1>6. \A i, j \in Slots : remote[i] # NULL /\ remote[i] = remote[j] => i = j
    BY <1>4
<1> QED
    BY <1>1, <1>2, <1>5, <1>6 DEF PoolInv, SlotOwnership

\* A callback that stores conn again in the slot it found changes nothing.
LEMMA SameOwner ==
    ASSUME PoolInv, NEW p \in Clients, NEW i \in Find(p),
           conn' = [conn EXCEPT ![i] = p], remote' = remote
    PROVE  conn' = conn
<1>1. i \in Slots /\ remote[i] = p
    BY FindIsOwner
<1>2. conn[i] = p
    BY <1>1 DEF PoolInv, SlotOwnership
<1> QED
    BY <1>1, <1>2 DEF PoolInv, PoolTypes

\* A new connection gets a slot that was free.
LEMMA ConnectKeepsPool ==
    ASSUME PoolInv, NEW p \in Clients, NEW req, httpdConnectCb(p, req)
    PROVE  PoolInv'
<1> USE HttpdAssumption
<1>1. CASE FreeSlots = {} /\ link' = [link EXCEPT ![p] = "refused"] /\ UNCHANGED <<conn, remote>>
    <2>1. PoolTypes'
        BY <1>1 DEF PoolInv, PoolTypes, LinkStates
    <2>2. \A q \in Clients : link'[q] = IF q = p THEN "refused" ELSE link[q]
        BY <1>1 DEF PoolInv, PoolTypes
    <2>3. link[p] = "closed"
        BY DEF httpdConnectCb
    <2>4. \A q \in Clients : link'[q] \in {"open", "closing"} <=> link[q] \in {"open", "closing"}
        BY <2>2, <2>3
    <2> QED
        BY <1>1, <2>1, <2>4 DEF PoolInv, SlotOwnership
<1>2. ASSUME NEW i \in FreeSlots, link' = [link EXCEPT ![p] = "open"],
             conn' = [conn EXCEPT ![i] = p], remote' = [remote EXCEPT ![i] = p]
      PROVE  PoolInv'
    <2>1. i \in Slots /\ conn[i] = NULL /\ remote[i] = NULL
        BY DEF FreeSlots, PoolInv, SlotOwnership
    <2>2. link[p] = "closed" /\ p # NULL
        BY DEF httpdConnectCb
    <2>3. \A j \in Slots : remote[j] # p
        BY <2>2 DEF PoolInv, SlotOwnership
    <2>4. PoolTypes'
        BY <1>2, <2>1 DEF PoolInv, PoolTypes, LinkStates
    <2>5. \A j \in Slots : remote'[j] = IF j = i THEN p ELSE remote[j]
        BY <1>2, <2>1 DEF PoolInv, PoolTypes
    <2>6. conn' = remote'
        BY <1>2 DEF PoolInv, SlotOwnership
    <2>7. \A q \in Clients : link'[q] = IF q = p THEN "open" ELSE link[q]
        BY <1>2 DEF PoolInv, PoolTypes
    <2>8. ASSUME NEW q \in Clients
          PROVE  link'[q] \in {"open", "closing"} <=> \E j \in Slots : remote'[j] = q
        <3>1. CASE q = p
            BY <3>1, <2>1, <2>5, <2>7
        <3>2. CASE q # p
            <4>1. (\E j \in Slots : remote'[j] = q) <=> (\E j \in Slots : remote[j] = q)
                BY <3>2, <2>1, <2>5
            <4> QED
                BY <3>2, <4>1, <2>7 DEF PoolInv, SlotOwnership
        <3> QED
            BY <3>1, <3>2
    <2>9. \A j, k \in Slots : remote'[j] # NULL /\ remote'[j] = remote'[k] => j = k
        BY <2>3, <2>5 DEF PoolInv, SlotOwnership
    <2> QED
        BY <2>4, <2>6, <2>8, <2>9 DEF PoolInv, SlotOwnership
<1> QED
    BY <1>1, <1>2 DEF httpdConnectCb

LEMMA RecvKeepsPool ==
    ASSUME PoolInv, NEW p \in Clients, NEW n, NEW garbage, NEW fault, NEW delivered,
           httpdRecvCb(p, n, garbage, fault, delivered)
    PROVE  PoolInv'
<1>1. PICK i \in Find(p) : \E w : Finish(i, p, w, delivered)
    BY DEF httpdRecvCb
<1>2. conn' = [conn EXCEPT ![i] = p] /\ UNCHANGED <<remote, link>>
    BY <1>1 DEF Finish
<1>3. conn' = conn
    BY <1>1, <1>2, SameOwner
<1> QED
    BY <1>2, <1>3 DEF PoolInv, PoolTypes, SlotOwnership

\* The connection is kept until the disconnect callback, closing or not.
LEMMA SentKeepsPool ==
    ASSUME PoolInv, NEW p \in Clients, NEW delivered, httpdSentCb(p, delivered)
    PROVE  PoolInv'
<1>1. PICK i \in Find(p) :
          \/ /\ link' = [link EXCEPT ![p] = "closing"]
             /\ conn' = [conn EXCEPT ![i] = p]
             /\ UNCHANGED remote
          \/ \E w : Finish(i, p, w, delivered)
    BY DEF httpdSentCb
<1>2. conn' = [conn EXCEPT ![i] = p] /\ UNCHANGED remote
    BY <1>1 DEF Finish
<1>3. conn' = conn
    BY <1>1, <1>2, SameOwner
<1>4. CASE link' = [link EXCEPT ![p] = "closing"]
    <2>1. PoolTypes'
        BY <1>2, <1>3, <1>4 DEF PoolInv, PoolTypes, LinkStates
    <2>2. \A q \in Clients : link'[q] = IF q = p THEN "closing" ELSE link[q]
        BY <1>4 DEF PoolInv, PoolTypes
    <2>3. link[p] = "open"
        BY DEF httpdSentCb
    <2>4. \A q \in Clients : link'[q] \in {"open", "closing"} <=> link[q] \in {"open", "closing"}
        BY <2>2, <2>3
    <2> QED
        BY <1>2, <1>3, <2>1, <2>4 DEF PoolInv, SlotOwnership
<1>5. CASE UNCHANGED link
    BY <1>2, <1>3, <1>5 DEF PoolInv, PoolTypes, SlotOwnership
<1> QED
    BY <1>1, <1>4, <1>5 DEF Finish

\* Retiring frees the slot of the connection that ended, and no other.
LEMMA RetireKeepsPool ==
    ASSUME PoolInv, NEW p \in Clients, httpdRetireConn(p)
    PROVE  PoolInv'
<1> USE HttpdAssumption
<1>1. p # NULL
    OBVIOUS
<1>2. \A j \in Slots : remote'[j] = IF remote[j] = p THEN NULL ELSE remote[j]
    BY FindIsOwner DEF httpdRetireConn
<1>3. \A j \in Slots : conn'[j] = remote'[j]
    BY DEF httpdRetireConn, PoolInv, SlotOwnership
<1>4. PoolTypes'
    BY DEF httpdRetireConn, PoolInv, PoolTypes, LinkStates
<1>5. conn' = remote'
    BY <1>3, <1>4 DEF PoolTypes
<1>6. \A q \in Clients : link'[q] = IF q = p THEN "closed" ELSE link[q]
    BY DEF httpdRetireConn, PoolInv, PoolTypes
<1>7. ASSUME NEW q \in Clients
      PROVE  link'[q] \in {"open", "closing"} <=> \E j \in Slots : remote'[j] = q
    <2>1. q # NULL
        OBVIOUS
    <2>2. CASE q = p
        BY <2>1, <2>2, <1>2, <1>6
    <2>3. CASE q # p
        <3>1. (\E j \in Slots : remote'[j] = q) <=> (\E j \in Slots : remote[j] = q)
            BY <2>1, <2>3, <1>2
        <3> QED
            BY <2>3, <3>1, <1>6 DEF PoolInv, SlotOwnership
    <2> QED
        BY <2>2, <2>3
<1>8. \A j, k \in Slots : remote'[j] # NULL /\ remote'[j] = remote'[k] => j = k
    BY <1>2 DEF PoolInv, SlotOwnership
<1> QED
    BY <1>4, <1>5, <1>7, <1>8 DEF PoolInv, SlotOwnership

LEMMA RebootKeepsPool ==
    ASSUME Reboot
    PROVE  PoolInv'
<1>1. PoolTypes'
    BY DEF Reboot, PoolTypes, LinkStates
<1>2. conn' = remote'
    BY DEF Reboot
<1>3. \A p \in Clients : link'[p] = "closed"
    BY DEF Reboot
<1>4. \A i \in Slots : remote'[i] = NULL
    BY DEF Reboot
<1>5. \A p \in Clients : link'[p] \in {"open", "closing"} <=> \E i \in Slots : remote'[i] = p
    BY <1>3, <1>4, HttpdAssumption
<1>6. \A i, j \in Slots : remote'[i] # NULL /\ remote'[i] = remote'[j] => i = j
    BY <1>4
<1> QED
    BY <1>1, <1>2, <1>5, <1>6 DEF PoolInv, SlotOwnership

LEMMA PoolStep == PoolInv /\ [Next]_vars => PoolInv'
<1> SUFFICES ASSUME PoolInv, [Next]_vars PROVE PoolInv'
    OBVIOUS
<1>1. ASSUME NEW p \in Clients, Connect(p) PROVE PoolInv'
    BY <1>1, ConnectKeepsPool DEF Connect
<1>2. ASSUME NEW p \in Clients, Recv(p) PROVE PoolInv'
    BY <1>2, RecvKeepsPool DEF Recv
<1>3. ASSUME NEW p \in Clients, Sent(p) PROVE PoolInv'
    BY <1>3, SentKeepsPool DEF Sent
<1>4. ASSUME NEW p \in Clients, httpdDisconCb(p) PROVE PoolInv'
    BY <1>4, RetireKeepsPool DEF httpdDisconCb
<1>5. ASSUME NEW p \in Clients, httpdReconCb(p) PROVE PoolInv'
    BY <1>5, RetireKeepsPool DEF httpdReconCb
<1>6. CASE Reboot
    BY <1>6, RebootKeepsPool
<1>7. CASE UNCHANGED vars
    BY <1>7 DEF vars, PoolInv, PoolTypes, SlotOwnership
<1> QED
    BY <1>1, <1>2, <1>3, <1>4, <1>5, <1>6, <1>7 DEF Next

\* Every accepted connection has exactly one slot until its closing callback,
\* and a slot in use has a connection that exists: "Shouldn't happen"
\* (httpd.c:114) does not happen.
THEOREM ConnectionsOwnSlots == Spec => []SlotOwnership
<1>1. PoolInv => SlotOwnership
    BY DEF PoolInv
<1> QED
    BY <1>1, PoolStart, PoolStep, PTL DEF Spec

-----------------------------------------------------------------------------
\* The world after the unit at place k.
After(p, w, k) == Then(w, LAMBDA x : RecvUnit(p, x, k))

\* g are the worlds of a loop over n units from the one at place base.
IsLoop(g, p, a, base, n) ==
    g = [k \in 0 .. n |-> IF k = 0 THEN a ELSE After(p, g[k - 1], base + k - 1)]

\* The worlds of a loop, one after the other.
LEMMA LoopExists ==
    ASSUME NEW p, NEW a, NEW base, NEW n \in Nat
    PROVE  \E g : IsLoop(g, p, a, base, n)
<1> DEFINE step(w, k) == After(p, w, base + k - 1)
           Is(g, m) == g = [k \in 0 .. m |-> IF k = 0 THEN a ELSE step(g[k - 1], k)]
           Missing == {m \in Nat : ~\E g : Is(g, m)}
<1> HIDE DEF step
<1>1. Missing = {}
    <2> SUFFICES ASSUME Missing # {} PROVE FALSE
        OBVIOUS
    <2>1. PICK m \in Missing : m = 0 \/ (m - 1 \in Nat /\ m - 1 \notin Missing)
        BY LeastNat
    <2>2. CASE m = 0
        <3>1. Is([k \in 0 .. 0 |-> a], 0)
            OBVIOUS
        <3> QED BY <2>1, <2>2, <3>1
    <2>3. CASE m - 1 \in Nat /\ m - 1 \notin Missing
        <3>1. PICK g : Is(g, m - 1)
            BY <2>3
        <3> DEFINE h == [k \in 0 .. m |-> IF k = m THEN step(g[m - 1], m) ELSE g[k]]
        <3>2. m \in Nat /\ m > 0
            BY <2>1, <2>3
        <3>3. \A k \in 0 .. m - 1 : h[k] = g[k] /\ g[k] = IF k = 0 THEN a ELSE step(g[k - 1], k)
            BY <3>1, <3>2
        <3>4. \A k \in 0 .. m : h[k] = IF k = 0 THEN a ELSE step(h[k - 1], k)
            <4> SUFFICES ASSUME NEW k \in 0 .. m PROVE h[k] = IF k = 0 THEN a ELSE step(h[k - 1], k)
                OBVIOUS
            <4>1. CASE k = m
                <5>1. h[m] = step(g[m - 1], m) /\ h[m - 1] = g[m - 1]
                    BY <3>2
                <5> QED BY <3>2, <4>1, <5>1
            <4>2. CASE k = 0
                <5>1. 0 \in 0 .. m - 1 /\ 0 # m
                    BY <3>2
                <5>2. h[0] = g[0] /\ g[0] = a
                    BY <3>3, <5>1
                <5> QED BY <4>2, <5>2
            <4>3. CASE k # m /\ k # 0
                <5>1. k \in 0 .. m - 1 /\ k - 1 \in 0 .. m - 1
                    BY <3>2, <4>3
                <5> QED BY <3>3, <4>3, <5>1
            <4> QED BY <4>1, <4>2, <4>3
        <3>5. Is(h, m)
            <4> HIDE DEF h
            <4>1. h = [k \in 0 .. m |-> h[k]]
                BY DEF h
            <4> QED BY <3>4, <4>1
        <3> QED BY <2>1, <3>5
    <2> QED BY <2>1, <2>2, <2>3
<1>2. \E g : Is(g, n)
    BY <1>1
<1> QED BY <1>2 DEF step, IsLoop

\* What httpdRecvCb does, without the recursive function.
ReceivesBy(p, n, garbage, fault, delivered) ==
    \E i \in Find(p) : \E rcv :
        /\ rcv[0] = World(i, p, garbage, fault)
        /\ \A k \in 1 .. n : rcv[k] = RecvUnit(p, rcv[k - 1], arrived[p] + k - 1)
        /\ Finish(i, p, rcv[n], delivered)

\* The recursive function of httpdRecvCb is such a loop.
LEMMA RecvIs ==
    ASSUME NEW p, NEW n \in Nat, NEW garbage, NEW fault, NEW delivered,
           httpdRecvCb(p, n, garbage, fault, delivered)
    PROVE  ReceivesBy(p, n, garbage, fault, delivered)
<1>1. PICK i \in Find(p) :
          LET received[k \in 0 .. n] ==
                  IF k = 0 THEN World(i, p, garbage, fault)
                  ELSE Then(received[k - 1], LAMBDA w : RecvUnit(p, w, arrived[p] + k - 1))
          IN  \E w \in {received[n]} : Finish(i, p, w, delivered)
    BY DEF httpdRecvCb
<1> DEFINE received[k \in 0 .. n] ==
                  IF k = 0 THEN World(i, p, garbage, fault)
                  ELSE Then(received[k - 1], LAMBDA w : RecvUnit(p, w, arrived[p] + k - 1))
<1>2. Finish(i, p, received[n], delivered)
    BY <1>1
<1> HIDE DEF received
<1>3. \E g : IsLoop(g, p, World(i, p, garbage, fault), arrived[p], n)
    BY LoopExists
<1>4. IsLoop(received, p, World(i, p, garbage, fault), arrived[p], n)
    BY <1>3, Zenon DEF IsLoop, After, received
<1>5. received[0] = World(i, p, garbage, fault)
    BY <1>4 DEF IsLoop
<1>6. ASSUME NEW k \in 1 .. n
      PROVE  received[k] = RecvUnit(p, received[k - 1], arrived[p] + k - 1)
    <2>1. k \in 0 .. n /\ k # 0
        OBVIOUS
    <2>2. received[k] = After(p, received[k - 1], arrived[p] + k - 1)
        BY <1>4, <2>1 DEF IsLoop
    <2> QED BY <2>2 DEF After, Then
<1> QED BY <1>2, <1>5, <1>6 DEF ReceivesBy

Other == NextPartition(userbin)

WorldFields == {"s", "aborted", "buff", "sent", "packets", "heap", "flash", "rebooting", "r",
                "req", "garbage", "fault", "struck", "failed"}
SlotFields == {"cgi", "cgiData", "cgiPrivData", "url", "headPos", "post"}

Post == [len : -1 .. 2 * FIRMWARE_SIZE, buffSize : Int, buff : BOOLEAN,
         data : Seq(Clients \X Int), received : Nat]

SlotOK(s) ==
    /\ DOMAIN s = SlotFields
    /\ s.cgi \in Handlers \cup {NoHandler}
    /\ DOMAIN s.cgiData = {"name", "pos"}
    /\ s.cgiData.name = NULL => s.cgiData = NoFile
    /\ s.headPos \in 0 .. MAX_HEAD_LEN
    /\ s.post \in Post

Shape(w) ==
    /\ DOMAIN w = WorldFields
    /\ SlotOK(w.s)
    /\ w.packets \in Nat /\ w.heap \in Int
    /\ DOMAIN w.flash = Userbins
    /\ w.rebooting \in BOOLEAN /\ w.struck \in BOOLEAN /\ w.failed \in BOOLEAN

\* The slot holds an open file.
Held(s) == s.cgi = "cgiEspFsHook" /\ s.cgiData # NoFile
One(b) == IF b THEN 1 ELSE 0
\* What was allocated and is referred to no more.
SpareOf(s, h) == h - One(Held(s)) - One(s.post.buff)
Spare(w) == SpareOf(w.s, w.heap)

Safe(w) == w.rebooting /\ ~w.failed => check_header(w.flash[Other][0])

\* What no handler touches, in the step from w to v.
Same(w, v) ==
    /\ v.s.post = w.s.post /\ v.s.url = w.s.url /\ v.s.headPos = w.s.headPos
    /\ v.req = w.req /\ v.aborted = w.aborted /\ v.fault = w.fault
    /\ v.packets >= w.packets
    /\ v.flash[userbin] = w.flash[userbin]

Kept(w, v) == Shape(v) /\ Same(w, v) /\ (Safe(w) => Safe(v))

\* The other partition is another one.
LEMMA Partitions == userbin \in Userbins => Other \in Userbins /\ Other # userbin
    BY DEF Userbins, NextPartition, Other

\* What is kept by doing nothing, and by one thing after the other.
LEMMA KeptRefl == \A w : Shape(w) => Kept(w, w)
    BY DEF Kept, Same, Shape
LEMMA KeptTrans == \A w, v, u : Shape(w) /\ Kept(w, v) /\ Kept(v, u) => Kept(w, u)
    BY DEF Kept, Same, Shape

\* The parts of the handlers.
LEMMA SendKeeps ==
    ASSUME NEW w, Shape(w), NEW parts
    PROVE  LET v == httpdSend(w, parts)
           IN  Kept(w, v) /\ v.s = w.s /\ v.heap = w.heap /\ v.r = w.r
    BY DEF Shape, Kept, Same, Safe, httpdSend, WorldFields

LEMMA SentKeeps ==
    ASSUME NEW w, Shape(w), NEW parts
    PROVE  LET v == espconn_sent(w, parts)
           IN  Kept(w, v) /\ v.s = w.s /\ v.heap = w.heap /\ v.r = w.r
    BY DEF Shape, Kept, Same, Safe, espconn_sent, WorldFields

LEMMA XmitKeeps ==
    ASSUME NEW w, Shape(w)
    PROVE  LET v == xmitSendBuff(w) IN Kept(w, v) /\ v.s = w.s /\ v.heap = w.heap /\ v.r = w.r
<1> DEFINE u == espconn_sent(w, w.buff)
<1>1. Kept(w, u) /\ u.s = w.s /\ u.heap = w.heap /\ u.r = w.r
    BY SentKeeps
<1> HIDE DEF u
<1>2. Kept(w, [u EXCEPT !.buff = <<>>]) /\ [u EXCEPT !.buff = <<>>].s = w.s
      /\ [u EXCEPT !.buff = <<>>].heap = w.heap /\ [u EXCEPT !.buff = <<>>].r = w.r
    BY <1>1 DEF Shape, Kept, Same, Safe, WorldFields
<1> QED BY <1>2, KeptRefl DEF xmitSendBuff, u

LEMMA ReturnKeeps ==
    ASSUME NEW w, Shape(w), NEW ret
    PROVE  LET v == [w EXCEPT !.r = ret]
           IN  Kept(w, v) /\ v.s = w.s /\ v.heap = w.heap /\ v.r = ret
    BY DEF Shape, Kept, Same, Safe, WorldFields

LEMMA CloseKeeps ==
    ASSUME NEW w, Shape(w)
    PROVE  LET v == espFsClose(w)
           IN  /\ Kept(w, v) /\ v.s = w.s /\ v.r = w.r
               /\ v.heap = w.heap - One(w.s.cgiData # NoFile)
    BY DEF Shape, SlotOK, Kept, Same, Safe, WorldFields, espFsClose, One, NoFile

\* What a handler leaves of heap: a file it opened and did not close.
Balanced(w, v, held) == v.heap = w.heap + One(v.r = "MORE" /\ Held(v.s)) - One(held)

\* cgiEspFsHook opens a file and answers that there is more, or does not hold one.
LEMMA OpenKeeps ==
    ASSUME NEW w, Shape(w), w.s.cgi = "cgiEspFsHook", w.s.cgiData = NoFile
    PROVE  LET v == OpenFile(w)
           IN  /\ Kept(w, v) /\ v.s.cgi = w.s.cgi
               /\ v.r \in {"DONE", "MORE", "NOTFOUND"}
               /\ Balanced(w, v, FALSE)
<1> DEFINE name == w.s.url
           opened == [w EXCEPT !.s.cgiData = [name |-> name, pos |-> 0], !.heap = @ + 1]
<1>1. CASE name \notin DOMAIN FileLen
    <2>1. OpenFile(w) = [w EXCEPT !.r = "NOTFOUND"]
        BY <1>1 DEF OpenFile
    <2> QED BY <2>1, ReturnKeeps DEF Balanced, One, Shape
<1>2. ASSUME name \in DOMAIN FileLen, OpenFile(w) = Done(httpdSend(w, <<"501">>))
      PROVE  Kept(w, OpenFile(w)) /\ OpenFile(w).s = w.s /\ OpenFile(w).heap = w.heap
             /\ OpenFile(w).r = "DONE"
    <2>1. PICK v : v = httpdSend(w, <<"501">>)
        OBVIOUS
    <2>2. Kept(w, v) /\ v.s = w.s /\ v.heap = w.heap
        BY <2>1, SendKeeps
    <2>3. OpenFile(w) = [v EXCEPT !.r = "DONE"]
        BY <1>2, <2>1 DEF Done
    <2> QED BY <2>2, <2>3, ReturnKeeps, KeptTrans DEF Kept
<1>3. ASSUME name \in DOMAIN FileLen, OpenFile(w) = More(httpdSend(opened, <<"200">>))
      PROVE  /\ Kept(w, OpenFile(w)) /\ OpenFile(w).s.cgi = w.s.cgi
             /\ OpenFile(w).heap = w.heap + 1 /\ OpenFile(w).s.cgiData # NoFile
             /\ OpenFile(w).r = "MORE"
    <2>1. PICK v : v = httpdSend(opened, <<"200">>)
        OBVIOUS
    <2>2. /\ Kept(w, opened) /\ opened.s.cgi = w.s.cgi /\ opened.heap = w.heap + 1
          /\ opened.s.cgiData = [name |-> name, pos |-> 0]
        BY <1>3, RequestsAssumption DEF Kept, Same, Safe, Shape, SlotOK, WorldFields, SlotFields
    <2>3. opened.s.cgiData # NoFile
        BY <1>3, <2>2, RequestsAssumption DEF NoFile
    <2> HIDE DEF opened
    <2>4. Kept(opened, v) /\ v.s = opened.s /\ v.heap = opened.heap
        BY <2>1, <2>2, SendKeeps DEF Kept
    <2>5. OpenFile(w) = [v EXCEPT !.r = "MORE"]
        BY <1>3, <2>1 DEF More
    <2> QED BY <2>2, <2>3, <2>4, <2>5, ReturnKeeps, KeptTrans DEF Kept
<1>4. \/ name \notin DOMAIN FileLen
      \/ OpenFile(w) = Done(httpdSend(w, <<"501">>))
      \/ OpenFile(w) = More(httpdSend(opened, <<"200">>))
    BY Zenon DEF OpenFile
<1> QED BY <1>1, <1>2, <1>3, <1>4 DEF Balanced, One, Held, Shape

\* It holds the file until the last chunk.
LEMMA ReadKeeps ==
    ASSUME NEW w, Shape(w), w.s.cgi = "cgiEspFsHook", w.s.cgiData # NoFile
    PROVE  LET v == ReadFile(w)
           IN  /\ Kept(w, v) /\ v.s.cgi = w.s.cgi
               /\ v.r \in {"DONE", "MORE"}
               /\ Balanced(w, v, TRUE)
<1> DEFINE f == w.s.cgiData
           len == Min({READ_LEN, FileLen[f.name] - f.pos})
           read == [w EXCEPT !.s.cgiData.pos = @ + len]
           chunk == [k \in 1 .. len |-> f.pos + k - 1]
           sent == IF len > 0 THEN espconn_sent(read, chunk) ELSE read
<1>1. /\ Kept(w, read) /\ read.s.cgi = w.s.cgi /\ read.heap = w.heap
      /\ read.s.cgiData.name = f.name /\ f.name # NULL
    <2>1. f.name # NULL
        BY DEF Shape, SlotOK
    <2>2. SlotOK(read.s)
        <3> HIDE DEF len
        <3> QED BY <2>1 DEF Shape, SlotOK, SlotFields, WorldFields
    <2> HIDE DEF len
    <2> QED BY <2>1, <2>2 DEF Kept, Same, Safe, Shape, SlotOK, WorldFields, SlotFields
<1>2. PICK u : u = sent
    OBVIOUS
<1>3. ReadFile(w) = IF len # READ_LEN THEN Done(espFsClose(u)) ELSE More(u)
    BY <1>2 DEF ReadFile
<1> HIDE DEF len, read, chunk
<1>4. Kept(w, u) /\ u.s = read.s /\ u.heap = w.heap
    <2>1. Kept(read, espconn_sent(read, chunk)) /\ espconn_sent(read, chunk).s = read.s
          /\ espconn_sent(read, chunk).heap = read.heap
        BY <1>1, SentKeeps DEF Kept
    <2> QED BY <1>1, <1>2, <2>1, KeptTrans
<1>5. u.s.cgiData # NoFile /\ u.s.cgi = "cgiEspFsHook"
    <2>1. u.s.cgiData.name # NoFile.name
        BY <1>1, <1>4 DEF NoFile
    <2> QED BY <1>1, <1>4, <2>1
<1>6. CASE len # READ_LEN
    <2>1. PICK v : v = espFsClose(u)
        OBVIOUS
    <2>2. Kept(u, v) /\ v.s = u.s /\ v.heap = u.heap - 1
        BY <1>4, <1>5, <2>1, CloseKeeps DEF Kept, One
    <2>3. ReadFile(w) = [v EXCEPT !.r = "DONE"]
        BY <1>3, <1>6, <2>1 DEF Done
    <2>4. Kept(v, ReadFile(w)) /\ ReadFile(w).s = v.s /\ ReadFile(w).heap = v.heap
          /\ ReadFile(w).r = "DONE"
        BY <2>2, <2>3, ReturnKeeps DEF Kept
    <2>5. Kept(w, ReadFile(w))
        BY <1>4, <2>2, <2>4, KeptTrans
    <2> QED BY <1>1, <1>4, <2>2, <2>4, <2>5 DEF Balanced, One, Shape
<1>7. CASE len = READ_LEN
    <2>1. ReadFile(w) = [u EXCEPT !.r = "MORE"]
        BY <1>3, <1>7 DEF More
    <2>2. Kept(u, ReadFile(w)) /\ ReadFile(w).s = u.s /\ ReadFile(w).heap = u.heap
          /\ ReadFile(w).r = "MORE"
        BY <1>4, <2>1, ReturnKeeps DEF Kept
    <2>3. Kept(w, ReadFile(w))
        BY <1>4, <2>2, KeptTrans
    <2> QED BY <1>1, <1>4, <1>5, <2>2, <2>3 DEF Balanced, One, Held, Shape
<1> QED BY <1>6, <1>7

\* So the file is held between the calls and closed in the last.
LEMMA HookKeeps ==
    ASSUME NEW w, Shape(w), w.s.cgi = "cgiEspFsHook"
    PROVE  LET v == cgiEspFsHook(w)
           IN  /\ Kept(w, v) /\ v.s.cgi = w.s.cgi
               /\ v.r \in {"DONE", "MORE", "NOTFOUND"}
               /\ w.aborted => v.r = "DONE"
               /\ Balanced(w, v, Held(w.s))
<1>1. CASE w.aborted
    <2>1. PICK v : v = espFsClose(w)
        OBVIOUS
    <2>2. Kept(w, v) /\ v.s = w.s /\ v.heap = w.heap - One(w.s.cgiData # NoFile)
        BY <2>1, CloseKeeps
    <2>3. cgiEspFsHook(w) = [v EXCEPT !.r = "DONE"]
        BY <1>1, <2>1 DEF cgiEspFsHook, Done
    <2>4. /\ Kept(v, cgiEspFsHook(w)) /\ cgiEspFsHook(w).s = v.s
          /\ cgiEspFsHook(w).heap = v.heap /\ cgiEspFsHook(w).r = "DONE"
        BY <2>2, <2>3, ReturnKeeps DEF Kept
    <2>5. Kept(w, cgiEspFsHook(w))
        BY <2>2, <2>4, KeptTrans
    <2> QED BY <2>2, <2>4, <2>5 DEF Balanced, One, Held, Shape
<1>2. CASE ~w.aborted /\ w.s.cgiData = NoFile
    <2>1. cgiEspFsHook(w) = OpenFile(w)
        BY <1>2 DEF cgiEspFsHook
    <2> QED BY <1>2, <2>1, OpenKeeps DEF Held, Balanced
<1>3. CASE ~w.aborted /\ w.s.cgiData # NoFile
    <2>1. cgiEspFsHook(w) = ReadFile(w)
        BY <1>3 DEF cgiEspFsHook
    <2>2. Held(w.s)
        BY <1>3 DEF Held
    <2> QED BY <1>3, <2>1, <2>2, ReadKeeps DEF Balanced
<1> QED BY <1>1, <1>2, <1>3

\* What lies at the beginning of a partition after a chunk.
IsChunk(data, offset) ==
    data \in Seq(Clients \X Int) /\ offset \in Nat /\ (offset = 0 => Len(data) > 0)
StartIs(chunk, part, offset, data) ==
    chunk[0] = IF offset = 0 THEN data[1] ELSE part[0]
LEMMA ChunkAtStart ==
    ASSUME NEW part, NEW data, NEW offset, IsChunk(data, offset), NEW fault, fault \in Faults,
           ~Strikes(offset, fault)
    PROVE  StartIs(FlashChunk(part, offset, data, fault), part, offset, data)
<1>1. 0 \in Units /\ Len(data) \in Nat /\ offset \in Nat /\ (offset = 0 => Len(data) > 0)
    BY SectorAssumption DEF Units, IsChunk
<1>2. fault # "write"
    BY DEF Strikes
<1> DEFINE erased == IF Erases(offset) /\ fault # "erase" THEN EraseSector(part, offset) ELSE part
<1>3. FlashChunk(part, offset, data, fault) = WriteUnits(erased, offset, data)
    BY <1>2 DEF FlashChunk
<1>4. offset = 0 => erased[0] = Erased
    <2> SUFFICES ASSUME offset = 0 PROVE erased[0] = Erased
        OBVIOUS
    <2>1. Erases(offset)
        BY SectorAssumption DEF Erases
    <2>2. fault # "erase"
        BY <2>1 DEF Strikes
    <2>3. 0 \in offset .. offset + SPI_FLASH_SEC_SIZE - 1
        BY SectorAssumption
    <2> QED BY <1>1, <2>1, <2>2, <2>3 DEF EraseSector
<1>5. offset # 0 => erased[0] = part[0]
    BY <1>1, SectorAssumption DEF EraseSector
<1> HIDE DEF erased
<1>6. CASE offset = 0
    <2>1. 0 \in offset .. offset + Len(data) - 1 /\ 0 - offset + 1 = 1
        BY <1>1, <1>6 DEF IsChunk
    <2>2. WriteUnits(erased, offset, data)[0] = data[0 - offset + 1]
        BY <1>1, <1>4, <1>6, <2>1 DEF WriteUnits
    <2> QED BY <1>3, <1>6, <2>1, <2>2 DEF StartIs
<1>7. CASE offset # 0
    <2>1. 0 \notin offset .. offset + Len(data) - 1
        BY <1>1, <1>7
    <2>2. WriteUnits(erased, offset, data)[0] = erased[0]
        BY <1>1, <2>1 DEF WriteUnits
    <2> QED BY <1>3, <1>5, <1>7, <2>2 DEF StartIs
<1> QED BY <1>6, <1>7

\* A chunk comes with something in it, if it is the first.
Ready(w) == LET post == w.s.post IN
    /\ Len(post.data) <= post.received
    /\ post.buff /\ post.len >= MAX_POST /\ post.received = Len(post.data) => Len(post.data) > 0

\* The chunk that begins at offset is one cgiUploadFirmware accepts.
Accepted(w, offset) == LET post == w.s.post IN
    /\ post.buff /\ post.len >= MAX_POST
    /\ offset = post.received - Len(post.data)
    /\ offset = 0 => check_header(post.data[1])

\* cgiUploadFirmware writes the other partition only, and what it leaves there
\* at the beginning of an image that may be booted is what check_header accepted.
LEMMA FlashedKeeps ==
    ASSUME NEW w, Shape(w), userbin \in Userbins, Ready(w), w.fault \in Faults,
           NEW offset, Accepted(w, offset)
    PROVE  LET v == Flashed(w, offset) IN Kept(w, v) /\ v.s = w.s /\ v.heap = w.heap
<1> DEFINE chunk == FlashChunk(w.flash[Other], offset, w.s.post.data, w.fault)
           v == Flashed(w, offset)
<1>1. /\ w.s.post.data \in Seq(Clients \X Int) /\ Len(w.s.post.data) \in Nat
      /\ w.s.post.received \in Nat /\ offset \in Nat
    <2>1. w.s.post.data \in Seq(Clients \X Int) /\ w.s.post.received \in Nat
        BY DEF Shape, SlotOK, Post
    <2>2. /\ Len(w.s.post.data) <= w.s.post.received
          /\ offset = w.s.post.received - Len(w.s.post.data)
        BY DEF Ready, Accepted
    <2>3. Len(w.s.post.data) \in Nat
        BY <2>1
    <2> QED BY <2>1, <2>2, <2>3
<1>2. v = [w EXCEPT !.flash[Other] = chunk,
                    !.struck = @ \/ Strikes(offset, w.fault),
                    !.failed = @ \/ Strikes(offset, w.fault)]
    BY DEF Flashed, Other
<1>3. Other \in Userbins /\ Other # userbin
    BY Partitions
<1>4. ~Strikes(offset, w.fault) =>
         /\ offset = 0 => chunk[0] = w.s.post.data[1]
         /\ offset # 0 => chunk[0] = w.flash[Other][0]
    <2> SUFFICES ASSUME ~Strikes(offset, w.fault)
                 PROVE  StartIs(chunk, w.flash[Other], offset, w.s.post.data)
        BY DEF StartIs
    <2>1. PICK data, begun, fault :
             data = w.s.post.data /\ begun = w.flash[Other] /\ fault = w.fault
        OBVIOUS
    <2>2. IsChunk(data, offset)
        BY <1>1, <2>1 DEF IsChunk, Ready, Accepted
    <2>3. fault \in Faults /\ ~Strikes(offset, fault)
        BY <2>1
    <2> HIDE DEF chunk, v
    <2>4. StartIs(FlashChunk(begun, offset, data, fault), begun, offset, data)
        BY <2>2, <2>3, ChunkAtStart, Zenon
    <2> QED BY <2>1, <2>4 DEF chunk
<1> DEFINE hit == Strikes(offset, w.fault)
<1>5. hit \in BOOLEAN
    BY DEF Strikes
<1> HIDE DEF chunk, hit
<1>6. /\ DOMAIN v = WorldFields /\ v.s = w.s /\ v.heap = w.heap
      /\ v.packets = w.packets /\ v.rebooting = w.rebooting
      /\ v.req = w.req /\ v.aborted = w.aborted /\ v.fault = w.fault
      /\ v.flash = [w.flash EXCEPT ![Other] = chunk]
    BY <1>2 DEF Shape, WorldFields
<1>7. v.struck = (w.struck \/ hit) /\ v.failed = (w.failed \/ hit)
    BY <1>2 DEF Shape, WorldFields, hit
<1> HIDE DEF v
<1>8. v.flash[Other] = chunk /\ v.flash[userbin] = w.flash[userbin] /\ DOMAIN v.flash = Userbins
    BY <1>3, <1>6 DEF Shape
<1>9. Shape(v)
    <2>1. v.struck \in BOOLEAN /\ v.failed \in BOOLEAN
        BY <1>5, <1>7
    <2> QED BY <1>6, <1>8, <2>1 DEF Shape
<1>10. Same(w, v)
    BY <1>6, <1>8 DEF Same, Shape
<1>11. Safe(w) => Safe(v)
    <2> SUFFICES ASSUME Safe(w), v.rebooting, ~v.failed PROVE check_header(chunk[0])
        BY <1>8 DEF Safe
    <2>1. ~hit /\ ~w.failed /\ w.rebooting
        BY <1>6, <1>7
    <2>2. check_header(w.flash[Other][0])
        BY <2>1 DEF Safe
    <2>3. offset = 0 => check_header(w.s.post.data[1])
        BY DEF Accepted
    <2> QED BY <1>4, <2>1, <2>2, <2>3 DEF hit
<1> QED BY <1>6, <1>9, <1>10, <1>11 DEF Kept, v

LEMMA ErrorKeeps ==
    ASSUME NEW w, Shape(w)
    PROVE  LET v == UploadError(w)
           IN  Kept(w, v) /\ v.s.cgi = w.s.cgi /\ v.heap = w.heap /\ v.r = "DONE"
<1>1. PICK u : u = httpdSend(w, <<"400">>)
    OBVIOUS
<1>2. Kept(w, u) /\ u.s = w.s /\ u.heap = w.heap
    BY <1>1, SendKeeps
<1> DEFINE x == [u EXCEPT !.s.cgiPrivData = TRUE]
<1>3. Kept(u, x) /\ x.s.cgi = u.s.cgi /\ x.heap = u.heap
    BY <1>2 DEF Kept, Same, Safe, Shape, SlotOK, SlotFields, WorldFields
<1>4. UploadError(w) = [x EXCEPT !.r = "DONE"]
    BY <1>1 DEF UploadError, Done
<1> HIDE DEF x
<1>5. /\ Kept(x, UploadError(w)) /\ UploadError(w).s = x.s /\ UploadError(w).heap = x.heap
      /\ UploadError(w).r = "DONE"
    BY <1>3, <1>4, ReturnKeeps DEF Kept
<1>6. Kept(w, UploadError(w))
    BY <1>2, <1>3, <1>5, KeptTrans DEF Kept
<1> QED BY <1>2, <1>3, <1>5, <1>6

LEMMA UploadKeeps ==
    ASSUME NEW w, Shape(w), w.s.cgi = "cgiUploadFirmware", userbin \in Userbins, w.fault \in Faults,
           ~w.aborted => Ready(w)
    PROVE  LET v == cgiUploadFirmware(w)
           IN  /\ Kept(w, v) /\ v.s.cgi = w.s.cgi
               /\ v.r \in {"DONE", "MORE"} /\ v.heap = w.heap
               /\ w.aborted => v.r = "DONE"
               /\ v.r = "MORE" => w.s.post.len >= MAX_POST /\ w.s.post.buff
<1> DEFINE post == w.s.post
           offset == post.received - Len(post.data)
           begun == IF offset = 0 THEN [w EXCEPT !.s.cgiPrivData = FALSE] ELSE w
           invalid == \/ post.len > FIRMWARE_SIZE
                      \/ ~post.buff \/ w.req.method # "POST" \/ post.len < MAX_POST
                      \/ offset = 0 /\ ~check_header(post.data[1])
                      \/ offset % MAX_POST # 0
           v == cgiUploadFirmware(w)
<1>1. PICK b : b = begun
    OBVIOUS
<1>2. PICK f : f = Flashed(b, offset)
    OBVIOUS
<1>3. v = IF w.aborted THEN Done(w)
          ELSE IF b.s.cgiPrivData THEN Done(w)
          ELSE IF invalid THEN UploadError(b)
          ELSE IF post.received = post.len THEN Done(httpdSend(f, <<"200">>))
          ELSE More(f)
    BY <1>1, <1>2 DEF cgiUploadFirmware
<1>4. Kept(w, b) /\ b.s.cgi = w.s.cgi /\ b.heap = w.heap /\ b.s.post = post
    <2>1. LET x == [w EXCEPT !.s.cgiPrivData = FALSE]
          IN  Kept(w, x) /\ x.s.cgi = w.s.cgi /\ x.heap = w.heap
        BY DEF Kept, Same, Safe, Shape, SlotOK, SlotFields, WorldFields
    <2>2. Kept(w, b) /\ b.s.cgi = w.s.cgi /\ b.heap = w.heap
        BY <1>1, <2>1, KeptRefl
    <2> QED BY <2>2 DEF Kept, Same
<1> HIDE DEF begun, v
<1>5. CASE w.aborted \/ b.s.cgiPrivData
    <2>1. v = [w EXCEPT !.r = "DONE"]
        BY <1>3, <1>5 DEF Done
    <2> QED BY <2>1, ReturnKeeps DEF v
<1>6. CASE ~w.aborted /\ ~b.s.cgiPrivData /\ invalid
    <2>1. v = UploadError(b)
        BY <1>3, <1>6
    <2>2. Kept(b, v) /\ v.s.cgi = b.s.cgi /\ v.heap = b.heap /\ v.r = "DONE"
        BY <1>4, <2>1, ErrorKeeps DEF Kept
    <2> QED BY <1>4, <1>6, <2>2, KeptTrans DEF v
<1>7. CASE ~w.aborted /\ ~b.s.cgiPrivData /\ ~invalid
    <2>1. post.len \in Int /\ post.buff \in BOOLEAN
        BY SectorAssumption DEF Shape, SlotOK, Post
    <2>2. post.buff /\ post.len >= MAX_POST /\ (offset = 0 => check_header(post.data[1]))
        BY <1>7, <2>1, HttpdAssumption
    <2>3. Kept(b, f) /\ f.s = b.s /\ f.heap = b.heap
        <3>1. Ready(b) /\ b.fault \in Faults /\ Shape(b)
            BY <1>4, <1>7 DEF Ready, Kept, Same
        <3>2. Accepted(b, offset)
            BY <1>4, <2>2 DEF Accepted
        <3> HIDE DEF offset
        <3> QED BY <1>2, <3>1, <3>2, FlashedKeeps
    <2>4. Kept(w, f) /\ f.s.cgi = w.s.cgi /\ f.heap = w.heap /\ Shape(f)
        BY <1>4, <2>3, KeptTrans DEF Kept
    <2>5. CASE post.received = post.len
        <3>1. PICK u : u = httpdSend(f, <<"200">>)
            OBVIOUS
        <3>2. Kept(f, u) /\ u.s = f.s /\ u.heap = f.heap
            BY <2>4, <3>1, SendKeeps
        <3>3. v = [u EXCEPT !.r = "DONE"]
            BY <1>3, <1>7, <2>5, <3>1 DEF Done
        <3>4. Kept(u, v) /\ v.s = u.s /\ v.heap = u.heap /\ v.r = "DONE"
            BY <3>2, <3>3, ReturnKeeps DEF Kept
        <3>5. Kept(w, v)
            BY <2>4, <3>2, <3>4, KeptTrans
        <3> QED BY <1>7, <2>4, <3>2, <3>4, <3>5 DEF v
    <2>6. CASE post.received # post.len
        <3>1. v = [f EXCEPT !.r = "MORE"]
            BY <1>3, <1>7, <2>6 DEF More
        <3>2. Kept(f, v) /\ v.s = f.s /\ v.heap = f.heap /\ v.r = "MORE"
            BY <2>4, <3>1, ReturnKeeps
        <3>3. Kept(w, v)
            BY <2>4, <3>2, KeptTrans
        <3> QED BY <1>7, <2>2, <2>4, <3>2, <3>3 DEF v
    <2> QED BY <2>5, <2>6
<1> QED BY <1>5, <1>6, <1>7

\* cgiRebootFirmware arms the timer after check_header only.
LEMMA RebootKeeps ==
    ASSUME NEW w, Shape(w)
    PROVE  LET v == cgiRebootFirmware(w)
           IN  Kept(w, v) /\ v.s = w.s /\ v.heap = w.heap /\ v.r = "DONE"
<1> DEFINE v == cgiRebootFirmware(w)
<1>1. CASE w.aborted
    <2>1. v = [w EXCEPT !.r = "DONE"]
        BY <1>1 DEF cgiRebootFirmware, Done
    <2> HIDE DEF v
    <2>2. Kept(w, v) /\ v.s = w.s /\ v.heap = w.heap /\ v.r = "DONE"
        BY <2>1, ReturnKeeps
    <2> QED BY <2>2 DEF v
<1>2. CASE ~w.aborted /\ ~check_header(w.flash[Other][0])
    <2>1. PICK u : u = httpdSend(w, <<"400">>)
        OBVIOUS
    <2>2. Kept(w, u) /\ u.s = w.s /\ u.heap = w.heap
        BY <2>1, SendKeeps
    <2>3. v = [u EXCEPT !.r = "DONE"]
        BY <1>2, <2>1 DEF cgiRebootFirmware, Done, Other
    <2>4. Kept(u, v) /\ v.s = u.s /\ v.heap = u.heap /\ v.r = "DONE"
        BY <2>2, <2>3, ReturnKeeps DEF Kept
    <2> QED BY <2>2, <2>4, KeptTrans
<1>3. CASE ~w.aborted /\ check_header(w.flash[Other][0])
    <2>1. PICK u : u = httpdSend(w, <<"200">>)
        OBVIOUS
    <2>2. Kept(w, u) /\ u.s = w.s /\ u.heap = w.heap /\ u.flash = w.flash
        BY <2>1, SendKeeps DEF httpdSend, Shape, WorldFields
    <2> DEFINE x == [u EXCEPT !.rebooting = TRUE, !.failed = FALSE]
    <2>3. Kept(u, x) /\ x.s = u.s /\ x.heap = u.heap
        BY <1>3, <2>2 DEF Kept, Same, Safe, Shape, WorldFields
    <2>4. v = [x EXCEPT !.r = "DONE"]
        BY <1>3, <2>1 DEF cgiRebootFirmware, Done, Other
    <2> HIDE DEF x, v
    <2>5. Kept(x, v) /\ v.s = x.s /\ v.heap = x.heap /\ v.r = "DONE"
        BY <2>3, <2>4, ReturnKeeps DEF Kept
    <2>6. Kept(w, v)
        BY <2>2, <2>3, <2>5, KeptTrans DEF Kept
    <2> QED BY <2>2, <2>3, <2>5, <2>6 DEF v
<1> QED BY <1>1, <1>2, <1>3

LEMMA PageKeeps ==
    ASSUME NEW w, Shape(w)
    PROVE  LET v == cgiPage(w)
           IN  Kept(w, v) /\ v.s = w.s /\ v.heap = w.heap /\ v.r = "DONE"
<1>1. PICK u : u = IF w.aborted THEN w ELSE httpdSend(w, <<"page">>)
    OBVIOUS
<1>2. Kept(w, u) /\ u.s = w.s /\ u.heap = w.heap
    <2>1. LET x == httpdSend(w, <<"page">>) IN Kept(w, x) /\ x.s = w.s /\ x.heap = w.heap
        BY SendKeeps
    <2> QED BY <1>1, <2>1, KeptRefl
<1>3. cgiPage(w) = [u EXCEPT !.r = "DONE"]
    BY <1>1 DEF cgiPage, Done
<1>4. /\ Kept(u, cgiPage(w)) /\ cgiPage(w).s = u.s /\ cgiPage(w).heap = u.heap
      /\ cgiPage(w).r = "DONE"
    BY <1>2, <1>3, ReturnKeeps DEF Kept
<1> QED BY <1>2, <1>4, KeptTrans

\* Any handler.
LEMMA CgiKeeps ==
    ASSUME NEW w, Shape(w), w.s.cgi \in Handlers, userbin \in Userbins, w.fault \in Faults,
           w.s.cgi = "cgiUploadFirmware" /\ ~w.aborted => Ready(w)
    PROVE  LET v == CallCgi(w)
           IN  /\ Kept(w, v) /\ v.s.cgi = w.s.cgi
               /\ v.r \in {"DONE", "MORE", "NOTFOUND"}
               /\ w.aborted => v.r = "DONE"
               /\ Balanced(w, v, Held(w.s))
               /\ v.r = "NOTFOUND" => w.s.cgi = "cgiEspFsHook"
               /\ v.r = "MORE" => \/ w.s.cgi = "cgiEspFsHook"
                                  \/ /\ w.s.cgi = "cgiUploadFirmware"
                                     /\ w.s.post.len >= MAX_POST /\ w.s.post.buff
<1>1. CASE w.s.cgi = "cgiEspFsHook"
    <2>1. CallCgi(w) = cgiEspFsHook(w)
        BY <1>1 DEF CallCgi
    <2> QED BY <1>1, <2>1, HookKeeps
<1>2. CASE w.s.cgi = "cgiUploadFirmware"
    <2>1. CallCgi(w) = cgiUploadFirmware(w)
        BY <1>2 DEF CallCgi
    <2> QED BY <1>2, <2>1, UploadKeeps DEF Balanced, One, Held, Shape
<1>3. CASE w.s.cgi = "cgiRebootFirmware"
    <2>1. CallCgi(w) = cgiRebootFirmware(w)
        BY <1>3 DEF CallCgi
    <2> QED BY <1>3, <2>1, RebootKeeps DEF Balanced, One, Held, Shape
<1>4. CASE w.s.cgi = "cgiPage"
    <2>1. CallCgi(w) = cgiPage(w)
        BY <1>4 DEF CallCgi
    <2> QED BY <1>4, <2>1, PageKeeps DEF Balanced, One, Held, Shape
<1> QED BY <1>1, <1>2, <1>3, <1>4 DEF Handlers

\* The route asked after x, in the walk through the routes.
AfterRoute(x, i) == Then(x, LAMBDA y : Ask(y, builtInUrls[i]))
IsWalk(f, w) ==
    f = [i \in 0 .. Len(builtInUrls) |->
            IF i = 0 THEN [w EXCEPT !.r = "NOTFOUND"] ELSE AfterRoute(f[i - 1], i)]

LEMMA WalkExists == ASSUME NEW w PROVE \E f : IsWalk(f, w)
<1> DEFINE a0 == [w EXCEPT !.r = "NOTFOUND"]
           a1 == AfterRoute(a0, 1)
           a2 == AfterRoute(a1, 2)
           a3 == AfterRoute(a2, 3)
           a4 == AfterRoute(a3, 4)
           f == [i \in 0 .. 4 |-> IF i = 0 THEN a0 ELSE IF i = 1 THEN a1
                                  ELSE IF i = 2 THEN a2 ELSE IF i = 3 THEN a3 ELSE a4]
<1>1. Len(builtInUrls) = 4
    BY DEF builtInUrls
<1>2. /\ f[0] = a0 /\ f[1] = AfterRoute(f[0], 1) /\ f[2] = AfterRoute(f[1], 2)
      /\ f[3] = AfterRoute(f[2], 3) /\ f[4] = AfterRoute(f[3], 4)
    <2> HIDE DEF a0, a1, a2, a3, a4
    <2>1. f[0] = a0 /\ f[1] = a1 /\ f[2] = a2 /\ f[3] = a3 /\ f[4] = a4
        OBVIOUS
    <2> HIDE DEF f
    <2> QED BY <2>1 DEF a1, a2, a3, a4
<1>3. f = [i \in 0 .. 4 |-> f[i]]
    OBVIOUS
<1> HIDE DEF f
<1>4. \A i \in 0 .. 4 : f[i] = IF i = 0 THEN a0 ELSE AfterRoute(f[i - 1], i)
    <2> HIDE DEF a0
    <2> SUFFICES ASSUME NEW i \in 0 .. 4, i # 0 PROVE f[i] = AfterRoute(f[i - 1], i)
        BY <1>2
    <2>1. i = 1 \/ i = 2 \/ i = 3 \/ i = 4
        OBVIOUS
    <2> QED BY <1>2, <2>1
<1>5. f = [i \in 0 .. Len(builtInUrls) |-> IF i = 0 THEN a0 ELSE AfterRoute(f[i - 1], i)]
    BY <1>1, <1>3, <1>4
<1> QED BY <1>5 DEF IsWalk

\* What httpdProcessRequest comes to.
LEMMA ProcessIs ==
    ASSUME NEW w, w.s.url # NULL
    PROVE  \E a1, a2, a3, a4 :
              /\ a1 = Ask([w EXCEPT !.r = "NOTFOUND"], builtInUrls[1])
              /\ a2 = Ask(a1, builtInUrls[2]) /\ a3 = Ask(a2, builtInUrls[3])
              /\ a4 = Ask(a3, builtInUrls[4])
              /\ httpdProcessRequest(w) = Answer(a4)
<1> DEFINE ask[i \in 0 .. Len(builtInUrls)] ==
               IF i = 0 THEN [w EXCEPT !.r = "NOTFOUND"]
               ELSE Then(ask[i - 1], LAMBDA x : Ask(x, builtInUrls[i]))
<1>1. httpdProcessRequest(w) = Then(ask[Len(builtInUrls)], Answer)
    BY Zenon DEF httpdProcessRequest
<1> HIDE DEF ask
<1>2. httpdProcessRequest(w) = Answer(ask[Len(builtInUrls)])
    BY <1>1 DEF Then
<1>3. \E f : IsWalk(f, w)
    BY WalkExists
<1>4. IsWalk(ask, w)
    BY <1>3, Zenon DEF IsWalk, AfterRoute, ask
<1>5. Len(builtInUrls) = 4
    BY DEF builtInUrls
<1>6. /\ ask[0] = [w EXCEPT !.r = "NOTFOUND"] /\ ask[1] = AfterRoute(ask[0], 1)
      /\ ask[2] = AfterRoute(ask[1], 2) /\ ask[3] = AfterRoute(ask[2], 3)
      /\ ask[4] = AfterRoute(ask[3], 4)
    BY <1>4, <1>5 DEF IsWalk
<1>7. \A x, i : AfterRoute(x, i) = Ask(x, builtInUrls[i])
    BY DEF AfterRoute, Then
<1> QED BY <1>2, <1>5, <1>6, <1>7

\* Who a MORE may come from.
Continues(x) ==
    \/ x.s.cgi = "cgiEspFsHook"
    \/ x.s.cgi = "cgiUploadFirmware" /\ x.s.post.len >= MAX_POST /\ x.s.post.buff

\* x is a world in the walk that began with w.
Walked(w, x) ==
    /\ Kept(w, x)
    /\ x.r \in {"DONE", "MORE", "NOTFOUND"}
    /\ Balanced(w, x, FALSE)
    /\ x.r = "MORE" => Continues(x)

LEMMA WalkBegins ==
    ASSUME NEW w, Shape(w)
    PROVE  LET x == [w EXCEPT !.r = "NOTFOUND"] IN Walked(w, x) /\ x.r = "NOTFOUND"
<1> DEFINE x == [w EXCEPT !.r = "NOTFOUND"]
<1>1. Kept(w, x) /\ x.heap = w.heap /\ x.r = "NOTFOUND"
    BY ReturnKeeps
<1> HIDE DEF x
<1>2. w.heap \in Int
    BY DEF Shape
<1>3. Balanced(w, x, FALSE)
    BY <1>1, <1>2 DEF Balanced, One
<1> QED BY <1>1, <1>3 DEF Walked, x

\* Asking one route more.
LEMMA RouteKeeps ==
    ASSUME NEW w, NEW x, Walked(w, x), Shape(w), ~w.aborted, userbin \in Userbins,
           w.fault \in Faults, Ready(w), NEW i \in 1 .. 4
    PROVE  LET y == Ask(x, builtInUrls[i])
               route == builtInUrls[i]
           IN  /\ Walked(w, y)
               /\ x.r # "NOTFOUND" => y = x
               /\ ~IsMatch(route, w.s.url) => y = x
               /\ x.r = "NOTFOUND" /\ IsMatch(route, w.s.url) =>
                     /\ y.s.cgi = route.cgi
                     /\ y.r = "NOTFOUND" => route.cgi = "cgiEspFsHook"
<1> DEFINE route == builtInUrls[i]
           y == Ask(x, route)
           z == [x EXCEPT !.s.cgiData = NoFile, !.s.cgi = route.cgi]
<1>1. route.cgi \in Handlers
    BY DEF builtInUrls, Handlers
<1>2. CASE ~(x.r = "NOTFOUND" /\ IsMatch(route, x.s.url))
    <2>1. y = x
        BY <1>2 DEF Ask
    <2>2. x.s.url = w.s.url
        BY DEF Walked, Kept, Same
    <2> QED BY <1>2, <2>1, <2>2
<1>3. CASE x.r = "NOTFOUND" /\ IsMatch(route, x.s.url)
    <2>1. y = CallCgi(z)
        BY <1>3 DEF Ask
    <2>2. /\ Shape(z) /\ z.s.post = x.s.post /\ z.s.url = x.s.url /\ z.s.headPos = x.s.headPos
          /\ z.req = x.req /\ z.aborted = x.aborted /\ z.fault = x.fault /\ z.packets = x.packets
          /\ z.flash = x.flash /\ z.rebooting = x.rebooting /\ z.failed = x.failed
          /\ z.heap = x.heap /\ z.s.cgi = route.cgi /\ z.s.cgiData = NoFile
        <3> HIDE DEF route
        <3>1. Shape(x)
            BY DEF Walked, Kept
        <3>2. z.s = [x.s EXCEPT !.cgiData = NoFile, !.cgi = route.cgi]
            BY <3>1 DEF Shape, WorldFields
        <3>3. DOMAIN x.s = SlotFields
            BY <3>1 DEF Shape, SlotOK
        <3>4. z.s.post = x.s.post /\ z.s.url = x.s.url /\ z.s.headPos = x.s.headPos
              /\ z.s.cgi = route.cgi /\ z.s.cgiData = NoFile
            <4> HIDE DEF z
            <4> QED BY <3>3, <3>2 DEF SlotFields
        <3>5. SlotOK(z.s)
            <4>1. DOMAIN z.s = SlotFields
                BY <3>1, <3>2 DEF Shape, SlotOK
            <4> QED BY <1>1, <3>1, <3>4, <4>1 DEF Shape, SlotOK, NoFile
        <3> HIDE DEF y
        <3> QED BY <3>1, <3>4, <3>5 DEF Shape, WorldFields
    <2> HIDE DEF z, route, y
    <2>3. Kept(x, z)
        BY <2>2 DEF Kept, Same, Safe, Shape
    <2>4. Kept(w, x) /\ Kept(w, z)
        BY <2>3, KeptTrans DEF Walked
    <2>5. Ready(z) /\ ~z.aborted /\ z.fault \in Faults
        BY <2>4 DEF Kept, Same, Ready
    <2>6. ~Held(z.s) /\ z.heap = w.heap
        <3>1. w.heap \in Int
            BY DEF Shape
        <3> QED BY <1>3, <2>2, <3>1 DEF Held, Walked, Balanced, One
    <2>7. /\ Kept(z, y) /\ y.s.cgi = route.cgi /\ y.r \in {"DONE", "MORE", "NOTFOUND"}
          /\ Balanced(z, y, Held(z.s))
          /\ y.r = "NOTFOUND" => route.cgi = "cgiEspFsHook"
          /\ y.r = "MORE" => \/ z.s.cgi = "cgiEspFsHook"
                             \/ /\ z.s.cgi = "cgiUploadFirmware"
                                /\ z.s.post.len >= MAX_POST /\ z.s.post.buff
        BY <1>1, <2>1, <2>2, <2>5, CgiKeeps
    <2>8. Kept(w, y)
        BY <2>4, <2>7, KeptTrans
    <2>9. Balanced(w, y, FALSE)
        BY <2>6, <2>7 DEF Balanced, One
    <2>10. y.r = "MORE" => Continues(y)
        BY <2>2, <2>7 DEF Continues, Kept, Same
    <2>11. x.s.url = w.s.url
        BY <2>4 DEF Kept, Same
    <2> QED BY <1>3, <2>7, <2>8, <2>9, <2>10, <2>11 DEF Walked, y, route
<1> QED BY <1>2, <1>3

\* What httpdProcessRequest does after the last route.
LEMMA AnswerKeeps ==
    ASSUME NEW w, Shape(w), NEW x, Walked(w, x)
    PROVE  LET v == Answer(x)
           IN  /\ Kept(w, v) /\ v.heap = w.heap + One(Held(v.s))
               /\ v.s.cgi = IF x.r = "MORE" THEN x.s.cgi ELSE NoHandler
               /\ v.s.cgi # NoHandler => Continues(v)
<1>1. Shape(x) /\ Kept(w, x)
    BY DEF Walked, Kept
<1>2. CASE x.r = "MORE"
    <2>1. Answer(x) = xmitSendBuff(x)
        BY <1>2 DEF Answer
    <2>2. Kept(x, Answer(x)) /\ Answer(x).s = x.s /\ Answer(x).heap = x.heap
        BY <1>1, <2>1, XmitKeeps
    <2>3. Kept(w, Answer(x))
        BY <1>1, <2>2, KeptTrans
    <2>4. w.heap \in Int
        BY DEF Shape
    <2> QED BY <1>2, <2>2, <2>3, <2>4 DEF Walked, Balanced, One, Continues
<1>3. CASE x.r # "MORE"
    <2>1. PICK u : u = IF x.r = "NOTFOUND" THEN httpdSend(x, <<"404">>) ELSE x
        OBVIOUS
    <2>2. Kept(x, u) /\ u.s = x.s /\ u.heap = x.heap
        <3>1. LET a == httpdSend(x, <<"404">>) IN Kept(x, a) /\ a.s = x.s /\ a.heap = x.heap
            BY <1>1, SendKeeps
        <3> QED BY <1>1, <2>1, <3>1, KeptRefl
    <2>3. PICK t : t = xmitSendBuff(u)
        OBVIOUS
    <2>4. Kept(u, t) /\ t.s = u.s /\ t.heap = u.heap
        BY <2>2, <2>3, XmitKeeps DEF Kept
    <2>5. Answer(x) = [t EXCEPT !.s.cgi = NoHandler]
        BY <1>3, <2>1, <2>3 DEF Answer
    <2> DEFINE v == Answer(x)
    <2>6. Kept(t, v) /\ v.s.cgi = NoHandler /\ v.heap = t.heap
        BY <2>4, <2>5 DEF Kept, Same, Safe, Shape, SlotOK, WorldFields, SlotFields
    <2> HIDE DEF v
    <2>7. Kept(w, v)
        <3>1. Kept(w, u)
            BY <1>1, <2>2, KeptTrans
        <3>2. Kept(w, t)
            BY <2>4, <3>1, KeptTrans
        <3> QED BY <2>6, <3>2, KeptTrans
    <2>8. w.heap \in Int /\ v.heap = w.heap /\ ~Held(v.s)
        BY <1>3, <2>2, <2>4, <2>6 DEF Walked, Balanced, One, Held, NoHandler, Shape
    <2> QED BY <1>3, <2>6, <2>7, <2>8 DEF v, One
<1> QED BY <1>2, <1>3

\* httpdProcessRequest: a handler stays in the slot only if it goes on.
LEMMA ProcessKeeps ==
    ASSUME NEW w, Shape(w), ~w.aborted, w.s.url # NULL, userbin \in Userbins, w.fault \in Faults,
           Ready(w)
    PROVE  LET v == httpdProcessRequest(w)
           IN  /\ Kept(w, v) /\ v.heap = w.heap + One(Held(v.s))
               /\ v.s.cgi # NoHandler => Continues(v)
               /\ w.s.url = "/flash/upload" => v.s.cgi \in {NoHandler, "cgiUploadFirmware"}
<1>1. PICK a1, a2, a3, a4 :
            /\ a1 = Ask([w EXCEPT !.r = "NOTFOUND"], builtInUrls[1])
            /\ a2 = Ask(a1, builtInUrls[2]) /\ a3 = Ask(a2, builtInUrls[3])
            /\ a4 = Ask(a3, builtInUrls[4])
            /\ httpdProcessRequest(w) = Answer(a4)
    BY ProcessIs
<1> DEFINE a0 == [w EXCEPT !.r = "NOTFOUND"]
<1>2. Walked(w, a0) /\ a0.r = "NOTFOUND"
    BY WalkBegins
<1> HIDE DEF a0
<1>3. Walked(w, a1)
    BY <1>1, <1>2, RouteKeeps DEF a0
<1>4. Walked(w, a2)
    BY <1>1, <1>3, RouteKeeps
<1>5. Walked(w, a3)
    BY <1>1, <1>4, RouteKeeps
<1>6. Walked(w, a4)
    BY <1>1, <1>5, RouteKeeps
<1>7. /\ builtInUrls[1].url = "/" /\ builtInUrls[2].url = "/flash/upload"
      /\ builtInUrls[1].cgi = "cgiPage" /\ builtInUrls[2].cgi = "cgiUploadFirmware"
    BY DEF builtInUrls
<1>8. ASSUME w.s.url = "/flash/upload"
      PROVE  a4.r # "NOTFOUND" /\ (a4.r = "MORE" => a4.s.cgi = "cgiUploadFirmware")
    <2>1. ~IsMatch(builtInUrls[1], w.s.url) /\ IsMatch(builtInUrls[2], w.s.url)
        BY <1>7, <1>8 DEF IsMatch
    <2>2. a1 = a0
        BY <1>1, <1>2, <2>1, RouteKeeps DEF a0
    <2>3. a2.s.cgi = "cgiUploadFirmware" /\ a2.r # "NOTFOUND"
        BY <1>1, <1>2, <1>3, <1>7, <2>1, <2>2, RouteKeeps
    <2>4. a3 = a2
        BY <1>1, <1>4, <2>3, RouteKeeps
    <2>5. a4 = a3
        BY <1>1, <1>5, <2>3, <2>4, RouteKeeps
    <2> QED BY <2>3, <2>4, <2>5
<1> QED BY <1>1, <1>6, <1>8, AnswerKeeps

\* A request of the kind the invariant is about.
ReqOK(req) ==
    /\ req.headUnits \in Nat \ {0}
    /\ req.contentLength \in -1 .. 2 * FIRMWARE_SIZE

\* The zero behind a head that fits stays in its place, or changes nothing.
LEMMA TerminatedIs == \A n \in 0 .. MAX_HEAD_LEN : Terminated(n) = n
<1> SUFFICES ASSUME NEW n \in 0 .. MAX_HEAD_LEN PROVE Terminated(n) = n
    OBVIOUS
<1>1. CASE n < MAX_HEAD_LEN
    BY <1>1 DEF Terminated
<1>2. CASE n = MAX_HEAD_LEN
    BY <1>2, HeadAssumption, HttpdAssumption DEF Terminated
<1> QED BY <1>1, <1>2, HttpdAssumption

\* The greater and the lesser of two numbers.
LEMMA MaxIs == \A a, b \in Int : Max({a, b}) = IF a >= b THEN a ELSE b
<1> SUFFICES ASSUME NEW a \in Int, NEW b \in Int PROVE Max({a, b}) = IF a >= b THEN a ELSE b
    OBVIOUS
<1> DEFINE m == IF a >= b THEN a ELSE b
<1>1. m \in {a, b} /\ \A x \in {a, b} : m >= x
    OBVIOUS
<1>2. \A y \in {a, b} : (\A x \in {a, b} : y >= x) => y = m
    OBVIOUS
<1> HIDE DEF m
<1>3. Max({a, b}) \in {a, b} /\ \A x \in {a, b} : Max({a, b}) >= x
    BY <1>1 DEF Max
<1> QED BY <1>2, <1>3 DEF m

LEMMA MinIs == \A a, b \in Int : Min({a, b}) = IF a <= b THEN a ELSE b
<1> SUFFICES ASSUME NEW a \in Int, NEW b \in Int PROVE Min({a, b}) = IF a <= b THEN a ELSE b
    OBVIOUS
<1> DEFINE m == IF a <= b THEN a ELSE b
<1>1. m \in {a, b} /\ \A x \in {a, b} : m <= x
    OBVIOUS
<1>2. \A y \in {a, b} : (\A x \in {a, b} : y <= x) => y = m
    OBVIOUS
<1> HIDE DEF m
<1>3. Min({a, b}) \in {a, b} /\ \A x \in {a, b} : Min({a, b}) <= x
    BY <1>1 DEF Min
<1> QED BY <1>2, <1>3 DEF m

\* How far a slot is when k units of the request have arrived.
AtHead(s) == s.cgi = NoHandler /\ ~s.post.buff /\ s.post.received = 0 /\ s.post.data = <<>>
NoBody(s) == s.cgi # "cgiUploadFirmware" /\ s.post.received = 0 /\ s.post.data = <<>>
AtBody(s, req, k) == LET post == s.post IN
    /\ post.buff /\ post.len = req.contentLength /\ post.buffSize = Min({post.len, MAX_POST})
    /\ post.received = k - req.headUnits /\ post.received \in 0 .. post.len
    /\ Len(post.data) <= post.received /\ Len(post.data) < post.buffSize
    /\ post.received < post.len /\ ~CalledAgain(req) => s.cgi \in {NoHandler, "cgiUploadFirmware"}
    /\ s.cgi = "cgiUploadFirmware" => Len(post.data) < post.received
    /\ s.url \in {req.url, NULL}
\* A head that is too long never ends.
HeadIn(s, req, k) ==
    /\ s.post.len = -1 => s.headPos = IF k < MAX_HEAD_LEN THEN k ELSE MAX_HEAD_LEN
    /\ req.headUnits > MAX_HEAD_LEN => s.post.len = -1
Progress(s, req, k) ==
    /\ HeadIn(s, req, k)
    /\ s.post.len = -1 => AtHead(s)
    /\ s.post.len = 0 => NoBody(s)
    /\ s.post.len > 0 => AtBody(s, req, k)

\* How the middle of a body is recognised.
LEMMA AtBodyIs ==
    ASSUME NEW s, NEW req, NEW k,
       /\ s.post.buff /\ s.post.len = req.contentLength
       /\ s.post.buffSize = Min({s.post.len, MAX_POST}),
       s.post.received = k - req.headUnits /\ s.post.received \in 0 .. s.post.len,
       /\ Len(s.post.data) <= s.post.received /\ Len(s.post.data) < s.post.buffSize,
       s.url \in {req.url, NULL},
       s.post.received < s.post.len /\ ~CalledAgain(req) => s.cgi \in {NoHandler, "cgiUploadFirmware"},
       s.cgi = "cgiUploadFirmware" => Len(s.post.data) < s.post.received
    PROVE AtBody(s, req, k)
    BY DEF AtBody

Standing(w, k) ==
    /\ Shape(w) /\ ~w.aborted /\ w.fault \in Faults
    /\ ReqOK(w.req) /\ Progress(w.s, w.req, k)

\* What a unit of the request leaves: what was allocated is accounted for, unless
\* the handler is called again.
Advanced(w, v) ==
    /\ v.req = w.req /\ v.flash[userbin] = w.flash[userbin]
    /\ Safe(w) => Safe(v)
    /\ Spare(v) >= Spare(w) /\ (~CalledAgain(w.req) => Spare(v) = Spare(w))
    /\ w.req.headUnits > MAX_HEAD_LEN => v.packets = w.packets

\* The head of a request, parsed.
LEMMA ParseKeeps ==
    ASSUME NEW w, NEW k \in Nat, Standing(w, k + 1), w.s.post.len = -1, k = w.req.headUnits - 1,
           w.req.headUnits <= MAX_HEAD_LEN
    PROVE  LET x == httpdParseHeaders(w)
           IN  /\ Standing(x, k + 1) /\ x.s.post.len \in Nat /\ x.s.cgi = NoHandler
               /\ Advanced(w, x)
<1> DEFINE req == w.req
           url == IF req.method \in {"GET", "POST"} THEN req.url ELSE NULL
           size == Min({req.contentLength, MAX_POST})
           post == [w.s.post EXCEPT !.len = req.contentLength, !.buffSize = size,
                                    !.buff = TRUE, !.data = <<>>]
           x == httpdParseHeaders(w)
<1>1. AtHead(w.s) /\ Shape(w) /\ DOMAIN w.s = SlotFields /\ w.s.post \in Post /\ w.heap \in Int
    BY DEF Standing, Progress, Shape, SlotOK
<1>2. url \in {req.url, NULL} /\ MAX_POST \in Nat \ {0} /\ FIRMWARE_SIZE \in Nat
    BY HttpdAssumption, SectorAssumption
<1>3. ~Held(w.s) /\ ~w.s.post.buff /\ Spare(w) = w.heap /\ Spare(w) \in Int
    BY <1>1 DEF AtHead, Held, One, NoHandler, Spare, SpareOf
<1>0. ~(req.headUnits > MAX_HEAD_LEN)
    BY HttpdAssumption DEF Standing, ReqOK
<1>4. CASE req.contentLength < 0
    <2>1. x = [w EXCEPT !.s.url = url, !.s.post.len = 0]
        BY <1>4 DEF httpdParseHeaders
    <2> HIDE DEF url
    <2>2. x.s = [w.s EXCEPT !.url = url, !.post = [w.s.post EXCEPT !.len = 0]]
        BY <1>1, <2>1 DEF Shape, WorldFields, SlotFields
    <2>3. /\ DOMAIN x = WorldFields /\ x.req = w.req /\ x.aborted = w.aborted /\ x.fault = w.fault
          /\ x.packets = w.packets /\ x.heap = w.heap /\ x.flash = w.flash
          /\ x.rebooting = w.rebooting /\ x.struck = w.struck /\ x.failed = w.failed
        <3> HIDE DEF x
        <3> QED BY <1>1, <2>1 DEF Shape, WorldFields
    <2> HIDE DEF x
    <2>4. /\ x.s.cgi = w.s.cgi /\ x.s.cgiData = w.s.cgiData /\ x.s.headPos = w.s.headPos
          /\ x.s.post = [w.s.post EXCEPT !.len = 0] /\ DOMAIN x.s = SlotFields
        BY <1>1, <2>2 DEF SlotFields
    <2>5. /\ x.s.post \in Post /\ x.s.post.len = 0 /\ x.s.post.buff = w.s.post.buff
          /\ x.s.post.received = w.s.post.received /\ x.s.post.data = w.s.post.data
        <3>1. 0 \in -1 .. 2 * FIRMWARE_SIZE
            BY <1>2
        <3>2. PICK b : b = w.s.post
            OBVIOUS
        <3>3. b \in Post /\ x.s.post = [b EXCEPT !.len = 0]
            BY <1>1, <2>4, <3>2
        <3>4. x.s.post \in Post /\ x.s.post.len = 0 /\ x.s.post.buff = b.buff
              /\ x.s.post.received = b.received /\ x.s.post.data = b.data
            BY <3>1, <3>3 DEF Post
        <3> QED BY <3>2, <3>4
    <2>6. Shape(x)
        BY <1>1, <2>3, <2>4, <2>5 DEF Shape, SlotOK
    <2>7. Progress(x.s, x.req, k + 1)
        <3>1. HeadIn(x.s, x.req, k + 1)
            BY <1>0, <2>3, <2>5 DEF HeadIn
        <3> QED BY <1>1, <2>4, <2>5, <3>1 DEF Progress, NoBody, AtHead, NoHandler
    <2>8. Spare(x) = Spare(w)
        BY <1>1, <1>3, <2>3, <2>4, <2>5 DEF Held, One, AtHead, NoHandler, Spare, SpareOf
    <2> QED BY <1>1, <2>3, <2>4, <2>5, <2>6, <2>7, <2>8, <1>3 DEF Standing, Advanced, Safe, AtHead, x
<1>5. CASE ~(req.contentLength < 0)
    <2>1. x = [w EXCEPT !.s.url = url, !.s.post = post, !.heap = @ + 1]
        BY <1>5 DEF httpdParseHeaders
    <2>0. req.contentLength \in Nat /\ req.contentLength \in -1 .. 2 * FIRMWARE_SIZE
          /\ size \in Int /\ (req.contentLength > 0 => size > 0)
        BY <1>2, <1>5, MinIs DEF Standing, ReqOK
    <2>2. /\ post \in Post /\ post.len = req.contentLength /\ post.buff /\ post.buffSize = size
          /\ post.received = 0 /\ post.data = <<>>
        <3> HIDE DEF size
        <3> QED BY <1>1, <2>0 DEF Post, AtHead
    <2> HIDE DEF url, post
    <2>3. x.s = [w.s EXCEPT !.url = url, !.post = post]
        BY <1>1, <2>1 DEF Shape, WorldFields, SlotFields
    <2>4. /\ DOMAIN x = WorldFields /\ x.req = w.req /\ x.aborted = w.aborted /\ x.fault = w.fault
          /\ x.packets = w.packets /\ x.heap = w.heap + 1 /\ x.flash = w.flash
          /\ x.rebooting = w.rebooting /\ x.struck = w.struck /\ x.failed = w.failed
        <3> HIDE DEF x
        <3> QED BY <1>1, <2>1 DEF Shape, WorldFields
    <2> HIDE DEF x
    <2>5. /\ x.s.cgi = w.s.cgi /\ x.s.cgiData = w.s.cgiData /\ x.s.headPos = w.s.headPos
          /\ x.s.post = post /\ x.s.url = url /\ DOMAIN x.s = SlotFields
        BY <1>1, <2>3 DEF SlotFields
    <2>6. Shape(x)
        BY <1>1, <2>2, <2>4, <2>5 DEF Shape, SlotOK
    <2>7. Progress(x.s, x.req, k + 1)
        <3>1. (k + 1) - req.headUnits = 0
            BY DEF Standing, ReqOK
        <3>2. x.s.cgi = NoHandler /\ NoHandler # "cgiUploadFirmware"
            BY <1>1, <2>5 DEF AtHead, NoHandler
        <3>3. Len(post.data) = 0
            BY <2>2
        <3>5. size = Min({post.len, MAX_POST}) /\ url \in {x.req.url, NULL}
            BY <1>2, <2>2, <2>4
        <3>6. 0 \in 0 .. req.contentLength
            BY <2>0
        <3> HIDE DEF size, req
        <3>4. x.s.post.len > 0 => AtBody(x.s, x.req, k + 1)
            <4> SUFFICES ASSUME x.s.post.len > 0 PROVE AtBody(x.s, x.req, k + 1)
                OBVIOUS
            <4>1. x.req = req
                BY <2>4 DEF req
            <4>2. size > 0
                BY <2>0, <2>2, <2>5
            <4>3. /\ x.s.post.buff /\ x.s.post.len = x.req.contentLength
                  /\ x.s.post.buffSize = Min({x.s.post.len, MAX_POST})
                BY <2>2, <2>5, <3>5, <4>1
            <4>4. /\ x.s.post.received = (k + 1) - x.req.headUnits
                  /\ x.s.post.received \in 0 .. x.s.post.len
                BY <2>2, <2>5, <3>1, <3>6, <4>1
            <4>5. Len(x.s.post.data) <= x.s.post.received /\ Len(x.s.post.data) < x.s.post.buffSize
                BY <2>0, <2>2, <2>5, <3>3, <4>2
            <4> QED BY <2>5, <3>2, <3>5, <4>3, <4>4, <4>5, AtBodyIs
        <3>7. HeadIn(x.s, x.req, k + 1)
            BY <1>0, <2>0, <2>2, <2>4, <2>5 DEF HeadIn, req
        <3> QED BY <2>0, <2>2, <2>5, <3>2, <3>4, <3>7 DEF Progress, NoBody
    <2>8. Spare(x) = Spare(w)
        BY <1>1, <1>3, <2>2, <2>4, <2>5 DEF Held, One, AtHead, NoHandler, Spare, SpareOf
    <2> QED BY <1>1, <1>3, <2>0, <2>2, <2>4, <2>5, <2>6, <2>7, <2>8
        DEF Standing, Advanced, Safe, AtHead, x
<1> QED BY <1>4, <1>5

\* A unit of the head: h is the world with it in the buffer, if it fits.
LEMMA HeadUnitIs ==
    ASSUME NEW w, NEW k \in Nat, Standing(w, k), w.s.post.len = -1
    PROVE  LET fits == w.s.headPos # MAX_HEAD_LEN
               pos == IF fits THEN w.s.headPos + 1 ELSE w.s.headPos
               completes == k = w.req.headUnits - 1
               h == [w EXCEPT !.s.headPos = pos]
               v == HeadUnit(w, completes)
           IN  /\ Standing(h, k + 1) /\ Advanced(w, h) /\ h.s.post.len = -1 /\ h.req = w.req
               /\ fits /\ completes => w.req.headUnits <= MAX_HEAD_LEN
               /\ ~(fits /\ completes) => v = h
               /\ \A x : fits /\ completes /\ x = httpdParseHeaders(h) =>
                     v = IF x.s.post.len = 0 THEN httpdProcessRequest(x) ELSE x
<1> DEFINE fits == w.s.headPos # MAX_HEAD_LEN
           pos == IF fits THEN w.s.headPos + 1 ELSE w.s.headPos
           completes == k = w.req.headUnits - 1
           h == [w EXCEPT !.s.headPos = pos]
           Begin(x) == IF x.s.post.len = 0 THEN httpdProcessRequest(x) ELSE x
           v == HeadUnit(w, completes)
<1>2. Shape(w) /\ DOMAIN w.s = SlotFields /\ AtHead(w.s) /\ HeadIn(w.s, w.req, k)
    BY DEF Standing, Shape, SlotOK, Progress
<1>0. pos \in 0 .. MAX_HEAD_LEN /\ Terminated(pos) = pos
    BY <1>2, TerminatedIs, HttpdAssumption DEF Shape, SlotOK
<1>1. v = IF fits /\ completes THEN Then(httpdParseHeaders(h), Begin) ELSE h
    <2> DEFINE kept == [w EXCEPT !.s.headPos = Terminated(IF fits THEN @ + 1 ELSE @)]
    <2>1. v = IF fits /\ completes THEN Then(httpdParseHeaders(kept), Begin) ELSE kept
        BY Zenon DEF HeadUnit
    <2>2. kept = h
        <3>1. Terminated(IF fits THEN w.s.headPos + 1 ELSE w.s.headPos) = pos
            BY <1>0
        <3> QED BY <3>1, <1>2 DEF Shape, WorldFields, SlotFields
    <2> HIDE DEF kept, h
    <2> QED BY <2>1, <2>2
<1>3. /\ Standing(h, k + 1) /\ Advanced(w, h) /\ h.s.post.len = -1 /\ h.req = w.req
    <2>1. h.s = [w.s EXCEPT !.headPos = pos]
        <3> HIDE DEF pos
        <3> QED BY <1>2 DEF Shape, WorldFields
    <2>2. pos \in 0 .. MAX_HEAD_LEN
        BY <1>0
    <2>9. pos = IF k + 1 < MAX_HEAD_LEN THEN k + 1 ELSE MAX_HEAD_LEN
        BY <1>2, HttpdAssumption DEF HeadIn, Standing, ReqOK
    <2> HIDE DEF pos
    <2>3. /\ DOMAIN h = WorldFields /\ h.req = w.req /\ h.aborted = w.aborted /\ h.fault = w.fault
          /\ h.packets = w.packets /\ h.heap = w.heap /\ h.flash = w.flash
          /\ h.rebooting = w.rebooting /\ h.struck = w.struck /\ h.failed = w.failed
        BY <1>2 DEF Shape, WorldFields
    <2> HIDE DEF h
    <2>4. /\ h.s.cgi = w.s.cgi /\ h.s.cgiData = w.s.cgiData /\ h.s.headPos = pos
          /\ h.s.post = w.s.post /\ DOMAIN h.s = SlotFields
        BY <1>2, <2>1 DEF SlotFields
    <2>5. Shape(h)
        BY <1>2, <2>2, <2>3, <2>4 DEF Shape, SlotOK
    <2>6. AtHead(h.s)
        BY <1>2, <2>4 DEF AtHead
    <2>7. Progress(h.s, h.req, k + 1)
        BY <2>3, <2>4, <2>6, <2>9 DEF Progress, HeadIn
    <2>8. Spare(h) = Spare(w) /\ Spare(w) \in Int
        BY <1>2, <2>3, <2>4 DEF Held, Spare, SpareOf, One, Shape
    <2> QED BY <2>3, <2>4, <2>5, <2>7, <2>8 DEF Standing, Advanced, Safe
<1>4. fits /\ completes => w.req.headUnits <= MAX_HEAD_LEN
    BY <1>2, HttpdAssumption DEF HeadIn, Standing, ReqOK
<1> HIDE DEF h
<1>5. ~(fits /\ completes) => v = h
    BY <1>1
<1>7. ASSUME NEW x, fits /\ completes, x = httpdParseHeaders(h)
      PROVE  v = IF x.s.post.len = 0 THEN httpdProcessRequest(x) ELSE x
    BY <1>1, <1>7 DEF Then
<1> QED BY <1>3, <1>4, <1>5, <1>7 DEF h

LEMMA HeadKeeps ==
    ASSUME NEW w, NEW k \in Nat, Standing(w, k), w.s.post.len = -1, userbin \in Userbins
    PROVE  LET v == HeadUnit(w, k = w.req.headUnits - 1)
           IN  Standing(v, k + 1) /\ Advanced(w, v)
<1> DEFINE fits == w.s.headPos # MAX_HEAD_LEN
           pos == IF fits THEN w.s.headPos + 1 ELSE w.s.headPos
           completes == k = w.req.headUnits - 1
           h == [w EXCEPT !.s.headPos = pos]
           v == HeadUnit(w, completes)
<1>1. /\ ~(fits /\ completes) => v = h
      /\ \A x : fits /\ completes /\ x = httpdParseHeaders(h) =>
            v = IF x.s.post.len = 0 THEN httpdProcessRequest(x) ELSE x
    BY HeadUnitIs
<1>3. /\ Standing(h, k + 1) /\ Advanced(w, h) /\ h.s.post.len = -1 /\ h.req = w.req
      /\ fits /\ completes => w.req.headUnits <= MAX_HEAD_LEN
    BY HeadUnitIs
<1>2. Shape(w)
    BY DEF Standing
<1> HIDE DEF h
<1>4. CASE ~(fits /\ completes)
    BY <1>1, <1>3, <1>4
<1>5. CASE fits /\ completes
    <2>1. PICK x : x = httpdParseHeaders(h)
        OBVIOUS
    <2>2. /\ Standing(x, k + 1) /\ x.s.post.len \in Nat /\ x.s.cgi = NoHandler
          /\ Advanced(h, x)
        BY <1>3, <1>5, <2>1, ParseKeeps
    <2>3. v = IF x.s.post.len = 0 THEN httpdProcessRequest(x) ELSE x
        BY <1>1, <1>5, <2>1
    <2>4. Advanced(w, x)
        BY <1>3, <2>2 DEF Advanced, Standing, Shape, Spare, SpareOf, One
    <2>5. CASE x.s.post.len # 0 \/ x.s.url = NULL
        <3>1. v = x
            BY <2>3, <2>5, Zenon DEF httpdProcessRequest
        <3> QED BY <2>2, <2>4, <3>1
    <2>6. CASE x.s.post.len = 0 /\ x.s.url # NULL
        <3>1. NoBody(x.s) /\ ~Held(x.s) /\ ~(x.req.headUnits > MAX_HEAD_LEN)
            BY <2>2, <2>6, HttpdAssumption DEF Standing, Progress, HeadIn, Held, NoHandler, ReqOK
        <3>2. Ready(x)
            BY <2>6, <3>1, HttpdAssumption DEF Ready, NoBody
        <3>3. /\ Kept(x, v) /\ v.heap = x.heap + One(Held(v.s))
              /\ v.s.cgi # NoHandler => Continues(v)
            BY <2>2, <2>3, <2>6, <3>2, ProcessKeeps DEF Standing
        <3>4. v.s.post = x.s.post /\ v.s.cgi # "cgiUploadFirmware"
            BY <2>6, <3>3, HttpdAssumption DEF Kept, Same, Continues, NoHandler
        <3>5. Progress(v.s, v.req, k + 1)
            <4>1. HeadIn(v.s, v.req, k + 1)
                BY <2>6, <3>1, <3>3, <3>4 DEF HeadIn, Kept, Same
            <4> QED BY <2>6, <3>1, <3>4, <4>1 DEF Progress, NoBody
        <3>6. Spare(v) = Spare(x) /\ Spare(x) \in Int
            BY <2>2, <3>1, <3>3, <3>4 DEF Standing, Shape, One, Spare, SpareOf
        <3> HIDE DEF v
        <3>7. Standing(v, k + 1) /\ Advanced(x, v)
            BY <2>2, <3>1, <3>3, <3>5, <3>6 DEF Standing, Advanced, Kept, Same
        <3>8. Advanced(w, v)
            BY <1>3, <1>5, <2>2, <2>4, <3>6, <3>7, HttpdAssumption DEF Advanced, Standing, ReqOK
        <3> QED BY <3>7, <3>8 DEF v
    <2> QED BY <2>2, <2>5, <2>6
<1> QED BY <1>4, <1>5

\* A unit of the body, with the chunk it may complete.
LEMMA BodyKeeps ==
    ASSUME NEW w, NEW k \in Nat, Standing(w, k), w.s.post.len > 0, k < RequestLen(w.req),
           userbin \in Userbins, NEW p \in Clients
    PROVE  LET v == BodyUnit(w, Content(p, w.req, k - w.req.headUnits))
           IN  Standing(v, k + 1) /\ Advanced(w, v)
<1> DEFINE content == Content(p, w.req, k - w.req.headUnits)
           post == w.s.post
           data == Append(post.data, content)
           n == post.received + 1
           y == [w EXCEPT !.s.post.data = data, !.s.post.received = n]
           Handle(x) == IF ChunkReady(x.s.post)
                        THEN [httpdProcessRequest(x) EXCEPT !.s.post.data = <<>>]
                        ELSE x
           v == BodyUnit(w, content)
<1>1. v = IF ChunkReady(y.s.post) THEN [httpdProcessRequest(y) EXCEPT !.s.post.data = <<>>] ELSE y
    <2>1. v = Then(y, Handle)
        BY Zenon DEF BodyUnit
    <2> HIDE DEF y
    <2> QED BY <2>1, Zenon DEF Then
<1>2. Shape(w) /\ DOMAIN w.s = SlotFields /\ post \in Post /\ AtBody(w.s, w.req, k)
    BY DEF Standing, Shape, SlotOK, Progress
<1>3. content \in Clients \X Int
    <2>1. k - w.req.headUnits \in Int /\ Junk \in Int
        BY DEF Standing, ReqOK, Junk
    <2> QED BY <2>1 DEF Content
<1>4. /\ n = (k + 1) - w.req.headUnits /\ n \in Nat /\ n <= post.len /\ n > 0
      /\ post.received < post.len
    <2>1. w.req.headUnits \in Nat /\ w.req.contentLength \in Nat /\ post.len = w.req.contentLength
        BY <1>2, SectorAssumption DEF Standing, ReqOK, AtBody
    <2>2. RequestLen(w.req) = w.req.headUnits + w.req.contentLength
        BY <2>1, MaxIs DEF RequestLen
    <2>3. post.received \in Nat /\ post.received = k - w.req.headUnits
        BY <1>2 DEF AtBody, Post
    <2> QED BY <2>1, <2>2, <2>3
<1>5. /\ data \in Seq(Clients \X Int) /\ Len(data) = Len(post.data) + 1 /\ Len(post.data) \in Nat
      /\ Len(data) \in Nat /\ Len(data) > 0 /\ Len(data) <= n
    <2>1. post.data \in Seq(Clients \X Int) /\ Len(post.data) \in Nat
          /\ Len(post.data) <= post.received /\ post.received \in Nat
        BY <1>2 DEF Post, AtBody
    <2>2. data \in Seq(Clients \X Int) /\ Len(data) = Len(post.data) + 1
        BY <1>3, <2>1
    <2> HIDE DEF data, post
    <2>3. \A a, b, r \in Nat : a <= r /\ b = a + 1 => b > 0 /\ b <= r + 1 /\ b \in Nat
        OBVIOUS
    <2>4. Len(data) \in Nat
        BY <2>2
    <2> QED BY <2>1, <2>2, <2>3, <2>4 DEF n
<1>6. ~CalledAgain(w.req) => w.s.cgi \in {NoHandler, "cgiUploadFirmware"} /\ ~Held(w.s)
    BY <1>2, <1>4 DEF AtBody, Held, NoHandler
<1>0. HeadIn(w.s, w.req, k) /\ ~(w.req.headUnits > MAX_HEAD_LEN)
    BY HttpdAssumption DEF Standing, Progress, HeadIn, ReqOK
<1> HIDE DEF content, data, n
<1>7. y.s = [w.s EXCEPT !.post = [post EXCEPT !.data = data, !.received = n]]
    BY <1>2 DEF Shape, WorldFields, SlotFields
<1>8. /\ DOMAIN y = WorldFields /\ y.req = w.req /\ y.aborted = w.aborted /\ y.fault = w.fault
      /\ y.packets = w.packets /\ y.heap = w.heap /\ y.flash = w.flash
      /\ y.rebooting = w.rebooting /\ y.struck = w.struck /\ y.failed = w.failed
    BY <1>2 DEF Shape, WorldFields
<1> HIDE DEF y, Handle, v
<1>9. /\ y.s.cgi = w.s.cgi /\ y.s.cgiData = w.s.cgiData /\ y.s.headPos = w.s.headPos
      /\ y.s.url = w.s.url /\ y.s.post = [post EXCEPT !.data = data, !.received = n]
      /\ DOMAIN y.s = SlotFields
    BY <1>2, <1>7 DEF SlotFields
<1>10. /\ y.s.post \in Post /\ y.s.post.data = data /\ y.s.post.received = n
       /\ y.s.post.len = post.len /\ y.s.post.buff = post.buff /\ y.s.post.buffSize = post.buffSize
    <2> HIDE DEF post
    <2> QED BY <1>2, <1>4, <1>5, <1>9 DEF Post
<1>11. /\ Shape(y) /\ Advanced(w, y) /\ ~y.aborted /\ y.fault \in Faults
       /\ ReqOK(y.req) /\ Held(y.s) = Held(w.s) /\ Spare(w) \in Int /\ Spare(y) = Spare(w)
    <2>1. Shape(y) /\ ~y.aborted /\ y.fault \in Faults /\ ReqOK(y.req) /\ Held(y.s) = Held(w.s)
        BY <1>2, <1>8, <1>9, <1>10 DEF Shape, SlotOK, Held, Standing
    <2>2. Spare(w) \in Int /\ Spare(y) = Spare(w)
        BY <1>2, <1>8, <1>10, <2>1 DEF Shape, Spare, SpareOf, One
    <2> QED BY <1>8, <2>1, <2>2 DEF Advanced, Safe
<1>12. /\ post.buffSize \in Nat \ {0} /\ post.len \in Nat /\ post.len = w.req.contentLength
       /\ post.buffSize = Min({post.len, MAX_POST}) /\ post.buff
       /\ post.len > post.buffSize => post.len > MAX_POST
    <2>1. post.len \in Nat \ {0} /\ MAX_POST \in Nat \ {0}
        BY <1>2, HttpdAssumption, SectorAssumption DEF Post
    <2> QED BY <1>2, <2>1, MinIs DEF AtBody
<1>14. CASE ~ChunkReady(y.s.post)
    <2>1. v = y
        BY <1>1, <1>14
    <2>2. Len(data) < post.buffSize /\ n # post.len
        <3>1. ~(Len(data) >= post.buffSize) /\ n # post.len
            BY <1>10, <1>14 DEF ChunkReady
        <3> HIDE DEF post
        <3> QED BY <1>5, <1>12, <3>1
    <2>3. w.s.cgi = "cgiUploadFirmware" => Len(post.data) < post.received
        BY <1>2 DEF AtBody
    <2>4. w.s.cgi = "cgiUploadFirmware" => Len(data) < n
        BY <1>2, <1>5, <2>3 DEF n, Post
    <2>5. w.s.url \in {w.req.url, NULL}
        BY <1>2 DEF AtBody
    <2>6. n \in 0 .. post.len
        BY <1>4, <1>12
    <2> HIDE DEF post
    <2>7. AtBody(y.s, y.req, k + 1)
        <3>1. /\ y.s.post.buff /\ y.s.post.len = y.req.contentLength
              /\ y.s.post.buffSize = Min({y.s.post.len, MAX_POST})
            BY <1>8, <1>10, <1>12
        <3>2. /\ y.s.post.received = (k + 1) - y.req.headUnits
              /\ y.s.post.received \in 0 .. y.s.post.len
            BY <1>4, <1>8, <1>10, <2>6
        <3>3. Len(y.s.post.data) <= y.s.post.received /\ Len(y.s.post.data) < y.s.post.buffSize
            BY <1>5, <1>10, <2>2
        <3>4. /\ ~CalledAgain(y.req) => y.s.cgi \in {NoHandler, "cgiUploadFirmware"}
              /\ y.s.url \in {y.req.url, NULL}
            BY <1>6, <1>8, <1>9, <2>5
        <3>5. y.s.cgi = "cgiUploadFirmware" => Len(y.s.post.data) < y.s.post.received
            BY <1>9, <1>10, <2>4
        <3> QED BY <3>1, <3>2, <3>3, <3>4, <3>5, AtBodyIs
    <2>8. Progress(y.s, y.req, k + 1)
        <3>1. HeadIn(y.s, y.req, k + 1)
            BY <1>0, <1>8, <1>10 DEF HeadIn, post
        <3> QED BY <1>10, <1>12, <2>7, <3>1 DEF Progress, post
    <2> QED BY <1>11, <2>1, <2>8 DEF Standing, v, content
<1>15. CASE ChunkReady(y.s.post)
    <2>1. PICK z : z = httpdProcessRequest(y)
        OBVIOUS
    <2>2. v = [z EXCEPT !.s.post.data = <<>>]
        BY <1>1, <1>15, <2>1
    <2>3. /\ Kept(y, z)
          /\ Spare(z) >= Spare(y) /\ (~CalledAgain(w.req) => Spare(z) = Spare(y))
          /\ ~CalledAgain(w.req) /\ y.s.url \in {"/flash/upload", NULL} =>
                z.s.cgi \in {NoHandler, "cgiUploadFirmware"}
        <3>1. CASE y.s.url = NULL
            <4>1. z = y
                BY <2>1, <3>1, Zenon DEF httpdProcessRequest
            <4> QED BY <1>6, <1>9, <1>11, <4>1, KeptRefl
        <3>2. CASE y.s.url # NULL
            <4>1. Ready(y)
                <5> HIDE DEF post
                <5> QED BY <1>5, <1>10 DEF Ready
            <4>2. /\ Kept(y, z) /\ z.heap = y.heap + One(Held(z.s))
                  /\ y.s.url = "/flash/upload" => z.s.cgi \in {NoHandler, "cgiUploadFirmware"}
                BY <1>11, <2>1, <3>2, <4>1, ProcessKeeps
            <4>3. z.s.post = y.s.post /\ y.heap \in Int
                BY <1>11, <4>2 DEF Kept, Same, Shape
            <4>4. Spare(z) >= Spare(y) /\ (~Held(y.s) => Spare(z) = Spare(y))
                BY <4>2, <4>3 DEF Spare, SpareOf, One
            <4> QED BY <1>6, <1>11, <3>2, <4>2, <4>4
        <3> QED BY <3>1, <3>2
    <2>4. Shape(z) /\ z.s.post = y.s.post /\ z.s.url = y.s.url /\ z.req = w.req
          /\ ~z.aborted /\ z.fault \in Faults /\ DOMAIN z.s = SlotFields
        BY <1>8, <1>11, <2>3 DEF Kept, Same, Shape, SlotOK
    <2>5. v.s = [z.s EXCEPT !.post = [z.s.post EXCEPT !.data = <<>>]]
        BY <2>2, <2>4 DEF Shape, WorldFields
    <2>6. /\ DOMAIN v = WorldFields /\ v.req = z.req /\ v.aborted = z.aborted /\ v.fault = z.fault
          /\ v.packets = z.packets /\ v.heap = z.heap /\ v.flash = z.flash
          /\ v.rebooting = z.rebooting /\ v.struck = z.struck /\ v.failed = z.failed
        BY <2>2, <2>4 DEF Shape, WorldFields
    <2>7. /\ v.s.cgi = z.s.cgi /\ v.s.cgiData = z.s.cgiData /\ v.s.headPos = z.s.headPos
          /\ v.s.url = z.s.url /\ v.s.post = [y.s.post EXCEPT !.data = <<>>]
          /\ DOMAIN v.s = SlotFields
        BY <2>4, <2>5 DEF SlotFields
    <2>8. /\ v.s.post \in Post /\ v.s.post.data = <<>> /\ v.s.post.received = n
          /\ v.s.post.len = post.len /\ v.s.post.buff = post.buff
          /\ v.s.post.buffSize = post.buffSize
        <3>1. PICK b : b = y.s.post
            OBVIOUS
        <3>2. b \in Post /\ v.s.post = [b EXCEPT !.data = <<>>]
            BY <1>10, <2>7, <3>1
        <3>3. <<>> \in Seq(Clients \X Int)
            OBVIOUS
        <3>4. /\ v.s.post \in Post /\ v.s.post.data = <<>> /\ v.s.post.received = b.received
              /\ v.s.post.len = b.len /\ v.s.post.buff = b.buff /\ v.s.post.buffSize = b.buffSize
            BY <3>2, <3>3 DEF Post
        <3> QED BY <1>10, <3>1, <3>4
    <2>9. Shape(v) /\ Held(v.s) = Held(z.s) /\ v.flash = z.flash /\ (Safe(z) => Safe(v))
        BY <2>4, <2>6, <2>7, <2>8 DEF Shape, SlotOK, Safe, Held
    <2>11. Spare(v) = Spare(z)
        BY <1>10, <2>4, <2>6, <2>8, <2>9 DEF Spare, SpareOf
    <2>10. Advanced(w, v)
        BY <1>0, <1>11, <2>3, <2>4, <2>6, <2>9, <2>11 DEF Advanced, Kept, Same
    <2>12. n < post.len /\ ~CalledAgain(w.req) => v.s.cgi \in {NoHandler, "cgiUploadFirmware"}
        <3> SUFFICES ASSUME n < post.len, ~CalledAgain(w.req)
                     PROVE  v.s.cgi \in {NoHandler, "cgiUploadFirmware"}
            OBVIOUS
        <3>1. Len(data) >= post.buffSize
            BY <1>4, <1>10, <1>12, <1>15 DEF ChunkReady
        <3>2. post.len > MAX_POST
            <4> HIDE DEF post
            <4>1. post.len > post.buffSize
                BY <1>4, <1>5, <1>12, <3>1
            <4> QED BY <1>12, <4>1
        <3>3. w.req.url = "/flash/upload"
            BY <1>12, <3>2 DEF CalledAgain
        <3>4. y.s.url \in {"/flash/upload", NULL}
            BY <1>2, <1>9, <3>3 DEF AtBody
        <3> QED BY <2>3, <2>7, <3>4
    <2>13. w.s.url \in {w.req.url, NULL} /\ n \in 0 .. post.len /\ Len(<<>>) = 0
        BY <1>2, <1>4, <1>12 DEF AtBody
    <2> HIDE DEF post
    <2>14. AtBody(v.s, v.req, k + 1)
        <3>1. /\ v.s.post.buff /\ v.s.post.len = v.req.contentLength
              /\ v.s.post.buffSize = Min({v.s.post.len, MAX_POST})
            BY <1>12, <2>4, <2>6, <2>8
        <3>2. /\ v.s.post.received = (k + 1) - v.req.headUnits
              /\ v.s.post.received \in 0 .. v.s.post.len
            BY <1>4, <2>4, <2>6, <2>8, <2>13
        <3>3. /\ Len(v.s.post.data) <= v.s.post.received /\ Len(v.s.post.data) < v.s.post.buffSize
              /\ Len(v.s.post.data) < v.s.post.received
            BY <1>4, <1>12, <2>8, <2>13
        <3>4. v.s.url \in {v.req.url, NULL}
            BY <1>9, <2>4, <2>6, <2>7, <2>13
        <3>5. v.s.post.received < v.s.post.len /\ ~CalledAgain(v.req) =>
                 v.s.cgi \in {NoHandler, "cgiUploadFirmware"}
            BY <2>4, <2>6, <2>8, <2>12
        <3> QED BY <3>1, <3>2, <3>3, <3>4, <3>5, AtBodyIs
    <2>15. Progress(v.s, v.req, k + 1)
        <3>1. HeadIn(v.s, v.req, k + 1)
            BY <1>0, <2>4, <2>6, <2>8 DEF HeadIn, post
        <3> QED BY <1>12, <2>8, <2>14, <3>1 DEF Progress, post
    <2> QED BY <1>11, <2>4, <2>6, <2>9, <2>10, <2>15, <1>8 DEF Standing, v, content
<1> QED BY <1>14, <1>15

\* Any unit of a request.
LEMMA UnitKeeps ==
    ASSUME NEW w, NEW k \in Nat, Standing(w, k), k < RequestLen(w.req),
           userbin \in Userbins, NEW p \in Clients
    PROVE  LET v == RecvUnit(p, w, k) IN Standing(v, k + 1) /\ Advanced(w, v)
<1>1. w.s.post.len \in Int /\ w.s.post.len >= -1
    BY SectorAssumption DEF Standing, Shape, SlotOK, Post
<1>5. Spare(w) \in Int
    BY DEF Standing, Shape, Spare, SpareOf, One
<1>2. CASE w.s.post.len = -1
    <2>1. w.s.post.len < 0
        BY <1>2
    <2>2. RecvUnit(p, w, k) = HeadUnit(w, k = w.req.headUnits - 1)
        BY <2>1, Zenon DEF RecvUnit
    <2> QED BY <1>2, <2>2, HeadKeeps
<1>3. CASE w.s.post.len > 0
    <2>1. RecvUnit(p, w, k) = BodyUnit(w, Content(p, w.req, k - w.req.headUnits))
        BY <1>1, <1>3 DEF RecvUnit
    <2> QED BY <1>3, <2>1, BodyKeeps
<1>4. CASE w.s.post.len = 0
    <2>1. RecvUnit(p, w, k) = w
        BY <1>4 DEF RecvUnit
    <2>2. Progress(w.s, w.req, k + 1)
        BY <1>4 DEF Standing, Progress, HeadIn
    <2> QED BY <1>5, <2>1, <2>2 DEF Standing, Advanced
<1> QED BY <1>1, <1>2, <1>3, <1>4

ClientFields == {"req", "packets", "got", "lost"}

WebTypes ==
    /\ DOMAIN slot = Slots /\ heap \in [Slots -> Nat]
    /\ DOMAIN client = Clients /\ arrived \in [Clients -> Nat] /\ acked \in [Clients -> Nat]
    /\ DOMAIN flash = Userbins /\ userbin \in Userbins
    /\ rebooting \in BOOLEAN /\ failed \in BOOLEAN /\ alone \subseteq Clients
    /\ repeats \subseteq Slots

ClientFine(p) ==
    /\ DOMAIN client[p] = ClientFields /\ client[p].packets \in Nat
    /\ acked[p] <= client[p].packets
    /\ link[p] = "closed" => acked[p] = 0 /\ arrived[p] = 0
    /\ link[p] \in {"open", "closing"} => client[p].req \in Requests[p]
    /\ client[p].req # NULL /\ client[p].req.headUnits > MAX_HEAD_LEN => client[p].packets = 0

SlotFine(i) ==
    /\ SlotOK(slot[i])
    /\ SpareOf(slot[i], heap[i]) >= 0
    /\ i \notin repeats => SpareOf(slot[i], heap[i]) = 0
    /\ slot[i].post.received \in 0 .. Max({slot[i].post.len, 0})
    /\ conn[i] = NULL => slot[i].cgi = NoHandler /\ ~slot[i].post.buff
    /\ conn[i] # NULL => Progress(slot[i], client[conn[i]].req, arrived[conn[i]])
    /\ conn[i] # NULL /\ CalledAgain(client[conn[i]].req) => i \in repeats

SafeToBoot == rebooting /\ ~failed => check_header(flash[Other][0])

\* The invariant, and what of it is not the pool, which has lemmas of its own.
Fine ==
    /\ WebTypes
    /\ \A p \in Clients : ClientFine(p)
    /\ \A i \in Slots : SlotFine(i)
    /\ SafeToBoot

WebInv == PoolInv /\ Fine

\* What clients send.
LEMMA ReqIsOK == \A p \in Clients : \A req \in Requests[p] : ReqOK(req)
    BY RequestsAssumption DEF ReqOK

\* The slot of a connection, when its callback begins.
LEMMA OwnSlot ==
    ASSUME WebInv, NEW p \in Clients, link[p] = "open", NEW i \in Find(p)
    PROVE  /\ i \in Slots /\ conn[i] = p /\ remote[i] = p /\ p # NULL
           /\ \A j \in Slots : conn[j] = p => j = i
           /\ ReqOK(client[p].req) /\ Progress(slot[i], client[p].req, arrived[p])
           /\ SlotFine(i)
<1>1. PoolInv /\ i \in Slots /\ remote[i] = p
    BY FindIsOwner DEF WebInv, Fine
<1>2. conn[i] = p /\ p # NULL
    BY <1>1, HttpdAssumption DEF PoolInv, SlotOwnership
<1>3. \A j \in Slots : conn[j] = p => j = i
    BY <1>1, <1>2 DEF PoolInv, SlotOwnership
<1>4. SlotFine(i) /\ ClientFine(p)
    BY <1>1 DEF WebInv, Fine
<1> QED BY <1>1, <1>2, <1>3, <1>4, ReqIsOK DEF SlotFine, ClientFine

\* The world a callback begins with.
LEMMA WorldStands ==
    ASSUME WebInv, NEW p \in Clients, link[p] = "open", NEW i \in Find(p), NEW garbage,
           NEW fault \in Faults
    PROVE  LET w == World(i, p, garbage, fault)
           IN  /\ Standing(w, arrived[p]) /\ w.req = client[p].req /\ w.s = slot[i]
               /\ w.flash = flash /\ Safe(w) /\ w.packets = 0
               /\ Spare(w) = SpareOf(slot[i], heap[i])
<1> DEFINE w == World(i, p, garbage, fault)
<1>1. /\ DOMAIN w = WorldFields /\ w.s = slot[i] /\ w.aborted = FALSE /\ w.packets = 0
      /\ w.heap = heap[i] /\ w.flash = flash /\ w.rebooting = rebooting /\ w.req = client[p].req
      /\ w.fault = fault /\ w.struck = FALSE /\ w.failed = failed
    BY DEF World, WorldFields
<1> HIDE DEF w
<1>2. /\ i \in Slots /\ ReqOK(client[p].req) /\ Progress(slot[i], client[p].req, arrived[p])
      /\ SlotFine(i)
    BY OwnSlot
<1>3. Shape(w)
    <2>1. /\ heap[i] \in Int /\ DOMAIN flash = Userbins /\ rebooting \in BOOLEAN
          /\ failed \in BOOLEAN /\ SlotOK(slot[i])
        BY <1>2 DEF SlotFine, WebInv, Fine, WebTypes
    <2>2. SlotOK(w.s) /\ w.packets \in Nat /\ w.heap \in Int /\ DOMAIN w.flash = Userbins
        BY <1>1, <2>1
    <2>3. w.rebooting \in BOOLEAN /\ w.struck \in BOOLEAN /\ w.failed \in BOOLEAN
        BY <1>1, <2>1, Zenon
    <2> QED BY <1>1, <2>2, <2>3, Zenon DEF Shape
<1>4. Standing(w, arrived[p])
    BY <1>1, <1>2, <1>3 DEF Standing, SlotFine
<1>5. Safe(w)
    BY <1>1 DEF Safe, WebInv, Fine, SafeToBoot
<1> QED BY <1>1, <1>4, <1>5 DEF w, Spare

\* No more of a body is received than there is.
LEMMA ReceivedBound ==
    ASSUME NEW s, SlotOK(s), NEW req, NEW k, Progress(s, req, k)
    PROVE  s.post.received \in 0 .. Max({s.post.len, 0})
<1>1. s.post.len \in Int /\ s.post.len >= -1 /\ s.post.received \in Nat
    BY SectorAssumption DEF SlotOK, Post
<1>2. Max({s.post.len, 0}) = IF s.post.len >= 0 THEN s.post.len ELSE 0
    BY <1>1, MaxIs
<1>3. CASE s.post.len > 0
    <2>1. s.post.received \in 0 .. s.post.len
        BY <1>3 DEF Progress, AtBody
    <2> QED BY <1>1, <1>2, <1>3, <2>1
<1>4. CASE s.post.len <= 0
    <2>1. s.post.received = 0
        BY <1>1, <1>4 DEF Progress, AtHead, NoBody
    <2> QED BY <1>1, <1>2, <2>1
<1> QED BY <1>1, <1>3, <1>4

\* A callback that ends with such a world keeps the invariant.
LEMMA FinishKeeps ==
    ASSUME WebInv, NEW p \in Clients, link[p] = "open", NEW i \in Find(p), NEW w, NEW delivered,
           Finish(i, p, w, delivered),
           Shape(w), Progress(w.s, client[p].req, arrived'[p]),
           Spare(w) >= 0, i \notin repeats => Spare(w) = 0,
           client[p].req # NULL /\ client[p].req.headUnits > MAX_HEAD_LEN => w.packets = 0,
           Safe(w), w.flash[userbin] = flash[userbin],
           arrived' \in [Clients -> Nat], \A q \in Clients \ {p} : arrived'[q] = arrived[q],
           acked' \in [Clients -> Nat], \A q \in Clients \ {p} : acked'[q] = acked[q],
           acked'[p] <= client[p].packets
    PROVE  Fine' /\ flash'[userbin] = flash[userbin] /\ userbin' = userbin
<1>1. /\ i \in Slots /\ conn[i] = p /\ p # NULL /\ \A j \in Slots : conn[j] = p => j = i
    BY OwnSlot
<1>2. WebTypes /\ PoolInv
    BY DEF WebInv, Fine
<1>3. conn' = conn /\ UNCHANGED <<link, userbin, repeats>>
    BY <1>2, SameOwner DEF Finish
<1>4. /\ slot' = [slot EXCEPT ![i] = w.s] /\ heap' = [heap EXCEPT ![i] = w.heap]
      /\ flash' = w.flash /\ rebooting' = w.rebooting /\ failed' = w.failed
    BY DEF Finish
<1>5. w.heap \in Nat
    BY DEF Shape, Spare, SpareOf, One
<1>6. alone' \subseteq Clients
    BY <1>2 DEF Finish, WebTypes
<1>7. DOMAIN client' = Clients /\ \A q \in Clients \ {p} : client'[q] = client[q]
    BY <1>2 DEF Finish, WebTypes
<1>8. /\ DOMAIN client'[p] = ClientFields /\ client'[p].packets \in Nat
      /\ client'[p].packets >= client[p].packets /\ client'[p].req = client[p].req
      /\ w.packets = 0 => client'[p].packets = client[p].packets
    <2> DEFINE c == client[p]
    <2>1. client'[p] = Received(c, w, delivered)
        BY <1>2 DEF Finish, WebTypes
    <2>2. DOMAIN c = ClientFields /\ c.packets \in Nat /\ w.packets \in Nat
        BY DEF WebInv, Fine, ClientFine, Shape
    <2> HIDE DEF c
    <2>3. \/ client'[p] = [c EXCEPT !.got = @ \o w.sent, !.packets = @ + w.packets]
          \/ client'[p] = [c EXCEPT !.lost = TRUE]
        BY <2>1, Zenon DEF Received
    <2>4. CASE client'[p] = [c EXCEPT !.got = @ \o w.sent, !.packets = @ + w.packets]
        <3>1. /\ DOMAIN client'[p] = ClientFields /\ client'[p].packets = c.packets + w.packets
              /\ client'[p].req = c.req
            BY <2>2, <2>4 DEF ClientFields
        <3> QED BY <2>2, <3>1 DEF c
    <2>5. CASE client'[p] = [c EXCEPT !.lost = TRUE]
        BY <2>2, <2>5 DEF ClientFields, c
    <2> QED BY <2>3, <2>4, <2>5
<1>9. WebTypes'
    BY <1>1, <1>2, <1>3, <1>4, <1>5, <1>6, <1>7 DEF WebTypes, Shape
<1>10. ASSUME NEW q \in Clients PROVE ClientFine(q)'
    <2>1. ClientFine(q) /\ link' = link
        BY <1>3 DEF WebInv, Fine
    <2>2. CASE q = p
        <3>1. acked'[p] \in Nat /\ client[p].packets \in Nat
            BY <2>1, <2>2 DEF ClientFine
        <3>2. acked'[p] <= client'[p].packets
            BY <1>8, <3>1
        <3>3. client'[p].req # NULL /\ client'[p].req.headUnits > MAX_HEAD_LEN =>
                 client'[p].packets = 0
            BY <1>8, <2>1, <2>2 DEF ClientFine
        <3>4. link[p] = "open"
            OBVIOUS
        <3> QED BY <1>8, <2>1, <2>2, <3>2, <3>3, <3>4 DEF ClientFine
    <2>3. CASE q # p
        BY <1>7, <2>1, <2>3 DEF ClientFine
    <2> QED BY <2>2, <2>3
<1>11. ASSUME NEW j \in Slots PROVE SlotFine(j)'
    <2>1. SlotFine(j)
        BY DEF WebInv, Fine
    <2>2. CASE j = i
        <3>1. slot'[j] = w.s /\ heap'[j] = w.heap /\ conn'[j] = p
            BY <1>1, <1>2, <1>3, <1>4, <2>2 DEF WebTypes
        <3>2. Progress(slot'[j], client'[p].req, arrived'[p])
            BY <1>8, <3>1
        <3>3. SlotOK(slot'[j])
            BY <3>1 DEF Shape
        <3>4. slot'[j].post.received \in 0 .. Max({slot'[j].post.len, 0})
            BY <3>2, <3>3, ReceivedBound
        <3>5. SpareOf(slot'[j], heap'[j]) = Spare(w)
            BY <3>1 DEF Spare
        <3>6. CalledAgain(client'[p].req) => j \in repeats'
            BY <1>1, <1>3, <1>8, <2>1, <2>2 DEF SlotFine
        <3> QED BY <1>1, <1>3, <2>2, <3>1, <3>2, <3>3, <3>4, <3>5, <3>6 DEF SlotFine
    <2>3. CASE j # i
        <3>1. slot'[j] = slot[j] /\ heap'[j] = heap[j] /\ conn'[j] = conn[j]
            BY <1>2, <1>3, <1>4, <2>3 DEF WebTypes
        <3>2. conn[j] # NULL => conn[j] \in Clients \ {p}
            BY <1>1, <1>2, <2>3 DEF PoolInv, PoolTypes
        <3>3. conn[j] # NULL => /\ client'[conn[j]] = client[conn[j]]
                               /\ arrived'[conn[j]] = arrived[conn[j]]
            BY <1>7, <3>2
        <3> QED BY <1>3, <2>1, <3>1, <3>3 DEF SlotFine
    <2> QED BY <2>2, <2>3
<1>12. SafeToBoot'
    BY <1>3, <1>4 DEF SafeToBoot, Safe, Other
<1> QED BY <1>3, <1>4, <1>9, <1>10, <1>11, <1>12 DEF Fine

Steady == flash'[userbin] = flash[userbin] /\ userbin' = userbin

\* The loop over the units that arrived together.
LEMMA LoopKeeps ==
    ASSUME NEW p \in Clients, NEW base \in Nat, NEW n \in Nat, NEW rcv,
           userbin \in Userbins,
           Standing(rcv[0], base),
           base + n <= RequestLen(rcv[0].req),
           \A k \in 1 .. n : rcv[k] = RecvUnit(p, rcv[k - 1], base + k - 1)
    PROVE  Standing(rcv[n], base + n) /\ Advanced(rcv[0], rcv[n])
<1> DEFINE Good(k) == Standing(rcv[k], base + k) /\ Advanced(rcv[0], rcv[k])
           Bad == {k \in 0 .. n : ~Good(k)}
<1>1. Bad = {}
    <2> SUFFICES ASSUME Bad # {} PROVE FALSE
        OBVIOUS
    <2>1. Bad \subseteq Nat
        OBVIOUS
    <2>2. PICK k \in Bad : k = 0 \/ (k - 1 \in Nat /\ k - 1 \notin Bad)
        BY <2>1, LeastNat
    <2>0. \A m : Standing(rcv[m], base + m) => Spare(rcv[m]) \in Int
        BY DEF Standing, Shape, Spare, SpareOf, One
    <2>3. Good(0)
        BY <2>0 DEF Advanced
    <2>4. CASE k # 0
        <3>1. k - 1 \in 0 .. n /\ k \in 1 .. n /\ Good(k - 1)
            BY <2>2, <2>4
        <3>2. RequestLen(rcv[0].req) \in Int
            <4>1. rcv[0].req.headUnits \in Int /\ rcv[0].req.contentLength \in Int
                BY SectorAssumption DEF Standing, ReqOK
            <4> QED BY <4>1, MaxIs DEF RequestLen
        <3>3. base + (k - 1) \in Nat /\ base + (k - 1) < RequestLen(rcv[k - 1].req)
              /\ base + k = (base + (k - 1)) + 1 /\ base + k - 1 = base + (k - 1)
            BY <3>1, <3>2 DEF Advanced
        <3>4. rcv[k] = RecvUnit(p, rcv[k - 1], base + (k - 1))
            BY <3>1, <3>3
        <3>5. Standing(rcv[k], base + k) /\ Advanced(rcv[k - 1], rcv[k])
            BY <3>1, <3>3, <3>4, UnitKeeps
        <3>6. Advanced(rcv[0], rcv[k])
            <4>1. /\ Spare(rcv[0]) \in Int /\ Spare(rcv[k - 1]) \in Int /\ Spare(rcv[k]) \in Int
                BY <2>0, <3>1, <3>5
            <4> QED BY <3>1, <3>5, <4>1 DEF Advanced
        <3> QED BY <2>2, <3>5, <3>6
    <2> QED BY <2>2, <2>3, <2>4
<1> QED BY <1>1

LEMMA RecvKeepsWeb ==
    ASSUME WebInv, NEW p \in Clients, NEW n \in Nat, NEW garbage,
           NEW fault \in Faults, NEW delivered, httpdRecvCb(p, n, garbage, fault, delivered)
    PROVE  Fine' /\ Steady
<1>1. PICK i, rcv :
           /\ i \in Find(p)
           /\ rcv[0] = World(i, p, garbage, fault)
           /\ \A k \in 1 .. n : rcv[k] = RecvUnit(p, rcv[k - 1], arrived[p] + k - 1)
           /\ Finish(i, p, rcv[n], delivered)
    <2>1. ReceivesBy(p, n, garbage, fault, delivered)
        BY RecvIs
    <2> QED BY <2>1 DEF ReceivesBy
<1>2. /\ link[p] = "open" /\ arrived[p] + n <= RequestLen(client[p].req)
      /\ arrived' = [arrived EXCEPT ![p] = @ + n] /\ acked' = acked
    BY DEF httpdRecvCb
<1>3. WebTypes /\ ClientFine(p)
    BY DEF WebInv, Fine
<1>4. /\ Standing(rcv[0], arrived[p]) /\ rcv[0].req = client[p].req /\ rcv[0].flash = flash
      /\ Safe(rcv[0]) /\ rcv[0].packets = 0 /\ Spare(rcv[0]) = SpareOf(slot[i], heap[i])
    BY <1>1, <1>2, WorldStands
<1>5. Standing(rcv[n], arrived[p] + n) /\ Advanced(rcv[0], rcv[n])
    <2>1. arrived[p] \in Nat /\ userbin \in Userbins
        BY <1>3 DEF WebTypes
    <2> QED BY <1>1, <1>2, <1>4, <2>1, LoopKeeps
<1> DEFINE w == rcv[n]
<1>6. w.req = client[p].req /\ w.flash[userbin] = flash[userbin] /\ Safe(w)
    BY <1>4, <1>5 DEF Advanced
<1>7. /\ arrived' \in [Clients -> Nat] /\ arrived'[p] = arrived[p] + n
      /\ \A q \in Clients \ {p} : arrived'[q] = arrived[q]
    BY <1>2, <1>3 DEF WebTypes
<1>8. acked' \in [Clients -> Nat] /\ acked'[p] <= client[p].packets
      /\ \A q \in Clients \ {p} : acked'[q] = acked[q]
    BY <1>2, <1>3 DEF WebTypes, ClientFine
<1> HIDE DEF w
<1>9. Shape(w) /\ Progress(w.s, client[p].req, arrived'[p])
    BY <1>5, <1>6, <1>7 DEF Standing, w
<1>10. /\ Spare(w) >= 0 /\ (i \notin repeats => Spare(w) = 0)
       /\ client[p].req.headUnits > MAX_HEAD_LEN => w.packets = 0
    <2>1. conn[i] = p /\ p # NULL /\ SlotFine(i)
        BY <1>1, <1>2, OwnSlot
    <2>2. /\ Spare(w) >= Spare(rcv[0])
          /\ ~CalledAgain(client[p].req) => Spare(w) = Spare(rcv[0])
          /\ client[p].req.headUnits > MAX_HEAD_LEN => w.packets = 0
        BY <1>4, <1>5 DEF Advanced, w
    <2>3. Spare(w) \in Int /\ Spare(rcv[0]) \in Int
        BY <1>4, <1>9 DEF Standing, Shape, Spare, SpareOf, One
    <2>4. /\ SpareOf(slot[i], heap[i]) >= 0 /\ (i \notin repeats => SpareOf(slot[i], heap[i]) = 0)
          /\ CalledAgain(client[p].req) => i \in repeats
        BY <2>1 DEF SlotFine
    <2> QED BY <1>4, <2>2, <2>3, <2>4
<1> QED BY <1>1, <1>2, <1>6, <1>7, <1>8, <1>9, <1>10, FinishKeeps DEF w, Steady

\* A handler that goes on, or is done.
LEMMA ProgressOn ==
    ASSUME NEW s, NEW t, NEW req, NEW k, Progress(s, req, k),
           t.post = s.post, t.url = s.url, t.headPos = s.headPos, t.cgi \in {s.cgi, NoHandler}
    PROVE  Progress(t, req, k)
<1>1. AtHead(s) => AtHead(t)
    BY DEF AtHead
<1>2. NoBody(s) => NoBody(t)
    BY DEF NoBody, NoHandler
<1>3. AtBody(s, req, k) => AtBody(t, req, k)
    BY DEF AtBody, NoHandler
<1> QED BY <1>1, <1>2, <1>3 DEF Progress, HeadIn

\* The sent callback.
LEMMA GoOnKeeps ==
    ASSUME NEW w, NEW k, Standing(w, k), w.s.cgi # NoHandler, userbin \in Userbins,
           NEW v, NEW x, v = CallCgi(w),
           x = IF v.r = "MORE" THEN xmitSendBuff(v)
               ELSE [xmitSendBuff(v) EXCEPT !.s.cgi = NoHandler]
    PROVE  Kept(w, x) /\ Progress(x.s, w.req, k) /\ Spare(x) = Spare(w)
<1>1. Shape(w) /\ w.s.cgi \in Handlers /\ ~w.aborted /\ w.fault \in Faults
    BY DEF Standing, Shape, SlotOK
<1>2. w.s.cgi = "cgiUploadFirmware" => Ready(w)
    <2> SUFFICES ASSUME w.s.cgi = "cgiUploadFirmware" PROVE Ready(w)
        OBVIOUS
    <2>1. w.s.post.len \in Int /\ w.s.post.len >= -1 /\ w.s.post.received \in Nat
          /\ Len(w.s.post.data) \in Nat
        <3>1. PICK b : b = w.s.post
            OBVIOUS
        <3>2. b \in Post
            BY <1>1, <3>1 DEF Shape, SlotOK
        <3>3. b.len \in Int /\ b.len >= -1 /\ b.received \in Nat /\ b.data \in Seq(Clients \X Int)
            BY <3>2, SectorAssumption DEF Post
        <3>4. Len(b.data) \in Nat
            BY <3>3
        <3> QED BY <3>1, <3>3, <3>4
    <2>2. w.s.post.len # -1 /\ w.s.post.len # 0
        BY DEF Standing, Progress, AtHead, NoBody, NoHandler
    <2>3. Len(w.s.post.data) < w.s.post.received
        BY <2>1, <2>2 DEF Standing, Progress, AtBody
    <2> QED BY <2>1, <2>3 DEF Ready
<1>3. Kept(w, v) /\ v.s.cgi = w.s.cgi /\ Balanced(w, v, Held(w.s))
    BY <1>1, <1>2, CgiKeeps
<1>4. w.heap \in Int /\ Spare(w) \in Int
    BY <1>1 DEF Shape, Spare, SpareOf, One
<1>5. v.s.post = w.s.post
    BY <1>3 DEF Kept, Same
<1>6. v.heap = One(v.r = "MORE" /\ Held(v.s)) + One(w.s.post.buff) + Spare(w)
    BY <1>3, <1>4 DEF Balanced, One, Spare, SpareOf
<1>7. PICK t : t = xmitSendBuff(v)
    OBVIOUS
<1>8. Kept(v, t) /\ t.s = v.s /\ t.heap = v.heap
    BY <1>3, <1>7, XmitKeeps DEF Kept
<1>9. Kept(w, t)
    BY <1>1, <1>3, <1>8, KeptTrans
<1>10. /\ Kept(w, x) /\ x.s.cgi \in {w.s.cgi, NoHandler}
       /\ x.heap = One(Held(x.s)) + One(x.s.post.buff) + Spare(w)
    <2>1. CASE v.r = "MORE"
        <3>1. x = t
            BY <1>7, <2>1
        <3>2. v.heap = One(Held(v.s)) + One(w.s.post.buff) + Spare(w)
            BY <1>6, <2>1 DEF One
        <3>3. x.s = v.s /\ x.heap = v.heap /\ Kept(w, x)
            BY <1>8, <1>9, <3>1
        <3> QED BY <1>3, <1>5, <3>2, <3>3
    <2>2. CASE v.r # "MORE"
        <3>1. x = [t EXCEPT !.s.cgi = NoHandler]
            BY <1>7, <2>2
        <3>2. Kept(t, x) /\ x.s.cgi = NoHandler /\ x.heap = t.heap /\ x.s.post = t.s.post
            BY <1>8, <3>1 DEF Kept, Same, Safe, Shape, SlotOK, WorldFields, SlotFields
        <3>3. Kept(w, x)
            BY <1>1, <1>9, <3>2, KeptTrans
        <3>4. ~Held(x.s)
            BY <3>2 DEF Held, NoHandler
        <3>5. x.heap = One(w.s.post.buff) + Spare(w)
            BY <1>4, <1>6, <1>8, <2>2, <3>2 DEF One
        <3> QED BY <1>5, <1>8, <3>2, <3>3, <3>4, <3>5, <1>4 DEF One
    <2> QED BY <2>1, <2>2
<1>11. Progress(x.s, w.req, k)
    BY <1>10, ProgressOn DEF Standing, Kept, Same
<1>12. Spare(x) = Spare(w)
    BY <1>4, <1>10 DEF Spare, SpareOf, One
<1> QED BY <1>10, <1>11, <1>12

LEMMA SentKeepsWeb ==
    ASSUME WebInv, NEW p \in Clients, NEW delivered, httpdSentCb(p, delivered)
    PROVE  Fine' /\ Steady
<1>1. link[p] = "open" /\ acked[p] < client[p].packets /\ acked' = [acked EXCEPT ![p] = @ + 1]
      /\ arrived' = arrived
    BY DEF httpdSentCb
<1>2. WebTypes /\ ClientFine(p) /\ PoolInv
    BY DEF WebInv, Fine
<1>3. /\ acked' \in [Clients -> Nat] /\ acked'[p] = acked[p] + 1
      /\ \A q \in Clients \ {p} : acked'[q] = acked[q]
    BY <1>1, <1>2 DEF WebTypes
<1>4. acked'[p] <= client[p].packets
    <2>1. acked[p] \in Nat /\ client[p].packets \in Nat
        BY <1>2 DEF WebTypes, ClientFine
    <2> QED BY <1>1, <1>3, <2>1
<1> DEFINE GoOn(v) == IF v.r = "MORE" THEN xmitSendBuff(v)
                      ELSE [xmitSendBuff(v) EXCEPT !.s.cgi = NoHandler]
<1>5. PICK i \in Find(p) :
        \/ /\ link' = [link EXCEPT ![p] = "closing"] /\ conn' = [conn EXCEPT ![i] = p]
           /\ UNCHANGED <<remote, slot, heap, client, flash, userbin, rebooting, alone, failed,
                          repeats>>
        \/ /\ slot[i].cgi # NoHandler
           /\ \E w : /\ w = Then(CallCgi(World(i, p, FALSE, "none")), GoOn)
                     /\ Finish(i, p, w, delivered)
    BY DEF httpdSentCb
<1> HIDE DEF GoOn
<1>6. CASE /\ link' = [link EXCEPT ![p] = "closing"] /\ conn' = [conn EXCEPT ![i] = p]
           /\ UNCHANGED <<remote, slot, heap, client, flash, userbin, rebooting, alone, failed,
                          repeats>>
    <2>1. conn' = conn
        BY <1>2, <1>6, SameOwner
    <2>2. \A q \in Clients : link'[q] = IF q = p THEN "closing" ELSE link[q]
        BY <1>2, <1>6 DEF PoolInv, PoolTypes
    <2>3. WebTypes'
        BY <1>1, <1>2, <1>3, <1>6 DEF WebTypes
    <2>4. ASSUME NEW q \in Clients PROVE ClientFine(q)'
        <3>1. ClientFine(q)
            BY DEF WebInv, Fine
        <3> QED BY <1>1, <1>3, <1>4, <1>6, <2>2, <3>1 DEF ClientFine
    <2>5. ASSUME NEW j \in Slots PROVE SlotFine(j)'
        <3>1. SlotFine(j)
            BY DEF WebInv, Fine
        <3> QED BY <1>1, <1>6, <2>1, <3>1 DEF SlotFine
    <2>6. SafeToBoot'
        BY <1>6 DEF WebInv, Fine, SafeToBoot, Other
    <2> QED BY <1>6, <2>3, <2>4, <2>5, <2>6 DEF Fine, Steady
<1>7. CASE slot[i].cgi # NoHandler /\ \E w :
                     /\ w = Then(CallCgi(World(i, p, FALSE, "none")), GoOn)
                     /\ Finish(i, p, w, delivered)
    <2>1. PICK x :     /\ x = Then(CallCgi(World(i, p, FALSE, "none")), GoOn)
                       /\ Finish(i, p, x, delivered)
        BY <1>7
    <2>2. PICK w : w = World(i, p, FALSE, "none")
        OBVIOUS
    <2>3. PICK v : v = CallCgi(w)
        OBVIOUS
    <2>4. x = IF v.r = "MORE" THEN xmitSendBuff(v) ELSE [xmitSendBuff(v) EXCEPT !.s.cgi = NoHandler]
        <3>1. x = GoOn(v)
            BY <2>1, <2>2, <2>3 DEF Then
        <3> QED BY <3>1, Zenon DEF GoOn
    <2>5. "none" \in Faults
        BY DEF Faults
    <2>6. /\ Standing(w, arrived[p]) /\ w.req = client[p].req /\ w.s = slot[i]
          /\ w.flash = flash /\ Safe(w) /\ Spare(w) = SpareOf(slot[i], heap[i])
        BY <1>1, <2>2, <2>5, WorldStands
    <2>7. /\ Kept(w, x) /\ Progress(x.s, w.req, arrived[p])
          /\ Spare(x) = Spare(w)
        BY <1>2, <1>7, <2>3, <2>4, <2>6, GoOnKeeps DEF WebTypes
    <2>8. Shape(x) /\ Safe(x) /\ x.flash[userbin] = flash[userbin]
        BY <2>6, <2>7 DEF Kept, Same
    <2>9. arrived' \in [Clients -> Nat] /\ \A q \in Clients \ {p} : arrived'[q] = arrived[q]
        BY <1>1, <1>2 DEF WebTypes
    <2>10. Progress(x.s, client[p].req, arrived'[p])
        BY <1>1, <2>6, <2>7
    <2>11. Spare(x) >= 0 /\ (i \notin repeats => Spare(x) = 0)
        <3>1. SlotFine(i)
            BY <1>1, OwnSlot
        <3>2. /\ SpareOf(slot[i], heap[i]) >= 0
              /\ i \notin repeats => SpareOf(slot[i], heap[i]) = 0
            BY <3>1 DEF SlotFine
        <3> QED BY <2>6, <2>7, <3>2
    <2>12. ~(client[p].req # NULL /\ client[p].req.headUnits > MAX_HEAD_LEN)
        BY <1>1, <1>2 DEF ClientFine, WebTypes
    <2> QED BY <1>1, <1>3, <1>4, <2>1, <2>8, <2>9, <2>10, <2>11, <2>12, FinishKeeps DEF Steady
<1> QED BY <1>5, <1>6, <1>7

\* A slot of a fresh pool.
LEMMA FreeSlotOK == SlotOK(FreeSlot) /\ FreeSlot.cgi = NoHandler /\ ~FreeSlot.post.buff
                      /\ FreeSlot.post.received = 0 /\ FreeSlot.post.len = -1
<1>1. NoPost \in Post
    BY SectorAssumption DEF NoPost, Post
<1> QED BY <1>1, HttpdAssumption
        DEF FreeSlot, SlotOK, SlotFields, NoFile, NoPost, NoHandler

\* A slot nothing happens in.
LEMMA IdleFine ==
    ASSUME NEW s, SlotOK(s), s.cgi = NoHandler, ~s.post.buff
    PROVE  \A n \in Int : SpareOf(s, n) = n
    BY DEF Held, One, NoHandler, SpareOf

\* The pool after a start.
LEMMA StartFine ==
    ASSUME slot = [i \in Slots |-> FreeSlot], heap = [i \in Slots |-> 0],
           conn = [i \in Slots |-> NULL], client = [p \in Clients |-> Gone],
           link = [p \in Clients |-> "closed"], arrived = [p \in Clients |-> 0],
           acked = [p \in Clients |-> 0]
    PROVE  (\A p \in Clients : ClientFine(p)) /\ (\A i \in Slots : SlotFine(i))
<1>1. ASSUME NEW p \in Clients PROVE ClientFine(p)
    BY DEF ClientFine, ClientFields, Gone
<1>2. ASSUME NEW i \in Slots PROVE SlotFine(i)
    <2>1. slot[i] = FreeSlot /\ heap[i] = 0 /\ conn[i] = NULL
        OBVIOUS
    <2>2. SpareOf(slot[i], heap[i]) = 0
        BY <2>1, FreeSlotOK, IdleFine
    <2>3. Max({-1, 0}) = 0
        BY MaxIs
    <2>4. slot[i].post.received \in 0 .. Max({slot[i].post.len, 0})
        BY <2>1, <2>3, FreeSlotOK
    <2> QED BY <2>1, <2>2, <2>4, FreeSlotOK DEF SlotFine
<1> QED BY <1>1, <1>2

LEMMA WebStart == Init => WebInv
<1> SUFFICES ASSUME Init PROVE WebInv
    OBVIOUS
<1>1. WebTypes
    BY DEF Init, WebTypes, Userbins
<1>2. SafeToBoot
    BY DEF Init, SafeToBoot
<1>3. (\A p \in Clients : ClientFine(p)) /\ (\A i \in Slots : SlotFine(i))
    BY StartFine DEF Init
<1> QED BY <1>1, <1>2, <1>3, PoolStart DEF WebInv, Fine

\* A slot that is given to a new connection.
LEMMA ConnectKeepsWeb ==
    ASSUME WebInv, NEW p \in Clients, NEW req \in Requests[p], httpdConnectCb(p, req)
    PROVE  Fine' /\ Steady
<1>1. WebTypes /\ ClientFine(p) /\ PoolInv
    BY DEF WebInv, Fine
<1>2. /\ link[p] = "closed" /\ client' = [client EXCEPT ![p] = [Gone EXCEPT !.req = req]]
      /\ UNCHANGED <<heap, arrived, acked, flash, userbin, rebooting, failed>>
    BY DEF httpdConnectCb
<1>3. /\ acked[p] = 0 /\ arrived[p] = 0 /\ client'[p] = [Gone EXCEPT !.req = req]
      /\ DOMAIN client' = Clients /\ \A q \in Clients \ {p} : client'[q] = client[q]
    BY <1>1, <1>2 DEF WebTypes, ClientFine
<1>4. DOMAIN client'[p] = ClientFields /\ client'[p].packets = 0 /\ client'[p].req = req
    BY <1>3 DEF Gone, ClientFields
<1>5. /\ link'[p] # "closed" /\ \A q \in Clients \ {p} : link'[q] = link[q]
    BY <1>1 DEF httpdConnectCb, PoolInv, PoolTypes
<1>6. ASSUME NEW q \in Clients PROVE ClientFine(q)'
    <2>1. ClientFine(q)
        BY DEF WebInv, Fine
    <2>2. CASE q = p
        <3>1. DOMAIN client'[q] = ClientFields /\ client'[q].packets \in Nat
              /\ acked'[q] <= client'[q].packets /\ link'[q] # "closed"
              /\ client'[q].req \in Requests[q] /\ client'[q].packets = 0
            BY <1>2, <1>3, <1>4, <1>5, <2>2
        <3> QED BY <3>1 DEF ClientFine
    <2>3. CASE q # p
        BY <1>2, <1>3, <1>5, <2>1, <2>3 DEF ClientFine
    <2> QED BY <2>2, <2>3
<1>7. \A j \in Slots : conn[j] # NULL => conn[j] \in Clients \ {p}
    BY <1>1, <1>2 DEF PoolInv, PoolTypes, SlotOwnership
<1>8. ASSUME NEW j \in Slots, UNCHANGED <<slot[j], conn[j]>>, j \in repeats <=> j \in repeats'
      PROVE  SlotFine(j)'
    <2>1. SlotFine(j)
        BY DEF WebInv, Fine
    <2>2. conn[j] # NULL => client'[conn[j]] = client[conn[j]]
        BY <1>3, <1>7
    <2> QED BY <1>2, <1>8, <2>1, <2>2 DEF SlotFine
<1>9. SafeToBoot'
    BY <1>2 DEF WebInv, Fine, SafeToBoot, Other
<1>10. CASE UNCHANGED <<conn, remote, slot, alone, repeats>>
    <2>1. WebTypes'
        BY <1>1, <1>2, <1>3, <1>10 DEF WebTypes
    <2>2. \A j \in Slots : SlotFine(j)'
        BY <1>8, <1>10
    <2> QED BY <1>2, <1>6, <1>9, <2>1, <2>2 DEF Fine, Steady
<1>11. ASSUME NEW i \in FreeSlots, conn' = [conn EXCEPT ![i] = p],
              slot' = [slot EXCEPT ![i] = Prepared(@)], alone' = alone \cup {p},
              repeats' = IF CalledAgain(req) THEN repeats \cup {i} ELSE repeats
       PROVE  Fine' /\ Steady
    <2>1. i \in Slots /\ conn[i] = NULL
        BY DEF FreeSlots
    <2>2. WebTypes'
        BY <1>1, <1>2, <1>3, <1>11, <2>1 DEF WebTypes
    <2>3. ASSUME NEW j \in Slots PROVE SlotFine(j)'
        <3>1. CASE j # i
            <4>1. slot'[j] = slot[j] /\ conn'[j] = conn[j]
                BY <1>1, <1>11, <3>1 DEF WebTypes, PoolInv, PoolTypes
            <4>2. j \in repeats <=> j \in repeats'
                BY <1>11, <3>1
            <4> QED BY <1>8, <4>1, <4>2
        <3>2. CASE j = i
            <4>1. slot'[i] = Prepared(slot[i]) /\ conn'[i] = p
                BY <1>1, <1>11, <2>1 DEF WebTypes, PoolInv, PoolTypes
            <4>2. SlotFine(i)
                BY <2>1 DEF WebInv, Fine
            <4>3. /\ SlotOK(slot[i]) /\ slot[i].cgi = NoHandler /\ ~slot[i].post.buff
                  /\ heap[i] \in Nat /\ (i \notin repeats => heap[i] = 0)
                <5>1. SlotOK(slot[i]) /\ slot[i].cgi = NoHandler /\ ~slot[i].post.buff /\ heap[i] \in Nat
                    BY <1>1, <2>1, <4>2 DEF SlotFine, WebTypes
                <5>2. SpareOf(slot[i], heap[i]) = heap[i]
                    BY <5>1, IdleFine
                <5> QED BY <4>2, <5>1, <5>2 DEF SlotFine
            <4>4. PICK s : s = slot'[i]
                OBVIOUS
            <4>5. s = [slot[i] EXCEPT !.headPos = 0, !.post = NoPost]
                BY <4>1, <4>4 DEF Prepared
            <4>6. /\ DOMAIN s = SlotFields /\ s.cgi = NoHandler /\ s.cgiData = slot[i].cgiData
                  /\ s.headPos = 0 /\ s.post = NoPost
                BY <4>3, <4>5 DEF SlotOK, SlotFields
            <4>7. /\ NoPost \in Post /\ NoPost.len = -1 /\ ~NoPost.buff /\ NoPost.received = 0
                  /\ NoPost.data = <<>>
                BY SectorAssumption DEF NoPost, Post
            <4>8. SlotOK(s)
                BY <4>3, <4>6, <4>7, HttpdAssumption DEF SlotOK
            <4>9. AtHead(s) /\ s.post.len = -1
                BY <4>6, <4>7 DEF AtHead
            <4>10. Progress(s, client'[p].req, arrived'[p])
                <5>1. arrived'[p] = 0 /\ s.headPos = 0 /\ s.post.len = -1
                    BY <1>2, <1>3, <4>6, <4>7
                <5>2. HeadIn(s, client'[p].req, arrived'[p])
                    BY <5>1, HttpdAssumption DEF HeadIn
                <5> QED BY <4>9, <5>2 DEF Progress
            <4>11. SpareOf(s, heap[i]) = heap[i]
                BY <4>3, <4>6, <4>7, <4>8, IdleFine
            <4>12. s.post.received \in 0 .. Max({s.post.len, 0})
                BY <4>8, <4>10, ReceivedBound
            <4>13. p # NULL /\ heap' = heap
                BY <1>2, HttpdAssumption
            <4>14. /\ SpareOf(slot'[i], heap'[i]) >= 0
                   /\ i \notin repeats' => SpareOf(slot'[i], heap'[i]) = 0
                BY <1>11, <4>3, <4>4, <4>11, <4>13
            <4>15. CalledAgain(client'[p].req) => i \in repeats'
                BY <1>4, <1>11
            <4> QED BY <3>2, <4>1, <4>4, <4>8, <4>10, <4>12, <4>13, <4>14, <4>15, <4>6, <4>7
                    DEF SlotFine
        <3> QED BY <3>1, <3>2
    <2> QED BY <1>2, <1>6, <1>9, <2>2, <2>3 DEF Fine, Steady
<1> QED BY <1>10, <1>11 DEF httpdConnectCb

\* The handler of a connection that ended has freed what it held.
LEMMA RetiredIs ==
    ASSUME WebInv, NEW p \in Clients, NEW i \in Slots, conn[i] = p
    PROVE  LET v == Retired(i, p)
           IN  /\ SlotOK(v.s) /\ v.s.post = slot[i].post
               /\ v.heap = One(slot[i].post.buff) + SpareOf(slot[i], heap[i])
<1> DEFINE u == World(i, p, FALSE, "none")
           w == [u EXCEPT !.aborted = TRUE]
           v == Retired(i, p)
<1>1. /\ DOMAIN u = WorldFields /\ u.s = slot[i] /\ u.packets = 0 /\ u.heap = heap[i]
      /\ u.flash = flash /\ u.rebooting = rebooting /\ u.fault = "none"
      /\ u.struck = FALSE /\ u.failed = failed
    BY DEF World, WorldFields
<1>2. v = IF w.s.cgi = NoHandler THEN w ELSE CallCgi(w)
    BY Zenon DEF Retired
<1> HIDE DEF u, v
<1>3. /\ DOMAIN w = WorldFields /\ w.s = slot[i] /\ w.packets = 0 /\ w.heap = heap[i]
      /\ w.flash = flash /\ w.rebooting = rebooting /\ w.fault = "none"
      /\ w.struck = FALSE /\ w.failed = failed /\ w.aborted = TRUE
    BY <1>1 DEF WorldFields
<1> HIDE DEF w
<1>4. SlotFine(i) /\ WebTypes
    BY DEF WebInv, Fine
<1>5. Shape(w)
    <2>1. SlotOK(w.s) /\ w.packets \in Nat /\ w.heap \in Int /\ DOMAIN w.flash = Userbins
        BY <1>3, <1>4 DEF SlotFine, WebTypes
    <2>2. w.rebooting \in BOOLEAN /\ w.struck \in BOOLEAN /\ w.failed \in BOOLEAN
        BY <1>3, <1>4, Zenon DEF WebTypes
    <2> QED BY <1>3, <2>1, <2>2, Zenon DEF Shape
<1> DEFINE spare == SpareOf(slot[i], heap[i])
<1>6. /\ heap[i] = One(Held(w.s)) + One(w.s.post.buff) + spare
      /\ spare \in Int /\ One(w.s.post.buff) \in Int /\ One(Held(w.s)) \in Int
    BY <1>3, <1>4 DEF WebTypes, SpareOf, One
<1> HIDE DEF spare
<1>7. CASE w.s.cgi = NoHandler
    <2>1. v = w
        BY <1>2, <1>7
    <2>2. ~Held(w.s)
        BY <1>7 DEF Held, NoHandler
    <2>3. SlotOK(v.s) /\ v.s.post = slot[i].post /\ v.heap = One(slot[i].post.buff) + spare
        BY <1>3, <1>5, <1>6, <2>1, <2>2 DEF Shape, One
    <2> QED BY <2>3 DEF v, spare
<1>8. CASE w.s.cgi # NoHandler
    <2>1. v = CallCgi(w)
        BY <1>2, <1>8
    <2>2. w.s.cgi \in Handlers /\ w.fault \in Faults /\ userbin \in Userbins /\ w.aborted
        BY <1>3, <1>4, <1>5, <1>8 DEF Shape, SlotOK, Faults, WebTypes
    <2>3. Kept(w, v) /\ v.r = "DONE" /\ Balanced(w, v, Held(w.s))
        BY <1>5, <2>1, <2>2, CgiKeeps
    <2>4. SlotOK(v.s) /\ v.s.post = slot[i].post
        BY <1>3, <2>3 DEF Kept, Same, Shape
    <2>5. v.heap = One(slot[i].post.buff) + spare
        BY <1>3, <1>6, <2>3 DEF Balanced, One
    <2> QED BY <2>4, <2>5 DEF v, spare
<1> QED BY <1>7, <1>8

LEMMA RetireKeepsWeb ==
    ASSUME WebInv, NEW p \in Clients, httpdRetireConn(p)
    PROVE  Fine' /\ Steady
<1>1. WebTypes /\ PoolInv /\ p # NULL
    BY HttpdAssumption DEF WebInv, Fine
<1>2. \A j \in Slots : j \in Find(p) <=> conn[j] = p
    BY <1>1, FindIsOwner DEF PoolInv, SlotOwnership
<1>3. /\ link' = [link EXCEPT ![p] = "closed"] /\ client' = [client EXCEPT ![p] = Gone]
      /\ arrived' = [arrived EXCEPT ![p] = 0] /\ acked' = [acked EXCEPT ![p] = 0]
      /\ alone' = alone \ {p} /\ UNCHANGED <<flash, userbin, rebooting, failed, repeats>>
    BY DEF httpdRetireConn
<1>4. /\ \A q \in Clients \ {p} : /\ link'[q] = link[q] /\ client'[q] = client[q]
                                  /\ arrived'[q] = arrived[q] /\ acked'[q] = acked[q]
      /\ link'[p] = "closed" /\ client'[p] = Gone /\ acked'[p] = 0 /\ arrived'[p] = 0
    BY <1>1, <1>3 DEF WebTypes, PoolInv, PoolTypes
<1>5. ASSUME NEW q \in Clients PROVE ClientFine(q)'
    <2>1. ClientFine(q)
        BY DEF WebInv, Fine
    <2>2. CASE q = p
        BY <1>4, <2>2 DEF ClientFine, ClientFields, Gone
    <2>3. CASE q # p
        BY <1>4, <2>1, <2>3 DEF ClientFine
    <2> QED BY <2>2, <2>3
<1>6. ASSUME NEW j \in Slots PROVE SlotFine(j)' /\ heap'[j] \in Nat
    <2>1. SlotFine(j)
        BY DEF WebInv, Fine
    <2>2. CASE conn[j] # p
        <3>1. conn'[j] = conn[j] /\ slot'[j] = slot[j] /\ heap'[j] = heap[j]
            BY <1>2, <2>2 DEF httpdRetireConn
        <3>2. conn[j] # NULL => conn[j] \in Clients \ {p}
            BY <1>1, <2>2 DEF PoolInv, PoolTypes
        <3>3. conn[j] # NULL => /\ client'[conn[j]] = client[conn[j]]
                               /\ arrived'[conn[j]] = arrived[conn[j]]
            BY <1>4, <3>2
        <3> QED BY <1>1, <1>3, <2>1, <3>1, <3>3 DEF SlotFine, WebTypes
    <2>3. CASE conn[j] = p
        <3> DEFINE v == Retired(j, p)
                   s == slot'[j]
                   spare == SpareOf(slot[j], heap[j])
        <3>1. SlotOK(v.s) /\ v.s.post = slot[j].post /\ v.heap = One(slot[j].post.buff) + spare
            BY <2>3, RetiredIs
        <3>2. /\ conn'[j] = NULL /\ s = [v.s EXCEPT !.cgi = NoHandler, !.post.buff = FALSE]
              /\ heap'[j] = v.heap - (IF slot[j].post.buff THEN 1 ELSE 0)
            BY <1>2, <2>3 DEF httpdRetireConn
        <3>0. spare >= 0 /\ (j \notin repeats => spare = 0) /\ spare \in Int
            BY <1>1, <2>1 DEF SlotFine, SpareOf, One, WebTypes
        <3> HIDE DEF v, s, spare
        <3>3. heap'[j] = spare
            BY <3>0, <3>1, <3>2 DEF One
        <3>4. DOMAIN v.s = SlotFields /\ v.s.post \in Post
            BY <3>1 DEF SlotOK
        <3>5. /\ DOMAIN s = SlotFields /\ s.cgi = NoHandler /\ s.cgiData = v.s.cgiData
              /\ s.headPos = v.s.headPos /\ s.post = [v.s.post EXCEPT !.buff = FALSE]
            BY <3>2, <3>4 DEF SlotFields
        <3>6. /\ s.post \in Post /\ ~s.post.buff /\ s.post.received = slot[j].post.received
              /\ s.post.len = slot[j].post.len
            BY <3>1, <3>4, <3>5 DEF Post
        <3>7. SlotOK(s)
            BY <3>1, <3>5, <3>6 DEF SlotOK
        <3>8. SpareOf(s, heap'[j]) = spare
            BY <3>0, <3>3, <3>5, <3>6, <3>7, IdleFine
        <3>9. s.post.received \in 0 .. Max({s.post.len, 0})
            BY <2>1, <3>6 DEF SlotFine
        <3> QED BY <1>3, <3>0, <3>2, <3>3, <3>5, <3>6, <3>7, <3>8, <3>9 DEF SlotFine, s
    <2> QED BY <2>2, <2>3
<1>7. WebTypes'
    <2>1. DOMAIN slot' = Slots /\ heap' = [j \in Slots |-> heap'[j]]
        BY DEF httpdRetireConn
    <2>2. heap' \in [Slots -> Nat]
        BY <1>6, <2>1
    <2> QED BY <1>1, <1>3, <2>1, <2>2 DEF WebTypes
<1>8. SafeToBoot'
    BY <1>3 DEF WebInv, Fine, SafeToBoot, Other
<1> QED BY <1>3, <1>5, <1>6, <1>7, <1>8 DEF Fine, Steady

\* A restart forgets everything but the flash.
LEMMA RebootKeepsWeb ==
    ASSUME WebInv, Reboot
    PROVE  /\ Fine' /\ flash' = flash /\ userbin' = Other
           /\ ~failed => check_header(flash[Other][0])
<1>1. rebooting /\ rebooting' = FALSE /\ flash' = flash /\ userbin' = Other
    BY DEF Reboot, Other
<1>2. ~failed => check_header(flash[Other][0])
    BY <1>1 DEF WebInv, Fine, SafeToBoot
<1>3. userbin' \in Userbins
    BY <1>1, Partitions DEF WebInv, Fine, WebTypes
<1>4. WebTypes'
    <2>1. DOMAIN flash = Userbins
        BY DEF WebInv, Fine, WebTypes
    <2> QED BY <1>1, <1>3, <2>1 DEF Reboot, WebTypes
<1>5. SafeToBoot'
    BY <1>1 DEF SafeToBoot
<1>6. (\A p \in Clients : ClientFine(p)') /\ (\A i \in Slots : SlotFine(i)')
    <2>1. ASSUME NEW p \in Clients PROVE ClientFine(p)'
        BY DEF Reboot, ClientFine, ClientFields, Gone
    <2>2. ASSUME NEW i \in Slots PROVE SlotFine(i)'
        <3>1. slot'[i] = FreeSlot /\ heap'[i] = 0 /\ conn'[i] = NULL
            BY DEF Reboot
        <3>2. SpareOf(slot'[i], heap'[i]) = 0
            BY <3>1, FreeSlotOK, IdleFine
        <3>3. Max({-1, 0}) = 0
            BY MaxIs
        <3>4. slot'[i].post.received \in 0 .. Max({slot'[i].post.len, 0})
            BY <3>1, <3>3, FreeSlotOK
        <3> QED BY <3>1, <3>2, <3>4, FreeSlotOK DEF SlotFine
    <2> QED BY <2>1, <2>2
<1> QED BY <1>1, <1>2, <1>4, <1>5, <1>6 DEF Fine

\* Every step keeps the invariant, and changes the partition only as the
\* properties say.
LEMMA WebStep ==
    ASSUME WebInv, [Next]_vars
    PROVE  /\ WebInv'
           /\ flash'[userbin] = flash[userbin]
           /\ userbin' # userbin /\ ~failed => check_header(flash[userbin'][0])
<1>1. PoolInv'
    BY PoolStep DEF WebInv, Fine
<1> SUFFICES Fine' /\ (Steady \/ (Reboot /\ flash' = flash /\ userbin' = Other
                                  /\ (~failed => check_header(flash[Other][0]))))
    BY <1>1, Zenon DEF WebInv, Fine, Steady
<1>2. ASSUME NEW p \in Clients, Connect(p) PROVE Fine' /\ Steady
    BY <1>2, ConnectKeepsWeb DEF Connect
<1>3. ASSUME NEW p \in Clients, Recv(p) PROVE Fine' /\ Steady
    <2>1. PICK n \in 1 .. RequestLen(client[p].req) - arrived[p],
               garbage \in Garbages(client[p].req), fault \in FlashFaults \cup {"none"},
               delivered \in Deliveries(p) : httpdRecvCb(p, n, garbage, fault, delivered)
        BY <1>3 DEF Recv
    <2>2. fault \in Faults /\ n \in Nat
        BY HttpdAssumption DEF Faults
    <2> QED BY <2>1, <2>2, RecvKeepsWeb
<1>4. ASSUME NEW p \in Clients, Sent(p) PROVE Fine' /\ Steady
    BY <1>4, SentKeepsWeb DEF Sent
<1>5. ASSUME NEW p \in Clients, httpdDisconCb(p) PROVE Fine' /\ Steady
    BY <1>5, RetireKeepsWeb DEF httpdDisconCb
<1>6. ASSUME NEW p \in Clients, httpdReconCb(p) PROVE Fine' /\ Steady
    BY <1>6, RetireKeepsWeb DEF httpdReconCb
<1>7. CASE Reboot
    BY <1>7, RebootKeepsWeb
<1>8. CASE UNCHANGED vars
    <2>1. WebTypes' /\ SafeToBoot'
        BY <1>8 DEF WebInv, Fine, vars, WebTypes, SafeToBoot, Other
    <2>2. ASSUME NEW p \in Clients PROVE ClientFine(p)'
        BY <1>8 DEF WebInv, Fine, vars, ClientFine
    <2>3. ASSUME NEW i \in Slots PROVE SlotFine(i)'
        BY <1>8 DEF WebInv, Fine, vars, SlotFine
    <2> QED BY <1>8, <2>1, <2>2, <2>3 DEF Fine, Steady, vars
<1> QED BY <1>2, <1>3, <1>4, <1>5, <1>6, <1>7, <1>8 DEF Next

\* The invariant is about the buffers, too.
LEMMA WebTypeOK == WebInv => TypeOK
<1> SUFFICES ASSUME WebInv PROVE TypeOK
    OBVIOUS
<1>1. PoolTypes /\ WebTypes
    BY DEF WebInv, Fine, PoolInv
<1>2. ASSUME NEW i \in Slots
      PROVE  /\ slot[i].cgi \in Handlers \cup {NoHandler}
             /\ slot[i].headPos \in 0 .. MAX_HEAD_LEN
             /\ PostOK(slot[i].post)
    <2> DEFINE s == slot[i]
    <2>1. SlotFine(i) /\ SlotOK(s)
        BY DEF WebInv, Fine, SlotFine
    <2>2. PICK post : post = s.post
        OBVIOUS
    <2>3. post \in Post /\ post.buffSize \in Int /\ post.len \in Int
          /\ post.len \in -1 .. 2 * FIRMWARE_SIZE
        BY <2>1, <2>2, SectorAssumption DEF SlotOK, Post
    <2>4. post.received \in 0 .. Max({post.len, 0})
        BY <2>1, <2>2 DEF SlotFine
    <2>5. ASSUME post.buff PROVE Len(post.data) < Max({post.buffSize, 1})
        <3>1. conn[i] # NULL
            BY <2>1, <2>2, <2>5 DEF SlotFine
        <3>2. PICK req, k : Progress(s, req, k)
            BY <2>1, <3>1 DEF SlotFine
        <3>3. Max({post.buffSize, 1}) = IF post.buffSize >= 1 THEN post.buffSize ELSE 1
            BY <2>3, MaxIs
        <3>4. post.len # -1
            BY <2>2, <2>5, <3>2 DEF Progress, AtHead
        <3>5. post.len = 0 => post.data = <<>>
            BY <2>2, <3>2 DEF Progress, NoBody
        <3>6. post.len > 0 => Len(post.data) < post.buffSize
            BY <2>2, <3>2 DEF Progress, AtBody
        <3>7. Len(post.data) \in Nat
            BY <2>3 DEF Post
        <3>8. post.len = 0 \/ post.len > 0
            BY <2>3, <3>4, SectorAssumption
        <3>9. post.len = 0 => Len(post.data) = 0
            BY <3>5
        <3> QED BY <2>3, <3>3, <3>6, <3>7, <3>8, <3>9
    <2>6. PostOK(post)
        BY <2>3, <2>4, <2>5 DEF PostOK
    <2> QED BY <2>1, <2>2, <2>6 DEF SlotOK
<1>3. ASSUME NEW p \in Clients PROVE acked[p] \in 0 .. client[p].packets
    <2>1. ClientFine(p) /\ acked[p] \in Nat
        BY <1>1 DEF WebInv, Fine, WebTypes
    <2> QED BY <2>1 DEF ClientFine
<1> QED BY <1>1, <1>2, <1>3 DEF TypeOK, PoolTypes, WebTypes

\* The characters of a head stay inside head, a body inside the buffer that was
\* allocated for it, a full one does not wait, and every counter is in its range,
\* for every size of the buffers and every request: although the zero behind a
\* head that fills its buffer goes one past it, where it changes nothing because
\* the size is a multiple of 256 (HeadAssumption).
THEOREM TypesHold == Spec => []TypeOK
<1>1. WebInv /\ [Next]_vars => WebInv'
    BY WebStep
<1> QED BY <1>1, WebStart, WebTypeOK, PTL DEF Spec

\* No file handle and no body buffer is freed twice, whatever the requests are and
\* wherever a connection ends.  None is lost either in a slot that has not had a
\* request whose handler is called again: what is allocated for it is what it
\* refers to.
THEOREM NothingLeaks == Spec => []HeapAccounted
<1>1. WebInv /\ [Next]_vars => WebInv'
    BY WebStep
<1>2. WebInv => HeapAccounted
    <2> SUFFICES ASSUME WebInv, NEW i \in Slots
                 PROVE  /\ heap[i] >= Owned(slot[i])
                        /\ i \notin repeats => heap[i] = Owned(slot[i])
        BY DEF HeapAccounted
    <2>1. SlotFine(i) /\ heap[i] \in Nat
        BY DEF WebInv, Fine, WebTypes
    <2>2. SpareOf(slot[i], heap[i]) = heap[i] - Owned(slot[i]) /\ Owned(slot[i]) \in Nat
        BY <2>1 DEF SpareOf, Owned, One, Held
    <2> QED BY <2>1, <2>2 DEF SlotFine
<1> QED BY <1>1, <1>2, WebStart, PTL DEF Spec

\* No upload and no failing flash operation changes the partition that runs
\* ("while running from the other", README.md:185).
THEOREM RunningIsUntouched == Spec => RunningUntouched
<1>1. WebInv /\ [Next]_vars => WebInv' /\ [flash'[userbin] = flash[userbin]]_vars
    BY WebStep
<1> QED BY <1>1, WebStart, PTL DEF Spec, RunningUntouched

\* What is started two seconds after cgiRebootFirmware's check still begins like
\* firmware, although uploads may begin and break off meanwhile, unless a flash
\* operation failed.
THEOREM BootsGoodFirmware == Spec => BootsFirmware
<1>1. WebInv /\ [Next]_vars =>
         WebInv' /\ [userbin' # userbin /\ ~failed => check_header(flash[userbin'][0])]_vars
    BY WebStep
<1> QED BY <1>1, WebStart, PTL DEF Spec, BootsFirmware

-----------------------------------------------------------------------------
(* What a client is told, on top of WebInv.                                *)

\* What an answer is made of, and the first m units of a file.
Parts == {"page", "200", "400", "404", "501"} \cup Nat
Upto(m) == [k \in 1 .. m |-> k - 1]

\* What httpdParseHeaders makes of the target.
UrlOf(req) == IF req.method \in {"GET", "POST"} THEN req.url ELSE NULL

\* How far the body was handed to the handler.
Offset(post) == post.received - Len(post.data)

\* The handler has been called: at once if there is no body, else with the first chunk.
Asked(post) == post.len = 0 \/ (post.len > 0 /\ post.received >= post.buffSize)

\* All of the body has arrived.
BodyIn(post) == post.len > 0 => post.received = post.len

\* What the buffer holds of the body, and where that begins.
Buffered(p, req, post) ==
    /\ \A j \in 1 .. Len(post.data) : post.data[j] = Content(p, req, Offset(post) + j - 1)
    /\ post.received < post.len => \E q \in Nat : Offset(post) = MAX_POST * q
    /\ post.received < post.buffSize => Offset(post) = 0

\* A head that was parsed.
Parsed(p, req, s) ==
    /\ s.url = UrlOf(req)
    /\ s.post.len = 0 => req.contentLength <= 0
    /\ s.post.len > 0 => Buffered(p, req, s.post)

\* The four ways to stand with a request whose handler has been called.
Uploading(req, s, told, n) ==
    /\ req.url = "/flash/upload" /\ s.cgi = "cgiUploadFirmware" /\ ~s.cgiPrivData
    /\ ValidUpload(req) /\ s.post.len > 0 /\ s.post.received < s.post.len
    /\ told = <<>> /\ n = 0
Refused(req, s, told, n) ==
    /\ req.url = "/flash/upload" /\ s.cgi = NoHandler /\ s.cgiPrivData
    /\ told \in Answers(req) /\ told # <<"200">> /\ n = 1
Reading(req, s, told, n, a) ==
    /\ req.url \in DOMAIN FileLen \ {"/", "/flash/upload", "/flash/reboot"}
    /\ s.cgi = "cgiEspFsHook" /\ s.cgiData.name = req.url
    /\ s.cgiData.pos \in 0 .. FileLen[req.url]
    /\ told = <<"200">> \o Upto(s.cgiData.pos)
    /\ n = a + 1
Answered(req, s, told, n) ==
    /\ s.cgi = NoHandler /\ BodyIn(s.post)
    /\ told \in Answers(req) /\ n # 0
    /\ req.url = "/flash/upload" => n = 1

\* How the slot s of client p stands with the request req, of which the client was
\* told so much in n packets and acknowledged a of them.
Stage(p, req, s, told, n, a) ==
    /\ n \in Nat /\ a \in Nat /\ a <= n /\ n <= a + 1
    /\ told \in Seq(Parts)
    /\ s.post.len # -1 => Parsed(p, req, s)
    /\ IF Asked(s.post) /\ s.url # NULL
       THEN \/ Uploading(req, s, told, n)
            \/ Refused(req, s, told, n)
            \/ Reading(req, s, told, n, a)
            \/ Answered(req, s, told, n)
       ELSE s.cgi = NoHandler /\ told = <<>> /\ n = 0

\* The packet that espconn_sent refused was the last.
Ledger(p, c, s, told, n, a) ==
    /\ Stage(p, c.req, s, told, n, a)
    /\ ~c.lost => told = c.got /\ n = c.packets
    /\ c.lost => n = c.packets + 1 /\ a = c.packets /\ (n = 1 => c.got = <<>>)

\* The beginning of an image, and what is erased for the rest of it.
Begins(p, req, part, m) == \A k \in 0 .. m - 1 : part[k] = Content(p, req, k)
Clean(part, m) ==
    \A k \in Units, b \in Nat :
        SPI_FLASH_SEC_SIZE * b < m /\ m <= k /\ k < SPI_FLASH_SEC_SIZE * b + SPI_FLASH_SEC_SIZE
            => part[k] = Erased

\* What the other partition holds of the image of an upload.
Stored(p, req, s, told, part) ==
    req.url = "/flash/upload" =>
        /\ s.cgi = "cgiUploadFirmware" =>
              Begins(p, req, part, Offset(s.post)) /\ Clean(part, Offset(s.post))
        /\ told = <<"200">> => Begins(p, req, part, req.contentLength)

\* The invariant.  Of a request whose handler is called again it says nothing.
Stands(p, c, s, told, n, a, part) ==
    Ledger(p, c, s, told, n, a) /\ (p \in alone => Stored(p, c.req, s, told, part))
Tells(i) == conn[i] # NULL /\ ~CalledAgain(client[conn[i]].req) =>
    \E told, n :
        Stands(conn[i], client[conn[i]], slot[i], told, n, acked[conn[i]], flash[Other])
Ends(p) ==
    /\ link[p] = "closed" => client[p] = Gone
    /\ link[p] = "refused" => client[p].got = <<>> /\ client[p].packets = 0
    /\ link[p] \in {"closed", "refused"} => p \notin alone
    /\ link[p] = "closing" /\ ~client[p].lost /\ ~CalledAgain(client[p].req) =>
          client[p].got \in Answers(client[p].req) /\ acked[p] = client[p].packets
AnswerInv ==
    /\ WebInv
    /\ \A i \in Slots : Tells(i)
    /\ \A p \in Clients : Ends(p)
-----------------------------------------------------------------------------
\* v is w with another slot and other things to send.
Beside(w, v) == /\ v.flash = w.flash /\ v.struck = w.struck
                /\ v.req = w.req /\ v.fault = w.fault /\ v.garbage = w.garbage
Silent(w, v) == v.sent = w.sent /\ v.packets = w.packets
Says(w, v, parts) == v.sent = w.sent \o parts /\ v.packets = w.packets + 1
Utters(w, v, parts) == IF parts = <<>> THEN Silent(w, v) ELSE Says(w, v, parts)

\* What is ready to be sent.
LEMMA SendIs ==
    ASSUME NEW w, Shape(w), w.buff = <<>>, NEW part
    PROVE  LET v == httpdSend(w, <<part>>)
           IN  /\ v.buff = <<part>> /\ v.s = w.s /\ v.r = w.r /\ v.rebooting = w.rebooting
               /\ v.failed = w.failed /\ Beside(w, v) /\ Silent(w, v) /\ DOMAIN v = WorldFields
<1> DEFINE v == httpdSend(w, <<part>>)
<1>1. v = [w EXCEPT !.buff = <<>> \o <<part>>]
    BY DEF httpdSend
<1>2. <<>> \o <<part>> = <<part>>
    OBVIOUS
<1>3. v = [w EXCEPT !.buff = <<part>>]
    BY <1>1, <1>2
<1> HIDE DEF v
<1>4. v.buff = <<part>> /\ v.s = w.s /\ v.r = w.r /\ v.rebooting = w.rebooting
      /\ v.failed = w.failed /\ Beside(w, v) /\ Silent(w, v) /\ DOMAIN v = WorldFields
    BY <1>3 DEF Shape, WorldFields, Beside, Silent
<1> QED BY <1>4 DEF v

LEMMA XmitIs ==
    ASSUME NEW w, Shape(w)
    PROVE  LET v == xmitSendBuff(w)
           IN  /\ v.buff = <<>> /\ v.s = w.s /\ v.r = w.r
               /\ Beside(w, v) /\ Utters(w, v, w.buff)
<1> DEFINE v == xmitSendBuff(w)
<1>1. CASE w.buff = <<>>
    <2>1. v = w
        BY <1>1 DEF xmitSendBuff
    <2> QED BY <1>1, <2>1 DEF Beside, Utters, Silent
<1>2. CASE w.buff # <<>>
    <2> DEFINE told == w.sent \o w.buff
               count == w.packets + 1
    <2>1. v = [[w EXCEPT !.sent = told, !.packets = count] EXCEPT !.buff = <<>>]
        BY <1>2 DEF xmitSendBuff, espconn_sent
    <2> HIDE DEF v, told, count
    <2>2. /\ v.buff = <<>> /\ v.s = w.s /\ v.r = w.r /\ Beside(w, v)
          /\ v.sent = told /\ v.packets = count
        BY <2>1 DEF Shape, WorldFields, Beside
    <2> QED BY <1>2, <2>2 DEF Utters, Says, v, told, count
<1> QED BY <1>1, <1>2

\* A handler that is done, with something to be sent.
Replies(w, v, part) ==
    v.r = "DONE" /\ v.buff = <<part>> /\ v.s = w.s /\ Beside(w, v) /\ Silent(w, v)

LEMMA DoneIs ==
    ASSUME NEW w, Shape(w), w.buff = <<>>, NEW part
    PROVE  Replies(w, Done(httpdSend(w, <<part>>)), part)
<1>1. PICK v : v = httpdSend(w, <<part>>)
    OBVIOUS
<1>2. /\ v.buff = <<part>> /\ v.s = w.s /\ v.r = w.r /\ Beside(w, v) /\ Silent(w, v)
      /\ DOMAIN v = WorldFields
    BY <1>1, SendIs
<1>3. Done(v) = [v EXCEPT !.r = "DONE"]
    BY DEF Done
<1> QED BY <1>1, <1>2, <1>3 DEF Replies, Beside, Silent, WorldFields

LEMMA PageTells ==
    ASSUME NEW w, Shape(w), w.buff = <<>>, ~w.aborted
    PROVE  Replies(w, cgiPage(w), "page")
<1>1. cgiPage(w) = Done(httpdSend(w, <<"page">>))
    BY DEF cgiPage
<1> QED BY <1>1, DoneIs

LEMMA RebootTells ==
    ASSUME NEW w, Shape(w), w.buff = <<>>, ~w.aborted
    PROVE  \E part \in {"200", "400"} : Replies(w, cgiRebootFirmware(w), part)
<1>1. CASE ~check_header(w.flash[NextPartition(userbin)][0])
    <2>1. cgiRebootFirmware(w) = Done(httpdSend(w, <<"400">>))
        BY <1>1 DEF cgiRebootFirmware
    <2> QED BY <2>1, DoneIs
<1>2. CASE check_header(w.flash[NextPartition(userbin)][0])
    <2>1. PICK u : u = httpdSend(w, <<"200">>)
        OBVIOUS
    <2>2. /\ u.buff = <<"200">> /\ u.s = w.s /\ u.r = w.r /\ Beside(w, u) /\ Silent(w, u)
          /\ DOMAIN u = WorldFields
        BY <2>1, SendIs
    <2>3. cgiRebootFirmware(w) =
            [[u EXCEPT !.rebooting = TRUE, !.failed = FALSE] EXCEPT !.r = "DONE"]
        BY <1>2, <2>1 DEF cgiRebootFirmware, Done
    <2>4. Replies(w, cgiRebootFirmware(w), "200")
        BY <2>2, <2>3 DEF Replies, Beside, Silent, WorldFields
    <2> QED BY <2>4
<1> QED BY <1>1, <1>2

\* A file that is asked for first.
LEMMA OpenTells ==
    ASSUME NEW w, Shape(w), w.buff = <<>>
    PROVE  LET v == OpenFile(w)
               gzip == w.req.gzip /\ ~(w.req.accepts \/ w.garbage)
           IN  \/ /\ w.s.url \notin DOMAIN FileLen
                  /\ v.r = "NOTFOUND" /\ v.buff = <<>> /\ v.s = w.s /\ Beside(w, v) /\ Silent(w, v)
               \/ w.s.url \in DOMAIN FileLen /\ gzip /\ Replies(w, v, "501")
               \/ /\ w.s.url \in DOMAIN FileLen
                  /\ v.r = "MORE" /\ v.buff = <<"200">> /\ Beside(w, v) /\ Silent(w, v)
                  /\ v.s = [w.s EXCEPT !.cgiData = [name |-> w.s.url, pos |-> 0]]
<1> DEFINE name == w.s.url
           gzip == w.req.gzip /\ ~(w.req.accepts \/ w.garbage)
           opened == [w EXCEPT !.s.cgiData = [name |-> name, pos |-> 0], !.heap = @ + 1]
           v == OpenFile(w)
<1>1. CASE name \notin DOMAIN FileLen
    <2>1. v = [w EXCEPT !.r = "NOTFOUND"]
        BY <1>1 DEF OpenFile
    <2> HIDE DEF v
    <2>2. v.r = "NOTFOUND" /\ v.buff = <<>> /\ v.s = w.s /\ Beside(w, v) /\ Silent(w, v)
        BY <2>1 DEF Shape, WorldFields, Beside, Silent
    <2> QED BY <1>1, <2>2 DEF v
<1>2. CASE name \in DOMAIN FileLen /\ gzip
    <2>1. v = Done(httpdSend(w, <<"501">>))
        BY <1>2, Zenon DEF OpenFile
    <2>2. Replies(w, v, "501")
        BY <2>1, DoneIs
    <2> QED BY <1>2, <2>2
<1>3. CASE name \in DOMAIN FileLen /\ ~gzip
    <2>1. v = More(httpdSend(opened, <<"200">>))
        BY <1>3, Zenon DEF OpenFile
    <2>2. /\ DOMAIN opened = WorldFields /\ opened.buff = <<>>
          /\ opened.s = [w.s EXCEPT !.cgiData = [name |-> name, pos |-> 0]]
          /\ Beside(w, opened) /\ Silent(w, opened)
        BY DEF Shape, WorldFields, Beside, Silent
    <2>3. httpdSend(opened, <<"200">>) = [opened EXCEPT !.buff = <<>> \o <<"200">>]
        BY <2>2 DEF httpdSend
    <2>4. <<>> \o <<"200">> = <<"200">>
        OBVIOUS
    <2>5. v = [[opened EXCEPT !.buff = <<"200">>] EXCEPT !.r = "MORE"]
        BY <2>1, <2>3, <2>4 DEF More
    <2> HIDE DEF opened, v
    <2>6. /\ v.r = "MORE" /\ v.buff = <<"200">> /\ v.s = opened.s
          /\ Beside(w, v) /\ Silent(w, v)
        BY <2>2, <2>5 DEF Beside, Silent, WorldFields
    <2> QED BY <1>3, <2>2, <2>6 DEF v
<1> QED BY <1>1, <1>2, <1>3
-----------------------------------------------------------------------------
\* A chunk of the file, and how far it was read then.
Chunk(f, len) == [k \in 1 .. len |-> f.pos + k - 1]
Reads(w, v, len) == LET f == w.s.cgiData IN
    /\ v.r \in {"DONE", "MORE"} /\ v.buff = w.buff /\ Beside(w, v)
    /\ v.s = [w.s EXCEPT !.cgiData.pos = f.pos + len]
    /\ f.pos + len <= FileLen[f.name]
    /\ v.r = "DONE" => f.pos + len = FileLen[f.name]
    /\ v.r = "MORE" => len = READ_LEN
    /\ IF len > 0 THEN Says(w, v, Chunk(f, len)) ELSE Silent(w, v)

LEMMA ReadTells ==
    ASSUME NEW w, Shape(w), w.s.cgiData.name \in DOMAIN FileLen,
           w.s.cgiData.pos \in 0 .. FileLen[w.s.cgiData.name]
    PROVE  \E len \in Nat : Reads(w, ReadFile(w), len)
<1> DEFINE f == w.s.cgiData
           rest == FileLen[f.name] - f.pos
           len == Min({READ_LEN, FileLen[f.name] - f.pos})
           read == [w EXCEPT !.s.cgiData.pos = @ + len]
           v == ReadFile(w)
<1>1. FileLen[f.name] \in Nat /\ f.pos \in Nat /\ f.pos <= FileLen[f.name] /\ READ_LEN \in Nat \ {0}
    BY HttpdAssumption
<1>2. len = (IF READ_LEN <= rest THEN READ_LEN ELSE rest) /\ len \in Nat
    BY <1>1, MinIs
<1>3. f.pos + len <= FileLen[f.name] /\ (len # READ_LEN => f.pos + len = FileLen[f.name])
    BY <1>1, <1>2
<1> HIDE DEF len
<1>4. /\ DOMAIN read = WorldFields /\ read.s = [w.s EXCEPT !.cgiData.pos = f.pos + len]
      /\ read.sent = w.sent /\ read.packets = w.packets
      /\ Beside(w, read) /\ read.buff = w.buff
    BY DEF Shape, WorldFields, Beside
<1> HIDE DEF read
<1>5. PICK u : u = IF len > 0 THEN espconn_sent(read, Chunk(f, len)) ELSE read
    OBVIOUS
<1>6. v = IF len # READ_LEN THEN Done(espFsClose(u)) ELSE More(u)
    BY <1>5 DEF ReadFile, Chunk, len, read
<1>7. /\ DOMAIN u = WorldFields /\ u.s = read.s /\ u.buff = w.buff /\ Beside(w, u)
      /\ IF len > 0 THEN Says(w, u, Chunk(f, len)) ELSE Silent(w, u)
    <2>1. CASE len > 0
        <3> DEFINE told == w.sent \o Chunk(f, len)
                   count == w.packets + 1
        <3>1. u = [read EXCEPT !.sent = told, !.packets = count]
            BY <1>4, <1>5, <2>1 DEF espconn_sent
        <3> HIDE DEF told, count
        <3>2. /\ DOMAIN u = WorldFields /\ u.s = read.s /\ u.buff = w.buff /\ Beside(w, u)
              /\ u.sent = told /\ u.packets = count
            BY <1>4, <3>1 DEF WorldFields, Beside
        <3> QED BY <2>1, <3>2 DEF Says, told, count
    <2>2. CASE ~(len > 0)
        BY <1>4, <1>5, <2>2 DEF Silent
    <2> QED BY <2>1, <2>2
<1> HIDE DEF v
<1>8. /\ v.s = u.s /\ v.buff = u.buff /\ Beside(u, v) /\ Silent(u, v)
      /\ v.r = IF len # READ_LEN THEN "DONE" ELSE "MORE"
    <2>1. CASE len # READ_LEN
        <3>1. PICK t : t = espFsClose(u)
            OBVIOUS
        <3>2. t.s = u.s /\ t.buff = u.buff /\ Beside(u, t) /\ Silent(u, t) /\ DOMAIN t = WorldFields
            BY <1>7, <3>1 DEF espFsClose, WorldFields, Beside, Silent
        <3>3. v = [t EXCEPT !.r = "DONE"]
            BY <1>6, <2>1, <3>1 DEF Done
        <3> QED BY <2>1, <3>2, <3>3 DEF WorldFields, Beside, Silent
    <2>2. CASE len = READ_LEN
        <3>1. v = [u EXCEPT !.r = "MORE"]
            BY <1>6, <2>2 DEF More
        <3> QED BY <1>7, <2>2, <3>1 DEF WorldFields, Beside, Silent
    <2> QED BY <2>1, <2>2
<1>9. /\ Beside(w, v) /\ v.buff = w.buff
      /\ IF len > 0 THEN Says(w, v, Chunk(f, len)) ELSE Silent(w, v)
    BY <1>7, <1>8 DEF Beside, Silent, Says
<1>10. Reads(w, v, len)
    BY <1>1, <1>3, <1>4, <1>7, <1>8, <1>9 DEF Reads
<1> QED BY <1>2, <1>10 DEF v

\* What cgiUploadFirmware does with a chunk: it was refused before, is refused
\* now, or is written.
Faulty(w) == LET post == w.s.post
                 offset == Offset(post) IN
    \/ post.len > FIRMWARE_SIZE
    \/ ~post.buff \/ w.req.method # "POST" \/ post.len < MAX_POST
    \/ offset = 0 /\ ~check_header(post.data[1])
    \/ offset % MAX_POST # 0
Late(w) == Offset(w.s.post) # 0 /\ w.s.cgiPrivData

Ignores(w, v) ==
    v.r = "DONE" /\ v.buff = <<>> /\ v.s = w.s /\ Beside(w, v) /\ Silent(w, v)
Refuses(w, v) ==
    /\ v.r = "DONE" /\ v.buff = <<"400">> /\ Beside(w, v) /\ Silent(w, v)
    /\ v.s = [w.s EXCEPT !.cgiPrivData = TRUE]
Takes(w, v) ==
    /\ IF w.s.post.received = w.s.post.len THEN v.r = "DONE" /\ v.buff = <<"200">>
       ELSE v.r = "MORE" /\ v.buff = <<>>
    /\ Silent(w, v) /\ v.req = w.req /\ v.fault = w.fault
    /\ v.flash = [w.flash EXCEPT ![Other] =
                     FlashChunk(w.flash[Other], Offset(w.s.post), w.s.post.data, w.fault)]
    /\ v.struck = (w.struck \/ Strikes(Offset(w.s.post), w.fault))
    /\ ~v.s.cgiPrivData /\ v.s \in {w.s, [w.s EXCEPT !.cgiPrivData = FALSE]}

LEMMA UploadTells ==
    ASSUME NEW w, Shape(w), w.buff = <<>>, ~w.aborted
    PROVE  LET v == cgiUploadFirmware(w)
           IN  IF Late(w) THEN Ignores(w, v) ELSE IF Faulty(w) THEN Refuses(w, v) ELSE Takes(w, v)
<1> DEFINE post == w.s.post
           offset == post.received - Len(post.data)
           begun == IF offset = 0 THEN [w EXCEPT !.s.cgiPrivData = FALSE] ELSE w
           v == cgiUploadFirmware(w)
<1>1. PICK b : b = begun
    OBVIOUS
<1>2. PICK f : f = Flashed(b, offset)
    OBVIOUS
<1>3. v = IF b.s.cgiPrivData THEN Done(w)
          ELSE IF Faulty(w) THEN UploadError(b)
          ELSE IF post.received = post.len THEN Done(httpdSend(f, <<"200">>))
          ELSE More(f)
    BY <1>1, <1>2 DEF cgiUploadFirmware, Faulty, Offset
<1> HIDE DEF v
<1>4. /\ Shape(b) /\ b.buff = <<>> /\ Beside(w, b) /\ Silent(w, b) /\ b.s.post = post
      /\ offset # 0 => b = w
      /\ offset = 0 => b.s = [w.s EXCEPT !.cgiPrivData = FALSE] /\ ~b.s.cgiPrivData
    <2>1. CASE offset # 0
        BY <1>1, <2>1 DEF Beside, Silent
    <2>2. CASE offset = 0
        <3> HIDE DEF offset
        <3>1. b = [w EXCEPT !.s.cgiPrivData = FALSE]
            BY <1>1, <2>2
        <3> QED BY <2>2, <3>1 DEF Shape, SlotOK, SlotFields, WorldFields, Beside, Silent
    <2> QED BY <2>1, <2>2
<1>5. b.s.cgiPrivData <=> Late(w)
    BY <1>4 DEF Late, Offset
<1>6. [b.s EXCEPT !.cgiPrivData = TRUE] = [w.s EXCEPT !.cgiPrivData = TRUE]
    BY <1>4
<1>7. CASE Late(w)
    <2>1. v = [w EXCEPT !.r = "DONE"]
        BY <1>3, <1>5, <1>7 DEF Done
    <2>2. Ignores(w, v)
        BY <2>1 DEF Ignores, Shape, WorldFields, Beside, Silent
    <2> QED BY <1>7, <2>2 DEF v
<1>8. CASE ~Late(w) /\ Faulty(w)
    <2>1. v = UploadError(b)
        BY <1>3, <1>5, <1>8
    <2>2. PICK u : u = httpdSend(b, <<"400">>)
        OBVIOUS
    <2>3. u.buff = <<"400">> /\ u.s = b.s /\ Beside(b, u) /\ Silent(b, u) /\ DOMAIN u = WorldFields
        BY <1>4, <2>2, SendIs
    <2>4. v = [[u EXCEPT !.s.cgiPrivData = TRUE] EXCEPT !.r = "DONE"]
        BY <2>1, <2>2 DEF UploadError, Done
    <2>5. /\ v.r = "DONE" /\ v.buff = <<"400">> /\ v.s = [u.s EXCEPT !.cgiPrivData = TRUE]
          /\ Beside(u, v) /\ Silent(u, v)
        BY <2>3, <2>4 DEF WorldFields, Beside, Silent
    <2>6. Beside(w, v) /\ Silent(w, v)
        BY <1>4, <2>3, <2>5 DEF Beside, Silent
    <2>7. Refuses(w, v)
        BY <1>6, <2>3, <2>5, <2>6 DEF Refuses
    <2> QED BY <1>8, <2>7 DEF v
<1>9. CASE ~Late(w) /\ ~Faulty(w)
    <2> DEFINE chunk == FlashChunk(w.flash[Other], offset, post.data, w.fault)
               hit == Strikes(offset, w.fault)
    <2>1. f = [b EXCEPT !.flash[Other] = chunk, !.struck = @ \/ hit, !.failed = @ \/ hit]
        <3>1. b.flash = w.flash /\ b.fault = w.fault
            BY <1>4 DEF Beside
        <3>2. f = [b EXCEPT !.flash[Other] = FlashChunk(@, offset, b.s.post.data, b.fault),
                            !.struck = @ \/ Strikes(offset, b.fault),
                            !.failed = @ \/ Strikes(offset, b.fault)]
            BY <1>2 DEF Flashed, Other
        <3> QED BY <1>4, <3>1, <3>2
    <2> HIDE DEF chunk, hit
    <2>2. /\ DOMAIN f = WorldFields /\ f.s = b.s /\ f.buff = <<>> /\ Silent(b, f)
          /\ f.req = b.req /\ f.fault = b.fault
          /\ f.flash = [b.flash EXCEPT ![Other] = chunk] /\ f.struck = (b.struck \/ hit)
        BY <1>4, <2>1 DEF Shape, WorldFields, Silent
    <2>3. PICK t : t = IF post.received = post.len THEN [f EXCEPT !.buff = <<"200">>] ELSE f
        OBVIOUS
    <2>4. v = [t EXCEPT !.r = IF post.received = post.len THEN "DONE" ELSE "MORE"]
        <3>1. CASE post.received = post.len
            <4>1. v = Done(httpdSend(f, <<"200">>))
                BY <1>3, <1>5, <1>9, <3>1
            <4>2. <<>> \o <<"200">> = <<"200">>
                OBVIOUS
            <4>3. httpdSend(f, <<"200">>) = [f EXCEPT !.buff = <<"200">>]
                BY <2>2, <4>2 DEF httpdSend
            <4> QED BY <2>3, <3>1, <4>1, <4>3 DEF Done
        <3>2. CASE post.received # post.len
            <4>1. v = More(f)
                BY <1>3, <1>5, <1>9, <3>2
            <4> QED BY <2>3, <3>2, <4>1 DEF More
        <3> QED BY <3>1, <3>2
    <2> HIDE DEF post
    <2>5. /\ DOMAIN t = WorldFields /\ t.s = f.s /\ Silent(f, t)
          /\ t.req = f.req /\ t.fault = f.fault
          /\ t.flash = f.flash /\ t.struck = f.struck
          /\ t.buff = IF post.received = post.len THEN <<"200">> ELSE <<>>
        BY <2>2, <2>3 DEF WorldFields, Silent
    <2>6. /\ v.s = f.s /\ Silent(f, v) /\ v.req = f.req /\ v.fault = f.fault
          /\ v.flash = f.flash /\ v.struck = f.struck
          /\ v.buff = (IF post.received = post.len THEN <<"200">> ELSE <<>>)
          /\ v.r = (IF post.received = post.len THEN "DONE" ELSE "MORE")
        BY <2>4, <2>5 DEF WorldFields, Silent
    <2>7. ~v.s.cgiPrivData /\ v.s \in {w.s, [w.s EXCEPT !.cgiPrivData = FALSE]}
        BY <1>4, <1>5, <1>9, <2>2, <2>6
    <2>8. /\ Silent(w, v) /\ v.req = w.req /\ v.fault = w.fault
          /\ v.flash = [w.flash EXCEPT ![Other] = chunk] /\ v.struck = (w.struck \/ hit)
        BY <1>4, <2>2, <2>6 DEF Silent, Beside
    <2>9. Takes(w, v)
        BY <2>6, <2>7, <2>8 DEF Takes, Offset, chunk, hit, post
    <2> QED BY <1>9, <2>9 DEF v
<1> QED BY <1>7, <1>8, <1>9
-----------------------------------------------------------------------------
\* What httpdProcessRequest does with what the last handler returned.
LEMMA AnswerTells ==
    ASSUME NEW x, Shape(x), x.r = "NOTFOUND" => x.buff = <<>>
    PROVE  LET v == Answer(x)
           IN  /\ v.buff = <<>> /\ Beside(x, v)
               /\ Utters(x, v, IF x.r = "NOTFOUND" THEN <<"404">> ELSE x.buff)
               /\ v.s = IF x.r = "MORE" THEN x.s ELSE [x.s EXCEPT !.cgi = NoHandler]
<1> DEFINE v == Answer(x)
<1>1. CASE x.r = "MORE"
    <2>1. v = xmitSendBuff(x)
        BY <1>1 DEF Answer
    <2> QED BY <1>1, <2>1, XmitIs
<1>2. CASE x.r # "MORE"
    <2>1. PICK u : u = IF x.r = "NOTFOUND" THEN httpdSend(x, <<"404">>) ELSE x
        OBVIOUS
    <2>2. /\ Shape(u) /\ u.s = x.s /\ Beside(x, u) /\ Silent(x, u)
          /\ u.buff = IF x.r = "NOTFOUND" THEN <<"404">> ELSE x.buff
        <3>1. CASE x.r = "NOTFOUND"
            BY <2>1, <3>1, SendKeeps, SendIs DEF Kept
        <3>2. CASE x.r # "NOTFOUND"
            BY <2>1, <3>2 DEF Beside, Silent
        <3> QED BY <3>1, <3>2
    <2>3. PICK t : t = xmitSendBuff(u)
        OBVIOUS
    <2>4. t.buff = <<>> /\ t.s = u.s /\ Beside(u, t) /\ Utters(u, t, u.buff)
        BY <2>2, <2>3, XmitIs
    <2>5. DOMAIN t = WorldFields
        BY <2>2, <2>3, XmitKeeps DEF Kept, Shape
    <2>6. v = [t EXCEPT !.s.cgi = NoHandler]
        BY <1>2, <2>1, <2>3 DEF Answer
    <2> HIDE DEF v
    <2>7. v.buff = <<>> /\ v.s = [t.s EXCEPT !.cgi = NoHandler] /\ Beside(t, v) /\ Silent(t, v)
        BY <2>4, <2>5, <2>6 DEF WorldFields, Beside, Silent
    <2>8. Beside(x, v) /\ Utters(x, v, u.buff)
        BY <2>2, <2>4, <2>7 DEF Beside, Utters, Says, Silent
    <2>9. v.s = [x.s EXCEPT !.cgi = NoHandler]
        BY <2>2, <2>4, <2>7
    <2> QED BY <1>2, <2>2, <2>7, <2>8, <2>9 DEF v
<1> QED BY <1>1, <1>2

\* The world a handler is called with.
AskedWith(w, z, cgi) ==
    /\ Shape(z) /\ z.buff = w.buff /\ z.aborted = w.aborted
    /\ Beside(w, z) /\ Silent(w, z)
    /\ z.s.cgi = cgi /\ z.s.cgiData = NoFile /\ z.s.post = w.s.post /\ z.s.url = w.s.url
    /\ z.s.cgiPrivData = w.s.cgiPrivData

\* A route that is asked first of those that match.
LEMMA AskIs ==
    ASSUME NEW w, Shape(w), NEW i \in 1 .. 4, IsMatch(builtInUrls[i], w.s.url),
           NEW a, a = [w EXCEPT !.r = "NOTFOUND"]
    PROVE  \E z : AskedWith(w, z, builtInUrls[i].cgi) /\ Ask(a, builtInUrls[i]) = CallCgi(z)
<1> DEFINE cgi == builtInUrls[i].cgi
           z == [a EXCEPT !.s.cgiData = NoFile, !.s.cgi = builtInUrls[i].cgi]
<1>1. cgi \in Handlers
    BY DEF builtInUrls, Handlers
<1>2. a.r = "NOTFOUND" /\ a.s = w.s /\ DOMAIN a = WorldFields /\ DOMAIN w.s = SlotFields
    BY DEF Shape, SlotOK, WorldFields
<1>3. Ask(a, builtInUrls[i]) = CallCgi(z)
    BY <1>2, Zenon DEF Ask
<1> HIDE DEF cgi
<1>4. z = [w EXCEPT !.r = "NOTFOUND", !.s = [w.s EXCEPT !.cgiData = NoFile, !.cgi = cgi]]
    <2>1. z = [a EXCEPT !.s = [a.s EXCEPT !.cgiData = NoFile, !.cgi = cgi]]
        BY <1>2 DEF WorldFields, cgi
    <2> HIDE DEF z
    <2> QED BY <1>2, <2>1 DEF WorldFields, Shape
<1> HIDE DEF z
<1>5. /\ z.s = [w.s EXCEPT !.cgiData = NoFile, !.cgi = cgi] /\ z.buff = w.buff
      /\ z.aborted = w.aborted /\ Beside(w, z) /\ Silent(w, z) /\ DOMAIN z = WorldFields
      /\ z.heap = w.heap /\ z.rebooting = w.rebooting /\ z.failed = w.failed
    BY <1>4 DEF Shape, WorldFields, Beside, Silent
<1>6. /\ z.s.cgi = cgi /\ z.s.cgiData = NoFile /\ z.s.post = w.s.post /\ z.s.url = w.s.url
      /\ z.s.cgiPrivData = w.s.cgiPrivData /\ z.s.headPos = w.s.headPos /\ DOMAIN z.s = SlotFields
    BY <1>2, <1>5 DEF SlotFields
<1>7. SlotOK(z.s)
    BY <1>1, <1>6 DEF Shape, SlotOK, NoFile
<1>8. Shape(z)
    BY <1>5, <1>7 DEF Shape, Beside, Silent
<1> QED BY <1>3, <1>5, <1>6, <1>8 DEF cgi, AskedWith

\* What a callback tells the client when a handler was called for the first time.
Closes(w, v, part) ==
    v.s.cgi = NoHandler /\ Says(w, v, <<part>>) /\ v.flash = w.flash /\ v.struck = w.struck
Opens(w, v) ==
    /\ w.s.url \in DOMAIN FileLen \ {"/", "/flash/upload", "/flash/reboot"}
    /\ v.s.cgi = "cgiEspFsHook" /\ v.s.cgiData = [name |-> w.s.url, pos |-> 0]
    /\ Says(w, v, <<"200">>) /\ v.flash = w.flash /\ v.struck = w.struck
\* ... and with a chunk of an upload.
Uploads(w, v) ==
    IF Late(w) THEN /\ v.s.cgi = NoHandler /\ v.s.cgiPrivData /\ Silent(w, v)
                    /\ v.flash = w.flash /\ v.struck = w.struck
    ELSE IF Faulty(w) THEN Closes(w, v, "400") /\ v.s.cgiPrivData
    ELSE /\ ~v.s.cgiPrivData
         /\ IF w.s.post.received = w.s.post.len
            THEN v.s.cgi = NoHandler /\ Says(w, v, <<"200">>)
            ELSE v.s.cgi = "cgiUploadFirmware" /\ Silent(w, v)
         /\ v.flash = [w.flash EXCEPT ![Other] =
                     FlashChunk(w.flash[Other], Offset(w.s.post), w.s.post.data, w.fault)]
         /\ v.struck = (w.struck \/ Strikes(Offset(w.s.post), w.fault))

\* An answer of one part.
LEMMA ClosesBy ==
    ASSUME NEW w, NEW z, NEW y, NEW part, Beside(w, z), Silent(w, z), Shape(y),
           Replies(z, y, part)
    PROVE  Closes(w, Answer(y), part) /\ Answer(y).buff = <<>> /\ Answer(y).req = w.req
           /\ Answer(y).fault = w.fault
<1>1. y.r = "DONE" /\ y.buff = <<part>> /\ Beside(z, y) /\ Silent(z, y)
    BY DEF Replies
<1>2. PICK v : v = Answer(y)
    OBVIOUS
<1>3. /\ v.buff = <<>> /\ Beside(y, v) /\ Utters(y, v, <<part>>)
      /\ v.s = [y.s EXCEPT !.cgi = NoHandler]
    BY <1>1, <1>2, AnswerTells
<1>4. v.s.cgi = NoHandler
    BY <1>3 DEF Shape, SlotOK, SlotFields
<1>5. <<part>> # <<>>
    OBVIOUS
<1> QED BY <1>1, <1>2, <1>3, <1>4, <1>5 DEF Closes, Utters, Says, Silent, Beside
-----------------------------------------------------------------------------
\* What follows when the upload handler was called.
LEMMA UploadsBy ==
    ASSUME NEW w, NEW z, NEW y, Beside(w, z), Silent(w, z), Shape(z), Shape(y),
           z.s.cgi = "cgiUploadFirmware", y.s.cgi = z.s.cgi,
           z.s.post = w.s.post, z.s.cgiPrivData = w.s.cgiPrivData, z.buff = <<>>, ~z.aborted,
           y = cgiUploadFirmware(z)
    PROVE  Uploads(w, Answer(y)) /\ Answer(y).buff = <<>> /\ Answer(y).req = w.req
           /\ Answer(y).fault = w.fault
<1>1. (Late(z) <=> Late(w)) /\ (Faulty(z) <=> Faulty(w))
    BY DEF Late, Faulty, Beside
<1>2. IF Late(w) THEN Ignores(z, y) ELSE IF Faulty(w) THEN Refuses(z, y) ELSE Takes(z, y)
    BY <1>1, UploadTells
<1>3. y.r # "NOTFOUND" /\ y.req = z.req /\ y.fault = z.fault /\ Silent(z, y)
    BY <1>2 DEF Ignores, Refuses, Takes, Beside
<1>4. PICK v : v = Answer(y)
    OBVIOUS
<1>5. /\ v.buff = <<>> /\ Beside(y, v) /\ Utters(y, v, y.buff)
      /\ v.s = IF y.r = "MORE" THEN y.s ELSE [y.s EXCEPT !.cgi = NoHandler]
    BY <1>3, <1>4, AnswerTells
<1>6. v.req = w.req /\ v.fault = w.fault
    BY <1>3, <1>5 DEF Beside
<1>7. /\ v.s.cgi = (IF y.r = "MORE" THEN "cgiUploadFirmware" ELSE NoHandler)
      /\ v.s.cgiPrivData = y.s.cgiPrivData
    BY <1>5 DEF Shape, SlotOK, SlotFields
<1>8. Silent(w, y)
    BY <1>3 DEF Silent
<1>9. CASE Late(w)
    <2>1. y.r = "DONE" /\ y.buff = <<>> /\ y.s = z.s /\ Beside(z, y)
        BY <1>2, <1>9 DEF Ignores
    <2>2. Silent(w, v) /\ v.flash = w.flash /\ v.struck = w.struck
        BY <1>5, <1>8, <2>1 DEF Utters, Silent, Beside
    <2>3. v.s.cgi = NoHandler /\ v.s.cgiPrivData
        BY <1>7, <1>9, <2>1 DEF Late
    <2> QED BY <1>4, <1>5, <1>6, <1>9, <2>2, <2>3 DEF Uploads
<1>10. CASE ~Late(w) /\ Faulty(w)
    <2>1. /\ y.r = "DONE" /\ y.buff = <<"400">> /\ Beside(z, y)
          /\ y.s = [z.s EXCEPT !.cgiPrivData = TRUE]
        BY <1>2, <1>10 DEF Refuses
    <2>2. y.s.cgiPrivData
        BY <2>1 DEF Shape, SlotOK, SlotFields
    <2>3. Says(w, v, <<"400">>) /\ v.flash = w.flash /\ v.struck = w.struck
        BY <1>5, <1>8, <2>1 DEF Utters, Says, Silent, Beside
    <2> QED BY <1>4, <1>5, <1>6, <1>7, <1>10, <2>1, <2>2, <2>3 DEF Uploads, Closes
<1>11. CASE ~Late(w) /\ ~Faulty(w)
    <2>1. Takes(z, y)
        BY <1>2, <1>11
    <2>2. z.flash = w.flash /\ z.struck = w.struck /\ z.fault = w.fault
        BY DEF Beside
    <2>3. /\ v.flash = [w.flash EXCEPT ![Other] =
                     FlashChunk(w.flash[Other], Offset(w.s.post), w.s.post.data, w.fault)]
          /\ v.struck = (w.struck \/ Strikes(Offset(w.s.post), w.fault))
          /\ ~v.s.cgiPrivData
        BY <1>5, <1>7, <2>1, <2>2 DEF Takes, Beside
    <2>4. CASE w.s.post.received = w.s.post.len
        <3>1. y.r = "DONE" /\ y.buff = <<"200">>
            BY <2>1, <2>4 DEF Takes
        <3>2. Says(w, v, <<"200">>) /\ v.s.cgi = NoHandler
            BY <1>5, <1>7, <1>8, <3>1 DEF Utters, Says, Silent
        <3> QED BY <1>4, <1>5, <1>6, <1>11, <2>3, <2>4, <3>2 DEF Uploads
    <2>5. CASE w.s.post.received # w.s.post.len
        <3>1. y.r = "MORE" /\ y.buff = <<>>
            BY <2>1, <2>5 DEF Takes
        <3>2. Silent(w, v) /\ v.s.cgi = "cgiUploadFirmware"
            BY <1>5, <1>7, <1>8, <3>1 DEF Utters, Silent
        <3> QED BY <1>4, <1>5, <1>6, <1>11, <2>3, <2>5, <3>2 DEF Uploads
    <2> QED BY <2>4, <2>5
<1> QED BY <1>9, <1>10, <1>11

\* What follows when the files were asked.
LEMMA OpensBy ==
    ASSUME NEW w, NEW z, NEW y, Beside(w, z), Silent(w, z), Shape(z), Shape(y),
           z.s.cgi = "cgiEspFsHook", z.s.url = w.s.url, w.req.url = w.s.url,
           w.s.url \notin {"/", "/flash/upload", "/flash/reboot"},
           z.buff = <<>>, y = OpenFile(z)
    PROVE  /\ Opens(w, Answer(y)) \/ \E part : /\ Closes(w, Answer(y), part)
                                              /\ <<part>> \in Answers(w.req)
           /\ Answer(y).buff = <<>> /\ Answer(y).req = w.req /\ Answer(y).fault = w.fault
<1> DEFINE url == w.s.url
<1>1. CASE /\ z.s.url \notin DOMAIN FileLen
           /\ y.r = "NOTFOUND" /\ y.buff = <<>> /\ y.s = z.s /\ Beside(z, y) /\ Silent(z, y)
    <2>1. PICK v : v = Answer(y)
        OBVIOUS
    <2>2. /\ v.buff = <<>> /\ Beside(y, v) /\ Utters(y, v, <<"404">>)
          /\ v.s = [y.s EXCEPT !.cgi = NoHandler]
        BY <1>1, <2>1, AnswerTells
    <2>3. v.s.cgi = NoHandler
        BY <2>2 DEF Shape, SlotOK, SlotFields
    <2>4. Says(w, v, <<"404">>) /\ Beside(w, v)
        BY <1>1, <2>2 DEF Utters, Says, Silent, Beside
    <2>5. Answers(w.req) = {<<"404">>}
        BY <1>1 DEF Answers
    <2> QED BY <2>1, <2>2, <2>3, <2>4, <2>5 DEF Closes, Beside
<1>2. CASE /\ z.s.url \in DOMAIN FileLen /\ z.req.gzip /\ ~(z.req.accepts \/ z.garbage)
           /\ Replies(z, y, "501")
    <2>1. Closes(w, Answer(y), "501") /\ Answer(y).buff = <<>> /\ Answer(y).req = w.req
          /\ Answer(y).fault = w.fault
        BY <1>2, ClosesBy
    <2>2. w.req.gzip /\ ~w.req.accepts
        BY <1>2 DEF Beside
    <2>3. Answers(w.req) = {FileAnswer(w.req.url)} \cup {<<"501">>}
        BY <1>2, <2>2 DEF Answers
    <2> QED BY <2>1, <2>3
<1>3. CASE /\ z.s.url \in DOMAIN FileLen
           /\ y.r = "MORE" /\ y.buff = <<"200">> /\ Beside(z, y) /\ Silent(z, y)
           /\ y.s = [z.s EXCEPT !.cgiData = [name |-> z.s.url, pos |-> 0]]
    <2>1. PICK v : v = Answer(y)
        OBVIOUS
    <2>2. v.buff = <<>> /\ Beside(y, v) /\ Utters(y, v, <<"200">>) /\ v.s = y.s
        BY <1>3, <2>1, AnswerTells
    <2>3. v.s.cgi = "cgiEspFsHook" /\ v.s.cgiData = [name |-> url, pos |-> 0]
        BY <1>3, <2>2 DEF Shape, SlotOK, SlotFields
    <2>4. Says(w, v, <<"200">>) /\ Beside(w, v)
        BY <1>3, <2>2 DEF Utters, Says, Silent, Beside
    <2>5. Opens(w, v)
        BY <1>3, <2>3, <2>4 DEF Opens, Beside
    <2> QED BY <2>1, <2>2, <2>4, <2>5 DEF Beside
<1> QED BY <1>1, <1>2, <1>3, OpenTells

\* The routes, and the answers of those that are asked for by name.
LEMMA RoutesAre ==
    /\ builtInUrls[1].url = "/" /\ builtInUrls[1].cgi = "cgiPage"
    /\ builtInUrls[2].url = "/flash/upload" /\ builtInUrls[2].cgi = "cgiUploadFirmware"
    /\ builtInUrls[3].url = "/flash/reboot" /\ builtInUrls[3].cgi = "cgiRebootFirmware"
    /\ builtInUrls[4].url = "*" /\ builtInUrls[4].cgi = "cgiEspFsHook"
    BY DEF builtInUrls

LEMMA AnswersAre ==
    ASSUME NEW req
    PROVE  /\ req.url = "/" => Answers(req) = {<<"page">>}
           /\ req.url = "/flash/reboot" => Answers(req) = {<<"200">>, <<"400">>}
           /\ req.url = "/flash/upload" =>
                 Answers(req) = {IF ValidUpload(req) THEN <<"200">> ELSE <<"400">>}
<1>1. req.url = "/" => Answers(req) = {<<"page">>}
    BY DEF Answers
<1>2. req.url = "/flash/reboot" => Answers(req) = {<<"200">>, <<"400">>}
    BY DEF Answers
<1>3. req.url = "/flash/upload" =>
                 Answers(req) = {IF ValidUpload(req) THEN <<"200">> ELSE <<"400">>}
    BY DEF Answers
<1> QED BY <1>1, <1>2, <1>3

\* httpdProcessRequest, when a handler is called for the first time or with a chunk.
LEMMA ProcessTells ==
    ASSUME NEW w, Shape(w), ~w.aborted, w.s.url # NULL, userbin \in Userbins, w.fault \in Faults,
           Ready(w), w.buff = <<>>, w.req.url = w.s.url
    PROVE  LET v == httpdProcessRequest(w)
           IN  /\ v.buff = <<>> /\ v.req = w.req /\ v.fault = w.fault
               /\ w.s.url = "/flash/upload" => Uploads(w, v)
               /\ w.s.url # "/flash/upload" =>
                     Opens(w, v) \/ \E part : Closes(w, v, part) /\ <<part>> \in Answers(w.req)
<1>0. PICK a0 : a0 = [w EXCEPT !.r = "NOTFOUND"]
    OBVIOUS
<1>1. PICK a1, a2, a3, a4 :
            /\ a1 = Ask(a0, builtInUrls[1])
            /\ a2 = Ask(a1, builtInUrls[2]) /\ a3 = Ask(a2, builtInUrls[3])
            /\ a4 = Ask(a3, builtInUrls[4])
            /\ httpdProcessRequest(w) = Answer(a4)
    BY <1>0, ProcessIs
<1> DEFINE url == w.s.url
<1>2. Walked(w, a0) /\ a0.r = "NOTFOUND"
    BY <1>0, WalkBegins
<1>4. 1 \in 1 .. 4 /\ 2 \in 1 .. 4 /\ 3 \in 1 .. 4 /\ 4 \in 1 .. 4
    OBVIOUS
<1>3. Walked(w, a1) /\ Walked(w, a2) /\ Walked(w, a3) /\ Walked(w, a4)
    <2>1. Walked(w, a1)
        BY <1>1, <1>2, RouteKeeps, <1>4
    <2>2. Walked(w, a2)
        BY <1>1, <2>1, RouteKeeps, <1>4
    <2>3. Walked(w, a3)
        BY <1>1, <2>2, RouteKeeps, <1>4
    <2>4. Walked(w, a4)
        BY <1>1, <2>3, RouteKeeps, <1>4
    <2> QED BY <2>1, <2>2, <2>3, <2>4
<1>5. CASE url = "/"
    <2>1. IsMatch(builtInUrls[1], url)
        BY RoutesAre, <1>5 DEF IsMatch
    <2>2. PICK z : AskedWith(w, z, "cgiPage") /\ a1 = CallCgi(z)
        BY <1>0, <1>1, <1>4, <2>1, RoutesAre, AskIs
    <2>3. a1 = cgiPage(z)
        BY <2>2 DEF CallCgi, AskedWith
    <2>4. Replies(z, a1, "page") /\ a1.r = "DONE"
        BY <2>2, <2>3, PageTells DEF Replies, AskedWith
    <2>5. a2 = a1
        BY <1>1, <1>3, <2>4, RouteKeeps, <1>4
    <2>6. a3 = a2
        BY <1>1, <1>3, <2>4, <2>5, RouteKeeps, <1>4
    <2>7. a4 = a3
        BY <1>1, <1>3, <2>4, <2>5, <2>6, RouteKeeps, <1>4
    <2>8. a4 = a1 /\ Shape(a1)
        BY <1>3, <2>5, <2>6, <2>7 DEF Walked, Kept
    <2>9. /\ Closes(w, Answer(a1), "page") /\ Answer(a1).buff = <<>> /\ Answer(a1).req = w.req
          /\ Answer(a1).fault = w.fault
        BY <2>2, <2>4, <2>8, ClosesBy DEF AskedWith
    <2>10. Answers(w.req) = {<<"page">>}
        BY <1>5, AnswersAre
    <2> QED BY <1>1, <1>5, <2>8, <2>9, <2>10
<1>6. ASSUME url # "/" PROVE a1 = a0
    <2>1. ~IsMatch(builtInUrls[1], url)
        BY RoutesAre, <1>6 DEF IsMatch
    <2> QED BY <1>1, <1>2, <2>1, RouteKeeps, <1>4
<1>7. CASE url = "/flash/upload"
    <2>1. IsMatch(builtInUrls[2], url) /\ a1 = a0
        BY RoutesAre, <1>6, <1>7 DEF IsMatch
    <2>2. PICK z : AskedWith(w, z, "cgiUploadFirmware") /\ a2 = CallCgi(z)
        BY <1>0, <1>1, <1>4, <2>1, RoutesAre, AskIs
    <2>3. a2 = cgiUploadFirmware(z)
        BY <2>2 DEF CallCgi, AskedWith
    <2>4. Shape(a2) /\ a2.r # "NOTFOUND" /\ a2.s.cgi = "cgiUploadFirmware"
        <3>1. a1.r = "NOTFOUND"
            BY <1>2, <2>1
        <3>2. /\ a2.s.cgi = builtInUrls[2].cgi
              /\ a2.r = "NOTFOUND" => builtInUrls[2].cgi = "cgiEspFsHook"
            BY <1>1, <1>3, <1>4, <2>1, <3>1, RouteKeeps
        <3> QED BY <1>3, <3>2, RoutesAre DEF Walked, Kept
    <2>5. a3 = a2
        BY <1>1, <1>3, <2>4, RouteKeeps, <1>4
    <2>6. a4 = a3
        BY <1>1, <1>3, <2>4, <2>5, RouteKeeps, <1>4
    <2>7. Uploads(w, Answer(a2)) /\ Answer(a2).buff = <<>> /\ Answer(a2).req = w.req
          /\ Answer(a2).fault = w.fault
        BY <2>2, <2>3, <2>4, UploadsBy DEF AskedWith
    <2> QED BY <1>1, <1>7, <2>5, <2>6, <2>7
<1>8. ASSUME url \notin {"/", "/flash/upload"} PROVE a2 = a0
    <2>1. ~IsMatch(builtInUrls[2], url) /\ a1 = a0
        BY RoutesAre, <1>6, <1>8 DEF IsMatch
    <2> QED BY <1>1, <1>3, <2>1, RouteKeeps, <1>4
<1>9. CASE url = "/flash/reboot"
    <2>1. IsMatch(builtInUrls[3], url) /\ a2 = a0
        BY RoutesAre, <1>8, <1>9 DEF IsMatch
    <2>2. PICK z : AskedWith(w, z, "cgiRebootFirmware") /\ a3 = CallCgi(z)
        BY <1>0, <1>1, <1>4, <2>1, RoutesAre, AskIs
    <2>3. a3 = cgiRebootFirmware(z)
        BY <2>2 DEF CallCgi, AskedWith
    <2>4. PICK part \in {"200", "400"} : Replies(z, a3, part)
        BY <2>2, <2>3, RebootTells DEF AskedWith
    <2>5. a3.r = "DONE"
        BY <2>4 DEF Replies
    <2>6. a4 = a3 /\ Shape(a3)
        <3>1. a4 = a3
            BY <1>1, <1>3, <1>4, <2>5, RouteKeeps
        <3> QED BY <1>3, <3>1 DEF Walked, Kept
    <2>7. /\ Closes(w, Answer(a3), part) /\ Answer(a3).buff = <<>> /\ Answer(a3).req = w.req
          /\ Answer(a3).fault = w.fault
        BY <2>2, <2>4, <2>6, ClosesBy DEF AskedWith
    <2>8. Answers(w.req) = {<<"200">>, <<"400">>}
        BY <1>9, AnswersAre
    <2> QED BY <1>1, <1>9, <2>4, <2>6, <2>7, <2>8
<1>10. CASE url \notin {"/", "/flash/upload", "/flash/reboot"}
    <2>1. ~IsMatch(builtInUrls[3], url) /\ IsMatch(builtInUrls[4], url) /\ a2 = a0
        BY RoutesAre, <1>8, <1>10 DEF IsMatch
    <2>2. a3 = a0
        BY <1>1, <1>3, <2>1, RouteKeeps, <1>4
    <2>3. PICK z : AskedWith(w, z, "cgiEspFsHook") /\ a4 = CallCgi(z)
        BY <1>0, <1>1, <1>4, <2>1, <2>2, RoutesAre, AskIs
    <2>4. a4 = OpenFile(z)
        BY <2>3 DEF CallCgi, cgiEspFsHook, AskedWith
    <2>5. Shape(a4)
        BY <1>3 DEF Walked, Kept
    <2>6. /\ Opens(w, Answer(a4)) \/ \E part : /\ Closes(w, Answer(a4), part)
                                              /\ <<part>> \in Answers(w.req)
          /\ Answer(a4).buff = <<>> /\ Answer(a4).req = w.req /\ Answer(a4).fault = w.fault
        BY <1>10, <2>3, <2>4, <2>5, OpensBy DEF AskedWith
    <2> QED BY <1>1, <1>10, <2>6
<1> QED BY <1>5, <1>7, <1>9, <1>10
-----------------------------------------------------------------------------
\* The buffer for a body, one unit later: next is post with the unit appended.
LaterBy(p, req, post, next) ==
    /\ next.data = Append(post.data, Content(p, req, post.received))
    /\ next.received = post.received + 1
    /\ next.len = post.len /\ next.buffSize = post.buffSize

\* In the middle of a body.
Midway(p, req, post) ==
    /\ post.data \in Seq(Clients \X Int) /\ post.received \in Nat
    /\ post.len \in Nat /\ post.len > 0 /\ post.received < post.len
    /\ Len(post.data) <= post.received /\ Len(post.data) < post.buffSize
    /\ post.buffSize = Min({post.len, MAX_POST})
    /\ Buffered(p, req, post)

LEMMA AppendedIs ==
    ASSUME NEW p, NEW req, NEW post, Midway(p, req, post), NEW next, LaterBy(p, req, post, next)
    PROVE  /\ Offset(next) = Offset(post) /\ Offset(post) \in Nat
           /\ Len(next.data) = Len(post.data) + 1 /\ Len(next.data) \in Nat
           /\ \A j \in 1 .. Len(next.data) : next.data[j] = Content(p, req, Offset(next) + j - 1)
           /\ \E q \in Nat : Offset(next) = MAX_POST * q
           /\ Len(next.data) <= MAX_POST
           /\ Asked(post) <=> Offset(next) # 0
<1> DEFINE content == Content(p, req, post.received)
           old == post.data
           got == next.data
<1>1. /\ old \in Seq(Clients \X Int) /\ Len(old) \in Nat /\ post.received \in Nat
      /\ post.len \in Nat /\ post.len > 0 /\ Len(old) <= post.received
      /\ Len(old) < post.buffSize
    BY DEF Midway
<1>2. post.buffSize \in Nat /\ post.buffSize <= MAX_POST /\ post.buffSize <= post.len
      /\ MAX_POST \in Nat
    BY <1>1, MinIs, HttpdAssumption DEF Midway
<1>3. got = Append(old, content) /\ next.received = post.received + 1
    BY DEF LaterBy
<1> HIDE DEF content
<1>4. /\ Len(got) = Len(old) + 1
      /\ \A j \in 1 .. Len(old) : got[j] = old[j]
      /\ got[Len(old) + 1] = content
    <2>1. PICK s : s = old
        OBVIOUS
    <2>2. /\ Len(Append(s, content)) = Len(s) + 1
          /\ \A j \in 1 .. Len(s) : Append(s, content)[j] = s[j]
          /\ Append(s, content)[Len(s) + 1] = content
        BY <1>1, <2>1
    <2> QED BY <1>3, <2>1, <2>2
<1>5. Offset(next) = Offset(post) /\ Offset(post) = post.received - Len(old) /\ Offset(post) \in Nat
    <2>1. Len(got) = Len(old) + 1 /\ next.received = post.received + 1
        BY <1>3, <1>4
    <2> QED BY <1>1, <2>1 DEF Offset
<1> HIDE DEF old, got
<1>6. /\ \A j \in 1 .. Len(old) : old[j] = Content(p, req, Offset(post) + j - 1)
      /\ \E q \in Nat : Offset(post) = MAX_POST * q
      /\ post.received < post.buffSize => Offset(post) = 0
    BY DEF Midway, Buffered, old
<1>7. \A j \in 1 .. Len(got) : got[j] = Content(p, req, Offset(next) + j - 1)
    <2> SUFFICES ASSUME NEW j \in 1 .. Len(got) PROVE got[j] = Content(p, req, Offset(next) + j - 1)
        OBVIOUS
    <2>1. CASE j = Len(old) + 1
        <3>1. Offset(next) + j - 1 = post.received
            BY <1>1, <1>5, <2>1
        <3> QED BY <1>4, <2>1, <3>1 DEF content
    <2>2. CASE j # Len(old) + 1
        <3>1. j \in 1 .. Len(old)
            BY <1>1, <1>4, <2>2
        <3> QED BY <1>4, <1>5, <1>6, <3>1
    <2> QED BY <2>1, <2>2
<1>8. Len(got) <= MAX_POST /\ Len(got) \in Nat
    BY <1>1, <1>2, <1>4
<1>9. Asked(post) <=> Offset(next) # 0
    <2>1. Asked(post) <=> post.received >= post.buffSize
        BY <1>1 DEF Asked
    <2> QED BY <1>1, <1>2, <1>5, <1>6, <2>1
<1> QED BY <1>4, <1>5, <1>6, <1>7, <1>8, <1>9 DEF got, old

\* The chunk is not complete yet.
LEMMA NotReadyIs ==
    ASSUME NEW p, NEW req, NEW post, Midway(p, req, post), NEW next, LaterBy(p, req, post, next),
           ~ChunkReady(next)
    PROVE  /\ Buffered(p, req, next) /\ (Asked(next) <=> Asked(post))
           /\ next.received < next.len /\ Offset(next) = Offset(post)
<1>1. /\ Offset(next) = Offset(post) /\ Offset(post) \in Nat
      /\ Len(next.data) = Len(post.data) + 1 /\ Len(next.data) \in Nat
      /\ \A j \in 1 .. Len(next.data) : next.data[j] = Content(p, req, Offset(next) + j - 1)
      /\ \E q \in Nat : Offset(next) = MAX_POST * q
      /\ Asked(post) <=> Offset(next) # 0
    BY AppendedIs
<1>2. /\ post.received \in Nat /\ post.len \in Nat /\ post.len > 0 /\ post.received < post.len
      /\ next.received = post.received + 1 /\ next.len = post.len
      /\ next.buffSize = post.buffSize /\ Len(post.data) <= post.received
      /\ post.received < post.buffSize => Offset(post) = 0
    BY DEF Midway, LaterBy, Buffered
<1>3. post.buffSize \in Nat
    BY <1>2, MinIs, HttpdAssumption DEF Midway
<1>4. Len(next.data) < post.buffSize /\ next.received # next.len
    BY <1>1, <1>2, <1>3 DEF ChunkReady
<1>5. next.received < next.len
    BY <1>2, <1>4
<1>6. next.received - Len(next.data) = Offset(next)
    BY DEF Offset
<1>7. next.received < next.buffSize <=> Offset(next) = 0
    <2>1. Asked(post) <=> post.received >= post.buffSize
        BY <1>2 DEF Asked
    <2> QED BY <1>1, <1>2, <1>3, <1>4, <1>6, <2>1
<1>8. Asked(next) <=> Asked(post)
    BY <1>1, <1>2, <1>3, <1>7 DEF Asked
<1> QED BY <1>1, <1>5, <1>7, <1>8 DEF Buffered

\* The chunk is complete: it goes to the handler, and the buffer is emptied.
LEMMA ReadyIs ==
    ASSUME NEW p, NEW req, NEW post, Midway(p, req, post), NEW next, LaterBy(p, req, post, next),
           ChunkReady(next), NEW rest, rest.data = <<>>, rest.received = next.received,
           rest.len = next.len, rest.buffSize = next.buffSize
    PROVE  /\ Buffered(p, req, rest) /\ Asked(rest) /\ Offset(rest) = next.received
           /\ next.received <= next.len
           /\ next.received < next.len => next.received = Offset(next) + MAX_POST
           /\ next.len <= MAX_POST => next.received = next.len
           /\ next.received = Offset(next) + Len(next.data)
<1>1. /\ Offset(next) = Offset(post) /\ Offset(post) \in Nat
      /\ Len(next.data) = Len(post.data) + 1 /\ Len(next.data) \in Nat
      /\ Asked(post) <=> Offset(next) # 0
    BY AppendedIs
<1>0. PICK q \in Nat : Offset(next) = MAX_POST * q
    BY AppendedIs
<1>2. /\ post.received \in Nat /\ post.len \in Nat /\ post.len > 0 /\ post.received < post.len
      /\ next.received = post.received + 1 /\ next.len = post.len
      /\ next.buffSize = post.buffSize /\ Len(post.data) <= post.received
      /\ Len(post.data) < post.buffSize
      /\ post.received < post.buffSize => Offset(post) = 0
    BY DEF Midway, LaterBy, Buffered
<1>3. /\ post.buffSize = (IF post.len <= MAX_POST THEN post.len ELSE MAX_POST)
      /\ MAX_POST \in Nat \ {0}
    BY <1>2, MinIs, HttpdAssumption DEF Midway
<1>4. Len(next.data) >= next.buffSize \/ next.received = next.len
    BY DEF ChunkReady
<1>5. next.received = Offset(next) + Len(next.data) /\ next.received <= next.len
      /\ Offset(next) = next.received - Len(next.data)
    <2>1. Offset(next) = next.received - Len(next.data)
        BY DEF Offset
    <2>2. PICK offset, l : offset = Offset(next) /\ l = Len(next.data)
        OBVIOUS
    <2>3. offset = next.received - l /\ offset \in Nat /\ l \in Nat
        BY <1>1, <2>1, <2>2
    <2>4. next.received = offset + l /\ next.received <= next.len
        BY <1>2, <2>3
    <2> QED BY <2>2, <2>3, <2>4
<1>6. ASSUME next.received < next.len
      PROVE  Len(next.data) = MAX_POST /\ post.buffSize = MAX_POST
             /\ next.received = Offset(next) + MAX_POST
    <2>1. Len(next.data) = post.buffSize
        BY <1>1, <1>2, <1>3, <1>4, <1>6
    <2>2. post.buffSize <= next.received
        BY <1>1, <1>2, <1>3, <1>5, <2>1
    <2> QED BY <1>2, <1>3, <1>5, <1>6, <2>1, <2>2
<1>7. next.len <= MAX_POST => next.received = next.len
    <2> SUFFICES ASSUME next.len <= MAX_POST, next.received < next.len PROVE FALSE
        BY <1>2, <1>5
    <2>1. Len(next.data) = MAX_POST /\ next.received = Offset(next) + MAX_POST
        BY <1>2, <1>6
    <2> QED BY <1>1, <1>2, <1>3, <2>1
<1>8. Len(rest.data) = 0
    OBVIOUS
<1>9. Offset(rest) = next.received
    BY <1>2, <1>8 DEF Offset
<1>10. next.received >= next.buffSize
    <2>1. CASE next.received = next.len
        BY <1>2, <1>3, <2>1
    <2>2. CASE next.received # next.len
        <3>1. next.received < next.len
            BY <1>2, <1>5, <2>2
        <3>2. post.buffSize = MAX_POST /\ next.received = Offset(next) + MAX_POST
            BY <1>6, <3>1
        <3> QED BY <1>1, <1>2, <1>3, <3>2
    <2> QED BY <2>1, <2>2
<1>11. Asked(rest)
    BY <1>2, <1>10 DEF Asked
<1>12. next.received < next.len => \E r \in Nat : Offset(rest) = MAX_POST * r
    <2> SUFFICES ASSUME next.received < next.len
                 PROVE  \E r \in Nat : Offset(rest) = MAX_POST * r
        OBVIOUS
    <2>1. next.received = MAX_POST * q + MAX_POST
        BY <1>0, <1>6
    <2>2. MAX_POST * q + MAX_POST = MAX_POST * (q + 1) /\ q + 1 \in Nat
        BY <1>3
    <2> QED BY <1>9, <2>1, <2>2
<1>13. ~(rest.received < rest.buffSize)
    BY <1>2, <1>3, <1>10
<1>14. Buffered(p, req, rest)
    BY <1>8, <1>12, <1>13 DEF Buffered
<1> QED BY <1>5, <1>6, <1>7, <1>9, <1>11, <1>14
-----------------------------------------------------------------------------
\* A multiple of M below one of the multiples of S = M * c leaves room for M.
LEMMA RoomFor ==
    ASSUME NEW M \in Nat \ {0}, NEW e \in Int, NEW q \in Int, M * q < M * e
    PROVE  M * q + M <= M * e
<1>1. CASE q + 1 <= e
    BY <1>1, MulMono
<1>2. CASE ~(q + 1 <= e)
    <2>1. (e - 1) + 1 <= q
        BY <1>2
    <2>2. M * (e - 1) + M <= M * q
        BY <2>1, MulMono
    <2>3. M * (e - 1) + M = M * e
        OBVIOUS
    <2> QED BY <2>2, <2>3
<1> QED BY <1>1, <1>2

\* Chunks and sectors.
LEMMA SectorsAre ==
    ASSUME NEW q \in Nat, NEW offset \in Nat, offset = MAX_POST * q, NEW b \in Nat
    PROVE  /\ offset < SPI_FLASH_SEC_SIZE * b + SPI_FLASH_SEC_SIZE =>
                 offset + MAX_POST <= SPI_FLASH_SEC_SIZE * b + SPI_FLASH_SEC_SIZE
           /\ SPI_FLASH_SEC_SIZE * b < offset + MAX_POST => SPI_FLASH_SEC_SIZE * b <= offset
           /\ SPI_FLASH_SEC_SIZE * b \in Nat
           /\ MAX_POST <= SPI_FLASH_SEC_SIZE
<1> DEFINE S == SPI_FLASH_SEC_SIZE
           M == MAX_POST
           c == S \div M
<1>1. S \in Nat \ {0} /\ M \in Nat \ {0} /\ S % M = 0
    BY SectorAssumption, HttpdAssumption, ChunkAssumption
<1>2. c \in Int /\ S = M * c
    BY <1>1, ModFacts
<1> HIDE DEF c, S, M
<1>3. PICK e : e = c * b
    OBVIOUS
<1>4. e \in Int /\ S * b = M * e
    <2>1. (M * c) * b = M * (c * b)
        BY <1>1, <1>2
    <2> QED BY <1>2, <1>3, <2>1
<1>5. S * b + S = M * (e + c)
    <2>1. M * (e + c) = M * e + M * c
        BY <1>1, <1>2, <1>4
    <2> QED BY <1>2, <1>4, <2>1
<1>6. offset < S * b + S => offset + M <= S * b + S
    <2> SUFFICES ASSUME offset < S * b + S PROVE offset + M <= S * b + S
        OBVIOUS
    <2>1. M * q < M * (e + c) /\ e + c \in Int
        BY <1>2, <1>4, <1>5 DEF M
    <2>2. M * q + M <= M * (e + c)
        BY <1>1, <2>1, RoomFor
    <2> QED BY <1>5, <2>2 DEF M
<1>7. S * b < offset + M => S * b <= offset
    <2> SUFFICES ASSUME S * b < offset + M PROVE S * b <= offset
        OBVIOUS
    <2>1. offset + M = M * (q + 1)
        BY <1>1 DEF M
    <2>2. M * e < M * (q + 1)
        BY <1>4, <2>1
    <2>3. M * e + M <= M * (q + 1)
        BY <1>1, <1>4, <2>2, RoomFor
    <2> QED BY <1>1, <1>4, <2>1, <2>3
<1>8. S * b \in Nat
    BY <1>1
<1>9. M <= S
    <2>1. M * 0 < M * c
        BY <1>1, <1>2
    <2>2. M * 0 + M <= M * c
        BY <1>1, <1>2, <2>1, RoomFor
    <2> QED BY <1>1, <1>2, <2>2
<1> QED BY <1>6, <1>7, <1>8, <1>9 DEF S, M

\* What a chunk finds in the flash once its sector is erased, and leaves there.
ChunkFits(p, req, part, offset, data) ==
    /\ data \in Seq(Clients \X Int) /\ Len(data) <= MAX_POST /\ offset \in Nat
    /\ offset + Len(data) <= FIRMWARE_SIZE
    /\ \E q \in Nat : offset = MAX_POST * q
    /\ \A j \in 1 .. Len(data) : data[j] = Content(p, req, offset + j - 1)
    /\ Begins(p, req, part, offset) /\ Clean(part, offset)

LEMMA ChunkWrites ==
    ASSUME NEW p, NEW req, NEW part, NEW offset, NEW data, ChunkFits(p, req, part, offset, data),
           NEW fault, fault \in Faults, ~Strikes(offset, fault)
    PROVE  LET chunk == FlashChunk(part, offset, data, fault)
           IN  /\ Begins(p, req, chunk, offset + Len(data))
               /\ Len(data) = MAX_POST => Clean(chunk, offset + MAX_POST)
<1> DEFINE S == SPI_FLASH_SEC_SIZE
           erased == IF Erases(offset) THEN EraseSector(part, offset) ELSE part
           chunk == FlashChunk(part, offset, data, fault)
<1>0. PICK q \in Nat : offset = MAX_POST * q
    BY DEF ChunkFits
<1>1. /\ Len(data) \in Nat /\ Len(data) <= MAX_POST /\ offset \in Nat /\ S \in Nat \ {0}
      /\ MAX_POST \in Nat \ {0} /\ FIRMWARE_SIZE \in Nat /\ offset + Len(data) <= FIRMWARE_SIZE
      /\ MAX_POST <= S
    <2>1. MAX_POST <= S
        BY <1>0, SectorsAre, 0 \in Nat DEF ChunkFits
    <2> QED BY <2>1, SectorAssumption, HttpdAssumption DEF ChunkFits
<1>2. chunk = WriteUnits(erased, offset, data)
    BY Zenon DEF FlashChunk, Strikes
<1>3. \A k \in Units : Erases(offset) /\ offset <= k /\ k < offset + S => erased[k] = Erased
    BY <1>1 DEF EraseSector, Units
<1>4. \A k \in Units : erased[k] = part[k] \/ (Erases(offset) /\ offset <= k /\ erased[k] = Erased)
    BY <1>1 DEF EraseSector, Units
<1> HIDE DEF erased, chunk
<1>5. \A k \in Units : chunk[k] =
          IF k \notin offset .. offset + Len(data) - 1 THEN erased[k]
          ELSE IF erased[k] = Erased THEN data[k - offset + 1] ELSE Garbage
    BY <1>2 DEF WriteUnits
<1>6. ASSUME NEW k \in Units, offset <= k, k < offset + MAX_POST PROVE erased[k] = Erased
    <2>1. CASE Erases(offset)
        BY <1>1, <1>3, <1>6, <2>1 DEF Units
    <2>2. CASE ~Erases(offset)
        <3> DEFINE b == offset \div S
        <3>1. /\ offset % S \in 0 .. S - 1 /\ b \in Int /\ offset = S * b + (offset % S)
              /\ offset % S # 0
            BY <1>1, <2>2, ModFacts DEF Erases
        <3> HIDE DEF b
        <3>2. S * b < offset /\ offset < S * b + S
            BY <1>1, <3>1
        <3>3. b \in Nat
            <4> SUFFICES ASSUME b < 0 PROVE FALSE
                BY <3>1
            <4>1. b + 1 <= 0
                BY <3>1
            <4>2. S * b + S <= S * 0
                BY <1>1, <3>1, <4>1, MulMono
            <4> QED BY <1>1, <3>1, <3>2, <4>2
        <3>4. offset + MAX_POST <= S * b + S /\ S * b \in Nat
            BY <1>0, <1>1, <3>2, <3>3, SectorsAre
        <3>5. k < S * b + S
            BY <1>1, <1>6, <3>4 DEF Units
        <3>6. part[k] = Erased
            BY <1>6, <3>2, <3>3, <3>5 DEF ChunkFits, Clean
        <3> QED BY <1>4, <3>6
    <2> QED BY <2>1, <2>2
<1>7. Begins(p, req, chunk, offset + Len(data))
    <2> SUFFICES ASSUME NEW k \in 0 .. (offset + Len(data)) - 1 PROVE chunk[k] = Content(p, req, k)
        BY DEF Begins
    <2>1. k \in Units
        BY <1>1 DEF Units
    <2>2. CASE k < offset
        <3>1. k \notin offset .. offset + Len(data) - 1 /\ k \in 0 .. offset - 1 /\ ~(offset <= k)
            BY <1>1, <2>2
        <3>2. chunk[k] = part[k]
            BY <1>4, <1>5, <2>1, <3>1
        <3> QED BY <3>1, <3>2 DEF ChunkFits, Begins
    <2>3. CASE offset <= k
        <3>1. /\ k < offset + MAX_POST /\ k \in offset .. offset + Len(data) - 1
              /\ k - offset + 1 \in 1 .. Len(data) /\ offset + (k - offset + 1) - 1 = k
            BY <1>1, <2>3
        <3>2. chunk[k] = data[k - offset + 1]
            BY <1>5, <1>6, <2>1, <2>3, <3>1
        <3> QED BY <3>1, <3>2 DEF ChunkFits
    <2> QED BY <1>1, <2>2, <2>3
<1>8. ASSUME Len(data) = MAX_POST PROVE Clean(chunk, offset + MAX_POST)
    <2> SUFFICES ASSUME NEW k \in Units, NEW b \in Nat, S * b < offset + MAX_POST,
                        offset + MAX_POST <= k, k < S * b + S
                 PROVE  chunk[k] = Erased
        BY DEF Clean
    <2>1. k \in Int /\ S * b \in Nat /\ S * b <= offset
        <3>1. S * b \in Nat /\ S * b <= offset
            BY <1>0, <1>1, SectorsAre
        <3>2. k \in Int
            BY DEF Units
        <3> QED BY <3>1, <3>2
    <2>2. k \notin offset .. offset + Len(data) - 1 /\ offset <= k
        BY <1>1, <1>8, <2>1
    <2>3. chunk[k] = erased[k]
        BY <1>5, <2>2
    <2>4. CASE S * b < offset
        <3>1. part[k] = Erased
            BY <2>2, <2>4 DEF ChunkFits, Clean
        <3> QED BY <1>4, <2>3, <3>1
    <2>5. CASE S * b = offset
        <3>1. offset % S = 0
            <4>1. offset = S * b + 0 /\ 0 \in 0 .. S - 1 /\ b \in Int
                BY <1>1, <2>1, <2>5
            <4> QED BY <1>1, <4>1, ModUnique
        <3>2. Erases(offset) /\ k < offset + S
            BY <2>5, <3>1 DEF Erases
        <3> QED BY <1>3, <2>2, <2>3, <3>2
    <2> QED BY <1>1, <2>1, <2>4, <2>5
<1> QED BY <1>7, <1>8 DEF chunk
-----------------------------------------------------------------------------
\* The parts of an answer, put together.
LEMMA Joined ==
    /\ \A s, t \in Seq(Parts) : s \o t \in Seq(Parts) /\ Len(s \o t) = Len(s) + Len(t)
    /\ \A s \in Seq(Parts) : s \o <<>> = s /\ <<>> \o s = s
    /\ \A s, t, u \in Seq(Parts) : (s \o t) \o u = s \o (t \o u)
    /\ <<>> \in Seq(Parts)
    BY ConcatProperties, ConcatEmptySeq, ConcatAssociative, EmptySeq

LEMMA UptoIs ==
    ASSUME NEW m \in Nat
    PROVE  /\ Upto(m) \in Seq(Parts) /\ Len(Upto(m)) = m
           /\ \A k \in 1 .. m : Upto(m)[k] = k - 1
<1>1. Upto(m) \in [1 .. m -> Parts]
    BY DEF Upto, Parts
<1>2. Upto(m) \in Seq(Parts) /\ Len(Upto(m)) = m
    BY <1>1, IsASeq, LenProperties
<1> QED BY <1>2 DEF Upto

\* The next chunk of a file, after those that were sent.
LEMMA ChunkJoins ==
    ASSUME NEW f, NEW len \in Nat, f.pos \in Nat
    PROVE  Chunk(f, len) \in Seq(Parts) /\ Upto(f.pos) \o Chunk(f, len) = Upto(f.pos + len)
<1> DEFINE m == f.pos
           c == Chunk(f, len)
<1>1. c \in [1 .. len -> Parts]
    BY DEF Chunk, Parts
<1>2. c \in Seq(Parts) /\ Len(c) = len /\ \A k \in 1 .. len : c[k] = m + k - 1
    <2>1. c \in Seq(Parts) /\ Len(c) = len
        BY <1>1, IsASeq, LenProperties
    <2> QED BY <2>1 DEF Chunk
<1>3. /\ Upto(m) \in Seq(Parts) /\ Len(Upto(m)) = m /\ \A k \in 1 .. m : Upto(m)[k] = k - 1
      /\ Upto(m + len) \in Seq(Parts) /\ Len(Upto(m + len)) = m + len
      /\ \A k \in 1 .. m + len : Upto(m + len)[k] = k - 1
    BY UptoIs, m + len \in Nat
<1> DEFINE j == Upto(m) \o c
<1>4. /\ j \in Seq(Parts) /\ Len(j) = m + len
      /\ \A k \in 1 .. m + len : j[k] = IF k <= m THEN Upto(m)[k] ELSE c[k - m]
    <2>1. PICK s : s = Upto(m)
        OBVIOUS
    <2>2. s \in Seq(Parts) /\ c \in Seq(Parts)
        BY <1>2, <1>3, <2>1
    <2> HIDE DEF c
    <2>3. /\ s \o c \in Seq(Parts) /\ Len(s \o c) = Len(s) + Len(c)
          /\ \A k \in 1 .. Len(s) + Len(c) :
                (s \o c)[k] = IF k <= Len(s) THEN s[k] ELSE c[k - Len(s)]
        BY <2>2, ConcatProperties
    <2>4. Len(s) = m /\ Len(c) = len
        BY <1>2, <1>3, <2>1
    <2> QED BY <2>1, <2>3, <2>4
<1> HIDE DEF c, j, m
<1>5. \A k \in 1 .. m + len : j[k] = Upto(m + len)[k]
    <2> SUFFICES ASSUME NEW k \in 1 .. m + len PROVE j[k] = Upto(m + len)[k]
        OBVIOUS
    <2>1. m \in Nat
        BY DEF m
    <2>2. CASE k <= m
        BY <1>3, <1>4, <2>1, <2>2
    <2>3. CASE ~(k <= m)
        <3>1. k - m \in 1 .. len /\ m + (k - m) - 1 = k - 1
            BY <2>1, <2>3
        <3> QED BY <1>2, <1>3, <1>4, <2>3, <3>1
    <2> QED BY <2>2, <2>3
<1>6. j = Upto(m + len)
    BY <1>3, <1>4, <1>5, SeqEqual
<1> QED BY <1>2, <1>6 DEF j, c, m

\* A file as it is answered, up to a place.
Given(m) == <<"200">> \o Upto(m)
LEMMA GivenIs ==
    ASSUME NEW m \in Nat
    PROVE  /\ Given(m) \in Seq(Parts) /\ Len(Given(m)) = m + 1
           /\ Given(m)[1] = "200" /\ \A k \in 2 .. m + 1 : Given(m)[k] = k - 2
<1>1. /\ Upto(m) \in Seq(Parts) /\ Len(Upto(m)) = m /\ \A k \in 1 .. m : Upto(m)[k] = k - 1
    BY UptoIs
<1>2. <<"200">> \in Seq(Parts) /\ Len(<<"200">>) = 1 /\ <<"200">>[1] = "200"
    BY DEF Parts
<1>3. /\ Given(m) \in Seq(Parts) /\ Len(Given(m)) = 1 + m
      /\ \A k \in 1 .. 1 + m : Given(m)[k] = IF k <= 1 THEN <<"200">>[k] ELSE Upto(m)[k - 1]
    <2>1. PICK h : h = <<"200">>
        OBVIOUS
    <2> QED BY <1>1, <1>2, <2>1, ConcatProperties DEF Given
<1> QED BY <1>1, <1>2, <1>3

LEMMA GivenOn ==
    ASSUME NEW f, NEW len \in Nat, f.pos \in Nat
    PROVE  Given(f.pos) \o Chunk(f, len) = Given(f.pos + len)
<1>1. Upto(f.pos) \in Seq(Parts) /\ Chunk(f, len) \in Seq(Parts) /\ <<"200">> \in Seq(Parts)
    BY UptoIs, ChunkJoins DEF Parts
<1>2. Given(f.pos) \o Chunk(f, len) = <<"200">> \o (Upto(f.pos) \o Chunk(f, len))
    BY <1>1, Joined DEF Given
<1> QED BY <1>2, ChunkJoins DEF Given

LEMMA GivenNone == Given(0) = <<"200">>
<1>1. Given(0) \in Seq(Parts) /\ Len(Given(0)) = 1 /\ Given(0)[1] = "200"
    <2>1. 0 \in Nat /\ 0 + 1 = 1
        OBVIOUS
    <2>2. Given(0) \in Seq(Parts) /\ Len(Given(0)) = 0 + 1 /\ Given(0)[1] = "200"
        BY <2>1, GivenIs
    <2> QED BY <2>1, <2>2
<1>2. <<"200">> \in Seq(Parts) /\ Len(<<"200">>) = 1 /\ <<"200">>[1] = "200"
    BY DEF Parts
<1>3. PICK s, t : s = Given(0) /\ t = <<"200">>
    OBVIOUS
<1>4. \A k \in 1 .. Len(s) : s[k] = t[k]
    BY <1>1, <1>2, <1>3
<1>5. s = t
    BY <1>1, <1>2, <1>3, <1>4, SeqEqual
<1> QED BY <1>3, <1>5
-----------------------------------------------------------------------------
\* What may be answered.
LEMMA AnswersFit ==
    ASSUME NEW req
    PROVE  Answers(req) \subseteq Seq(Parts) /\ Answers(req) # {}
<1>1. /\ <<"page">> \in Seq(Parts) /\ <<"200">> \in Seq(Parts) /\ <<"400">> \in Seq(Parts)
      /\ <<"404">> \in Seq(Parts) /\ <<"501">> \in Seq(Parts)
    BY DEF Parts
<1>2. CASE req.url \in {"/", "/flash/upload", "/flash/reboot"}
    BY <1>1, <1>2, AnswersAre
<1>3. CASE req.url \in DOMAIN FileLen \ {"/", "/flash/upload", "/flash/reboot"}
    <2>1. FileLen[req.url] \in Nat /\ FileAnswer(req.url) = Given(FileLen[req.url])
        BY <1>3, HttpdAssumption DEF FileAnswer, Given, Upto
    <2>2. FileAnswer(req.url) \in Seq(Parts)
        BY <2>1, GivenIs
    <2>3. Answers(req) = {FileAnswer(req.url)}
                             \cup (IF req.gzip /\ ~req.accepts THEN {<<"501">>} ELSE {})
        BY <1>3 DEF Answers
    <2> QED BY <1>1, <2>2, <2>3
<1>4. CASE req.url \notin DOMAIN FileLen \cup {"/", "/flash/upload", "/flash/reboot"}
    <2>1. Answers(req) = {<<"404">>}
        BY <1>4 DEF Answers
    <2> QED BY <1>1, <2>1
<1> QED BY <1>2, <1>3, <1>4

LEMMA FileAnswerIs ==
    ASSUME NEW req, req.url \in DOMAIN FileLen \ {"/", "/flash/upload", "/flash/reboot"}
    PROVE  /\ Given(FileLen[req.url]) \in Answers(req) /\ FileLen[req.url] \in Nat
<1>1. FileAnswer(req.url) = Given(FileLen[req.url])
    BY DEF FileAnswer, Given, Upto
<1>2. Answers(req) = {FileAnswer(req.url)}
                             \cup (IF req.gzip /\ ~req.accepts THEN {<<"501">>} ELSE {})
    BY DEF Answers
<1> QED BY <1>1, <1>2, HttpdAssumption

\* Every answer begins with nothing.
LEMMA NonePrefix ==
    ASSUME NEW req
    PROVE  \E answer \in Answers(req) : IsPrefix(<<>>, answer)
<1>1. PICK answer \in Answers(req) : answer \in Seq(Parts)
    BY AnswersFit
<1>2. Len(<<>>) = 0 /\ Len(answer) \in Nat
    BY <1>1, LenProperties
<1>3. SubSeq(<<>>, 1, 0) = <<>> /\ SubSeq(answer, 1, 0) = <<>>
    BY SubSeqEmpty
<1> QED BY <1>1, <1>2, <1>3 DEF IsPrefix

\* What a client was told is the beginning of an answer.
LEMMA StagePrefix ==
    ASSUME NEW p, NEW req, NEW s, NEW told, NEW n, NEW a, Stage(p, req, s, told, n, a)
    PROVE  \E answer \in Answers(req) : IsPrefix(told, answer)
<1>1. told \in Seq(Parts) /\ Len(told) \in Nat
    BY LenProperties DEF Stage
<1>2. CASE told = <<>>
    BY <1>2, NonePrefix
<1>3. CASE told \in Answers(req)
    BY <1>1, <1>3 DEF IsPrefix
<1>4. CASE Reading(req, s, told, n, a)
    <2> DEFINE pos == s.cgiData.pos
               all == FileLen[req.url]
    <2>1. told = Given(pos) /\ pos \in 0 .. all /\ Given(all) \in Answers(req) /\ all \in Nat
        BY <1>4, FileAnswerIs DEF Reading, Given
    <2> HIDE DEF pos, all
    <2>2. /\ Len(told) = pos + 1 /\ pos \in Nat /\ pos <= all /\ Len(Given(all)) = all + 1
          /\ told \in Seq(Parts) /\ Given(all) \in Seq(Parts)
        BY <2>1, GivenIs
    <2>3. \A k \in 1 .. Len(told) : told[k] = Given(all)[k]
        <3>1. /\ told[1] = "200" /\ \A k \in 2 .. pos + 1 : told[k] = k - 2
              /\ Given(all)[1] = "200" /\ \A k \in 2 .. all + 1 : Given(all)[k] = k - 2
            BY <2>1, <2>2, GivenIs
        <3> QED BY <2>1, <2>2, <3>1
    <2>4. SubSeq(told, 1, Len(told)) = SubSeq(Given(all), 1, Len(told))
        <3> DEFINE x == SubSeq(told, 1, Len(told))
                   y == SubSeq(Given(all), 1, Len(told))
                   l == Len(told)
        <3>0. l \in Nat /\ 1 \in Int /\ l >= 1
            BY <2>2
        <3>1. \A k \in 1 .. l : told[k] \in Parts /\ Given(all)[k] \in Parts
            BY <2>2, <2>3, ElementOfSeq
        <3>2. /\ x \in Seq(Parts) /\ Len(x) = l
              /\ \A k \in 1 .. l : x[k] = told[k]
            <4>1. /\ x \in Seq(Parts) /\ Len(x) = (IF 1 <= l THEN l - 1 + 1 ELSE 0)
                  /\ \A k \in 1 .. l - 1 + 1 : x[k] = told[1 + k - 1]
                BY <3>0, <3>1, SubSeqProperties
            <4> HIDE DEF x, l
            <4>2. \A k \in 1 .. l : k \in 1 .. l - 1 + 1 /\ 1 + k - 1 = k
                BY <3>0
            <4> QED BY <3>0, <4>1, <4>2
        <3>3. /\ y \in Seq(Parts) /\ Len(y) = l
              /\ \A k \in 1 .. l : y[k] = Given(all)[k]
            <4>1. /\ y \in Seq(Parts) /\ Len(y) = (IF 1 <= l THEN l - 1 + 1 ELSE 0)
                  /\ \A k \in 1 .. l - 1 + 1 : y[k] = Given(all)[1 + k - 1]
                BY <3>0, <3>1, SubSeqProperties
            <4> HIDE DEF y, l
            <4>2. \A k \in 1 .. l : k \in 1 .. l - 1 + 1 /\ 1 + k - 1 = k
                BY <3>0
            <4> QED BY <3>0, <4>1, <4>2
        <3> HIDE DEF x, y
        <3>4. \A k \in 1 .. Len(x) : x[k] = y[k]
            BY <2>3, <3>2, <3>3
        <3>5. x = y
            BY <3>2, <3>3, <3>4, SeqEqual
        <3> QED BY <3>5 DEF x, y
    <2>5. Len(told) <= Len(Given(all))
        <3>1. pos + 1 <= all + 1
            BY <2>1, <2>2
        <3> QED BY <2>2, <3>1
    <2> QED BY <2>1, <2>4, <2>5 DEF IsPrefix
<1>5. \/ told = <<>> \/ told \in Answers(req) \/ Reading(req, s, told, n, a)
    BY DEF Stage, Uploading, Refused, Answered
<1> QED BY <1>2, <1>3, <1>4, <1>5
-----------------------------------------------------------------------------
(* What the worlds of a callback tell: g is what the client had been told  *)
(* before, in m packets of which a are acknowledged.                       *)

Sum(g, w) == g \o w.sent
Num(m, w) == m + w.packets
Speech(g, m, w) ==
    /\ g \in Seq(Parts) /\ m \in Nat /\ w.sent \in Seq(Parts) /\ w.packets \in Nat
    /\ w.packets = 0 => w.sent = <<>>
Keeps(p, w, g) == p \in alone /\ ~w.struck => Stored(p, w.req, w.s, Sum(g, w), w.flash[Other])
Telling(p, w, k, g, m, a) ==
    /\ Standing(w, k) /\ ~CalledAgain(w.req) /\ w.buff = <<>> /\ Speech(g, m, w)
    /\ Stage(p, w.req, w.s, Sum(g, w), Num(m, w), a)
    /\ Keeps(p, w, g)

LEMMA SilentIs ==
    ASSUME NEW w, NEW v, Silent(w, v), NEW g, NEW m, Speech(g, m, w)
    PROVE  Speech(g, m, v) /\ Sum(g, v) = Sum(g, w) /\ Num(m, v) = Num(m, w)
    BY DEF Silent, Speech, Sum, Num

LEMMA SaysIs ==
    ASSUME NEW w, NEW v, NEW parts \in Seq(Parts), Says(w, v, parts), NEW g, NEW m, Speech(g, m, w)
    PROVE  /\ Speech(g, m, v) /\ Sum(g, v) = Sum(g, w) \o parts /\ Num(m, v) = Num(m, w) + 1
           /\ Sum(g, v) \in Seq(Parts)
<1>1. v.packets = w.packets + 1 /\ w.packets \in Nat /\ m \in Nat
    BY DEF Says, Speech
<1>2. g \in Seq(Parts) /\ w.sent \in Seq(Parts) /\ v.sent = w.sent \o parts
    BY DEF Says, Speech
<1>3. v.packets \in Nat /\ v.packets # 0 /\ m + v.packets = (m + w.packets) + 1
    BY <1>1
<1>4. PICK t, u : t = w.sent \o parts /\ u = g \o w.sent
    OBVIOUS
<1>5. t \in Seq(Parts) /\ u \in Seq(Parts) /\ g \o t = u \o parts /\ g \o t \in Seq(Parts)
    BY <1>2, <1>4, Joined
<1>6. Sum(g, v) = g \o t /\ Sum(g, w) = u /\ v.sent = t
    BY <1>2, <1>4 DEF Sum
<1> QED BY <1>1, <1>2, <1>3, <1>5, <1>6 DEF Speech, Num

\* What is told depends on these parts of a slot only.
SameStage(s, t) ==
    /\ t.cgi = s.cgi /\ t.cgiData = s.cgiData /\ t.cgiPrivData = s.cgiPrivData
    /\ t.url = s.url /\ t.post = s.post

LEMMA StageSame ==
    ASSUME NEW s, NEW t, SameStage(s, t), NEW p, NEW req, NEW told, NEW n, NEW a, NEW part
    PROVE  /\ Stage(p, req, s, told, n, a) => Stage(p, req, t, told, n, a)
           /\ Stored(p, req, s, told, part) => Stored(p, req, t, told, part)
<1>1. /\ Parsed(p, req, s) => Parsed(p, req, t)
      /\ Uploading(req, s, told, n) => Uploading(req, t, told, n)
      /\ Refused(req, s, told, n) => Refused(req, t, told, n)
      /\ Reading(req, s, told, n, a) => Reading(req, t, told, n, a)
      /\ Answered(req, s, told, n) => Answered(req, t, told, n)
    BY DEF SameStage, Parsed, Uploading, Refused, Reading, Answered
<1>2. Stage(p, req, s, told, n, a) => Stage(p, req, t, told, n, a)
    BY <1>1 DEF SameStage, Stage
<1>3. Stored(p, req, s, told, part) => Stored(p, req, t, told, part)
    BY DEF SameStage, Stored
<1> QED BY <1>2, <1>3

\* The stages of a slot s whose handler was called.
Called(p, req, s) ==
    /\ Parsed(p, req, s) /\ s.post.len # -1 /\ Asked(s.post) /\ s.url # NULL

LEMMA AnsweredIs ==
    ASSUME NEW p, NEW req, NEW s, NEW told, NEW n, NEW a, Called(p, req, s),
           told \in Seq(Parts), n \in Nat, a \in Nat, a <= n, n <= a + 1,
           \/ Uploading(req, s, told, n) \/ Refused(req, s, told, n)
           \/ Reading(req, s, told, n, a) \/ Answered(req, s, told, n)
    PROVE  Stage(p, req, s, told, n, a)
    BY DEF Stage, Called

\* The first call of a handler other than that of an upload: s is the slot that
\* is left behind.
LEMMA FirstCall ==
    ASSUME NEW p, NEW w, NEW v, NEW s, NEW g, NEW m, Speech(g, m, w),
           Sum(g, w) = <<>>, Num(m, w) = 0, w.req.url = w.s.url,
           s.cgi = v.s.cgi, s.cgiData = v.s.cgiData, Called(p, w.req, s), BodyIn(s.post),
           Opens(w, v) \/ \E part : Closes(w, v, part) /\ <<part>> \in Answers(w.req)
    PROVE  Speech(g, m, v) /\ Stage(p, w.req, s, Sum(g, v), Num(m, v), 0)
<1> DEFINE told == Sum(g, v)
           n == Num(m, v)
<1>1. CASE Opens(w, v)
    <2>1. Says(w, v, <<"200">>) /\ <<"200">> \in Seq(Parts)
        BY <1>1 DEF Opens, Parts
    <2>2. Speech(g, m, v) /\ told = <<>> \o <<"200">> /\ n = 0 + 1
        <3>1. PICK parts : parts = <<"200">>
            OBVIOUS
        <3>2. parts \in Seq(Parts) /\ Says(w, v, parts)
            BY <2>1, <3>1
        <3>3. Speech(g, m, v) /\ Sum(g, v) = Sum(g, w) \o parts /\ Num(m, v) = Num(m, w) + 1
            BY <3>2, SaysIs
        <3> QED BY <3>1, <3>3
    <2>3. n = 1 /\ told = Given(0)
        BY <2>1, <2>2, Joined, GivenNone
    <2>4. /\ s.cgi = "cgiEspFsHook" /\ s.cgiData = [name |-> w.req.url, pos |-> 0]
          /\ w.req.url \in DOMAIN FileLen \ {"/", "/flash/upload", "/flash/reboot"}
        BY <1>1 DEF Opens
    <2> HIDE DEF told, n
    <2>5. s.cgiData.pos = 0 /\ s.cgiData.name = w.req.url
        BY <2>4
    <2>6. 0 \in 0 .. FileLen[w.req.url] /\ FileLen[w.req.url] \in Nat
        BY <2>4, HttpdAssumption
    <2>7. Reading(w.req, s, told, n, 0)
        BY <2>3, <2>4, <2>5, <2>6 DEF Reading, Given
    <2>8. told \in Seq(Parts) /\ n \in Nat /\ 0 \in Nat /\ 0 <= n /\ n <= 0 + 1
        BY <2>3, GivenIs
    <2> QED BY <2>2, <2>7, <2>8, AnsweredIs DEF told, n
<1>2. CASE \E part : Closes(w, v, part) /\ <<part>> \in Answers(w.req)
    <2>1. PICK part : Closes(w, v, part) /\ <<part>> \in Answers(w.req)
        BY <1>2
    <2>2. Says(w, v, <<part>>) /\ <<part>> \in Seq(Parts) /\ s.cgi = NoHandler
        BY <2>1, AnswersFit DEF Closes
    <2>3. Speech(g, m, v) /\ told = <<>> \o <<part>> /\ n = 0 + 1
        <3>1. PICK parts : parts = <<part>>
            OBVIOUS
        <3>2. parts \in Seq(Parts) /\ Says(w, v, parts)
            BY <2>2, <3>1
        <3>3. Speech(g, m, v) /\ Sum(g, v) = Sum(g, w) \o parts /\ Num(m, v) = Num(m, w) + 1
            BY <3>2, SaysIs
        <3> QED BY <3>1, <3>3
    <2>4. n = 1 /\ told = <<part>>
        BY <2>2, <2>3, Joined
    <2> HIDE DEF told, n
    <2>5. Answered(w.req, s, told, n)
        BY <2>1, <2>2, <2>4 DEF Answered
    <2>6. told \in Seq(Parts) /\ n \in Nat /\ 0 \in Nat /\ 0 <= n /\ n <= 0 + 1
        BY <2>2, <2>4
    <2> QED BY <2>3, <2>5, <2>6, AnsweredIs DEF told, n
<1> QED BY <1>1, <1>2
-----------------------------------------------------------------------------
\* httpdParseHeaders, and what it leaves to be told.
LEMMA ParseTells ==
    ASSUME NEW w, Shape(w), AtHead(w.s), w.req.contentLength \in -1 .. 2 * FIRMWARE_SIZE
    PROVE  LET x == httpdParseHeaders(w)
           IN  /\ Beside(w, x) /\ Silent(w, x) /\ x.buff = w.buff
               /\ x.s.url = UrlOf(w.req) /\ x.s.cgi = NoHandler
               /\ x.s.post.received = 0 /\ x.s.post.data = <<>>
               /\ x.s.post.len = Max({w.req.contentLength, 0})
<1> DEFINE req == w.req
           url == UrlOf(req)
           size == Min({req.contentLength, MAX_POST})
           post == [w.s.post EXCEPT !.len = req.contentLength, !.buffSize = size,
                                    !.buff = TRUE, !.data = <<>>]
           x == httpdParseHeaders(w)
<1>1. /\ DOMAIN w.s = SlotFields /\ w.s.post \in Post /\ DOMAIN w = WorldFields
      /\ w.s.cgi = NoHandler /\ w.s.post.received = 0 /\ w.s.post.data = <<>>
    BY DEF Shape, SlotOK, AtHead
<1>2. req.contentLength \in Int
    BY SectorAssumption
<1>3. Max({req.contentLength, 0}) = IF req.contentLength >= 0 THEN req.contentLength ELSE 0
    BY <1>2, MaxIs
<1>4. CASE req.contentLength < 0
    <2>1. x = [w EXCEPT !.s.url = url, !.s.post.len = 0]
        BY <1>4 DEF httpdParseHeaders, UrlOf
    <2> HIDE DEF url
    <2>2. x.s = [w.s EXCEPT !.url = url, !.post = [w.s.post EXCEPT !.len = 0]]
        BY <1>1, <2>1 DEF WorldFields, SlotFields
    <2>3. Beside(w, x) /\ Silent(w, x) /\ x.buff = w.buff
        <3> HIDE DEF x
        <3> QED BY <1>1, <2>1 DEF WorldFields, Beside, Silent
    <2> HIDE DEF x
    <2>4. x.s.cgi = w.s.cgi /\ x.s.post = [w.s.post EXCEPT !.len = 0] /\ x.s.url = url
        BY <1>1, <2>2 DEF SlotFields
    <2>5. PICK b : b = w.s.post
        OBVIOUS
    <2>6. b \in Post /\ x.s.post = [b EXCEPT !.len = 0]
        BY <1>1, <2>4, <2>5
    <2>7. x.s.post.len = 0 /\ x.s.post.received = b.received /\ x.s.post.data = b.data
        BY <2>6 DEF Post
    <2>8. Max({req.contentLength, 0}) = 0
        BY <1>2, <1>3, <1>4
    <2> QED BY <1>1, <2>3, <2>4, <2>5, <2>7, <2>8 DEF x, url
<1>5. CASE ~(req.contentLength < 0)
    <2>1. x = [w EXCEPT !.s.url = url, !.s.post = post, !.heap = @ + 1]
        BY <1>5 DEF httpdParseHeaders, UrlOf
    <2>2. post.len = req.contentLength /\ post.received = 0 /\ post.data = <<>>
        <3> HIDE DEF size
        <3> QED BY <1>1 DEF Post
    <2> HIDE DEF url, post
    <2>3. x.s = [w.s EXCEPT !.url = url, !.post = post]
        BY <1>1, <2>1 DEF WorldFields, SlotFields
    <2>4. Beside(w, x) /\ Silent(w, x) /\ x.buff = w.buff
        <3> HIDE DEF x
        <3> QED BY <1>1, <2>1 DEF WorldFields, Beside, Silent
    <2> HIDE DEF x
    <2>5. x.s.cgi = w.s.cgi /\ x.s.post = post /\ x.s.url = url
        BY <1>1, <2>3 DEF SlotFields
    <2>6. Max({req.contentLength, 0}) = req.contentLength
        BY <1>2, <1>3, <1>5
    <2> QED BY <1>1, <2>2, <2>4, <2>5, <2>6 DEF x, url
<1> QED BY <1>4, <1>5

\* Before the head is complete nothing was told.
LEMMA UntoldIs ==
    ASSUME NEW p, NEW req, NEW s, NEW told, NEW n, NEW a, Stage(p, req, s, told, n, a),
           ~(Asked(s.post) /\ s.url # NULL)
    PROVE  s.cgi = NoHandler /\ told = <<>> /\ n = 0 /\ a = 0
<1>1. s.cgi = NoHandler /\ told = <<>> /\ n = 0
    BY DEF Stage
<1>2. a \in Nat /\ a <= n
    BY DEF Stage
<1> QED BY <1>1, <1>2

LEMMA StillUntold ==
    ASSUME NEW p, NEW req, NEW s, s.post.len # -1 => Parsed(p, req, s),
           ~(Asked(s.post) /\ s.url # NULL), s.cgi = NoHandler
    PROVE  Stage(p, req, s, <<>>, 0, 0)
<1>1. <<>> \in Seq(Parts) /\ 0 \in Nat /\ 0 <= 0 /\ 0 <= 0 + 1
    BY Joined
<1> QED BY <1>1 DEF Stage

\* Without a handler, only the answer "200" says that something is stored.
LEMMA NothingStored ==
    ASSUME NEW p, NEW req, NEW s, NEW told, NEW part, s.cgi # "cgiUploadFirmware",
           req.url = "/flash/upload" => told # <<"200">>
    PROVE  Stored(p, req, s, told, part)
    BY DEF Stored
-----------------------------------------------------------------------------
\* A world that goes on as it was.
LEMMA TellingSame ==
    ASSUME NEW p, NEW w, NEW v, NEW k, NEW j, NEW g, NEW m, NEW a, Telling(p, w, k, g, m, a),
           Standing(v, j), v.buff = <<>>, Beside(w, v), Silent(w, v), SameStage(w.s, v.s)
    PROVE  Telling(p, v, j, g, m, a)
<1>1. Speech(g, m, v) /\ Sum(g, v) = Sum(g, w) /\ Num(m, v) = Num(m, w)
    BY SilentIs DEF Telling
<1>2. v.req = w.req /\ v.flash = w.flash /\ v.struck = w.struck
    BY DEF Beside
<1>3. Stage(p, v.req, v.s, Sum(g, v), Num(m, v), a)
    BY <1>1, <1>2, StageSame DEF Telling
<1>4. Keeps(p, v, g)
    BY <1>1, <1>2, StageSame DEF Telling, Keeps
<1> QED BY <1>1, <1>2, <1>3, <1>4 DEF Telling

\* A head that is complete, of a request without a body.
LEMMA AtOnceTells ==
    ASSUME NEW p, NEW x, NEW v, NEW g, NEW m, Shape(x), ~x.aborted, userbin \in Userbins,
           x.fault \in Faults, x.buff = <<>>, x.s.url = UrlOf(x.req), x.s.url # NULL,
           x.s.post.len = 0, x.s.post.received = 0, x.s.post.data = <<>>,
           x.req.contentLength <= 0, x.req.contentLength \in Int,
           Speech(g, m, x), Sum(g, x) = <<>>, Num(m, x) = 0,
           v = httpdProcessRequest(x)
    PROVE  /\ v.buff = <<>> /\ Speech(g, m, v)
           /\ Stage(p, v.req, v.s, Sum(g, v), Num(m, v), 0) /\ Keeps(p, v, g)
<1>1. x.req.url = x.s.url
    BY DEF UrlOf
<1>2. Ready(x)
    <2>1. Len(x.s.post.data) = 0
        OBVIOUS
    <2> QED BY <2>1, HttpdAssumption DEF Ready
<1>3. /\ v.buff = <<>> /\ v.req = x.req
      /\ x.s.url = "/flash/upload" => Uploads(x, v)
      /\ x.s.url # "/flash/upload" =>
            Opens(x, v) \/ \E part : Closes(x, v, part) /\ <<part>> \in Answers(x.req)
    BY <1>1, <1>2, ProcessTells
<1>4. v.s.post = x.s.post /\ v.s.url = x.s.url
    BY <1>2, ProcessKeeps DEF Kept, Same
<1>5. Called(p, x.req, v.s) /\ BodyIn(v.s.post)
    BY <1>4 DEF Called, Parsed, Asked, BodyIn
<1>6. CASE x.s.url # "/flash/upload"
    <2>1. Speech(g, m, v) /\ Stage(p, x.req, v.s, Sum(g, v), Num(m, v), 0)
        BY <1>1, <1>3, <1>5, <1>6, FirstCall
    <2>2. Keeps(p, v, g)
        BY <1>1, <1>3, <1>6 DEF Keeps, Stored
    <2> QED BY <1>3, <2>1, <2>2
<1>7. CASE x.s.url = "/flash/upload"
    <2>1. Offset(x.s.post) = 0
        <3>1. Len(x.s.post.data) = 0
            OBVIOUS
        <3>2. Offset(x.s.post) = x.s.post.received - Len(x.s.post.data)
            BY DEF Offset
        <3> QED BY <3>1, <3>2
    <2>2. ~Late(x) /\ Faulty(x)
        BY <2>1, HttpdAssumption DEF Late, Faulty
    <2>3. Closes(x, v, "400")
        BY <1>3, <1>7, <2>2 DEF Uploads
    <2>4. ~ValidUpload(x.req)
        BY HttpdAssumption, SectorAssumption DEF ValidUpload
    <2>5. Answers(x.req) = {<<"400">>}
        BY <1>1, <1>7, <2>4, AnswersAre
    <2>6. Speech(g, m, v) /\ Stage(p, x.req, v.s, Sum(g, v), Num(m, v), 0)
        BY <1>1, <1>5, <2>3, <2>5, FirstCall
    <2>7. Sum(g, v) = <<"400">> /\ <<"400">> # <<"200">>
        <3>1. PICK parts : parts = <<"400">>
            OBVIOUS
        <3>2. parts \in Seq(Parts) /\ Says(x, v, parts)
            BY <2>3, <3>1 DEF Closes, Parts
        <3>3. Sum(g, v) = Sum(g, x) \o parts
            BY <3>2, SaysIs
        <3>4. Sum(g, v) = parts
            BY <3>2, <3>3, Joined
        <3> QED BY <3>1, <3>4
    <2>8. v.s.cgi # "cgiUploadFirmware"
        BY <2>3 DEF Closes, NoHandler
    <2>9. Keeps(p, v, g)
        BY <2>7, <2>8, NothingStored DEF Keeps
    <2> QED BY <1>3, <2>6, <2>9
<1> QED BY <1>6, <1>7
-----------------------------------------------------------------------------
\* A unit of the head.
LEMMA HeadTells ==
    ASSUME NEW p, NEW w, NEW k \in Nat, NEW g, NEW m, NEW a, Telling(p, w, k, g, m, a),
           w.s.post.len = -1, userbin \in Userbins
    PROVE  LET v == HeadUnit(w, k = w.req.headUnits - 1) IN Telling(p, v, k + 1, g, m, a)
<1> DEFINE fits == w.s.headPos # MAX_HEAD_LEN
           pos == IF fits THEN w.s.headPos + 1 ELSE w.s.headPos
           completes == k = w.req.headUnits - 1
           h == [w EXCEPT !.s.headPos = pos]
           v == HeadUnit(w, completes)
<1>1. /\ ~(fits /\ completes) => v = h
      /\ \A x : fits /\ completes /\ x = httpdParseHeaders(h) =>
            v = IF x.s.post.len = 0 THEN httpdProcessRequest(x) ELSE x
    BY HeadUnitIs DEF Telling
<1>0. /\ Standing(h, k + 1) /\ h.s.post.len = -1
      /\ fits /\ completes => w.req.headUnits <= MAX_HEAD_LEN
    BY HeadUnitIs DEF Telling
<1>2. /\ Standing(w, k) /\ Shape(w) /\ DOMAIN w = WorldFields /\ DOMAIN w.s = SlotFields
      /\ AtHead(w.s)
      /\ w.buff = <<>> /\ ReqOK(w.req)
    BY DEF Telling, Standing, Shape, SlotOK, Progress
<1>3. Standing(v, k + 1) /\ ~CalledAgain(v.req)
    BY <1>2, HeadKeeps DEF Telling, Advanced
<1>4. /\ Beside(w, h) /\ Silent(w, h) /\ h.buff = <<>> /\ SameStage(w.s, h.s)
      /\ h.aborted = w.aborted /\ DOMAIN h = WorldFields /\ h.heap = w.heap
      /\ h.rebooting = w.rebooting /\ h.failed = w.failed
      /\ h.s = [w.s EXCEPT !.headPos = pos]
    <2> HIDE DEF pos
    <2>1. h.s = [w.s EXCEPT !.headPos = pos]
        BY <1>2 DEF WorldFields
    <2>2. /\ Beside(w, h) /\ Silent(w, h) /\ h.buff = <<>>
          /\ h.aborted = w.aborted /\ DOMAIN h = WorldFields /\ h.heap = w.heap
          /\ h.rebooting = w.rebooting /\ h.failed = w.failed
        BY <1>2 DEF WorldFields, Beside, Silent
    <2> HIDE DEF h
    <2>3. SameStage(w.s, h.s)
        BY <1>2, <2>1 DEF SameStage, SlotFields
    <2> QED BY <2>1, <2>2, <2>3
<1>5. CASE ~(fits /\ completes)
    <2>1. v = h
        BY <1>1, <1>5
    <2> HIDE DEF h, v
    <2>2. Telling(p, v, k + 1, g, m, a)
        BY <1>3, <1>4, <2>1, TellingSame
    <2> QED BY <2>2 DEF v
<1>6. CASE fits /\ completes
    <2>0. Shape(h)
        BY <1>0 DEF Standing
    <2>1. PICK x : x = httpdParseHeaders(h)
        OBVIOUS
    <2>2. AtHead(h.s) /\ h.req = w.req
        BY <1>2, <1>4 DEF AtHead, SameStage, Beside
    <2> HIDE DEF h
    <2>3. /\ Beside(h, x) /\ Silent(h, x) /\ x.buff = <<>>
          /\ x.s.url = UrlOf(w.req) /\ x.s.cgi = NoHandler
          /\ x.s.post.received = 0 /\ x.s.post.data = <<>>
          /\ x.s.post.len = Max({w.req.contentLength, 0})
        BY <1>2, <1>4, <2>0, <2>1, <2>2, ParseTells DEF ReqOK
    <2>4. v = IF x.s.post.len = 0 THEN httpdProcessRequest(x) ELSE x
        BY <1>1, <1>6, <2>1
    <2>5. Silent(w, x) /\ Beside(w, x)
        BY <1>4, <2>3 DEF Silent, Beside
    <2>6. Sum(g, w) = <<>> /\ Num(m, w) = 0 /\ a = 0
        <3>1. ~Asked(w.s.post)
            BY DEF Asked
        <3> QED BY <3>1, UntoldIs DEF Telling
    <2>7. Speech(g, m, x) /\ Sum(g, x) = <<>> /\ Num(m, x) = 0 /\ x.req = w.req
        BY <2>5, <2>6, SilentIs DEF Telling, Beside
    <2>8. w.req.contentLength \in Int /\ w.req.contentLength \in -1 .. 2 * FIRMWARE_SIZE
          /\ x.s.post.len \in Nat /\ (x.s.post.len = 0 => w.req.contentLength <= 0)
        <3>1. w.req.contentLength \in Int /\ w.req.contentLength \in -1 .. 2 * FIRMWARE_SIZE
            BY <1>2, SectorAssumption DEF ReqOK
        <3>2. x.s.post.len = IF w.req.contentLength >= 0 THEN w.req.contentLength ELSE 0
            BY <2>3, <3>1, MaxIs
        <3> QED BY <3>1, <3>2
    <2> HIDE DEF v
    <2>9. CASE x.s.post.len = 0 /\ x.s.url # NULL
        <3>1. v = httpdProcessRequest(x)
            BY <2>4, <2>9
        <3>2. Shape(x) /\ ~x.aborted /\ x.fault \in Faults
            <4>1. Standing(x, k + 1)
                BY <1>0, <1>6, <2>1, <2>2, ParseKeeps
            <4> QED BY <4>1 DEF Standing
        <3>3. x.s.url = UrlOf(x.req)
            BY <2>3, <2>7
        <3>4. /\ v.buff = <<>> /\ Speech(g, m, v)
              /\ Stage(p, v.req, v.s, Sum(g, v), Num(m, v), 0) /\ Keeps(p, v, g)
            BY <2>3, <2>7, <2>8, <2>9, <3>1, <3>2, <3>3, AtOnceTells
        <3>5. Telling(p, v, k + 1, g, m, a)
            BY <1>3, <2>6, <3>4 DEF Telling, v
        <3> QED BY <3>5 DEF v
    <2>10. CASE x.s.post.len # 0 \/ x.s.url = NULL
        <3>1. v = x
            BY <2>4, <2>10, Zenon DEF httpdProcessRequest
        <3>2. x.s.post.len > 0 => ~Asked(x.s.post) /\ Buffered(p, w.req, x.s.post)
            <4> SUFFICES ASSUME x.s.post.len > 0
                         PROVE  ~Asked(x.s.post) /\ Buffered(p, w.req, x.s.post)
                OBVIOUS
            <4>1. AtBody(x.s, x.req, k + 1)
                BY <1>3, <3>1 DEF Standing, Progress, v
            <4>2. Len(x.s.post.data) = 0
                BY <2>3
            <4>3. x.s.post.buffSize > 0 /\ x.s.post.buffSize \in Int
                <5>1. Len(x.s.post.data) < x.s.post.buffSize
                    BY <4>1 DEF AtBody
                <5>2. x.s.post.buffSize \in Int
                    BY <1>3, <3>1 DEF Standing, Shape, SlotOK, Post, v
                <5> QED BY <4>2, <5>1, <5>2
            <4>4. ~Asked(x.s.post)
                BY <2>3, <4>3 DEF Asked
            <4>5. Offset(x.s.post) = 0
                <5>1. Offset(x.s.post) = x.s.post.received - Len(x.s.post.data)
                    BY DEF Offset
                <5> QED BY <2>3, <4>2, <5>1
            <4>6. 0 \in Nat /\ 0 = MAX_POST * 0
                BY HttpdAssumption
            <4> QED BY <4>2, <4>4, <4>5, <4>6 DEF Buffered
        <3>3. Parsed(p, w.req, x.s)
            BY <2>3, <2>8, <3>2 DEF Parsed
        <3>4. ~(Asked(x.s.post) /\ x.s.url # NULL)
            BY <2>8, <2>10, <3>2
        <3>5. Stage(p, x.req, x.s, <<>>, 0, 0)
            BY <2>3, <2>7, <3>3, <3>4, StillUntold
        <3>6. Keeps(p, x, g)
            BY <2>3, <2>7, NothingStored DEF Keeps, NoHandler
        <3>7. Standing(x, k + 1)
            BY <1>3, <3>1 DEF v
        <3> QED BY <2>3, <2>6, <2>7, <3>1, <3>5, <3>6, <3>7 DEF Telling, v
    <2> QED BY <2>9, <2>10
<1> QED BY <1>5, <1>6
-----------------------------------------------------------------------------
\* The world with the next unit of the body in the buffer.
Grown(w, content) ==
    [w EXCEPT !.s.post.data = Append(@, content), !.s.post.received = @ + 1]
GrownOK(p, w, y) ==
    /\ Shape(y) /\ y.aborted = w.aborted /\ y.buff = w.buff /\ Beside(w, y) /\ Silent(w, y)
    /\ y.s.cgi = w.s.cgi /\ y.s.cgiData = w.s.cgiData /\ y.s.cgiPrivData = w.s.cgiPrivData
    /\ y.s.url = w.s.url /\ y.s.post.buff = w.s.post.buff
    /\ LaterBy(p, w.req, w.s.post, y.s.post)

LEMMA BodyUnitIs ==
    ASSUME NEW w, NEW content
    PROVE  LET y == Grown(w, content)
           IN  BodyUnit(w, content) = IF ChunkReady(y.s.post)
                                      THEN [httpdProcessRequest(y) EXCEPT !.s.post.data = <<>>]
                                      ELSE y
<1> DEFINE y == Grown(w, content)
           Handle(x) == IF ChunkReady(x.s.post)
                        THEN [httpdProcessRequest(x) EXCEPT !.s.post.data = <<>>]
                        ELSE x
<1>1. BodyUnit(w, content) = Then(y, Handle)
    BY Zenon DEF BodyUnit, Grown
<1> HIDE DEF y
<1>2. BodyUnit(w, content) = Handle(y)
    BY <1>1, Zenon DEF Then
<1> QED BY <1>2 DEF y

LEMMA MidwayIs ==
    ASSUME NEW p, NEW w, NEW k \in Nat, Standing(w, k), w.s.post.len > 0, k < RequestLen(w.req),
           Buffered(p, w.req, w.s.post)
    PROVE  Midway(p, w.req, w.s.post) /\ w.s.post.received = k - w.req.headUnits
<1> DEFINE post == w.s.post
<1>1. post \in Post /\ AtBody(w.s, w.req, k)
    BY DEF Standing, Shape, SlotOK, Progress
<1>2. w.req.headUnits \in Nat /\ w.req.contentLength \in Nat /\ post.len = w.req.contentLength
    BY <1>1, SectorAssumption DEF Standing, ReqOK, AtBody
<1>3. RequestLen(w.req) = w.req.headUnits + w.req.contentLength
    BY <1>2, MaxIs DEF RequestLen
<1>4. post.received \in Nat /\ post.received = k - w.req.headUnits
    BY <1>1 DEF AtBody, Post
<1>5. post.received < post.len
    BY <1>2, <1>3, <1>4
<1>6. post.data \in Seq(Clients \X Int)
    BY <1>1 DEF Post
<1> QED BY <1>1, <1>2, <1>4, <1>5, <1>6 DEF Midway, AtBody

LEMMA GrownIs ==
    ASSUME NEW p \in Clients, NEW w, NEW content, Shape(w), content \in Clients \X Int,
           content = Content(p, w.req, w.s.post.received)
    PROVE  GrownOK(p, w, Grown(w, content))
<1> DEFINE post == w.s.post
           data == Append(post.data, content)
           n == post.received + 1
           y == Grown(w, content)
<1>1. /\ DOMAIN w = WorldFields /\ DOMAIN w.s = SlotFields /\ post \in Post
      /\ post.data \in Seq(Clients \X Int) /\ post.received \in Nat
    BY DEF Shape, SlotOK, Post
<1>2. data \in Seq(Clients \X Int) /\ n \in Nat
    BY <1>1
<1>3. y = [w EXCEPT !.s.post.data = data, !.s.post.received = n]
    BY DEF Grown
<1> HIDE DEF data, n, y
<1>4. y.s = [w.s EXCEPT !.post = [post EXCEPT !.data = data, !.received = n]]
    BY <1>1, <1>3 DEF WorldFields, SlotFields
<1>5. /\ DOMAIN y = WorldFields /\ y.req = w.req /\ y.aborted = w.aborted /\ y.fault = w.fault
      /\ y.packets = w.packets /\ y.heap = w.heap /\ y.flash = w.flash
      /\ y.rebooting = w.rebooting /\ y.struck = w.struck /\ y.failed = w.failed
      /\ y.buff = w.buff /\ y.sent = w.sent /\ y.garbage = w.garbage
    BY <1>1, <1>3 DEF WorldFields
<1>6. /\ y.s.cgi = w.s.cgi /\ y.s.cgiData = w.s.cgiData /\ y.s.headPos = w.s.headPos
      /\ y.s.cgiPrivData = w.s.cgiPrivData
      /\ y.s.url = w.s.url /\ y.s.post = [post EXCEPT !.data = data, !.received = n]
      /\ DOMAIN y.s = SlotFields
    BY <1>1, <1>4 DEF SlotFields
<1>7. /\ y.s.post \in Post /\ y.s.post.data = data /\ y.s.post.received = n
      /\ y.s.post.len = post.len /\ y.s.post.buff = post.buff /\ y.s.post.buffSize = post.buffSize
    <2> HIDE DEF post
    <2> QED BY <1>1, <1>2, <1>6 DEF Post
<1>8. Shape(y)
    BY <1>5, <1>6, <1>7 DEF Shape, SlotOK
<1>9. LaterBy(p, w.req, w.s.post, y.s.post)
    BY <1>7 DEF LaterBy, data, n
<1> QED BY <1>5, <1>6, <1>7, <1>8, <1>9 DEF GrownOK, Beside, Silent, y

\* The buffer is emptied when the handler returns.
LEMMA EmptiedIs ==
    ASSUME NEW z, Shape(z)
    PROVE  LET v == [z EXCEPT !.s.post.data = <<>>]
           IN  /\ Beside(z, v) /\ Silent(z, v) /\ v.buff = z.buff
               /\ v.s.cgi = z.s.cgi /\ v.s.cgiData = z.s.cgiData
               /\ v.s.cgiPrivData = z.s.cgiPrivData /\ v.s.url = z.s.url
               /\ v.s.post.data = <<>> /\ v.s.post.received = z.s.post.received
               /\ v.s.post.len = z.s.post.len /\ v.s.post.buffSize = z.s.post.buffSize
<1> DEFINE v == [z EXCEPT !.s.post.data = <<>>]
<1>1. DOMAIN z = WorldFields /\ DOMAIN z.s = SlotFields /\ z.s.post \in Post
    BY DEF Shape, SlotOK
<1>2. v.s = [z.s EXCEPT !.post = [z.s.post EXCEPT !.data = <<>>]]
    BY <1>1 DEF WorldFields
<1>3. Beside(z, v) /\ Silent(z, v) /\ v.buff = z.buff
    BY <1>1 DEF WorldFields, Beside, Silent
<1> HIDE DEF v
<1>4. /\ v.s.cgi = z.s.cgi /\ v.s.cgiData = z.s.cgiData /\ v.s.cgiPrivData = z.s.cgiPrivData
      /\ v.s.url = z.s.url /\ v.s.post = [z.s.post EXCEPT !.data = <<>>]
    BY <1>1, <1>2 DEF SlotFields
<1>5. PICK b : b = z.s.post
    OBVIOUS
<1>6. b \in Post /\ v.s.post = [b EXCEPT !.data = <<>>]
    BY <1>1, <1>4, <1>5
<1>7. /\ v.s.post.data = <<>> /\ v.s.post.received = b.received
      /\ v.s.post.len = b.len /\ v.s.post.buffSize = b.buffSize
    BY <1>6 DEF Post
<1> QED BY <1>3, <1>4, <1>5, <1>7 DEF v
-----------------------------------------------------------------------------
\* In the middle of a body a handler was called for an upload only.
LEMMA MidwayStage ==
    ASSUME NEW p, NEW w, NEW k, NEW g, NEW m, NEW a, Telling(p, w, k, g, m, a),
           AtBody(w.s, w.req, k), Midway(p, w.req, w.s.post), Asked(w.s.post), w.s.url # NULL
    PROVE  \/ Uploading(w.req, w.s, Sum(g, w), Num(m, w))
           \/ Refused(w.req, w.s, Sum(g, w), Num(m, w))
<1> DEFINE told == Sum(g, w)
           n == Num(m, w)
<1>1. \/ Uploading(w.req, w.s, told, n) \/ Refused(w.req, w.s, told, n)
      \/ Reading(w.req, w.s, told, n, a) \/ Answered(w.req, w.s, told, n)
    BY DEF Telling, Stage
<1>2. w.s.post.len > 0 /\ w.s.post.received < w.s.post.len /\ w.s.post.received # w.s.post.len
    BY DEF Midway
<1>3. w.s.cgi \in {NoHandler, "cgiUploadFirmware"}
    BY <1>2 DEF AtBody, Telling
<1>4. ~Reading(w.req, w.s, told, n, a)
    BY <1>3 DEF Reading, NoHandler
<1>5. ~Answered(w.req, w.s, told, n)
    BY <1>2 DEF Answered, BodyIn
<1> QED BY <1>1, <1>4, <1>5

\* A unit that does not complete its chunk.
LEMMA WaitTells ==
    ASSUME NEW p, NEW w, NEW k, NEW g, NEW m, NEW a, Telling(p, w, k, g, m, a),
           AtBody(w.s, w.req, k), Midway(p, w.req, w.s.post),
           NEW y, GrownOK(p, w, y), ~ChunkReady(y.s.post)
    PROVE  /\ y.buff = <<>> /\ Speech(g, m, y)
           /\ Stage(p, y.req, y.s, Sum(g, y), Num(m, y), a) /\ Keeps(p, y, g)
<1> DEFINE told == Sum(g, w)
           n == Num(m, w)
           post == w.s.post
           next == y.s.post
<1>1. /\ Buffered(p, w.req, next) /\ (Asked(next) <=> Asked(post))
      /\ next.received < next.len /\ Offset(next) = Offset(post)
    BY NotReadyIs DEF GrownOK
<1>2. /\ y.req = w.req /\ y.flash = w.flash /\ y.struck = w.struck /\ Silent(w, y)
      /\ y.s.cgi = w.s.cgi /\ y.s.cgiPrivData = w.s.cgiPrivData /\ y.s.url = w.s.url
      /\ next.len = post.len /\ y.buff = <<>>
    BY DEF GrownOK, Beside, LaterBy, Telling
<1>3. Speech(g, m, y) /\ Sum(g, y) = told /\ Num(m, y) = n
    BY <1>2, SilentIs DEF Telling
<1>4. Stage(p, w.req, w.s, told, n, a) /\ post.len > 0 /\ post.len \in Nat
    BY DEF Telling, Midway
<1>5. Parsed(p, w.req, w.s) /\ Parsed(p, w.req, y.s) /\ next.len # -1 /\ next.len > 0
    <2>1. post.len # -1 /\ post.len # 0
        BY <1>4
    <2>2. Parsed(p, w.req, w.s)
        BY <1>4, <2>1 DEF Stage
    <2> HIDE DEF post, next
    <2> QED BY <1>1, <1>2, <1>4, <2>1, <2>2 DEF Parsed, post, next
<1> HIDE DEF told, n
<1>6. Stage(p, w.req, y.s, told, n, a)
    <2>1. CASE Asked(post) /\ w.s.url # NULL
        <3>1. Uploading(w.req, w.s, told, n) \/ Refused(w.req, w.s, told, n)
            BY <2>1, MidwayStage DEF told, n
        <3>2. Uploading(w.req, y.s, told, n) \/ Refused(w.req, y.s, told, n)
            BY <1>1, <1>2, <1>5, <3>1 DEF Uploading, Refused
        <3>3. Called(p, w.req, y.s)
            BY <1>1, <1>2, <1>5, <2>1 DEF Called
        <3>4. told \in Seq(Parts) /\ n \in Nat /\ a \in Nat /\ a <= n /\ n <= a + 1
            BY <1>4 DEF Stage
        <3> QED BY <3>2, <3>3, <3>4, AnsweredIs
    <2>2. CASE ~(Asked(post) /\ w.s.url # NULL)
        <3>1. w.s.cgi = NoHandler /\ told = <<>> /\ n = 0 /\ a = 0
            BY <1>4, <2>2, UntoldIs
        <3>2. Stage(p, w.req, y.s, <<>>, 0, 0)
            BY <1>1, <1>2, <1>5, <2>2, <3>1, StillUntold
        <3> QED BY <3>1, <3>2
    <2> QED BY <2>1, <2>2
<1>7. Keeps(p, y, g)
    BY <1>1, <1>2, <1>3 DEF Keeps, Stored, Telling, told
<1> QED BY <1>2, <1>3, <1>6, <1>7

\* A chunk of an upload that is not refused, as it was found.
LEMMA ChunkComes ==
    ASSUME NEW p, NEW w, NEW k, NEW g, NEW m, NEW a, Telling(p, w, k, g, m, a),
           AtBody(w.s, w.req, k), Midway(p, w.req, w.s.post), w.s.url # NULL,
           NEW y, GrownOK(p, w, y), ChunkReady(y.s.post), w.req.url = "/flash/upload",
           ValidUpload(w.req), ~(Asked(w.s.post) /\ w.s.cgiPrivData),
           p \in alone, ~w.struck
    PROVE  ChunkFits(p, w.req, w.flash[Other], Offset(y.s.post), y.s.post.data)
<1> DEFINE post == w.s.post
           next == y.s.post
           part == w.flash[Other]
<1>1. LaterBy(p, w.req, post, next)
    BY DEF GrownOK
<1>2. /\ Offset(next) = Offset(post) /\ Offset(post) \in Nat
      /\ Len(next.data) \in Nat /\ Len(next.data) <= MAX_POST
      /\ \A j \in 1 .. Len(next.data) : next.data[j] = Content(p, w.req, Offset(next) + j - 1)
      /\ \E q \in Nat : Offset(next) = MAX_POST * q
      /\ Asked(post) <=> Offset(next) # 0
    BY <1>1, AppendedIs
<1>3. next.data \in Seq(Clients \X Int)
    BY DEF GrownOK, Shape, SlotOK, Post
<1>4. /\ next.received = Offset(next) + Len(next.data) /\ next.received <= next.len
      /\ next.len = w.req.contentLength
    <2>1. next.received = Offset(next) + Len(next.data) /\ next.received <= next.len
        <3>1. PICK rest : rest = [next EXCEPT !.data = <<>>]
            OBVIOUS
        <3>2. next \in Post
            BY DEF GrownOK, Shape, SlotOK
        <3>3. /\ rest.data = <<>> /\ rest.received = next.received /\ rest.len = next.len
              /\ rest.buffSize = next.buffSize
            BY <3>1, <3>2 DEF Post
        <3> QED BY <1>1, <3>3, ReadyIs
    <2>2. next.len = w.req.contentLength
        BY <1>1 DEF LaterBy, AtBody
    <2> QED BY <2>1, <2>2
<1>5. Offset(next) + Len(next.data) <= FIRMWARE_SIZE
    <2>1. w.req.contentLength \in Int /\ w.req.contentLength <= FIRMWARE_SIZE
        BY SectorAssumption, HttpdAssumption DEF ValidUpload
    <2>2. Offset(next) \in Nat /\ Len(next.data) \in Nat /\ FIRMWARE_SIZE \in Nat
        BY <1>2, SectorAssumption
    <2> QED BY <1>4, <2>1, <2>2
<1>6. Begins(p, w.req, part, Offset(next)) /\ Clean(part, Offset(next))
    <2>1. CASE Asked(post)
        <3>1. Uploading(w.req, w.s, Sum(g, w), Num(m, w))
            BY <2>1, MidwayStage DEF Refused
        <3>2. Stored(p, w.req, w.s, Sum(g, w), part)
            BY DEF Telling, Keeps
        <3> QED BY <1>2, <3>1, <3>2 DEF Uploading, Stored
    <2>2. CASE ~Asked(post)
        <3>1. Offset(next) = 0
            BY <1>2, <2>2
        <3>2. Begins(p, w.req, part, 0)
            BY DEF Begins
        <3>3. Clean(part, 0)
            <4> SUFFICES ASSUME NEW b \in Nat, SPI_FLASH_SEC_SIZE * b < 0 PROVE FALSE
                BY DEF Clean
            <4> QED BY SectorAssumption
        <3> QED BY <3>1, <3>2, <3>3
    <2> QED BY <2>1, <2>2
<1> QED BY <1>2, <1>3, <1>5, <1>6 DEF ChunkFits
-----------------------------------------------------------------------------
\* A chunk is refused if the upload is not a valid one.
LEMMA FaultyIs ==
    ASSUME NEW p, NEW w, NEW k, AtBody(w.s, w.req, k), Midway(p, w.req, w.s.post),
           NEW y, GrownOK(p, w, y), w.req.url = "/flash/upload"
    PROVE  /\ ValidUpload(w.req) => ~Faulty(y)
           /\ Offset(y.s.post) = 0 /\ ~Faulty(y) => ValidUpload(w.req)
<1> DEFINE post == w.s.post
           next == y.s.post
           req == w.req
<1>1. LaterBy(p, w.req, post, next)
    BY DEF GrownOK
<1>2. /\ Offset(next) \in Nat /\ Len(next.data) = Len(post.data) + 1 /\ Len(next.data) \in Nat
      /\ \A j \in 1 .. Len(next.data) : next.data[j] = Content(p, w.req, Offset(next) + j - 1)
    <2>1. /\ Offset(next) = Offset(post) /\ Offset(post) \in Nat
          /\ Len(next.data) = Len(post.data) + 1 /\ Len(next.data) \in Nat
        <3>1. PICK b, c, r : b = post /\ c = next /\ r = req
            OBVIOUS
        <3>2. Midway(p, r, b) /\ LaterBy(p, r, b, c)
            BY <1>1, <3>1
        <3>3. /\ Offset(c) = Offset(b) /\ Offset(b) \in Nat
              /\ Len(c.data) = Len(b.data) + 1 /\ Len(c.data) \in Nat
            BY <3>2, AppendedIs
        <3> QED BY <3>1, <3>3
    <2>2. \A j \in 1 .. Len(next.data) : next.data[j] = Content(p, w.req, Offset(next) + j - 1)
        BY <1>1, AppendedIs
    <2> QED BY <2>1, <2>2
<1>3. Offset(next) % MAX_POST = 0
    <2>1. PICK q \in Nat : Offset(next) = MAX_POST * q
        BY <1>1, AppendedIs
    <2>2. Offset(next) = MAX_POST * q + 0 /\ 0 \in 0 .. MAX_POST - 1 /\ MAX_POST \in Nat \ {0}
        BY <2>1, HttpdAssumption
    <2> QED BY <1>2, <2>2, ModUnique
<1>4. Offset(next) = 0 => next.data[1] = Content(p, req, 0)
    <2>1. Len(post.data) \in Nat
        BY DEF Midway
    <2>2. 1 \in 1 .. Len(next.data)
        BY <1>2, <2>1
    <2>3. Offset(next) = 0 => next.data[1] = Content(p, req, 0 + 1 - 1)
        BY <1>2, <2>2
    <2> QED BY <2>3
<1>5. check_header(Content(p, req, 0)) <=> req.firmware
    BY DEF check_header, Content, Junk
<1>6. /\ next.len = req.contentLength /\ next.buff /\ y.req = req /\ next.len \in Nat
      /\ MAX_POST \in Nat /\ FIRMWARE_SIZE \in Nat
    BY <1>1, HttpdAssumption, SectorAssumption DEF GrownOK, LaterBy, AtBody, Midway, Beside
<1> HIDE DEF next, post
<1>7. Faulty(y) <=> \/ next.len > FIRMWARE_SIZE \/ req.method # "POST" \/ next.len < MAX_POST
                    \/ Offset(next) = 0 /\ ~check_header(next.data[1])
    BY <1>3, <1>6 DEF Faulty, next
<1>8. ValidUpload(req) <=> req.method = "POST" /\ req.firmware /\ MAX_POST <= next.len
                           /\ next.len <= FIRMWARE_SIZE
    BY <1>6 DEF ValidUpload
<1> QED BY <1>4, <1>5, <1>6, <1>7, <1>8 DEF next

\* A chunk of an upload: v is the world after the handler, with an empty buffer.
ChunkHandled(p, w, y, z, v) ==
    /\ GrownOK(p, w, y) /\ ChunkReady(y.s.post)
    /\ Uploads(y, z) /\ z.buff = <<>> /\ z.req = w.req
    /\ z.s.post = y.s.post /\ z.s.url = y.s.url
    /\ Beside(z, v) /\ Silent(z, v) /\ v.buff = z.buff
    /\ v.s.cgi = z.s.cgi /\ v.s.cgiPrivData = z.s.cgiPrivData /\ v.s.url = z.s.url
    /\ v.s.post.data = <<>> /\ v.s.post.received = z.s.post.received
    /\ v.s.post.len = z.s.post.len /\ v.s.post.buffSize = z.s.post.buffSize

LEMMA HandledIs ==
    ASSUME NEW p, NEW w, NEW k, NEW g, NEW m, NEW a, Telling(p, w, k, g, m, a),
           AtBody(w.s, w.req, k), Midway(p, w.req, w.s.post), w.s.url # NULL,
           NEW y, NEW z, NEW v, ChunkHandled(p, w, y, z, v), w.req.url = "/flash/upload"
    PROVE  /\ Called(p, w.req, v.s) /\ v.s.post.len > 0
           /\ Offset(v.s.post) = y.s.post.received
           /\ v.s.post.received = y.s.post.received /\ y.s.post.received <= v.s.post.len
           /\ v.s.post.len = w.req.contentLength /\ v.s.post.len \in Nat
           /\ y.s.post.received \in Nat
           /\ y.s.post.received = Offset(y.s.post) + Len(y.s.post.data)
           /\ y.s.post.received < v.s.post.len =>
                 y.s.post.received = Offset(y.s.post) + MAX_POST
           /\ Offset(y.s.post) # 0 <=> Asked(w.s.post)
           /\ Offset(y.s.post) \in Nat /\ Len(y.s.post.data) \in Nat
<1> DEFINE post == w.s.post
           next == y.s.post
           rest == v.s.post
<1>1. LaterBy(p, w.req, post, next) /\ ChunkReady(next)
    BY DEF ChunkHandled, GrownOK
<1>2. /\ rest.data = <<>> /\ rest.received = next.received /\ rest.len = next.len
      /\ rest.buffSize = next.buffSize /\ v.s.url = w.s.url
    BY DEF ChunkHandled, GrownOK
<1>3. /\ next.len = post.len /\ post.len \in Nat /\ post.len > 0 /\ post.len = w.req.contentLength
      /\ next.received = post.received + 1 /\ post.received \in Nat
    BY <1>1 DEF LaterBy, Midway, AtBody
<1>4. /\ Buffered(p, w.req, rest) /\ Asked(rest) /\ Offset(rest) = next.received
      /\ next.received <= next.len
      /\ next.received < next.len => next.received = Offset(next) + MAX_POST
      /\ next.received = Offset(next) + Len(next.data)
    BY <1>1, <1>2, ReadyIs
<1>5. /\ Asked(post) <=> Offset(next) # 0
      /\ Offset(next) = Offset(post) /\ Offset(post) \in Nat /\ Len(next.data) \in Nat
    BY <1>1, AppendedIs
<1>6. Parsed(p, w.req, w.s)
    <2>1. w.s.post.len # -1
        BY <1>3
    <2> QED BY <2>1 DEF Telling, Stage
<1> HIDE DEF next, rest, post
<1>7. rest.len \in Nat /\ rest.len > 0 /\ rest.len # -1 /\ rest.len # 0
    BY <1>2, <1>3
<1>8. Called(p, w.req, v.s)
    BY <1>2, <1>4, <1>6, <1>7 DEF Called, Parsed, rest
<1> QED BY <1>2, <1>3, <1>4, <1>5, <1>7, <1>8 DEF next, rest, post
-----------------------------------------------------------------------------
\* A chunk that is refused, or whose upload was.
LEMMA RefusalTells ==
    ASSUME NEW p, NEW w, NEW k, NEW g, NEW m, NEW a, Telling(p, w, k, g, m, a),
           AtBody(w.s, w.req, k), Midway(p, w.req, w.s.post), w.s.url # NULL,
           NEW y, NEW z, NEW v, ChunkHandled(p, w, y, z, v), w.req.url = "/flash/upload",
           Late(y) \/ Faulty(y)
    PROVE  /\ Speech(g, m, v)
           /\ Stage(p, v.req, v.s, Sum(g, v), Num(m, v), a) /\ Keeps(p, v, g)
<1>1. /\ Called(p, w.req, v.s) /\ (Offset(y.s.post) # 0 <=> Asked(w.s.post))
    BY HandledIs
<1>2. /\ Beside(w, y) /\ Silent(w, y) /\ y.s.cgiPrivData = w.s.cgiPrivData /\ Uploads(y, z)
      /\ Beside(z, v) /\ Silent(z, v) /\ v.s.cgi = z.s.cgi /\ v.s.cgiPrivData = z.s.cgiPrivData
      /\ v.req = w.req /\ GrownOK(p, w, y)
    BY DEF ChunkHandled, GrownOK, Beside
<1>3. /\ Speech(g, m, y) /\ Sum(g, y) = Sum(g, w) /\ Num(m, y) = Num(m, w)
    BY <1>2, SilentIs DEF Telling
<1>4. CASE Late(y)
    <2>1. Asked(w.s.post) /\ w.s.cgiPrivData
        BY <1>1, <1>2, <1>4 DEF Late
    <2>2. Refused(w.req, w.s, Sum(g, w), Num(m, w))
        BY <2>1, MidwayStage DEF Uploading
    <2>3. z.s.cgi = NoHandler /\ z.s.cgiPrivData /\ Silent(y, z)
        BY <1>2, <1>4 DEF Uploads
    <2>4. Silent(w, v)
        BY <1>2, <2>3 DEF Silent
    <2>5. Speech(g, m, v) /\ Sum(g, v) = Sum(g, w) /\ Num(m, v) = Num(m, w)
        BY <2>4, SilentIs DEF Telling
    <2> DEFINE told == Sum(g, w)
               n == Num(m, w)
    <2>6. told \in Seq(Parts) /\ n \in Nat /\ a \in Nat /\ a <= n /\ n <= a + 1
        BY DEF Telling, Stage
    <2> HIDE DEF told, n
    <2>7. Refused(w.req, v.s, told, n)
        BY <1>2, <2>2, <2>3 DEF Refused, told, n
    <2>8. Stage(p, w.req, v.s, told, n, a)
        BY <1>1, <2>6, <2>7, AnsweredIs
    <2>9. Keeps(p, v, g)
        <3>1. told # <<"200">> /\ v.s.cgi # "cgiUploadFirmware"
            BY <2>7 DEF Refused, NoHandler
        <3> QED BY <2>5, <3>1, NothingStored DEF Keeps, told
    <2> QED BY <1>2, <2>5, <2>8, <2>9 DEF told, n
<1>5. CASE ~Late(y) /\ Faulty(y)
    <2>1. Closes(y, z, "400") /\ z.s.cgiPrivData
        BY <1>2, <1>5 DEF Uploads
    <2>2. ~Asked(w.s.post)
        <3> SUFFICES ASSUME Asked(w.s.post) PROVE FALSE
            OBVIOUS
        <3>1. ~w.s.cgiPrivData
            BY <1>1, <1>2, <1>5 DEF Late
        <3>2. Uploading(w.req, w.s, Sum(g, w), Num(m, w))
            BY <3>1, MidwayStage DEF Refused
        <3>3. ValidUpload(w.req)
            BY <3>2 DEF Uploading
        <3> QED BY <1>2, <1>5, <3>3, FaultyIs
    <2>3. ~ValidUpload(w.req)
        BY <1>2, <1>5, FaultyIs
    <2>4. Answers(w.req) = {<<"400">>}
        BY <2>3, AnswersAre
    <2>5. Sum(g, w) = <<>> /\ Num(m, w) = 0 /\ a = 0
        BY <2>2, UntoldIs DEF Telling
    <2>6. PICK parts : parts = <<"400">>
        OBVIOUS
    <2>7. parts \in Seq(Parts) /\ Says(y, z, parts) /\ z.s.cgi = NoHandler
        BY <2>1, <2>6 DEF Closes, Parts
    <2>8. Says(y, v, parts)
        BY <1>2, <2>7 DEF Says, Silent
    <2>9. Speech(g, m, v) /\ Sum(g, v) = Sum(g, y) \o parts /\ Num(m, v) = Num(m, y) + 1
        BY <1>3, <2>7, <2>8, SaysIs
    <2>10. Sum(g, v) = parts /\ Num(m, v) = 1
        BY <1>3, <2>5, <2>7, <2>9, Joined
    <2>11. parts # <<"200">>
        BY <2>6
    <2>12. Refused(w.req, v.s, parts, 1)
        BY <1>2, <2>1, <2>4, <2>6, <2>7, <2>11 DEF Refused
    <2>13. 1 \in Nat /\ a \in Nat /\ a <= 1 /\ 1 <= a + 1
        BY <2>5
    <2>14. Stage(p, w.req, v.s, parts, 1, a)
        BY <1>1, <2>7, <2>12, <2>13, AnsweredIs
    <2>15. Keeps(p, v, g)
        <3>1. v.s.cgi # "cgiUploadFirmware"
            BY <2>12 DEF Refused, NoHandler
        <3> QED BY <2>10, <2>11, <3>1, NothingStored DEF Keeps
    <2> QED BY <1>2, <2>9, <2>10, <2>14, <2>15
<1> QED BY <1>4, <1>5

\* A chunk that is written.
LEMMA WriteTells ==
    ASSUME NEW p, NEW w, NEW k, NEW g, NEW m, NEW a, Telling(p, w, k, g, m, a),
           AtBody(w.s, w.req, k), Midway(p, w.req, w.s.post), w.s.url # NULL,
           NEW y, NEW z, NEW v, ChunkHandled(p, w, y, z, v), w.req.url = "/flash/upload",
           ~Late(y), ~Faulty(y), userbin \in Userbins
    PROVE  /\ Speech(g, m, v)
           /\ Stage(p, v.req, v.s, Sum(g, v), Num(m, v), a) /\ Keeps(p, v, g)
<1> DEFINE offset == Offset(y.s.post)
           data == y.s.post.data
           chunk == FlashChunk(w.flash[Other], offset, data, w.fault)
<1>1. /\ Called(p, w.req, v.s) /\ (offset # 0 <=> Asked(w.s.post))
      /\ Offset(v.s.post) = y.s.post.received /\ v.s.post.len > 0 /\ v.s.post.len \in Nat
      /\ v.s.post.received = y.s.post.received /\ y.s.post.received <= v.s.post.len
      /\ v.s.post.len = w.req.contentLength /\ y.s.post.received = offset + Len(data)
      /\ y.s.post.received < v.s.post.len => y.s.post.received = offset + MAX_POST
      /\ offset \in Nat /\ Len(data) \in Nat /\ y.s.post.received \in Nat
    BY HandledIs
<1>2. /\ Beside(w, y) /\ Silent(w, y) /\ y.s.cgiPrivData = w.s.cgiPrivData /\ Uploads(y, z)
      /\ Beside(z, v) /\ Silent(z, v) /\ v.s.cgi = z.s.cgi /\ v.s.cgiPrivData = z.s.cgiPrivData
      /\ v.req = w.req /\ GrownOK(p, w, y) /\ v.s.post.len = y.s.post.len
    BY DEF ChunkHandled, GrownOK, Beside
<1>3. /\ Speech(g, m, y) /\ Sum(g, y) = Sum(g, w) /\ Num(m, y) = Num(m, w)
    BY <1>2, SilentIs DEF Telling
<1>4. /\ ~v.s.cgiPrivData
      /\ IF v.s.post.received = v.s.post.len THEN v.s.cgi = NoHandler /\ Says(y, z, <<"200">>)
         ELSE v.s.cgi = "cgiUploadFirmware" /\ Silent(y, z)
      /\ v.flash = [y.flash EXCEPT ![Other] = FlashChunk(y.flash[Other], offset, data, y.fault)]
      /\ v.struck = (y.struck \/ Strikes(offset, y.fault))
    BY <1>1, <1>2 DEF Uploads, Beside
<1>5. ~(Asked(w.s.post) /\ w.s.cgiPrivData)
    BY <1>1, <1>2 DEF Late
<1>6. ValidUpload(w.req) /\ Sum(g, w) = <<>> /\ Num(m, w) = 0 /\ a = 0
    <2>1. CASE Asked(w.s.post)
        <3>1. Uploading(w.req, w.s, Sum(g, w), Num(m, w))
            BY <1>5, <2>1, MidwayStage DEF Refused
        <3>2. a \in Nat /\ a <= Num(m, w)
            BY DEF Telling, Stage
        <3>3. Num(m, w) = 0 /\ ValidUpload(w.req) /\ Sum(g, w) = <<>>
            BY <3>1 DEF Uploading
        <3> QED BY <3>2, <3>3
    <2>2. CASE ~Asked(w.s.post)
        <3>1. ValidUpload(w.req)
            BY <1>1, <1>2, <2>2, FaultyIs
        <3> QED BY <2>2, <3>1, UntoldIs DEF Telling
    <2> QED BY <2>1, <2>2
<1>7. v.flash[Other] = chunk /\ (v.struck <=> w.struck \/ Strikes(offset, w.fault))
    <2>1. y.flash = w.flash /\ y.struck = w.struck /\ y.fault = w.fault /\ DOMAIN w.flash = Userbins
        BY <1>2 DEF Beside, GrownOK, Telling, Standing, Shape
    <2>2. Other \in Userbins
        BY Partitions
    <2> HIDE DEF offset, data
    <2> QED BY <1>4, <2>1, <2>2
<1>8. ASSUME p \in alone, ~v.struck
      PROVE  /\ Begins(p, w.req, v.flash[Other], v.s.post.received)
             /\ v.s.post.received < v.s.post.len => Clean(v.flash[Other], v.s.post.received)
    <2>1. ~w.struck /\ ~Strikes(offset, w.fault)
        BY <1>7, <1>8
    <2>2. ChunkFits(p, w.req, w.flash[Other], offset, data)
        BY <1>2, <1>5, <1>6, <1>8, <2>1, ChunkComes DEF ChunkHandled
    <2>3. w.fault \in Faults
        BY DEF Telling, Standing
    <2> HIDE DEF offset, data
    <2>4. /\ Begins(p, w.req, chunk, offset + Len(data))
          /\ Len(data) = MAX_POST => Clean(chunk, offset + MAX_POST)
        BY <2>1, <2>2, <2>3, ChunkWrites
    <2>5. v.s.post.received < v.s.post.len => Len(data) = MAX_POST
        BY <1>1, HttpdAssumption
    <2> HIDE DEF chunk
    <2> QED BY <1>1, <1>7, <2>4, <2>5
<1>9. CASE v.s.post.received = v.s.post.len
    <2>1. PICK parts : parts = <<"200">>
        OBVIOUS
    <2>2. parts \in Seq(Parts) /\ Says(y, z, parts) /\ v.s.cgi = NoHandler
        BY <1>4, <1>9, <2>1 DEF Parts
    <2>3. Says(y, v, parts)
        BY <1>2, <2>2 DEF Says, Silent
    <2>4. Speech(g, m, v) /\ Sum(g, v) = Sum(g, y) \o parts /\ Num(m, v) = Num(m, y) + 1
        <3>1. parts \in Seq(Parts) /\ Says(y, v, parts) /\ Speech(g, m, y)
            BY <1>3, <2>2, <2>3
        <3> QED BY <3>1, SaysIs
    <2>5. Sum(g, v) = parts /\ Num(m, v) = 1
        BY <1>3, <1>6, <2>2, <2>4, Joined
    <2>6. Answers(w.req) = {<<"200">>}
        BY <1>6, AnswersAre
    <2>7. Answered(w.req, v.s, parts, 1)
        BY <1>9, <2>1, <2>2, <2>6 DEF Answered, BodyIn
    <2>8. 1 \in Nat /\ a \in Nat /\ a <= 1 /\ 1 <= a + 1
        BY <1>6
    <2>9. Stage(p, w.req, v.s, parts, 1, a)
        BY <1>1, <2>2, <2>7, <2>8, AnsweredIs
    <2>10. Keeps(p, v, g)
        BY <1>1, <1>2, <1>8, <1>9, <2>2 DEF Keeps, Stored, NoHandler
    <2> QED BY <1>2, <2>4, <2>5, <2>9, <2>10
<1>10. CASE v.s.post.received # v.s.post.len
    <2>1. v.s.cgi = "cgiUploadFirmware" /\ Silent(y, z) /\ v.s.post.received < v.s.post.len
        BY <1>1, <1>4, <1>10
    <2>2. Silent(y, v)
        BY <1>2, <2>1 DEF Silent
    <2>3. Speech(g, m, v) /\ Sum(g, v) = <<>> /\ Num(m, v) = 0
        BY <1>3, <1>6, <2>2, SilentIs
    <2>4. Uploading(w.req, v.s, <<>>, 0)
        BY <1>1, <1>4, <1>6, <2>1 DEF Uploading
    <2>5. <<>> \in Seq(Parts) /\ 0 \in Nat /\ a \in Nat /\ a <= 0 /\ 0 <= a + 1
        BY <1>6, Joined
    <2>6. Stage(p, w.req, v.s, <<>>, 0, a)
        BY <1>1, <2>4, <2>5, AnsweredIs
    <2>7. Keeps(p, v, g)
        <3>1. <<>> # <<"200">>
            OBVIOUS
        <3> QED BY <1>1, <1>2, <1>8, <2>1, <2>3, <3>1 DEF Keeps, Stored
    <2> QED BY <1>2, <2>3, <2>6, <2>7
<1> QED BY <1>9, <1>10
-----------------------------------------------------------------------------
\* A body that is complete, of a request that is not an upload: v is the world
\* after the handler, with an empty buffer.
LEMMA WholeTells ==
    ASSUME NEW p, NEW w, NEW k, NEW g, NEW m, NEW a, Telling(p, w, k, g, m, a),
           AtBody(w.s, w.req, k), Midway(p, w.req, w.s.post), w.s.url # NULL,
           w.s.url = w.req.url, w.req.url # "/flash/upload",
           NEW y, NEW z, NEW v, GrownOK(p, w, y), ChunkReady(y.s.post),
           Opens(y, z) \/ (\E part : Closes(y, z, part) /\ <<part>> \in Answers(y.req)),
           z.buff = <<>>, z.req = w.req, z.s.post = y.s.post, z.s.url = y.s.url,
           Beside(z, v), Silent(z, v), v.s.cgi = z.s.cgi, v.s.cgiData = z.s.cgiData,
           v.s.url = z.s.url,
           v.s.post.data = <<>>, v.s.post.received = z.s.post.received,
           v.s.post.len = z.s.post.len, v.s.post.buffSize = z.s.post.buffSize
    PROVE  /\ Speech(g, m, v)
           /\ Stage(p, v.req, v.s, Sum(g, v), Num(m, v), a) /\ Keeps(p, v, g)
<1> DEFINE post == w.s.post
           next == y.s.post
           rest == v.s.post
<1>1. LaterBy(p, w.req, post, next) /\ y.req = w.req /\ Silent(w, y) /\ y.s.url = w.s.url
      /\ v.req = w.req
    BY DEF GrownOK, Beside
<1>2. /\ rest.data = <<>> /\ rest.received = next.received /\ rest.len = next.len
      /\ rest.buffSize = next.buffSize /\ v.s.url = w.s.url
    BY <1>1
<1>3. /\ next.len = post.len /\ post.len \in Nat /\ post.len > 0 /\ post.len = w.req.contentLength
    BY <1>1 DEF LaterBy, Midway, AtBody
<1>4. next.len <= MAX_POST
    <2>1. ~(w.req.contentLength > MAX_POST)
        BY DEF Telling, CalledAgain
    <2>2. w.req.contentLength \in Int
        BY SectorAssumption DEF Telling, Standing, ReqOK
    <2> QED BY <1>3, <2>1, <2>2, HttpdAssumption
<1>5. Buffered(p, w.req, rest) /\ Asked(rest) /\ next.received = next.len
    BY <1>1, <1>2, <1>4, ReadyIs
<1>6. ~Asked(post)
    <2> SUFFICES ASSUME Asked(post) PROVE FALSE
        OBVIOUS
    <2>1. Uploading(w.req, w.s, Sum(g, w), Num(m, w)) \/ Refused(w.req, w.s, Sum(g, w), Num(m, w))
        BY MidwayStage
    <2> QED BY <2>1 DEF Uploading, Refused
<1>7. Sum(g, w) = <<>> /\ Num(m, w) = 0 /\ a = 0
    BY <1>6, UntoldIs DEF Telling
<1>8. Speech(g, m, y) /\ Sum(g, y) = <<>> /\ Num(m, y) = 0
    BY <1>1, <1>7, SilentIs DEF Telling
<1>9. Called(p, y.req, v.s) /\ BodyIn(v.s.post)
    <2>1. Parsed(p, w.req, w.s)
        <3>1. w.s.post.len # -1
            BY <1>3
        <3> QED BY <3>1 DEF Telling, Stage
    <2> HIDE DEF rest, next, post
    <2>2. rest.len \in Nat /\ rest.len > 0 /\ rest.len # -1 /\ rest.len # 0
        BY <1>2, <1>3
    <2>3. Called(p, w.req, v.s)
        BY <1>2, <1>5, <2>1, <2>2 DEF Called, Parsed, rest
    <2> QED BY <1>1, <1>2, <1>5, <2>3 DEF BodyIn, rest
<1>10. Speech(g, m, z) /\ Stage(p, y.req, v.s, Sum(g, z), Num(m, z), 0)
    BY <1>1, <1>8, <1>9, FirstCall
<1>11. Speech(g, m, v) /\ Sum(g, v) = Sum(g, z) /\ Num(m, v) = Num(m, z)
    BY <1>10, SilentIs
<1>12. Keeps(p, v, g)
    BY <1>1 DEF Keeps, Stored
<1> QED BY <1>1, <1>7, <1>10, <1>11, <1>12

\* A unit of the body: y is the world with it in the buffer, z the one after the
\* handler, if the chunk is complete.
Processed(w, y, z, v) ==
    /\ Shape(y) /\ ~y.aborted /\ y.fault \in Faults /\ y.req = w.req /\ y.s.url = w.s.url
    /\ y.buff = <<>> /\ Ready(y)
    /\ z = httpdProcessRequest(y) /\ Shape(z) /\ z.s.post = y.s.post /\ z.s.url = y.s.url
    /\ Beside(z, v) /\ Silent(z, v) /\ v.buff = z.buff
    /\ v.s.cgi = z.s.cgi /\ v.s.cgiData = z.s.cgiData
    /\ v.s.cgiPrivData = z.s.cgiPrivData /\ v.s.url = z.s.url
    /\ v.s.post.data = <<>> /\ v.s.post.received = z.s.post.received
    /\ v.s.post.len = z.s.post.len /\ v.s.post.buffSize = z.s.post.buffSize

LEMMA BodyIs ==
    ASSUME NEW p \in Clients, NEW w, NEW k \in Nat, NEW g, NEW m, NEW a,
           Telling(p, w, k, g, m, a), w.s.post.len > 0, k < RequestLen(w.req),
           userbin \in Userbins
    PROVE  LET v == BodyUnit(w, Content(p, w.req, k - w.req.headUnits))
           IN  /\ AtBody(w.s, w.req, k) /\ Parsed(p, w.req, w.s)
               /\ Midway(p, w.req, w.s.post)
               /\ \E y, z : /\ GrownOK(p, w, y)
                            /\ IF ChunkReady(y.s.post) THEN Processed(w, y, z, v) ELSE v = y
<1> DEFINE content == Content(p, w.req, k - w.req.headUnits)
           v == BodyUnit(w, content)
<1>1. Standing(w, k) /\ Shape(w) /\ AtBody(w.s, w.req, k) /\ w.buff = <<>>
    BY DEF Telling, Standing, Progress
<1>3. Parsed(p, w.req, w.s) /\ Buffered(p, w.req, w.s.post)
    <2>1. w.s.post.len # -1
        BY SectorAssumption DEF Telling, Standing, Shape, SlotOK, Post
    <2> QED BY <2>1 DEF Telling, Stage, Parsed
<1>4. Midway(p, w.req, w.s.post) /\ w.s.post.received = k - w.req.headUnits
    BY <1>1, <1>3, MidwayIs
<1>5. content = Content(p, w.req, w.s.post.received) /\ content \in Clients \X Int
    <2>1. w.s.post.received \in Int /\ Junk \in Int
        BY <1>4 DEF Midway, Junk
    <2> QED BY <1>4, <2>1 DEF Content
<1>6. PICK y : y = Grown(w, content)
    OBVIOUS
<1>7. v = IF ChunkReady(y.s.post) THEN [httpdProcessRequest(y) EXCEPT !.s.post.data = <<>>] ELSE y
    BY <1>6, BodyUnitIs
<1> HIDE DEF content
<1>8. GrownOK(p, w, y)
    BY <1>1, <1>5, <1>6, GrownIs
<1> HIDE DEF v
<1>9. CASE ~ChunkReady(y.s.post)
    BY <1>1, <1>3, <1>4, <1>7, <1>8, <1>9 DEF v, content
<1>10. CASE ChunkReady(y.s.post)
    <2>1. PICK z : z = httpdProcessRequest(y)
        OBVIOUS
    <2>2. v = [z EXCEPT !.s.post.data = <<>>]
        BY <1>7, <1>10, <2>1
    <2>3. Shape(y) /\ ~y.aborted /\ y.fault \in Faults /\ y.req = w.req /\ y.s.url = w.s.url
          /\ y.buff = <<>>
        BY <1>1, <1>8 DEF GrownOK, Standing, Beside
    <2>4. Ready(y)
        <3>1. PICK b, c, r : b = w.s.post /\ c = y.s.post /\ r = w.req
            OBVIOUS
        <3>2. Midway(p, r, b) /\ LaterBy(p, r, b, c)
            BY <1>4, <1>8, <3>1 DEF GrownOK
        <3>3. Offset(c) = Offset(b) /\ Offset(b) \in Nat
              /\ Len(c.data) = Len(b.data) + 1 /\ Len(c.data) \in Nat
            BY <3>2, AppendedIs
        <3>4. Offset(c) = c.received - Len(c.data) /\ Len(b.data) \in Nat /\ c.received \in Int
            BY <3>2 DEF Offset, Midway, LaterBy
        <3>5. Len(c.data) <= c.received /\ Len(c.data) > 0
            BY <3>3, <3>4
        <3> QED BY <3>1, <3>5 DEF Ready
    <2>6. Shape(z) /\ z.s.post = y.s.post /\ z.s.url = y.s.url
        <3>1. CASE y.s.url = NULL
            <4>1. z = y
                BY <2>1, <3>1, Zenon DEF httpdProcessRequest
            <4> QED BY <2>3, <4>1
        <3>2. CASE y.s.url # NULL
            BY <2>1, <2>3, <2>4, <3>2, ProcessKeeps DEF Kept, Same
        <3> QED BY <3>1, <3>2
    <2>7. /\ Beside(z, v) /\ Silent(z, v) /\ v.buff = z.buff
          /\ v.s.cgi = z.s.cgi /\ v.s.cgiData = z.s.cgiData
          /\ v.s.cgiPrivData = z.s.cgiPrivData /\ v.s.url = z.s.url
          /\ v.s.post.data = <<>> /\ v.s.post.received = z.s.post.received
          /\ v.s.post.len = z.s.post.len /\ v.s.post.buffSize = z.s.post.buffSize
        BY <2>2, <2>6, EmptiedIs
    <2>8. Processed(w, y, z, v)
        BY <2>1, <2>3, <2>4, <2>6, <2>7 DEF Processed
    <2> QED BY <1>1, <1>3, <1>4, <1>8, <1>10, <2>8 DEF v, content
<1> QED BY <1>9, <1>10

\* A unit of the body.
LEMMA BodyTells ==
    ASSUME NEW p \in Clients, NEW w, NEW k \in Nat, NEW g, NEW m, NEW a,
           Telling(p, w, k, g, m, a), w.s.post.len > 0, k < RequestLen(w.req),
           userbin \in Userbins
    PROVE  LET v == BodyUnit(w, Content(p, w.req, k - w.req.headUnits))
           IN  Telling(p, v, k + 1, g, m, a)
<1> DEFINE v == BodyUnit(w, Content(p, w.req, k - w.req.headUnits))
<1>1. Standing(w, k) /\ w.buff = <<>>
    BY DEF Telling
<1>2. Standing(v, k + 1) /\ ~CalledAgain(v.req)
    BY <1>1, BodyKeeps DEF Telling, Advanced
<1>3. /\ AtBody(w.s, w.req, k) /\ Parsed(p, w.req, w.s) /\ Midway(p, w.req, w.s.post)
      /\ \E y, z : /\ GrownOK(p, w, y)
                   /\ IF ChunkReady(y.s.post) THEN Processed(w, y, z, v) ELSE v = y
    BY BodyIs
<1> HIDE DEF v
<1>8. PICK y, z : /\ GrownOK(p, w, y)
                  /\ IF ChunkReady(y.s.post) THEN Processed(w, y, z, v) ELSE v = y
    BY <1>3
<1>9. CASE ~ChunkReady(y.s.post)
    <2>1. v = y
        BY <1>8, <1>9
    <2>2. /\ y.buff = <<>> /\ Speech(g, m, y)
          /\ Stage(p, y.req, y.s, Sum(g, y), Num(m, y), a) /\ Keeps(p, y, g)
        BY <1>3, <1>8, <1>9, WaitTells
    <2> QED BY <1>2, <2>1, <2>2 DEF Telling, v
<1>10. CASE ChunkReady(y.s.post)
    <2>1. z = httpdProcessRequest(y)
        BY <1>8, <1>10 DEF Processed
    <2>3. Shape(y) /\ ~y.aborted /\ y.fault \in Faults /\ y.req = w.req /\ y.s.url = w.s.url
          /\ y.buff = <<>> /\ Ready(y)
        BY <1>8, <1>10 DEF Processed
    <2>5. w.s.url = UrlOf(w.req)
        BY <1>3 DEF Parsed
    <2>6. Shape(z) /\ z.s.post = y.s.post /\ z.s.url = y.s.url
        BY <1>8, <1>10 DEF Processed
    <2>7. /\ Beside(z, v) /\ Silent(z, v) /\ v.buff = z.buff
          /\ v.s.cgi = z.s.cgi /\ v.s.cgiData = z.s.cgiData
          /\ v.s.cgiPrivData = z.s.cgiPrivData /\ v.s.url = z.s.url
          /\ v.s.post.data = <<>> /\ v.s.post.received = z.s.post.received
          /\ v.s.post.len = z.s.post.len /\ v.s.post.buffSize = z.s.post.buffSize
        BY <1>8, <1>10 DEF Processed
    <2>8. v.buff = <<>> /\ Speech(g, m, v)
          /\ Stage(p, v.req, v.s, Sum(g, v), Num(m, v), a) /\ Keeps(p, v, g)
        <3>1. CASE w.s.url = NULL
            <4>1. z = y
                BY <2>1, <2>3, <3>1, Zenon DEF httpdProcessRequest
            <4>2. Sum(g, w) = <<>> /\ Num(m, w) = 0 /\ a = 0 /\ w.s.cgi = NoHandler
                BY <3>1, UntoldIs DEF Telling
            <4>3. Silent(w, v) /\ v.req = w.req /\ v.s.cgi = NoHandler /\ v.s.url = NULL
                BY <1>8, <2>6, <2>7, <3>1, <4>1, <4>2 DEF GrownOK, Silent, Beside
            <4>4. Speech(g, m, v) /\ Sum(g, v) = <<>> /\ Num(m, v) = 0
                BY <4>2, <4>3, SilentIs DEF Telling
            <4>5. Parsed(p, w.req, v.s)
                <5>1. LaterBy(p, w.req, w.s.post, y.s.post)
                    BY <1>8 DEF GrownOK
                <5>2. Buffered(p, w.req, v.s.post)
                    BY <1>3, <1>10, <2>6, <2>7, <5>1, ReadyIs
                <5>3. v.s.post.len = w.s.post.len
                    BY <2>6, <2>7, <5>1 DEF LaterBy
                <5> QED BY <1>3, <2>6, <2>7, <3>1, <4>3, <5>2, <5>3 DEF Parsed
            <4>6. Stage(p, w.req, v.s, <<>>, 0, 0)
                BY <4>3, <4>5, StillUntold
            <4>7. Keeps(p, v, g)
                <5>1. <<>> # <<"200">>
                    OBVIOUS
                <5> QED BY <4>3, <4>4, <5>1, NothingStored DEF Keeps, NoHandler
            <4> QED BY <2>3, <2>7, <4>1, <4>2, <4>3, <4>4, <4>6, <4>7
        <3>2. CASE w.s.url # NULL
            <4>1. w.s.url = w.req.url
                BY <2>5, <3>2 DEF UrlOf
            <4>2. /\ z.buff = <<>> /\ z.req = y.req
                  /\ y.s.url = "/flash/upload" => Uploads(y, z)
                  /\ y.s.url # "/flash/upload" =>
                        Opens(y, z) \/ \E part : Closes(y, z, part) /\ <<part>> \in Answers(y.req)
                BY <2>1, <2>3, <3>2, <4>1, ProcessTells
            <4>3. CASE w.req.url = "/flash/upload"
                <5>1. ChunkHandled(p, w, y, z, v)
                    BY <1>8, <1>10, <2>3, <2>6, <2>7, <4>1, <4>2, <4>3 DEF ChunkHandled
                <5>2. Speech(g, m, v) /\ Stage(p, v.req, v.s, Sum(g, v), Num(m, v), a)
                      /\ Keeps(p, v, g)
                    <6>1. CASE Late(y) \/ Faulty(y)
                        BY <1>1, <1>3, <3>2, <4>3, <5>1, <6>1, RefusalTells
                    <6>2. CASE ~Late(y) /\ ~Faulty(y)
                        BY <1>1, <1>3, <3>2, <4>3, <5>1, <6>2, WriteTells
                    <6> QED BY <6>1, <6>2
                <5> QED BY <2>7, <4>2, <5>2
            <4>4. CASE w.req.url # "/flash/upload"
                <5>1. Speech(g, m, v) /\ Stage(p, v.req, v.s, Sum(g, v), Num(m, v), a)
                      /\ Keeps(p, v, g)
                    BY <1>1, <1>3, <1>8, <1>10, <2>3, <2>6, <2>7, <3>2, <4>1, <4>2, <4>4, WholeTells
                <5> QED BY <2>7, <4>2, <5>1
            <4> QED BY <4>3, <4>4
        <3> QED BY <3>1, <3>2
    <2> QED BY <1>2, <2>8 DEF Telling, v
<1> QED BY <1>9, <1>10
-----------------------------------------------------------------------------
\* Any unit of a request.
LEMMA UnitTells ==
    ASSUME NEW p \in Clients, NEW w, NEW k \in Nat, NEW g, NEW m, NEW a,
           Telling(p, w, k, g, m, a), k < RequestLen(w.req), userbin \in Userbins
    PROVE  Telling(p, RecvUnit(p, w, k), k + 1, g, m, a)
<1>1. w.s.post.len \in Int /\ w.s.post.len >= -1 /\ Standing(w, k)
    BY SectorAssumption DEF Telling, Standing, Shape, SlotOK, Post
<1>2. CASE w.s.post.len = -1
    <2>1. w.s.post.len < 0
        BY <1>2
    <2>2. RecvUnit(p, w, k) = HeadUnit(w, k = w.req.headUnits - 1)
        BY <2>1, Zenon DEF RecvUnit
    <2> QED BY <1>2, <2>2, HeadTells
<1>3. CASE w.s.post.len > 0
    <2>1. RecvUnit(p, w, k) = BodyUnit(w, Content(p, w.req, k - w.req.headUnits))
        BY <1>1, <1>3 DEF RecvUnit
    <2> QED BY <1>3, <2>1, BodyTells
<1>4. CASE w.s.post.len = 0
    <2>1. RecvUnit(p, w, k) = w
        BY <1>4 DEF RecvUnit
    <2>2. Standing(w, k + 1)
        BY <1>1, <2>1, UnitKeeps
    <2> QED BY <2>1, <2>2 DEF Telling
<1> QED BY <1>1, <1>2, <1>3, <1>4

\* The loop over the units that arrived together.
LEMMA LoopTells ==
    ASSUME NEW p \in Clients, NEW base \in Nat, NEW n \in Nat, NEW rcv, NEW g, NEW m, NEW a,
           userbin \in Userbins,
           Telling(p, rcv[0], base, g, m, a),
           base + n <= RequestLen(rcv[0].req),
           \A k \in 1 .. n : rcv[k] = RecvUnit(p, rcv[k - 1], base + k - 1)
    PROVE  Telling(p, rcv[n], base + n, g, m, a) /\ rcv[n].req = rcv[0].req
<1> DEFINE Good(k) == Telling(p, rcv[k], base + k, g, m, a) /\ rcv[k].req = rcv[0].req
           Bad == {k \in 0 .. n : ~Good(k)}
<1>1. Bad = {}
    <2> SUFFICES ASSUME Bad # {} PROVE FALSE
        OBVIOUS
    <2>1. Bad \subseteq Nat
        OBVIOUS
    <2>2. PICK k \in Bad : k = 0 \/ (k - 1 \in Nat /\ k - 1 \notin Bad)
        BY <2>1, LeastNat
    <2>3. Good(0)
        BY base + 0 = base
    <2>4. CASE k # 0
        <3>1. k - 1 \in 0 .. n /\ k \in 1 .. n /\ Good(k - 1)
            BY <2>2, <2>4
        <3>2. RequestLen(rcv[0].req) \in Int
            <4>1. rcv[0].req.headUnits \in Int /\ rcv[0].req.contentLength \in Int
                BY SectorAssumption DEF Telling, Standing, ReqOK
            <4> QED BY <4>1, MaxIs DEF RequestLen
        <3>3. base + (k - 1) \in Nat /\ base + (k - 1) < RequestLen(rcv[k - 1].req)
              /\ base + k = (base + (k - 1)) + 1 /\ base + k - 1 = base + (k - 1)
            BY <3>1, <3>2
        <3>4. rcv[k] = RecvUnit(p, rcv[k - 1], base + (k - 1))
            BY <3>1, <3>3
        <3>5. Telling(p, rcv[k], base + k, g, m, a)
            BY <3>1, <3>3, <3>4, UnitTells
        <3>6. rcv[k].req = rcv[k - 1].req
            <4> DEFINE x == rcv[k - 1]
                       j == base + (k - 1)
            <4>1. Standing(x, j) /\ j \in Nat /\ j < RequestLen(x.req)
                BY <3>1, <3>3 DEF Telling
            <4> HIDE DEF x, j
            <4>2. Advanced(x, RecvUnit(p, x, j))
                BY <4>1, UnitKeeps
            <4>3. RecvUnit(p, x, j).req = x.req
                BY <4>2 DEF Advanced
            <4> QED BY <3>4, <4>3 DEF x, j
        <3> QED BY <2>2, <3>1, <3>5, <3>6
    <2> QED BY <2>2, <2>3, <2>4
<1> QED BY <1>1

\* The world a callback begins with: nothing was said yet.
LEMMA WorldTells ==
    ASSUME AnswerInv, NEW p \in Clients, link[p] = "open", NEW i \in Find(p), NEW garbage,
           NEW fault \in Faults, NEW g, NEW m,
           Stands(p, client[p], slot[i], g, m, acked[p], flash[Other]),
           ~CalledAgain(client[p].req)
    PROVE  Telling(p, World(i, p, garbage, fault), arrived[p], g, m, acked[p])
<1> DEFINE w == World(i, p, garbage, fault)
<1>1. Standing(w, arrived[p]) /\ w.req = client[p].req /\ w.s = slot[i] /\ w.flash = flash
    BY WorldStands DEF AnswerInv
<1>2. w.buff = <<>> /\ w.sent = <<>> /\ w.packets = 0
    BY DEF World
<1>3. Stage(p, client[p].req, slot[i], g, m, acked[p])
    BY DEF Stands, Ledger
<1>4. g \in Seq(Parts) /\ m \in Nat
    BY <1>3 DEF Stage
<1> HIDE DEF w
<1>5. Speech(g, m, w)
    BY <1>2, <1>4, Joined DEF Speech
<1>6. Sum(g, w) = g /\ Num(m, w) = m
    BY <1>2, <1>4, Joined DEF Sum, Num
<1>7. Keeps(p, w, g)
    BY <1>1, <1>6 DEF Keeps, Stands
<1> QED BY <1>1, <1>2, <1>3, <1>5, <1>6, <1>7 DEF Telling, w
-----------------------------------------------------------------------------
\* Nothing was told in no packets.
LEMMA NothingTold ==
    ASSUME NEW p, NEW req, NEW s, NEW told, NEW a, Stage(p, req, s, told, 0, a)
    PROVE  told = <<>>
<1>1. CASE Asked(s.post) /\ s.url # NULL
    <2>1. a \in Nat
        BY DEF Stage
    <2>2. ~Refused(req, s, told, 0) /\ ~Reading(req, s, told, 0, a) /\ ~Answered(req, s, told, 0)
        BY <2>1 DEF Refused, Reading, Answered
    <2>3. Uploading(req, s, told, 0)
        BY <1>1, <2>2 DEF Stage
    <2> QED BY <2>3 DEF Uploading
<1> QED BY <1>1 DEF Stage

\* What espconn_sent takes is told, and what it refuses is the last: the handler
\* is not called again.
LEMMA LedgerNext ==
    ASSUME NEW p, NEW c, NEW s, NEW g, NEW m, NEW a, Ledger(p, c, s, g, m, a),
           DOMAIN c = ClientFields, c.packets \in Nat,
           NEW b, NEW w, Speech(g, m, w), Stage(p, c.req, w.s, Sum(g, w), Num(m, w), b),
           b <= c.packets, c.lost => b = a, NEW delivered, ~delivered => w.packets > 0
    PROVE  Ledger(p, Received(c, w, delivered), w.s, Sum(g, w), Num(m, w), b)
<1> DEFINE d == Received(c, w, delivered)
<1>1. /\ m \in Nat /\ a \in Nat /\ b \in Nat /\ w.packets \in Nat /\ Num(m, w) = m + w.packets
      /\ b <= m + w.packets /\ m + w.packets <= b + 1
    BY DEF Ledger, Stage, Speech, Num
<1>2. CASE ~delivered
    <2>1. d = [c EXCEPT !.lost = TRUE] /\ w.packets > 0
        BY <1>2 DEF Received
    <2>2. d.req = c.req /\ d.packets = c.packets /\ d.got = c.got /\ d.lost
        BY <2>1 DEF ClientFields
    <2>3. ~c.lost
        <3> SUFFICES ASSUME c.lost PROVE FALSE
            OBVIOUS
        <3>1. m = c.packets + 1 /\ a = c.packets /\ b = a
            BY DEF Ledger
        <3> QED BY <1>1, <2>1, <3>1
    <2>4. g = c.got /\ m = c.packets
        BY <2>3 DEF Ledger
    <2>5. Num(m, w) = c.packets + 1 /\ b = c.packets
        BY <1>1, <2>1, <2>4
    <2>6. Num(m, w) = 1 => c.got = <<>>
        <3> SUFFICES ASSUME Num(m, w) = 1 PROVE c.got = <<>>
            OBVIOUS
        <3>1. m = 0
            BY <2>4, <2>5
        <3> QED BY <2>4, <3>1, NothingTold DEF Ledger
    <2> HIDE DEF d
    <2>7. Ledger(p, d, w.s, Sum(g, w), Num(m, w), b)
        BY <2>2, <2>5, <2>6 DEF Ledger
    <2> QED BY <2>7 DEF d
<1>3. CASE delivered
    <2>1. d = [c EXCEPT !.got = @ \o w.sent, !.packets = @ + w.packets]
        BY <1>3 DEF Received
    <2>2. d.req = c.req /\ d.packets = c.packets + w.packets /\ d.got = c.got \o w.sent
          /\ d.lost = c.lost
        BY <2>1 DEF ClientFields
    <2> HIDE DEF d
    <2>3. CASE ~c.lost
        <3>1. g = c.got /\ m = c.packets
            BY <2>3 DEF Ledger
        <3>2. Sum(g, w) = d.got /\ Num(m, w) = d.packets
            BY <1>1, <2>2, <3>1 DEF Sum
        <3>3. Ledger(p, d, w.s, Sum(g, w), Num(m, w), b)
            BY <2>2, <2>3, <3>2 DEF Ledger
        <3> QED BY <3>3 DEF d
    <2>4. CASE c.lost
        <3>1. m = c.packets + 1 /\ a = c.packets /\ b = a /\ (m = 1 => c.got = <<>>)
            BY <2>4 DEF Ledger
        <3>2. w.packets = 0 /\ Num(m, w) = m
            BY <1>1, <3>1
        <3>3. d.packets = c.packets
            BY <2>2, <3>2
        <3>4. c.got = <<>> => d.got = <<>>
            <4>1. w.sent = <<>>
                BY <3>2 DEF Speech
            <4> QED BY <2>2, <4>1
        <3>5. Ledger(p, d, w.s, Sum(g, w), Num(m, w), b)
            BY <2>2, <2>4, <3>1, <3>2, <3>3, <3>4 DEF Ledger
        <3> QED BY <3>5 DEF d
    <2> QED BY <2>3, <2>4
<1> QED BY <1>2, <1>3

\* What holds of each slot and each client.
AllTell == (\A j \in Slots : Tells(j)) /\ (\A q \in Clients : Ends(q))

\* A slot, and a client, nothing happens to.
LEMMA SlotRests ==
    ASSUME NEW j \in Slots, Tells(j), UNCHANGED <<conn[j], slot[j], userbin>>,
           conn[j] # NULL => /\ client'[conn[j]] = client[conn[j]]
                             /\ acked'[conn[j]] = acked[conn[j]]
                             /\ conn[j] \in alone' => conn[j] \in alone /\ flash' = flash
    PROVE  Tells(j)'
<1>1. CASE conn[j] = NULL \/ CalledAgain(client[conn[j]].req)
    BY <1>1 DEF Tells
<1>2. CASE conn[j] # NULL /\ ~CalledAgain(client[conn[j]].req)
    <2>1. PICK q : q = conn[j]
        OBVIOUS
    <2>2. PICK told, n : Stands(q, client[q], slot[j], told, n, acked[q], flash[Other])
        BY <1>2, <2>1 DEF Tells
    <2>3. Other' = Other
        BY DEF Other
    <2>4. Stands(q, client[q], slot[j], told, n, acked[q], flash[Other])'
        BY <1>2, <2>1, <2>2, <2>3 DEF Stands
    <2> QED BY <2>1, <2>4 DEF Tells
<1> QED BY <1>1, <1>2

LEMMA ClientRests ==
    ASSUME NEW q \in Clients, Ends(q), UNCHANGED <<client[q], acked[q], link[q]>>,
           q \in alone' => q \in alone
    PROVE  Ends(q)'
BY DEF Ends

\* What a callback leaves behind, and whom it leaves alone.
LEMMA FinishIs ==
    ASSUME AnswerInv, NEW p \in Clients, link[p] = "open", NEW i \in Find(p),
           NEW w, NEW delivered, Finish(i, p, w, delivered)
    PROVE  /\ i \in Slots /\ conn[i] = p /\ p # NULL /\ \A j \in Slots : conn[j] = p => j = i
           /\ WebTypes /\ PoolInv /\ ClientFine(p) /\ conn' = conn /\ UNCHANGED <<link, userbin>>
           /\ slot' = [slot EXCEPT ![i] = w.s] /\ flash' = w.flash /\ (~delivered => w.packets > 0)
           /\ alone' = (IF w.struck THEN {} ELSE IF w.flash = flash THEN alone ELSE alone \cap {p})
           /\ client'[p] = Received(client[p], w, delivered) /\ client'[p].req = client[p].req
           /\ \A q \in Clients \ {p} : client'[q] = client[q]
<1>1. /\ i \in Slots /\ conn[i] = p /\ p # NULL /\ \A j \in Slots : conn[j] = p => j = i
    BY OwnSlot DEF AnswerInv
<1>2. WebTypes /\ PoolInv /\ ClientFine(p)
    BY DEF AnswerInv, WebInv, Fine
<1>3. conn' = conn /\ UNCHANGED <<link, userbin>>
    BY <1>1, <1>2, SameOwner DEF Finish
<1>4. /\ slot' = [slot EXCEPT ![i] = w.s] /\ flash' = w.flash /\ (~delivered => w.packets > 0)
      /\ alone' = (IF w.struck THEN {} ELSE IF w.flash = flash THEN alone ELSE alone \cap {p})
      /\ client' = [client EXCEPT ![p] = Received(@, w, delivered)]
    BY DEF Finish
<1>5. /\ client'[p] = Received(client[p], w, delivered)
      /\ \A q \in Clients \ {p} : client'[q] = client[q]
    BY <1>2, <1>4 DEF WebTypes
<1>6. client'[p].req = client[p].req
    <2> DEFINE c == client[p]
    <2>1. DOMAIN c = ClientFields
        BY <1>2 DEF ClientFine
    <2> HIDE DEF c
    <2>2. Received(c, w, delivered).req = c.req
        BY <2>1 DEF Received, ClientFields
    <2> QED BY <1>5, <2>2 DEF c
<1> QED BY <1>1, <1>2, <1>3, <1>4, <1>5, <1>6

\* The slot and the client of a callback are all that it could change.
LEMMA OthersTell ==
    ASSUME AnswerInv, NEW p \in Clients, link[p] = "open", NEW i \in Find(p),
           NEW w, NEW delivered, Finish(i, p, w, delivered),
           \A q \in Clients \ {p} : acked'[q] = acked[q], Tells(i)'
    PROVE  AllTell'
<1>1. /\ i \in Slots /\ conn[i] = p /\ p # NULL /\ \A j \in Slots : conn[j] = p => j = i
      /\ WebTypes /\ PoolInv /\ conn' = conn /\ UNCHANGED <<link, userbin>>
      /\ slot' = [slot EXCEPT ![i] = w.s] /\ flash' = w.flash
      /\ alone' = (IF w.struck THEN {} ELSE IF w.flash = flash THEN alone ELSE alone \cap {p})
      /\ \A q \in Clients \ {p} : client'[q] = client[q]
    BY FinishIs
<1>2. alone' \subseteq alone /\ \A q \in alone' \ {p} : flash' = flash
    BY <1>1
<1>3. ASSUME NEW j \in Slots PROVE Tells(j)'
    <2>1. CASE j # i
        <3>1. slot'[j] = slot[j] /\ conn'[j] = conn[j] /\ Tells(j)
            BY <1>1, <2>1 DEF WebTypes, AnswerInv
        <3>2. CASE conn[j] = NULL
            BY <3>1, <3>2 DEF Tells
        <3>3. CASE conn[j] # NULL
            <4>1. PICK q : q = conn[j]
                OBVIOUS
            <4>2. q \in Clients \ {p}
                BY <1>1, <2>1, <3>3, <4>1 DEF PoolInv, PoolTypes
            <4>3. client'[q] = client[q] /\ acked'[q] = acked[q]
                BY <1>1, <4>2
            <4>4. q \in alone' => q \in alone /\ flash' = flash
                BY <1>2, <4>2
            <4> QED BY <1>1, <3>1, <4>1, <4>3, <4>4, SlotRests
        <3> QED BY <3>2, <3>3
    <2> QED BY <2>1
<1>4. ASSUME NEW q \in Clients PROVE Ends(q)'
    <2>1. Ends(q)
        BY DEF AnswerInv
    <2>2. CASE q = p
        BY <1>1, <2>2 DEF Ends
    <2>3. CASE q # p
        <3>1. client'[q] = client[q] /\ acked'[q] = acked[q] /\ link'[q] = link[q]
            BY <1>1, <2>3
        <3> QED BY <1>2, <2>1, <3>1, ClientRests
    <2> QED BY <2>2, <2>3
<1> QED BY <1>3, <1>4 DEF AllTell

\* A callback that ends with such a world keeps the invariant.
LEMMA FinishTells ==
    ASSUME AnswerInv, NEW p \in Clients, link[p] = "open", NEW i \in Find(p), NEW g, NEW m,
           Stands(p, client[p], slot[i], g, m, acked[p], flash[Other]),
           NEW w, NEW delivered, Finish(i, p, w, delivered), Speech(g, m, w),
           Stage(p, w.req, w.s, Sum(g, w), Num(m, w), acked'[p]),
           w.req = client[p].req, Keeps(p, w, g),
           acked'[p] <= client[p].packets, client[p].lost => acked'[p] = acked[p],
           \A q \in Clients \ {p} : acked'[q] = acked[q]
    PROVE  AllTell'
<1>1. /\ i \in Slots /\ conn[i] = p /\ WebTypes /\ ClientFine(p) /\ conn' = conn
      /\ slot' = [slot EXCEPT ![i] = w.s] /\ flash' = w.flash /\ (~delivered => w.packets > 0)
      /\ alone' = (IF w.struck THEN {} ELSE IF w.flash = flash THEN alone ELSE alone \cap {p})
      /\ client'[p] = Received(client[p], w, delivered) /\ client'[p].req = client[p].req
      /\ userbin' = userbin
    BY FinishIs
<1>2. Ledger(p, client'[p], w.s, Sum(g, w), Num(m, w), acked'[p])
    <2> DEFINE c == client[p]
               b == acked'[p]
    <2>1. DOMAIN c = ClientFields /\ c.packets \in Nat /\ Ledger(p, c, slot[i], g, m, acked[p])
          /\ Stage(p, c.req, w.s, Sum(g, w), Num(m, w), b) /\ b <= c.packets
          /\ (c.lost => b = acked[p]) /\ (~delivered => w.packets > 0)
        BY <1>1 DEF ClientFine, Stands
    <2> HIDE DEF c, b
    <2>2. Ledger(p, Received(c, w, delivered), w.s, Sum(g, w), Num(m, w), b)
        BY <2>1, LedgerNext
    <2> QED BY <1>1, <2>2 DEF c, b
<1>3. p \in alone' => Stored(p, client'[p].req, w.s, Sum(g, w), flash'[Other'])
    <2>1. Other' = Other
        BY <1>1 DEF Other
    <2> QED BY <1>1, <2>1 DEF Keeps
<1>4. slot'[i] = w.s /\ conn'[i] = p
    BY <1>1 DEF WebTypes
<1>5. Stands(p, client[p], slot[i], Sum(g, w), Num(m, w), acked[p], flash[Other])'
    BY <1>2, <1>3, <1>4 DEF Stands
<1>6. Tells(i)'
    BY <1>4, <1>5 DEF Tells
<1> QED BY <1>6, OthersTell

\* Nothing is said of a request whose handler is called again.
LEMMA AgainTells ==
    ASSUME AnswerInv, NEW p \in Clients, link[p] = "open", NEW i \in Find(p),
           CalledAgain(client[p].req), NEW w, NEW delivered, Finish(i, p, w, delivered),
           \A q \in Clients \ {p} : acked'[q] = acked[q]
    PROVE  AllTell'
<1>1. conn[i] = p /\ conn' = conn /\ client'[p].req = client[p].req
    BY FinishIs
<1>2. Tells(i)'
    BY <1>1 DEF Tells
<1> QED BY <1>2, OthersTell
-----------------------------------------------------------------------------
\* How the slot of a connection stands, when its callback begins.
LEMMA OwnTells ==
    ASSUME AnswerInv, NEW p \in Clients, link[p] = "open", NEW i \in Find(p),
           ~CalledAgain(client[p].req)
    PROVE  \E g, m : Stands(p, client[p], slot[i], g, m, acked[p], flash[Other])
<1>1. i \in Slots /\ conn[i] = p /\ p # NULL
    BY OwnSlot DEF AnswerInv
<1>2. Tells(i)
    BY <1>1 DEF AnswerInv
<1> QED BY <1>1, <1>2 DEF Tells

LEMMA RecvTells ==
    ASSUME AnswerInv, NEW p \in Clients, NEW n \in Nat, NEW garbage,
           NEW fault \in Faults, NEW delivered, httpdRecvCb(p, n, garbage, fault, delivered)
    PROVE  AllTell'
<1>1. /\ link[p] = "open" /\ arrived[p] + n <= RequestLen(client[p].req) /\ acked' = acked
      /\ WebTypes /\ ClientFine(p)
    BY DEF httpdRecvCb, AnswerInv, WebInv, Fine
<1>2. PICK i, rcv :
        /\ i \in Find(p)
        /\ rcv[0] = World(i, p, garbage, fault)
        /\ \A k \in 1 .. n : rcv[k] = RecvUnit(p, rcv[k - 1], arrived[p] + k - 1)
        /\ Finish(i, p, rcv[n], delivered)
    <2>1. ReceivesBy(p, n, garbage, fault, delivered)
        BY RecvIs
    <2> QED BY <2>1 DEF ReceivesBy
<1>12. \A q \in Clients \ {p} : acked'[q] = acked[q]
    BY <1>1
<1>13. CASE CalledAgain(client[p].req)
    BY <1>1, <1>2, <1>12, <1>13, AgainTells
<1>14. CASE ~CalledAgain(client[p].req)
    <2>3. PICK g, m : Stands(p, client[p], slot[i], g, m, acked[p], flash[Other])
        BY <1>1, <1>2, <1>14, OwnTells
    <2>4. Telling(p, rcv[0], arrived[p], g, m, acked[p])
        BY <1>1, <1>2, <1>14, <2>3, WorldTells
    <2>5. rcv[0].req = client[p].req
        BY <1>2 DEF World
    <2>6. PICK base : base = arrived[p]
        OBVIOUS
    <2>7. base \in Nat /\ userbin \in Userbins /\ base + n <= RequestLen(rcv[0].req)
          /\ \A k \in 1 .. n : rcv[k] = RecvUnit(p, rcv[k - 1], base + k - 1)
        BY <1>1, <1>2, <2>5, <2>6 DEF WebTypes
    <2>8. Telling(p, rcv[n], base + n, g, m, acked[p]) /\ rcv[n].req = rcv[0].req
        BY <2>4, <2>6, <2>7, LoopTells
    <2>9. PICK w : w = rcv[n]
        OBVIOUS
    <2>10. /\ Speech(g, m, w) /\ Stage(p, w.req, w.s, Sum(g, w), Num(m, w), acked'[p])
           /\ Keeps(p, w, g) /\ w.req = client[p].req /\ Finish(i, p, w, delivered)
        BY <1>1, <1>2, <2>5, <2>8, <2>9 DEF Telling
    <2>11. /\ acked'[p] <= client[p].packets /\ acked'[p] = acked[p]
           /\ \A q \in Clients \ {p} : acked'[q] = acked[q]
        BY <1>1 DEF ClientFine
    <2> QED BY <1>1, <1>2, <2>3, <2>10, <2>11, FinishTells
<1> QED BY <1>13, <1>14
-----------------------------------------------------------------------------
\* The next chunk of a file, from the sent callback: x is the world after it.
LEMMA GoesOnIs ==
    ASSUME NEW p, NEW w, NEW k, NEW g, NEW m, NEW a, Telling(p, w, k, g, m, a),
           w.s.cgi # NoHandler, Num(m, w) = a + 1
    PROVE  /\ Reading(w.req, w.s, Sum(g, w), Num(m, w), a) /\ Called(p, w.req, w.s)
           /\ Shape(w) /\ a \in Nat /\ BodyIn(w.s.post) /\ CallCgi(w) = ReadFile(w)
<1>1. Stage(p, w.req, w.s, Sum(g, w), Num(m, w), a) /\ Standing(w, k)
    BY DEF Telling
<1>2. a \in Nat /\ Asked(w.s.post) /\ w.s.url # NULL
    BY <1>1 DEF Stage
<1>3. ~Uploading(w.req, w.s, Sum(g, w), Num(m, w))
    BY <1>2 DEF Uploading
<1>4. Reading(w.req, w.s, Sum(g, w), Num(m, w), a)
    BY <1>1, <1>2, <1>3 DEF Stage, Refused, Answered
<1>5. w.s.post.len # -1
    BY <1>2 DEF Asked
<1>6. Called(p, w.req, w.s)
    BY <1>1, <1>2, <1>5 DEF Called, Stage
<1>7. w.s.cgi = "cgiEspFsHook" /\ w.s.cgiData.name \in DOMAIN FileLen
    BY <1>4 DEF Reading
<1>8. BodyIn(w.s.post)
    <2> SUFFICES ASSUME w.s.post.len > 0 PROVE w.s.post.received = w.s.post.len
        BY DEF BodyIn
    <2>1. AtBody(w.s, w.req, k)
        BY <1>1 DEF Standing, Progress
    <2>2. PICK b : b = w.s.post
        OBVIOUS
    <2>3. b.received \in 0 .. b.len /\ ~(b.received < b.len)
        BY <1>7, <2>1, <2>2 DEF AtBody, NoHandler, Telling
    <2>4. b.len \in Int
        BY <1>1, <2>2, SectorAssumption DEF Standing, Shape, SlotOK, Post
    <2> QED BY <2>2, <2>3, <2>4
<1>9. CallCgi(w) = ReadFile(w)
    <2>1. w.s.cgiData # NoFile
        <3>1. NoFile.name = NULL
            BY DEF NoFile
        <3> QED BY <1>7, <3>1, RequestsAssumption
    <2>2. ~w.aborted
        BY <1>1 DEF Standing
    <2>3. CallCgi(w) = cgiEspFsHook(w)
        BY <1>7 DEF CallCgi
    <2> QED BY <2>1, <2>2, <2>3 DEF cgiEspFsHook
<1>10. Shape(w)
    BY <1>1 DEF Standing
<1> QED BY <1>2, <1>4, <1>6, <1>8, <1>9, <1>10

\* What the sent callback does with what the handler returned.
WentOn(v) == IF v.r = "MORE" THEN xmitSendBuff(v) ELSE [xmitSendBuff(v) EXCEPT !.s.cgi = NoHandler]

LEMMA GoneOnIs ==
    ASSUME NEW w, NEW v, Shape(v), v.buff = <<>>, v.req = w.req, NEW x, x = WentOn(v)
    PROVE  /\ x.req = w.req /\ Silent(v, x)
           /\ x.s = IF v.r = "MORE" THEN v.s ELSE [v.s EXCEPT !.cgi = NoHandler]
<1>1. PICK y : y = xmitSendBuff(v)
    OBVIOUS
<1>2. Shape(y) /\ y.s = v.s /\ Silent(v, y) /\ y.req = v.req
    <2>1. Kept(v, y) /\ y.s = v.s
        BY <1>1, XmitKeeps
    <2>2. Utters(v, y, <<>>) /\ Beside(v, y)
        BY <1>1, XmitIs
    <2> QED BY <2>1, <2>2 DEF Kept, Utters, Beside
<1>3. CASE v.r = "MORE"
    BY <1>1, <1>2, <1>3 DEF WentOn
<1>4. CASE v.r # "MORE"
    <2>1. x = [y EXCEPT !.s.cgi = NoHandler]
        BY <1>1, <1>4 DEF WentOn
    <2>2. /\ x.req = y.req /\ x.sent = y.sent /\ x.packets = y.packets
          /\ x.s = [y.s EXCEPT !.cgi = NoHandler]
        BY <1>2, <2>1 DEF Shape, WorldFields
    <2> QED BY <1>2, <1>4, <2>2 DEF Silent
<1> QED BY <1>3, <1>4
-----------------------------------------------------------------------------
\* A chunk that was read: what was told, and what is left of the file.
LEMMA ReadOn ==
    ASSUME NEW w, NEW v, NEW len \in Nat, Reads(w, v, len), NEW g, NEW m, Speech(g, m, w),
           w.s.cgiData.pos \in Nat, Sum(g, w) = Given(w.s.cgiData.pos)
    PROVE  /\ Speech(g, m, v) /\ Sum(g, v) = Given(w.s.cgiData.pos + len)
           /\ Num(m, v) = Num(m, w) + (IF len > 0 THEN 1 ELSE 0)
           /\ Sum(g, v) \in Seq(Parts)
<1>1. PICK f : f = w.s.cgiData
    OBVIOUS
<1>2. f.pos \in Nat /\ f.pos + len \in Nat
    BY <1>1
<1>3. Given(f.pos + len) \in Seq(Parts)
    BY <1>2, GivenIs
<1>4. CASE len > 0
    <2>1. Says(w, v, Chunk(f, len)) /\ Chunk(f, len) \in Seq(Parts)
        BY <1>1, <1>2, <1>4, ChunkJoins DEF Reads
    <2>2. Speech(g, m, v) /\ Sum(g, v) = Sum(g, w) \o Chunk(f, len) /\ Num(m, v) = Num(m, w) + 1
        BY <2>1, SaysIs
    <2>3. Sum(g, v) = Given(f.pos + len)
        <3>1. Given(f.pos) \o Chunk(f, len) = Given(f.pos + len)
            BY <1>2, GivenOn
        <3> QED BY <1>1, <2>2, <3>1, Zenon
    <2> QED BY <1>1, <1>3, <1>4, <2>2, <2>3
<1>5. CASE len = 0
    <2>1. Silent(w, v)
        BY <1>5 DEF Reads
    <2>2. Speech(g, m, v) /\ Sum(g, v) = Sum(g, w) /\ Num(m, v) = Num(m, w)
        BY <2>1, SilentIs
    <2>3. Sum(g, v) = Given(f.pos + len)
        BY <1>1, <1>2, <1>5, <2>2
    <2>4. Num(m, w) \in Nat
        BY DEF Speech, Num
    <2> QED BY <1>1, <1>3, <1>5, <2>2, <2>3, <2>4
<1> QED BY <1>4, <1>5

\* The sent callback of a packet that was not the last.
LEMMA GoOnTells ==
    ASSUME NEW p, NEW w, NEW k, NEW g, NEW m, NEW a, Telling(p, w, k, g, m, a),
           w.s.cgi # NoHandler, Num(m, w) = a + 1, userbin \in Userbins,
           NEW v, NEW x, v = CallCgi(w), x = WentOn(v)
    PROVE  /\ Speech(g, m, x) /\ Stage(p, x.req, x.s, Sum(g, x), Num(m, x), a + 1)
           /\ Keeps(p, x, g) /\ x.req = w.req
<1>1. /\ Reading(w.req, w.s, Sum(g, w), Num(m, w), a) /\ Called(p, w.req, w.s)
      /\ Shape(w) /\ a \in Nat /\ BodyIn(w.s.post) /\ v = ReadFile(w)
    BY GoesOnIs
<1>2. Speech(g, m, w) /\ w.buff = <<>> /\ Standing(w, k)
    BY DEF Telling
<1>3. PICK f : f = w.s.cgiData
    OBVIOUS
<1>4. /\ w.req.url \in DOMAIN FileLen \ {"/", "/flash/upload", "/flash/reboot"}
      /\ f.name = w.req.url /\ f.pos \in 0 .. FileLen[f.name] /\ Sum(g, w) = Given(f.pos)
      /\ w.s.cgi = "cgiEspFsHook"
    BY <1>1, <1>3 DEF Reading, Given
<1>5. PICK len \in Nat : Reads(w, v, len)
    BY <1>1, <1>3, <1>4, ReadTells
<1>6. f.pos \in Nat /\ FileLen[f.name] \in Nat
    BY <1>4, HttpdAssumption
<1>7. /\ Speech(g, m, v) /\ Sum(g, v) = Given(f.pos + len) /\ Sum(g, v) \in Seq(Parts)
      /\ Num(m, v) = a + 1 + (IF len > 0 THEN 1 ELSE 0)
    BY <1>2, <1>3, <1>4, <1>5, <1>6, ReadOn
<1>8. Shape(v) /\ v.buff = <<>> /\ v.req = w.req
    <2>1. Kept(w, v)
        <3>1. w.s.cgiData # NoFile
            <4>1. NoFile.name = NULL
                BY DEF NoFile
            <4> QED BY <1>3, <1>4, <4>1, RequestsAssumption
        <3> QED BY <1>1, <1>4, <3>1, ReadKeeps
    <2> QED BY <1>2, <1>5, <2>1 DEF Kept, Reads, Beside
<1>9. /\ x.req = w.req /\ Silent(v, x)
      /\ x.s = IF v.r = "MORE" THEN v.s ELSE [v.s EXCEPT !.cgi = NoHandler]
    BY <1>8, GoneOnIs
<1>10. Speech(g, m, x) /\ Sum(g, x) = Sum(g, v) /\ Num(m, x) = Num(m, v)
    BY <1>7, <1>9, SilentIs
<1>11. /\ v.s = [w.s EXCEPT !.cgiData.pos = f.pos + len] /\ f.pos + len <= FileLen[f.name]
       /\ v.r \in {"DONE", "MORE"} /\ (v.r = "DONE" => f.pos + len = FileLen[f.name])
       /\ (v.r = "MORE" => len > 0)
    BY <1>3, <1>5, HttpdAssumption DEF Reads
<1>12. /\ x.s.cgi = IF v.r = "MORE" THEN w.s.cgi ELSE NoHandler
       /\ x.s.cgiData.name = f.name /\ x.s.cgiData.pos = f.pos + len
       /\ x.s.post = w.s.post /\ x.s.url = w.s.url
    <2>1. PICK s, t : s = w.s /\ t = v.s
        OBVIOUS
    <2>2. DOMAIN s = SlotFields /\ DOMAIN s.cgiData = {"name", "pos"} /\ s.cgiData = f
        BY <1>1, <1>3, <2>1 DEF Shape, SlotOK
    <2>3. t = [s EXCEPT !.cgiData.pos = f.pos + len]
        BY <1>11, <2>1
    <2>4. /\ DOMAIN t = SlotFields /\ t.cgi = s.cgi /\ t.post = s.post /\ t.url = s.url
          /\ t.cgiData.name = f.name /\ t.cgiData.pos = f.pos + len
        BY <2>2, <2>3 DEF SlotFields
    <2>5. CASE v.r = "MORE"
        BY <1>9, <2>1, <2>4, <2>5
    <2>6. CASE v.r # "MORE"
        <3>1. x.s = [t EXCEPT !.cgi = NoHandler]
            BY <1>9, <2>1, <2>6
        <3> QED BY <2>1, <2>4, <2>6, <3>1 DEF SlotFields
    <2> QED BY <2>5, <2>6
<1>13. Called(p, x.req, x.s) /\ BodyIn(x.s.post)
    BY <1>1, <1>9, <1>12 DEF Called, Parsed
<1>14. PICK told, n : told = Sum(g, x) /\ n = Num(m, x)
    OBVIOUS
<1>15. /\ told = Given(f.pos + len) /\ told \in Seq(Parts) /\ n \in Nat
       /\ n = a + 1 + (IF len > 0 THEN 1 ELSE 0) /\ a + 1 \in Nat
    BY <1>1, <1>7, <1>10, <1>14
<1>16. a + 1 <= n /\ n <= (a + 1) + 1 /\ n # 0
    BY <1>1, <1>15
<1>17. Reading(x.req, x.s, told, n, a + 1) \/ Answered(x.req, x.s, told, n)
    <2>1. CASE v.r = "MORE"
        <3>1. n = (a + 1) + 1
            BY <1>1, <1>11, <1>15, <2>1
        <3>2. f.pos + len \in 0 .. FileLen[f.name]
            BY <1>6, <1>11
        <3>3. Reading(x.req, x.s, told, n, a + 1)
            BY <1>4, <1>9, <1>12, <1>15, <2>1, <3>1, <3>2 DEF Reading, Given
        <3> QED BY <3>3
    <2>2. CASE v.r # "MORE"
        <3>1. f.pos + len = FileLen[f.name]
            BY <1>11, <2>2
        <3>2. told \in Answers(x.req)
            BY <1>4, <1>9, <1>15, <3>1, FileAnswerIs
        <3>3. Answered(x.req, x.s, told, n)
            BY <1>4, <1>9, <1>12, <1>13, <1>16, <2>2, <3>2 DEF Answered
        <3> QED BY <3>3
    <2> QED BY <2>1, <2>2
<1>18. Stage(p, x.req, x.s, told, n, a + 1)
    BY <1>13, <1>15, <1>16, <1>17, AnsweredIs
<1>19. Keeps(p, x, g)
    BY <1>4, <1>9 DEF Keeps, Stored
<1> QED BY <1>9, <1>10, <1>14, <1>18, <1>19
-----------------------------------------------------------------------------
\* The packet that is acknowledged now is the last of those that were sent.
LEMMA LastIs ==
    ASSUME NEW p, NEW c, NEW s, NEW g, NEW m, NEW a, Ledger(p, c, s, g, m, a), a < c.packets
    PROVE  /\ ~c.lost /\ g = c.got /\ m = c.packets /\ m = a + 1 /\ a \in Nat
           /\ Stage(p, c.req, s, g, m, a)
<1>1. Stage(p, c.req, s, g, m, a)
    BY DEF Ledger
<1>2. m \in Nat /\ a \in Nat /\ m <= a + 1
    BY <1>1 DEF Stage
<1>3. ~c.lost
    <2> SUFFICES ASSUME c.lost PROVE FALSE
        OBVIOUS
    <2>1. a = c.packets
        BY DEF Ledger
    <2> QED BY <1>2, <2>1
<1>4. g = c.got /\ m = c.packets
    BY <1>3 DEF Ledger
<1> QED BY <1>1, <1>2, <1>3, <1>4

\* No handler is left: the answer is complete.
LEMMA ClosingIs ==
    ASSUME NEW p, NEW c, NEW s, NEW g, NEW m, NEW a, Ledger(p, c, s, g, m, a), a < c.packets,
           s.cgi = NoHandler
    PROVE  Ledger(p, c, s, g, m, a + 1) /\ c.got \in Answers(c.req) /\ a + 1 = c.packets
<1>1. /\ ~c.lost /\ g = c.got /\ m = c.packets /\ m = a + 1 /\ a \in Nat
      /\ Stage(p, c.req, s, g, m, a)
    BY LastIs
<1>2. Asked(s.post) /\ s.url # NULL
    <2> SUFFICES ASSUME ~(Asked(s.post) /\ s.url # NULL) PROVE FALSE
        OBVIOUS
    <2>1. m = 0
        BY <1>1 DEF Stage
    <2> QED BY <1>1, <2>1
<1>3. Refused(c.req, s, g, m) \/ Answered(c.req, s, g, m)
    BY <1>1, <1>2 DEF Stage, Uploading, Reading, NoHandler
<1>4. g \in Answers(c.req)
    BY <1>3 DEF Refused, Answered
<1>5. Stage(p, c.req, s, g, m, a + 1)
    <2>1. m \in Nat /\ a + 1 \in Nat /\ a + 1 <= m /\ m <= (a + 1) + 1
        BY <1>1
    <2> QED BY <1>1, <1>2, <1>3, <2>1 DEF Stage
<1> QED BY <1>1, <1>4, <1>5 DEF Ledger

LEMMA SentTells ==
    ASSUME AnswerInv, NEW p \in Clients, NEW delivered, httpdSentCb(p, delivered)
    PROVE  AllTell'
<1>1. link[p] = "open" /\ acked[p] < client[p].packets /\ acked' = [acked EXCEPT ![p] = @ + 1]
      /\ arrived' = arrived
    BY DEF httpdSentCb
<1>2. WebTypes /\ ClientFine(p) /\ PoolInv
    BY DEF AnswerInv, WebInv, Fine
<1>3. acked'[p] = acked[p] + 1 /\ \A q \in Clients \ {p} : acked'[q] = acked[q]
    BY <1>1, <1>2 DEF WebTypes
<1>4. PICK i \in Find(p) :
        \/ /\ slot[i].cgi = NoHandler
           /\ link' = [link EXCEPT ![p] = "closing"] /\ conn' = [conn EXCEPT ![i] = p]
           /\ UNCHANGED <<remote, slot, heap, client, flash, userbin, rebooting, alone, failed>>
        \/ /\ slot[i].cgi # NoHandler
           /\ \E w : /\ w = Then(CallCgi(World(i, p, FALSE, "none")), WentOn)
                     /\ Finish(i, p, w, delivered)
    BY Zenon DEF httpdSentCb, WentOn
<1>5. /\ i \in Slots /\ conn[i] = p /\ p # NULL /\ \A j \in Slots : conn[j] = p => j = i
    BY <1>1, OwnSlot DEF AnswerInv
<1>6. CASE /\ slot[i].cgi = NoHandler
           /\ link' = [link EXCEPT ![p] = "closing"] /\ conn' = [conn EXCEPT ![i] = p]
           /\ UNCHANGED <<remote, slot, heap, client, flash, userbin, rebooting, alone, failed>>
    <2>1. conn' = conn
        BY <1>2, <1>5, <1>6, SameOwner
    <2>2. \A q \in Clients : link'[q] = IF q = p THEN "closing" ELSE link[q]
        BY <1>2, <1>6 DEF PoolInv, PoolTypes
    <2>3. (\A j \in Slots : Tells(j)) /\ (\A q \in Clients : Ends(q))
        BY DEF AnswerInv
    <2>4. ASSUME ~CalledAgain(client[p].req)
          PROVE  Tells(i)' /\ client[p].got \in Answers(client[p].req) /\ acked'[p] = client[p].packets
        <3>1. PICK g, m : Stands(p, client[p], slot[i], g, m, acked[p], flash[Other])
            BY <1>1, <2>4, OwnTells
        <3>2. PICK c, a : c = client[p] /\ a = acked[p]
            OBVIOUS
        <3>3. Ledger(p, c, slot[i], g, m, a) /\ a < c.packets
            BY <1>1, <3>1, <3>2 DEF Stands
        <3>4. Ledger(p, c, slot[i], g, m, a + 1) /\ c.got \in Answers(c.req) /\ a + 1 = c.packets
            BY <1>6, <3>3, ClosingIs
        <3>5. Other' = Other
            BY <1>6 DEF Other
        <3>6. Stands(p, client[p], slot[i], g, m, acked[p], flash[Other])'
            BY <1>3, <1>6, <3>1, <3>2, <3>4, <3>5 DEF Stands
        <3> QED BY <1>3, <1>5, <2>1, <3>2, <3>4, <3>6 DEF Tells
    <2>5. ASSUME NEW j \in Slots PROVE Tells(j)'
        <3>1. CASE j = i
            <4>1. CASE CalledAgain(client[p].req)
                BY <1>5, <1>6, <2>1, <3>1, <4>1 DEF Tells
            <4> QED BY <2>4, <3>1, <4>1
        <3>2. CASE j # i
            <4>1. conn[j] # NULL => conn[j] \in Clients \ {p}
                BY <1>2, <1>5, <3>2 DEF PoolInv, PoolTypes
            <4>2. UNCHANGED <<conn[j], slot[j], userbin>>
                BY <1>6, <2>1
            <4>3. conn[j] # NULL => /\ client'[conn[j]] = client[conn[j]]
                                    /\ acked'[conn[j]] = acked[conn[j]] /\ flash' = flash
                                    /\ (conn[j] \in alone' => conn[j] \in alone)
                BY <1>3, <1>6, <4>1
            <4> QED BY <2>3, <4>2, <4>3, SlotRests
        <3> QED BY <3>1, <3>2
    <2>6. ASSUME NEW q \in Clients PROVE Ends(q)'
        <3>1. CASE q = p
            BY <1>6, <2>2, <2>4, <3>1 DEF Ends
        <3>2. CASE q # p
            <4>1. UNCHANGED <<client[q], acked[q], link[q]>> /\ (q \in alone' => q \in alone)
                BY <1>3, <1>6, <2>2, <3>2
            <4> QED BY <2>3, <4>1, ClientRests
        <3> QED BY <3>1, <3>2
    <2> QED BY <2>5, <2>6 DEF AllTell
<1>7. CASE slot[i].cgi # NoHandler /\ \E w :
                     /\ w = Then(CallCgi(World(i, p, FALSE, "none")), WentOn)
                     /\ Finish(i, p, w, delivered)
    <2>1. PICK x : /\ x = Then(CallCgi(World(i, p, FALSE, "none")), WentOn)
                   /\ Finish(i, p, x, delivered)
        BY <1>7
    <2>2. CASE CalledAgain(client[p].req)
        BY <1>1, <1>3, <2>1, <2>2, AgainTells
    <2>3. CASE ~CalledAgain(client[p].req)
        <3>1. PICK g, m : Stands(p, client[p], slot[i], g, m, acked[p], flash[Other])
            BY <1>1, <2>3, OwnTells
        <3>2. PICK c, a : c = client[p] /\ a = acked[p]
            OBVIOUS
        <3>3. /\ ~c.lost /\ m = c.packets /\ m = a + 1 /\ a \in Nat
            BY <1>1, <3>1, <3>2, LastIs DEF Stands
        <3>4. PICK w : w = World(i, p, FALSE, "none")
            OBVIOUS
        <3>5. PICK v : v = CallCgi(w)
            OBVIOUS
        <3>6. x = WentOn(v)
            BY <2>1, <3>4, <3>5 DEF Then
        <3>7. "none" \in Faults
            BY DEF Faults
        <3>8. Telling(p, w, arrived[p], g, m, a)
            BY <1>1, <2>3, <3>1, <3>2, <3>4, <3>7, WorldTells
        <3>9. w.s.cgi # NoHandler /\ Num(m, w) = a + 1 /\ w.req = client[p].req
            BY <1>7, <3>3, <3>4 DEF World, Num
        <3>10. userbin \in Userbins
            BY <1>2 DEF WebTypes
        <3>11. /\ Speech(g, m, x) /\ Stage(p, x.req, x.s, Sum(g, x), Num(m, x), a + 1)
               /\ Keeps(p, x, g) /\ x.req = w.req
            BY <3>5, <3>6, <3>8, <3>9, <3>10, GoOnTells
        <3>12. /\ Stage(p, x.req, x.s, Sum(g, x), Num(m, x), acked'[p]) /\ x.req = client[p].req
               /\ acked'[p] <= client[p].packets /\ ~client[p].lost
            BY <1>3, <3>2, <3>3, <3>9, <3>11
        <3> QED BY <1>1, <1>3, <2>1, <3>1, <3>11, <3>12, FinishTells
    <2> QED BY <2>2, <2>3
<1> QED BY <1>4, <1>6, <1>7
-----------------------------------------------------------------------------
\* A connection that begins: nothing was told.
LEMMA FreshIs ==
    ASSUME NEW p, NEW c, NEW req, c = [Gone EXCEPT !.req = req], NEW s, s.cgi = NoHandler,
           s.post = NoPost, NEW part
    PROVE  Ledger(p, c, s, <<>>, 0, 0) /\ Stored(p, c.req, s, <<>>, part)
<1>1. c.req = req /\ c.got = <<>> /\ c.packets = 0 /\ c.lost = FALSE
    BY DEF Gone
<1>2. s.post.len = -1 /\ ~Asked(s.post)
    BY DEF NoPost, Asked
<1>3. Stage(p, c.req, s, <<>>, 0, 0)
    BY <1>2, StillUntold
<1>4. Stored(p, c.req, s, <<>>, part)
    <2>1. <<>> # <<"200">>
        OBVIOUS
    <2>2. s.cgi # "cgiUploadFirmware"
        BY DEF NoHandler
    <2> QED BY <2>1, <2>2, NothingStored
<1> QED BY <1>1, <1>3, <1>4 DEF Ledger

LEMMA ConnectTells ==
    ASSUME AnswerInv, NEW p \in Clients, NEW req \in Requests[p], httpdConnectCb(p, req)
    PROVE  AllTell'
<1>1. WebTypes /\ ClientFine(p) /\ PoolInv
    BY DEF AnswerInv, WebInv, Fine
<1>2. /\ link[p] = "closed" /\ client' = [client EXCEPT ![p] = [Gone EXCEPT !.req = req]]
      /\ UNCHANGED <<heap, arrived, acked, flash, userbin, rebooting, failed>>
    BY DEF httpdConnectCb
<1>3. /\ acked'[p] = 0 /\ client'[p] = [Gone EXCEPT !.req = req]
      /\ \A q \in Clients \ {p} : client'[q] = client[q] /\ acked'[q] = acked[q]
    BY <1>1, <1>2 DEF WebTypes, ClientFine
<1>4. \A j \in Slots : conn[j] # NULL => conn[j] \in Clients \ {p}
    BY <1>1, <1>2 DEF PoolInv, PoolTypes, SlotOwnership
<1>5. client'[p].got = <<>> /\ client'[p].packets = 0
    BY <1>3 DEF Gone
<1>6. (\A j \in Slots : Tells(j)) /\ (\A q \in Clients : Ends(q))
    BY DEF AnswerInv
<1>7. CASE link' = [link EXCEPT ![p] = "refused"] /\ UNCHANGED <<conn, remote, slot, alone>>
    <2>1. ASSUME NEW j \in Slots PROVE Tells(j)'
        <3>1. conn[j] # NULL => /\ client'[conn[j]] = client[conn[j]]
                                /\ acked'[conn[j]] = acked[conn[j]] /\ flash' = flash
            BY <1>2, <1>3, <1>4
        <3>2. UNCHANGED <<conn[j], slot[j], userbin, alone>> /\ Tells(j)
            BY <1>2, <1>6, <1>7
        <3> QED BY <3>1, <3>2, SlotRests
    <2>2. ASSUME NEW q \in Clients PROVE Ends(q)'
        <3>1. CASE q = p
            <4>1. link'[p] = "refused" /\ p \notin alone
                BY <1>1, <1>2, <1>6, <1>7 DEF PoolInv, PoolTypes, Ends
            <4> QED BY <1>5, <1>7, <3>1, <4>1 DEF Ends
        <3>2. CASE q # p
            <4>1. UNCHANGED <<client[q], acked[q], link[q], alone>> /\ Ends(q)
                BY <1>1, <1>3, <1>6, <1>7, <3>2 DEF PoolInv, PoolTypes
            <4> QED BY <4>1, ClientRests
        <3> QED BY <3>1, <3>2
    <2> QED BY <2>1, <2>2 DEF AllTell
<1>8. ASSUME NEW i \in FreeSlots, link' = [link EXCEPT ![p] = "open"],
             conn' = [conn EXCEPT ![i] = p],
             slot' = [slot EXCEPT ![i] = Prepared(@)], alone' = alone \cup {p}
      PROVE  AllTell'
    <2>1. i \in Slots /\ conn[i] = NULL
        BY DEF FreeSlots
    <2>2. ASSUME NEW j \in Slots PROVE Tells(j)'
        <3>1. CASE j # i
            <4>1. UNCHANGED <<conn[j], slot[j], userbin>> /\ Tells(j)
                BY <1>1, <1>2, <1>6, <1>8, <3>1 DEF WebTypes, PoolInv, PoolTypes
            <4>2. conn[j] # NULL => /\ client'[conn[j]] = client[conn[j]]
                                    /\ acked'[conn[j]] = acked[conn[j]] /\ flash' = flash
                                    /\ (conn[j] \in alone' => conn[j] \in alone)
                BY <1>2, <1>3, <1>4, <1>8
            <4> QED BY <4>1, <4>2, SlotRests
        <3>2. CASE j = i
            <4>1. slot'[i] = Prepared(slot[i]) /\ conn'[i] = p
                BY <1>1, <1>8, <2>1 DEF WebTypes, PoolInv, PoolTypes
            <4>2. SlotOK(slot[i]) /\ slot[i].cgi = NoHandler
                BY <2>1 DEF AnswerInv, WebInv, Fine, SlotFine
            <4>3. PICK s : s = slot'[i]
                OBVIOUS
            <4>4. s = [slot[i] EXCEPT !.headPos = 0, !.post = NoPost]
                BY <4>1, <4>3 DEF Prepared
            <4>5. s.cgi = NoHandler /\ s.post = NoPost
                BY <4>2, <4>4 DEF SlotOK, SlotFields
            <4>6. Ledger(p, client'[p], s, <<>>, 0, 0)
                  /\ Stored(p, client'[p].req, s, <<>>, flash'[Other'])
                BY <1>3, <4>5, FreshIs
            <4>7. Stands(p, client[p], slot[i], <<>>, 0, acked[p], flash[Other])'
                BY <1>3, <4>3, <4>6 DEF Stands
            <4> QED BY <3>2, <4>1, <4>7 DEF Tells
        <3> QED BY <3>1, <3>2
    <2>3. ASSUME NEW q \in Clients PROVE Ends(q)'
        <3>1. CASE q = p
            <4>1. link'[p] = "open"
                BY <1>1, <1>8 DEF PoolInv, PoolTypes
            <4> QED BY <3>1, <4>1 DEF Ends
        <3>2. CASE q # p
            <4>1. UNCHANGED <<client[q], acked[q], link[q]>> /\ Ends(q)
                BY <1>1, <1>3, <1>6, <1>8, <3>2 DEF PoolInv, PoolTypes
            <4>2. q \in alone' => q \in alone
                BY <1>8, <3>2
            <4> QED BY <4>1, <4>2, ClientRests
        <3> QED BY <3>1, <3>2
    <2> QED BY <2>2, <2>3 DEF AllTell
<1> QED BY <1>7, <1>8 DEF httpdConnectCb
-----------------------------------------------------------------------------
\* The slot is freed, and the client has no more of the connection.
LEMMA RetireTells ==
    ASSUME AnswerInv, NEW p \in Clients, httpdRetireConn(p)
    PROVE  AllTell'
<1>1. WebTypes /\ PoolInv /\ p # NULL
    BY HttpdAssumption DEF AnswerInv, WebInv, Fine
<1>2. \A j \in Slots : j \in Find(p) <=> conn[j] = p
    BY <1>1, FindIsOwner DEF PoolInv, SlotOwnership
<1>3. /\ link' = [link EXCEPT ![p] = "closed"] /\ client' = [client EXCEPT ![p] = Gone]
      /\ acked' = [acked EXCEPT ![p] = 0]
      /\ alone' = alone \ {p} /\ UNCHANGED <<flash, userbin>>
    BY DEF httpdRetireConn
<1>4. /\ \A q \in Clients \ {p} : /\ link'[q] = link[q] /\ client'[q] = client[q]
                                  /\ acked'[q] = acked[q]
      /\ link'[p] = "closed" /\ client'[p] = Gone
    BY <1>1, <1>3 DEF WebTypes, PoolInv, PoolTypes
<1>5. (\A j \in Slots : Tells(j)) /\ (\A q \in Clients : Ends(q))
    BY DEF AnswerInv
<1>6. ASSUME NEW j \in Slots PROVE Tells(j)'
    <2>1. CASE conn[j] # p
        <3>1. conn'[j] = conn[j] /\ slot'[j] = slot[j]
            BY <1>2, <2>1 DEF httpdRetireConn
        <3>2. conn[j] # NULL => conn[j] \in Clients \ {p}
            BY <1>1, <2>1 DEF PoolInv, PoolTypes
        <3>3. conn[j] # NULL => /\ client'[conn[j]] = client[conn[j]]
                                /\ acked'[conn[j]] = acked[conn[j]] /\ flash' = flash
                                /\ (conn[j] \in alone' => conn[j] \in alone)
            BY <1>3, <1>4, <3>2
        <3> QED BY <1>3, <1>5, <3>1, <3>3, SlotRests
    <2>2. CASE conn[j] = p
        <3>1. conn'[j] = NULL
            BY <1>2, <2>2 DEF httpdRetireConn
        <3> QED BY <3>1 DEF Tells
    <2> QED BY <2>1, <2>2
<1>7. ASSUME NEW q \in Clients PROVE Ends(q)'
    <2>1. CASE q = p
        BY <1>3, <1>4, <2>1 DEF Ends
    <2>2. CASE q # p
        <3>1. UNCHANGED <<client[q], acked[q], link[q]>> /\ (q \in alone' => q \in alone)
            BY <1>3, <1>4, <2>2
        <3> QED BY <1>5, <3>1, ClientRests
    <2> QED BY <2>1, <2>2
<1> QED BY <1>6, <1>7 DEF AllTell

\* The pool after a start.
LEMMA StartTells ==
    ASSUME conn = [i \in Slots |-> NULL], client = [p \in Clients |-> Gone],
           link = [p \in Clients |-> "closed"], alone = {}
    PROVE  AllTell
BY DEF AllTell, Tells, Ends

LEMMA RebootTellsNone ==
    ASSUME Reboot
    PROVE  AllTell'
BY DEF Reboot, AllTell, Tells, Ends

\* Every step keeps what is told in its order.
LEMMA AnswerStep ==
    ASSUME AnswerInv, [Next]_vars
    PROVE  AnswerInv'
<1>1. WebInv'
    BY WebStep DEF AnswerInv
<1> SUFFICES AllTell'
    BY <1>1 DEF AllTell, AnswerInv
<1>2. ASSUME NEW p \in Clients, Connect(p) PROVE AllTell'
    BY <1>2, ConnectTells DEF Connect
<1>3. ASSUME NEW p \in Clients, Recv(p) PROVE AllTell'
    <2>1. PICK n \in 1 .. RequestLen(client[p].req) - arrived[p],
               garbage \in Garbages(client[p].req), fault \in FlashFaults \cup {"none"},
               delivered \in Deliveries(p) : httpdRecvCb(p, n, garbage, fault, delivered)
        BY <1>3 DEF Recv
    <2>2. fault \in Faults /\ n \in Nat
        BY HttpdAssumption DEF Faults
    <2> QED BY <2>1, <2>2, RecvTells
<1>4. ASSUME NEW p \in Clients, Sent(p) PROVE AllTell'
    BY <1>4, SentTells DEF Sent
<1>5. ASSUME NEW p \in Clients, httpdDisconCb(p) PROVE AllTell'
    BY <1>5, RetireTells DEF httpdDisconCb
<1>6. ASSUME NEW p \in Clients, httpdReconCb(p) PROVE AllTell'
    BY <1>6, RetireTells DEF httpdReconCb
<1>7. CASE Reboot
    BY <1>7, RebootTellsNone
<1>8. CASE UNCHANGED vars
    <2>1. (\A j \in Slots : Tells(j)) /\ (\A q \in Clients : Ends(q))
        BY DEF AnswerInv
    <2>2. UNCHANGED <<conn, slot, client, acked, flash, userbin, link, alone>>
        BY <1>8 DEF vars
    <2>3. ASSUME NEW j \in Slots PROVE Tells(j)'
        BY <2>1, <2>2, SlotRests
    <2>4. ASSUME NEW q \in Clients PROVE Ends(q)'
        BY <2>1, <2>2, ClientRests
    <2> QED BY <2>3, <2>4 DEF AllTell
<1> QED BY <1>2, <1>3, <1>4, <1>5, <1>6, <1>7, <1>8 DEF Next

LEMMA AnswersHold == Spec => []AnswerInv
<1>1. Init => AnswerInv
    BY WebStart, StartTells DEF Init, AnswerInv, AllTell
<1>2. AnswerInv /\ [Next]_vars => AnswerInv'
    BY AnswerStep
<1> QED BY <1>1, <1>2, PTL DEF Spec
-----------------------------------------------------------------------------
\* The connection of a client that has one, as its slot knows it.
LEMMA ConnectedIs ==
    ASSUME AnswerInv, NEW p \in Clients, link[p] \in {"open", "closing"},
           ~CalledAgain(client[p].req)
    PROVE  \E s, told, n : Stands(p, client[p], s, told, n, acked[p], flash[Other])
<1>1. PICK i \in Slots : remote[i] = p
    BY DEF AnswerInv, WebInv, PoolInv, SlotOwnership
<1>2. conn[i] = p /\ p # NULL /\ Tells(i)
    BY <1>1, HttpdAssumption DEF AnswerInv, WebInv, PoolInv, SlotOwnership
<1> QED BY <1>2 DEF Tells

LEMMA LinkIs ==
    ASSUME AnswerInv, NEW p \in Clients
    PROVE  link[p] \in {"closed", "refused", "open", "closing"} /\ ClientFine(p) /\ Ends(p)
BY DEF AnswerInv, WebInv, Fine, PoolInv, PoolTypes, LinkStates

LEMMA AnswersOneAtATime == AnswerInv => OneSendAtATime
<1> SUFFICES ASSUME AnswerInv, NEW p \in Clients, Plain(p) PROVE client[p].packets - acked[p] <= 1
    BY DEF OneSendAtATime
<1>1. link[p] \in {"closed", "refused", "open", "closing"} /\ ClientFine(p) /\ Ends(p)
    BY LinkIs
<1>2. acked[p] \in Nat /\ client[p].packets \in Nat
    BY <1>1 DEF ClientFine, AnswerInv, WebInv, Fine, WebTypes
<1>3. CASE link[p] \in {"closed", "refused"}
    <2>1. client[p].packets = 0
        BY <1>1, <1>3 DEF Ends, Gone
    <2> QED BY <1>2, <2>1
<1>4. CASE link[p] \in {"open", "closing"}
    <2>1. PICK s, told, n : Ledger(p, client[p], s, told, n, acked[p])
        BY <1>4, ConnectedIs DEF Stands, Plain
    <2>2. n \in Nat /\ n <= acked[p] + 1
        BY <2>1 DEF Ledger, Stage
    <2> QED BY <1>2, <2>1, <2>2 DEF Ledger
<1> QED BY <1>1, <1>3, <1>4

LEMMA AnswersInOrder == AnswerInv => AnswerInOrder
<1> SUFFICES ASSUME AnswerInv, NEW p \in Clients
             PROVE  /\ Plain(p) /\ ~client[p].lost =>
                          \E answer \in Answers(client[p].req) : IsPrefix(client[p].got, answer)
                    /\ client[p].req # NULL /\ client[p].req.headUnits > MAX_HEAD_LEN =>
                          client[p].packets = 0
    BY DEF AnswerInOrder
<1>5. client[p].req # NULL /\ client[p].req.headUnits > MAX_HEAD_LEN => client[p].packets = 0
    BY LinkIs DEF ClientFine
<1> SUFFICES ASSUME Plain(p), ~client[p].lost
             PROVE  \E answer \in Answers(client[p].req) : IsPrefix(client[p].got, answer)
    BY <1>5
<1>1. link[p] \in {"closed", "refused", "open", "closing"} /\ Ends(p)
    BY LinkIs
<1>2. link[p] # "closed"
    BY <1>1 DEF Ends, Gone, Plain
<1>3. CASE link[p] = "refused"
    <2>1. client[p].got = <<>>
        BY <1>1, <1>3 DEF Ends
    <2> QED BY <2>1, NonePrefix
<1>4. CASE link[p] \in {"open", "closing"}
    <2>1. PICK s, told, n : Ledger(p, client[p], s, told, n, acked[p])
        BY <1>4, ConnectedIs DEF Stands, Plain
    <2>2. told = client[p].got /\ Stage(p, client[p].req, s, told, n, acked[p])
        BY <2>1 DEF Ledger
    <2> QED BY <2>2, StagePrefix
<1> QED BY <1>1, <1>2, <1>3, <1>4

LEMMA AnswersComplete == AnswerInv => CompleteWhenClosed
BY DEF AnswerInv, Ends, CompleteWhenClosed, Plain

\* An upload is answered in one packet.
LEMMA OnePacket ==
    ASSUME NEW p, NEW req, NEW s, NEW told, NEW n, NEW a, Stage(p, req, s, told, n, a),
           req.url = "/flash/upload"
    PROVE  n \in {0, 1}
<1>1. ~Reading(req, s, told, n, a)
    BY DEF Reading
<1> QED BY <1>1 DEF Stage, Uploading, Refused, Answered

LEMMA AnswersStored == AnswerInv => ImageIntact
<1> SUFFICES ASSUME AnswerInv, NEW p \in alone, client[p].req.url = "/flash/upload",
                    client[p].got = <<"200">>, NEW k \in 0 .. client[p].req.contentLength - 1
             PROVE  flash[NextPartition(userbin)][k] = Content(p, client[p].req, k)
    BY DEF ImageIntact
<1>1. p \in Clients
    BY DEF AnswerInv, WebInv, Fine, WebTypes
<1>2. link[p] \in {"closed", "refused", "open", "closing"} /\ Ends(p) /\ ClientFine(p)
    BY <1>1, LinkIs
<1>3. link[p] \in {"open", "closing"}
    BY <1>2 DEF Ends
<1>4. PICK s, told, n : Stands(p, client[p], s, told, n, acked[p], flash[Other])
    BY <1>1, <1>3, ConnectedIs DEF CalledAgain
<1>5. ~client[p].lost
    <2> SUFFICES ASSUME client[p].lost PROVE FALSE
        OBVIOUS
    <2>1. Stage(p, client[p].req, s, told, n, acked[p]) /\ n = client[p].packets + 1
          /\ (n = 1 => client[p].got = <<>>)
        BY <1>4 DEF Stands, Ledger
    <2>2. n \in {0, 1} /\ client[p].packets \in Nat
        BY <1>2, <2>1, OnePacket DEF ClientFine
    <2>3. client[p].got = <<>>
        BY <2>1, <2>2
    <2>4. <<>> # <<"200">>
        OBVIOUS
    <2> QED BY <2>3, <2>4
<1>6. told = <<"200">> /\ Stored(p, client[p].req, s, told, flash[Other])
    BY <1>4, <1>5 DEF Stands, Ledger
<1>7. Begins(p, client[p].req, flash[Other], client[p].req.contentLength)
    BY <1>6 DEF Stored
<1> QED BY <1>7 DEF Begins, Other

\* espconn_sent is not called again before the sent callback of the last packet:
\* what a handler sends from httpdRecvCb is one packet for all the units that
\* arrived together, and httpdSentCb sends at most one more.
THEOREM SendsOneAtATime == Spec => []OneSendAtATime
BY AnswersHold, AnswersOneAtATime, PTL

\* What a client receives is the beginning of the answer to its own request, for
\* every cut of the request and every interleaving of the callbacks: no part
\* twice, missing, out of order or of a connection that had the slot before.
THEOREM AnswersAreInOrder == Spec => []AnswerInOrder
BY AnswersHold, AnswersInOrder, PTL

\* The server closes a connection only when all of the answer was sent and
\* acknowledged ("mark for destruction", httpd.c:306-309).
THEOREM ClosesWhenComplete == Spec => []CompleteWhenClosed
BY AnswersHold, AnswersComplete, PTL

\* An upload that was answered "200" and had the partition for itself has stored
\* every unit of the image at its place, whatever was broken off or failed before.
THEOREM ImagesAreIntact == Spec => []ImageIntact
BY AnswersHold, AnswersStored, PTL
-----------------------------------------------------------------------------
(***************************************************************************)
(* Nobody is left waiting.  That a client is served in the end (Served) is *)
(* TLC's to check.  That there is always a callback to come which will go  *)
(* on with its answer is not a matter of fairness: a head that fits is not *)
(* dropped, and a file is read in full chunks, so that the last one is not *)
(* empty.                                                                  *)
(***************************************************************************)
Chunked(s) == s.cgi = "cgiEspFsHook" => \E q \in Nat : s.cgiData.pos = READ_LEN * q
HeadAt(s, req, k) ==
    s.post.len = -1 /\ req.headUnits <= MAX_HEAD_LEN => s.headPos = k /\ k < req.headUnits
Paced(s, req, k) == ~CalledAgain(req) => Chunked(s) /\ HeadAt(s, req, k)

\* The last read of the file, if it is one, is not a full one.
Ending(req) ==
    ~CalledAgain(req) /\ (req.url \in DOMAIN FileLen => FileLen[req.url] % READ_LEN # 0)
\* A client that was sent something has a packet to acknowledge.
Awaits(p) ==
    link[p] = "open" /\ ~client[p].lost /\ client[p].packets # 0 /\ Ending(client[p].req)
        => acked[p] < client[p].packets
Unheard(p) == link[p] = "closed" => arrived[p] = 0
PaceInv ==
    /\ \A i \in Slots : conn[i] # NULL => Paced(slot[i], client[conn[i]].req, arrived[conn[i]])
    /\ \A p \in Clients : Awaits(p) /\ Unheard(p)

\* A file is opened at its start, and every other handler is no reader.
LEMMA ProcessPaces ==
    ASSUME NEW w, Shape(w), ~w.aborted, w.s.url # NULL, userbin \in Userbins, w.fault \in Faults,
           Ready(w), w.buff = <<>>, w.req.url = w.s.url
    PROVE  Chunked(httpdProcessRequest(w).s)
<1>1. PICK v : v = httpdProcessRequest(w)
    OBVIOUS
<1>2. Uploads(w, v) \/ Opens(w, v) \/ \E part : Closes(w, v, part)
    BY <1>1, ProcessTells
<1>3. 0 \in Nat /\ READ_LEN * 0 = 0
    BY HttpdAssumption
<1>4. CASE Uploads(w, v)
    BY <1>1, <1>4 DEF Uploads, Closes, Chunked, NoHandler
<1>5. CASE Opens(w, v)
    <2>1. v.s.cgiData.pos = READ_LEN * 0
        BY <1>3, <1>5 DEF Opens
    <2> QED BY <1>1, <1>3, <2>1 DEF Chunked
<1>6. CASE \E part : Closes(w, v, part)
    BY <1>1, <1>6 DEF Closes, Chunked, NoHandler
<1> QED BY <1>2, <1>4, <1>5, <1>6

\* A unit of the head.
LEMMA HeadPaces ==
    ASSUME NEW p, NEW w, NEW k \in Nat, NEW g, NEW m, NEW a, Telling(p, w, k, g, m, a),
           w.s.post.len = -1, userbin \in Userbins, Paced(w.s, w.req, k)
    PROVE  LET v == HeadUnit(w, k = w.req.headUnits - 1) IN Paced(v.s, w.req, k + 1)
<1> DEFINE fits == w.s.headPos # MAX_HEAD_LEN
           pos == IF fits THEN w.s.headPos + 1 ELSE w.s.headPos
           completes == k = w.req.headUnits - 1
           h == [w EXCEPT !.s.headPos = pos]
           v == HeadUnit(w, completes)
<1>1. /\ ~(fits /\ completes) => v = h
      /\ \A x : fits /\ completes /\ x = httpdParseHeaders(h) =>
            v = IF x.s.post.len = 0 THEN httpdProcessRequest(x) ELSE x
    BY HeadUnitIs DEF Telling
<1>0. /\ Standing(h, k + 1) /\ h.s.post.len = -1
      /\ fits /\ completes => w.req.headUnits <= MAX_HEAD_LEN
    BY HeadUnitIs DEF Telling
<1>2. /\ Standing(w, k) /\ Shape(w) /\ DOMAIN w = WorldFields /\ DOMAIN w.s = SlotFields
      /\ AtHead(w.s) /\ w.buff = <<>> /\ ReqOK(w.req) /\ w.s.cgi = NoHandler
      /\ w.s.headPos \in 0 .. MAX_HEAD_LEN
    BY DEF Telling, Standing, Shape, SlotOK, Progress, AtHead
<1>3. /\ Beside(w, h) /\ h.buff = <<>> /\ SameStage(w.s, h.s) /\ h.aborted = w.aborted
      /\ DOMAIN h = WorldFields /\ h.packets = w.packets /\ h.heap = w.heap
      /\ h.rebooting = w.rebooting /\ h.failed = w.failed
      /\ h.s.headPos = pos /\ DOMAIN h.s = SlotFields
    <2> HIDE DEF pos
    <2>1. h.s = [w.s EXCEPT !.headPos = pos]
        BY <1>2 DEF WorldFields
    <2>2. /\ Beside(w, h) /\ h.buff = <<>> /\ h.packets = w.packets
          /\ h.aborted = w.aborted /\ DOMAIN h = WorldFields /\ h.heap = w.heap
          /\ h.rebooting = w.rebooting /\ h.failed = w.failed
        BY <1>2 DEF WorldFields, Beside
    <2> HIDE DEF h
    <2>3. SameStage(w.s, h.s) /\ h.s.headPos = pos /\ DOMAIN h.s = SlotFields
        BY <1>2, <2>1 DEF SameStage, SlotFields
    <2> QED BY <2>2, <2>3
<1>4. CASE ~(fits /\ completes)
    <2>1. v = h
        BY <1>1, <1>4
    <2>2. Chunked(h.s)
        <3> HIDE DEF h
        <3> QED BY <1>2, <1>3 DEF Chunked, SameStage, NoHandler
    <2>3. ASSUME w.req.headUnits <= MAX_HEAD_LEN
          PROVE  pos = k + 1 /\ k + 1 < w.req.headUnits
        <3>1. w.s.headPos = k /\ k < w.req.headUnits /\ w.req.headUnits \in Nat
            BY <1>2, <2>3 DEF Paced, HeadAt, ReqOK, Telling
        <3>2. fits
            BY <2>3, <3>1, HttpdAssumption
        <3> QED BY <1>4, <3>1, <3>2
    <2> HIDE DEF h, v, pos
    <2>4. HeadAt(v.s, w.req, k + 1)
        BY <1>3, <2>1, <2>3 DEF HeadAt
    <2> QED BY <2>1, <2>2, <2>4 DEF Paced, v
<1>5. CASE fits /\ completes
    <2>1. Shape(h)
        BY <1>0 DEF Standing
    <2>2. PICK x : x = httpdParseHeaders(h)
        OBVIOUS
    <2>3. AtHead(h.s) /\ h.req = w.req
        BY <1>2, <1>3 DEF AtHead, SameStage, Beside
    <2>4. Standing(x, k + 1)
        <3> HIDE DEF h
        <3> QED BY <1>0, <1>5, <2>2, <2>3, ParseKeeps
    <2> HIDE DEF h
    <2>5. /\ x.buff = <<>> /\ x.s.url = UrlOf(w.req) /\ x.s.cgi = NoHandler /\ x.req = w.req
          /\ x.s.post.received = 0 /\ x.s.post.data = <<>>
          /\ x.s.post.len = Max({w.req.contentLength, 0})
        BY <1>2, <1>3, <2>1, <2>2, <2>3, ParseTells DEF ReqOK, Beside
    <2>6. x.s.post.len \in Nat
        <3>1. w.req.contentLength \in Int
            BY <1>2, SectorAssumption DEF ReqOK
        <3>2. x.s.post.len = IF w.req.contentLength >= 0 THEN w.req.contentLength ELSE 0
            BY <2>5, <3>1, MaxIs
        <3> QED BY <3>1, <3>2
    <2>7. v = IF x.s.post.len = 0 THEN httpdProcessRequest(x) ELSE x
        BY <1>1, <1>5, <2>2
    <2> HIDE DEF v
    <2>8. v.s.post.len = x.s.post.len /\ Chunked(v.s)
        <3>1. CASE x.s.post.len = 0 /\ x.s.url # NULL
            <4>1. Shape(x) /\ ~x.aborted /\ x.fault \in Faults
                BY <2>4 DEF Standing
            <4>2. Ready(x)
                <5>1. Len(x.s.post.data) = 0
                    BY <2>5
                <5> QED BY <2>5, <3>1, <5>1, HttpdAssumption DEF Ready
            <4>3. x.req.url = x.s.url
                BY <2>5, <3>1 DEF UrlOf
            <4>4. v = httpdProcessRequest(x)
                BY <2>7, <3>1
            <4>5. v.s.post = x.s.post
                BY <3>1, <4>1, <4>2, <4>4, ProcessKeeps DEF Kept, Same
            <4>6. Chunked(v.s)
                BY <2>5, <3>1, <4>1, <4>2, <4>3, <4>4, ProcessPaces
            <4> QED BY <4>5, <4>6
        <3>2. CASE ~(x.s.post.len = 0 /\ x.s.url # NULL)
            <4>1. v = x
                BY <2>7, <3>2, Zenon DEF httpdProcessRequest
            <4> QED BY <2>5, <4>1 DEF Chunked, NoHandler
        <3> QED BY <3>1, <3>2
    <2>9. v.s.post.len # -1
        BY <2>6, <2>8
    <2> QED BY <2>8, <2>9 DEF Paced, HeadAt, v
<1> QED BY <1>4, <1>5
\* A unit of the body.
LEMMA BodyPaces ==
    ASSUME NEW p \in Clients, NEW w, NEW k \in Nat, NEW g, NEW m, NEW a,
           Telling(p, w, k, g, m, a), w.s.post.len > 0, k < RequestLen(w.req),
           userbin \in Userbins, Chunked(w.s)
    PROVE  LET v == BodyUnit(w, Content(p, w.req, k - w.req.headUnits))
           IN  Paced(v.s, w.req, k + 1)
<1> DEFINE v == BodyUnit(w, Content(p, w.req, k - w.req.headUnits))
<1>1. /\ Parsed(p, w.req, w.s)
      /\ \E y, z : /\ GrownOK(p, w, y)
                   /\ IF ChunkReady(y.s.post) THEN Processed(w, y, z, v) ELSE v = y
    BY BodyIs
<1> HIDE DEF v
<1>2. PICK y, z : /\ GrownOK(p, w, y)
                  /\ IF ChunkReady(y.s.post) THEN Processed(w, y, z, v) ELSE v = y
    BY <1>1
<1>3. /\ y.s.cgi = w.s.cgi /\ y.s.cgiData = w.s.cgiData /\ y.s.url = w.s.url
      /\ y.s.post.len = w.s.post.len
    BY <1>2 DEF GrownOK, LaterBy
<1>4. w.s.post.len # -1
    BY SectorAssumption DEF Telling, Standing, Shape, SlotOK, Post
<1>5. v.s.post.len = w.s.post.len /\ Chunked(v.s)
    <2>1. CASE ~ChunkReady(y.s.post)
        BY <1>2, <1>3, <2>1 DEF Chunked
    <2>2. CASE ChunkReady(y.s.post)
        <3>1. /\ Shape(y) /\ ~y.aborted /\ y.fault \in Faults /\ y.req = w.req /\ y.buff = <<>>
              /\ Ready(y) /\ z = httpdProcessRequest(y) /\ z.s.post = y.s.post
              /\ v.s.cgi = z.s.cgi /\ v.s.cgiData = z.s.cgiData
              /\ v.s.post.len = z.s.post.len
            BY <1>2, <2>2 DEF Processed
        <3>2. Chunked(z.s)
            <4>1. CASE y.s.url = NULL
                <5>1. z = y
                    BY <3>1, <4>1, Zenon DEF httpdProcessRequest
                <5> QED BY <1>3, <5>1 DEF Chunked
            <4>2. CASE y.s.url # NULL
                <5>1. y.req.url = y.s.url
                    BY <1>1, <1>3, <3>1, <4>2 DEF Parsed, UrlOf
                <5> QED BY <3>1, <4>2, <5>1, ProcessPaces
            <4> QED BY <4>1, <4>2
        <3> QED BY <1>3, <3>1, <3>2 DEF Chunked
    <2> QED BY <2>1, <2>2
<1> QED BY <1>4, <1>5 DEF Paced, HeadAt, v

\* Any unit of a request.
LEMMA UnitPaces ==
    ASSUME NEW p \in Clients, NEW w, NEW k \in Nat, NEW g, NEW m, NEW a,
           Telling(p, w, k, g, m, a), k < RequestLen(w.req), userbin \in Userbins,
           Paced(w.s, w.req, k)
    PROVE  Paced(RecvUnit(p, w, k).s, w.req, k + 1)
<1>1. w.s.post.len \in Int /\ w.s.post.len >= -1
    BY SectorAssumption DEF Telling, Standing, Shape, SlotOK, Post
<1>2. CASE w.s.post.len = -1
    <2>1. w.s.post.len < 0
        BY <1>2
    <2>2. RecvUnit(p, w, k) = HeadUnit(w, k = w.req.headUnits - 1)
        BY <2>1, Zenon DEF RecvUnit
    <2> QED BY <1>2, <2>2, HeadPaces
<1>3. CASE w.s.post.len > 0
    <2>1. RecvUnit(p, w, k) = BodyUnit(w, Content(p, w.req, k - w.req.headUnits))
        BY <1>1, <1>3 DEF RecvUnit
    <2>2. Chunked(w.s)
        BY DEF Paced, Telling
    <2> QED BY <1>3, <2>1, <2>2, BodyPaces
<1>4. CASE w.s.post.len = 0
    <2>1. RecvUnit(p, w, k) = w
        BY <1>4 DEF RecvUnit
    <2> QED BY <1>4, <2>1 DEF Paced, HeadAt
<1> QED BY <1>1, <1>2, <1>3, <1>4

\* The loop over the units that arrived together.
LEMMA LoopPaces ==
    ASSUME NEW p \in Clients, NEW base \in Nat, NEW n \in Nat, NEW rcv, NEW g, NEW m, NEW a,
           userbin \in Userbins,
           Telling(p, rcv[0], base, g, m, a), Paced(rcv[0].s, rcv[0].req, base),
           base + n <= RequestLen(rcv[0].req),
           \A k \in 1 .. n : rcv[k] = RecvUnit(p, rcv[k - 1], base + k - 1)
    PROVE  Paced(rcv[n].s, rcv[0].req, base + n)
<1> DEFINE Good(k) == Paced(rcv[k].s, rcv[0].req, base + k)
           Bad == {k \in 0 .. n : ~Good(k)}
<1>0. RequestLen(rcv[0].req) \in Int
    <2>1. rcv[0].req.headUnits \in Int /\ rcv[0].req.contentLength \in Int
        BY SectorAssumption DEF Telling, Standing, ReqOK
    <2> QED BY <2>1, MaxIs DEF RequestLen
<1>1. Bad = {}
    <2> SUFFICES ASSUME Bad # {} PROVE FALSE
        OBVIOUS
    <2>1. Bad \subseteq Nat
        OBVIOUS
    <2>2. PICK k \in Bad : k = 0 \/ (k - 1 \in Nat /\ k - 1 \notin Bad)
        BY <2>1, LeastNat
    <2>3. Good(0)
        BY base + 0 = base
    <2>4. CASE k # 0
        <3>1. PICK j : j = k - 1
            OBVIOUS
        <3>2. j \in 0 .. n /\ k \in 1 .. n /\ Good(j) /\ j \in Nat /\ k = j + 1
            BY <2>2, <2>4, <3>1
        <3>3. \A l \in 1 .. j : rcv[l] = RecvUnit(p, rcv[l - 1], base + l - 1)
            BY <3>2
        <3>4. base + j <= RequestLen(rcv[0].req)
            BY <1>0, <3>2
        <3>5. Telling(p, rcv[j], base + j, g, m, a) /\ rcv[j].req = rcv[0].req
            BY <3>2, <3>3, <3>4, LoopTells
        <3>6. base + j \in Nat /\ base + j < RequestLen(rcv[j].req)
              /\ base + k = (base + j) + 1 /\ base + k - 1 = base + j
            BY <1>0, <3>2, <3>5
        <3>7. rcv[k] = RecvUnit(p, rcv[j], base + j)
            BY <3>1, <3>2, <3>6
        <3>8. Paced(rcv[j].s, rcv[j].req, base + j)
            BY <3>2, <3>5
        <3>9. Paced(rcv[k].s, rcv[0].req, base + k)
            BY <3>5, <3>6, <3>7, <3>8, UnitPaces
        <3> QED BY <2>2, <3>9
    <2> QED BY <2>2, <2>3, <2>4
<1> QED BY <1>1
-----------------------------------------------------------------------------
\* A callback that sent something, or left something to acknowledge.
LEMMA FinishPaces ==
    ASSUME AnswerInv, PaceInv, NEW p \in Clients, link[p] = "open", NEW i \in Find(p),
           NEW w, NEW delivered, Finish(i, p, w, delivered),
           Paced(w.s, client[p].req, arrived'[p]),
           Ending(client[p].req) /\ ~client[p].lost /\ client[p].packets + w.packets # 0
               => acked'[p] < client[p].packets + w.packets,
           \A q \in Clients \ {p} : arrived'[q] = arrived[q] /\ acked'[q] = acked[q]
    PROVE  PaceInv'
<1>1. /\ i \in Slots /\ conn[i] = p /\ p # NULL /\ \A j \in Slots : conn[j] = p => j = i
    BY OwnSlot DEF AnswerInv
<1>2. WebTypes /\ PoolInv /\ ClientFine(p)
    BY DEF AnswerInv, WebInv, Fine
<1>3. conn' = conn /\ link' = link
    BY <1>2, SameOwner DEF Finish
<1>4. /\ slot' = [slot EXCEPT ![i] = w.s]
      /\ client' = [client EXCEPT ![p] = Received(@, w, delivered)]
    BY DEF Finish
<1>5. /\ client'[p] = Received(client[p], w, delivered)
      /\ \A q \in Clients \ {p} : client'[q] = client[q]
    BY <1>2, <1>4 DEF WebTypes
<1>6. /\ client'[p].req = client[p].req
      /\ ~client'[p].lost => /\ ~client[p].lost
                             /\ client'[p].packets = client[p].packets + w.packets
    <2> DEFINE c == client[p]
    <2>1. DOMAIN c = ClientFields
        BY <1>2 DEF ClientFine
    <2> HIDE DEF c
    <2>2. /\ Received(c, w, delivered).req = c.req
          /\ ~Received(c, w, delivered).lost =>
                ~c.lost /\ Received(c, w, delivered).packets = c.packets + w.packets
        BY <2>1 DEF Received, ClientFields
    <2> QED BY <1>5, <2>2 DEF c
<1>7. ASSUME NEW j \in Slots, conn'[j] # NULL
      PROVE  Paced(slot[j], client[conn[j]].req, arrived[conn[j]])'
    <2>1. CASE j = i
        <3>1. slot'[j] = w.s /\ conn'[j] = p
            BY <1>1, <1>2, <1>3, <1>4, <2>1 DEF WebTypes
        <3> QED BY <1>6, <3>1 DEF Paced, Chunked, HeadAt
    <2>2. CASE j # i
        <3>1. slot'[j] = slot[j] /\ conn[j] \in Clients \ {p}
            BY <1>1, <1>2, <1>3, <1>4, <1>7, <2>2 DEF WebTypes, PoolInv, PoolTypes
        <3>2. Paced(slot[j], client[conn[j]].req, arrived[conn[j]])
            BY <1>3, <1>7 DEF PaceInv
        <3> QED BY <1>3, <1>5, <3>1, <3>2 DEF Paced, Chunked, HeadAt
    <2> QED BY <2>1, <2>2
<1>8. ASSUME NEW q \in Clients PROVE Awaits(q)' /\ Unheard(q)'
    <2>1. CASE q = p
        BY <1>3, <1>6, <2>1 DEF Awaits, Ending, Unheard
    <2>2. CASE q # p
        <3>1. /\ client'[q] = client[q] /\ acked'[q] = acked[q] /\ link'[q] = link[q]
              /\ arrived'[q] = arrived[q] /\ Awaits(q) /\ Unheard(q)
            BY <1>3, <1>5, <2>2 DEF PaceInv
        <3> QED BY <3>1 DEF Awaits, Ending, Unheard
    <2> QED BY <2>1, <2>2
<1> QED BY <1>7, <1>8 DEF PaceInv

\* What is sent from httpdRecvCb only adds to what is to be acknowledged.
LEMMA RecvPaces ==
    ASSUME AnswerInv, PaceInv, NEW p \in Clients, NEW n \in Nat, NEW garbage,
           NEW fault \in Faults, NEW delivered, httpdRecvCb(p, n, garbage, fault, delivered)
    PROVE  PaceInv'
<1>1. /\ link[p] = "open" /\ arrived[p] + n <= RequestLen(client[p].req) /\ acked' = acked
      /\ arrived' = [arrived EXCEPT ![p] = @ + n] /\ WebTypes /\ ClientFine(p)
    BY DEF httpdRecvCb, AnswerInv, WebInv, Fine
<1>2. PICK i, rcv :
        /\ i \in Find(p)
        /\ rcv[0] = World(i, p, garbage, fault)
        /\ \A k \in 1 .. n : rcv[k] = RecvUnit(p, rcv[k - 1], arrived[p] + k - 1)
        /\ Finish(i, p, rcv[n], delivered)
    <2>1. ReceivesBy(p, n, garbage, fault, delivered)
        BY RecvIs
    <2> QED BY <2>1 DEF ReceivesBy
<1>3. PICK w : w = rcv[n]
    OBVIOUS
<1>4. Finish(i, p, w, delivered)
    BY <1>2, <1>3
<1>5. ASSUME ~CalledAgain(client[p].req)
      PROVE  w.packets \in Nat /\ Paced(w.s, client[p].req, arrived'[p])
    <2>1. PICK g, m : Stands(p, client[p], slot[i], g, m, acked[p], flash[Other])
        BY <1>1, <1>2, <1>5, OwnTells
    <2>2. Telling(p, rcv[0], arrived[p], g, m, acked[p])
        BY <1>1, <1>2, <1>5, <2>1, WorldTells
    <2>3. rcv[0].req = client[p].req /\ rcv[0].s = slot[i]
        BY <1>2 DEF World
    <2>4. PICK base : base = arrived[p]
        OBVIOUS
    <2>5. base \in Nat /\ userbin \in Userbins /\ base + n <= RequestLen(rcv[0].req)
          /\ \A k \in 1 .. n : rcv[k] = RecvUnit(p, rcv[k - 1], base + k - 1)
        BY <1>1, <1>2, <2>3, <2>4 DEF WebTypes
    <2>6. Paced(rcv[0].s, rcv[0].req, base)
        <3>1. i \in Slots /\ conn[i] = p /\ p # NULL
            BY <1>1, <1>2, OwnSlot DEF AnswerInv
        <3> QED BY <2>3, <2>4, <3>1 DEF PaceInv
    <2>7. Paced(rcv[n].s, rcv[0].req, base + n) /\ Telling(p, rcv[n], base + n, g, m, acked[p])
        BY <2>2, <2>4, <2>5, <2>6, LoopPaces, LoopTells
    <2>8. arrived'[p] = base + n
        BY <1>1, <2>4 DEF WebTypes
    <2> QED BY <1>3, <2>3, <2>7, <2>8 DEF Telling, Speech
<1>6. Paced(w.s, client[p].req, arrived'[p])
    BY <1>5 DEF Paced
<1>7. Ending(client[p].req) /\ ~client[p].lost /\ client[p].packets + w.packets # 0
           => acked'[p] < client[p].packets + w.packets
    <2>1. /\ client[p].packets \in Nat /\ acked[p] \in Nat /\ acked'[p] = acked[p]
          /\ acked[p] <= client[p].packets
        BY <1>1 DEF ClientFine, WebTypes
    <2>2. Ending(client[p].req) /\ ~client[p].lost /\ client[p].packets # 0
              => acked[p] < client[p].packets
        BY <1>1 DEF PaceInv, Awaits
    <2>3. Ending(client[p].req) => w.packets \in Nat
        BY <1>5 DEF Ending
    <2> QED BY <2>1, <2>2, <2>3
<1>8. \A q \in Clients \ {p} : arrived'[q] = arrived[q] /\ acked'[q] = acked[q]
    BY <1>1 DEF WebTypes
<1> QED BY <1>1, <1>2, <1>4, <1>6, <1>7, <1>8, FinishPaces
-----------------------------------------------------------------------------
\* The next chunk of a file: a full one if more is to follow, and one that is not
\* empty if the file ends with one that is not full.
LEMMA GoOnPaces ==
    ASSUME NEW p, NEW w, NEW k, NEW g, NEW m, NEW a, Telling(p, w, k, g, m, a),
           w.s.cgi # NoHandler, Num(m, w) = a + 1, Chunked(w.s), w.packets = 0,
           NEW v, NEW x, v = CallCgi(w), x = WentOn(v)
    PROVE  /\ Chunked(x.s) /\ x.s.post.len # -1 /\ x.packets \in Nat
           /\ Ending(w.req) => x.packets > 0
<1>1. /\ Reading(w.req, w.s, Sum(g, w), Num(m, w), a) /\ Called(p, w.req, w.s)
      /\ Shape(w) /\ v = ReadFile(w)
    BY GoesOnIs
<1>2. PICK f : f = w.s.cgiData
    OBVIOUS
<1>3. /\ w.req.url \in DOMAIN FileLen /\ f.name = w.req.url
      /\ f.pos \in 0 .. FileLen[f.name] /\ w.s.cgi = "cgiEspFsHook"
    BY <1>1, <1>2 DEF Reading
<1>4. PICK len \in Nat : Reads(w, v, len)
    BY <1>1, <1>2, <1>3, ReadTells
<1>5. PICK F \in Nat : F = FileLen[f.name]
    BY <1>3, HttpdAssumption
<1>6. PICK q \in Nat : f.pos = READ_LEN * q
    BY <1>2, <1>3 DEF Chunked
<1>7. Shape(v) /\ v.buff = <<>> /\ v.req = w.req
    <2>1. Kept(w, v)
        <3>1. w.s.cgiData # NoFile
            <4>1. NoFile.name = NULL
                BY DEF NoFile
            <4> QED BY <1>2, <1>3, <4>1, RequestsAssumption
        <3> QED BY <1>1, <1>3, <3>1, ReadKeeps
    <2>2. w.buff = <<>>
        BY DEF Telling
    <2> QED BY <1>4, <2>1, <2>2 DEF Kept, Reads, Beside
<1>8. /\ Silent(v, x)
      /\ x.s = IF v.r = "MORE" THEN v.s ELSE [v.s EXCEPT !.cgi = NoHandler]
    BY <1>7, GoneOnIs
<1>9. /\ v.s = [w.s EXCEPT !.cgiData.pos = f.pos + len] /\ f.pos + len <= F
      /\ v.r \in {"DONE", "MORE"} /\ (v.r = "DONE" => f.pos + len = F)
      /\ (v.r = "MORE" => len = READ_LEN)
    BY <1>2, <1>4, <1>5 DEF Reads
<1>10. /\ x.s.cgi = IF v.r = "MORE" THEN w.s.cgi ELSE NoHandler
       /\ x.s.cgiData.pos = f.pos + len /\ x.s.post = w.s.post
    <2>1. PICK s, t : s = w.s /\ t = v.s
        OBVIOUS
    <2>2. DOMAIN s = SlotFields /\ DOMAIN s.cgiData = {"name", "pos"} /\ s.cgiData = f
        BY <1>1, <1>2, <2>1 DEF Shape, SlotOK
    <2>3. t = [s EXCEPT !.cgiData.pos = f.pos + len]
        BY <1>9, <2>1
    <2>4. DOMAIN t = SlotFields /\ t.cgi = s.cgi /\ t.post = s.post /\ t.cgiData.pos = f.pos + len
        BY <2>2, <2>3 DEF SlotFields
    <2>5. CASE v.r = "MORE"
        BY <1>8, <2>1, <2>4, <2>5
    <2>6. CASE v.r # "MORE"
        <3>1. x.s = [t EXCEPT !.cgi = NoHandler]
            BY <1>8, <2>1, <2>6
        <3> QED BY <2>1, <2>4, <2>6, <3>1 DEF SlotFields
    <2> QED BY <2>5, <2>6
<1>11. Chunked(x.s)
    <2>1. CASE v.r = "MORE"
        <3>1. PICK L \in Nat : L = READ_LEN
            BY HttpdAssumption
        <3>2. L * (q + 1) = L * q + L /\ q + 1 \in Nat
            OBVIOUS
        <3>3. f.pos + len = READ_LEN * (q + 1)
            BY <1>6, <1>9, <2>1, <3>1, <3>2
        <3> QED BY <1>10, <3>2, <3>3 DEF Chunked
    <2>2. CASE v.r # "MORE"
        BY <1>10, <2>2 DEF Chunked, NoHandler
    <2> QED BY <2>1, <2>2
<1>12. ASSUME Ending(w.req) PROVE len > 0
    <2> SUFFICES ASSUME len = 0 PROVE FALSE
        BY <1>4
    <2>1. v.r = "DONE" /\ F = READ_LEN * q
        BY <1>5, <1>6, <1>9, HttpdAssumption
    <2>2. F % READ_LEN # 0
        BY <1>3, <1>5, <1>12 DEF Ending
    <2>3. READ_LEN \in Nat \ {0} /\ F = READ_LEN * q + 0 /\ 0 \in 0 .. READ_LEN - 1 /\ q \in Int
        BY <2>1, HttpdAssumption
    <2>4. F % READ_LEN = 0
        BY <2>3, ModUnique
    <2> QED BY <2>2, <2>4
<1>13. x.packets = IF len > 0 THEN 1 ELSE 0
    <2>1. x.packets = v.packets
        BY <1>8 DEF Silent
    <2>2. CASE len > 0
        <3>1. v.packets = w.packets + 1
            BY <1>4, <2>2 DEF Reads, Says
        <3> QED BY <2>1, <2>2, <3>1
    <2>3. CASE ~(len > 0)
        <3>1. v.packets = w.packets
            BY <1>4, <2>3 DEF Reads, Silent
        <3> QED BY <2>1, <2>3, <3>1
    <2> QED BY <2>2, <2>3
<1>14. x.s.post.len # -1
    BY <1>1, <1>10 DEF Called
<1> QED BY <1>11, <1>12, <1>13, <1>14

\* A packet was acknowledged: the handler sends the next, or the connection closes.
LEMMA SentPaces ==
    ASSUME AnswerInv, PaceInv, NEW p \in Clients, NEW delivered, httpdSentCb(p, delivered)
    PROVE  PaceInv'
<1>1. link[p] = "open" /\ acked[p] < client[p].packets /\ acked' = [acked EXCEPT ![p] = @ + 1]
      /\ arrived' = arrived
    BY DEF httpdSentCb
<1>2. WebTypes /\ ClientFine(p) /\ PoolInv
    BY DEF AnswerInv, WebInv, Fine
<1>3. acked'[p] = acked[p] + 1 /\ \A q \in Clients \ {p} : acked'[q] = acked[q]
    BY <1>1, <1>2 DEF WebTypes
<1>4. PICK i \in Find(p) :
        \/ /\ slot[i].cgi = NoHandler
           /\ link' = [link EXCEPT ![p] = "closing"] /\ conn' = [conn EXCEPT ![i] = p]
           /\ UNCHANGED <<remote, slot, client>>
        \/ /\ slot[i].cgi # NoHandler
           /\ \E w : /\ w = Then(CallCgi(World(i, p, FALSE, "none")), WentOn)
                     /\ Finish(i, p, w, delivered)
    BY Zenon DEF httpdSentCb, WentOn
<1>5. i \in Slots /\ conn[i] = p /\ p # NULL
    BY <1>1, OwnSlot DEF AnswerInv
<1>6. CASE /\ link' = [link EXCEPT ![p] = "closing"] /\ conn' = [conn EXCEPT ![i] = p]
           /\ UNCHANGED <<remote, slot, client>>
    <2>1. conn' = conn
        BY <1>2, <1>6, SameOwner
    <2>2. \A q \in Clients : link'[q] = IF q = p THEN "closing" ELSE link[q]
        BY <1>2, <1>6 DEF PoolInv, PoolTypes
    <2>3. ASSUME NEW j \in Slots, conn'[j] # NULL
          PROVE  Paced(slot[j], client[conn[j]].req, arrived[conn[j]])'
        <3>1. Paced(slot[j], client[conn[j]].req, arrived[conn[j]])
            BY <2>1, <2>3 DEF PaceInv
        <3> QED BY <1>1, <1>6, <2>1, <3>1 DEF Paced, Chunked, HeadAt
    <2>4. ASSUME NEW q \in Clients PROVE Awaits(q)' /\ Unheard(q)'
        <3>1. Awaits(q) /\ Unheard(q)
            BY DEF PaceInv
        <3> QED BY <1>1, <1>3, <1>6, <2>2, <3>1 DEF Awaits, Ending, Unheard
    <2> QED BY <2>3, <2>4 DEF PaceInv
<1>7. CASE slot[i].cgi # NoHandler /\ \E w :
                     /\ w = Then(CallCgi(World(i, p, FALSE, "none")), WentOn)
                     /\ Finish(i, p, w, delivered)
    <2>1. PICK x : /\ x = Then(CallCgi(World(i, p, FALSE, "none")), WentOn)
                   /\ Finish(i, p, x, delivered)
        BY <1>7
    <2>2. PICK w : w = World(i, p, FALSE, "none")
        OBVIOUS
    <2>3. PICK v : v = CallCgi(w)
        OBVIOUS
    <2>4. x = WentOn(v)
        BY <2>1, <2>2, <2>3 DEF Then
    <2>5. "none" \in Faults
        BY DEF Faults
    <2>6. CASE CalledAgain(client[p].req)
        <3>1. Paced(x.s, client[p].req, arrived'[p]) /\ ~Ending(client[p].req)
            BY <2>6 DEF Paced, Ending
        <3>2. \A q \in Clients \ {p} : arrived'[q] = arrived[q] /\ acked'[q] = acked[q]
            BY <1>1, <1>3
        <3> QED BY <1>1, <2>1, <3>1, <3>2, FinishPaces
    <2>7. CASE ~CalledAgain(client[p].req)
        <3>1. PICK g, m : Stands(p, client[p], slot[i], g, m, acked[p], flash[Other])
            BY <1>1, <2>7, OwnTells
        <3>2. PICK c, a : c = client[p] /\ a = acked[p]
            OBVIOUS
        <3>3. m = a + 1 /\ m = c.packets /\ a \in Nat
            BY <1>1, <3>1, <3>2, LastIs DEF Stands
        <3>4. Telling(p, w, arrived[p], g, m, a)
            BY <1>1, <2>2, <2>5, <2>7, <3>1, <3>2, WorldTells
        <3>5. /\ w.s.cgi # NoHandler /\ Num(m, w) = a + 1 /\ w.req = c.req /\ w.packets = 0
              /\ w.s = slot[i]
            BY <1>7, <2>2, <3>2, <3>3 DEF World, Num
        <3>6. Chunked(w.s)
            BY <1>5, <2>7, <3>2, <3>5 DEF PaceInv, Paced
        <3>7. /\ Chunked(x.s) /\ x.s.post.len # -1 /\ x.packets \in Nat
              /\ Ending(w.req) => x.packets > 0
            BY <2>3, <2>4, <3>4, <3>5, <3>6, GoOnPaces
        <3>8. Paced(x.s, client[p].req, arrived'[p])
            BY <3>7 DEF Paced, HeadAt
        <3>9. Ending(client[p].req) => acked'[p] < client[p].packets + x.packets
            BY <1>3, <3>2, <3>3, <3>5, <3>7
        <3>10. \A q \in Clients \ {p} : arrived'[q] = arrived[q] /\ acked'[q] = acked[q]
            BY <1>1, <1>3
        <3> QED BY <1>1, <2>1, <3>8, <3>9, <3>10, FinishPaces
    <2> QED BY <2>6, <2>7
<1> QED BY <1>4, <1>6, <1>7
-----------------------------------------------------------------------------
\* A slot, and a client, nothing happens to.
LEMMA PaceRests ==
    ASSUME PaceInv,
           \A j \in Slots : conn'[j] # NULL =>
               \/ Paced(slot'[j], client'[conn'[j]].req, arrived'[conn'[j]])
               \/ /\ conn'[j] = conn[j] /\ slot'[j] = slot[j]
                  /\ client'[conn[j]] = client[conn[j]] /\ arrived'[conn[j]] = arrived[conn[j]],
           \A q \in Clients :
               \/ link'[q] # "open" \/ client'[q].packets = 0
               \/ UNCHANGED <<client[q], acked[q], link[q]>>,
           \A q \in Clients : \/ link'[q] # "closed" \/ arrived'[q] = 0
                              \/ UNCHANGED <<arrived[q], link[q]>>
    PROVE  PaceInv'
<1>1. ASSUME NEW j \in Slots, conn'[j] # NULL
      PROVE  Paced(slot[j], client[conn[j]].req, arrived[conn[j]])'
    <2>1. CASE Paced(slot'[j], client'[conn'[j]].req, arrived'[conn'[j]])
        BY <2>1 DEF Paced, Chunked, HeadAt
    <2>2. CASE /\ conn'[j] = conn[j] /\ slot'[j] = slot[j]
               /\ client'[conn[j]] = client[conn[j]] /\ arrived'[conn[j]] = arrived[conn[j]]
        <3>1. Paced(slot[j], client[conn[j]].req, arrived[conn[j]])
            BY <1>1, <2>2 DEF PaceInv
        <3> QED BY <2>2, <3>1 DEF Paced, Chunked, HeadAt
    <2> QED BY <1>1, <2>1, <2>2
<1>2. ASSUME NEW q \in Clients PROVE Awaits(q)' /\ Unheard(q)'
    <2>1. Awaits(q) /\ Unheard(q)
        BY DEF PaceInv
    <2> QED BY <2>1 DEF Awaits, Ending, Unheard
<1> QED BY <1>1, <1>2 DEF PaceInv

LEMMA ConnectPaces ==
    ASSUME AnswerInv, PaceInv, NEW p \in Clients, NEW req \in Requests[p], httpdConnectCb(p, req)
    PROVE  PaceInv'
<1>1. WebTypes /\ ClientFine(p) /\ PoolInv
    BY DEF AnswerInv, WebInv, Fine
<1>2. /\ link[p] = "closed" /\ client' = [client EXCEPT ![p] = [Gone EXCEPT !.req = req]]
      /\ UNCHANGED <<arrived, acked>>
    BY DEF httpdConnectCb
<1>3. /\ client'[p] = [Gone EXCEPT !.req = req]
      /\ \A q \in Clients \ {p} : client'[q] = client[q]
    BY <1>1, <1>2 DEF WebTypes
<1>4. client'[p].req = req /\ client'[p].packets = 0 /\ arrived[p] = 0
    BY <1>2, <1>3 DEF Gone, PaceInv, Unheard
<1>5. \A j \in Slots : conn[j] # NULL => conn[j] \in Clients \ {p}
    BY <1>1, <1>2 DEF PoolInv, PoolTypes, SlotOwnership
<1>6. ASSUME NEW l \in {"open", "refused"}, link' = [link EXCEPT ![p] = l]
      PROVE  /\ \A q \in Clients : \/ link'[q] # "open" \/ client'[q].packets = 0
                                   \/ UNCHANGED <<client[q], acked[q], link[q]>>
             /\ \A q \in Clients : \/ link'[q] # "closed" \/ arrived'[q] = 0
                                   \/ UNCHANGED <<arrived[q], link[q]>>
    <2>1. ASSUME NEW q \in Clients
          PROVE  \/ q = p
                 \/ UNCHANGED <<client[q], acked[q], link[q], arrived[q]>>
        BY <1>1, <1>2, <1>3, <1>6 DEF PoolInv, PoolTypes
    <2> QED BY <1>2, <1>4, <2>1
<1>7. CASE link' = [link EXCEPT ![p] = "refused"] /\ UNCHANGED <<conn, slot>>
    <2>1. \A j \in Slots : conn'[j] # NULL =>
              /\ conn'[j] = conn[j] /\ slot'[j] = slot[j]
              /\ client'[conn[j]] = client[conn[j]] /\ arrived'[conn[j]] = arrived[conn[j]]
        BY <1>2, <1>3, <1>5, <1>7
    <2> QED BY <1>6, <1>7, <2>1, PaceRests
<1>8. ASSUME NEW i \in FreeSlots, link' = [link EXCEPT ![p] = "open"],
             conn' = [conn EXCEPT ![i] = p], slot' = [slot EXCEPT ![i] = Prepared(@)]
      PROVE  PaceInv'
    <2>1. i \in Slots /\ conn[i] = NULL
        BY DEF FreeSlots
    <2>2. ASSUME NEW j \in Slots, conn'[j] # NULL
          PROVE  \/ Paced(slot'[j], client'[conn'[j]].req, arrived'[conn'[j]])
                 \/ /\ conn'[j] = conn[j] /\ slot'[j] = slot[j]
                    /\ client'[conn[j]] = client[conn[j]] /\ arrived'[conn[j]] = arrived[conn[j]]
        <3>1. CASE j # i
            <4>1. conn'[j] = conn[j] /\ slot'[j] = slot[j]
                BY <1>1, <1>8, <3>1 DEF WebTypes, PoolInv, PoolTypes
            <4> QED BY <1>2, <1>3, <1>5, <2>2, <4>1
        <3>2. CASE j = i
            <4>1. slot'[i] = Prepared(slot[i]) /\ conn'[i] = p
                BY <1>1, <1>8, <2>1 DEF WebTypes, PoolInv, PoolTypes
            <4>2. SlotOK(slot[i]) /\ slot[i].cgi = NoHandler
                BY <2>1 DEF AnswerInv, WebInv, Fine, SlotFine
            <4>3. PICK s : s = slot'[i]
                OBVIOUS
            <4>4. s = [slot[i] EXCEPT !.headPos = 0, !.post = NoPost]
                BY <4>1, <4>3 DEF Prepared
            <4>5. s.cgi = NoHandler /\ s.headPos = 0
                BY <4>2, <4>4 DEF SlotOK, SlotFields
            <4>6. req.headUnits \in Nat \ {0}
                BY ReqIsOK DEF ReqOK
            <4>7. Paced(s, req, 0)
                BY <4>5, <4>6 DEF Paced, Chunked, HeadAt, NoHandler
            <4> QED BY <1>2, <1>4, <3>2, <4>1, <4>3, <4>7
        <3> QED BY <3>1, <3>2
    <2> QED BY <1>6, <1>8, <2>2, PaceRests
<1> QED BY <1>7, <1>8 DEF httpdConnectCb

LEMMA RetirePaces ==
    ASSUME AnswerInv, PaceInv, NEW p \in Clients, httpdRetireConn(p)
    PROVE  PaceInv'
<1>1. WebTypes /\ PoolInv /\ p # NULL
    BY HttpdAssumption DEF AnswerInv, WebInv, Fine
<1>2. \A j \in Slots : j \in Find(p) <=> conn[j] = p
    BY <1>1, FindIsOwner DEF PoolInv, SlotOwnership
<1>3. /\ link' = [link EXCEPT ![p] = "closed"] /\ client' = [client EXCEPT ![p] = Gone]
      /\ acked' = [acked EXCEPT ![p] = 0] /\ arrived' = [arrived EXCEPT ![p] = 0]
    BY DEF httpdRetireConn
<1>4. /\ \A q \in Clients \ {p} : UNCHANGED <<client[q], acked[q], link[q], arrived[q]>>
      /\ link'[p] = "closed" /\ arrived'[p] = 0
    BY <1>1, <1>3 DEF WebTypes, PoolInv, PoolTypes
<1>5. ASSUME NEW j \in Slots, conn'[j] # NULL
      PROVE  /\ conn'[j] = conn[j] /\ slot'[j] = slot[j]
             /\ client'[conn[j]] = client[conn[j]] /\ arrived'[conn[j]] = arrived[conn[j]]
    <2>1. j \notin Find(p)
        BY <1>5 DEF httpdRetireConn
    <2>2. conn'[j] = conn[j] /\ slot'[j] = slot[j]
        BY <2>1 DEF httpdRetireConn
    <2>3. conn[j] \in Clients \ {p}
        BY <1>1, <1>2, <1>5, <2>1, <2>2 DEF PoolInv, PoolTypes
    <2> QED BY <1>4, <2>2, <2>3
<1>6. /\ \A q \in Clients : \/ link'[q] # "open" \/ client'[q].packets = 0
                            \/ UNCHANGED <<client[q], acked[q], link[q]>>
      /\ \A q \in Clients : \/ link'[q] # "closed" \/ arrived'[q] = 0
                            \/ UNCHANGED <<arrived[q], link[q]>>
    <2>1. ASSUME NEW q \in Clients PROVE q = p \/ q \in Clients \ {p}
        OBVIOUS
    <2> QED BY <1>4, <2>1
<1> QED BY <1>5, <1>6, PaceRests

\* Every step keeps the answers going.
LEMMA PaceStep ==
    ASSUME AnswerInv, PaceInv, [Next]_vars
    PROVE  PaceInv'
<1>2. ASSUME NEW p \in Clients, Connect(p) PROVE PaceInv'
    BY <1>2, ConnectPaces DEF Connect
<1>3. ASSUME NEW p \in Clients, Recv(p) PROVE PaceInv'
    <2>1. PICK n \in 1 .. RequestLen(client[p].req) - arrived[p],
               garbage \in Garbages(client[p].req), fault \in FlashFaults \cup {"none"},
               delivered \in Deliveries(p) : httpdRecvCb(p, n, garbage, fault, delivered)
        BY <1>3 DEF Recv
    <2>2. fault \in Faults /\ n \in Nat
        <3>1. fault \in Faults
            BY HttpdAssumption DEF Faults
        <3> QED BY <3>1
    <2> QED BY <2>1, <2>2, RecvPaces
<1>4. ASSUME NEW p \in Clients, Sent(p) PROVE PaceInv'
    BY <1>4, SentPaces DEF Sent
<1>5. ASSUME NEW p \in Clients, httpdDisconCb(p) PROVE PaceInv'
    BY <1>5, RetirePaces DEF httpdDisconCb
<1>6. ASSUME NEW p \in Clients, httpdReconCb(p) PROVE PaceInv'
    BY <1>6, RetirePaces DEF httpdReconCb
<1>7. CASE Reboot
    BY <1>7 DEF Reboot, PaceInv, Awaits, Unheard
<1>8. CASE UNCHANGED vars
    <2>1. UNCHANGED <<conn, slot, client, acked, link, arrived>>
        BY <1>8 DEF vars
    <2> QED BY <2>1, PaceRests
<1> QED BY <1>2, <1>3, <1>4, <1>5, <1>6, <1>7, <1>8 DEF Next

\* A client whose request has arrived, all of it, has a packet to acknowledge.
LEMMA SentSomething ==
    ASSUME AnswerInv, PaceInv, NEW p \in Clients, link[p] = "open", ~client[p].lost,
           Answerable(client[p].req), client[p].req.url # NULL,
           arrived[p] = RequestLen(client[p].req)
    PROVE  acked[p] < client[p].packets
<1>1. PICK i \in Slots : remote[i] = p
    BY DEF AnswerInv, WebInv, PoolInv, SlotOwnership
<1>2. conn[i] = p /\ p # NULL /\ Tells(i) /\ WebTypes /\ ClientFine(p) /\ SlotFine(i)
    BY <1>1, HttpdAssumption DEF AnswerInv, WebInv, PoolInv, SlotOwnership, Fine
<1>3. PICK c, s, a : c = client[p] /\ s = slot[i] /\ a = acked[p]
    OBVIOUS
<1>4. PICK told, n : Ledger(p, c, s, told, n, a)
    BY <1>2, <1>3 DEF Tells, Stands, Answerable
<1>5. Stage(p, c.req, s, told, n, a) /\ n = c.packets
    BY <1>3, <1>4 DEF Ledger
<1>6. /\ ReqOK(c.req) /\ Progress(s, c.req, arrived[p]) /\ Paced(s, c.req, arrived[p])
      /\ SlotOK(s)
    BY <1>2, <1>3, ReqIsOK DEF SlotFine, ClientFine, PaceInv
<1>7. PICK H, L \in Int : H = c.req.headUnits /\ L = c.req.contentLength
    BY <1>6, SectorAssumption DEF ReqOK
<1>8. arrived[p] = H + (IF L >= 0 THEN L ELSE 0) /\ H <= MAX_HEAD_LEN
    BY <1>3, <1>7, MaxIs DEF RequestLen, Answerable
<1>9. PICK b : b = s.post
    OBVIOUS
<1>10. b.len \in Int /\ b.len >= -1 /\ b.received \in Nat
    BY <1>6, <1>9, SectorAssumption DEF SlotOK, Post
<1>11. b.len # -1
    <2> SUFFICES ASSUME b.len = -1 PROVE FALSE
        OBVIOUS
    <2>1. arrived[p] < H
        BY <1>3, <1>6, <1>7, <1>8, <1>9 DEF Paced, HeadAt, Answerable
    <2> QED BY <1>7, <1>8, <2>1
<1>12. b.len > 0 => b.received = b.len /\ b.received >= b.buffSize
    <2> SUFFICES ASSUME b.len > 0 PROVE b.received = b.len /\ b.received >= b.buffSize
        OBVIOUS
    <2>1. AtBody(s, c.req, arrived[p])
        BY <1>6, <1>9 DEF Progress
    <2>2. b.len = L /\ b.buffSize = Min({b.len, MAX_POST}) /\ b.received = arrived[p] - H
        BY <1>7, <1>9, <2>1 DEF AtBody
    <2>3. b.buffSize = IF b.len <= MAX_POST THEN b.len ELSE MAX_POST
        BY <1>10, <2>2, MinIs, HttpdAssumption
    <2> QED BY <1>7, <1>8, <1>10, <2>2, <2>3, HttpdAssumption
<1>13. Asked(s.post) /\ s.url # NULL
    <2>1. Asked(b)
        BY <1>10, <1>11, <1>12 DEF Asked
    <2>2. Parsed(p, c.req, s)
        BY <1>5, <1>9, <1>11 DEF Stage
    <2>3. s.url # NULL
        BY <1>3, <2>2 DEF Parsed, UrlOf, Answerable
    <2> QED BY <1>9, <2>1, <2>3
<1>14. ~Uploading(c.req, s, told, n)
    BY <1>9, <1>10, <1>12 DEF Uploading
<1>15. Ending(c.req) /\ n \in Nat /\ a \in Nat
    BY <1>3, <1>5 DEF Ending, Answerable, Stage
<1>16. n # 0
    BY <1>5, <1>13, <1>14, <1>15 DEF Stage, Refused, Reading, Answered
<1> QED BY <1>3, <1>5, <1>15, <1>16 DEF PaceInv, Awaits

\* All of a request that httpd.c can answer has arrived.
Heard(p) ==
    /\ link[p] = "open" /\ ~client[p].lost
    /\ Answerable(client[p].req) /\ client[p].req.url # NULL
    /\ arrived[p] = RequestLen(client[p].req)

\* The safety half of Served (httpd.c:325-328): a client that has sent all of its
\* request, one of those httpd.c can answer, has a packet to acknowledge, whose sent
\* callback goes on with the answer or closes the connection.  So an open connection
\* waits for more of the request or for an acknowledgement, and never for a handler
\* that nothing will call again.
THEOREM NobodyIsLeftWaiting ==
    Spec => [](\A p \in Clients : Heard(p) => acked[p] < client[p].packets)
<1>1. Init => PaceInv
    BY DEF Init, PaceInv, Awaits, Unheard
<1>2. AnswerInv /\ PaceInv /\ [Next]_vars => PaceInv'
    BY PaceStep
<1>3. AnswerInv /\ PaceInv => \A p \in Clients : Heard(p) => acked[p] < client[p].packets
    BY SentSomething DEF Heard
<1> QED BY <1>1, <1>2, <1>3, AnswersHold, PTL DEF Spec
=============================================================================
