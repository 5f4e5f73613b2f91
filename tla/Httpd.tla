-------------------------------- MODULE Httpd --------------------------------
(***************************************************************************)
(* The web server: the connection pool and the callbacks of httpd.c, the   *)
(* static files of httpdespfs.c and the firmware upload and reboot of      *)
(* cgiflash.c.  The callbacks run to the end one after the other (a static *)
(* string works because callbacks don't get interrupted, httpd.c:86), so   *)
(* each is one action.                                                     *)
(*                                                                         *)
(* A client connects from its own address and sends one request, cut into  *)
(* packets in any way.  Lengths are in units: the head of a request is     *)
(* headUnits units of which the last completes it, a body is postLen       *)
(* units.  A response is the sequence of parts handed to espconn_sent.     *)
(***************************************************************************)
EXTENDS FirmwareFlash, FiniteSets, FiniteSetsExt, SequencesExt

CONSTANTS
    Clients,        \* remote addresses and ports
    Requests,       \* Requests[p]: the requests client p may send
    Unreliable,     \* clients to which espconn_sent may fail
    FlashFaults,    \* how a flash operation may fail
    NULL,
    MAX_CONN,       \* size of the connection pool
    MAX_HEAD_LEN,   \* size of the buffer for the head of a request
    BYTE,           \* values of a byte (256)
    MAX_POST,       \* size of the buffer for a body
    READ_LEN,       \* what cgiEspFsHook reads of a file per call (1024 bytes)
    FileLen         \* [name -> length] of the files in the espfs image

ASSUME HttpdAssumption ==
    /\ NULL \notin Clients
    /\ FlashFaults \subseteq Faults
    /\ MAX_CONN \in Nat \ {0}
    /\ MAX_HEAD_LEN \in Nat \ {0}
    /\ MAX_POST \in Nat \ {0}
    /\ READ_LEN \in Nat \ {0}
    /\ \A name \in DOMAIN FileLen : FileLen[name] \in Nat

\* A sector is erased before the chunk that begins it, so that no chunk may reach
\* into the next one: 4096 and 1024 bytes.
ASSUME ChunkAssumption == SPI_FLASH_SEC_SIZE % MAX_POST = 0

\* head has 1024 bytes: a count that has reached them has a low byte of zero.
ASSUME HeadAssumption == BYTE \in Nat \ {0} /\ MAX_HEAD_LEN % BYTE = 0

ASSUME RequestsAssumption ==
    /\ NULL \notin DOMAIN FileLen
    /\ \A p \in Clients : \A req \in Requests[p] :
          /\ req.headUnits \in Nat \ {0}
          /\ req.contentLength \in -1 .. 2 * FIRMWARE_SIZE

Slots == 1 .. MAX_CONN

\* The routes: builtInUrls, of which the last is the "*" of cgiEspFsHook.  The
\* handlers that answer at once and keep no state are one, cgiPage.
Handlers == {"cgiPage", "cgiUploadFirmware", "cgiRebootFirmware", "cgiEspFsHook"}
builtInUrls == << [url |-> "/", cgi |-> "cgiPage"],
                  [url |-> "/flash/upload", cgi |-> "cgiUploadFirmware"],
                  [url |-> "/flash/reboot", cgi |-> "cgiRebootFirmware"],
                  [url |-> "*", cgi |-> "cgiEspFsHook"] >>
IsMatch(entry, url) == entry.url \in {url, "*"}

VARIABLES
    conn,       \* connData[i].conn, NULL in a free slot
    remote,     \* connData[i].remote_ip and remote_port
    slot,       \* the rest of connData, connPrivData and connPostData
    heap,       \* number of blocks that were allocated for a slot and not freed
    link,       \* the state of each client's connection, as espconn has it
    client,     \* its request and what it was sent
    arrived,    \* how much of its request has arrived
    acked,      \* how many packets of the answer were acknowledged
    flash,      \* the firmware partitions
    userbin,    \* the partition that runs
    rebooting,  \* flash_reboot_timer is armed
    alone,      \* history: uploads no other upload and no failure has come between
    failed,     \* history: a flash operation failed since a reboot was granted
    repeats     \* history: slots that a request whose handler is CalledAgain has had

vars == <<conn, remote, slot, heap, link, client, arrived, acked, flash, userbin, rebooting,
          alone, failed, repeats>>

-----------------------------------------------------------------------------
(* The slots.                                                              *)

NoPost == [len |-> -1, buffSize |-> 0, buff |-> FALSE, data |-> <<>>, received |-> 0]
NoFile == [name |-> NULL, pos |-> 0]
NoHandler == "none"

FreeSlot == [cgi |-> NoHandler, cgiData |-> NoFile, cgiPrivData |-> FALSE, url |-> NULL,
             headPos |-> 0, post |-> NoPost]

\* What httpdConnectCb writes; the rest stays as the last connection left it.
Prepared(s) == [s EXCEPT !.headPos = 0, !.post = NoPost]

\* httpdFindConnData: the first slot with the address and port of the peer.
Find(p) == {i \in Slots : remote[i] = p /\ \A j \in 1 .. i - 1 : remote[j] # p}

\* packets counts those espconn_sent took, got is what was in them; lost if it
\* refused one.
Gone == [req |-> NULL, packets |-> 0, got |-> <<>>, lost |-> FALSE]

-----------------------------------------------------------------------------
(* The handlers work on a record w of all a callback can touch: s the      *)
(* slot, aborted if its conn is NULL, buff the send buffer, sent the parts *)
(* handed to espconn_sent, packets how often it was called, and heap,      *)
(* flash, rebooting.  r is what the handler returns.  garbage is what the  *)
(* uninitialized acceptEncodingBuffer holds: whether "gzip" is in it; fault *)
(* is the flash operation that fails, if it comes to one.                  *)

\* One thing after the other: Op(w), with w computed once.
Then(w, Op(_)) == CHOOSE done \in {Op(x) : x \in {w}} : TRUE

httpdSend(w, parts) == [w EXCEPT !.buff = @ \o parts]
espconn_sent(w, parts) == [w EXCEPT !.sent = @ \o parts, !.packets = @ + 1]
Done(w) == [w EXCEPT !.r = "DONE"]
More(w) == [w EXCEPT !.r = "MORE"]
xmitSendBuff(w) == IF w.buff = <<>> THEN w ELSE [espconn_sent(w, w.buff) EXCEPT !.buff = <<>>]

espFsClose(w) == IF w.s.cgiData.name = NULL THEN w ELSE [w EXCEPT !.heap = @ - 1]

\* The first call: opens the file and send the headers.
OpenFile(w) ==
    LET name == w.s.url
        gzip == w.req.gzip /\ ~(w.req.accepts \/ w.garbage)
        opened == [w EXCEPT !.s.cgiData = [name |-> name, pos |-> 0], !.heap = @ + 1]
    IN  IF name \notin DOMAIN FileLen THEN [w EXCEPT !.r = "NOTFOUND"]
        ELSE IF gzip THEN Done(httpdSend(w, <<"501">>))     \* opened and closed again
        ELSE More(httpdSend(opened, <<"200">>))

ReadFile_OneChunk(w) ==
    LET f == w.s.cgiData
        len == Min({READ_LEN, FileLen[f.name] - f.pos})
    IN  Done(espFsClose(espconn_sent(w, [k \in 1 .. len |-> f.pos + k - 1])))
\* The calls from the sent callback: one chunk each, and none when the file ends.
ReadFile(w) ==
    LET f == w.s.cgiData
        len == Min({READ_LEN, FileLen[f.name] - f.pos})
        read == [w EXCEPT !.s.cgiData.pos = @ + len]
        sent == IF len > 0 THEN espconn_sent(read, [k \in 1 .. len |-> f.pos + k - 1]) ELSE read
    IN  IF len # READ_LEN THEN Done(espFsClose(sent)) ELSE More(sent)


cgiEspFsHook_NoCleanup(w) ==
    IF w.aborted THEN Done(w)
    ELSE IF w.s.cgiData = NoFile THEN OpenFile(w)
    ELSE ReadFile(w)
cgiEspFsHook_TwoPackets(w) ==
    IF w.aborted THEN Done(espFsClose(w))
    ELSE IF w.s.cgiData = NoFile /\ w.s.url \in DOMAIN FileLen THEN ReadFile(xmitSendBuff(OpenFile(w)))
    ELSE IF w.s.cgiData = NoFile THEN OpenFile(w)
    ELSE ReadFile(w)
cgiEspFsHook(w) ==
    IF w.aborted THEN Done(espFsClose(w))
    ELSE IF w.s.cgiData = NoFile THEN OpenFile(w)
    ELSE ReadFile(w)

UploadError(w) == Done([httpdSend(w, <<"400">>) EXCEPT !.s.cgiPrivData = TRUE])

\* The results of spi_flash_erase_sector and spi_flash_write are not looked at.
Flashed(w, offset) ==
    [w EXCEPT !.flash[NextPartition(userbin)] = FlashChunk(@, offset, w.s.post.data, w.fault),
              !.struck = @ \/ Strikes(offset, w.fault),
              !.failed = @ \/ Strikes(offset, w.fault)]

cgiUploadFirmware_Forgets(w) ==
    LET post == w.s.post
        offset == post.received - Len(post.data)
        invalid == \/ post.len > FIRMWARE_SIZE
                   \/ ~post.buff \/ w.req.method # "POST" \/ post.len < MAX_POST
                   \/ offset = 0 /\ ~check_header(post.data[1])
        flashed == Flashed(w, offset)
    IN  IF w.aborted THEN Done(w)
        ELSE IF invalid THEN UploadError(w)
        ELSE IF post.received = post.len THEN Done(httpdSend(flashed, <<"200">>))
        ELSE More(flashed)
cgiUploadFirmware(w) ==
    LET post == w.s.post
        offset == post.received - Len(post.data)
        begun == IF offset = 0 THEN [w EXCEPT !.s.cgiPrivData = FALSE] ELSE w
        invalid == \/ post.len > FIRMWARE_SIZE
                   \/ ~post.buff \/ w.req.method # "POST" \/ post.len < MAX_POST
                   \/ offset = 0 /\ ~check_header(post.data[1])
                   \/ offset % MAX_POST # 0
        flashed == Flashed(begun, offset)
    IN  IF w.aborted THEN Done(w)
        ELSE IF begun.s.cgiPrivData THEN Done(w)        \* refused at an earlier chunk
        ELSE IF invalid THEN UploadError(begun)
        ELSE IF post.received = post.len THEN Done(httpdSend(flashed, <<"200">>))
        ELSE More(flashed)

cgiRebootFirmware_Unchecked(w) ==
    IF w.aborted THEN Done(w)
    ELSE Done([httpdSend(w, <<"200">>) EXCEPT !.rebooting = TRUE, !.failed = FALSE])
cgiRebootFirmware(w) ==
    IF w.aborted THEN Done(w)
    ELSE IF ~check_header(w.flash[NextPartition(userbin)][0]) THEN Done(httpdSend(w, <<"400">>))
    ELSE Done([httpdSend(w, <<"200">>) EXCEPT !.rebooting = TRUE, !.failed = FALSE])

\* cgiRedirect, cgiMenu, cgiGetFirmwareNext and their like.
cgiPage(w) == Done(IF w.aborted THEN w ELSE httpdSend(w, <<"page">>))

CallCgi(w) ==
    CASE w.s.cgi = "cgiPage" -> cgiPage(w)
      [] w.s.cgi = "cgiEspFsHook" -> cgiEspFsHook(w)
      [] w.s.cgi = "cgiUploadFirmware" -> cgiUploadFirmware(w)
      [] w.s.cgi = "cgiRebootFirmware" -> cgiRebootFirmware(w)

-----------------------------------------------------------------------------
(* Requests.                                                               *)

\* The handler of a matching route is called.
Ask(w, route) ==
    IF w.r = "NOTFOUND" /\ IsMatch(route, w.s.url)
    THEN CallCgi([w EXCEPT !.s.cgiData = NoFile, !.s.cgi = route.cgi])
    ELSE w

\* What becomes of the result: wait for the sent callback, or be done.
Answer(w) ==
    IF w.r = "MORE" THEN xmitSendBuff(w)
    ELSE [xmitSendBuff(IF w.r = "NOTFOUND" THEN httpdSend(w, <<"404">>) ELSE w)
              EXCEPT !.s.cgi = NoHandler]

\* Ask every matching route in turn, until one does not return NOTFOUND.
httpdProcessRequest(w) ==
    LET ask[i \in 0 .. Len(builtInUrls)] ==
            IF i = 0 THEN [w EXCEPT !.r = "NOTFOUND"]
            ELSE Then(ask[i - 1], LAMBDA x : Ask(x, builtInUrls[i]))
    IN  IF w.s.url = NULL THEN w ELSE Then(ask[Len(builtInUrls)], Answer)

\* Only GET and POST are known, for others url stays NULL.  Without a
\* Content-Length (contentLength = -1) there is no body and no buffer.
httpdParseHeaders_KeepLen(w) ==
    LET url == IF w.req.method \in {"GET", "POST"} THEN w.req.url ELSE NULL
        post == [w.s.post EXCEPT !.len = w.req.contentLength,
                                 !.buffSize = Min({w.req.contentLength, MAX_POST}),
                                 !.buff = TRUE, !.data = <<>>]
    IN  IF w.req.contentLength < 0 THEN [w EXCEPT !.s.url = url]
        ELSE [w EXCEPT !.s.url = url, !.s.post = post, !.heap = @ + 1]
httpdParseHeaders(w) ==
    LET req == w.req
        url == IF req.method \in {"GET", "POST"} THEN req.url ELSE NULL
        post == [w.s.post EXCEPT !.len = req.contentLength,
                                 !.buffSize = Min({req.contentLength, MAX_POST}),
                                 !.buff = TRUE, !.data = <<>>]
    IN  IF req.contentLength < 0 THEN [w EXCEPT !.s.url = url, !.s.post.len = 0]
        ELSE [w EXCEPT !.s.url = url, !.s.post = post, !.heap = @ + 1]

\* head[headPos] = 0, after every byte: after the one that fills head the zero
\* goes one past its end, where the first byte of headPos is (struct HttpdPriv;
\* the processor stores the low byte first).
Terminated(n) == IF n < MAX_HEAD_LEN THEN n ELSE n - (n % BYTE)

HeadUnit_NoLimit(w, completes) ==
    LET kept == [w EXCEPT !.s.headPos = @ + 1]
        Begin(x) == IF x.s.post.len = 0 THEN httpdProcessRequest(x) ELSE x
    IN  IF completes THEN Then(httpdParseHeaders(kept), Begin) ELSE kept
\* What does not fit the head buffer is dropped, and with it perhaps the end.
HeadUnit(w, completes) ==
    LET fits == w.s.headPos # MAX_HEAD_LEN
        kept == [w EXCEPT !.s.headPos = Terminated(IF fits THEN @ + 1 ELSE @)]
        Begin(x) == IF x.s.post.len = 0 THEN httpdProcessRequest(x) ELSE x
    IN  IF fits /\ completes THEN Then(httpdParseHeaders(kept), Begin) ELSE kept

ChunkReady(post) == Len(post.data) >= post.buffSize \/ post.received = post.len
BodyUnit(w, content) ==
    LET Handle(x) == IF ChunkReady(x.s.post)
                     THEN [httpdProcessRequest(x) EXCEPT !.s.post.data = <<>>]
                     ELSE x
    IN  Then([w EXCEPT !.s.post.data = Append(@, content), !.s.post.received = @ + 1], Handle)

\* The content of the body unit at place k of what client p sends.
Content(p, req, k) == <<p, IF k = 0 /\ ~req.firmware THEN Junk ELSE k>>
RequestLen(req) == req.headUnits + Max({req.contentLength, 0})

\* httpdProcessRequest calls the handler for each bufferful of the body, as for
\* a new request: only cgiUploadFirmware is made for that.
CalledAgain(req) == req.contentLength > MAX_POST /\ req.url # "/flash/upload"

\* The loop of httpdRecvCb, for the unit at place k of the request.
RecvUnit(p, w, k) ==
    IF w.s.post.len < 0 THEN HeadUnit(w, k = w.req.headUnits - 1)
    ELSE IF w.s.post.len # 0 THEN BodyUnit(w, Content(p, w.req, k - w.req.headUnits))
    ELSE w

-----------------------------------------------------------------------------
(* The callbacks.                                                          *)

World(i, p, garbage, fault) ==
    [s |-> slot[i], aborted |-> FALSE, buff |-> <<>>, sent |-> <<>>, packets |-> 0, heap |-> heap[i],
     flash |-> flash, rebooting |-> rebooting, r |-> "MORE", req |-> client[p].req,
     garbage |-> garbage, fault |-> fault, struck |-> FALSE, failed |-> failed]

\* delivered says whether espconn_sent took the packets; its result is ignored.
Received(c, w, delivered) ==
    IF delivered THEN [c EXCEPT !.got = @ \o w.sent, !.packets = @ + w.packets]
    ELSE [c EXCEPT !.lost = TRUE]

\* What a callback leaves behind: conn is what FindConnData stored.
Finish(i, p, w, delivered) ==
    /\ ~delivered => p \in Unreliable /\ w.packets > 0
    /\ w.fault # "none" => w.struck
    /\ conn' = [conn EXCEPT ![i] = p]
    /\ slot' = [slot EXCEPT ![i] = w.s]
    /\ heap' = [heap EXCEPT ![i] = w.heap]
    /\ client' = [client EXCEPT ![p] = Received(@, w, delivered)]
    /\ flash' = w.flash
    /\ rebooting' = w.rebooting
    /\ alone' = IF w.struck THEN {}
                ELSE IF w.flash = flash THEN alone ELSE alone \cap {p}
    /\ failed' = w.failed
    /\ UNCHANGED <<remote, link, userbin, repeats>>

FreeSlots_NoHandler == {i \in Slots : slot[i].cgi = NoHandler}
FreeSlots == {i \in Slots : conn[i] = NULL}

\* "Aiee, conn pool overflow!": no callback is registered, and the SDK hangs up.
httpdConnectCb(p, req) ==
    /\ link[p] = "closed"
    /\ client' = [client EXCEPT ![p] = [Gone EXCEPT !.req = req]]
    /\ \/ /\ FreeSlots = {}
          /\ link' = [link EXCEPT ![p] = "refused"]
          /\ UNCHANGED <<conn, remote, slot, alone, repeats>>
       \/ \E i \in FreeSlots :
          /\ \A j \in FreeSlots : i <= j
          /\ link' = [link EXCEPT ![p] = "open"]
          /\ conn' = [conn EXCEPT ![i] = p]
          /\ remote' = [remote EXCEPT ![i] = p]
          /\ slot' = [slot EXCEPT ![i] = Prepared(@)]
          /\ alone' = alone \cup {p}
          /\ repeats' = IF CalledAgain(req) THEN repeats \cup {i} ELSE repeats
    /\ UNCHANGED <<heap, arrived, acked, flash, userbin, rebooting, failed>>

\* n more units of the request arrive.
httpdRecvCb(p, n, garbage, fault, delivered) ==
    /\ link[p] = "open"
    /\ arrived[p] + n <= RequestLen(client[p].req)
    /\ arrived' = [arrived EXCEPT ![p] = @ + n]
    /\ \E i \in Find(p) :
          LET received[k \in 0 .. n] ==
                  IF k = 0 THEN World(i, p, garbage, fault)
                  ELSE Then(received[k - 1], LAMBDA w : RecvUnit(p, w, arrived[p] + k - 1))
          IN  \E w \in {received[n]} : Finish(i, p, w, delivered)
    /\ UNCHANGED acked

\* A packet was acknowledged: the handler goes on, or the connection is closed.
httpdSentCb(p, delivered) ==
    /\ link[p] = "open"
    /\ acked[p] < client[p].packets
    /\ acked' = [acked EXCEPT ![p] = @ + 1]
    /\ \E i \in Find(p) :
          LET GoOn(w) == IF w.r = "MORE" THEN xmitSendBuff(w)
                         ELSE [xmitSendBuff(w) EXCEPT !.s.cgi = NoHandler]
          IN  IF slot[i].cgi = NoHandler
              THEN /\ link' = [link EXCEPT ![p] = "closing"]            \* espconn_disconnect
                   /\ conn' = [conn EXCEPT ![i] = p]
                   /\ delivered
                   /\ UNCHANGED <<remote, slot, heap, client, flash, userbin, rebooting, alone, failed,
                                  repeats>>
              ELSE \E w \in {Then(CallCgi(World(i, p, FALSE, "none")), GoOn)} : Finish(i, p, w, delivered)
    /\ UNCHANGED arrived

\* httpdRetireConn: the handler is called once more, without a connection.
Retired(i, p) ==
    LET w == [World(i, p, FALSE, "none") EXCEPT !.aborted = TRUE]
    IN  IF w.s.cgi = NoHandler THEN w ELSE CallCgi(w)

httpdRetireConn(p) ==
    /\ conn' = [i \in Slots |-> IF i \in Find(p) THEN NULL ELSE conn[i]]
    /\ remote' = [i \in Slots |-> IF i \in Find(p) THEN NULL ELSE remote[i]]
    /\ slot' = [i \in Slots |-> IF i \notin Find(p) THEN slot[i] ELSE
                   [Retired(i, p).s EXCEPT !.cgi = NoHandler, !.post.buff = FALSE]]
    /\ heap' = [i \in Slots |-> IF i \notin Find(p) THEN heap[i] ELSE
                   Retired(i, p).heap - (IF slot[i].post.buff THEN 1 ELSE 0)]
    /\ link' = [link EXCEPT ![p] = "closed"]
    /\ client' = [client EXCEPT ![p] = Gone]
    /\ arrived' = [arrived EXCEPT ![p] = 0]
    /\ acked' = [acked EXCEPT ![p] = 0]
    /\ alone' = alone \ {p}
    /\ UNCHANGED <<flash, userbin, rebooting, failed, repeats>>

\* The connection ends, from either side or by a failure.  Of a connection that
\* was refused no slot is found.
httpdDisconCb(p) == link[p] # "closed" /\ httpdRetireConn(p)
httpdReconCb(p) == link[p] = "open" /\ httpdRetireConn(p)

\* flash_reboot_timer: system_upgrade_reboot starts the other firmware.
Reboot ==
    /\ rebooting
    /\ userbin' = NextPartition(userbin)
    /\ conn' = [i \in Slots |-> NULL]
    /\ remote' = [i \in Slots |-> NULL]
    /\ slot' = [i \in Slots |-> FreeSlot]
    /\ heap' = [i \in Slots |-> 0]
    /\ link' = [p \in Clients |-> "closed"]
    /\ client' = [p \in Clients |-> Gone]
    /\ arrived' = [p \in Clients |-> 0]
    /\ acked' = [p \in Clients |-> 0]
    /\ rebooting' = FALSE
    /\ alone' = {}
    /\ failed' = FALSE
    /\ repeats' = {}
    /\ UNCHANGED flash

-----------------------------------------------------------------------------
Init ==
    /\ conn = [i \in Slots |-> NULL]
    /\ remote = [i \in Slots |-> NULL]
    /\ slot = [i \in Slots |-> FreeSlot]
    /\ heap = [i \in Slots |-> 0]
    /\ link = [p \in Clients |-> "closed"]
    /\ client = [p \in Clients |-> Gone]
    /\ arrived = [p \in Clients |-> 0]
    /\ acked = [p \in Clients |-> 0]
    /\ flash = [u \in Userbins |-> IF u = 0 THEN FactoryImage ELSE Blank]
    /\ userbin = 0            \* "make flash" writes user1.bin only
    /\ rebooting = FALSE
    /\ alone = {} /\ failed = FALSE /\ repeats = {}

Connect(p) == \E req \in Requests[p] : httpdConnectCb(p, req)
\* What an uninitialized buffer holds decides about a gzipped file only.
Garbages(req) == {FALSE, req.gzip}
Deliveries(p) == IF p \in Unreliable THEN BOOLEAN ELSE {TRUE}
Recv(p) ==
    /\ link[p] = "open"
    /\ \E n \in 1 .. RequestLen(client[p].req) - arrived[p], garbage \in Garbages(client[p].req),
          fault \in FlashFaults \cup {"none"}, delivered \in Deliveries(p) :
            httpdRecvCb(p, n, garbage, fault, delivered)
Sent(p) == \E delivered \in Deliveries(p) : httpdSentCb(p, delivered)

Next ==
    \/ \E p \in Clients : \/ Connect(p)
                          \/ Recv(p)
                          \/ Sent(p)
                          \/ httpdDisconCb(p)
                          \/ httpdReconCb(p)
    \/ Reboot

\* A client that stays sends all of its request, what is sent is acknowledged,
\* and espconn_disconnect is followed by the disconnect callback.
Fairness ==
    \A p \in Clients : /\ WF_vars(Recv(p))
                       /\ WF_vars(Sent(p))
                       /\ WF_vars(link[p] \in {"closing", "refused"} /\ httpdDisconCb(p))

Spec == Init /\ [][Next]_vars /\ Fairness

-----------------------------------------------------------------------------
(* Properties.                                                             *)

LinkStates == {"closed", "open", "refused", "closing"}
PostOK(post) ==
    /\ post.len \in -1 .. 2 * FIRMWARE_SIZE
    /\ post.buff => Len(post.data) < Max({post.buffSize, 1})
    /\ post.received \in 0 .. Max({post.len, 0})

\* The types, with the limits of the buffers: the characters of a head stay in
\* head[MAX_HEAD_LEN], although the zero behind them may not (it then falls on a
\* byte of headPos that is zero), those of a body in the buffer that was
\* allocated for it, and a full one does not wait.
TypeOK ==
    /\ conn \in [Slots -> Clients \cup {NULL}]
    /\ remote \in [Slots -> Clients \cup {NULL}]
    /\ link \in [Clients -> LinkStates]
    /\ \A i \in Slots :
        /\ slot[i].cgi \in Handlers \cup {NoHandler}
        /\ slot[i].headPos \in 0 .. MAX_HEAD_LEN
        /\ PostOK(slot[i].post)
    /\ heap \in [Slots -> Nat]
    /\ arrived \in [Clients -> Nat]
    /\ \A p \in Clients : acked[p] \in 0 .. client[p].packets
    /\ userbin \in Userbins
    /\ rebooting \in BOOLEAN
    /\ alone \subseteq Clients /\ failed \in BOOLEAN /\ repeats \subseteq Slots

\* "Shouldn't happen" (httpd.c:114): a callback of a connection that was
\* accepted always finds its slot, no two connections find the same one, and a
\* slot that is not free belongs to a connection that exists.
SlotOwnership ==
    /\ conn = remote
    /\ \A p \in Clients : link[p] \in {"open", "closing"} <=> \E i \in Slots : remote[i] = p
    /\ \A i, j \in Slots : remote[i] # NULL /\ remote[i] = remote[j] => i = j

\* What a slot refers to.
Owned(s) == (IF s.cgi = "cgiEspFsHook" /\ s.cgiData # NoFile THEN 1 ELSE 0)
         + (IF s.post.buff THEN 1 ELSE 0)

\* No file handle and no body buffer is freed twice, wherever the connection
\* ends (cgiEspFsHook's "Connection aborted. Clean up." and httpdRetireConn),
\* and none is lost either: what is allocated for a slot is what the slot refers
\* to.  Only a request whose handler is called again loses handles: the next call
\* clears cgiData (httpd.c:348) while the file it refers to is open.
HeapAccounted ==
    \A i \in Slots : /\ heap[i] >= Owned(slot[i])
                     /\ i \notin repeats => heap[i] = Owned(slot[i])

\* What a request is answered with.  A gzipped file is refused to a client that
\* does not accept it, but the test may read an uninitialized buffer.
FileAnswer(name) == <<"200">> \o [k \in 1 .. FileLen[name] |-> k - 1]
ValidUpload(req) == req.method = "POST" /\ req.firmware /\ req.contentLength \in MAX_POST .. FIRMWARE_SIZE
Answers(req) ==
    CASE req.url = "/" -> {<<"page">>}
      [] req.url = "/flash/upload" -> {IF ValidUpload(req) THEN <<"200">> ELSE <<"400">>}
      [] req.url = "/flash/reboot" -> {<<"200">>, <<"400">>}
      [] req.url \in DOMAIN FileLen \ {"/", "/flash/upload", "/flash/reboot"} ->
            {FileAnswer(req.url)} \cup (IF req.gzip /\ ~req.accepts THEN {<<"501">>} ELSE {})
      [] OTHER -> {<<"404">>}

\* p has sent a request whose handler answers it in one go, or in its own time.
Plain(p) == client[p].req # NULL /\ ~CalledAgain(client[p].req)

\* What a client receives is the beginning of the answer to its own request:
\* no part twice, missing or out of order, none of another connection that
\* shared the slot, however the request was cut and the callbacks interleaved.
\* Of a head that was dropped in part nothing is acted upon, whatever it was.
AnswerInOrder ==
    /\ \A p \in Clients : Plain(p) /\ ~client[p].lost =>
          \E answer \in Answers(client[p].req) : IsPrefix(client[p].got, answer)
    /\ \A p \in Clients : client[p].req # NULL /\ client[p].req.headUnits > MAX_HEAD_LEN =>
          client[p].packets = 0

\* The server closes a connection only when all of the answer was sent and
\* acknowledged ("mark for destruction", httpd.c:306-309).
CompleteWhenClosed ==
    \A p \in Clients : link[p] = "closing" /\ Plain(p) /\ ~client[p].lost =>
        client[p].got \in Answers(client[p].req) /\ acked[p] = client[p].packets

\* espconn_sent is not called again before the sent callback of the last packet.
OneSendAtATime == \A p \in Clients : Plain(p) => client[p].packets - acked[p] <= 1

\* The requests httpd.c can answer and finish: not those of another method
\* (url stays NULL), nor a head that is too long, nor a body that calls its
\* handler again, nor a file whose last read is a full one (EveryAnswerEnds).
Answerable(req) ==
    /\ ~CalledAgain(req)
    /\ req.method \in {"GET", "POST"}
    /\ req.headUnits <= MAX_HEAD_LEN
    /\ req.url \in DOMAIN FileLen => FileLen[req.url] % READ_LEN # 0
\* The handler "does not send and is called no more" is the hazard: each
\* connection of a client that stays is answered and closed, unless
\* espconn_sent failed.
Served ==
    \A p \in Clients : (link[p] = "open" /\ Answerable(client[p].req))
                           ~> (link[p] # "open" \/ client[p].lost)

\* httpd.c:325-328: "call it, and dependent on what it returns either find the
\* next cgi function, wait till the cgi data is sent or close up the
\* connection".  Whatever is served completely is closed by the server, as its
\* "Connection: close" says.
EveryAnswerEnds ==
    \A p \in Clients :
        (link[p] = "open" /\ client[p].got \in Answers(client[p].req)) ~> link[p] # "open"

-----------------------------------------------------------------------------
(* Firmware.                                                               *)

\* When an upload is answered "200" and no other came between, the partition
\* holds the image, every unit at its place and on erased flash: whatever
\* uploads were broken off or failed before.  Only of one with a flash
\* operation that failed, which is answered with "200" as well, it is not known.
ImageIntact ==
    \A p \in alone : client[p].req.url = "/flash/upload" /\ client[p].got = <<"200">> =>
        \A k \in 0 .. client[p].req.contentLength - 1 :
            flash[NextPartition(userbin)][k] = Content(p, client[p].req, k)

\* "allowing for new code to be uploaded into one partition while running from
\* the other" (README.md:185): no step changes the partition that runs,
\* whatever fails.
RunningUntouched == [][flash'[userbin] = flash[userbin]]_vars

\* cgiRebootFirmware checks "that the 'next' partition actually contains
\* something that looks like valid firmware" 2 seconds before the reboot: it
\* still does then, although uploads may begin and break off meanwhile, unless
\* a flash operation of one of them failed.
BootsFirmware ==
    [][userbin' # userbin /\ ~failed => check_header(flash[userbin'][0])]_vars

=============================================================================
