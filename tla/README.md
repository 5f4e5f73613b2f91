# TLA+ models of ems-esp-link

ems-esp-link is firmware for an ESP8266 that sits on the EMS bus of a heating
system.  It receives EMS telegrams through the UART, hands them to TCP clients
(the serial bridge on port 23) and offers a web server for its configuration,
its logs and firmware updates.  It is written on Espressif's non-OS SDK: one
system task runs all network callbacks and timers to completion, one after the
other; the UART's interrupt handler may interrupt anything.

This directory holds TLA+ specifications of the firmware's own logic, the
configurations under which TLC checks them, and TLAPS proofs.  Line numbers
refer to the repository (`src/` in `PROJECT.json` is its root).

Running: `tlc -config Httpd.cfg MCHttpd` checks one configuration,
`tlapm EmsRx_proofs.tla` checks one proof module.  `PROJECT.json` lists the runs,
which definition models which lines, the mutations each property detects, the
hazards, the findings and the theorems.

## 1. The system

| Component | Files | State | Operations |
|---|---|---|---|
| EMS receive path | serial/uart.c, user/ems.c, part of user/user_main.c | hardware FIFO, `uart_buffer`, ring of `EMS_MAXBUFFERS` transfer buffers, task queue, `uart_recv_cb[]` | interrupt handler, receive task, registration, boot |
| serial bridge | serial/serbridge.c | `connData[MAX_CONN]`, transmit buffers, telnet state | connect, receive, sent, disconnect, reconnect callbacks, `serbridgeUartCb` |
| configuration | user/config.c | `flashConfig`, two flash sectors | `configSave`, `configRestore`, (`configWipe`, unused) |
| web server | httpd/httpd.c | `connData[]` with parse state, body buffer, current handler | TCP callbacks, parse, route, retire |
| static files | httpd/httpdespfs.c | file handle per connection | `cgiEspFsHook` |
| firmware upload, reboot | user/cgiflash.c | flash partitions, reboot timer | `cgiUploadFirmware`, `cgiRebootFirmware`, `cgiGetFirmwareNext` |
| authentication, base64 | httpd/auth.c, base64.c | none | pure; in no route of user_main.c |
| debug log, console | user/log.c, serial/console.c, html/console.js | two character rings with positions | write, poll over HTTP, reset |
| WiFi, fail-safe | user/cgiwifi.c | mode, scan result, two timers, connection reason | scan, connect, set mode, timers, SDK events |
| outgoing TCP | serial/tcpclient.c | channels with buffers | called by nothing in this firmware |
| espfs, image builder | espfs/, espfs/mkespfsimage | image in flash, file handles | build; mount, open, flags, read, close |
| telegram formats, SNTP | user/ems.c (`emsRxHandler`) | none that lasts | printing a telegram |
| LEDs, pins | user/status.c, serial/serled.c, user/cgipins.c, user/cgitcp.c | blink timers | the last two are not in the routes |
| web pages | html/ | browser | polling |
| syslog decoder | java/EMSSyslog | header under way, position in the stream | connect, read a telegram, find the next one, pass it on |

Interactions.  The interrupt handler writes a transfer buffer and posts an
event; the receive task calls `serbridgeUartCb` (and the console's callback)
with that buffer; the bridge appends it to the transmit buffer of every
connection.  Network callbacks reach a connection through `espconn->reverse`
(bridge) or through the peer's address and port (web server).  Web handlers
change `flashConfig` and call `configSave`; the upload handler writes the other
firmware partition; the reboot handler arms a timer.  Logs are written from
everywhere and read by polling.  The file handler reads an image that was built
on another machine; the syslog decoder reads what the bridge sends, in whatever
pieces TCP brings it.

### What is hard about it

- Interrupt against task: shared buffers with no locking, an index that moves
  in the task only, events that may come in pairs.
- The rule of espconn: no second `espconn_sent` before the sent callback of the
  first.  Every sender keeps a flag or a buffer for that, and whatever waits
  leaves only in a sent callback; a call that fails has no callback.
- Slots that are used again: parse state, buffers, telnet state, file handles
  and "which connection is it" must not survive the connection.
- TCP cuts requests and telnet escapes anywhere.
- Power may fail anywhere in a save, and a flash operation anywhere in a save or
  an upload.
- Two programs have to agree on a format nobody checks: builder and reader on
  lengths and padding, bridge and decoder on where a telegram ends.

`hazards` in `PROJECT.json` lists them line by line with the properties that
would notice.

### What would make each component correct

- receive path: every telegram reaches every callback once, whole, in order,
  with its own time stamps; nobody writes a buffer that is being read; no
  buffer overruns.
- bridge: each client gets the telegrams from its connection on, whole and in
  order, except those its buffer had no room for; what it sends reaches the
  UART as if it were alone; its buffer always drains.
- configuration: one fault never costs a saved change.
- web server: each request gets the answer to it, complete, once; the
  connection then closes; nothing is freed twice, or lost.
- firmware: the running partition is never written, a reboot finds firmware, an
  acknowledged upload is in flash as sent.
- log and console: a reader sees all characters in order or is told that some
  are missing.
- WiFi: whatever the user configures, the device stays reachable (README.md:128).
- espfs: a name finds the file archived under it, and reading gives that file, to
  its end and no further, whatever else is open; a search ends.
- decoder: what it passes on was sent; it loses no more than it must and always
  gets back to a header.

## 2. The modules

| Module | Models | Kind |
|---|---|---|
| `EmsRx` | uart.c receive side, boot part of user_main.c | specification |
| `MCEmsRx` | | instance: the bridge's callback alone is registered, as in user_main.c |
| `Facts` | | lemmas: `%`, least numbers, induction up to n, folds, joined sequences; used by five proof modules |
| `EmsRx_proofs` | | theorems |
| `Telnet` | `telnetUnwrap` of serbridge.c | operators |
| `SerBridge` | serbridge.c | specification, uses `Telnet` |
| `MCSerBridge` | | instance: packets with raw bytes, telnet commands and commands cut in two |
| `SerBridge_proofs` | | theorems |
| `ConfigCell` | the promise of config.c, without sectors | abstract specification |
| `ConfigFlash` | config.c | specification, refines `ConfigCell` |
| `FileStore` | what a file system for reading promises, without an image | abstract specification |
| `EspFs` | espfs.c, mkespfsimage/main.c | specification, refines `FileStore` |
| `MCEspFs` | | instance: names, contents and addresses at the edges of the alignment |
| `EspFs_proofs` | | theorems |
| `EMSSyslog` | EMSSyslog.java | specification |
| `MCEMSSyslog` | | instance: three frames of any of eight kinds |
| `EMSSyslog_proofs` | | theorems |
| `FirmwareFlash` | partitions, erase, write, header test of cgiflash.c | operators |
| `Httpd` | httpd.c, httpdespfs.c, cgiflash.c | specification, uses `FirmwareFlash` |
| `MCHttpd` | | instances: files, requests and uploads |
| `Httpd_proofs` | | theorems |
| `TextRing` | console.c, log.c, the polling of console.js | specification |
| `TextRing_proofs` | | theorems |
| `Wifi` | timers, modes, scan of cgiwifi.c, `log_uart` of log.c | specification |
| `MCWifi` | | instance: a network that can be joined and one that cannot |
| `Settings_proofs` | | theorems about `ConfigFlash` and `Wifi`, the settings kept in flash and those of the network |

Operators whose names have a suffix (`ToRead_Unbounded`) are plausible wrong
versions of the definition they stand before; no specification uses them.
They are the mutations that show each property can fail.

### EmsRx

A byte is the pair of its telegram and position.  The bus (`BusByte`,
`BusBreak`) fills the FIFO; `Isr` is one run of `uart0_rx_intr_handler`: it
empties the FIFO and, on a BREAK, copies the collected bytes with the trailer to
`*pEMSRxBuf` and posts.  The handler is atomic, since nothing interrupts it, but
`uart_recvTask` is three steps (`TaskStart` takes the pointer, `TaskAdvance`
moves the ring, `TaskCallback` calls one slot), since it is interrupted anywhere.
Boot is `UartInit`, `AddRecvCb`, `InitDone` in the order of `user_init`.
`prompt` says which parts of the environment keep up with the bus, chosen once
in `Init`: with "isr" the handler runs before another telegram follows, with "task"
the task does.  Properties that need one of them say so; the others hold without.

### Telnet, SerBridge

Each callback is an action.  `txbuffer` stands for the first `txbufferlen` bytes,
and `flight` for the data espconn was given and has not acknowledged.
`telnetUnwrap` is a recursive function over the bytes of a packet with the state kept
between packets.  `serbridgeUartCb` appends to every connection in the order of the
slots and sends where nothing is under way.  `espconn_sent` may refuse; the
code's reaction is in `sendtxbuffer`.

### ConfigCell, ConfigFlash

A configuration is the set of changes made to the defaults.  Each erase and
each write is an action that succeeds, or fails with any plausible remains; a
power cut may happen between any two and inside each.  The image's checksum is a
record of what was summed, so that the code's handling of the `crc` field (left
in the image while it is summed, zeroed at restore) is part of the model.
`configRestore` reads two sectors, either of which may be unreadable.

### FirmwareFlash, Httpd

A callback is an action; it works on a record `w` of everything it can touch,
as the C code works on `HttpdConnData`, and `Finish` writes the record back.
`httpdRecvCb` gets any number of units of the request at once and runs the loop
over them: head, `httpdParseHeaders`, body in chunks, `httpdProcessRequest` with
its walk through the routes.  `httpdSentCb` continues the handler or closes.
`httpdRetireConn` calls the handler once more without a connection, frees the
body buffer and the slot.  Handlers with state are modelled in full; the
handlers that answer at once and keep none are `cgiPage`.  `Reboot` is the timer.
Lengths are in units, of a size each instance chooses (`MAX_POST`, `READ_LEN`,
`SPI_FLASH_SEC_SIZE`, `FIRMWARE_SIZE`); `heap` counts what is allocated for a slot.
A chunk of an upload is an erase, when a sector begins, and a write; either may
fail (`FlashFaults`), and the code does not look at the result.  `failed` and `alone`
remember what the properties have to except: a failed operation, and which client's
upload no other one came between.  `arrived`, `acked`, `client` and `link` are the TCP stack.
`Then(w, Op)` only says that `w` is computed before `Op` uses it.

### FileStore, EspFs

The image is a function from offsets to cells, a cell standing for a byte; a
header's fields are all in its first cell and a name is in the first of its own, so
that a pointer that is off by a cell finds no header and no name.  `handleFile` is
one line of the builder's input with everything it leads to, and `finishArchive`
the last header; a line that names no readable file leaves nothing.  On the device
`espFsOpen` takes one step per header, since whether its loop ends is a question of
its own; the other calls are one action each, as nothing else runs in the task.
Lengths and offsets are the code's.  `FileStore` has no image: it knows the files
archived, and what is left to read of each handle.  The refinement mapping
reads that through the pointers of `EspFs`.  zlib is external: `compressGzip` may be any
function, also one that makes contents longer.

### EMSSyslog

The bytes of a connection are those the bridge sends for a sequence of frames,
chosen when it opens; time and TCP are in the reads, each of which returns any number
of the bytes asked for (`InputStream.read` promises no more).  Actions are the reads of
`getTelegramm`: `fillPkgHeader`, `fillPkgHeaderV2`, `fillPkgPayload` with the CRC and with what
`main` does with the telegram, and one byte of `waitForEndOfFrame`.  `Interrupted` is the
end of a connection, for whatever reason; `Timeout` is the case of it that must happen.
`pc` "dead" is the end of the program.  Lengths, time stamps and CRC are computed on
bytes as in the code; `BitXor` is a sum over bits, which the provers take for some function
on bytes, and `MCEMSSyslog` has TLC compare it with Java's operator for all bytes.
A frame has at most 125 bytes from the bus, as it has to fit the link's `uart_buffer`
with its BREAK and its trailer (uart.c:209); `IrqFits` of `EmsRx` is that it does.

### TextRing

console.c and log.c are the same program twice, so one specification serves for
both; `Init` chooses which of the two pages is looked at (console.html repeats its
requests, log.html has a button; only the console can be reset).  A character is
its number and a kind, which decides how wide it is in JSON; `Put` is
`console_write`, `Answer` the whole of `ajaxConsole` and `ajaxLog` with the limit of
their loop.  The page is up to `MaxChains` chains of `fetchText`, each of which waits
for a timer or for an answer; an answer may be overtaken by another, lost or too
late.  `flaw` remembers what the properties have to except: a reset while the page was
open, two requests at a time, an answer cut short by the limit (the code reports the
full length, so the page skips the rest without a mark).

### Wifi

An action per request handler, per timer callback and per event of the SDK.  `status` is
what `wifi_station_get_connect_status` says; `air` is the network, which may be there
or not, and assign addresses or not.  `reassTimer` is one timer with two callbacks: what
it will do is its value.  Time is left out, so every order of the timers and
the network is included.  `unchecked` remembers which changes no check has found to
work; `asked` and `overtaken` what was last asked for and which change was replaced in
the shared timer.  Saving the configuration succeeds here (its failures are in
`ConfigFlash`); modes are those the pages offer, 1 to 3.

## 3. The runs

| Run | Configuration | Question |
|---|---|---|
| `ems_rx` | EmsRx.cfg | are telegrams delivered whole, once, in order, with their stamps, from buffers nobody is writing |
| `ser_bridge` | SerBridge.cfg | ownership of slots, exact broadcast, isolation of clients, draining |
| `ser_bridge_stall` | SerBridgeStall.cfg | finding 1 |
| `config_flash` | ConfigFlash.cfg | one fault costs nothing; the sectors implement the cell |
| `httpd` | Httpd.cfg | safety of the web server with more clients than slots |
| `httpd_served` | HttpdServed.cfg | every answerable request is answered, every kind of request |
| `httpd_full` | HttpdFull.cfg | finding 2 |
| `upload` | Upload.cfg | overlapping, broken, failing and complete uploads, and reboots |
| `text_ring` | TextRing.cfg | does a page show the text of a ring in order, with its gaps, and catch up |
| `wifi` | Wifi.cfg | does the device stay within reach, are changes applied, do scans end |
| `espfs` | EspFs.cfg | are builder and reader together a file store, and do searches end |
| `syslog` | EMSSyslog.cfg | does the decoder invent, repeat or needlessly lose telegrams, does it come back |

### What the passing runs show

`ems_rx`.  `IrqFits`: the unchecked writes to `uart_buffer` stay inside it.
`HeaderMatchesBody`: stamps and length are of the telegram they travel with.
`WholeInOrder`, `AllDelivered`: what a callback gets, safety and liveness.
`TransmittedBufferStable`: the handler never touches the buffer the task reads,
with no assumption on speed.  Bounds: three transfer buffers (the code has 4;
two are the least with which the ring works), two events in the queue, a FIFO
of two bytes, telegrams of 0 to 2 bytes, four telegrams, so that the ring wraps
and queue, FIFO and buffer are each full in some state.  The assumption
`MaxLen + 2 <= EMS_MAXBUFFERSIZE` is a property of the bus: an EMS telegram is
at most 32 bytes, the buffer 128.

`ser_bridge`.  `SlotOwnership`, `BroadcastExact`, `ReceivedAlone`,
`OneSendAtATime`, `Drained`.  Bounds: three connections for two slots (refusal
and reuse), telegrams of one or two bytes for buffers of two (full, partly full
and overflowing buffers), three inputs, three connections accepted.  What the
properties relate is one connection with one slot, and the neighbour that
could disturb it; a third connection gives the reuse of a slot.  `ReceivedAlone`
takes what a client means from all of its bytes (`Decoded`), however they are cut,
with the exception the comment at serbridge.c:141-149 admits: if TCP cuts the
negotiation it is not recognised, and everything is passed on as it came.  The
instance has the negotiation whole, and in two packets.

`config_flash`.  `OneFaultTolerated` and `ImplementsCell`.  Bounds: five
changes and four faults since the last complete save.  Two saves with a fault
each are enough to lose everything (which `OneFaultTolerated` excludes by its
premise), so four faults cover every combination of the two sectors more than
once.  Deadlock is checked.

`httpd`.  Three clients for two slots, with a file of one and a half chunks, an upload
that is refused at its first chunk, a gzipped file, a head that fills its buffer
(`MAX_HEAD_LEN = 2`) and one that is too long, a file that is not there, and a POST to a
file with a body of two bufferfuls, for which the handler is called again and loses
its file; one client may be refused by `espconn_sent`.  `AnswerInOrder`,
`CompleteWhenClosed`, `OneSendAtATime`, `SlotOwnership`, `HeapAccounted`, and buffer
limits in `TypeOK`.  A byte has two values (`BYTE`), so that the size of the head is a
multiple of it, as 1024 is of 256.  `HeapAccounted` has two halves: in no slot is there
less than the slot refers to, so nothing is freed twice; and there is no more either,
so nothing is lost, in a slot outside `repeats`, which no request whose handler is
called again (`CalledAgain`) has had.  What such a request is told is excepted from the
properties of answers (`Plain`).  Clients come back without limit, connections end at
any moment; what bounds the run is `LeakBound`: handles are lost in the first slot
only, and one beyond the two blocks a slot can refer to (`MaxHeap`).

`httpd_served`.  Two clients that share one slot, with every kind of request,
among them an upload refused at its first chunk, a body of length 0 and one that
fills the buffer.  Only `Served`, the liveness property: one slot is enough for a
connection to wait on another, and safety with several is the run before.

`upload`.  An image of three units (two sectors, the second partly used, in chunks of
one unit), one of a single unit, erases and writes that fail, and reboots, by
two clients at once: each chunk of one may come between any two of the other.
`RunningUntouched`, `ImageIntact`, `BootsFirmware`.  A reboot into something that is not a
whole image is checked, but the run does not go on from there (`WholeImageRuns`): what
such a firmware would do nobody knows.

`espfs`.  `ImplementsStore` and `OpenEnds`; `TypeOK` has that no handle is past its file.
Up to three files with two names, one of them listed in two ways, so that
one file hides another; a name with its '\0' that fills its cells and one that
does not; contents that are compressed, that grow when compressed, that are empty;
two handles, for two at a time and for none left; reads shorter than a file, and
ones that go past its end; an address that is not aligned.  With three files every
walk has a first, a middle and a last entry; lengths matter modulo 4 only.

`syslog`.  `OnlySent`, `BoundedLoss`, `KeepsListening`; `TypeOK` has the limits of a payload.
Each frame is whole, has a wrong CRC, is a poll, has no byte at all, contains one
trailer byte or the other, is too short for its type, or has time stamps that look
like a header of version 2; any two follow one another, before a third that is plain or
has a trailer byte.  What is decided about a frame depends on the one before at most,
except for the bytes it is out of step, which `Got` varies: the third frame is the one
in which the decoder must have found back.  `BoundedLoss` is stated of frames without
trailer bytes and speaks of frames that did arrive in the pieces asked for; what it
excepts is what the code does lose (section 4).

`text_ring`.  `HoldsLatest` is the ring's invariant, `ShownInOrder` what a page shows,
`ResponseFits` the buffer on the stack, `CatchesUp` liveness under lost requests.
All but the last is proved for every size (section 5).  Bounds: a ring of four
characters (three fit), five written since the last reset, so
that the ring is full and has lost characters and its indexes have wrapped; room for
15 characters, enough for one control character and then some, so that answers are cut
and the limit of the loop is met exactly; two chains; one reset.  What is written
is chosen freely; the page may be loaded again without limit.

`wifi`.  `UartLogHonoured`, `ChangesApplied`, `FailSafe`, `ScanEnds`.  Bounds: three
requests (two that share the timer and a third that follows, such as a change of mode)
and one change of the network or power cut, from every mode, network and setting kept
in flash.  `ScanEnds` excepts a scan the SDK refused, `ChangesApplied` a change that
another one overtook within the second it waits: both are what the code does.

### Fairness

- `EmsRx`: weak fairness of `Isr` and of `RecvTask`.  A pending interrupt is
  served and a posted task is run by the SDK.  Nothing is assumed of the bus or
  of `user_init`.
- `SerBridge`: weak fairness of the sent, disconnect and reconnect callbacks of
  each connection.  TCP acknowledges or gives the connection up.  Clients and
  the UART owe nothing.
- `Httpd`: weak fairness of receiving (a client that does not leave sends all of
  its request), of the sent callback, and of the disconnect callback after the
  server itself has hung up.  Clients are not obliged to connect or to leave.
- `TextRing`: strong fairness of a chain's timer, of the answer and of its receipt:
  requests may fail and pages may be loaded again any number of times, but not always
  before the page gets any further.
- `Wifi`: weak fairness of the timers, and of the end of a scan that was
  started.  Nothing is assumed of the network or of the users.
- `EspFs`: weak fairness of the steps of a call of `espFsOpen`: a call runs until it
  returns.
- `EMSSyslog`: weak fairness of `getTelegramm`, whose thread does nothing else, and of
  `Timeout`, the socket's limit of 30 seconds.  The bridge owes nothing.

Deadlock checking is off only where inputs are bounded and the system comes to
rest: `EmsRx` (all telegrams sent), `SerBridge` (no input left) and `Wifi` (connected,
with no request left), and in `EMSSyslog`, where the program may end.

### Assumptions about the environment

- espconn: one closing callback per connection, none after it; `espconn_sent`
  copies its data; after `espconn_disconnect` no callback but the closing one;
  a peer's address and port belong to one connection at a time.
- Clients of the web server send a legal request: no byte beyond the
  Content-Length, no pipelining.
- `os_malloc` succeeds.
- A checksum or a header test accepts nothing that was not written by this
  firmware.  A flash operation that fails in an upload leaves the flash as it was
  (in a save of the configuration it may leave anything plausible).
- espfs: names are shorter than 256 characters, the length of the reader's buffer; the
  build host has memory and disk; the image in flash is the one that was built.
- Decoder: a connection begins with the start of a telegram, as the bridge appends
  whole ones; bytes arrive in order and unchanged (TCP), if at all.
- WiFi: associating needs a station mode and a network that is there; a DHCP client
  that is started again gives up the address it had; the station is set up also where
  it is switched off; a scan without a station is refused.

## 4. Findings

1. `ser_bridge_stall`: `readytosend` is cleared before `espconn_sent` and stays
   cleared when it fails: the connection is never sent anything again
   (serbridge.c:186-191).
2. `httpd_full`: a file whose length is a multiple of 1024 is sent, but its
   connection is not closed: the last call of the handler sends nothing, so no
   sent callback follows in which to close (httpdespfs.c:83, httpd.c:306-309).

Each of these runs checks one property that says what the code or its documentation
promises; TLC's trace shows the steps.  `Drained` and `Served` state the same liveness
without the failing case, and hold.

Also seen while modelling, with no run of their own:

- Two BREAKs before the task runs share one transfer buffer; the second event then
  passes a buffer nothing was received into, after boot memory that was never written
  (uart.c:256-260, 285).  `ems_rx` excepts it (`prompt`).
- A change of the addressing arms no check (cgiwifi.c:416-422), so that a device switched
  to DHCP where nobody assigns addresses has none and never opens its access
  point; README.md:128-130 promises that it does.  `FailSafe` leaves it out.
- A backup sector that could not be erased is called "no backup" (config.c:65) but still
  holds the configuration before, which a boot without a usable primary restores.
- The zero behind each byte of a head (httpd.c:480) goes one past `head` once 1024 are
  held, into `headPos`, which it leaves as it is: the low byte of 1024 is zero.
- A handler that does not take chunks, called for each bufferful of a body: `cgiData` is
  cleared first (httpd.c:348, 509) and the file it had open stays open for ever.
- A telnet negotiation cut by TCP is not recognised; the comment says so
  (serbridge.c:141-149).  `ReceivedAlone` says what the bytes become.
- An upload whose erase or write failed is answered with "200" like any other
  (cgiflash.c:127-138).
- Decoder: `waitForEndOfFrame` stops at either byte of the trailer, as its condition is
  joined with && (EMSSyslog.java:244), and goes on inside a telegram that has one; after
  an error in a frame that was read completely it swallows the next frame; a time stamp
  of 55 AA is taken for a header of version 2 (87); a short UBAMonitorSlow is an exception
  nobody catches (474-477).  The modulation is read at byte 13 (474), where ems.h:117-127
  has it at byte 10.

## 5. The proofs

All theorems hold for every value of the constants allowed by the named
assumptions (`EmsAssumption`, `BridgeAssumption`, `ConfigAssumption`,
`SectorAssumption`, `HttpdAssumption`, `HeadAssumption`, `ChunkAssumption`,
`RequestsAssumption`,
`RingAssumption`, `WifiAssumption`, `EspFsAssumption`, `SyslogAssumption`).  Two more only say that a value used as "nothing"
or "undefined" is not one of the data (`FlightAssumption`, `GarbageAssumption`), and
`FifoAssumption` that a whole telegram fits the receive FIFO, as 32 bytes do in 128.

| Module | Theorem | Property | Inductive invariant |
|---|---|---|---|
| `EmsRx_proofs` | `TypeCorrect` | `TypeOK` | `TypeOK`, and the telegram number and `sent` agree (`TelOK`) |
| | `TransmissionIsStable` | `TransmittedBufferStable` | `RingInv` |
| | `IrqBufferFits` | `IrqFits` | `LenInv` |
| | `HeaderBelongsToBody` | `HeaderMatchesBody` | `HeaderInv` |
| | `TelegramsInOrder` | `WholeInOrder` | `RxInv`, `FlowInv` |
| | `NoneIsForgotten` | the safety half of `AllDelivered` | `RxInv`, `FlowInv`, `NoneMissed` |
| `SerBridge_proofs` | `SlotsAreOwned` | `SlotOwnership` | `PoolInv` |
| | `SendsAreSequential` | `OneSendAtATime` | `PoolInv` |
| | `BridgeTypes` | `TypeOK` | `PoolInv`, `TypeOK` |
| | `TelegramsAreBroadcast` | `BroadcastExact` | `PoolInv`, `TypeOK`, `StreamInv` |
| | `ClientsAreDecodedAlone` | `ReceivedAlone` | `PoolInv`, `TypeOK`, `ReceivedInv` |
| | `NothingWaitsAlone` | the safety half of `Drained` | `PoolInv`, `TypeOK`, `TendedInv` |
| `Settings_proofs` | `ConfigTypeCorrect` | `TypeOK` | `ConfigInv` |
| | `OneFaultCostsNothing` | `OneFaultTolerated` | `ConfigInv` |
| | `SectorsImplementCell` | `ImplementsCell` | `ConfigInv` |
| `Httpd_proofs` | `ConnectionsOwnSlots` | `SlotOwnership` | `PoolInv` |
| | `TypesHold` | `TypeOK` | `WebInv` |
| | `NothingLeaks` | `HeapAccounted` | `WebInv` |
| | `RunningIsUntouched` | `RunningUntouched` | `WebInv` |
| | `BootsGoodFirmware` | `BootsFirmware` | `WebInv` |
| | `SendsOneAtATime` | `OneSendAtATime` | `WebInv`, `AnswerInv` |
| | `AnswersAreInOrder` | `AnswerInOrder` | `WebInv`, `AnswerInv` |
| | `ClosesWhenComplete` | `CompleteWhenClosed` | `WebInv`, `AnswerInv` |
| | `ImagesAreIntact` | `ImageIntact` | `WebInv`, `AnswerInv` |
| | `NobodyIsLeftWaiting` | the safety half of `Served` | `WebInv`, `AnswerInv`, `PaceInv` |
| `EspFs_proofs` | `TypesOfImage` | `TypeOK` | `IInv` |
| | `ImageIsStore` | `ImplementsStore` | `IInv` |
| | `SearchAdvances` | the safety half of `OpenEnds` | `IInv` |
| `TextRing_proofs` | `RingHoldsLatest` | `HoldsLatest` | `RingInv` |
| | `TextTypeCorrect` | `TypeOK` | `PageInv` |
| | `TextIsShownInOrder` | `ShownInOrder` | `PageInv` |
| | `AnswerFitsItsBuffer` | `ResponseFits` | `PageInv`, `ResponseFits` |
| `Settings_proofs` | `UartLogIsHonoured` | `UartLogHonoured` | `WifiInv` |
| | `ChangesAreApplied` | `ChangesApplied` | `WifiInv` |
| | `CheckStaysArmed` | the safety half of `FailSafe` | `WifiInv` |
| | `WifiTypeCorrect` | `WifiTypeOK` | `WifiInv` |
| | `ScanIsUnderWay` | the safety half of `ScanEnds` | `ScanUnderWay` |
| `EMSSyslog_proofs` | `SyslogTypes` | `TypeOK` | `IInv` |
| | `PassedOnWasChecked` | every telegram passed on was checked | `IInv` |
| | `OnlySentIsPassedOn` | `OnlySent`, with `AllPlain` or `NothingHidden` | `IInv` |
| | `LossIsBounded` | `BoundedLoss` | `IInv` |

- `RingInv`: after `TaskAdvance` the pointer is one ring position ahead of the
  buffer in the task's hand; two positions modulo the ring's size differ as the
  ring has two or more buffers.  This is why no lock is needed.
- `LenInv`: what is in the FIFO and in `uart_buffer` belongs to the one telegram
  on the bus and is no longer than it; with a prompt handler nothing of the
  previous telegram is left when the next begins.
- `HeaderInv`: the stamp the handler holds is that of the bytes it holds.
- `FlowInv`, on top of those (`RxInv`), follows a telegram through its stages, for a prompt
  handler and task.  What the handler has collected is a run of the telegram on
  the bus that ends where the FIFO begins (`CollectedIsRun`); each buffer between the
  handler and the task holds the telegram its number says (`BuffersHold`); and the number
  of telegrams given to a callback is that of those sent less those still on the way
  (`Counted`), which is why none is given twice or left out.  `WholeInOrder` speaks of
  the last stage alone.
- `NoneMissed`: with a prompt handler and task no telegram is lost that ended after
  `EMSInitDone`.  With `Counted`, a telegram no callback has got is on the way, and
  each stage of the way has its event: a BREAK, a post or the task itself.
- `PoolInv` of `SerBridge`: slot types, ownership in both directions
  (`reverse` and `conn`), a connection ready to send has no send under way, and a
  free connection has none either.
- `StreamInv`: nothing is kept of a connection that is not there, and what an open one was
  sent, is being sent and waits in its buffer is the telegrams it accepted.  A step moves
  bytes from one of the three to the next or adds one telegram at the end; that a send
  never begins over another (`ReadyMeansIdle`) is what keeps the order.
- `ReceivedInv`: the slot's mode and telnet state are those its owner's packets lead to
  (`Remembers`), of which the first alone decides the mode (`ModeOf`); what went to the UART
  is their bytes in that mode (`AllDecoded`); and a first packet that begins with the
  negotiation is the beginning of all the bytes (`BeginsWithFirst`).  The step is
  `UnwrapConcat`: `telnetUnwrap` of a buffer is that of its two parts, the second in the
  state the first leaves, wherever it is cut.  So if the negotiation was not cut
  (`FirstTogether`) the mode is that of the bytes, and the result is `Decoded` of them.
- `TendedInv`: a connection that is ready to send has nothing in its buffer, and one that is
  not has a send under way; the sent callback hands over what waits, or leaves the
  connection ready with nothing waiting.  A buffer `espconn_sent` has refused is the exception (`failed`).
- `ConfigInv`: types; `SaveProgress` (what is promised is part of what is in
  RAM, and once the primary is written it holds the new image); `SectorsAgree`
  (with no fault since the last complete save the sectors agree, and the backup
  holds what was promised until the primary holds more); `PromiseKept` (after
  one fault too the flash restores what was promised).  The promise is not
  inductive alone: it survives a fault only because the other sector is known
  to be good.
- `PoolInv` of `Httpd`: `conn` and `remote` agree, every live connection has
  exactly one slot.  `httpdRecvCb` runs a loop, but the loop only changes the
  record; that the pool is left alone follows from `Finish`.
- `WebInv` of `Httpd`: `PoolInv`; types; `SlotFine` of every slot: what is allocated for it
  and is not its body buffer or the file its handler holds (`SpareOf`) is nothing, or in a
  slot of `repeats` never less than nothing; and, for a live connection, the
  parse is where the number of bytes received says (`Progress`: in the head (`HeadIn`), without a
  body, or in a body of which the chunk not yet handled fits its buffer);
  `ClientFine`, the bookkeeping of TCP; and `SafeToBoot` (while the reboot timer runs
  the other partition begins like firmware, unless an operation failed).
  `HeapAccounted` alone is not inductive: whether a handler that is called holds a file, and
  whether a buffer is there to be freed, follows from where the parse is.
  Each handler has a lemma that says what it leaves alone (`Kept`) and what
  it takes and gives back (`Balanced`); the lemmas of `RecvUnit` add the state of the parse
  (`Standing`), and that what is spare does not shrink, nor grow unless the handler is
  called again.  The number of units received at once is arbitrary.  The prover has no
  induction, so the loop of `httpdRecvCb` is done with the least number of units after which
  the claim would fail.  `SafeToBoot` holds since an upload begins with a chunk that
  `check_header` has accepted, and erases no first byte later.
- `AnswerInv` of `Httpd`: `WebInv`, and how each slot stands with what its client was told
  (`Stage`), for requests whose handler is not called again.  Before the head is parsed
  and the first chunk is complete nothing was told.  Then an upload is being written and nothing was told (`Uploading`); or it was refused and
  its rest is ignored (`Refused`); or a file was told up to its read position, with one
  packet not acknowledged (`Reading`); or the answer is complete (`Answered`).  `Ledger`
  relates that to the client: a packet that `espconn_sent` refused was the last, since no
  sent callback calls the handler again.  `Stored` is about the other partition, for a
  client in `alone`: it holds the image up to where the body was handed over (`Begins`), and
  what is left of a sector that was begun is erased (`Clean`); after "200" it holds all.
  `OneSendAtATime` and `AnswerInOrder` are not inductive: that a handler which is called
  sends the next part, and only one packet, depends on where the slot stands.  Each handler
  has a lemma that says what it sends and leaves (`PageTells`, `OpenTells`, `ReadTells`,
  `UploadTells`), `ProcessTells` follows them through the routes, and `BodyTells` and
  `HeadTells` through a unit of the request.
- `PaceInv` of `Httpd`, for the same requests: while the head is not complete and fits, it holds every unit that
  arrived (`HeadAt`), so a head that fits is not dropped; `cgiEspFsHook` has read whole
  chunks until now (`Chunked`), so the last one is empty only for a file of a
  multiple of `READ_LEN` bytes, and `Answerable` leaves those out; a
  client that was sent something has a packet to acknowledge (`Awaits`).
- `ChunkAssumption`: a sector is a whole number of body buffers (4096 and 1024 bytes).
  `cgiUploadFirmware` erases a sector before the chunk that begins it (cgiflash.c:124-128), so
  a chunk that reached into the next sector would be written on flash nobody erased, and
  then be erased.
- `HeadAssumption`: `MAX_HEAD_LEN` is a multiple of `BYTE` (1024 and 256).  The zero of
  httpd.c:480 goes one past a full `head`, where the low byte of `headPos` is
  (`Terminated`; the compiler puts the int right behind the array, and the processor stores
  its low byte first).  Only a multiple has a zero there already; with another size the
  position would jump back into the head.
- `RequestsAssumption` only gives the ranges of a request's head and body, and says that no
  file has the name `NULL`.  A body longer than `MAX_POST` may go to any handler, which is
  then called once more for each further chunk, with `cgiData` cleared before
  (httpd.c:348, 509); only `cgiUploadFirmware` is made for that, and `cgiEspFsHook` loses the
  file it has open.  Of these requests (`CalledAgain`) the types, the ownership of
  slots, the partitions and that nothing is freed twice are proved like of any other;
  `repeats` collects the slots that may have lost a handle to them.  What they are
  answered is not stated: the code was not written for them and nothing says what
  it promises them.
- `RingInv` of `TextRing`: the write index is the number of characters written, modulo the
  size; the read index that of those lost; and character m is at index m - 1, modulo
  the size.  `HoldsLatest` speaks of lengths computed from the two indexes and is not
  inductive; `Facts` has the facts about `%` that lead from one to the other, of
  which the solver knows few.
- The width of an answer (`AnswerFitsItsBuffer`) is a sum over its characters: the longest
  part of the text that fits is found with the loop's limit of 2040, which one character more
  of at most six passes by no more than the rest of the buffer holds.
- `PageInv`: `RingInv`; types; `Current` (on a page without a flaw at most one request
  or answer is under way, a request asks from where the page ends, and an answer
  continues there: it is the ring's text from that place, or from a later one
  it names); `Shows` (what the page shows is in order up to its end).  `ShownInOrder`
  alone is not inductive: an answer under way may have been computed from indexes the
  ring has left since.
- `IInv` of `EspFs`: the entries follow one another at aligned offsets (`Chain`) and hold
  what was written (`Image`), which is the content or its compressed form, as the
  flag says (`Forms`); the walk stands at the start of an entry or at the end, and
  has passed no entry of the name it looks for (`WalkInv`); a handle points into the data
  of one entry (`HandleInv`).  From these every step of `EspFs` is one of
  `FileStore` or a stutter.  That the two ways of rounding, `Round` of a length in the
  builder and of an address in the reader, agree holds since the image is mounted at an aligned
  address only: a lemma the proof rests on.
- `Advances`: the walk's next header is the start of the next entry, at least a header
  behind this one; that it lies inside the image, where another header has room, follows
  from `Chain`.  As the image is finite, fairness of the loop alone gives `OpenEnds`.
- `WifiInv`: the three properties, the types, and that the network in `stconf` is
  the one last asked for while `reassTimer` waits to set it.
- `ScanUnderWay`: `scanInProgress` is set with the timer that starts the scan, and nothing
  disarms that timer but its firing, after which the SDK has the scan or has refused it, and
  a power cut, which clears the flag as well.

- `IInv` of `EMSSyslog`.  `Laid` says where in the stream each frame ends and which byte
  stands where, by induction over the frames.  `LengthRead`: the length a payload is asked
  for is the one in the bytes before it, also where those are none of a header.  With
  it `CheckedPieces` needs nothing of the frames: what is passed on is a piece of the
  stream with its length before it and its CRC and trailer behind it, and the next
  such piece begins where it ends, or later.  `PlainInv` is about streams without a byte that
  looks like the trailer: the decoder is at the end of a frame, at the payload of one
  with the length of this frame (after 10 bytes of its header, or 9 of a header cut short), or in
  one it may skip (`Located`); and of what lies behind it everything was passed on or
  may be lost (`Accounted`).  `BoundedLoss` is not inductive: that the next frame will
  be found depends on where the decoder is in this one.
- `OnlySentIsPassedOn` has two hypotheses, each enough.  `AllPlain` is that of
  `BoundedLoss`.  `NothingHidden` admits any bytes, and asks of the stream that nothing
  in it looks like a telegram (length, CRC and trailer) but what the frames carry.
  Without either it is false, and for every decoder of this format: it has no
  escape for its trailer, so a frame may hold what looks like another.  TLC has found
  `NothingHidden` true of every stream of the instance, those with trailer bytes
  and with a header of version 2 included, so that the run is within the theorem.

Only model-checked: liveness under fairness (`AllDelivered`, `Drained`, `Served`, `CatchesUp`,
`FailSafe`, `ScanEnds`, `OpenEnds`, `KeepsListening`), which the prover cannot do.  Of six of
them the safety half is a theorem: that something is always under way which is to bring the
matter forward (`NoneIsForgotten`, `NothingWaitsAlone`, `NobodyIsLeftWaiting`,
`CheckStaysArmed`, `ScanIsUnderWay`, `SearchAdvances`).  What they leave to TLC is that it
comes, by fairness, and that it comes often enough.  Every invariant and every action
property of the passing runs is stated by a theorem.

## 6. Not modelled

- `uart_config`, transmit registers, baud rates: register settings without
  control of their own.
- Text: URL decoding, argument parsing, header lines, JSON, formatting.
- `cgiReadFlash`, `cgiEspFsTemplate`, `cgiEspFsHtml`: compiled out; `configWipe`,
  tcpclient.c, auth.c, cgipins.c, cgitcp.c: called by nothing or in no route, so
  that nothing says what they are called with.
- The builder's command line and its byte order; the
  decompression of heatshrink; the messages and the debug levels of the decoder.
- `emsRxHandler`: prints a telegram and keeps nothing.
- status.c, serled.c: LED timers.
- The SDK, sntp and heatshrink: not this repository's code, or vendored.
- The index of the ring, `emsRxBufIdx`, is a signed int that grows for ever; it
  would overflow after some 60 years of traffic, and is a natural number here.

## 7. Plan

Done: 1 `EmsRx`, 2 `Telnet` and `SerBridge`, 3 `ConfigCell` and `ConfigFlash`,
4 `FirmwareFlash` and `Httpd`, 5 `TextRing`, 6 `Wifi`, 7 `FileStore` and `EspFs`,
8 `EMSSyslog`.

Next, in this order:

9. An abstract text and a reader of it, which only see characters and gaps, as
   a specification that `TextRing` implements for pages without a flaw; the same for a
   connection of `SerBridge` as a queue.
10. tcpclient.c, as the library it is, if it gains a caller.

Proofs to add: the steps of `Httpd` as those of an abstract server that only knows
requests and the part of the answer that was told; the abstract specifications of 9, with
the invariants `PageInv` and `StreamInv` as what their mappings need.
