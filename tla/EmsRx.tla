-------------------------------- MODULE EmsRx --------------------------------
(***************************************************************************)
(* The EMS receive path of serial/uart.c and user/ems.c: bytes arrive in   *)
(* the UART's hardware FIFO, the interrupt handler uart0_rx_intr_handler   *)
(* collects them in a static buffer and, at the BREAK that ends a telegram,*)
(* copies them into the transfer buffer *pEMSRxBuf and posts an event; the *)
(* system task uart_recvTask takes the transfer buffer, moves pEMSRxBuf to *)
(* the next one and hands the taken one to the registered callbacks.       *)
(*                                                                         *)
(* The handler runs to completion but may preempt the task between any two *)
(* of its statements, so the task is split into steps.  A byte is the pair *)
(* of its telegram's number and its position; a time stamp is the number of*)
(* the last telegram begun on the bus when it was taken.                   *)
(***************************************************************************)
EXTENDS Integers, Sequences

CONSTANTS
    EMS_MAXBUFFERS,     \* transfer buffers in the ring (ems.h: 4)
    EMS_MAXBUFFERSIZE,  \* size of uart_buffer and of a transfer buffer (128)
    RecvTaskQueueLen,   \* events the task queue holds (64)
    MAX_CB,             \* slots of uart_recv_cb (4)
    Callbacks,          \* the functions user_init registers
    NULL,               \* an empty slot of uart_recv_cb
    Garbage,            \* what os_malloc returns memory filled with
    FifoSize,           \* hardware receive FIFO (128 bytes)
    MaxLen,             \* bound: bytes of a telegram on the bus
    MaxTel              \* bound: telegrams on the bus

ASSUME EmsAssumption ==
    /\ EMS_MAXBUFFERS \in Nat /\ EMS_MAXBUFFERS >= 2
    /\ EMS_MAXBUFFERSIZE \in Nat
    /\ RecvTaskQueueLen \in Nat \ {0}
    /\ MAX_CB \in Nat \ {0}
    /\ NULL \notin Callbacks
    /\ FifoSize \in Nat
    /\ MaxLen \in Nat /\ MaxLen + 2 <= EMS_MAXBUFFERSIZE
    /\ MaxTel \in Nat

\* A telegram fits the hardware FIFO: the bus carries 32 bytes at most.
ASSUME FifoAssumption == MaxLen <= FifoSize

VARIABLES
    prompt,         \* environment: what keeps up with the bus (see below)
    tel, pos,       \* the bus: telegram in progress, bytes of it sent so far
    sent,           \* history: lengths of the telegrams ended so far
    fifo, brk,      \* hardware: bytes received, BREAK interrupt pending
    boot,           \* how far user_init has got
    EMSBusBusy,
    irq, stamp,     \* uart_buffer[0..length-1] and the saved time stamps
    paEMSRxBuf,     \* contents of the transfer buffers
    pEMSRxBuf,      \* index of the buffer pEMSRxBuf points at
    emsRxBufIdx,
    posts,          \* events in recvTaskQueue
    task, pCurrent, cbi,    \* uart_recvTask: program counter and locals
    uart_recv_cb,   \* the callback slots
    delivered,      \* history: what each callback was called with
    firstTel        \* history: the telegram on the bus when reception started

bus      == <<prompt, tel, pos, sent>>
hw       == <<fifo, brk>>
isrVars  == <<EMSBusBusy, irq, stamp>>
ring     == <<pEMSRxBuf, emsRxBufIdx>>
taskVars == <<task, pCurrent, cbi>>
setup    == <<boot, uart_recv_cb, firstTel>>
vars     == <<bus, hw, isrVars, paEMSRxBuf, ring, posts, taskVars, setup, delivered>>

Byte    == [tel : Nat, pos : Nat]
Trailer == << [tel |-> 0, pos |-> 0], [tel |-> 0, pos |-> 1] >>    \* e5 1a
RxBuf   == [sys_timeStamp : Nat, writePtr : Nat, buffer : Seq(Byte)]
Buffers == 0 .. EMS_MAXBUFFERS - 1
Slots   == 1 .. MAX_CB

\* A buffer the handler has written is not mistaken for one it has not.
ASSUME GarbageAssumption == Garbage \notin RxBuf

EMSInitDone == boot = "run"

(***************************************************************************)
(* A behaviour's environment: the processor may serve a BREAK before the   *)
(* bus goes on ("isr"), and the task may move pEMSRxBuf on before the next *)
(* BREAK ("task"), or be later than that, as while a flash sector is erased*)
(***************************************************************************)
PromptIsr  == "isr" \in prompt
PromptTask == "task" \in prompt

(***************************************************************************)
(* user_init after emsInit: the ring is allocated but never written.       *)
(***************************************************************************)
Init ==
    /\ prompt \in SUBSET {"isr", "task"}
    /\ tel = 1 /\ pos = 0 /\ sent = <<>>
    /\ fifo = <<>> /\ brk = FALSE
    /\ boot = "ems"
    /\ EMSBusBusy = FALSE /\ irq = <<>> /\ stamp = 0
    /\ paEMSRxBuf = [b \in Buffers |-> Garbage]
    /\ pEMSRxBuf = 0 /\ emsRxBufIdx = 0
    /\ posts = 0
    /\ task = "idle" /\ pCurrent = 0 /\ cbi = 1
    /\ uart_recv_cb = [i \in Slots |-> NULL]
    /\ delivered = [c \in Callbacks |-> <<>>]
    /\ firstTel = 0

(***************************************************************************)
(* The EMS bus and the UART hardware.                                      *)
(***************************************************************************)
BusByte ==
    /\ tel <= MaxTel /\ pos < MaxLen
    /\ PromptIsr => ~brk
    /\ pos' = pos + 1
    /\ fifo' = IF Len(fifo) < FifoSize
               THEN Append(fifo, [tel |-> tel, pos |-> pos + 1])
               ELSE fifo
    /\ UNCHANGED <<prompt, tel, sent, brk, isrVars, paEMSRxBuf, ring, posts, taskVars,
                   setup, delivered>>

BusBreak ==
    /\ tel <= MaxTel /\ pos > 0
    /\ PromptIsr => ~brk
    /\ PromptTask => posts = 0 /\ task # "advance"
    /\ brk' = TRUE
    /\ tel' = tel + 1 /\ pos' = 0 /\ sent' = Append(sent, pos)
    /\ UNCHANGED <<prompt, fifo, isrVars, paEMSRxBuf, ring, posts, taskVars, setup,
                   delivered>>

(***************************************************************************)
(* user_init: uart_init resets the FIFO and enables the interrupts, the    *)
(* bridge's callback is registered, EMSInitDone is set last.               *)
(***************************************************************************)
UartInit ==
    /\ boot = "ems"
    /\ boot' = "uart"
    /\ fifo' = <<>> /\ brk' = FALSE
    /\ UNCHANGED <<bus, isrVars, paEMSRxBuf, ring, posts, taskVars,
                   uart_recv_cb, firstTel, delivered>>

FreeSlots == {i \in Slots : uart_recv_cb[i] = NULL}

\* uart_add_recv_cb takes the first free slot and drops the callback if none is.
AddRecvCb(cb) ==
    /\ boot = "uart"
    /\ \A i \in Slots : uart_recv_cb[i] # cb
    /\ uart_recv_cb' = [i \in Slots |->
           IF i \in FreeSlots /\ \A j \in FreeSlots : i <= j
           THEN cb ELSE uart_recv_cb[i]]
    /\ UNCHANGED <<bus, hw, isrVars, paEMSRxBuf, ring, posts, taskVars, boot,
                   firstTel, delivered>>

InitDone ==
    /\ boot = "uart"
    /\ \A cb \in Callbacks : \E i \in Slots : uart_recv_cb[i] = cb
    /\ boot' = "run"
    /\ firstTel' = tel
    /\ UNCHANGED <<bus, hw, isrVars, paEMSRxBuf, ring, posts, taskVars,
                   uart_recv_cb, delivered>>

(***************************************************************************)
(* uart0_rx_intr_handler.                                                  *)
(***************************************************************************)
\* Until EMSInitDone every interrupt throws the FIFO away.
IsrDiscard ==
    /\ boot = "uart"
    /\ fifo # <<>> \/ brk
    /\ fifo' = <<>> /\ brk' = FALSE
    /\ UNCHANGED <<bus, isrVars, paEMSRxBuf, ring, posts, taskVars, setup,
                   delivered>>

\* Mutants: the length is not reset for a new telegram; the stamp is taken once.
Collected_NoReset == irq \o fifo
Stamped_Once      == IF stamp # 0 THEN stamp ELSE tel

\* What uart_buffer and the time stamp are once the handler has emptied the
\* FIFO: a free bus starts a new telegram.
Collected == (IF EMSBusBusy THEN irq ELSE <<>>) \o fifo
Now       == IF pos = 0 THEN tel - 1 ELSE tel
Stamped   == IF EMSBusBusy THEN stamp ELSE Now

\* FIFO-full or timeout interrupt.
IsrReceive ==
    /\ EMSInitDone /\ ~brk /\ fifo # <<>>
    /\ EMSBusBusy' = TRUE
    /\ irq' = Collected /\ stamp' = Stamped
    /\ fifo' = <<>>
    /\ UNCHANGED <<bus, brk, paEMSRxBuf, ring, posts, taskVars, setup, delivered>>

\* Mutant: no event is posted while the task is running.
Posted_IfIdle == IF task = "idle" THEN posts + 1 ELSE posts

\* system_os_post: a full queue refuses the event and the handler does not look.
Posted == IF posts < RecvTaskQueueLen THEN posts + 1 ELSE posts

\* BREAK interrupt: store the telegram, free the bus, post the event.
IsrBreak ==
    /\ EMSInitDone /\ brk
    /\ irq' = Collected \o Trailer /\ stamp' = Stamped
    /\ paEMSRxBuf' = [paEMSRxBuf EXCEPT ![pEMSRxBuf] =
           [sys_timeStamp |-> stamp', writePtr |-> Len(irq'), buffer |-> irq']]
    /\ EMSBusBusy' = FALSE
    /\ fifo' = <<>> /\ brk' = FALSE
    /\ posts' = Posted
    /\ UNCHANGED <<bus, ring, taskVars, setup, delivered>>

Isr == IsrDiscard \/ IsrReceive \/ IsrBreak

(***************************************************************************)
(* uart_recvTask: the handler may run between any two of these steps.      *)
(***************************************************************************)
TaskStart ==
    /\ task = "idle" /\ posts > 0
    /\ posts' = posts - 1
    /\ task' = "advance"
    /\ pCurrent' = pEMSRxBuf
    /\ UNCHANGED <<bus, hw, isrVars, paEMSRxBuf, ring, cbi, setup, delivered>>

\* Mutants: no wrap-around; the index incremented after its use.
RingIndex_NoWrap(n) == n
RingIndex_PostInc(n) == (n - 1) % EMS_MAXBUFFERS

RingIndex(n) == n % EMS_MAXBUFFERS

TaskAdvance ==
    /\ task = "advance"
    /\ emsRxBufIdx' = emsRxBufIdx + 1
    /\ pEMSRxBuf' = RingIndex(emsRxBufIdx')
    /\ task' = "call" /\ cbi' = 1
    /\ UNCHANGED <<bus, hw, isrVars, paEMSRxBuf, posts, pCurrent, setup, delivered>>

TaskCallback ==
    /\ task = "call"
    /\ delivered' = [c \in Callbacks |->
           IF c = uart_recv_cb[cbi]
           THEN Append(delivered[c], paEMSRxBuf[pCurrent]) ELSE delivered[c]]
    /\ IF cbi < MAX_CB THEN cbi' = cbi + 1 /\ task' = "call"
                       ELSE cbi' = 1 /\ task' = "idle"
    /\ UNCHANGED <<bus, hw, isrVars, paEMSRxBuf, ring, posts, pCurrent, setup>>

RecvTask == TaskStart \/ TaskAdvance \/ TaskCallback

UserInit == UartInit \/ (\E cb \in Callbacks : AddRecvCb(cb)) \/ InitDone

Next == BusByte \/ BusBreak \/ UserInit \/ Isr \/ RecvTask

\* Interrupts are served and the task runs when it has an event; the bus owes
\* nothing.
Spec == Init /\ [][Next]_vars /\ WF_vars(Isr) /\ WF_vars(RecvTask)

-----------------------------------------------------------------------------
\* The variables have their types.
TypeOK ==
    /\ prompt \subseteq {"isr", "task"}
    /\ tel \in Nat /\ pos \in 0 .. MaxLen /\ sent \in Seq(Nat)
    /\ fifo \in Seq(Byte) /\ brk \in BOOLEAN
    /\ boot \in {"ems", "uart", "run"}
    /\ EMSBusBusy \in BOOLEAN /\ irq \in Seq(Byte) /\ stamp \in Nat
    /\ paEMSRxBuf \in [Buffers -> RxBuf \cup {Garbage}]
    /\ pEMSRxBuf \in Buffers /\ emsRxBufIdx \in Nat
    /\ posts \in 0 .. RecvTaskQueueLen
    /\ task \in {"idle", "advance", "call"}
    /\ pCurrent \in Buffers /\ cbi \in Slots
    /\ uart_recv_cb \in [Slots -> Callbacks \cup {NULL}]
    /\ delivered \in [Callbacks -> Seq(RxBuf \cup {Garbage})]
    /\ firstTel \in Nat

\* uart_buffer never holds more than its 128 bytes, though the handler writes it
\* without a check: bytes still in the FIFO, those already collected and the
\* trailer fit (uart.c:236-253), as long as a BREAK is served in time.
IrqFits ==
    PromptIsr => /\ Len(irq) <= EMS_MAXBUFFERSIZE
                 /\ EMSInitDone => Len(Collected \o Trailer) <= EMS_MAXBUFFERSIZE

\* The time stamps of a transfer buffer are those of the telegram it holds
\* (uart.c:224-232, 255-260): a header is never paired with another body.
HeaderMatchesBody ==
    PromptIsr => \A b \in Buffers :
        LET r == paEMSRxBuf[b] IN
        r # Garbage => /\ r.writePtr = Len(r.buffer)
                       /\ \A i \in 1 .. r.writePtr - 2 :
                              r.buffer[i].tel = r.sys_timeStamp

\* The bytes p0 .. n of telegram t, with the trailer.
Telegram(t, p0, n) ==
    [i \in 1 .. n - p0 + 1 |-> [tel |-> t, pos |-> p0 + i - 1]] \o Trailer

\* If the task keeps up with the bus, each callback is called once for every
\* telegram, in bus order and with the whole of it; only the first call may be
\* for a telegram whose beginning was discarded before EMSInitDone.
WholeInOrder ==
    PromptIsr /\ PromptTask => \A c \in Callbacks :
        \A k \in 1 .. Len(delivered[c]) :
            LET r == delivered[c][k] IN
            /\ r # Garbage
            /\ LET t == r.sys_timeStamp IN
               /\ k > 1 => t = delivered[c][k - 1].sys_timeStamp + 1
               /\ \E p0 \in 1 .. sent[t] + 1 :
                      /\ r.buffer = Telegram(t, p0, sent[t])
                      /\ k > 1 => p0 = 1

\* A transfer buffer is not touched while the callbacks read it: the handler
\* may run in the middle of a callback, but writes another buffer of the ring
\* (uart.c:281-291).
TransmittedBufferStable ==
    [][task = "call" => paEMSRxBuf'[pCurrent] = paEMSRxBuf[pCurrent]]_vars

\* Every telegram that ends after EMSInitDone reaches every callback, when the
\* task keeps up.
AllDelivered ==
    PromptIsr /\ PromptTask => \A c \in Callbacks, t \in 1 .. MaxTel :
        (EMSInitDone /\ firstTel <= t /\ t < tel)
            ~> \E k \in 1 .. Len(delivered[c]) :
                   delivered[c][k] # Garbage /\ delivered[c][k].sys_timeStamp = t

=============================================================================
