---------------------------- MODULE EmsRx_proofs ----------------------------
(***************************************************************************)
(* Theorems about EmsRx, for every ring size, buffer size, queue length    *)
(* and bound of the bus.                                                   *)
(***************************************************************************)
EXTENDS EmsRx, Facts, SequenceTheorems, TLAPS

\* A ring of two or more buffers never hands out the same index twice in a row.
LEMMA RingSteps ==
    ASSUME NEW n \in Nat
    PROVE  /\ RingIndex(n) \in Buffers
           /\ RingIndex(n + 1) \in Buffers
           /\ RingIndex(n + 1) # RingIndex(n)
<1> DEFINE N == EMS_MAXBUFFERS
           q == n \div N
           r == n % N
<1>1. N \in Nat \ {0} /\ N >= 2
    BY EmsAssumption DEF EmsAssumption
<1>2. r \in 0 .. N - 1 /\ q \in Int /\ n = N * q + r
    BY <1>1, ModFacts
<1> HIDE DEF N, q, r
<1>3. CASE r + 1 < N
  <2>1. (n + 1) % N = r + 1
    <3>1. n + 1 = N * q + (r + 1)
        BY <1>1, <1>2
    <3> QED BY <1>1, <1>2, <1>3, <3>1, ModUnique
  <2> QED BY <1>1, <1>2, <1>3, <2>1 DEF N, r, RingIndex, Buffers
<1>4. CASE r + 1 = N
  <2>1. (n + 1) % N = 0
    <3>1. n + 1 = N * (q + 1) + 0
        BY <1>1, <1>2, <1>4
    <3> QED BY <1>1, <1>2, <3>1, ModUnique
  <2> QED BY <1>1, <1>2, <1>4, <2>1 DEF N, r, RingIndex, Buffers
<1> QED BY <1>1, <1>2, <1>3, <1>4

LEMMA TrailerType == Trailer \in Seq(Byte) /\ Len(Trailer) = 2
BY DEF Trailer, Byte

\* What the handler has collected is a sequence of bytes.
LEMMA CollectedType ==
    ASSUME TypeOK
    PROVE  /\ Collected \in Seq(Byte)
           /\ Collected \o Trailer \in Seq(Byte)
           /\ Len(Collected \o Trailer) = Len(Collected) + 2
<1>1. <<>> \in Seq(Byte) /\ fifo \in Seq(Byte) /\ irq \in Seq(Byte)
    BY EmptySeq DEF TypeOK
<1>2. Collected \in Seq(Byte)
    BY <1>1, ConcatProperties DEF Collected
<1>3. /\ Collected \o Trailer \in Seq(Byte)
      /\ Len(Collected \o Trailer) = Len(Collected) + Len(Trailer)
    BY <1>2, TrailerType, ConcatProperties
<1> QED BY <1>2, <1>3, TrailerType

-----------------------------------------------------------------------------
(***************************************************************************)
(* Type correctness needs one strengthening: the bus never runs backwards, *)
(* so Now, a telegram number, is a natural.                                *)
(***************************************************************************)
TelOK == tel >= 1

TInv == TypeOK /\ TelOK

\* The initial state has the types.
LEMMA InitTInv == Init => TInv
<1> SUFFICES ASSUME Init PROVE TInv
    OBVIOUS
<1>1. 0 \in Buffers /\ 1 \in Slots
    BY EmsAssumption DEF EmsAssumption, Buffers, Slots
<1> QED BY <1>1, EmsAssumption DEF EmsAssumption, Init, TInv, TypeOK, TelOK, Byte

\* Every step keeps the types.
LEMMA NextTInv == TInv /\ [Next]_vars => TInv'
<1> SUFFICES ASSUME TInv, [Next]_vars PROVE TInv'
    OBVIOUS
<1> USE DEF TInv, TypeOK, TelOK
<1>0. <<>> \in Seq(Byte)
    BY EmptySeq
<1>1. CASE BusByte
  <2>1. [tel |-> tel, pos |-> pos + 1] \in Byte
      BY EmsAssumption DEF Byte, EmsAssumption
  <2> QED BY <1>1, <2>1, EmsAssumption
          DEF BusByte, bus, hw, isrVars, ring, taskVars, setup, EmsAssumption
<1>2. CASE BusBreak
    BY <1>2, EmsAssumption
    DEF BusBreak, bus, hw, isrVars, ring, taskVars, setup, EmsAssumption
<1>3. CASE UartInit
    BY <1>0, <1>3 DEF UartInit, bus, hw, isrVars, ring, taskVars, setup
<1>4. ASSUME NEW cb \in Callbacks, AddRecvCb(cb) PROVE TInv'
  <2>1. uart_recv_cb' \in [Slots -> Callbacks \cup {NULL}]
      BY <1>4 DEF AddRecvCb
  <2> QED BY <1>4, <2>1 DEF AddRecvCb, bus, hw, isrVars, ring, taskVars, setup
<1>5. CASE InitDone
    BY <1>5, tel \in Nat, boot' = "run" DEF InitDone, bus, hw, isrVars, ring, taskVars, setup
<1>6. CASE IsrDiscard
    BY <1>0, <1>6 DEF IsrDiscard, bus, hw, isrVars, ring, taskVars, setup
<1>7. Stamped \in Nat
    BY DEF Stamped, Now
<1>8. CASE IsrReceive
    BY <1>0, <1>7, <1>8, CollectedType DEF IsrReceive, bus, hw, isrVars, ring, taskVars, setup
<1>9. CASE IsrBreak
  <2>1. irq' \in Seq(Byte) /\ stamp' \in Nat
      BY <1>7, <1>9, CollectedType DEF IsrBreak
  <2>2. [sys_timeStamp |-> stamp', writePtr |-> Len(irq'), buffer |-> irq'] \in RxBuf
      BY <2>1 DEF RxBuf
  <2>3. paEMSRxBuf' \in [Buffers -> RxBuf \cup {Garbage}]
      BY <1>9, <2>2 DEF IsrBreak
  <2>4. posts' \in 0 .. RecvTaskQueueLen
      BY <1>9, EmsAssumption DEF IsrBreak, Posted, EmsAssumption
  <2>5. fifo' \in Seq(Byte) /\ brk' \in BOOLEAN /\ EMSBusBusy' \in BOOLEAN
      BY <1>0, <1>9 DEF IsrBreak
  <2>6. UNCHANGED <<bus, ring, taskVars, setup, delivered>>
      BY <1>9 DEF IsrBreak
  <2> QED BY <2>1, <2>3, <2>4, <2>5, <2>6 DEF bus, ring, taskVars, setup
<1>10. CASE TaskStart
    BY <1>10, EmsAssumption
    DEF TaskStart, bus, hw, isrVars, ring, taskVars, setup, EmsAssumption
<1>11. CASE TaskAdvance
  <2>1. pEMSRxBuf' \in Buffers
      BY <1>11, RingSteps DEF TaskAdvance
  <2>2. 1 \in Slots
      BY EmsAssumption DEF EmsAssumption, Slots
  <2> QED BY <1>11, <2>1, <2>2
          DEF TaskAdvance, bus, hw, isrVars, taskVars, setup
<1>12. CASE TaskCallback
  <2>1. delivered' \in [Callbacks -> Seq(RxBuf \cup {Garbage})]
      BY <1>12 DEF TaskCallback
  <2>2. cbi' \in Slots /\ task' \in {"idle", "advance", "call"}
      BY <1>12, EmsAssumption DEF TaskCallback, EmsAssumption, Slots
  <2> QED BY <1>12, <2>1, <2>2
          DEF TaskCallback, bus, hw, isrVars, ring, setup
<1>13. CASE UNCHANGED vars
    BY <1>13 DEF vars, bus, hw, isrVars, ring, taskVars, setup
<1> QED BY <1>1, <1>2, <1>3, <1>4, <1>5, <1>6, <1>8, <1>9, <1>10, <1>11, <1>12, <1>13
        DEF Next, UserInit, Isr, RecvTask

\* The variables of the receive path keep their types in every reachable state.
THEOREM TypeCorrect == Spec => []TypeOK
<1>1. TInv => TypeOK
    BY DEF TInv
<1> QED BY <1>1, InitTInv, NextTInv, PTL DEF Spec

-----------------------------------------------------------------------------
(***************************************************************************)
(* The ring.  While the callbacks run, pEMSRxBuf is one ahead of pCurrent; *)
(* before that, between the two assignments of the task, they are equal.   *)
(***************************************************************************)
RingInv ==
    /\ pEMSRxBuf = RingIndex(emsRxBufIdx)
    /\ task = "advance" => pCurrent = pEMSRxBuf
    /\ task = "call" => pCurrent # pEMSRxBuf

LEMMA InitRingInv == Init => RingInv
<1>1. RingIndex(0) = 0
  <2>1. EMS_MAXBUFFERS \in Nat \ {0}
      BY EmsAssumption DEF EmsAssumption
  <2> QED BY <2>1, ModUnique, 0 = EMS_MAXBUFFERS * 0 + 0 DEF RingIndex
<1> QED BY <1>1 DEF Init, RingInv

LEMMA NextRingInv == TInv /\ RingInv /\ [Next]_vars => RingInv'
<1> SUFFICES ASSUME TInv, RingInv, [Next]_vars PROVE RingInv'
    OBVIOUS
<1> USE DEF RingInv, RingIndex
<1>1. CASE TaskStart
    BY <1>1 DEF TaskStart, ring
<1>2. CASE TaskAdvance
  <2>1. emsRxBufIdx \in Nat /\ pEMSRxBuf' = RingIndex(emsRxBufIdx + 1)
      BY <1>2 DEF TaskAdvance, TInv, TypeOK
  <2>2. pEMSRxBuf' # pCurrent /\ pCurrent' = pCurrent
      BY <1>2, <2>1, RingSteps DEF TaskAdvance
  <2> QED BY <1>2, <2>1, <2>2 DEF TaskAdvance
<1>3. CASE TaskCallback
    BY <1>3 DEF TaskCallback, ring
<1>4. ASSUME NEW cb \in Callbacks, AddRecvCb(cb) PROVE RingInv'
    BY <1>4 DEF AddRecvCb, ring, taskVars
<1>5. CASE BusByte \/ BusBreak \/ UartInit \/ InitDone
    BY <1>5 DEF BusByte, BusBreak, UartInit, InitDone, ring, taskVars
<1>6. CASE Isr
    BY <1>6 DEF Isr, IsrDiscard, IsrReceive, IsrBreak, ring, taskVars
<1>7. CASE UNCHANGED vars
    BY <1>7 DEF vars, ring, taskVars
<1> QED BY <1>1, <1>2, <1>3, <1>4, <1>5, <1>6, <1>7 DEF Next, UserInit, RecvTask

\* The interrupt handler never writes the buffer whose callbacks are running,
\* however late the task is and however fast the bus: any ring of two or more
\* buffers is enough for that.
THEOREM TransmissionIsStable == Spec => TransmittedBufferStable
<1> DEFINE Stable == task = "call" => paEMSRxBuf'[pCurrent] = paEMSRxBuf[pCurrent]
<1>1. TInv /\ RingInv /\ [Next]_vars => [Stable]_vars
  <2> SUFFICES ASSUME TInv, RingInv, Next, task = "call"
               PROVE  paEMSRxBuf'[pCurrent] = paEMSRxBuf[pCurrent]
      OBVIOUS
  <2>1. CASE IsrBreak
      BY <2>1 DEF IsrBreak, RingInv, TInv, TypeOK
  <2>2. CASE ~IsrBreak
    <3>1. ASSUME NEW cb \in Callbacks, AddRecvCb(cb) PROVE UNCHANGED paEMSRxBuf
        BY <3>1 DEF AddRecvCb
    <3> QED BY <2>2, <3>1
            DEF Next, UserInit, Isr, RecvTask, BusByte, BusBreak, UartInit, InitDone,
                IsrDiscard, IsrReceive, TaskStart, TaskAdvance, TaskCallback
  <2> QED BY <2>1, <2>2
<1>2. Init => TInv /\ RingInv
    BY InitTInv, InitRingInv
<1>3. TInv /\ RingInv /\ [Next]_vars => (TInv /\ RingInv)'
    BY NextTInv, NextRingInv
<1> QED BY <1>1, <1>2, <1>3, PTL DEF Spec, TransmittedBufferStable

-----------------------------------------------------------------------------
(***************************************************************************)
(* What is in the FIFO and in uart_buffer together, Collected, belongs to  *)
(* the telegram on the bus and is no longer than it, when a BREAK is served*)
(* before the bus goes on.                                                 *)
(***************************************************************************)
LenInv ==
    /\ ~EMSInitDone => ~EMSBusBusy
    /\ PromptIsr =>
         /\ brk => pos = 0
         /\ Len(Collected) <= IF brk THEN MaxLen ELSE pos
         /\ Len(irq) <= MaxLen + 2

HeaderInv ==
    PromptIsr =>
      /\ \A i \in 1 .. Len(Collected) : Collected[i].tel = Now
      /\ EMSBusBusy => stamp = Now
      /\ EMSBusBusy => brk \/ pos > 0

LEMMA CollectedEmpty ==
    (~EMSBusBusy /\ fifo = <<>>) => Collected = <<>> /\ Len(Collected) = 0
BY EmptySeq, ConcatEmptySeq DEF Collected

LEMMA ConcatAppend ==
    ASSUME NEW S, NEW s \in Seq(S), NEW f \in Seq(S), NEW b \in S
    PROVE  s \o Append(f, b) = Append(s \o f, b)
<1>1. s \o f \in Seq(S) /\ <<b>> \in Seq(S)
    BY ConcatProperties
<1>2. Append(f, b) = f \o <<b>> /\ Append(s \o f, b) = (s \o f) \o <<b>>
    BY <1>1, AppendIsConcat
<1>3. (s \o f) \o <<b>> = s \o (f \o <<b>>)
    BY <1>1, ConcatAssociative
<1> QED BY <1>2, <1>3

\* A byte from the bus is appended to what is collected, or dropped by a full FIFO.
LEMMA ByteCollected ==
    ASSUME TInv, BusByte
    PROVE  \/ Collected' = Collected
           \/ Collected' = Append(Collected, [tel |-> tel, pos |-> pos + 1])
<1> DEFINE b == [tel |-> tel, pos |-> pos + 1]
           s == IF EMSBusBusy THEN irq ELSE <<>>
<1>1. b \in Byte /\ fifo \in Seq(Byte) /\ s \in Seq(Byte)
    BY EmptySeq, EmsAssumption DEF TInv, TypeOK, Byte, EmsAssumption
<1>2. (fifo' = Append(fifo, b) \/ fifo' = fifo) /\ UNCHANGED <<irq, EMSBusBusy>>
    BY DEF BusByte, isrVars
<1>3. Collected = s \o fifo /\ Collected' = s \o fifo'
    BY <1>2 DEF Collected
<1>4. s \o Append(fifo, b) = Append(s \o fifo, b)
  <2> HIDE DEF s, b
  <2> QED BY <1>1, ConcatAppend
<1> QED BY <1>2, <1>3, <1>4

LEMMA InitLenInv == Init => LenInv /\ HeaderInv
<1> SUFFICES ASSUME Init PROVE LenInv /\ HeaderInv
    OBVIOUS
<1>1. ~EMSBusBusy /\ fifo = <<>> /\ irq = <<>> /\ pos = 0 /\ ~brk /\ Len(irq) = 0
    BY EmptySeq DEF Init
<1>2. Len(Collected) = 0
    BY <1>1, CollectedEmpty
<1> QED BY <1>1, <1>2, EmsAssumption DEF LenInv, HeaderInv, EmsAssumption

\* The handler leaves nothing collected when it ends a telegram or discards.
LEMMA EmptiedInv ==
    ASSUME TInv, TInv', ~EMSBusBusy', fifo' = <<>>, brk' = FALSE,
           PromptIsr' => Len(irq') <= MaxLen + 2
    PROVE  LenInv' /\ HeaderInv'
<1>1. Len(Collected)' = 0
  <2>1. Collected' = <<>>
      BY EmptySeq, ConcatEmptySeq DEF Collected
  <2> QED BY <2>1, EmptySeq
<1>2. pos' \in Nat
    BY EmsAssumption DEF TInv, TypeOK, EmsAssumption
<1> QED BY <1>1, <1>2 DEF LenInv, HeaderInv

LEMMA PromptFixed == [Next]_vars => prompt' = prompt
<1>1. ASSUME NEW cb \in Callbacks, AddRecvCb(cb) PROVE prompt' = prompt
    BY <1>1 DEF AddRecvCb, bus
<1> QED BY <1>1 DEF Next, UserInit, Isr, RecvTask, BusByte, BusBreak, UartInit, InitDone,
        IsrDiscard, IsrReceive, IsrBreak, TaskStart, TaskAdvance, TaskCallback, vars, bus

LEMMA NextLenInv ==
    TInv /\ LenInv /\ HeaderInv /\ [Next]_vars => LenInv' /\ HeaderInv'
<1> SUFFICES ASSUME TInv, LenInv, HeaderInv, [Next]_vars
             PROVE  LenInv' /\ HeaderInv'
    OBVIOUS
<1>t. TInv'
    BY NextTInv
<1>p. prompt' = prompt
    BY PromptFixed
<1>m. MaxLen \in Nat /\ pos \in Nat /\ tel \in Nat /\ pos <= MaxLen
    BY EmsAssumption DEF EmsAssumption, TInv, TypeOK
<1>1. CASE BusByte
  <2>1. UNCHANGED <<tel, brk, boot, EMSBusBusy, irq, stamp>> /\ pos' = pos + 1
      BY <1>1 DEF BusByte, isrVars, setup
  <2>2. Collected \in Seq(Byte)
      BY CollectedType DEF TInv
  <2> DEFINE b == [tel |-> tel, pos |-> pos + 1]
  <2>3. b \in Byte /\ b.tel = tel
      BY <1>m DEF Byte
  <2> HIDE DEF b
  <2>4. /\ Len(Append(Collected, b)) = Len(Collected) + 1
        /\ \A i \in 1 .. Len(Collected) : Append(Collected, b)[i] = Collected[i]
        /\ Append(Collected, b)[Len(Collected) + 1] = b
      BY <2>2, <2>3, AppendProperties
  <2>5. Len(Collected) \in Nat
      BY <2>2, LenProperties
  <2>6. Collected' = Collected \/ Collected' = Append(Collected, b)
      BY <1>1, ByteCollected DEF b
  <2>7. PromptIsr => ~brk
      BY <1>1 DEF BusByte
  <2>8. LenInv'
      BY <1>m, <1>p, <2>1, <2>4, <2>5, <2>6, <2>7
      DEF LenInv, PromptIsr, EMSInitDone
  <2>9. ASSUME PromptIsr, NEW i \in 1 .. Len(Collected') PROVE Collected'[i].tel = Now'
    <3>1. Now' = tel
        BY <1>m, <2>1 DEF Now
    <3>2. CASE i <= Len(Collected)
      <4>1. pos > 0 /\ Now = tel
          BY <1>m, <2>5, <2>7, <2>9, <3>2 DEF LenInv, Now
      <4>2. Collected'[i] = Collected[i] /\ i \in 1 .. Len(Collected)
          BY <2>4, <2>5, <2>6, <2>9, <3>2
      <4> QED BY <2>9, <3>1, <4>1, <4>2 DEF HeaderInv
    <3>3. CASE ~(i <= Len(Collected))
        BY <2>3, <2>4, <2>5, <2>6, <2>9, <3>1, <3>3
    <3> QED BY <3>2, <3>3
  <2>10. PromptIsr /\ EMSBusBusy => stamp = Now' /\ pos' > 0
      BY <1>m, <2>1, <2>7 DEF HeaderInv, Now
  <2> QED BY <1>p, <2>1, <2>8, <2>9, <2>10 DEF HeaderInv, PromptIsr
<1>2. CASE BusBreak
  <2>1. /\ UNCHANGED <<boot, EMSBusBusy, irq, stamp, fifo>>
        /\ brk' = TRUE /\ tel' = tel + 1 /\ pos' = 0 /\ pos > 0
        /\ PromptIsr => ~brk
      BY <1>2 DEF BusBreak, isrVars, setup
  <2>2. Collected' = Collected /\ Now' = Now /\ Len(Collected') = Len(Collected)
      BY <1>m, <2>1 DEF Collected, Now
  <2>3. Len(Collected) \in Nat
      BY CollectedType, LenProperties DEF TInv
  <2>4. LenInv'
      BY <1>m, <1>p, <2>1, <2>2, <2>3 DEF LenInv, PromptIsr, EMSInitDone
  <2> QED BY <1>p, <2>1, <2>2, <2>4 DEF HeaderInv, PromptIsr
<1>3. CASE UartInit \/ IsrDiscard
  <2>1. /\ ~EMSInitDone /\ fifo' = <<>> /\ brk' = FALSE
        /\ EMSBusBusy' = EMSBusBusy /\ irq' = irq
      BY <1>3 DEF UartInit, IsrDiscard, isrVars, EMSInitDone
  <2>2. ~EMSBusBusy' /\ (PromptIsr' => Len(irq') <= MaxLen + 2)
      BY <1>p, <2>1 DEF LenInv, PromptIsr
  <2> QED BY <1>t, <2>1, <2>2, EmptiedInv
<1>4. CASE IsrReceive
  <2>1. /\ EMSInitDone /\ ~brk /\ fifo # <<>> /\ irq' = Collected /\ stamp' = Stamped
        /\ EMSBusBusy' = TRUE /\ fifo' = <<>>
        /\ UNCHANGED <<brk, tel, pos, boot>>
      BY <1>4 DEF IsrReceive, bus, setup
  <2>2. Collected \in Seq(Byte) /\ Len(Collected) \in Nat
      BY CollectedType, LenProperties DEF TInv
  <2>3. Collected' = Collected /\ Now' = Now
      BY <2>1, <2>2, ConcatEmptySeq DEF Collected, Now
  <2>4. Len(Collected) > 0
    <3>1. /\ fifo \in Seq(Byte) /\ irq \in Seq(Byte) /\ <<>> \in Seq(Byte)
          /\ Len(fifo) \in Nat \ {0} /\ Len(irq) \in Nat /\ Len(<<>>) = 0
        BY <2>1, EmptySeq, LenProperties DEF TInv, TypeOK
    <3> QED BY <3>1, ConcatProperties DEF Collected
  <2>5. LenInv'
      BY <1>m, <1>p, <2>1, <2>2, <2>3 DEF LenInv, PromptIsr, EMSInitDone
  <2>6. PromptIsr => stamp' = Now
      BY <2>1 DEF Stamped, HeaderInv
  <2>7. PromptIsr => pos > 0
      BY <1>m, <2>1, <2>2, <2>4 DEF LenInv
  <2> QED BY <1>p, <2>1, <2>3, <2>5, <2>6, <2>7 DEF HeaderInv, PromptIsr
<1>5. CASE IsrBreak
  <2>1. ~EMSBusBusy' /\ fifo' = <<>> /\ brk' = FALSE /\ irq' = Collected \o Trailer /\ brk
      BY <1>5 DEF IsrBreak
  <2>2. Len(irq') = Len(Collected) + 2 /\ Len(Collected) \in Nat
      BY <2>1, CollectedType, LenProperties DEF TInv
  <2>3. PromptIsr' => Len(irq') <= MaxLen + 2
      BY <1>m, <1>p, <2>1, <2>2 DEF LenInv, PromptIsr
  <2> QED BY <1>t, <2>1, <2>3, EmptiedInv
<1>6. CASE InitDone
  <2>1. /\ UNCHANGED <<brk, tel, pos, EMSBusBusy, irq, stamp, fifo>>
      BY <1>6 DEF InitDone, bus, hw, isrVars
  <2>2. Collected' = Collected /\ Now' = Now
      BY <2>1 DEF Collected, Now
  <2> QED BY <1>6, <1>p, <2>1, <2>2 DEF LenInv, HeaderInv, PromptIsr, EMSInitDone, InitDone
<1>7. ASSUME UNCHANGED <<bus, hw, isrVars, boot>> PROVE LenInv' /\ HeaderInv'
  <2>1. UNCHANGED <<prompt, brk, tel, pos, EMSBusBusy, irq, stamp, fifo, boot>>
      BY <1>7 DEF bus, hw, isrVars
  <2>2. Collected' = Collected /\ Now' = Now
      BY <2>1 DEF Collected, Now
  <2> QED BY <2>1, <2>2 DEF LenInv, HeaderInv, PromptIsr, EMSInitDone
<1>8. ASSUME NEW cb \in Callbacks, AddRecvCb(cb) PROVE LenInv' /\ HeaderInv'
    BY <1>7, <1>8 DEF AddRecvCb
<1>9. CASE RecvTask \/ UNCHANGED vars
    BY <1>7, <1>9 DEF RecvTask, TaskStart, TaskAdvance, TaskCallback, vars, setup
<1> QED BY <1>1, <1>2, <1>3, <1>4, <1>5, <1>6, <1>8, <1>9 DEF Next, UserInit, Isr

LEMMA LenInvFits == TInv /\ LenInv => IrqFits
<1> SUFFICES ASSUME TInv, LenInv, PromptIsr
             PROVE  /\ Len(irq) <= EMS_MAXBUFFERSIZE
                    /\ EMSInitDone => Len(Collected \o Trailer) <= EMS_MAXBUFFERSIZE
    BY DEF IrqFits
<1>1. /\ Len(Collected \o Trailer) = Len(Collected) + 2
      /\ Len(Collected) \in Nat /\ Len(irq) \in Nat
    BY CollectedType, LenProperties DEF TInv, TypeOK
<1>2. Len(Collected) <= MaxLen /\ MaxLen \in Nat
    BY <1>1, EmsAssumption DEF LenInv, TInv, TypeOK, EmsAssumption
<1> QED BY <1>1, <1>2, EmsAssumption DEF LenInv, EmsAssumption

\* The interrupt handler's unchecked writes stay within the 128 bytes of
\* uart_buffer if a telegram and its trailer fit and every BREAK is served
\* before the next byte.
THEOREM IrqBufferFits == Spec => []IrqFits
<1>1. TInv /\ LenInv => IrqFits
    BY LenInvFits
<1>2. Init => TInv /\ LenInv /\ HeaderInv
    BY InitTInv, InitLenInv
<1>3. TInv /\ LenInv /\ HeaderInv /\ [Next]_vars => (TInv /\ LenInv /\ HeaderInv)'
    BY NextTInv, NextLenInv
<1> QED BY <1>1, <1>2, <1>3, PTL DEF Spec

-----------------------------------------------------------------------------
\* Every buffer the handler stores has the stamp of the telegram in it.
LEMMA NextHeaderMatches ==
    TInv /\ HeaderInv /\ HeaderMatchesBody /\ [Next]_vars => HeaderMatchesBody'
<1> DEFINE Matches(r) ==
        r # Garbage => /\ r.writePtr = Len(r.buffer)
                       /\ \A i \in 1 .. r.writePtr - 2 :
                              r.buffer[i].tel = r.sys_timeStamp
<1> SUFFICES ASSUME TInv, HeaderInv, HeaderMatchesBody, [Next]_vars, PromptIsr',
                    NEW b \in Buffers
             PROVE  Matches(paEMSRxBuf[b])'
    BY DEF HeaderMatchesBody
<1>1. PromptIsr
    BY PromptFixed DEF PromptIsr
<1>2. Matches(paEMSRxBuf[b])
    BY <1>1 DEF HeaderMatchesBody
<1>3. CASE IsrBreak
  <2> DEFINE data == Collected \o Trailer
             r == [sys_timeStamp |-> Stamped, writePtr |-> Len(data), buffer |-> data]
  <2>1. paEMSRxBuf' = [paEMSRxBuf EXCEPT ![pEMSRxBuf] = r]
      BY <1>3 DEF IsrBreak
  <2>2. /\ Collected \in Seq(Byte) /\ Trailer \in Seq(Byte)
        /\ Len(data) = Len(Collected) + 2 /\ Len(Collected) \in Nat
      BY CollectedType, TrailerType, LenProperties DEF TInv
  <2>3. Stamped = Now
      BY <1>1 DEF Stamped, HeaderInv
  <2>4. ASSUME NEW i \in 1 .. Len(data) - 2 PROVE data[i].tel = Stamped
    <3>1. i \in 1 .. Len(Collected) /\ i \in 1 .. Len(Collected) + Len(Trailer)
        BY <2>2, TrailerType
    <3>2. data[i] = Collected[i]
        BY <2>2, <3>1, ConcatProperties
    <3> QED BY <1>1, <2>3, <3>1, <3>2 DEF HeaderInv
  <2>5. Matches(r)
    <3> HIDE DEF data
    <3> QED BY <2>4
  <2>6. paEMSRxBuf'[b] = IF b = pEMSRxBuf THEN r ELSE paEMSRxBuf[b]
      BY <2>1 DEF TInv, TypeOK
  <2> HIDE DEF r
  <2> QED BY <1>2, <2>5, <2>6
<1>4. CASE ~IsrBreak
  <2>1. ASSUME NEW cb \in Callbacks, AddRecvCb(cb) PROVE UNCHANGED paEMSRxBuf
      BY <2>1 DEF AddRecvCb
  <2>2. UNCHANGED paEMSRxBuf
      BY <1>4, <2>1
      DEF Next, UserInit, Isr, RecvTask, BusByte, BusBreak, UartInit, InitDone,
          IsrDiscard, IsrReceive, TaskStart, TaskAdvance, TaskCallback, vars
  <2> QED BY <1>2, <2>2
<1> QED BY <1>3, <1>4

\* A transfer buffer never pairs a telegram with the time stamps of another one,
\* if every BREAK is served before the next byte.
THEOREM HeaderBelongsToBody == Spec => []HeaderMatchesBody
<1>1. Init => HeaderMatchesBody
    BY DEF Init, HeaderMatchesBody
<1>2. Init => TInv /\ LenInv /\ HeaderInv
    BY InitTInv, InitLenInv
<1>3. TInv /\ LenInv /\ HeaderInv /\ [Next]_vars => (TInv /\ LenInv /\ HeaderInv)'
    BY NextTInv, NextLenInv
<1> QED BY <1>1, <1>2, <1>3, NextHeaderMatches, PTL DEF Spec

-----------------------------------------------------------------------------
(***************************************************************************)
(* The way of a telegram from the bus to the callbacks.  Stored counts the *)
(* telegrams the handler has stored so far, whether their event still waits*)
(* or the task has counted them in emsRxBufIdx; Missed those that ended    *)
(* before the first of them, which EMSInitDone came too late for.  Current *)
(* is the telegram the handler is collecting and End how much of it is out.*)
(***************************************************************************)
One(b)   == IF b THEN 1 ELSE 0
KeepsUp  == PromptIsr /\ PromptTask
Stored   == posts + One(task = "advance") + emsRxBufIdx
Missed   == tel - 1 - One(brk) - Stored
Current  == tel - One(brk)
End      == IF brk THEN sent[tel - 1] ELSE pos

Run(t, p0, n) == [i \in 1 .. n - p0 + 1 |-> [tel |-> t, pos |-> p0 + i - 1]]

\* r is telegram t of the ended ones, or the end of it if it need not be whole.
Holds(ended, r, t, whole) ==
    /\ r # Garbage /\ r.sys_timeStamp = t
    /\ t \in 1 .. Len(ended)
    /\ \E p0 \in 1 .. ended[t] + 1 :
           r.buffer = Telegram(t, p0, ended[t]) /\ (whole => p0 = 1)

\* Nothing is stored before EMSInitDone, when every callback has its own slot.
SetupInv ==
    /\ Len(sent) = tel - 1
    /\ \A i, j \in Slots :
           uart_recv_cb[i] # NULL /\ uart_recv_cb[i] = uart_recv_cb[j] => i = j
    /\ EMSInitDone => \A c \in Callbacks : \E i \in Slots : uart_recv_cb[i] = c
    /\ ~EMSInitDone => /\ posts = 0 /\ task = "idle" /\ emsRxBufIdx = 0
                       /\ \A c \in Callbacks : delivered[c] = <<>>

\* At most one event is outstanding, and none when a BREAK arrives.
Pace ==
    /\ brk => posts = 0 /\ task # "advance" /\ tel > 1
    /\ posts \in {0, 1}
    /\ posts = 1 => task # "advance"
    /\ task = "call" => emsRxBufIdx > 0

\* Nothing is missing between the first byte collected and the bus, and after
\* the first telegram stored nothing is missing at all.
CollectedIsRun ==
    \E p0 \in 1 .. End + 1 :
        Collected = Run(Current, p0, End) /\ (Stored > 0 => p0 = 1)

\* The buffer an event stands for, or the callbacks are given, is the right one.
BuffersHold ==
    /\ posts = 1 \/ task = "advance" =>
           Holds(sent, paEMSRxBuf[pEMSRxBuf], Missed + emsRxBufIdx + 1, emsRxBufIdx > 0)
    /\ task = "call" =>
           Holds(sent, paEMSRxBuf[pCurrent], Missed + emsRxBufIdx, emsRxBufIdx > 1)

\* The k-th call of a callback was for the k-th telegram that was not missed.
Given ==
    \A c \in Callbacks : \A k \in 1 .. Len(delivered[c]) :
        Holds(sent, delivered[c][k], Missed + k, k > 1)

\* Every callback was called for every telegram the task has counted, except for
\* the one whose calls are under way.
Counted ==
    \A i \in Slots : uart_recv_cb[i] # NULL =>
        Len(delivered[uart_recv_cb[i]]) = emsRxBufIdx - One(task = "call" /\ i >= cbi)

FlowInv == KeepsUp => Pace /\ CollectedIsRun /\ BuffersHold /\ Given /\ Counted

RxInv == TInv /\ RingInv /\ LenInv /\ HeaderInv /\ SetupInv

-----------------------------------------------------------------------------
LEMMA RunEmpty ==
    ASSUME NEW t, NEW n \in Nat
    PROVE  Run(t, n + 1, n) = <<>>
BY DEF Run

\* The next byte of a run makes it one longer.
LEMMA RunAppend ==
    ASSUME NEW t \in Nat, NEW n \in Nat, NEW p0 \in 1 .. n + 1
    PROVE  Append(Run(t, p0, n), [tel |-> t, pos |-> n + 1]) = Run(t, p0, n + 1)
<1> DEFINE b == [tel |-> t, pos |-> n + 1]
           s == Run(t, p0, n)
           r == Run(t, p0, n + 1)
<1>1. s \in Seq(Byte) /\ Len(s) = n - p0 + 1
    BY DEF Run, Byte
<1>2. r \in Seq(Byte) /\ Len(r) = n - p0 + 2
    BY DEF Run, Byte
<1>3. b \in Byte
    BY DEF Byte
<1>4. ASSUME NEW i \in 1 .. n - p0 + 2 PROVE r[i] = IF i = n - p0 + 2 THEN b ELSE s[i]
  <2>1. r[i] = [tel |-> t, pos |-> p0 + i - 1]
      BY DEF Run
  <2>2. i \in 1 .. n - p0 + 1 => s[i] = [tel |-> t, pos |-> p0 + i - 1]
      BY DEF Run
  <2> QED BY <2>1, <2>2
<1> HIDE DEF b, s, r
<1>5. /\ Append(s, b) \in Seq(Byte) /\ Len(Append(s, b)) = Len(s) + 1
      /\ \A i \in 1 .. Len(s) : Append(s, b)[i] = s[i]
      /\ Append(s, b)[Len(s) + 1] = b
    BY <1>1, <1>3, AppendProperties
<1>6. \A i \in 1 .. Len(r) : Append(s, b)[i] = r[i]
    BY <1>1, <1>2, <1>4, <1>5
<1>7. Len(Append(s, b)) = Len(r) /\ \A i \in 1 .. Len(Append(s, b)) : Append(s, b)[i] = r[i]
    BY <1>1, <1>2, <1>5, <1>6
<1>8. Append(s, b) = r
    BY <1>2, <1>5, <1>7, SeqEqual
<1> QED BY <1>8 DEF b, s, r

LEMMA TelegramIsRun ==
    ASSUME NEW t, NEW p0, NEW n
    PROVE  Telegram(t, p0, n) = Run(t, p0, n) \o Trailer
BY DEF Telegram, Run

\* What is known of the ended telegrams stays true as more of them end.
LEMMA HoldsLater ==
    ASSUME NEW ended \in Seq(Nat), NEW n \in Nat, NEW r, NEW t, NEW whole,
           Holds(ended, r, t, whole)
    PROVE  Holds(Append(ended, n), r, t, whole)
<1>1. /\ Len(Append(ended, n)) = Len(ended) + 1 /\ Len(ended) \in Nat
      /\ \A i \in 1 .. Len(ended) : Append(ended, n)[i] = ended[i]
    BY AppendProperties, LenProperties
<1>2. t \in 1 .. Len(ended) + 1 /\ Append(ended, n)[t] = ended[t]
    BY <1>1 DEF Holds
<1> QED BY <1>1, <1>2 DEF Holds

-----------------------------------------------------------------------------
LEMMA InitSetup == Init => SetupInv
<1> SUFFICES ASSUME Init PROVE SetupInv
    OBVIOUS
<1>1. Len(sent) = 0 /\ tel = 1 /\ boot = "ems"
    BY EmptySeq DEF Init
<1> QED BY <1>1 DEF Init, SetupInv, EMSInitDone

LEMMA NextSetup == TInv /\ SetupInv /\ [Next]_vars => SetupInv'
<1> SUFFICES ASSUME TInv, SetupInv, [Next]_vars PROVE SetupInv'
    OBVIOUS
<1> USE DEF SetupInv, EMSInitDone
<1>1. CASE BusBreak
  <2>1. sent \in Seq(Nat) /\ pos \in Nat /\ tel \in Nat
      BY EmsAssumption DEF TInv, TypeOK, EmsAssumption
  <2>2. Len(sent') = tel' - 1
      BY <1>1, <2>1, AppendProperties DEF BusBreak
  <2> QED BY <1>1, <2>2 DEF BusBreak, setup, taskVars, ring
<1>2. ASSUME NEW cb \in Callbacks, AddRecvCb(cb) PROVE SetupInv'
  <2>1. /\ \A i \in Slots : uart_recv_cb[i] # cb
        /\ uart_recv_cb' = [i \in Slots |->
               IF i \in FreeSlots /\ \A j \in FreeSlots : i <= j
               THEN cb ELSE uart_recv_cb[i]]
        /\ boot = "uart"
        /\ UNCHANGED <<boot, tel, sent, posts, task, emsRxBufIdx, delivered>>
      BY <1>2 DEF AddRecvCb, bus, setup, taskVars, ring
  <2>2. ASSUME NEW i \in Slots, NEW j \in Slots,
               uart_recv_cb'[i] # NULL, uart_recv_cb'[i] = uart_recv_cb'[j]
        PROVE  i = j
    <3>1. CASE /\ i \in FreeSlots /\ \A k \in FreeSlots : i <= k
               /\ j \in FreeSlots /\ \A k \in FreeSlots : j <= k
        BY <3>1 DEF FreeSlots, Slots
    <3>2. CASE ~(i \in FreeSlots /\ \A k \in FreeSlots : i <= k)
      <4>1. uart_recv_cb'[i] = uart_recv_cb[i]
          BY <2>1, <3>2
      <4>2. uart_recv_cb'[j] = uart_recv_cb[j]
          BY <2>1, <2>2, <4>1
      <4> QED BY <2>2, <4>1, <4>2
    <3>3. CASE ~(j \in FreeSlots /\ \A k \in FreeSlots : j <= k)
      <4>1. uart_recv_cb'[j] = uart_recv_cb[j]
          BY <2>1, <3>3
      <4>2. uart_recv_cb'[i] = uart_recv_cb[i]
          BY <2>1, <2>2, <4>1
      <4> QED BY <2>2, <4>1, <4>2
    <3> QED BY <3>1, <3>2, <3>3
  <2> QED BY <2>1, <2>2
<1>3. CASE BusByte \/ UartInit \/ InitDone
    BY <1>3 DEF BusByte, UartInit, InitDone, bus, setup, taskVars, ring
<1>4. CASE Isr
    BY <1>4 DEF Isr, IsrDiscard, IsrReceive, IsrBreak, bus, setup, taskVars, ring
<1>5. CASE RecvTask
    BY <1>5 DEF RecvTask, TaskStart, TaskAdvance, TaskCallback, bus, setup, taskVars, ring
<1>6. CASE UNCHANGED vars
    BY <1>6 DEF vars, bus, setup, taskVars, ring
<1> QED BY <1>1, <1>2, <1>3, <1>4, <1>5, <1>6 DEF Next, UserInit

LEMMA InitRxInv == Init => RxInv
BY InitTInv, InitRingInv, InitLenInv, InitSetup DEF RxInv

LEMMA NextRxInv == RxInv /\ [Next]_vars => RxInv'
BY NextTInv, NextRingInv, NextLenInv, NextSetup DEF RxInv

-----------------------------------------------------------------------------
LEMMA StoredType ==
    ASSUME TInv
    PROVE  /\ Stored \in Nat /\ Missed \in Int /\ One(brk) \in {0, 1}
           /\ tel \in Nat /\ posts \in Nat /\ emsRxBufIdx \in Nat
BY DEF TInv, TypeOK, TelOK, Stored, Missed, One

\* Every telegram that ends is stored: the number of those missed is settled
\* when the first one is.
LEMMA MissedStays ==
    ASSUME RxInv, KeepsUp, Pace, [Next]_vars
    PROVE  Missed' = Missed \/ ~EMSInitDone
<1> USE DEF RxInv
<1>1. CASE BusByte \/ InitDone \/ IsrReceive \/ TaskCallback
    BY <1>1
    DEF BusByte, InitDone, IsrReceive, TaskCallback, Missed, Stored, One, bus, hw, setup,
        taskVars, ring
<1>2. CASE BusBreak
  <2>1. ~brk /\ brk' /\ tel' = tel + 1 /\ tel \in Nat
      BY <1>2 DEF BusBreak, KeepsUp, TInv, TypeOK
  <2>2. Stored' = Stored /\ Stored \in Nat
      BY <1>2, StoredType DEF BusBreak, Stored, taskVars, ring
  <2> QED BY <2>1, <2>2 DEF Missed, One
<1>3. CASE IsrBreak
  <2>1. brk /\ ~brk' /\ tel' = tel /\ tel \in Nat
      BY <1>3 DEF IsrBreak, TInv, TypeOK, bus
  <2>2. posts = 0 /\ posts' = 1
      BY <1>3, <2>1, EmsAssumption DEF IsrBreak, Pace, Posted, EmsAssumption
  <2>3. Stored' = Stored + 1 /\ Stored \in Nat
      BY <1>3, <2>2, StoredType DEF IsrBreak, Stored, One, taskVars, ring
  <2> QED BY <2>1, <2>3 DEF Missed, One
<1>4. CASE TaskStart
  <2>1. posts \in Nat /\ emsRxBufIdx \in Nat
      BY StoredType
  <2>2. Stored' = Stored
      BY <1>4, <2>1 DEF TaskStart, Stored, One, ring
  <2> QED BY <1>4, <2>2 DEF TaskStart, Missed, hw, bus
<1>5. CASE TaskAdvance
  <2>1. posts \in Nat /\ emsRxBufIdx \in Nat
      BY StoredType
  <2>2. Stored' = Stored
      BY <1>5, <2>1 DEF TaskAdvance, Stored, One
  <2> QED BY <1>5, <2>2 DEF TaskAdvance, Missed, hw, bus
<1>6. CASE UserInit /\ ~InitDone
    BY <1>6 DEF UserInit, UartInit, AddRecvCb, EMSInitDone
<1>7. CASE IsrDiscard
    BY <1>7 DEF IsrDiscard, EMSInitDone
<1>8. CASE UNCHANGED vars
    BY <1>8 DEF vars, Missed, Stored, bus, hw, taskVars, ring
<1> QED BY <1>1, <1>2, <1>3, <1>4, <1>5, <1>6, <1>7, <1>8 DEF Next, Isr, RecvTask, UserInit

LEMMA NextPace == RxInv /\ KeepsUp /\ Pace /\ [Next]_vars => Pace'
<1> SUFFICES ASSUME RxInv, KeepsUp, Pace, [Next]_vars PROVE Pace'
    OBVIOUS
<1> USE DEF RxInv, Pace
<1>1. CASE BusByte \/ BusBreak
    BY <1>1 DEF BusByte, BusBreak, KeepsUp, TInv, TypeOK, TelOK, bus, hw, taskVars, ring
<1>2. CASE UserInit
    BY <1>2 DEF UserInit, UartInit, AddRecvCb, InitDone, bus, hw, taskVars, ring
<1>3. CASE IsrDiscard \/ IsrReceive
    BY <1>3 DEF IsrDiscard, IsrReceive, bus, hw, taskVars, ring
<1>4. CASE IsrBreak
    BY <1>4, EmsAssumption DEF IsrBreak, Posted, bus, taskVars, ring, EmsAssumption
<1>5. CASE TaskStart
    BY <1>5 DEF TaskStart, bus, hw, ring
<1>6. CASE TaskAdvance
    BY <1>6 DEF TaskAdvance, TInv, TypeOK, bus, hw
<1>7. CASE TaskCallback
    BY <1>7 DEF TaskCallback, bus, hw, ring
<1>8. CASE UNCHANGED vars
    BY <1>8 DEF vars, bus, hw, taskVars, ring
<1> QED BY <1>1, <1>2, <1>3, <1>4, <1>5, <1>6, <1>7, <1>8 DEF Next, Isr, RecvTask

\* A telegram fits the FIFO, so no byte of it is dropped.
LEMMA ByteKept ==
    ASSUME TInv, LenInv, PromptIsr, BusByte
    PROVE  Collected' = Append(Collected, [tel |-> tel, pos |-> pos + 1])
<1> DEFINE b == [tel |-> tel, pos |-> pos + 1]
           s == IF EMSBusBusy THEN irq ELSE <<>>
<1>1. b \in Byte /\ fifo \in Seq(Byte) /\ s \in Seq(Byte)
    BY EmptySeq, EmsAssumption DEF TInv, TypeOK, Byte, EmsAssumption
<1>2. Len(fifo) < FifoSize
  <2>1. Len(s \o fifo) = Len(s) + Len(fifo) /\ Len(s) \in Nat /\ Len(fifo) \in Nat
      BY <1>1, ConcatProperties, LenProperties
  <2>2. Collected = s \o fifo
      BY DEF Collected
  <2>3. Len(s \o fifo) <= pos /\ pos < MaxLen /\ pos \in Nat
      BY <2>2, EmsAssumption DEF LenInv, BusByte, TInv, TypeOK, EmsAssumption
  <2> HIDE DEF s
  <2> QED BY <2>1, <2>3, EmsAssumption, FifoAssumption DEF EmsAssumption, FifoAssumption
<1>3. fifo' = Append(fifo, b) /\ UNCHANGED <<irq, EMSBusBusy>>
    BY <1>2 DEF BusByte, isrVars
<1>4. Collected = s \o fifo /\ Collected' = s \o fifo'
    BY <1>3 DEF Collected
<1>5. s \o Append(fifo, b) = Append(s \o fifo, b)
  <2> HIDE DEF s, b
  <2> QED BY <1>1, ConcatAppend
<1> QED BY <1>3, <1>4, <1>5

LEMMA EndType ==
    ASSUME RxInv, Pace
    PROVE  /\ End \in Nat /\ pos \in Nat /\ Current \in Nat
           /\ brk /\ PromptIsr => pos = 0
<1>1. pos \in Nat /\ tel \in Nat /\ tel >= 1
    BY EmsAssumption DEF RxInv, TInv, TypeOK, TelOK, EmsAssumption
<1>2. Current \in Nat
    BY <1>1 DEF Current, One
<1>3. brk /\ tel > 1 => sent[tel - 1] \in Nat
  <2>1. sent \in Seq(Nat) /\ Len(sent) = tel - 1
      BY DEF RxInv, SetupInv, TInv, TypeOK
  <2> QED BY <1>1, <2>1, ElementOfSeq
<1> QED BY <1>1, <1>2, <1>3 DEF End, RxInv, LenInv, Pace

\* With nothing collected a run may begin anywhere before the first telegram is
\* stored, and at the beginning of a telegram after that.
LEMMA RunMayStart ==
    ASSUME NEW n \in Nat, NEW m \in Nat, m = 0 \/ n = 0,
           EMSBusBusy' = FALSE, fifo' = <<>>, brk' = FALSE, pos' = n, Stored' = m
    PROVE  CollectedIsRun'
<1>1. Collected' = <<>>
    BY EmptySeq, ConcatEmptySeq DEF Collected
<1>2. End' = n
    BY DEF End
<1>3. Run(Current', n + 1, n) = <<>>
    BY RunEmpty
<1>4. n + 1 \in 1 .. n + 1 /\ (m > 0 => n + 1 = 1)
    OBVIOUS
<1> QED BY <1>1, <1>2, <1>3, <1>4 DEF CollectedIsRun

LEMMA NextCollectedIsRun ==
    ASSUME RxInv, KeepsUp, Pace, CollectedIsRun, [Next]_vars
    PROVE  CollectedIsRun'
<1>e. /\ End \in Nat /\ pos \in Nat /\ Current \in Nat /\ tel \in Nat
      /\ brk => pos = 0
      /\ Stored \in Nat
    BY EndType, StoredType DEF RxInv, KeepsUp
<1>f. ASSUME Collected' = Collected, Current' = Current, End' = End, Stored' = Stored
      PROVE  CollectedIsRun'
    BY <1>f DEF CollectedIsRun
<1>1. CASE BusByte
  <2>1. /\ ~brk /\ ~brk' /\ tel' = tel /\ pos' = pos + 1
        /\ UNCHANGED <<posts, task, emsRxBufIdx>>
      BY <1>1 DEF BusByte, KeepsUp, taskVars, ring
  <2>2. Current = tel /\ End = pos /\ Current' = tel /\ End' = pos + 1 /\ Stored' = Stored
      BY <2>1, <1>e DEF Current, End, One, Stored
  <2>3. Collected' = Append(Collected, [tel |-> tel, pos |-> pos + 1])
      BY <1>1, ByteKept DEF RxInv, KeepsUp
  <2>4. PICK p0 \in 1 .. pos + 1 : Collected = Run(tel, p0, pos) /\ (Stored > 0 => p0 = 1)
      BY <2>2 DEF CollectedIsRun
  <2>5. Collected' = Run(tel, p0, pos + 1)
      BY <1>e, <2>3, <2>4, RunAppend
  <2>6. p0 \in 1 .. (pos + 1) + 1
      BY <1>e
  <2> QED BY <2>2, <2>4, <2>5, <2>6 DEF CollectedIsRun
<1>2. CASE BusBreak
  <2>1. /\ ~brk /\ brk' /\ tel' = tel + 1 /\ sent' = Append(sent, pos)
        /\ UNCHANGED <<fifo, irq, EMSBusBusy, posts, task, emsRxBufIdx>>
      BY <1>2 DEF BusBreak, KeepsUp, isrVars, taskVars, ring
  <2>2. sent'[tel] = pos
    <3>1. sent \in Seq(Nat) /\ Len(sent) = tel - 1
        BY DEF RxInv, SetupInv, TInv, TypeOK
    <3> QED BY <1>e, <2>1, <3>1, AppendProperties
  <2>3. Current' = Current
      BY <1>e, <2>1 DEF Current, One
  <2>4. End' = End
    <3>1. End = pos
        BY <2>1 DEF End
    <3>2. tel' - 1 = tel
        BY <1>e, <2>1
    <3>3. End' = sent'[tel' - 1]
        BY <2>1 DEF End
    <3> QED BY <2>2, <3>1, <3>2, <3>3
  <2>5. Stored' = Stored /\ Collected' = Collected
      BY <2>1 DEF Stored, Collected
  <2> QED BY <1>f, <2>3, <2>4, <2>5
<1>3. CASE UartInit \/ IsrDiscard
  <2>1. /\ ~EMSInitDone /\ EMSBusBusy' = FALSE /\ fifo' = <<>> /\ brk' = FALSE
        /\ pos' = pos
        /\ UNCHANGED <<posts, task, emsRxBufIdx>>
      BY <1>3
      DEF UartInit, IsrDiscard, EMSInitDone, RxInv, LenInv, TInv, TypeOK, isrVars, bus,
          taskVars, ring
  <2>2. Stored' = 0
      BY <2>1 DEF Stored, One, RxInv, SetupInv
  <2> QED BY <1>e, <2>1, <2>2, RunMayStart
<1>4. CASE IsrReceive
  <2>1. /\ irq' = Collected /\ EMSBusBusy' = TRUE /\ fifo' = <<>>
        /\ UNCHANGED <<brk, tel, pos, sent, posts, task, emsRxBufIdx>>
      BY <1>4 DEF IsrReceive, bus, taskVars, ring
  <2>2. Collected \in Seq(Byte)
      BY CollectedType DEF RxInv, TInv
  <2>3. Collected' = Collected
      BY <2>1, <2>2, ConcatEmptySeq DEF Collected
  <2> QED BY <1>f, <2>1, <2>3 DEF Current, End, Stored
<1>5. CASE IsrBreak
  <2>1. EMSBusBusy' = FALSE /\ fifo' = <<>> /\ brk' = FALSE /\ pos' = 0
      BY <1>5, <1>e DEF IsrBreak, bus
  <2>2. Stored' \in Nat
    <3>1. posts' \in Nat /\ emsRxBufIdx' \in Nat
        BY NextTInv DEF RxInv, TInv, TypeOK
    <3>2. One(task = "advance")' \in {0, 1}
        BY DEF One
    <3> QED BY <3>1, <3>2 DEF Stored
  <2> QED BY <2>1, <2>2, RunMayStart
<1>6. ASSUME UNCHANGED <<bus, hw, isrVars>>, Stored' = Stored PROVE CollectedIsRun'
  <2>1. UNCHANGED <<fifo, irq, EMSBusBusy, brk, tel, pos, sent>>
      BY <1>6 DEF bus, hw, isrVars
  <2> QED BY <1>f, <1>6, <2>1 DEF Collected, Current, End
<1>7. CASE InitDone \/ \E cb \in Callbacks : AddRecvCb(cb)
  <2>1. UNCHANGED <<bus, hw, isrVars, posts, task, emsRxBufIdx>>
      BY <1>7 DEF InitDone, AddRecvCb, taskVars, ring
  <2> QED BY <1>6, <2>1 DEF Stored
<1>8. CASE RecvTask
  <2>1. UNCHANGED <<bus, hw, isrVars>>
      BY <1>8 DEF RecvTask, TaskStart, TaskAdvance, TaskCallback
  <2>2. posts \in Nat /\ emsRxBufIdx \in Nat
      BY StoredType DEF RxInv
  <2>3. Stored' = Stored
      BY <1>8, <2>2
      DEF RecvTask, TaskStart, TaskAdvance, TaskCallback, Stored, One, ring
  <2> QED BY <1>6, <2>1, <2>3
<1>9. CASE UNCHANGED vars
    BY <1>6, <1>9 DEF vars, Stored, taskVars, ring
<1> QED BY <1>1, <1>2, <1>3, <1>4, <1>5, <1>7, <1>8, <1>9 DEF Next, UserInit, Isr

-----------------------------------------------------------------------------
\* A fact about the ended telegrams outlives every step.
LEMMA HoldsStays ==
    ASSUME RxInv, [Next]_vars, NEW r, NEW t, NEW whole, Holds(sent, r, t, whole)
    PROVE  Holds(sent', r, t, whole)
<1>1. CASE BusBreak
  <2>1. sent' = Append(sent, pos) /\ sent \in Seq(Nat) /\ pos \in Nat
      BY <1>1, EmsAssumption DEF BusBreak, RxInv, TInv, TypeOK, EmsAssumption
  <2> QED BY <2>1, HoldsLater
<1>2. CASE ~BusBreak
  <2>1. ASSUME NEW cb \in Callbacks, AddRecvCb(cb) PROVE sent' = sent
      BY <2>1 DEF AddRecvCb, bus
  <2>2. sent' = sent
      BY <1>2, <2>1
      DEF Next, UserInit, Isr, RecvTask, BusByte, UartInit, InitDone, IsrDiscard,
          IsrReceive, IsrBreak, TaskStart, TaskAdvance, TaskCallback, vars, bus
  <2> QED BY <2>2
<1> QED BY <1>1, <1>2

\* What the handler stores at a BREAK is the telegram that has just ended.
LEMMA StoredHolds ==
    ASSUME RxInv, KeepsUp, Pace, CollectedIsRun, IsrBreak
    PROVE  LET r == paEMSRxBuf'[pEMSRxBuf]
           IN  Holds(sent, r, tel - 1, emsRxBufIdx > 0)
<1> DEFINE data == Collected \o Trailer
           r == [sys_timeStamp |-> Stamped, writePtr |-> Len(data), buffer |-> data]
<1>1. brk /\ pos = 0 /\ tel > 1 /\ tel \in Nat /\ Stored \in Nat /\ emsRxBufIdx \in Nat
    BY EndType, StoredType DEF IsrBreak, Pace, RxInv, KeepsUp
<1>2. paEMSRxBuf'[pEMSRxBuf] = r
    BY DEF IsrBreak, RxInv, TInv, TypeOK
<1>3. Stamped = tel - 1
    BY <1>1 DEF Stamped, Now, RxInv, HeaderInv, KeepsUp
<1>4. Current = tel - 1 /\ End = sent[tel - 1]
    BY <1>1 DEF Current, End, One
<1>5. PICK p0 \in 1 .. sent[tel - 1] + 1 :
        Collected = Run(tel - 1, p0, sent[tel - 1]) /\ (Stored > 0 => p0 = 1)
    BY <1>4 DEF CollectedIsRun
<1>6. emsRxBufIdx > 0 => p0 = 1
    BY <1>1, <1>5 DEF Stored, One, Pace
<1>7. data = Telegram(tel - 1, p0, sent[tel - 1])
    BY <1>5, TelegramIsRun
<1>8. tel - 1 \in 1 .. Len(sent)
    BY <1>1 DEF RxInv, SetupInv
<1>9. r # Garbage
  <2>1. Collected \o Trailer \in Seq(Byte) /\ Stamped \in Nat
      BY <1>1, <1>3, CollectedType DEF RxInv, TInv
  <2>2. r \in RxBuf
      BY <2>1, LenProperties DEF RxBuf
  <2> QED BY <2>2, GarbageAssumption DEF GarbageAssumption
<1> HIDE DEF data
<1>10. r.sys_timeStamp = tel - 1 /\ r.buffer = data
    BY <1>3
<1> HIDE DEF r
<1> QED BY <1>2, <1>6, <1>7, <1>8, <1>9, <1>10 DEF Holds

LEMMA NextBuffersHold ==
    ASSUME RxInv, KeepsUp, Pace, CollectedIsRun, BuffersHold, EMSInitDone, [Next]_vars
    PROVE  BuffersHold'
<1>e. /\ emsRxBufIdx \in Nat /\ posts \in Nat /\ tel \in Nat
      /\ Missed \in Int /\ Missed' = Missed
    BY StoredType, MissedStays DEF RxInv
<1>1. CASE IsrBreak
  <2>1. /\ posts = 0 /\ posts' = 1 /\ brk /\ task # "advance"
        /\ UNCHANGED <<sent, task, pCurrent, emsRxBufIdx, pEMSRxBuf>>
      BY <1>1, EmsAssumption
      DEF IsrBreak, Pace, Posted, EmsAssumption, bus, taskVars, ring
  <2>2. Missed + emsRxBufIdx + 1 = tel - 1
      BY <1>e, <2>1 DEF Missed, Stored, One
  <2>3. Holds(sent, paEMSRxBuf'[pEMSRxBuf], Missed + emsRxBufIdx + 1, emsRxBufIdx > 0)
      BY <1>1, <2>2, StoredHolds
  <2>4. task = "call" => paEMSRxBuf'[pCurrent] = paEMSRxBuf[pCurrent]
      BY <1>1 DEF IsrBreak, RxInv, RingInv, TInv, TypeOK
  <2> QED BY <1>e, <2>1, <2>3, <2>4 DEF BuffersHold
<1>2. CASE TaskStart
  <2>1. posts = 1 /\ task' = "advance" /\ UNCHANGED <<sent, paEMSRxBuf, ring>>
      BY <1>2 DEF TaskStart, Pace, bus
  <2> QED BY <1>e, <2>1 DEF BuffersHold, ring
<1>3. CASE TaskAdvance
  <2>1. /\ task = "advance" /\ task' = "call" /\ emsRxBufIdx' = emsRxBufIdx + 1
        /\ UNCHANGED <<sent, paEMSRxBuf, posts, pCurrent>>
      BY <1>3 DEF TaskAdvance, bus
  <2>2. posts' # 1 /\ pCurrent = pEMSRxBuf
      BY <2>1 DEF Pace, RxInv, RingInv
  <2>3. Holds(sent, paEMSRxBuf[pCurrent], Missed + emsRxBufIdx + 1, emsRxBufIdx > 0)
      BY <2>1, <2>2 DEF BuffersHold
  <2>4. /\ Missed' + emsRxBufIdx' = Missed + emsRxBufIdx + 1
        /\ (emsRxBufIdx' > 1) = (emsRxBufIdx > 0)
      BY <1>e, <2>1
  <2> QED BY <2>1, <2>2, <2>3, <2>4 DEF BuffersHold
<1>4. CASE TaskCallback
  <2>1. /\ task = "call" /\ task' \in {"call", "idle"}
        /\ UNCHANGED <<sent, paEMSRxBuf, ring, posts, pCurrent>>
      BY <1>4 DEF TaskCallback, bus
  <2> QED BY <1>e, <2>1 DEF BuffersHold, ring
<1>5. ASSUME UNCHANGED <<paEMSRxBuf, ring, posts, taskVars>> PROVE BuffersHold'
  <2>1. UNCHANGED <<paEMSRxBuf, pEMSRxBuf, emsRxBufIdx, posts, task, pCurrent>>
      BY <1>5 DEF ring, taskVars
  <2>2. posts = 1 \/ task = "advance" =>
            Holds(sent', paEMSRxBuf[pEMSRxBuf], Missed + emsRxBufIdx + 1, emsRxBufIdx > 0)
      BY HoldsStays DEF BuffersHold
  <2>3. task = "call" =>
            Holds(sent', paEMSRxBuf[pCurrent], Missed + emsRxBufIdx, emsRxBufIdx > 1)
      BY HoldsStays DEF BuffersHold
  <2> QED BY <1>e, <2>1, <2>2, <2>3 DEF BuffersHold
<1>6. CASE BusByte \/ BusBreak \/ InitDone \/ IsrReceive
    BY <1>5, <1>6 DEF BusByte, BusBreak, InitDone, IsrReceive
<1>7. CASE UNCHANGED vars
    BY <1>5, <1>7 DEF vars
<1>8. ~UartInit /\ ~IsrDiscard /\ ~\E cb \in Callbacks : AddRecvCb(cb)
    BY DEF UartInit, IsrDiscard, AddRecvCb, EMSInitDone
<1> QED BY <1>1, <1>2, <1>3, <1>4, <1>6, <1>7, <1>8 DEF Next, UserInit, Isr, RecvTask

\* The callback in a slot is called once, for the telegram under way.
LEMMA CallbackSteps ==
    ASSUME RxInv, TaskCallback, NEW i \in Slots, uart_recv_cb[i] # NULL
    PROVE  delivered'[uart_recv_cb[i]] =
               IF i = cbi THEN Append(delivered[uart_recv_cb[i]], paEMSRxBuf[pCurrent])
               ELSE delivered[uart_recv_cb[i]]
<1> DEFINE c == uart_recv_cb[i]
<1>1. c \in Callbacks /\ cbi \in Slots
    BY DEF RxInv, TInv, TypeOK
<1>2. c = uart_recv_cb[cbi] <=> i = cbi
    BY <1>1 DEF RxInv, SetupInv
<1>3. delivered'[c] = IF c = uart_recv_cb[cbi]
                      THEN Append(delivered[c], paEMSRxBuf[pCurrent]) ELSE delivered[c]
    BY <1>1 DEF TaskCallback
<1> QED BY <1>2, <1>3

LEMMA CallsType ==
    ASSUME RxInv, NEW c \in Callbacks
    PROVE  /\ delivered[c] \in Seq(RxBuf \cup {Garbage})
           /\ Len(delivered[c]) \in Nat
BY LenProperties DEF RxInv, TInv, TypeOK

\* What the task has counted, every callback has been called for.
LEMMA NextCounted ==
    ASSUME RxInv, KeepsUp, Pace, Counted, EMSInitDone, [Next]_vars
    PROVE  Counted'
<1>e. emsRxBufIdx \in Nat /\ cbi \in Slots /\ uart_recv_cb \in [Slots -> Callbacks \cup {NULL}]
    BY DEF RxInv, TInv, TypeOK
<1>u. ASSUME UNCHANGED uart_recv_cb,
             \A i \in Slots : uart_recv_cb[i] # NULL =>
                 Len(delivered'[uart_recv_cb[i]])
                     = emsRxBufIdx' - One(task' = "call" /\ i >= cbi')
      PROVE  Counted'
    BY <1>u DEF Counted
<1>1. CASE TaskStart
    BY <1>1 DEF TaskStart, Counted, One, ring, setup
<1>2. CASE TaskAdvance
  <2>1. /\ task = "advance" /\ task' = "call" /\ cbi' = 1 /\ emsRxBufIdx' = emsRxBufIdx + 1
        /\ UNCHANGED <<uart_recv_cb, delivered>>
      BY <1>2 DEF TaskAdvance, setup
  <2>2. ASSUME NEW i \in Slots, uart_recv_cb[i] # NULL
        PROVE  Len(delivered[uart_recv_cb[i]]) = emsRxBufIdx /\ i >= 1
      BY <1>e, <2>1, <2>2 DEF Counted, One, Slots
  <2>3. ASSUME NEW i \in Slots, uart_recv_cb[i] # NULL
        PROVE  Len(delivered'[uart_recv_cb[i]])
                   = emsRxBufIdx' - One(task' = "call" /\ i >= cbi')
    <3>1. One(task' = "call" /\ i >= cbi') = 1
        BY <2>1, <2>2, <2>3 DEF One
    <3>2. Len(delivered'[uart_recv_cb[i]]) = emsRxBufIdx
        BY <2>1, <2>2, <2>3
    <3> QED BY <1>e, <2>1, <3>1, <3>2
  <2> QED BY <1>u, <2>1, <2>3
<1>3. CASE TaskCallback
  <2>1. /\ task = "call" /\ UNCHANGED <<uart_recv_cb, emsRxBufIdx>>
        /\ IF cbi < MAX_CB THEN cbi' = cbi + 1 /\ task' = "call" ELSE task' = "idle"
      BY <1>3 DEF TaskCallback, ring, setup
  <2>2. ASSUME NEW i \in Slots, uart_recv_cb[i] # NULL
        PROVE  Len(delivered'[uart_recv_cb[i]])
                   = emsRxBufIdx' - One(task' = "call" /\ i >= cbi')
    <3> DEFINE c == uart_recv_cb[i]
    <3>1. /\ delivered[c] \in Seq(RxBuf \cup {Garbage}) /\ Len(delivered[c]) \in Nat
          /\ paEMSRxBuf[pCurrent] \in RxBuf \cup {Garbage}
        BY <1>e, <2>2, CallsType DEF RxInv, TInv, TypeOK
    <3>2. delivered'[c] = IF i = cbi THEN Append(delivered[c], paEMSRxBuf[pCurrent])
                          ELSE delivered[c]
        BY <1>3, <2>2, CallbackSteps
    <3>3. Len(delivered[c]) = emsRxBufIdx - One(i >= cbi)
        BY <2>1, <2>2 DEF Counted, One
    <3> HIDE DEF c
    <3>4. Len(delivered'[c]) = Len(delivered[c]) + One(i = cbi)
      <4>1. CASE i = cbi
        <5>1. Len(delivered'[c]) = Len(delivered[c]) + 1
            BY <3>1, <3>2, <4>1, AppendProperties
        <5> QED BY <4>1, <5>1 DEF One
      <4>2. CASE i # cbi
        <5>1. Len(delivered'[c]) = Len(delivered[c])
            BY <3>2, <4>2
        <5> QED BY <3>1, <4>2, <5>1 DEF One
      <4> QED BY <4>1, <4>2
    <3>5. i \in 1 .. MAX_CB /\ cbi \in 1 .. MAX_CB /\ MAX_CB \in Nat
        BY <1>e, EmsAssumption DEF Slots, EmsAssumption
    <3>6. One(i >= cbi) - One(i = cbi) = One(task' = "call" /\ i >= cbi')
        BY <2>1, <3>5 DEF One
    <3>7. One(i >= cbi) \in Int /\ One(i = cbi) \in Int
        BY DEF One
    <3>8. Len(delivered'[c]) = emsRxBufIdx - (One(i >= cbi) - One(i = cbi))
        BY <1>e, <3>3, <3>4, <3>7
    <3> QED BY <2>1, <3>6, <3>8 DEF c
  <2> QED BY <1>u, <2>1, <2>2
<1>4. ASSUME UNCHANGED <<ring, taskVars, uart_recv_cb, delivered>> PROVE Counted'
    BY <1>4 DEF Counted, ring, taskVars
<1>5. CASE BusByte \/ BusBreak \/ InitDone \/ IsrReceive \/ IsrBreak
    BY <1>4, <1>5 DEF BusByte, BusBreak, InitDone, IsrReceive, IsrBreak, setup
<1>6. CASE UNCHANGED vars
    BY <1>4, <1>6 DEF vars, setup
<1>7. ~UartInit /\ ~IsrDiscard /\ ~\E cb \in Callbacks : AddRecvCb(cb)
    BY DEF UartInit, IsrDiscard, AddRecvCb, EMSInitDone
<1> QED BY <1>1, <1>2, <1>3, <1>5, <1>6, <1>7 DEF Next, UserInit, Isr, RecvTask

LEMMA NextGiven ==
    ASSUME RxInv, KeepsUp, Pace, BuffersHold, Given, Counted, EMSInitDone, [Next]_vars
    PROVE  Given'
<1>m. Missed' = Missed
    BY MissedStays
<1>1. CASE TaskCallback
  <2> SUFFICES ASSUME NEW c \in Callbacks, NEW k \in 1 .. Len(delivered'[c])
               PROVE  Holds(sent', delivered'[c][k], Missed' + k, k > 1)
      BY DEF Given
  <2>1. PICK i \in Slots : uart_recv_cb[i] = c
      BY DEF RxInv, SetupInv
  <2>2. uart_recv_cb[i] # NULL
      BY <2>1, EmsAssumption DEF EmsAssumption
  <2>3. delivered'[c] = IF i = cbi THEN Append(delivered[c], paEMSRxBuf[pCurrent])
                        ELSE delivered[c]
      BY <1>1, <2>1, <2>2, CallbackSteps
  <2>4. sent' = sent /\ task = "call"
      BY <1>1 DEF TaskCallback, bus
  <2>5. CASE k \in 1 .. Len(delivered[c]) /\ delivered'[c][k] = delivered[c][k]
      BY <1>m, <2>4, <2>5 DEF Given
  <2>6. CASE i = cbi
    <3>1. /\ delivered[c] \in Seq(RxBuf \cup {Garbage}) /\ Len(delivered[c]) \in Nat
          /\ paEMSRxBuf[pCurrent] \in RxBuf \cup {Garbage}
        BY CallsType DEF RxInv, TInv, TypeOK
    <3>2. /\ Len(delivered'[c]) = Len(delivered[c]) + 1
          /\ \A j \in 1 .. Len(delivered[c]) : delivered'[c][j] = delivered[c][j]
          /\ delivered'[c][Len(delivered[c]) + 1] = paEMSRxBuf[pCurrent]
        BY <2>3, <2>6, <3>1, AppendProperties
    <3>3. CASE k = Len(delivered[c]) + 1
      <4>1. cbi >= cbi /\ emsRxBufIdx \in Nat
          BY DEF RxInv, TInv, TypeOK, Slots
      <4>2. Len(delivered[c]) = emsRxBufIdx - 1
          BY <2>1, <2>2, <2>4, <2>6, <4>1 DEF Counted, One
      <4>3. k = emsRxBufIdx
          BY <3>3, <4>1, <4>2
      <4> QED BY <1>m, <2>4, <3>2, <3>3, <4>3 DEF BuffersHold
    <3>4. CASE k # Len(delivered[c]) + 1
        BY <2>5, <3>1, <3>2, <3>4
    <3> QED BY <3>3, <3>4
  <2> QED BY <2>3, <2>5, <2>6
<1>2. ASSUME UNCHANGED delivered PROVE Given'
  <2> SUFFICES ASSUME NEW c \in Callbacks, NEW k \in 1 .. Len(delivered[c])
               PROVE  Holds(sent', delivered[c][k], Missed + k, k > 1)
      BY <1>m, <1>2 DEF Given
  <2>1. Holds(sent, delivered[c][k], Missed + k, k > 1)
      BY DEF Given
  <2> QED BY <2>1, HoldsStays
<1>3. CASE ~TaskCallback
    BY <1>2, <1>3
    DEF Next, UserInit, Isr, RecvTask, BusByte, BusBreak, UartInit, AddRecvCb, InitDone,
        IsrDiscard, IsrReceive, IsrBreak, TaskStart, TaskAdvance, vars
<1> QED BY <1>1, <1>3

\* Before EMSInitDone no telegram has been stored or handed out.
LEMMA QuietAtFirst == RxInv /\ ~EMSInitDone => BuffersHold /\ Given /\ Counted
<1> SUFFICES ASSUME RxInv, ~EMSInitDone PROVE BuffersHold /\ Given /\ Counted
    OBVIOUS
<1>1. /\ posts = 0 /\ task = "idle" /\ emsRxBufIdx = 0
      /\ \A c \in Callbacks : Len(delivered[c]) = 0
    BY EmptySeq DEF RxInv, SetupInv
<1>2. \A i \in Slots : uart_recv_cb[i] # NULL => uart_recv_cb[i] \in Callbacks
    BY DEF RxInv, TInv, TypeOK
<1>3. Counted
    BY <1>1, <1>2 DEF Counted, One
<1> QED BY <1>1, <1>3 DEF BuffersHold, Given

LEMMA InitFlow == Init => FlowInv
<1> SUFFICES ASSUME Init PROVE FlowInv
    OBVIOUS
<1>1. RxInv /\ ~EMSInitDone
    BY InitRxInv DEF Init, EMSInitDone
<1>2. Pace
    BY DEF Init, Pace
<1>3. Collected = <<>> /\ End = 0 /\ Current = 1 /\ Stored = 0
    BY CollectedEmpty DEF Init, End, Current, One, Stored
<1>4. Run(1, 1, 0) = <<>> /\ 1 \in 1 .. 0 + 1
    BY RunEmpty, 0 + 1 = 1
<1>5. CollectedIsRun
    BY <1>3, <1>4 DEF CollectedIsRun
<1> QED BY <1>1, <1>2, <1>5, QuietAtFirst DEF FlowInv

LEMMA NextFlow == RxInv /\ FlowInv /\ [Next]_vars => FlowInv'
<1> SUFFICES ASSUME RxInv, FlowInv, [Next]_vars, KeepsUp'
             PROVE  (Pace /\ CollectedIsRun /\ BuffersHold /\ Given /\ Counted)'
    BY DEF FlowInv
<1>1. KeepsUp /\ Pace /\ CollectedIsRun /\ BuffersHold /\ Given /\ Counted
    BY PromptFixed DEF FlowInv, KeepsUp, PromptIsr, PromptTask
<1>2. Pace' /\ CollectedIsRun'
    BY <1>1, NextPace, NextCollectedIsRun
<1>3. CASE EMSInitDone
    BY <1>1, <1>2, <1>3, NextBuffersHold, NextGiven, NextCounted
<1>4. CASE ~EMSInitDone /\ ~EMSInitDone'
  <2>1. RxInv'
      BY NextRxInv
  <2>2. (RxInv /\ ~EMSInitDone => BuffersHold /\ Given /\ Counted)'
      BY QuietAtFirst, PTL
  <2> QED BY <1>2, <1>4, <2>1, <2>2
<1>5. CASE ~EMSInitDone /\ EMSInitDone'
  <2>1. InitDone
      BY <1>5
      DEF Next, UserInit, Isr, RecvTask, BusByte, BusBreak, UartInit, AddRecvCb, IsrDiscard,
          IsrReceive, IsrBreak, TaskStart, TaskAdvance, TaskCallback, vars, setup, EMSInitDone
  <2>2. UNCHANGED <<tel, sent, brk, paEMSRxBuf, pEMSRxBuf, emsRxBufIdx, posts, task,
                    pCurrent, cbi, uart_recv_cb, delivered>>
      BY <2>1 DEF InitDone, bus, hw, ring, taskVars
  <2>3. Missed' = Missed
      BY <2>2 DEF Missed, Stored, One
  <2> QED BY <1>1, <1>2, <2>2, <2>3 DEF BuffersHold, Given, Counted, One
<1> QED BY <1>3, <1>4, <1>5

\* If every BREAK is served before the bus goes on and the task has moved
\* pEMSRxBuf on before the next BREAK, a callback is called once for every
\* telegram, in the order of the bus and with the whole of it, for every size of
\* the ring, of the queue and of a telegram that fits the FIFO: nothing is lost or
\* doubled between the interrupt handler and the task.
THEOREM TelegramsInOrder == Spec => []WholeInOrder
<1>1. RxInv /\ FlowInv => WholeInOrder
  <2> SUFFICES ASSUME RxInv, Given, NEW c \in Callbacks, NEW k \in 1 .. Len(delivered[c])
               PROVE  LET r == delivered[c][k] IN
                      /\ r # Garbage
                      /\ LET t == r.sys_timeStamp IN
                         /\ k > 1 => t = delivered[c][k - 1].sys_timeStamp + 1
                         /\ \E p0 \in 1 .. sent[t] + 1 :
                                /\ r.buffer = Telegram(t, p0, sent[t])
                                /\ k > 1 => p0 = 1
      BY DEF WholeInOrder, FlowInv, KeepsUp
  <2>1. Holds(sent, delivered[c][k], Missed + k, k > 1)
      BY DEF Given
  <2>2. Len(delivered[c]) \in Nat /\ Missed \in Int
      BY CallsType, StoredType DEF RxInv
  <2>3. ASSUME k > 1 PROVE delivered[c][k].sys_timeStamp = delivered[c][k - 1].sys_timeStamp + 1
    <3>1. k - 1 \in 1 .. Len(delivered[c])
        BY <2>2, <2>3
    <3>2. Holds(sent, delivered[c][k - 1], Missed + (k - 1), k - 1 > 1)
        BY <3>1 DEF Given
    <3> QED BY <2>1, <2>2, <3>2 DEF Holds
  <2> QED BY <2>1, <2>3 DEF Holds
<1>2. Init => RxInv /\ FlowInv
    BY InitRxInv, InitFlow
<1>3. RxInv /\ FlowInv /\ [Next]_vars => (RxInv /\ FlowInv)'
    BY NextRxInv, NextFlow
<1> QED BY <1>1, <1>2, <1>3, PTL DEF Spec

\* No telegram was missed that ended after EMSInitDone.
NoneMissed == KeepsUp /\ EMSInitDone => firstTel \in Nat /\ Missed < firstTel

LEMMA NextNoneMissed == RxInv /\ FlowInv /\ NoneMissed /\ [Next]_vars => NoneMissed'
<1> SUFFICES ASSUME RxInv, FlowInv, NoneMissed, [Next]_vars, KeepsUp', EMSInitDone'
             PROVE  (firstTel \in Nat /\ Missed < firstTel)'
    BY DEF NoneMissed
<1>1. KeepsUp /\ Pace
    BY PromptFixed DEF FlowInv, KeepsUp, PromptIsr, PromptTask
<1>2. CASE EMSInitDone
  <2>1. Missed' = Missed
      BY <1>1, <1>2, MissedStays
  <2>2. firstTel' = firstTel
      BY <1>2
      DEF Next, UserInit, Isr, RecvTask, BusByte, BusBreak, UartInit, AddRecvCb, InitDone,
          IsrDiscard, IsrReceive, IsrBreak, TaskStart, TaskAdvance, TaskCallback, vars, setup,
          EMSInitDone
  <2> QED BY <1>1, <1>2, <2>1, <2>2 DEF NoneMissed
<1>3. CASE ~EMSInitDone
  <2>1. InitDone
      BY <1>3
      DEF Next, UserInit, Isr, RecvTask, BusByte, BusBreak, UartInit, AddRecvCb, IsrDiscard,
          IsrReceive, IsrBreak, TaskStart, TaskAdvance, TaskCallback, vars, setup, EMSInitDone
  <2>2. UNCHANGED <<tel, brk, emsRxBufIdx, posts, task>> /\ firstTel' = tel
      BY <2>1 DEF InitDone, bus, hw, ring, taskVars
  <2>3. Missed' = Missed /\ Stored = 0
      BY <1>3, <2>2 DEF Missed, Stored, One, RxInv, SetupInv
  <2>4. tel \in Nat /\ One(brk) \in {0, 1}
      BY StoredType DEF RxInv
  <2>5. Missed < tel
      BY <2>3, <2>4 DEF Missed
  <2> QED BY <2>2, <2>3, <2>4, <2>5
<1> QED BY <1>2, <1>3

\* Telegram t has reached callback c.
Reached(c, t) ==
    \E k \in 1 .. Len(delivered[c]) :
        delivered[c][k] # Garbage /\ delivered[c][k].sys_timeStamp = t

\* As long as a telegram that ended after EMSInitDone has not reached a callback,
\* a BREAK is waiting for the handler, an event for the task, or the task is at
\* work: no telegram lies in a buffer that nothing will come for (uart.c:256-292).
\* That they come is what AllDelivered adds.
THEOREM NoneIsForgotten ==
    Spec => [](KeepsUp /\ EMSInitDone =>
                  \A c \in Callbacks, t \in firstTel .. tel - 1 :
                      Reached(c, t) \/ brk \/ posts > 0 \/ task # "idle")
<1> DEFINE Goal == KeepsUp /\ EMSInitDone =>
                      \A c \in Callbacks, t \in firstTel .. tel - 1 :
                          Reached(c, t) \/ brk \/ posts > 0 \/ task # "idle"
<1>1. RxInv /\ FlowInv /\ NoneMissed => Goal
  <2> SUFFICES ASSUME RxInv, FlowInv, NoneMissed, KeepsUp, EMSInitDone, NEW c \in Callbacks,
                      NEW t \in firstTel .. tel - 1, ~brk, ~(posts > 0), task = "idle"
               PROVE  Reached(c, t)
      OBVIOUS
  <2>1. Given /\ Counted
      BY DEF FlowInv
  <2>2. PICK i \in Slots : uart_recv_cb[i] = c
      BY DEF RxInv, SetupInv
  <2>3. uart_recv_cb[i] # NULL
      BY <2>2, EmsAssumption DEF EmsAssumption
  <2>4. tel \in Nat /\ posts \in Nat /\ emsRxBufIdx \in Nat /\ firstTel \in Nat
      BY StoredType DEF RxInv, NoneMissed
  <2>5. Len(delivered[c]) = emsRxBufIdx
      BY <2>1, <2>2, <2>3, <2>4 DEF Counted, One
  <2>6. posts = 0 /\ Stored = emsRxBufIdx /\ Missed = tel - 1 - emsRxBufIdx
      BY <2>4 DEF Stored, Missed, One
  <2>7. Missed < firstTel
      BY DEF NoneMissed
  <2>8. PICK m \in Int : m = Missed
      BY <2>4, <2>6
  <2>9. t - m \in 1 .. emsRxBufIdx /\ m + (t - m) = t
      BY <2>4, <2>6, <2>7, <2>8
  <2>10. PICK k \in 1 .. emsRxBufIdx : m + k = t
      BY <2>9
  <2>11. Holds(sent, delivered[c][k], Missed + k, k > 1)
      BY <2>1, <2>5, <2>10 DEF Given
  <2> QED BY <2>5, <2>8, <2>10, <2>11 DEF Reached, Holds
<1>2. Init => RxInv /\ FlowInv /\ NoneMissed
  <2>1. Init => NoneMissed
      BY DEF Init, NoneMissed, EMSInitDone
  <2> QED BY <2>1, InitRxInv, InitFlow
<1>3. RxInv /\ FlowInv /\ NoneMissed /\ [Next]_vars => (RxInv /\ FlowInv /\ NoneMissed)'
    BY NextRxInv, NextFlow, NextNoneMissed
<1> QED BY <1>1, <1>2, <1>3, PTL DEF Spec
=============================================================================
