--------------------------- MODULE EMSSyslog_proofs ---------------------------
(***************************************************************************)
(* Proofs about EMSSyslog: for any frames a link may send, in connections  *)
(* of any length, what the decoder passes on are checked pieces of the     *)
(* stream in their order; and as long as nothing in the frames looks like  *)
(* a trailer or the start of a V2 header, they are telegrams of the bus,   *)
(* and the loss is bounded.                                                *)
(*                                                                         *)
(* The first part is about the stream: where each frame of it ends, and    *)
(* which byte of which frame stands where.  The second is the invariant    *)
(* Located: the decoder always knows, without knowing that it does, where  *)
(* in a frame it is.                                                       *)
(***************************************************************************)
EXTENDS EMSSyslog, Facts, SequenceTheorems, TLAPS

-----------------------------------------------------------------------------
(***************************************************************************)
(* The stream.                                                             *)
(***************************************************************************)
\* Lengths under names of their own: the provers calculate with them then.
Size(f) == Len(f.bus)
Count == Len(sent)
Total == Len(Stream)

\* What stands where in a frame.
IsWire(w, f) ==
    /\ Size(f) \in 0 .. 125
    /\ w \in Seq(Byte) /\ Len(w) = Size(f) + 13
    /\ w[9] = Size(f) + 3 /\ w[10] = 0
    /\ \A i \in 1 .. Size(f) : w[10 + i] = f.bus[i]
    /\ w[Size(f) + 12] = E5 /\ w[Size(f) + 13] = X1A

LEMMA FunctionIsSeq ==
    ASSUME NEW S, NEW n \in Nat, NEW g \in [1 .. n -> S]
    PROVE  g \in Seq(S) /\ Len(g) = n
OBVIOUS

LEMMA LE16Is ==
    ASSUME NEW m \in 3 .. 128
    PROVE  /\ LE16(m) \in Seq(Byte) /\ Len(LE16(m)) = 2
           /\ LE16(m)[1] = m /\ LE16(m)[2] = 0
<1>1. m % 256 = m /\ m \div 256 = 0
    OBVIOUS
<1> QED BY <1>1 DEF LE16, Byte

LEMMA FramesAre ==
    ASSUME NEW f \in Frames
    PROVE  /\ f.stamps \in Seq(Byte) /\ Len(f.stamps) = 8
           /\ f.bus \in Seq(Byte) /\ Size(f) \in 0 .. 125 /\ Len(f.bus) = Size(f)
<1>1. f.stamps \in [1 .. 8 -> Byte] /\ f.bus \in Seq(Byte)
    BY SyslogAssumption
<1>0. Size(f) + 3 <= 128
    BY SyslogAssumption DEF EMS_MAXBUFFERSIZE, Size
<1>2. f.stamps \in Seq(Byte) /\ Len(f.stamps) = 8
    BY <1>1, FunctionIsSeq
<1>3. Size(f) \in Nat
    BY <1>1, LenProperties DEF Size
<1>4. Size(f) \in 0 .. 125
    BY <1>0, <1>3
<1> QED BY <1>1, <1>2, <1>4 DEF Size

\* w is s of m bytes, and then t of n.
IsJoin(w, s, t, m, n) ==
    /\ w \in Seq(Byte) /\ Len(w) = m + n
    /\ \A i \in 1 .. m + n : w[i] = IF i <= m THEN s[i] ELSE t[i - m]
    /\ \A i \in 1 .. n : w[m + i] = t[i]

LEMMA Joined ==
    ASSUME NEW s \in Seq(Byte), NEW t \in Seq(Byte), NEW m \in Nat, NEW n \in Nat,
           Len(s) = m, Len(t) = n
    PROVE  IsJoin(s \o t, s, t, m, n)
<1>1. /\ s \o t \in Seq(Byte) /\ Len(s \o t) = m + n
      /\ \A i \in 1 .. m + n : (s \o t)[i] = IF i <= m THEN s[i] ELSE t[i - m]
    BY ConcatProperties
<1>2. \A i \in 1 .. n : m + i \in 1 .. m + n /\ ~(m + i <= m) /\ (m + i) - m = i
    OBVIOUS
<1> QED BY <1>1, <1>2 DEF IsJoin

\* Where the parts of a frame are: its length l, n bytes b and the end t.
Holds(w, l, b, t, n) ==
    /\ w \in Seq(Byte) /\ Len(w) = n + 13
    /\ w[9] = l[1] /\ w[10] = l[2]
    /\ \A i \in 1 .. n : w[10 + i] = b[i]
    /\ w[n + 12] = t[2] /\ w[n + 13] = t[3]

LEMMA FourJoined ==
    ASSUME NEW s \in Seq(Byte), NEW l \in Seq(Byte), NEW b \in Seq(Byte), NEW t \in Seq(Byte),
           NEW n \in Nat, Len(s) = 8, Len(l) = 2, Len(b) = n, Len(t) = 3
    PROVE  Holds(s \o l \o b \o t, l, b, t, n)
<1>1. PICK p, q, w : p = s \o l /\ q = p \o b /\ w = q \o t
    OBVIOUS
<1>2. IsJoin(s \o l, s, l, 8, 2)
    BY Joined
<1>3. p \in Seq(Byte) /\ Len(p) = 10 /\ p[9] = l[1] /\ p[10] = l[2]
  <2>1. IsJoin(p, s, l, 8, 2)
      BY <1>1, <1>2
  <2> QED BY <2>1 DEF IsJoin
<1>4. IsJoin(p \o b, p, b, 10, n)
    BY <1>3, Joined
<1>5. IsJoin(q, p, b, 10, n)
    BY <1>1, <1>4
<1>6. q \in Seq(Byte) /\ Len(q) = 10 + n
    BY <1>5 DEF IsJoin
<1>7. PICK m \in Nat : m = 10 + n
    OBVIOUS
<1>8. IsJoin(q \o t, q, t, m, 3)
    BY <1>6, <1>7, Joined
<1>9. IsJoin(w, q, t, m, 3)
    BY <1>1, <1>8
<1>10. w[9] = l[1] /\ w[10] = l[2]
  <2>0. \A i \in 9 .. 10 : i \in 1 .. m + 3 /\ i <= m
      BY <1>7
  <2>1. w[9] = q[9] /\ w[10] = q[10]
      BY <1>9, <2>0 DEF IsJoin
  <2>2. q[9] = p[9] /\ q[10] = p[10]
      BY <1>5 DEF IsJoin
  <2> QED BY <1>3, <2>1, <2>2
<1>11. \A i \in 1 .. n : w[10 + i] = b[i]
  <2> SUFFICES ASSUME NEW i \in 1 .. n PROVE w[10 + i] = b[i]
      OBVIOUS
  <2>1. 10 + i \in 1 .. m + 3 /\ 10 + i <= m
      BY <1>7
  <2> QED BY <1>5, <1>9, <2>1 DEF IsJoin
<1>12. w \in Seq(Byte) /\ Len(w) = n + 13 /\ w[n + 12] = t[2] /\ w[n + 13] = t[3]
  <2>1. w \in Seq(Byte) /\ Len(w) = m + 3 /\ w[m + 2] = t[2] /\ w[m + 3] = t[3]
      BY <1>9 DEF IsJoin
  <2>2. m + 3 = n + 13 /\ m + 2 = n + 12
      BY <1>7
  <2> QED BY <2>1, <2>2
<1> QED BY <1>1, <1>10, <1>11, <1>12 DEF Holds

LEMMA WiresAre ==
    ASSUME NEW f \in Frames
    PROVE  IsWire(Wires[f], f)
<1>1. PICK s, b : s = f.stamps /\ b = f.bus
    OBVIOUS
<1>2. s \in Seq(Byte) /\ Len(s) = 8 /\ b \in Seq(Byte) /\ Size(f) \in 0 .. 125 /\ Len(b) = Size(f)
    BY <1>1, FramesAre
<1>3. PICK n \in 0 .. 125 : Size(f) = n
    BY <1>2
<1>4. n + 3 \in 3 .. 128
    OBVIOUS
<1>5. PICK l : l = LE16(n + 3)
    OBVIOUS
<1>6. l \in Seq(Byte) /\ Len(l) = 2 /\ l[1] = n + 3 /\ l[2] = 0
    BY <1>4, <1>5, LE16Is
<1>7. PICK t : t = <<0, E5, X1A>>
    OBVIOUS
<1>8. t \in Seq(Byte) /\ Len(t) = 3 /\ t[2] = E5 /\ t[3] = X1A
    BY <1>7 DEF E5, X1A, Byte
<1>9. Holds(s \o l \o b \o t, l, b, t, n)
  <2>1. Len(b) = n /\ n \in Nat
      BY <1>2, <1>3
  <2> QED BY <1>2, <1>6, <1>8, <2>1, FourJoined
<1>10. Wires[f] = s \o l \o b \o t
    BY <1>1, <1>3, <1>5, <1>7 DEF Wires, Wire, Size
<1>11. PICK w : w = Wires[f]
    OBVIOUS
<1>12. Holds(w, l, b, t, n)
    BY <1>9, <1>10, <1>11
<1> QED BY <1>1, <1>3, <1>6, <1>8, <1>11, <1>12 DEF IsWire, Holds

\* The connection is of frames the link may send.
LEMMA SentIs ==
    ASSUME sent \in Streams \cup {<<>>}
    PROVE  /\ sent \in Seq(Frames) /\ Count \in Nat /\ DOMAIN sent = 1 .. Count
           /\ \A k \in 1 .. Count : sent[k] \in Frames /\ IsWire(Wires[sent[k]], sent[k])
<1>1. sent \in Seq(Frames)
    BY SyslogAssumption, EmptySeq
<1>2. Count \in Nat /\ DOMAIN sent = 1 .. Count
    BY <1>1, LenProperties DEF Count
<1>3. \A k \in 1 .. Count : sent[k] \in Frames
    BY <1>1, ElementOfSeq DEF Count
<1> QED BY <1>1, <1>2, <1>3, WiresAre

\* The first n frames, and as one sequence of bytes.
First(n) == [j \in 1 .. n |-> Wires[sent[j]]]
Bytes(n) == FlattenSeq(First(n))

LEMMA FirstIs ==
    ASSUME sent \in Streams \cup {<<>>}, NEW n \in 0 .. Count
    PROVE  /\ First(n) \in Seq(Seq(Byte)) /\ Len(First(n)) = n
           /\ \A k \in 1 .. n : First(n)[k] = Wires[sent[k]]
           /\ Bytes(n) \in Seq(Byte)
<1>1. Count \in Nat /\ \A k \in 1 .. Count : IsWire(Wires[sent[k]], sent[k])
    BY SentIs
<1>2. \A k \in 1 .. n : Wires[sent[k]] \in Seq(Byte)
  <2> SUFFICES ASSUME NEW k \in 1 .. n PROVE Wires[sent[k]] \in Seq(Byte)
      OBVIOUS
  <2>1. k \in 1 .. Count
      BY <1>1
  <2> QED BY <1>1, <2>1 DEF IsWire
<1>3. First(n) \in [1 .. n -> Seq(Byte)] /\ \A k \in 1 .. n : First(n)[k] = Wires[sent[k]]
    BY <1>2 DEF First
<1>4. n \in Nat
    BY <1>1
<1>5. First(n) \in Seq(Seq(Byte)) /\ Len(First(n)) = n
    BY <1>3, <1>4, FunctionIsSeq
<1>6. Bytes(n) \in Seq(Byte)
    BY <1>5, FlattenType DEF Bytes
<1> QED BY <1>3, <1>5, <1>6

\* One frame more.
LEMMA BytesGrow ==
    ASSUME sent \in Streams \cup {<<>>}, NEW k \in 1 .. Count
    PROVE  Bytes(k) = Bytes(k - 1) \o Wires[sent[k]]
<1>1. Count \in Nat
    BY SentIs
<1>2. PICK j : j = k - 1
    OBVIOUS
<1>3. j \in 0 .. Count /\ k \in 0 .. Count /\ k = j + 1
    BY <1>1, <1>2
<1>4. /\ First(j) \in Seq(Seq(Byte)) /\ Len(First(j)) = j
      /\ \A i \in 1 .. j : First(j)[i] = Wires[sent[i]]
    BY <1>3, FirstIs
<1>5. /\ First(k) \in Seq(Seq(Byte)) /\ Len(First(k)) = k
      /\ \A i \in 1 .. k : First(k)[i] = Wires[sent[i]]
    BY <1>3, FirstIs
<1>6. First(k)[k] = Wires[sent[k]] /\ \A i \in 1 .. j : First(k)[i] = First(j)[i]
    BY <1>3, <1>4, <1>5
<1>7. FlattenSeq(First(k)) = Cat(FlattenSeq(First(j)), First(k)[Len(First(k))])
  <2>1. Len(First(k)) = Len(First(j)) + 1 /\ \A i \in 1 .. Len(First(j)) : First(k)[i] = First(j)[i]
      BY <1>3, <1>4, <1>5, <1>6
  <2> QED BY <1>4, <1>5, <2>1, FlattenOneMore
<1> QED BY <1>2, <1>5, <1>6, <1>7 DEF Bytes, Cat

\* Where the frames are: one ends where the next one starts, and the stream
\* has the bytes of frame k from End(k - 1) on.
Laid ==
    /\ Stream \in Seq(Byte) /\ Total \in Nat
    /\ End(0) = 0 /\ End(Count) = Total
    /\ \A k \in 0 .. Count : End(k) \in 0 .. Total
    /\ \A k \in 1 .. Count : End(k) = End(k - 1) + Size(sent[k]) + 13
    /\ \A k \in 1 .. Count : \A i \in 1 .. Size(sent[k]) + 13 :
          Stream[End(k - 1) + i] = Wires[sent[k]][i]

LEMMA StreamIsLaid ==
    ASSUME sent \in Streams \cup {<<>>}
    PROVE  Laid
<1>1. Count \in Nat /\ DOMAIN sent = 1 .. Count
    BY SentIs
<1>2. Stream = Bytes(Count) /\ \A k : End(k) = Len(Bytes(k))
    BY <1>1 DEF Stream, End, Bytes, First
<1>3. ASSUME NEW k \in 0 .. Count PROVE Bytes(k) \in Seq(Byte) /\ End(k) \in Nat
  <2>1. Bytes(k) \in Seq(Byte)
      BY FirstIs
  <2> QED BY <1>2, <2>1, LenProperties
<1>4. End(0) = 0
  <2>1. First(0) = <<>>
      BY DEF First
  <2>2. Bytes(0) = <<>>
      BY <2>1, EmptySeq DEF Bytes, FlattenSeq
  <2> QED BY <1>2, <2>2, EmptySeq
<1>5. ASSUME NEW k \in 1 .. Count
      PROVE  /\ Size(sent[k]) \in 0 .. 125
             /\ IsJoin(Bytes(k), Bytes(k - 1), Wires[sent[k]], End(k - 1), Size(sent[k]) + 13)
  <2>1. k - 1 \in 0 .. Count
      BY <1>1
  <2>2. PICK n, w, e : n = Size(sent[k]) + 13 /\ w = Wires[sent[k]] /\ e = End(k - 1)
      OBVIOUS
  <2>3. IsWire(Wires[sent[k]], sent[k])
      BY SentIs
  <2>4. Size(sent[k]) \in 0 .. 125 /\ w \in Seq(Byte) /\ Len(w) = n
      BY <2>2, <2>3 DEF IsWire
  <2>5. Bytes(k - 1) \in Seq(Byte) /\ Len(Bytes(k - 1)) = e /\ e \in Nat /\ n \in Nat
      BY <1>2, <1>3, <2>1, <2>2, <2>4
  <2>6. IsJoin(Bytes(k - 1) \o w, Bytes(k - 1), w, e, n)
      BY <2>4, <2>5, Joined
  <2>7. Bytes(k) = Bytes(k - 1) \o w
      BY <2>2, BytesGrow
  <2> QED BY <2>2, <2>4, <2>6, <2>7
<1>6. ASSUME NEW k \in 1 .. Count PROVE End(k) = End(k - 1) + Size(sent[k]) + 13
  <2>1. k - 1 \in 0 .. Count /\ k \in 0 .. Count
      BY <1>1
  <2>2. End(k) = End(k - 1) + (Size(sent[k]) + 13)
      BY <1>2, <1>5 DEF IsJoin
  <2>3. PICK a \in Nat, n \in 0 .. 125 : End(k - 1) = a /\ Size(sent[k]) = n
      BY <1>3, <1>5, <2>1
  <2>4. a + (n + 13) = a + n + 13
      OBVIOUS
  <2> QED BY <2>2, <2>3, <2>4
<1> DEFINE In(m) == /\ \A k \in 0 .. m : End(k) <= End(m)
                    /\ \A k \in 1 .. m : \A i \in 1 .. Size(sent[k]) + 13 :
                          Bytes(m)[End(k - 1) + i] = Wires[sent[k]][i]
           T == {m \in 0 .. Count : In(m)}
<1>7. 0 \in T
    BY <1>1, <1>4
<1>8. ASSUME NEW m \in 1 .. Count, m - 1 \in T PROVE m \in T
  <2>1. m - 1 \in 0 .. Count /\ m \in 0 .. Count /\ In(m - 1)
      BY <1>1, <1>8
  <2>0. PICK a \in Nat, n \in Nat : End(m - 1) = a /\ Size(sent[m]) + 13 = n
    <3>1. PICK z \in 0 .. 125 : Size(sent[m]) = z
        BY <1>5
    <3> QED BY <1>3, <2>1, <3>1
  <2>2. PICK b \in Nat : End(m) = b
      BY <1>3, <2>1
  <2>3. b = a + n
      BY <1>5, <2>0, <2>2, <1>2 DEF IsJoin
  <2>4. \A k \in 0 .. m : End(k) <= b
    <3> SUFFICES ASSUME NEW k \in 0 .. m PROVE End(k) <= b
        OBVIOUS
    <3>1. CASE k = m
        BY <2>2, <2>3, <3>1
    <3>2. CASE k # m
      <4>1. k \in 0 .. m - 1 /\ k \in 0 .. Count
          BY <1>1, <3>2
      <4>2. End(k) <= a /\ End(k) \in Nat
          BY <1>3, <2>0, <2>1, <4>1
      <4> QED BY <2>3, <4>2
    <3> QED BY <3>1, <3>2
  <2>5. IsJoin(Bytes(m), Bytes(m - 1), Wires[sent[m]], a, n)
      BY <1>5, <2>0
  <2>6. ASSUME NEW k \in 1 .. m, NEW i \in 1 .. Size(sent[k]) + 13
        PROVE  Bytes(m)[End(k - 1) + i] = Wires[sent[k]][i]
    <3>1. CASE k = m
        BY <2>0, <2>5, <3>1 DEF IsJoin
    <3>2. CASE k # m
      <4>1. k \in 1 .. m - 1 /\ k \in 1 .. Count /\ k \in 0 .. m - 1 /\ k - 1 \in 0 .. Count
          BY <1>1, <3>2
      <4>2. Bytes(m - 1)[End(k - 1) + i] = Wires[sent[k]][i] /\ End(k) <= a
          BY <2>0, <2>1, <4>1
      <4>3. PICK z \in 0 .. 125, d \in Nat : Size(sent[k]) = z /\ End(k - 1) = d
          BY <1>3, <1>5, <4>1
      <4>4. d + z + 13 <= a /\ i \in 1 .. z + 13
          BY <1>6, <4>1, <4>2, <4>3
      <4>6. d + i \in 1 .. a + n /\ d + i <= a
          BY <4>4
      <4>5. Bytes(m)[End(k - 1) + i] = Bytes(m - 1)[End(k - 1) + i]
          BY <2>5, <4>3, <4>6 DEF IsJoin
      <4> QED BY <4>2, <4>5
    <3> QED BY <3>1, <3>2
  <2> QED BY <2>1, <2>2, <2>4, <2>6
<1> HIDE DEF T
<1>9. \A m \in 0 .. Count : m \in T
    BY <1>1, <1>7, <1>8, UpTo
<1>10. Count \in 0 .. Count /\ In(Count)
    BY <1>1, <1>9 DEF T
<1>11. Stream \in Seq(Byte) /\ Total = End(Count) /\ Total \in Nat
    BY <1>2, <1>3, <1>10 DEF Total
<1>12. \A k \in 0 .. Count : End(k) \in 0 .. Total
    BY <1>3, <1>10, <1>11
<1> QED BY <1>2, <1>4, <1>6, <1>10, <1>11, <1>12 DEF Laid

InFrame(k, p) == End(k - 1) <= p /\ p < End(k)

\* Every frame has at least its 13 bytes.
LEMMA EndsGrow ==
    ASSUME sent \in Streams \cup {<<>>}, NEW j \in 0 .. Count, NEW k \in 0 .. Count, j < k
    PROVE  End(j) + 13 <= End(k)
<1>1. Laid /\ Count \in Nat /\ DOMAIN sent = 1 .. Count
    BY StreamIsLaid, SentIs
<1> DEFINE T == {m \in 0 .. Count : j < m => End(j) + 13 <= End(m)}
<1>2. 0 \in T
    BY <1>1
<1>3. ASSUME NEW m \in 1 .. Count, m - 1 \in T PROVE m \in T
  <2>1. m \in 0 .. Count /\ m - 1 \in 0 .. Count /\ (j < m - 1 => End(j) + 13 <= End(m - 1))
      BY <1>1, <1>3
  <2>2. PICK a \in Nat, d \in Nat : End(m - 1) = a /\ End(j) = d
      BY <1>1, <2>1 DEF Laid
  <2>3. PICK z \in 0 .. 125 : Size(sent[m]) = z
      BY SentIs DEF IsWire
  <2>4. End(m) = a + z + 13
      BY <1>1, <2>2, <2>3 DEF Laid
  <2>5. j < m => d + 13 <= a + z + 13
    <3>1. CASE j = m - 1
        BY <2>2, <3>1
    <3>2. CASE j < m - 1
        BY <2>1, <2>2, <3>2
    <3> QED BY <1>1, <3>1, <3>2
  <2> QED BY <2>1, <2>2, <2>4, <2>5
<1> HIDE DEF T
<1>4. \A m \in 0 .. Count : m \in T
    BY <1>1, <1>2, <1>3, UpTo
<1> QED BY <1>4 DEF T

\* Every byte is in one frame.
LEMMA ByteIsInFrame ==
    ASSUME sent \in Streams \cup {<<>>}, NEW p \in Nat, p < Total
    PROVE  \E k \in 1 .. Count : InFrame(k, p)
<1>1. Laid /\ Count \in Nat
    BY StreamIsLaid, SentIs
<1> DEFINE S == {k \in 0 .. Count : p < End(k)}
<1>2. Count \in S /\ 0 \notin S /\ S \subseteq Nat
    BY <1>1 DEF Laid
<1> HIDE DEF S
<1>3. PICK k \in S : k = 0 \/ (k - 1 \in Nat /\ k - 1 \notin S)
    BY <1>2, LeastNat
<1>4. k \in 1 .. Count /\ k - 1 \in 0 .. Count /\ p < End(k) /\ ~(p < End(k - 1))
    BY <1>1, <1>2, <1>3 DEF S
<1>5. End(k - 1) \in Int
    BY <1>1, <1>4 DEF Laid
<1> QED BY <1>4, <1>5 DEF InFrame

LEMMA FrameIsUnique ==
    ASSUME sent \in Streams \cup {<<>>}, NEW p \in Nat,
           NEW j \in 1 .. Count, NEW k \in 1 .. Count, InFrame(j, p), InFrame(k, p)
    PROVE  j = k
<1>1. Laid /\ Count \in Nat
    BY StreamIsLaid, SentIs
<1>2. /\ End(j) \in Nat /\ End(k) \in Nat /\ End(j - 1) \in Nat /\ End(k - 1) \in Nat
      /\ j \in 0 .. Count /\ k \in 0 .. Count /\ j - 1 \in 0 .. Count /\ k - 1 \in 0 .. Count
    BY <1>1 DEF Laid
<1>3. CASE j < k
  <2>1. j = k - 1 \/ End(j) + 13 <= End(k - 1)
      BY <1>2, <1>3, EndsGrow
  <2> QED BY <1>2, <2>1 DEF InFrame
<1>4. CASE k < j
  <2>1. k = j - 1 \/ End(k) + 13 <= End(j - 1)
      BY <1>2, <1>4, EndsGrow
  <2> QED BY <1>2, <2>1 DEF InFrame
<1> QED BY <1>3, <1>4

\* What Current is.
LEMMA CurrentIs ==
    ASSUME sent \in Streams \cup {<<>>}, pos \in Nat, pos < Total
    PROVE  /\ Current \in 1 .. Count /\ InFrame(Current, pos)
           /\ \A k \in 1 .. Count : InFrame(k, pos) => Current = k
<1>1. DOMAIN sent = 1 .. Count
    BY SentIs
<1>2. \E k \in 1 .. Count : InFrame(k, pos)
    BY ByteIsInFrame
<1>3. Current = CHOOSE k \in 1 .. Count : InFrame(k, pos)
    BY <1>1 DEF Current, InFrame
<1>4. Current \in 1 .. Count /\ InFrame(Current, pos)
    BY <1>2, <1>3
<1> QED BY <1>4, FrameIsUnique

\* The frame a read ended in, its last byte included.
LEMMA LastReadIs ==
    ASSUME sent \in Streams \cup {<<>>}, NEW q \in 1 .. Total
    PROVE  LET ReadOf == CHOOSE k \in DOMAIN sent : End(k - 1) < q /\ q <= End(k)
           IN  /\ ReadOf \in 1 .. Count
               /\ \A k \in 1 .. Count : End(k) = q => ReadOf = k
<1> DEFINE Of(k) == End(k - 1) < q /\ q <= End(k)
<1>1. Laid /\ Count \in Nat /\ DOMAIN sent = 1 .. Count
    BY StreamIsLaid, SentIs
<1>2. ASSUME NEW k \in 1 .. Count PROVE Of(k) <=> InFrame(k, q - 1)
  <2>1. k - 1 \in 0 .. Count /\ k \in 0 .. Count
      BY <1>1
  <2>2. End(k - 1) \in Nat /\ End(k) \in Nat /\ q \in Nat
      BY <1>1, <2>1 DEF Laid
  <2> QED BY <2>2 DEF InFrame
<1>3. PICK k \in 1 .. Count : InFrame(k, q - 1)
  <2>1. q - 1 \in Nat /\ q - 1 < Total
      BY <1>1 DEF Laid
  <2> QED BY <2>1, ByteIsInFrame
<1>4. Of(k)
    BY <1>2, <1>3
<1> HIDE DEF Of
<1> DEFINE r == CHOOSE i \in 1 .. Count : Of(i)
<1>5. r \in 1 .. Count /\ Of(r)
    BY <1>4
<1>6. ASSUME NEW i \in 1 .. Count, End(i) = q PROVE r = i
  <2>1. i - 1 \in 0 .. Count /\ i \in 0 .. Count /\ i - 1 < i
      BY <1>1
  <2>2. End(i - 1) + 13 <= End(i) /\ End(i - 1) \in Nat
      BY <1>1, <2>1, EndsGrow DEF Laid
  <2>3. Of(i)
      BY <1>6, <2>2 DEF Of
  <2>4. InFrame(i, q - 1) /\ InFrame(r, q - 1) /\ q - 1 \in Nat
      BY <1>2, <1>5, <2>3
  <2> HIDE DEF r
  <2> QED BY <1>5, <2>4, FrameIsUnique
<1> QED BY <1>1, <1>5, <1>6 DEF Of

\* The stream is that of the same frames.
LEMMA SentStays ==
    ASSUME sent' = sent
    PROVE  /\ Stream' = Stream /\ Total' = Total /\ Count' = Count
           /\ \A k : End(k)' = End(k)
    BY DEF Stream, Total, Count, End

\* bs are the next bytes of the stream, at most n of them.
IsNext(n, bs) ==
    /\ bs \in Seq(Byte) /\ Len(bs) \in 1 .. n /\ pos + Len(bs) <= Total
    /\ \A i \in 1 .. Len(bs) : bs[i] = Stream[pos + i]

LEMMA GotIs ==
    ASSUME sent \in Streams \cup {<<>>}, pos \in 0 .. Total, NEW n \in Nat, NEW bs \in Got(n)
    PROVE  IsNext(n, bs)
<1>1. Laid
    BY StreamIsLaid
<1>2. PICK k \in 1 .. n : bs = SubSeq(Stream, pos + 1, pos + k) /\ pos + k <= Total
    BY DEF Got, Total
<1>3. Total \in Nat /\ Stream \in Seq(Byte) /\ DOMAIN Stream = 1 .. Total /\ pos \in Nat
    BY <1>1, LenProperties DEF Laid, Total
<1>4. \A i \in pos + 1 .. pos + k : Stream[i] \in Byte
  <2> SUFFICES ASSUME NEW i \in pos + 1 .. pos + k PROVE Stream[i] \in Byte
      OBVIOUS
  <2>1. i \in 1 .. Total
      BY <1>2, <1>3
  <2> QED BY <1>3, <2>1, ElementOfSeq DEF Total
<1>5. /\ SubSeq(Stream, pos + 1, pos + k) \in Seq(Byte)
      /\ Len(SubSeq(Stream, pos + 1, pos + k)) = k
      /\ \A i \in 1 .. k : SubSeq(Stream, pos + 1, pos + k)[i] = Stream[pos + i]
  <2>1. /\ pos + 1 \in Int /\ pos + k \in Int /\ pos + 1 <= pos + k
        /\ (pos + k) - (pos + 1) + 1 = k
        /\ \A i \in 1 .. k : (pos + 1) + i - 1 = pos + i
      BY <1>3
  <2> QED BY <1>4, <2>1, SubSeqProperties
<1> QED BY <1>2, <1>5 DEF IsNext

\* What a read changes: it goes on by what it got, and if that was less than
\* was asked for, the frame it began in counts as cut short.
LEMMA ReadDoes ==
    ASSUME TypeOK, sent' = sent, NEW n \in Nat, NEW bs, IsNext(n, bs), Read(n, bs)
    PROVE  /\ pos' = pos + Len(bs) /\ pos' \in 1 .. Total /\ pos' \in 0 .. Len(Stream')
           /\ short' \subseteq DOMAIN sent' /\ short \subseteq short'
           /\ Len(bs) < n => \A k \in 1 .. Count : InFrame(k, pos) => k \in short'
<1>1. sent \in Streams \cup {<<>>} /\ pos \in Nat /\ short \subseteq DOMAIN sent
    BY DEF TypeOK
<1>2. Laid /\ DOMAIN sent = 1 .. Count
    BY <1>1, StreamIsLaid, SentIs
<1>3. PICK l \in 1 .. n : Len(bs) = l
    BY DEF IsNext
<1>4. pos' = pos + l /\ pos + l <= Total /\ Total \in Nat
    BY <1>2, <1>3 DEF IsNext, Read, Laid
<1>5. pos \in Nat /\ pos < Total
    BY <1>1, <1>4
<1>6. Current \in 1 .. Count /\ \A k \in 1 .. Count : InFrame(k, pos) => Current = k
    BY <1>1, <1>5, CurrentIs
<1>7. short' = IF l < n THEN short \cup {Current} ELSE short
    BY <1>3 DEF Read
<1>8. short' \subseteq DOMAIN sent' /\ short \subseteq short'
    BY <1>1, <1>2, <1>6, <1>7
<1>9. l < n => \A k \in 1 .. Count : InFrame(k, pos) => k \in short'
    BY <1>6, <1>7
<1>10. pos + l \in 1 .. Total /\ pos + l \in 0 .. Total
    BY <1>1, <1>4
<1>11. Len(Stream') = Total
    BY SentStays DEF Total
<1> QED BY <1>3, <1>4, <1>8, <1>9, <1>10, <1>11

\* A header is filled up with zeros.
LEMMA Filled ==
    ASSUME NEW m \in Nat, NEW bs \in Seq(Byte), Len(bs) <= m
    PROVE  LET h == bs \o Zeros(m - Len(bs)) IN
           /\ h \in Seq(Byte) /\ Len(h) = m
           /\ \A i \in 1 .. m : h[i] = IF i <= Len(bs) THEN bs[i] ELSE 0
<1>1. PICK l \in Nat : Len(bs) = l
    BY LenProperties
<1>2. PICK k \in Nat : m - l = k
    BY <1>1
<1>3. Zeros(k) \in [1 .. k -> Byte] /\ \A i \in 1 .. k : Zeros(k)[i] = 0
    BY DEF Zeros, Byte
<1>4. Zeros(k) \in Seq(Byte) /\ Len(Zeros(k)) = k
    BY <1>3, FunctionIsSeq
<1>5. IsJoin(bs \o Zeros(k), bs, Zeros(k), l, k)
    BY <1>1, <1>4, Joined
<1>6. l + k = m /\ \A i \in 1 .. m : i <= l \/ i - l \in 1 .. k
    BY <1>2
<1>7. \A i \in 1 .. m : (bs \o Zeros(k))[i] = IF i <= l THEN bs[i] ELSE 0
    BY <1>3, <1>5, <1>6 DEF IsJoin
<1>8. bs \o Zeros(k) \in Seq(Byte) /\ Len(bs \o Zeros(k)) = m
    BY <1>5, <1>6 DEF IsJoin
<1>9. bs \o Zeros(m - Len(bs)) = bs \o Zeros(k)
    BY <1>1, <1>2
<1> QED BY <1>1, <1>7, <1>8, <1>9

Connected == sent \in Streams \cup {<<>>}

\* A new connection: no frame is behind its first byte.
AtStart ==
    /\ 0 \in 0 .. Len(Stream) /\ DOMAIN sent = 1 .. Count /\ 0 \in 0 .. Count /\ End(0) = 0
    /\ \A k \in DOMAIN sent : ~(End(k) <= 0)

LEMMA StartsAtStart == Connected => AtStart
<1> SUFFICES ASSUME Connected PROVE AtStart
    OBVIOUS
<1>1. sent \in Streams \cup {<<>>}
    BY DEF Connected
<1>2. Laid /\ Count \in Nat /\ DOMAIN sent = 1 .. Count
    BY <1>1, StreamIsLaid, SentIs
<1>3. End(0) = 0 /\ Len(Stream) \in Nat
    BY <1>2 DEF Laid, Total
<1>4. ASSUME NEW k \in DOMAIN sent PROVE ~(End(k) <= 0)
  <2>1. k \in 0 .. Count /\ 0 \in 0 .. Count /\ 0 < k
      BY <1>2
  <2>2. End(0) + 13 <= End(k)
      BY <1>1, <2>1, EndsGrow
  <2>3. End(k) \in Int
      BY <1>2, <2>1 DEF Laid
  <2> QED BY <1>3, <2>2, <2>3
<1> QED BY <1>2, <1>3, <1>4 DEF AtStart

LEMMA NextStartsAtStart == Connected' => AtStart'
    BY StartsAtStart, PTL

-----------------------------------------------------------------------------
(***************************************************************************)
(* The types.                                                              *)
(***************************************************************************)
Headers == [1 .. EMSPKG_HEADER_SIZE -> Byte]

LEMMA LengthIs ==
    ASSUME NEW h \in Headers
    PROVE  pkgLength(h) \in Nat /\ (validatePkgHeader(h) => pkgLength(h) \in 2 .. 128)
<1>1. /\ h[9] \in Nat /\ h[10] \in Nat /\ h[13] \in Nat /\ h[14] \in Nat
    BY DEF Headers, EMSPKG_HEADER_SIZE, Byte
<1>2. pkgLength(h) = h[9] + 256 * h[10] \/ pkgLength(h) = h[13] + 256 * h[14]
    BY DEF pkgLength
<1>3. pkgLength(h) \in Nat
    BY <1>1, <1>2
<1> QED BY <1>3 DEF validatePkgHeader

\* What is behind a header that is complete.
LEMMA HeaderReadType ==
    ASSUME NEW h \in Headers, c \in Byte, HeaderRead(h)
    PROVE  /\ header' \in Headers /\ c' \in Byte /\ pc' \in {"payload", "wait"}
           /\ pc' = "payload" => pkgLength(header') \in 2 .. 128
<1>1. CASE validatePkgHeader(h)
    BY <1>1, LengthIs DEF HeaderRead
<1>2. CASE ~validatePkgHeader(h)
    BY <1>2 DEF HeaderRead, StartWait, Byte
<1> QED BY <1>1, <1>2

LEMMA SeqIsHeader ==
    ASSUME NEW h \in Seq(Byte), Len(h) = 14
    PROVE  h \in Headers
    BY LenProperties DEF Headers, EMSPKG_HEADER_SIZE

LEMMA InitType == Init => TypeOK
<1> SUFFICES ASSUME Init PROVE TypeOK
    OBVIOUS
<1>1. AtStart
    BY StartsAtStart DEF Init, Connected
<1>2. header \in [1 .. EMSPKG_HEADER_SIZE -> Byte] /\ c \in Byte
    BY DEF Init, NewHeader, Zeros, Byte
<1> QED BY <1>1, <1>2 DEF Init, TypeOK, AtStart

\* Between two connections there is nothing of either.
Fresh == pc = "closed" => sent = <<>> /\ pos = 0 /\ syslog = <<>>

LEMMA OpenType ==
    ASSUME TypeOK, Fresh, open
    PROVE  TypeOK'
<1>1. AtStart'
    BY NextStartsAtStart DEF open, Connected
<1>2. sent = <<>> /\ pos = 0
    BY DEF Fresh, open
<1>3. refused = {} /\ short = {}
    BY <1>2 DEF TypeOK
<1>4. UNCHANGED <<pos, header, c, syslog, refused, short>> /\ pc' = "header" /\ sent' \in Streams
    BY DEF open, buffers, history
<1> QED BY <1>1, <1>2, <1>3, <1>4 DEF TypeOK, AtStart

LEMMA InterruptedType ==
    ASSUME TypeOK, Interrupted
    PROVE  TypeOK'
<1>1. AtStart'
    BY NextStartsAtStart DEF Interrupted, Connected
<1>2. header' \in [1 .. EMSPKG_HEADER_SIZE -> Byte] /\ c' \in Byte
    BY DEF Interrupted, NewHeader, Zeros, Byte
<1> QED BY <1>1, <1>2 DEF Interrupted, TypeOK, AtStart

\* What a read of the header, and what is then done, leave of the types.
LEMMA HeaderType ==
    ASSUME TypeOK, fillPkgHeader
    PROVE  TypeOK'
<1>1. PICK bs \in Got(EMSPKG_HEADERV1_SIZE) :
         LET h == bs \o Zeros(EMSPKG_HEADER_SIZE - Len(bs)) IN
         /\ Read(EMSPKG_HEADERV1_SIZE, bs)
         /\ IF headerV2(h) THEN pc' = "v2" /\ header' = h /\ c' = c
            ELSE HeaderRead(h)
    BY DEF fillPkgHeader
<1>2. PICK h : h = bs \o Zeros(14 - Len(bs))
    OBVIOUS
<1>3. /\ Read(10, bs)
      /\ (pc' = "v2" /\ header' = h /\ c' = c) \/ HeaderRead(h)
    BY <1>1, <1>2 DEF EMSPKG_HEADERV1_SIZE, EMSPKG_HEADER_SIZE
<1>4. /\ sent' = sent /\ syslog' = syslog /\ refused' = refused
      /\ sent \in Streams \cup {<<>>} /\ pos \in 0 .. Total /\ c \in Byte
      /\ refused \subseteq DOMAIN sent
    BY DEF fillPkgHeader, TypeOK, Total
<1>5. IsNext(10, bs)
    BY <1>4, GotIs DEF EMSPKG_HEADERV1_SIZE
<1>6. pos' \in 0 .. Len(Stream') /\ short' \subseteq DOMAIN sent'
  <2>1. sent' = sent /\ 10 \in Nat /\ IsNext(10, bs) /\ Read(10, bs)
      BY <1>3, <1>4, <1>5
  <2> QED BY <2>1, ReadDoes
<1>7. h \in Headers
  <2>0. PICK l \in 1 .. 10 : Len(bs) = l
      BY <1>5 DEF IsNext
  <2>1. bs \in Seq(Byte) /\ Len(bs) <= 14
      BY <1>5, <2>0 DEF IsNext
  <2>2. h \in Seq(Byte) /\ Len(h) = 14
      BY <1>2, <2>1, Filled
  <2> QED BY <2>2, SeqIsHeader
<1>8. /\ header' \in Headers /\ c' \in Byte /\ pc' \in {"payload", "wait", "v2"}
      /\ pc' = "payload" => pkgLength(header') \in 2 .. 128
    BY <1>3, <1>4, <1>7, HeaderReadType
<1> QED BY <1>4, <1>6, <1>8 DEF TypeOK, Headers, pkgLength

LEMMA HeaderV2Type ==
    ASSUME TypeOK, fillPkgHeaderV2
    PROVE  TypeOK'
<1>1. PICK bs \in Got(V2_SIZE) :
         /\ Read(V2_SIZE, bs)
         /\ HeaderRead(SubSeq(header, 1, EMSPKG_HEADERV1_SIZE) \o bs
                          \o Zeros(V2_SIZE - Len(bs)))
    BY DEF fillPkgHeaderV2
<1>2. V2_SIZE = 4 /\ EMSPKG_HEADERV1_SIZE = 10
    BY DEF V2_SIZE, EMSPKG_HEADER_SIZE, EMSPKG_HEADERV1_SIZE
<1>3. PICK a, b, h : /\ a = SubSeq(header, 1, 10) /\ b = a \o bs
                     /\ h = b \o Zeros(4 - Len(bs))
    OBVIOUS
<1>4. Read(4, bs) /\ HeaderRead(h)
    BY <1>1, <1>2, <1>3
<1>5. /\ sent' = sent /\ syslog' = syslog /\ refused' = refused
      /\ sent \in Streams \cup {<<>>} /\ pos \in 0 .. Total /\ c \in Byte
      /\ refused \subseteq DOMAIN sent
    BY DEF fillPkgHeaderV2, TypeOK, Total
<1>6. IsNext(4, bs)
    BY <1>2, <1>5, GotIs
<1>7. pos' \in 0 .. Len(Stream') /\ short' \subseteq DOMAIN sent'
  <2>1. sent' = sent /\ 4 \in Nat /\ IsNext(4, bs) /\ Read(4, bs)
      BY <1>4, <1>5, <1>6
  <2> QED BY <2>1, ReadDoes
<1>8. h \in Headers
  <2>1. PICK l \in 1 .. 4 : Len(bs) = l
      BY <1>6 DEF IsNext
  <2>2. \A i \in 1 .. 10 : header[i] \in Byte
      BY DEF TypeOK, EMSPKG_HEADER_SIZE
  <2>3. a \in Seq(Byte) /\ Len(a) = 10
      BY <1>3, <2>2, SubSeqProperties
  <2>4. bs \in Seq(Byte)
      BY <1>6 DEF IsNext
  <2>5. IsJoin(a \o bs, a, bs, 10, l)
    <3>1. l \in Nat /\ 10 \in Nat /\ Len(bs) = l
        BY <2>1
    <3> QED BY <2>3, <2>4, <3>1, Joined
  <2>6. b \in Seq(Byte) /\ Len(b) = 10 + l
      BY <1>3, <2>5 DEF IsJoin
  <2>7. 4 - Len(bs) = 14 - Len(b) /\ Len(b) <= 14
      BY <2>1, <2>6
  <2>8. h \in Seq(Byte) /\ Len(h) = 14
      BY <1>3, <2>6, <2>7, Filled
  <2> QED BY <2>8, SeqIsHeader
<1>9. /\ header' \in Headers /\ c' \in Byte /\ pc' \in {"payload", "wait"}
      /\ pc' = "payload" => pkgLength(header') \in 2 .. 128
    BY <1>4, <1>5, <1>8, HeaderReadType
<1> QED BY <1>5, <1>7, <1>9 DEF TypeOK, Headers, pkgLength

\* A read of the payload: bs was got, and is a telegram or makes the decoder wait.
ReadPayload(bs) ==
    /\ IsNext(pkgLength(header), bs) /\ Read(pkgLength(header), bs)
    /\ \/ Accepted(bs, pkgLength(header)) /\ main(Telegram(bs)) /\ c' = c /\ refused' = refused
       \/ /\ ~Accepted(bs, pkgLength(header)) /\ StartWait /\ syslog' = syslog
          /\ refused' = IF Len(bs) = pkgLength(header)
                        THEN refused \cup {CHOOSE k \in DOMAIN sent :
                                             End(k - 1) < pos' /\ pos' <= End(k)}
                        ELSE refused

LEMMA PayloadIs ==
    ASSUME TypeOK, fillPkgPayload
    PROVE  /\ pc = "payload" /\ sent' = sent /\ header' = header
           /\ pkgLength(header) \in 2 .. 128
           /\ \E bs : ReadPayload(bs)
<1>1. pc = "payload" /\ sent' = sent /\ header' = header
    BY DEF fillPkgPayload
<1>2. pkgLength(header) \in 2 .. 128 /\ sent \in Streams \cup {<<>>} /\ pos \in 0 .. Total
    BY <1>1 DEF TypeOK, Total
<1>3. PICK bs \in Got(pkgLength(header)) :
         /\ Read(pkgLength(header), bs)
         /\ \/ /\ Accepted(bs, pkgLength(header))
               /\ main(Telegram(bs))
               /\ UNCHANGED <<c, refused>>
            \/ /\ ~Accepted(bs, pkgLength(header))
               /\ StartWait
               /\ refused' = IF Len(bs) = pkgLength(header)
                             THEN refused \cup {CHOOSE k \in DOMAIN sent :
                                                  End(k - 1) < pos' /\ pos' <= End(k)}
                             ELSE refused
               /\ UNCHANGED syslog
    BY DEF fillPkgPayload
<1>4. pkgLength(header) \in Nat
  <2>1. PICK n \in 2 .. 128 : pkgLength(header) = n
      BY <1>2
  <2> QED BY <2>1
<1>5. IsNext(pkgLength(header), bs)
    BY <1>2, <1>4, GotIs
<1>6. ReadPayload(bs)
    BY <1>3, <1>5 DEF ReadPayload
<1> QED BY <1>1, <1>2, <1>6

\* What is refused is the frame the read ended in.
LEMMA RefusedIs ==
    ASSUME TypeOK, sent' = sent, NEW bs, ReadPayload(bs), pkgLength(header) \in 2 .. 128
    PROVE  /\ refused \subseteq refused' /\ refused' \subseteq DOMAIN sent'
           /\ ~Accepted(bs, pkgLength(header)) /\ Len(bs) = pkgLength(header)
                => \A k \in 1 .. Count : End(k) = pos' => k \in refused'
<1> DEFINE ReadOf == CHOOSE k \in DOMAIN sent : End(k - 1) < pos' /\ pos' <= End(k)
<1>1. sent \in Streams \cup {<<>>} /\ refused \subseteq DOMAIN sent
    BY DEF TypeOK
<1>2. pos' \in 1 .. Total
  <2>1. PICK n \in 2 .. 128 : pkgLength(header) = n
      OBVIOUS
  <2>2. n \in Nat /\ IsNext(n, bs) /\ Read(n, bs)
      BY <2>1 DEF ReadPayload
  <2> QED BY <2>2, ReadDoes
<1>3. DOMAIN sent = 1 .. Count
    BY <1>1, SentIs
<1>4. PICK q : q = pos'
    OBVIOUS
<1>5. ReadOf \in 1 .. Count /\ \A k \in 1 .. Count : End(k) = q => ReadOf = k
  <2>1. q \in 1 .. Total
      BY <1>2, <1>4
  <2>2. ReadOf = CHOOSE k \in DOMAIN sent : End(k - 1) < q /\ q <= End(k)
      BY <1>4
  <2> HIDE DEF ReadOf
  <2> QED BY <1>1, <2>1, <2>2, LastReadIs
<1>6. refused' = refused \/ refused' = refused \cup {ReadOf}
    BY DEF ReadPayload
<1>7. ~Accepted(bs, pkgLength(header)) /\ Len(bs) = pkgLength(header)
        => refused' = refused \cup {ReadOf}
    BY DEF ReadPayload
<1> HIDE DEF ReadOf
<1> QED BY <1>1, <1>3, <1>4, <1>5, <1>6, <1>7

LEMMA PayloadType ==
    ASSUME TypeOK, fillPkgPayload
    PROVE  TypeOK'
<1>1. /\ pc = "payload" /\ sent' = sent /\ header' = header
      /\ pkgLength(header) \in 2 .. 128
    BY PayloadIs
<1>2. PICK bs : ReadPayload(bs)
    BY PayloadIs
<1>3. pos' \in 0 .. Len(Stream') /\ short' \subseteq DOMAIN sent'
  <2>1. PICK n \in 2 .. 128 : pkgLength(header) = n
      BY <1>1
  <2>2. n \in Nat /\ IsNext(n, bs) /\ Read(n, bs) /\ sent' = sent
      BY <1>1, <1>2, <2>1 DEF ReadPayload
  <2> QED BY <2>2, ReadDoes
<1>4. refused' \subseteq DOMAIN sent'
    BY <1>1, <1>2, RefusedIs
<1>5. pc' \in {"header", "dead", "wait"} /\ c' \in Byte
  <2>1. c \in Byte /\ 0 \in Byte
      BY DEF TypeOK, Byte
  <2>2. CASE main(Telegram(bs)) /\ c' = c
      BY <2>1, <2>2 DEF main
  <2>3. CASE StartWait
      BY <2>1, <2>3 DEF StartWait
  <2> QED BY <1>2, <2>2, <2>3 DEF ReadPayload
<1>6. sent' \in Streams \cup {<<>>} /\ header' \in [1 .. EMSPKG_HEADER_SIZE -> Byte]
    BY <1>1 DEF TypeOK
<1> QED BY <1>3, <1>4, <1>5, <1>6 DEF TypeOK

LEMMA WaitType ==
    ASSUME TypeOK, waitForEndOfFrame
    PROVE  TypeOK'
<1>1. /\ sent' = sent /\ header' = header /\ refused' = refused /\ short' = short
      /\ pos' = pos + 1 /\ c' = Stream[pos + 1] /\ pc' \in {"wait", "header"}
      /\ Total - pos > 0
    BY DEF waitForEndOfFrame, history, Unread, Total
<1>2. sent \in Streams \cup {<<>>} /\ pos \in 0 .. Total
    BY DEF TypeOK, Total
<1>3. Laid
    BY <1>2, StreamIsLaid
<1>4. pos + 1 \in 1 .. Total /\ pos + 1 \in 0 .. Total
    BY <1>1, <1>2, <1>3 DEF Laid
<1>5. Stream[pos + 1] \in Byte
    BY <1>3, <1>4, ElementOfSeq DEF Laid, Total
<1>6. Len(Stream') = Total
    BY <1>1, SentStays DEF Total
<1>7. /\ refused \subseteq DOMAIN sent /\ short \subseteq DOMAIN sent
      /\ header \in [1 .. EMSPKG_HEADER_SIZE -> Byte]
    BY DEF TypeOK
<1> QED BY <1>1, <1>2, <1>4, <1>5, <1>6, <1>7 DEF TypeOK

LEMMA TypeKept ==
    ASSUME TypeOK, Fresh, [Next]_vars
    PROVE  TypeOK'
<1>1. CASE UNCHANGED vars
  <2>1. /\ sent' = sent /\ pos' = pos /\ pc' = pc /\ header' = header /\ c' = c
        /\ refused' = refused /\ short' = short
      BY <1>1 DEF vars, buffers, history
  <2>2. Len(Stream') = Len(Stream)
      BY <2>1, SentStays
  <2> QED BY <2>1, <2>2 DEF TypeOK, pkgLength
<1> QED BY <1>1, OpenType, InterruptedType, HeaderType, HeaderV2Type, PayloadType, WaitType
        DEF Next, getTelegramm

\* The bytes before p are the length n: both of them, or only the first was
\* read, and the other is a zero.
Announces(st, p, n) ==
    \/ p >= 1 /\ st[p] = n
    \/ p >= 2 /\ st[p - 1] = n /\ st[p] = 0

\* The length of a payload is the one before it, that of a V2 header too.
LengthRead ==
    /\ pc = "payload" => Announces(Stream, pos, pkgLength(header))
    /\ pc = "v2" => headerV2(header)

\* b1 and b2 are the last two of the m bytes behind p, as far as l of them were
\* read.
LastTwo(st, p, l, m, b1, b2) ==
    /\ b1 = IF m - 1 <= l THEN st[p + m - 1] ELSE 0
    /\ b2 = IF m <= l THEN st[p + m] ELSE 0

\* b1 and b2 are the number n.
Means(b1, b2, n) == n = b1 + 256 * b2

LEMMA ShortLength ==
    ASSUME NEW b1 \in Byte, NEW b2 \in Byte, NEW n \in 2 .. 128, Means(b1, b2, n)
    PROVE  b2 = 0 /\ b1 = n
    BY DEF Byte, Means

LEMMA LengthIsRead ==
    ASSUME NEW st, NEW p \in Nat, NEW l \in 1 .. 10, NEW m \in 2 .. 10, NEW b1 \in Byte,
           NEW b2 \in Byte, NEW n \in 2 .. 128, l <= m, LastTwo(st, p, l, m, b1, b2),
           Means(b1, b2, n)
    PROVE  Announces(st, p + l, n)
<1>1. b2 = 0 /\ b1 = n
    BY ShortLength
<1>2. m - 1 <= l
    BY <1>1 DEF LastTwo
<1>5. st[p + m - 1] = n /\ (m <= l => st[p + m] = 0)
    BY <1>1, <1>2 DEF LastTwo
<1>3. CASE l = m
  <2>1. st[p + l] = 0 /\ st[p + l - 1] = n /\ p + l >= 2
      BY <1>3, <1>5
  <2> QED BY <2>1 DEF Announces
<1>4. CASE l # m
  <2>1. l = m - 1 /\ p + l = p + m - 1 /\ p + l >= 1
      BY <1>2, <1>4
  <2>2. st[p + l] = n
      BY <1>5, <2>1
  <2> QED BY <2>1, <2>2 DEF Announces
<1> QED BY <1>3, <1>4

LEMMA HeaderReadsLength ==
    ASSUME TypeOK, fillPkgHeader
    PROVE  LengthRead'
<1>1. PICK bs \in Got(EMSPKG_HEADERV1_SIZE) :
         LET h == bs \o Zeros(EMSPKG_HEADER_SIZE - Len(bs)) IN
         /\ Read(EMSPKG_HEADERV1_SIZE, bs)
         /\ IF headerV2(h) THEN pc' = "v2" /\ header' = h /\ c' = c
            ELSE HeaderRead(h)
    BY DEF fillPkgHeader
<1>2. PICK h : h = bs \o Zeros(14 - Len(bs))
    OBVIOUS
<1>3. /\ Read(10, bs)
      /\ \/ headerV2(h) /\ pc' = "v2" /\ header' = h
         \/ ~headerV2(h) /\ HeaderRead(h)
    BY <1>1, <1>2 DEF EMSPKG_HEADERV1_SIZE, EMSPKG_HEADER_SIZE
<1>4. sent' = sent /\ pos \in Nat
    BY DEF fillPkgHeader, TypeOK
<1>5. IsNext(10, bs)
    BY <1>1, GotIs DEF EMSPKG_HEADERV1_SIZE, TypeOK, Total
<1>6. PICK l \in 1 .. 10 : Len(bs) = l
    BY <1>5 DEF IsNext
<1>7. CASE headerV2(h) /\ pc' = "v2" /\ header' = h
    BY <1>7 DEF LengthRead, headerV2
<1>8. CASE ~headerV2(h) /\ HeaderRead(h) /\ ~validatePkgHeader(h)
    BY <1>8 DEF LengthRead, HeaderRead, StartWait
<1>9. CASE ~headerV2(h) /\ HeaderRead(h) /\ validatePkgHeader(h)
  <2>1. bs \in Seq(Byte) /\ \A i \in 1 .. l : bs[i] = Stream[pos + i]
      BY <1>5, <1>6 DEF IsNext
  <2>2. Len(bs) <= 14 /\ 14 \in Nat
      BY <1>6
  <2>3. /\ h \in Seq(Byte) /\ Len(h) = 14
        /\ \A i \in 1 .. 14 : h[i] = IF i <= Len(bs) THEN bs[i] ELSE 0
      BY <1>2, <2>1, <2>2, Filled
  <2>4. h \in Headers
      BY <2>3, SeqIsHeader
  <2>5. header' = h /\ pc' = "payload"
      BY <1>9 DEF HeaderRead
  <2>6. PICK n \in 2 .. 128 : pkgLength(h) = n
      BY <1>9, <2>4, LengthIs
  <2>7. Means(h[9], h[10], n)
      BY <1>9, <2>6 DEF pkgLength, Means
  <2>8. h[9] \in Byte /\ h[10] \in Byte
      BY <2>4 DEF Headers, EMSPKG_HEADER_SIZE
  <2>9. LastTwo(Stream, pos, l, 10, h[9], h[10])
    <3>1. h[9] = IF 9 <= l THEN bs[9] ELSE 0
        BY <1>6, <2>3
    <3>2. h[10] = IF 10 <= l THEN bs[10] ELSE 0
        BY <1>6, <2>3
    <3>3. pos + 10 - 1 = pos + 9 /\ 10 - 1 = 9
        BY <1>4
    <3>4. 9 <= l => bs[9] = Stream[pos + 9]
        BY <2>1
    <3>5. 10 <= l => bs[10] = Stream[pos + 10]
        BY <2>1
    <3> QED BY <3>1, <3>2, <3>3, <3>4, <3>5 DEF LastTwo
  <2>10. Announces(Stream, pos + l, n)
    <3>1. 10 \in 2 .. 10 /\ l <= 10
        OBVIOUS
    <3> QED BY <1>4, <2>7, <2>8, <2>9, <3>1, LengthIsRead
  <2>11. pos' = pos + l /\ Stream' = Stream
      BY <1>3, <1>4, <1>6, SentStays DEF Read
  <2>12. pkgLength(header)' = n
      BY <2>5, <2>6 DEF pkgLength
  <2> QED BY <2>5, <2>10, <2>11, <2>12 DEF LengthRead
<1> QED BY <1>3, <1>7, <1>8, <1>9

LEMMA HeaderV2ReadsLength ==
    ASSUME TypeOK, LengthRead, fillPkgHeaderV2
    PROVE  LengthRead'
<1>1. PICK bs \in Got(V2_SIZE) :
         /\ Read(V2_SIZE, bs)
         /\ HeaderRead(SubSeq(header, 1, EMSPKG_HEADERV1_SIZE) \o bs
                          \o Zeros(V2_SIZE - Len(bs)))
    BY DEF fillPkgHeaderV2
<1>2. V2_SIZE = 4 /\ EMSPKG_HEADERV1_SIZE = 10
    BY DEF V2_SIZE, EMSPKG_HEADER_SIZE, EMSPKG_HEADERV1_SIZE
<1>3. PICK a, b, h : /\ a = SubSeq(header, 1, 10) /\ b = a \o bs
                     /\ h = b \o Zeros(4 - Len(bs))
    OBVIOUS
<1>4. Read(4, bs) /\ HeaderRead(h)
    BY <1>1, <1>2, <1>3
<1>5. sent' = sent /\ pos \in Nat /\ headerV2(header)
    BY DEF fillPkgHeaderV2, TypeOK, LengthRead
<1>6. IsNext(4, bs)
    BY <1>2, GotIs DEF TypeOK, Total
<1>7. PICK l \in 1 .. 4 : Len(bs) = l
    BY <1>6 DEF IsNext
<1>8. bs \in Seq(Byte) /\ \A i \in 1 .. l : bs[i] = Stream[pos + i]
    BY <1>6, <1>7 DEF IsNext
<1>9. \A i \in 1 .. 10 : header[i] \in Byte
    BY DEF TypeOK, EMSPKG_HEADER_SIZE
<1>10. a \in Seq(Byte) /\ Len(a) = 10 /\ a[1] = header[1] /\ a[2] = header[2]
  <2>1. /\ a \in Seq(Byte) /\ Len(a) = (IF 1 <= 10 THEN 10 - 1 + 1 ELSE 0)
        /\ \A i \in 1 .. 10 - 1 + 1 : a[i] = header[1 + i - 1]
      BY <1>3, <1>9, SubSeqProperties
  <2> QED BY <2>1
<1>11. IsJoin(a \o bs, a, bs, 10, l)
  <2>1. l \in Nat /\ 10 \in Nat /\ Len(bs) = l
      BY <1>7
  <2> QED BY <1>8, <1>10, <2>1, Joined
<1>12. IsJoin(b, a, bs, 10, l)
    BY <1>3, <1>11
<1>13. /\ b \in Seq(Byte) /\ Len(b) = 10 + l /\ b[1] = a[1] /\ b[2] = a[2]
       /\ \A i \in 1 .. l : b[10 + i] = bs[i]
  <2>1. 1 \in 1 .. 10 + l /\ 2 \in 1 .. 10 + l
      OBVIOUS
  <2> QED BY <1>12, <2>1 DEF IsJoin
<1>14. h \in Seq(Byte) /\ Len(h) = 14 /\ \A i \in 1 .. 14 : h[i] = IF i <= 10 + l THEN b[i] ELSE 0
  <2>1. 4 - Len(bs) = 14 - Len(b) /\ Len(b) <= 14 /\ 14 \in Nat
      BY <1>7, <1>13
  <2>2. h = b \o Zeros(14 - Len(b))
      BY <1>3, <2>1
  <2> QED BY <1>13, <2>1, <2>2, Filled
<1>15. headerV2(h)
  <2>1. h[1] = b[1] /\ h[2] = b[2]
      BY <1>14
  <2> QED BY <1>5, <1>10, <1>13, <2>1 DEF headerV2
<1>16. CASE ~validatePkgHeader(h)
    BY <1>4, <1>16 DEF LengthRead, HeaderRead, StartWait
<1>17. CASE validatePkgHeader(h)
  <2>1. header' = h /\ pc' = "payload"
      BY <1>4, <1>17 DEF HeaderRead
  <2>2. h \in Headers
      BY <1>14, SeqIsHeader
  <2>3. PICK n \in 2 .. 128 : pkgLength(h) = n
      BY <1>17, <2>2, LengthIs
  <2>4. Means(h[13], h[14], n) /\ h[13] \in Byte /\ h[14] \in Byte
    <3>1. Means(h[13], h[14], n)
        BY <1>15, <2>3 DEF pkgLength, Means
    <3>2. h[13] \in Byte /\ h[14] \in Byte
        BY <2>2 DEF Headers, EMSPKG_HEADER_SIZE
    <3> QED BY <3>1, <3>2
  <2>5. LastTwo(Stream, pos, l, 4, h[13], h[14])
    <3>1. h[13] = IF 3 <= l THEN b[10 + 3] ELSE 0
        BY <1>14
    <3>2. h[14] = IF 4 <= l THEN b[10 + 4] ELSE 0
        BY <1>14
    <3>3. pos + 4 - 1 = pos + 3 /\ 4 - 1 = 3
        BY <1>5
    <3>4. 3 <= l => b[10 + 3] = Stream[pos + 3]
        BY <1>8, <1>13
    <3>5. 4 <= l => b[10 + 4] = Stream[pos + 4]
        BY <1>8, <1>13
    <3> QED BY <3>1, <3>2, <3>3, <3>4, <3>5 DEF LastTwo
  <2>6. Announces(Stream, pos + l, n)
    <3>1. 4 \in 2 .. 10 /\ l <= 4 /\ l \in 1 .. 10
        OBVIOUS
    <3> QED BY <1>5, <2>4, <2>5, <3>1, LengthIsRead
  <2>7. pos' = pos + l /\ Stream' = Stream
      BY <1>4, <1>5, <1>7, SentStays DEF Read
  <2>8. pkgLength(header)' = n
      BY <2>1, <2>3 DEF pkgLength
  <2> QED BY <2>1, <2>6, <2>7, <2>8 DEF LengthRead
<1> QED BY <1>16, <1>17

LEMMA LengthKept ==
    ASSUME TypeOK, LengthRead, [Next]_vars
    PROVE  LengthRead'
<1>1. CASE UNCHANGED vars
  <2>1. sent' = sent /\ pos' = pos /\ pc' = pc /\ header' = header
      BY <1>1 DEF vars, buffers
  <2>2. Stream' = Stream
      BY <2>1, SentStays
  <2> QED BY <2>1, <2>2 DEF LengthRead, pkgLength, headerV2
<1>2. CASE open \/ Interrupted \/ waitForEndOfFrame
    BY <1>2 DEF LengthRead, open, Interrupted, waitForEndOfFrame
<1>3. CASE fillPkgPayload
    BY <1>3 DEF LengthRead, fillPkgPayload, main, StartWait
<1> QED BY <1>1, <1>2, <1>3, HeaderReadsLength, HeaderV2ReadsLength DEF Next, getTelegramm

-----------------------------------------------------------------------------
(***************************************************************************)
(* What is passed on was checked.                                          *)
(***************************************************************************)
Entries == [name : {Name(b) : b \in Seq(Byte)}, telegram : Seq(Byte), end : Nat]

\* The telegram s is a piece of the stream st before p: before it is its length,
\* behind it are its CRC, any byte and the trailer.
Piece(st, s, p) ==
    /\ Len(s.telegram) >= 6 /\ Len(s.telegram) + EMSPKG_EOD_SIZE <= s.end /\ s.end <= p
    /\ \A i \in 1 .. Len(s.telegram) :
          s.telegram[i] = st[s.end - EMSPKG_EOD_SIZE - Len(s.telegram) + i]
    /\ buderusEmsCrc(s.telegram) = st[s.end - EMSPKG_EOD_SIZE + 1]
    /\ st[s.end - 1] = E5 /\ st[s.end] = X1A
    /\ Announces(st, s.end - EMSPKG_EOD_SIZE - Len(s.telegram),
                 Len(s.telegram) + EMSPKG_EOD_SIZE)

\* They are all such pieces, and the next begins only where the last has ended.
Pieces(st, sys, p) ==
    /\ sys \in Seq(Entries)
    /\ \A i \in 1 .. Len(sys) : Piece(st, sys[i], p)
    /\ \A i, j \in 1 .. Len(sys) :
          i < j => sys[i].end <= sys[j].end - EMSPKG_EOD_SIZE - Len(sys[j].telegram)

LEMMA EntryIs ==
    ASSUME NEW s \in Entries
    PROVE  s.telegram \in Seq(Byte) /\ s.end \in Nat /\ Len(s.telegram) \in Nat
<1>1. s.telegram \in Seq(Byte) /\ s.end \in Nat
    BY DEF Entries
<1> QED BY <1>1, LenProperties

LEMMA PiecesMove ==
    ASSUME NEW st, NEW sys, NEW p \in Nat, NEW q \in Nat, p <= q, Pieces(st, sys, p)
    PROVE  Pieces(st, sys, q)
<1>1. ASSUME NEW i \in 1 .. Len(sys) PROVE Piece(st, sys[i], q)
  <2>1. PICK s : s = sys[i]
      OBVIOUS
  <2>2. Piece(st, s, p) /\ s \in Entries
      BY <2>1, ElementOfSeq DEF Pieces
  <2>3. s.end <= q
    <3>1. PICK e \in Nat : s.end = e
        BY <2>2, EntryIs
    <3> QED BY <2>2, <3>1 DEF Piece
  <2> QED BY <2>1, <2>2, <2>3 DEF Piece
<1> QED BY <1>1 DEF Pieces

LEMMA NoPieces == \A st, p : Pieces(st, <<>>, p)
    BY EmptySeq DEF Pieces

LEMMA PiecesAppend ==
    ASSUME NEW st, NEW sys, NEW p \in Nat, NEW q \in Nat, p <= q, Pieces(st, sys, p),
           NEW e \in Entries, Piece(st, e, q), NEW b \in Nat, NEW l \in Nat,
           e.end = b, Len(e.telegram) = l, p <= b - 4 - l
    PROVE  Pieces(st, Append(sys, e), q)
<1>1. sys \in Seq(Entries)
    BY DEF Pieces
<1>2. PICK n \in Nat : Len(sys) = n
    BY <1>1, LenProperties
<1>3. PICK t : t = Append(sys, e)
    OBVIOUS
<1>4. /\ t \in Seq(Entries) /\ Len(t) = n + 1 /\ t[n + 1] = e
      /\ \A i \in 1 .. n : t[i] = sys[i]
    BY <1>1, <1>2, <1>3, AppendProperties
<1>5. ASSUME NEW i \in 1 .. n + 1 PROVE Piece(st, t[i], q)
  <2>1. CASE i = n + 1
      BY <1>4, <2>1
  <2>2. CASE i # n + 1
    <3>1. i \in 1 .. Len(sys) /\ t[i] = sys[i]
        BY <1>2, <1>4, <2>2
    <3> QED BY <3>1, PiecesMove DEF Pieces
  <2> QED BY <2>1, <2>2
<1>6. ASSUME NEW i \in 1 .. n + 1, NEW j \in 1 .. n + 1, i < j
      PROVE  t[i].end <= t[j].end - 4 - Len(t[j].telegram)
  <2>1. i \in 1 .. n /\ t[i] = sys[i] /\ Piece(st, sys[i], p) /\ sys[i] \in Entries
      BY <1>1, <1>2, <1>4, <1>6, ElementOfSeq DEF Pieces
  <2>2. CASE j = n + 1
    <3>1. PICK a \in Nat : sys[i].end = a
        BY <2>1, EntryIs
    <3>2. a <= p
        BY <2>1, <3>1 DEF Piece
    <3>3. a <= b - 4 - l
        BY <3>2
    <3> QED BY <1>4, <2>1, <2>2, <3>1, <3>3
  <2>3. CASE j # n + 1
    <3>1. j \in 1 .. n /\ t[j] = sys[j]
        BY <1>4, <2>3
    <3> QED BY <1>2, <1>6, <2>1, <3>1 DEF Pieces, EMSPKG_EOD_SIZE
  <2> QED BY <2>2, <2>3
<1> QED BY <1>3, <1>4, <1>5, <1>6 DEF Pieces, EMSPKG_EOD_SIZE

\* What an accepted payload is.
LEMMA AcceptedIs ==
    ASSUME pos \in Nat, NEW bs, NEW n \in 2 .. 128, IsNext(n, bs), Accepted(bs, n)
    PROVE  /\ Len(bs) = n /\ n >= 4
           /\ Telegram(bs) \in Seq(Byte) /\ Len(Telegram(bs)) = n - 4
           /\ \A i \in 1 .. n - 4 : Telegram(bs)[i] = Stream[pos + i]
           /\ n >= 7 => buderusEmsCrc(Telegram(bs)) = Stream[pos + n - 3]
           /\ Stream[pos + n - 1] = E5 /\ Stream[pos + n] = X1A
<1>1. Len(bs) = n /\ bs \in Seq(Byte) /\ \A i \in 1 .. n : bs[i] = Stream[pos + i]
    BY DEF Accepted, IsNext
<1>2. Telegram(bs) = SubSeq(bs, 1, n - 4)
    BY <1>1 DEF Telegram, EMSPKG_EOD_SIZE
<1>3. /\ SubSeq(bs, n - 1, n) = <<E5, X1A>> /\ n - 4 >= 0
      /\ n - 4 >= 3 => buderusEmsCrc(SubSeq(bs, 1, n - 4)) = bs[n - 4 + 1]
    BY <1>1 DEF Accepted, EMSPKG_EOD_SIZE, EMSPKG_MIN_SIZE
<1>4. n >= 4 /\ \A i \in 1 .. n : bs[i] \in Byte
    BY <1>1, <1>3, ElementOfSeq
<1>5. /\ SubSeq(bs, 1, n - 4) \in Seq(Byte) /\ Len(SubSeq(bs, 1, n - 4)) = n - 4
      /\ \A i \in 1 .. n - 4 : SubSeq(bs, 1, n - 4)[i] = bs[i]
  <2>1. /\ 1 \in Int /\ n - 4 \in Int /\ (n - 4) - 1 + 1 = n - 4 /\ n - 4 \in Nat
        /\ \A i \in 1 .. n - 4 : i \in 1 .. n /\ 1 + i - 1 = i
      BY <1>4
  <2>2. \A i \in 1 .. n - 4 : bs[i] \in Byte
      BY <1>4, <2>1
  <2>3. /\ SubSeq(bs, 1, n - 4) \in Seq(Byte)
        /\ Len(SubSeq(bs, 1, n - 4)) = IF 1 <= n - 4 THEN n - 4 - 1 + 1 ELSE 0
        /\ \A i \in 1 .. n - 4 - 1 + 1 : SubSeq(bs, 1, n - 4)[i] = bs[1 + i - 1]
      BY <2>1, <2>2, SubSeqProperties
  <2> QED BY <2>1, <2>3
<1>6. bs[n - 1] = E5 /\ bs[n] = X1A
  <2>1. n - 1 \in Int /\ n \in Int /\ \A i \in n - 1 .. n : i \in 1 .. n
      BY <1>4
  <2>2. \A i \in n - 1 .. n : bs[i] \in Byte
      BY <1>4, <2>1
  <2>3. \A i \in 1 .. n - (n - 1) + 1 : SubSeq(bs, n - 1, n)[i] = bs[(n - 1) + i - 1]
      BY <2>1, <2>2, SubSeqProperties
  <2>4. SubSeq(bs, n - 1, n)[1] = bs[n - 1] /\ SubSeq(bs, n - 1, n)[2] = bs[n]
    <3>1. 1 \in 1 .. n - (n - 1) + 1 /\ 2 \in 1 .. n - (n - 1) + 1
          /\ (n - 1) + 1 - 1 = n - 1 /\ (n - 1) + 2 - 1 = n
        OBVIOUS
    <3> QED BY <2>3, <3>1
  <2>5. PICK t : t = SubSeq(bs, n - 1, n)
      OBVIOUS
  <2>6. t = <<E5, X1A>>
      BY <1>3, <2>5
  <2>7. t[1] = E5 /\ t[2] = X1A
      BY <2>6
  <2> QED BY <2>4, <2>5, <2>7
<1>7. Stream[pos + n - 1] = E5 /\ Stream[pos + n] = X1A
  <2>1. n - 1 \in 1 .. n /\ n \in 1 .. n /\ pos + (n - 1) = pos + n - 1
      BY <1>4
  <2> QED BY <1>1, <1>6, <2>1
<1>8. n >= 7 => buderusEmsCrc(Telegram(bs)) = Stream[pos + n - 3]
  <2> SUFFICES ASSUME n >= 7 PROVE buderusEmsCrc(Telegram(bs)) = Stream[pos + n - 3]
      OBVIOUS
  <2>1. n - 4 + 1 = n - 3 /\ n - 3 \in 1 .. n /\ pos + (n - 3) = pos + n - 3 /\ n - 4 >= 3
      OBVIOUS
  <2>2. bs[n - 3] = Stream[pos + n - 3]
      BY <1>1, <2>1
  <2> QED BY <1>2, <1>3, <2>1, <2>2
<1>9. \A i \in 1 .. n - 4 : Telegram(bs)[i] = Stream[pos + i]
  <2> SUFFICES ASSUME NEW i \in 1 .. n - 4 PROVE Telegram(bs)[i] = Stream[pos + i]
      OBVIOUS
  <2>1. i \in 1 .. n
      BY <1>4
  <2> QED BY <1>1, <1>2, <1>5, <2>1
<1> QED BY <1>1, <1>2, <1>4, <1>5, <1>7, <1>8, <1>9

\* What the decoder has passed on are checked pieces of the stream behind which
\* it is.
CheckedPieces == Pieces(Stream, syslog, pos)

LEMMA FreshKept ==
    ASSUME Fresh, [Next]_vars
    PROVE  Fresh'
<1>1. CASE UNCHANGED vars
    BY <1>1 DEF Fresh, vars, history
<1>2. CASE open
    BY <1>2 DEF Fresh, open
<1>3. CASE Interrupted
    BY <1>3 DEF Fresh, Interrupted
<1>4. CASE fillPkgHeader
  <2>1. pc' # "closed"
      BY <1>4 DEF fillPkgHeader, HeaderRead, StartWait
  <2> QED BY <2>1 DEF Fresh
<1>5. CASE fillPkgHeaderV2
  <2>1. pc' # "closed"
      BY <1>5 DEF fillPkgHeaderV2, HeaderRead, StartWait
  <2> QED BY <2>1 DEF Fresh
<1>6. CASE fillPkgPayload
  <2>1. pc' # "closed"
      BY <1>6 DEF fillPkgPayload, main, StartWait
  <2> QED BY <2>1 DEF Fresh
<1>7. CASE waitForEndOfFrame
  <2>1. pc' # "closed"
      BY <1>7 DEF waitForEndOfFrame
  <2> QED BY <2>1 DEF Fresh
<1> QED BY <1>1, <1>2, <1>3, <1>4, <1>5, <1>6, <1>7 DEF Next, getTelegramm

\* A read of the same connection does not go back.
LEMMA Onward ==
    ASSUME TypeOK, sent' = sent, NEW n \in Nat, NEW bs, IsNext(n, bs), Read(n, bs)
    PROVE  pos \in Nat /\ pos' \in Nat /\ pos <= pos'
<1>1. PICK l \in 1 .. n : Len(bs) = l
    BY DEF IsNext
<1>2. pos \in Nat /\ pos' = pos + l
    BY <1>1 DEF TypeOK, Read
<1> QED BY <1>1, <1>2

\* What is passed on of a payload.
LEMMA PayloadPasses ==
    ASSUME TypeOK, fillPkgPayload, NEW bs, ReadPayload(bs), NEW n \in 2 .. 128,
           pkgLength(header) = n
    PROVE  \/ syslog' = syslog
           \/ /\ Accepted(bs, n) /\ n >= 10 /\ pos' = pos + n
              /\ syslog' = Append(syslog, [name |-> Name(Telegram(bs)),
                                           telegram |-> Telegram(bs), end |-> pos'])
<1>1. CASE Accepted(bs, n) /\ main(Telegram(bs))
  <2>1. IsNext(n, bs) /\ pos \in Nat /\ Read(n, bs)
      BY DEF ReadPayload, TypeOK
  <2>2. Len(bs) = n /\ Len(Telegram(bs)) = n - 4
      BY <1>1, <2>1, AcceptedIs
  <2>3. pos' = pos + n
      BY <2>1, <2>2 DEF Read
  <2>4. CASE n - 4 < 6
      BY <1>1, <2>2, <2>4 DEF main
  <2>5. CASE ~(n - 4 < 6)
      BY <1>1, <2>2, <2>3, <2>5 DEF main
  <2> QED BY <2>4, <2>5
<1>2. CASE syslog' = syslog
    BY <1>2
<1> QED BY <1>1, <1>2 DEF ReadPayload

LEMMA PiecesKept ==
    ASSUME TypeOK, Fresh, LengthRead, CheckedPieces, [Next]_vars
    PROVE  CheckedPieces'
<1>0. pos \in Nat /\ pos <= pos
    BY DEF TypeOK
<1>1. ASSUME sent' = sent, syslog' = syslog, pos' \in Nat, pos <= pos' PROVE CheckedPieces'
  <2>1. Pieces(Stream, syslog, pos')
      BY <1>0, <1>1, PiecesMove DEF CheckedPieces
  <2>2. Stream' = Stream
      BY <1>1, SentStays
  <2> QED BY <1>1, <2>1, <2>2 DEF CheckedPieces
<1>2. CASE UNCHANGED vars
    BY <1>0, <1>1, <1>2 DEF vars, history
<1>3. CASE open
  <2>1. syslog' = <<>>
      BY <1>3 DEF open, Fresh, history
  <2> QED BY <2>1, NoPieces DEF CheckedPieces
<1>4. CASE Interrupted
  <2>1. syslog' = <<>>
      BY <1>4 DEF Interrupted
  <2> QED BY <2>1, NoPieces DEF CheckedPieces
<1>5. CASE fillPkgHeader
  <2>1. PICK bs \in Got(EMSPKG_HEADERV1_SIZE) : Read(EMSPKG_HEADERV1_SIZE, bs)
      BY <1>5 DEF fillPkgHeader
  <2>2. sent' = sent /\ syslog' = syslog /\ 10 \in Nat
      BY <1>5 DEF fillPkgHeader
  <2>3. IsNext(10, bs) /\ Read(10, bs)
      BY <2>1, GotIs DEF TypeOK, Total, EMSPKG_HEADERV1_SIZE
  <2> QED BY <1>1, <2>2, <2>3, Onward
<1>6. CASE fillPkgHeaderV2
  <2>1. PICK bs \in Got(V2_SIZE) : Read(V2_SIZE, bs)
      BY <1>6 DEF fillPkgHeaderV2
  <2>2. sent' = sent /\ syslog' = syslog /\ 4 \in Nat /\ V2_SIZE = 4
      BY <1>6 DEF fillPkgHeaderV2, V2_SIZE, EMSPKG_HEADER_SIZE, EMSPKG_HEADERV1_SIZE
  <2>3. IsNext(4, bs) /\ Read(4, bs)
      BY <2>1, <2>2, GotIs DEF TypeOK, Total
  <2> QED BY <1>1, <2>2, <2>3, Onward
<1>7. CASE waitForEndOfFrame
  <2>1. sent' = sent /\ syslog' = syslog /\ pos' = pos + 1
      BY <1>7 DEF waitForEndOfFrame, history
  <2> QED BY <1>0, <1>1, <2>1
<1>8. CASE fillPkgPayload
  <2>1. sent' = sent /\ pkgLength(header) \in 2 .. 128
      BY <1>8, PayloadIs
  <2>2. PICK bs : ReadPayload(bs)
      BY <1>8, PayloadIs
  <2>3. PICK n \in 2 .. 128 : pkgLength(header) = n
      BY <2>1
  <2>4. IsNext(n, bs) /\ Read(n, bs) /\ n \in Nat
      BY <2>2, <2>3 DEF ReadPayload
  <2>5. pos \in Nat /\ pos' \in Nat /\ pos <= pos'
      BY <2>1, <2>4, Onward
  <2>6. CASE syslog' = syslog
      BY <1>1, <2>1, <2>5, <2>6
  <2> DEFINE e == [name |-> Name(Telegram(bs)), telegram |-> Telegram(bs), end |-> pos']
  <2>7. CASE Accepted(bs, n) /\ n >= 10 /\ pos' = pos + n /\ syslog' = Append(syslog, e)
    <3>1. PICK t : t = Telegram(bs)
        OBVIOUS
    <3>2. /\ t \in Seq(Byte) /\ Len(t) = n - 4
          /\ \A i \in 1 .. n - 4 : t[i] = Stream[pos + i]
          /\ n >= 7 => buderusEmsCrc(t) = Stream[pos + n - 3]
          /\ Stream[pos + n - 1] = E5 /\ Stream[pos + n] = X1A
        BY <2>4, <2>5, <2>7, <3>1, AcceptedIs
    <3>3. e.telegram = t /\ e.end = pos' /\ e \in Entries
        BY <2>5, <3>1, <3>2 DEF Entries
    <3>4. PICK q \in Nat, l \in Nat : q = pos' /\ n - 4 = l
        BY <2>5, <2>7
    <3>5. Piece(Stream, e, q)
      <4>1. Len(e.telegram) = l /\ l >= 6 /\ l + 4 <= q /\ q <= q
        <5>1. Len(e.telegram) = l
            BY <3>2, <3>3, <3>4
        <5> QED BY <2>5, <2>7, <3>4, <5>1
      <4>2. q - 4 - l = pos /\ q - 4 + 1 = pos + n - 3 /\ q - 1 = pos + n - 1 /\ q = pos + n
          BY <2>5, <2>7, <3>4
      <4> HIDE DEF e
      <4>3. \A i \in 1 .. l : e.telegram[i] = Stream[q - 4 - l + i]
          BY <3>2, <3>3, <3>4, <4>2
      <4>4. buderusEmsCrc(e.telegram) = Stream[q - 4 + 1]
          BY <2>7, <3>2, <3>3, <4>2
      <4>5. Stream[q - 1] = E5 /\ Stream[q] = X1A
          BY <3>2, <4>2
      <4>6. e.end = q
          BY <3>3, <3>4
      <4>7. Announces(Stream, q - 4 - l, l + 4)
        <5>1. Announces(Stream, pos, n)
            BY <1>8, <2>3 DEF LengthRead, fillPkgPayload
        <5>2. l + 4 = n
            BY <3>4
        <5> QED BY <4>2, <5>1, <5>2
      <4> QED BY <4>1, <4>3, <4>4, <4>5, <4>6, <4>7 DEF Piece, EMSPKG_EOD_SIZE
    <3> HIDE DEF e
    <3>6. pos <= q /\ pos <= q - 4 - l /\ e.end = q /\ Len(e.telegram) = l
      <4>1. e.end = q /\ Len(e.telegram) = l
          BY <3>2, <3>3, <3>4
      <4> QED BY <2>5, <2>7, <3>4, <4>1
    <3>7. Pieces(Stream, Append(syslog, e), q)
        BY <2>5, <3>3, <3>5, <3>6, PiecesAppend DEF CheckedPieces
    <3>8. Stream' = Stream
        BY <2>1, SentStays
    <3> QED BY <2>7, <3>4, <3>7, <3>8 DEF CheckedPieces
  <2> HIDE DEF e
  <2>8. \/ syslog' = syslog
        \/ Accepted(bs, n) /\ n >= 10 /\ pos' = pos + n /\ syslog' = Append(syslog, e)
      BY <1>8, <2>2, <2>3, PayloadPasses DEF e
  <2> QED BY <2>6, <2>7, <2>8
<1> QED BY <1>2, <1>3, <1>4, <1>5, <1>6, <1>7, <1>8 DEF Next, getTelegramm

-----------------------------------------------------------------------------
(***************************************************************************)
(* Where the decoder is, while nothing in a frame looks like what it looks *)
(* for.                                                                    *)
(***************************************************************************)
AllPlain == \A k \in DOMAIN sent : sent[k] \in PlainFrames

\* Frame k may be lost: its bytes came late, the one before it was refused,
\* or it is not one to be passed on.
Excused(k) == k \in short \/ k - 1 \in refused \/ sent[k] \notin ProperFrames

Passed(k) == \E i \in DOMAIN syslog : syslog[i].end = End(k)

\* It has the length of frame k, and the payload of it is next; if not all of
\* the header had come, so is the header's last byte.
AtPayload(k) ==
    /\ pkgLength(header) = Size(sent[k]) + 3
    /\ pos = End(k - 1) + 10 \/ (pos = End(k - 1) + 9 /\ k \in short)

\* It skips the rest of frame k, and takes no byte for the end of the trailer
\* that is not.
Skipping(k) == InFrame(k, pos) /\ Excused(k) /\ (c = E5 => pos = End(k) - 1)

Located ==
    /\ pc = "header" => \E k \in 0 .. Count : pos = End(k)
    /\ pc # "v2"
    /\ pc = "payload" => \E k \in 1 .. Count : AtPayload(k)
    /\ pc = "wait" => pos = Total \/ \E k \in 1 .. Count : Skipping(k)

\* What is behind it was passed on, or may be lost.
Accounted == \A k \in 1 .. Count : End(k) <= pos => Passed(k) \/ Excused(k)

AllCarried ==
    \A i \in DOMAIN syslog : \E k \in 1 .. Count :
        syslog[i].end = End(k) /\ syslog[i].telegram = Carried(sent[k])

\* Frame k starts behind a bytes and is of n bytes from the bus, none of which
\* looks like a trailer.
FrameAt(k, a, n) ==
    /\ End(k - 1) = a /\ Size(sent[k]) = n /\ End(k) = a + n + 13 /\ a + n + 13 <= Total
    /\ Stream[a + 9] = n + 3 /\ Stream[a + 10] = 0
    /\ \A i \in 1 .. n : Stream[a + 10 + i] = sent[k].bus[i]
    /\ Stream[a + n + 12] = E5 /\ Stream[a + n + 13] = X1A
    /\ \A i \in 1 .. n + 11 : Stream[a + i] \notin {E5, X1A}
    /\ ~(Stream[a + 1] = 85 /\ Stream[a + 2] = 170)

LEMMA PlainIs ==
    ASSUME NEW f \in PlainFrames
    PROVE  /\ \A i \in 1 .. Size(f) + 11 : Wires[f][i] \notin {E5, X1A}
           /\ ~(Wires[f][1] = 85 /\ Wires[f][2] = 170)
<1>1. f \in Frames /\ Plain(f)
    BY DEF PlainFrames
<1>2. IsWire(Wires[f], f)
    BY <1>1, WiresAre
<1>3. PICK n \in 0 .. 125 : Size(f) = n
    BY <1>2 DEF IsWire
<1>4. Len(Wires[f]) = n + 13
    BY <1>2, <1>3 DEF IsWire
<1>5. Len(Wires[f]) - 2 = n + 11
    BY <1>4
<1>6. \A i \in 1 .. n + 11 : Wires[f][i] \notin {E5, X1A}
    BY <1>1, <1>5 DEF Plain
<1>7. ~headerV2(Wires[f])
    BY <1>1 DEF Plain
<1> QED BY <1>3, <1>6, <1>7 DEF headerV2

LEMMA FrameIs ==
    ASSUME sent \in Streams \cup {<<>>}, AllPlain, NEW k \in 1 .. Count
    PROVE  \E a \in Nat, n \in 0 .. 125 : FrameAt(k, a, n)
<1>1. Laid /\ Count \in Nat /\ DOMAIN sent = 1 .. Count
    BY StreamIsLaid, SentIs
<1>2. PICK w : w = Wires[sent[k]]
    OBVIOUS
<1>3. IsWire(w, sent[k]) /\ sent[k] \in PlainFrames
    BY <1>1, <1>2, SentIs DEF AllPlain
<1>4. PICK n \in 0 .. 125 : Size(sent[k]) = n
    BY <1>3 DEF IsWire
<1>5. k - 1 \in 0 .. Count /\ k \in 0 .. Count
    BY <1>1
<1>6. PICK a \in Nat : End(k - 1) = a
    BY <1>1, <1>5 DEF Laid
<1>7. End(k) = a + n + 13 /\ a + n + 13 <= Total
  <2>1. End(k) = End(k - 1) + Size(sent[k]) + 13 /\ End(k) \in 0 .. Total /\ Total \in Nat
      BY <1>1, <1>5 DEF Laid
  <2> QED BY <1>4, <1>6, <2>1
<1>15. \A i \in 1 .. n + 13 : Stream[a + i] = w[i]
  <2>1. \A i \in 1 .. Size(sent[k]) + 13 : Stream[End(k - 1) + i] = Wires[sent[k]][i]
      BY <1>1 DEF Laid
  <2> QED BY <1>2, <1>4, <1>6, <2>1
<1>8. /\ w[9] = n + 3 /\ w[10] = 0 /\ w[n + 12] = E5 /\ w[n + 13] = X1A
      /\ \A i \in 1 .. n : w[10 + i] = sent[k].bus[i]
    BY <1>3, <1>4 DEF IsWire
<1>9. /\ \A i \in 1 .. n + 11 : w[i] \notin {E5, X1A}
      /\ ~(w[1] = 85 /\ w[2] = 170)
    BY <1>2, <1>3, <1>4, PlainIs
<1>11. /\ Stream[a + 9] = n + 3 /\ Stream[a + 10] = 0
       /\ Stream[a + n + 12] = E5 /\ Stream[a + n + 13] = X1A
       /\ ~(Stream[a + 1] = 85 /\ Stream[a + 2] = 170)
  <2>1. 1 \in 1 .. n + 13 /\ 2 \in 1 .. n + 13 /\ 9 \in 1 .. n + 13 /\ 10 \in 1 .. n + 13
      OBVIOUS
  <2>2. /\ Stream[a + 9] = w[9] /\ Stream[a + 10] = w[10]
        /\ Stream[a + 1] = w[1] /\ Stream[a + 2] = w[2]
      BY <1>15, <2>1
  <2>3. /\ n + 12 \in 1 .. n + 13 /\ n + 13 \in 1 .. n + 13
        /\ a + (n + 12) = a + n + 12 /\ a + (n + 13) = a + n + 13
      OBVIOUS
  <2>4. Stream[a + n + 12] = w[n + 12] /\ Stream[a + n + 13] = w[n + 13]
      BY <1>15, <2>3
  <2> QED BY <1>8, <1>9, <2>2, <2>4
<1>12. \A i \in 1 .. n : Stream[a + 10 + i] = sent[k].bus[i]
  <2> SUFFICES ASSUME NEW i \in 1 .. n PROVE Stream[a + 10 + i] = sent[k].bus[i]
      OBVIOUS
  <2>1. 10 + i \in 1 .. n + 13 /\ a + (10 + i) = a + 10 + i
      OBVIOUS
  <2> QED BY <1>8, <1>15, <2>1
<1>13. \A i \in 1 .. n + 11 : Stream[a + i] \notin {E5, X1A}
  <2> SUFFICES ASSUME NEW i \in 1 .. n + 11 PROVE Stream[a + i] \notin {E5, X1A}
      OBVIOUS
  <2>1. i \in 1 .. n + 13
      OBVIOUS
  <2> QED BY <1>9, <1>15, <2>1
<1>14. FrameAt(k, a, n)
    BY <1>4, <1>6, <1>7, <1>11, <1>12, <1>13 DEF FrameAt
<1> QED BY <1>14

\* A frame that ends no later than another one is it, or ends before it starts.
LEMMA EndsUpTo ==
    ASSUME sent \in Streams \cup {<<>>}, NEW j \in 1 .. Count, NEW k \in 1 .. Count,
           End(j) <= End(k)
    PROVE  j = k \/ End(j) <= End(k - 1)
<1>1. Laid /\ Count \in Nat
    BY StreamIsLaid, SentIs
<1>2. j \in 0 .. Count /\ k \in 0 .. Count /\ k - 1 \in 0 .. Count
    BY <1>1
<1>3. End(j) \in Nat /\ End(k) \in Nat /\ End(k - 1) \in Nat
    BY <1>1, <1>2 DEF Laid
<1>4. CASE k < j
  <2>1. End(k) + 13 <= End(j)
      BY <1>2, <1>4, EndsGrow
  <2> QED BY <1>3, <2>1
<1>5. CASE j < k
  <2>1. j = k - 1 \/ End(j) + 13 <= End(k - 1)
      BY <1>2, <1>5, EndsGrow
  <2> QED BY <1>3, <2>1
<1> QED BY <1>4, <1>5

\* Nothing that was passed on or may be lost is forgotten.
Remembers ==
    /\ sent' = sent /\ short \subseteq short' /\ refused \subseteq refused'
    /\ \A i \in DOMAIN syslog : i \in DOMAIN syslog' /\ syslog'[i] = syslog[i]

LEMMA AccountedKept ==
    ASSUME Remembers, Accounted,
           \A k \in 1 .. Count : End(k) <= pos' => End(k) <= pos \/ Passed(k)' \/ Excused(k)'
    PROVE  Accounted'
<1>1. Count' = Count /\ \A k : End(k)' = End(k)
    BY SentStays DEF Remembers
<1> SUFFICES ASSUME NEW k \in 1 .. Count, End(k) <= pos' PROVE Passed(k)' \/ Excused(k)'
    BY <1>1 DEF Accounted
<1>2. Passed(k) => Passed(k)'
    BY <1>1 DEF Passed, Remembers
<1>3. Excused(k) => Excused(k)'
    BY DEF Excused, Remembers
<1> QED BY <1>2, <1>3 DEF Accounted

\* While the decoder stays in a frame, or ends it as one that may be lost.
LEMMA AccountedInFrame ==
    ASSUME sent \in Streams \cup {<<>>}, Remembers, Accounted, pos \in Nat, pos' \in Nat,
           NEW k \in 1 .. Count, End(k - 1) <= pos,
           pos' < End(k) \/ (pos' = End(k) /\ (Passed(k)' \/ Excused(k)'))
    PROVE  Accounted'
<1> SUFFICES ASSUME NEW j \in 1 .. Count, End(j) <= pos'
             PROVE  End(j) <= pos \/ Passed(j)' \/ Excused(j)'
    BY AccountedKept
<1>1. Laid /\ Count \in Nat
    BY StreamIsLaid, SentIs
<1>2. k - 1 \in 0 .. Count /\ k \in 0 .. Count /\ j \in 0 .. Count
    BY <1>1
<1>3. End(k - 1) \in Nat /\ End(k) \in Nat /\ End(j) \in Nat
    BY <1>1, <1>2 DEF Laid
<1>4. End(j) <= End(k) /\ (pos' < End(k) => j # k)
    BY <1>3
<1>5. j = k \/ End(j) <= End(k - 1)
    BY <1>4, EndsUpTo
<1> QED BY <1>3, <1>4, <1>5

LEMMA CarriedStay ==
    ASSUME sent' = sent, syslog' = syslog, AllCarried
    PROVE  AllCarried'
<1>1. Count' = Count /\ \A k : End(k)' = End(k)
    BY SentStays
<1> QED BY <1>1 DEF AllCarried

\* The header of a frame in which none looks like V2: it has the frame's length
\* as soon as 9 bytes of it are there.
LEMMA HeaderIs ==
    ASSUME TypeOK, AllPlain, fillPkgHeader, NEW k \in 1 .. Count, pos = End(k - 1),
           NEW a \in Nat, NEW n \in 0 .. 125, FrameAt(k, a, n)
    PROVE  /\ sent' = sent /\ syslog' = syslog /\ refused' = refused /\ short \subseteq short'
           /\ \E l \in 1 .. 10 :
                /\ pos = a /\ pos' = a + l /\ (l < 10 => k \in short')
                /\ \/ l >= 9 /\ pc' = "payload" /\ pkgLength(header') = n + 3
                   \/ l < 9 /\ pc' = "wait" /\ c' = 0
<1>1. PICK bs \in Got(EMSPKG_HEADERV1_SIZE) :
         LET h == bs \o Zeros(EMSPKG_HEADER_SIZE - Len(bs)) IN
         /\ Read(EMSPKG_HEADERV1_SIZE, bs)
         /\ IF headerV2(h) THEN pc' = "v2" /\ header' = h /\ c' = c
            ELSE HeaderRead(h)
    BY DEF fillPkgHeader
<1>2. PICK h : h = bs \o Zeros(14 - Len(bs))
    OBVIOUS
<1>3. Read(10, bs) /\ (headerV2(h) \/ HeaderRead(h))
    BY <1>1, <1>2 DEF EMSPKG_HEADERV1_SIZE, EMSPKG_HEADER_SIZE
<1>4. sent' = sent /\ syslog' = syslog /\ refused' = refused /\ pos = a
    BY DEF fillPkgHeader, FrameAt
<1>5. IsNext(10, bs)
    BY <1>1, GotIs DEF EMSPKG_HEADERV1_SIZE, TypeOK, Total
<1>6. PICK l \in 1 .. 10 : Len(bs) = l
    BY <1>5 DEF IsNext
<1>7. pos' = a + l /\ short \subseteq short' /\ (l < 10 => k \in short')
  <2>1. 10 \in Nat
      OBVIOUS
  <2>2. /\ pos' = pos + Len(bs) /\ short \subseteq short'
        /\ Len(bs) < 10 => \A j \in 1 .. Count : InFrame(j, pos) => j \in short'
      BY <1>3, <1>4, <1>5, <2>1, ReadDoes
  <2>3. InFrame(k, pos)
      BY <1>4 DEF FrameAt, InFrame
  <2> QED BY <1>4, <1>6, <2>2, <2>3
<1>8. \A i \in 1 .. 14 : h[i] = IF i <= l THEN Stream[a + i] ELSE 0
  <2>1. bs \in Seq(Byte) /\ \A i \in 1 .. l : bs[i] = Stream[a + i]
      BY <1>4, <1>5, <1>6 DEF IsNext
  <2>2. Len(bs) <= 14 /\ 14 \in Nat
      BY <1>6
  <2>3. \A i \in 1 .. 14 : h[i] = IF i <= Len(bs) THEN bs[i] ELSE 0
      BY <1>2, <2>1, <2>2, Filled
  <2>4. \A i \in 1 .. 14 : i <= l => i \in 1 .. l
      OBVIOUS
  <2> QED BY <1>6, <2>1, <2>3, <2>4
<1>9. ~headerV2(h)
  <2>1. h[1] = Stream[a + 1] /\ (h[2] = Stream[a + 2] \/ h[2] = 0)
      BY <1>8
  <2>2. ~(Stream[a + 1] = 85 /\ Stream[a + 2] = 170)
      BY DEF FrameAt
  <2> QED BY <2>1, <2>2 DEF headerV2
<1>10. HeaderRead(h) /\ pkgLength(h) = h[9] + 256 * h[10]
    BY <1>3, <1>9 DEF pkgLength
<1>11. Stream[a + 9] = n + 3 /\ Stream[a + 10] = 0
    BY DEF FrameAt
<1>12. CASE l >= 9
  <2>1. h[9] = n + 3 /\ h[10] = 0
      BY <1>8, <1>11, <1>12
  <2>2. pkgLength(h) = n + 3
      BY <1>10, <2>1
  <2>3. validatePkgHeader(h)
      BY <2>2 DEF validatePkgHeader
  <2>4. header' = h /\ pc' = "payload"
      BY <1>10, <2>3 DEF HeaderRead
  <2>5. pkgLength(header') = n + 3
      BY <2>2, <2>4
  <2> QED BY <1>4, <1>7, <1>12, <2>4, <2>5
<1>13. CASE l < 9
  <2>1. h[9] = 0 /\ h[10] = 0
      BY <1>8, <1>13
  <2>2. pkgLength(h) = 0
      BY <1>10, <2>1
  <2>3. ~validatePkgHeader(h)
      BY <2>2 DEF validatePkgHeader
  <2>4. pc' = "wait" /\ c' = 0
      BY <1>10, <2>3 DEF HeaderRead, StartWait
  <2> QED BY <1>4, <1>7, <1>13, <2>4
<1> QED BY <1>12, <1>13

LEMMA HeaderKeeps ==
    ASSUME TypeOK, AllPlain, Located, Accounted, AllCarried, fillPkgHeader
    PROVE  Located' /\ Accounted' /\ AllCarried'
<1>1. sent \in Streams \cup {<<>>} /\ pc = "header" /\ pos \in Nat
    BY DEF TypeOK, fillPkgHeader
<1>2. Laid /\ Count \in Nat
    BY <1>1, StreamIsLaid, SentIs
<1>3. PICK j \in 0 .. Count : pos = End(j)
    BY <1>1 DEF Located
<1>4. pos < Total
  <2>1. PICK bs \in Got(EMSPKG_HEADERV1_SIZE) : TRUE
      BY DEF fillPkgHeader
  <2>2. IsNext(10, bs)
      BY <2>1, GotIs DEF EMSPKG_HEADERV1_SIZE, TypeOK, Total
  <2>3. PICK l \in 1 .. 10 : Len(bs) = l
      BY <2>2 DEF IsNext
  <2>4. pos + l <= Total /\ Total \in Nat
      BY <1>2, <2>2, <2>3 DEF IsNext, Laid
  <2> QED BY <1>1, <2>4
<1>5. PICK k \in 1 .. Count : k = j + 1
  <2>1. j # Count
      BY <1>2, <1>3, <1>4 DEF Laid
  <2> QED BY <1>2, <2>1
<1>6. pos = End(k - 1)
    BY <1>3, <1>5
<1>7. PICK a \in Nat, n \in 0 .. 125 : FrameAt(k, a, n)
    BY <1>1, FrameIs
<1>8. /\ sent' = sent /\ syslog' = syslog /\ refused' = refused /\ short \subseteq short'
    BY <1>6, <1>7, HeaderIs
<1>9. PICK l \in 1 .. 10 :
         /\ pos = a /\ pos' = a + l /\ (l < 10 => k \in short')
         /\ \/ l >= 9 /\ pc' = "payload" /\ pkgLength(header') = n + 3
            \/ l < 9 /\ pc' = "wait" /\ c' = 0
    BY <1>6, <1>7, HeaderIs
<1>10. End(k - 1) = a /\ End(k) = a + n + 13 /\ Size(sent[k]) = n
    BY <1>7 DEF FrameAt
<1>11. AllCarried'
    BY <1>8, CarriedStay
<1>12. Accounted'
  <2>1. Remembers
      BY <1>8 DEF Remembers
  <2>2. pos' \in Nat /\ pos' < End(k) /\ End(k - 1) <= pos
      BY <1>9, <1>10
  <2> QED BY <1>1, <2>1, <2>2, AccountedInFrame
<1>13. Count' = Count /\ End(k - 1)' = End(k - 1) /\ End(k)' = End(k)
    BY <1>8, SentStays
<1>14. CASE pc' = "payload"
  <2>1. Size(sent[k])' = n
      BY <1>8, <1>10 DEF Size
  <2>2. l \in 9 .. 10 /\ pkgLength(header') = n + 3
      BY <1>9, <1>14
  <2>3. pos' = a + 10 \/ (pos' = a + 9 /\ k \in short')
      BY <1>9, <2>2
  <2>4. AtPayload(k)'
      BY <1>10, <1>13, <2>1, <2>2, <2>3 DEF AtPayload, pkgLength
  <2> QED BY <1>11, <1>12, <1>13, <1>14, <2>4 DEF Located
<1>15. CASE pc' = "wait" /\ l < 9 /\ c' = 0
  <2>1. k \in short' /\ a <= pos' /\ pos' < a + n + 13
      BY <1>9, <1>15
  <2>2. InFrame(k, pos)'
      BY <1>10, <1>13, <2>1 DEF InFrame
  <2>3. Skipping(k)'
      BY <1>15, <2>1, <2>2 DEF Skipping, Excused, E5
  <2> QED BY <1>11, <1>12, <1>13, <1>15, <2>3 DEF Located
<1> QED BY <1>9, <1>14, <1>15

LEMMA WaitKeeps ==
    ASSUME TypeOK, AllPlain, Located, Accounted, AllCarried, waitForEndOfFrame
    PROVE  Located' /\ Accounted' /\ AllCarried'
<1>1. sent \in Streams \cup {<<>>} /\ pc = "wait" /\ pos \in Nat /\ pos < Total
  <2>1. sent \in Streams \cup {<<>>} /\ pos \in Nat
      BY DEF TypeOK
  <2>2. Total \in Nat
      BY <2>1, StreamIsLaid DEF Laid
  <2>3. pc = "wait" /\ Total - pos > 0
      BY DEF waitForEndOfFrame, Unread, Total
  <2> QED BY <2>1, <2>2, <2>3
<1>2. PICK k \in 1 .. Count : Skipping(k)
    BY <1>1 DEF Located
<1>3. PICK a \in Nat, n \in 0 .. 125 : FrameAt(k, a, n)
    BY <1>1, FrameIs
<1>4. /\ End(k - 1) = a /\ End(k) = a + n + 13
      /\ Stream[a + n + 12] = E5 /\ Stream[a + n + 13] = X1A
      /\ \A i \in 1 .. n + 11 : Stream[a + i] \notin {E5, X1A}
    BY <1>3 DEF FrameAt
<1>5. PICK i \in 1 .. n + 13 : pos + 1 = a + i
  <2>1. a <= pos /\ pos < a + n + 13
      BY <1>2, <1>4 DEF Skipping, InFrame
  <2>2. pos + 1 - a \in 1 .. n + 13 /\ pos + 1 = a + (pos + 1 - a)
      BY <1>1, <2>1
  <2> QED BY <2>2
<1>6. /\ sent' = sent /\ syslog' = syslog /\ refused' = refused /\ short' = short
      /\ pos' = a + i /\ c' = Stream[a + i]
      /\ pc' = IF c # E5 /\ Stream[a + i] # X1A THEN "wait" ELSE "header"
    BY <1>5 DEF waitForEndOfFrame, history, Continues
<1>7. Excused(k) /\ (c = E5 => i = n + 13)
  <2>1. c = E5 => pos = a + n + 13 - 1
      BY <1>2, <1>4 DEF Skipping
  <2> QED BY <1>1, <1>2, <1>5, <2>1 DEF Skipping
<1>8. Excused(k)'
    BY <1>6, <1>7 DEF Excused
<1>9. Count' = Count /\ Total' = Total /\ End(k - 1)' = End(k - 1) /\ End(k)' = End(k)
    BY <1>6, SentStays
<1>10. AllCarried'
    BY <1>6, CarriedStay
<1>11. Accounted'
  <2>1. Remembers
      BY <1>6 DEF Remembers
  <2>2. pos' \in Nat /\ End(k - 1) <= pos /\ (pos' < End(k) \/ pos' = End(k))
      BY <1>1, <1>4, <1>5, <1>6
  <2> QED BY <1>1, <1>8, <2>1, <2>2, AccountedInFrame
<1>12. CASE i = n + 13
  <2>1. a + i = a + n + 13
      BY <1>12
  <2>2. pc' = "header" /\ pos' = End(k)
      BY <1>4, <1>6, <2>1
  <2>3. k \in 0 .. Count
      OBVIOUS
  <2> QED BY <1>9, <1>10, <1>11, <2>2, <2>3 DEF Located
<1>13. CASE i # n + 13
  <2>1. i \in 1 .. n + 11 \/ a + i = a + n + 12
      BY <1>13
  <2>2. Stream[a + i] # X1A /\ (Stream[a + i] = E5 => a + i = a + n + 13 - 1)
    <3>1. CASE i \in 1 .. n + 11
        BY <1>4, <3>1
    <3>2. CASE a + i = a + n + 12
        BY <1>4, <3>2 DEF E5, X1A
    <3> QED BY <2>1, <3>1, <3>2
  <2>3. pc' = "wait"
      BY <1>6, <1>7, <1>13, <2>2
  <2>4. a <= pos' /\ pos' < a + n + 13
      BY <1>6, <1>13
  <2>5. Skipping(k)'
      BY <1>4, <1>6, <1>8, <1>9, <2>2, <2>4 DEF Skipping, InFrame
  <2> QED BY <1>9, <1>10, <1>11, <2>3, <2>5 DEF Located
<1> QED BY <1>12, <1>13

LEMMA InitIsPlain == Init => Located /\ Accounted /\ AllCarried
<1> SUFFICES ASSUME Init PROVE Located /\ Accounted /\ AllCarried
    OBVIOUS
<1>1. AtStart /\ syslog = <<>> /\ pc = "closed" /\ pos = 0
    BY StartsAtStart DEF Init, Connected
<1>2. Accounted
    BY <1>1 DEF AtStart, Accounted
<1>3. AllCarried
    BY <1>1 DEF AllCarried
<1> QED BY <1>1, <1>2, <1>3 DEF Located

LEMMA OpenKeeps ==
    ASSUME Fresh, open
    PROVE  Located' /\ Accounted' /\ AllCarried'
<1>1. AtStart' /\ syslog' = <<>> /\ pc' = "header" /\ pos' = 0
    BY NextStartsAtStart DEF open, Connected, Fresh, history
<1>2. Accounted'
    BY <1>1 DEF AtStart, Accounted
<1>3. AllCarried'
    BY <1>1 DEF AllCarried
<1>4. Located'
    BY <1>1 DEF AtStart, Located
<1> QED BY <1>2, <1>3, <1>4

LEMMA InterruptedKeeps ==
    ASSUME Interrupted
    PROVE  Located' /\ Accounted' /\ AllCarried'
<1>1. AtStart' /\ syslog' = <<>> /\ pc' = "closed" /\ pos' = 0
    BY NextStartsAtStart DEF Interrupted, Connected
<1>2. Accounted'
    BY <1>1 DEF AtStart, Accounted
<1>3. AllCarried'
    BY <1>1 DEF AllCarried
<1>4. Located'
    BY <1>1 DEF Located
<1> QED BY <1>2, <1>3, <1>4

LEMMA SamePrefix ==
    ASSUME NEW s, NEW t, NEW m \in Nat, \A i \in 1 .. m : s[i] = t[i] /\ s[i] \in Byte
    PROVE  SubSeq(s, 1, m) = SubSeq(t, 1, m)
<1>1. PICK p, q : p = SubSeq(s, 1, m) /\ q = SubSeq(t, 1, m)
    OBVIOUS
<1>2. /\ 1 \in Int /\ m \in Int /\ m - 1 + 1 = m
      /\ (\A i \in 1 .. m : s[i] \in Byte) /\ (\A i \in 1 .. m : t[i] \in Byte)
      /\ \A i \in 1 .. m : 1 + i - 1 = i
    OBVIOUS
<1>3. p \in Seq(Byte) /\ Len(p) = m /\ \A i \in 1 .. m : p[i] = s[i]
  <2>1. /\ p \in Seq(Byte) /\ Len(p) = (IF 1 <= m THEN m - 1 + 1 ELSE 0)
        /\ \A i \in 1 .. m - 1 + 1 : p[i] = s[1 + i - 1]
      BY <1>1, <1>2, SubSeqProperties
  <2> QED BY <1>2, <2>1
<1>4. q \in Seq(Byte) /\ Len(q) = m /\ \A i \in 1 .. m : q[i] = t[i]
  <2>1. /\ q \in Seq(Byte) /\ Len(q) = (IF 1 <= m THEN m - 1 + 1 ELSE 0)
        /\ \A i \in 1 .. m - 1 + 1 : q[i] = t[1 + i - 1]
      BY <1>1, <1>2, SubSeqProperties
  <2> QED BY <1>2, <2>1
<1>5. Len(p) = Len(q) /\ \A i \in 1 .. Len(p) : p[i] = q[i]
    BY <1>3, <1>4
<1>6. p = q
    BY <1>3, <1>4, <1>5, SeqEqual
<1> QED BY <1>1, <1>6

\* The payload of a frame, read from its first byte to its last: what it
\* carries is what the frame does, and a proper one is accepted.
LEMMA WholePayload ==
    ASSUME sent \in Streams \cup {<<>>}, NEW k \in 1 .. Count, NEW a \in Nat,
           NEW n \in 0 .. 125, FrameAt(k, a, n), pos = a + 10,
           NEW bs, IsNext(n + 3, bs), Len(bs) = n + 3
    PROVE  /\ n >= 1 => Telegram(bs) = Carried(sent[k]) /\ Len(Telegram(bs)) = n - 1
           /\ sent[k] \in ProperFrames => n > 6 /\ Accepted(bs, n + 3)
<1>1. PICK f, b : f = sent[k] /\ b = f.bus
    OBVIOUS
<1>2. /\ f \in Frames /\ b \in Seq(Byte) /\ Len(b) = n /\ Size(f) = n
      /\ \A i \in 1 .. n : Stream[a + 10 + i] = b[i]
    BY <1>1, SentIs, FramesAre DEF FrameAt
<1>3. bs \in Seq(Byte) /\ \A i \in 1 .. n + 3 : bs[i] = Stream[a + 10 + i]
    BY DEF IsNext
<1>4. \A i \in 1 .. n : i \in 1 .. n + 3 /\ bs[i] = b[i] /\ b[i] \in Byte /\ bs[i] \in Byte
  <2> SUFFICES ASSUME NEW i \in 1 .. n
               PROVE  i \in 1 .. n + 3 /\ bs[i] = b[i] /\ b[i] \in Byte /\ bs[i] \in Byte
      OBVIOUS
  <2>1. i \in 1 .. n + 3
      OBVIOUS
  <2>2. bs[i] = b[i]
      BY <1>2, <1>3, <2>1
  <2>3. b[i] \in Byte
      BY <1>2, ElementOfSeq
  <2> QED BY <2>1, <2>2, <2>3
<1>5. Telegram(bs) = SubSeq(bs, 1, n - 1)
    BY DEF Telegram, EMSPKG_EOD_SIZE
<1>6. Carried(f) = SubSeq(b, 1, n - 1)
    BY <1>1, <1>2 DEF Carried
<1>7. ASSUME n >= 1 PROVE Telegram(bs) = Carried(f) /\ Len(Telegram(bs)) = n - 1
  <2>1. PICK m \in Nat : n - 1 = m
      BY <1>7
  <2>2. \A i \in 1 .. m : i \in 1 .. n
      BY <2>1
  <2>3. \A i \in 1 .. m : bs[i] = b[i] /\ bs[i] \in Byte
      BY <1>4, <2>2
  <2>4. SubSeq(bs, 1, m) = SubSeq(b, 1, m)
      BY <2>3, SamePrefix
  <2>5. Len(SubSeq(bs, 1, m)) = m
    <3>1. 1 \in Int /\ m \in Int /\ m - 1 + 1 = m /\ \A i \in 1 .. m : bs[i] \in Byte
        BY <2>3
    <3>2. Len(SubSeq(bs, 1, m)) = IF 1 <= m THEN m - 1 + 1 ELSE 0
        BY <3>1, SubSeqProperties
    <3> QED BY <3>2
  <2> QED BY <1>5, <1>6, <2>1, <2>4, <2>5
<1>8. ASSUME f \in ProperFrames PROVE n > 6 /\ Accepted(bs, n + 3)
  <2>1. Len(b) > 6 /\ buderusEmsCrc(Carried(f)) = Last(b)
      BY <1>1, <1>8 DEF ProperFrames, Proper
  <2>2. n > 6 /\ Last(b) = b[n]
      BY <1>2, <2>1 DEF Last
  <2>3. b[n] = bs[n]
      BY <1>4, <2>2
  <2>4. buderusEmsCrc(SubSeq(bs, 1, n - 1)) = bs[n]
    <3>1. n >= 1
        BY <2>2
    <3>2. SubSeq(bs, 1, n - 1) = Carried(f)
        BY <1>5, <1>7, <3>1
    <3>3. Last(b) = bs[n]
        BY <2>2, <2>3
    <3> QED BY <2>1, <3>2, <3>3
  <2>5. bs[n + 2] = E5 /\ bs[n + 3] = X1A
    <3>1. /\ n + 2 \in 1 .. n + 3 /\ n + 3 \in 1 .. n + 3
          /\ a + 10 + (n + 2) = a + n + 12 /\ a + 10 + (n + 3) = a + n + 13
        OBVIOUS
    <3>2. Stream[a + n + 12] = E5 /\ Stream[a + n + 13] = X1A
        BY DEF FrameAt
    <3> QED BY <1>3, <3>1, <3>2
  <2>6. SubSeq(bs, n + 2, n + 3) = <<E5, X1A>>
    <3>1. PICK s : s = SubSeq(bs, n + 2, n + 3)
        OBVIOUS
    <3>2. PICK x \in Int, y \in Int : x = n + 2 /\ y = n + 3
        OBVIOUS
    <3>3. \A i \in x .. y : bs[i] \in Byte
      <4>1. \A i \in x .. y : i = n + 2 \/ i = n + 3
          BY <3>2
      <4>2. E5 \in Byte /\ X1A \in Byte
          BY DEF E5, X1A, Byte
      <4> QED BY <2>5, <4>1, <4>2
    <3>4. /\ SubSeq(bs, x, y) \in Seq(Byte)
          /\ Len(SubSeq(bs, x, y)) = IF x <= y THEN y - x + 1 ELSE 0
          /\ \A i \in 1 .. y - x + 1 : SubSeq(bs, x, y)[i] = bs[x + i - 1]
        BY <3>3, SubSeqProperties
    <3>5. s \in Seq(Byte) /\ Len(s) = 2 /\ s[1] = E5 /\ s[2] = X1A
      <4>1. x <= y /\ y - x + 1 = 2 /\ x + 1 - 1 = n + 2 /\ x + 2 - 1 = n + 3
          BY <3>2
      <4>2. s = SubSeq(bs, x, y)
          BY <3>1, <3>2
      <4>3. 1 \in 1 .. 2 /\ 2 \in 1 .. 2
          OBVIOUS
      <4> QED BY <2>5, <3>4, <4>1, <4>2, <4>3
    <3>6. PICK t : t = <<E5, X1A>>
        OBVIOUS
    <3>7. t \in Seq(Byte) /\ Len(t) = 2 /\ t[1] = E5 /\ t[2] = X1A
        BY <3>6 DEF E5, X1A, Byte
    <3>8. Len(s) = Len(t) /\ \A i \in 1 .. Len(s) : s[i] = t[i]
      <4>1. \A i \in 1 .. 2 : i = 1 \/ i = 2
          OBVIOUS
      <4> QED BY <3>5, <3>7, <4>1
    <3>9. s = t
        BY <3>5, <3>7, <3>8, SeqEqual
    <3> QED BY <3>1, <3>6, <3>9
  <2>7. n + 3 - 4 = n - 1 /\ n - 1 + 1 = n /\ n - 1 >= 0 /\ n + 3 - 1 = n + 2
      BY <2>2
  <2> QED BY <2>2, <2>4, <2>6, <2>7 DEF Accepted, EMSPKG_EOD_SIZE
<1> QED BY <1>1, <1>7, <1>8

\* One entry more.
IsLonger(t, s, e) ==
    /\ \A i \in DOMAIN s : i \in DOMAIN t /\ t[i] = s[i]
    /\ \E i \in DOMAIN t : t[i] = e
    /\ \A i \in DOMAIN t : i \in DOMAIN s \/ t[i] = e

LEMMA AppendIs ==
    ASSUME NEW S, NEW s \in Seq(S), NEW e \in S
    PROVE  IsLonger(Append(s, e), s, e)
<1>1. PICK n \in Nat : Len(s) = n
    BY LenProperties
<1>2. PICK t : t = Append(s, e)
    OBVIOUS
<1>3. /\ t \in Seq(S) /\ Len(t) = n + 1 /\ t[n + 1] = e
      /\ \A i \in 1 .. n : t[i] = s[i]
    BY <1>1, <1>2, AppendProperties
<1>4. DOMAIN s = 1 .. n /\ DOMAIN t = 1 .. n + 1
    BY <1>1, <1>3, LenProperties
<1>5. \A i \in 1 .. n + 1 : i \in 1 .. n \/ i = n + 1
    OBVIOUS
<1>6. n + 1 \in 1 .. n + 1 /\ \A i \in 1 .. n : i \in 1 .. n + 1
    OBVIOUS
<1> QED BY <1>2, <1>3, <1>4, <1>5, <1>6 DEF IsLonger

\* The decoder stays in frame k, which may be lost.
LEMMA StaysInFrame ==
    ASSUME TypeOK, sent' = sent, syslog' = syslog, refused \subseteq refused',
           short \subseteq short', Accounted, AllCarried, NEW k \in 1 .. Count, End(k - 1) <= pos,
           pos' \in Nat, End(k - 1) <= pos', pos' < End(k), k \in short', pc' = "wait", c' = 0
    PROVE  Located' /\ Accounted' /\ AllCarried'
<1>1. sent \in Streams \cup {<<>>} /\ pos \in Nat
    BY DEF TypeOK
<1>2. Remembers
    BY DEF Remembers
<1>3. Accounted'
    BY <1>1, <1>2, AccountedInFrame
<1>4. AllCarried'
    BY CarriedStay
<1>5. Count' = Count /\ End(k - 1)' = End(k - 1) /\ End(k)' = End(k)
    BY SentStays
<1>6. InFrame(k, pos)'
    BY <1>5 DEF InFrame
<1>7. Skipping(k)'
    BY <1>6 DEF Skipping, Excused, E5
<1> QED BY <1>3, <1>4, <1>5, <1>7 DEF Located

\* All of the payload was read: it is passed on, or frame k is not one to be,
\* or it is refused.
LEMMA EndsFrame ==
    ASSUME TypeOK, CheckedPieces, AllPlain, Accounted, AllCarried, sent' = sent,
           short \subseteq short', NEW k \in 1 .. Count, NEW a \in Nat, NEW n \in 0 .. 125,
           FrameAt(k, a, n), pos = a + 10, NEW bs, pkgLength(header) = n + 3,
           ReadPayload(bs), Len(bs) = n + 3
    PROVE  Located' /\ Accounted' /\ AllCarried'
<1>1. sent \in Streams \cup {<<>>} /\ pos \in Nat
    BY DEF TypeOK
<1>2. Laid /\ Count \in Nat
    BY <1>1, StreamIsLaid, SentIs
<1>3. /\ n + 3 \in Nat /\ n + 3 \in 2 .. 128 /\ IsNext(n + 3, bs) /\ Read(n + 3, bs)
    BY DEF ReadPayload
<1>4. End(k - 1) = a /\ End(k) = a + n + 13
    BY DEF FrameAt
<1>5. pos' = a + n + 13
  <2>1. pos' = pos + Len(bs)
      BY <1>3 DEF Read
  <2> QED BY <2>1
<1>6. pos' = End(k) /\ pos' \in Nat /\ End(k - 1) <= pos
    BY <1>4, <1>5
<1>7. refused \subseteq refused' /\ (~Accepted(bs, n + 3) => k \in refused')
    BY <1>3, <1>6, RefusedIs
<1>8. /\ n >= 1 => Telegram(bs) = Carried(sent[k]) /\ Len(Telegram(bs)) = n - 1
      /\ sent[k] \in ProperFrames => n > 6 /\ Accepted(bs, n + 3)
    BY <1>1, <1>3, WholePayload
<1>9. Count' = Count /\ Total' = Total /\ \A j : End(j)' = End(j)
    BY SentStays
<1>10. CASE ~Accepted(bs, n + 3)
  <2>1. pc' = "wait" /\ c' = 0 /\ syslog' = syslog
      BY <1>10 DEF ReadPayload, StartWait
  <2>2. Remembers
      BY <1>7, <2>1 DEF Remembers
  <2>3. Excused(k)'
      BY <1>8, <1>10 DEF Excused
  <2>4. Accounted'
      BY <1>1, <1>6, <2>2, <2>3, AccountedInFrame
  <2>5. AllCarried'
      BY <2>1, CarriedStay
  <2>6. CASE k = Count
    <3>1. pos' = Total'
        BY <1>2, <1>6, <1>9, <2>6 DEF Laid
    <3> QED BY <2>1, <2>4, <2>5, <3>1 DEF Located
  <2>7. CASE k # Count
    <3>1. PICK j \in 1 .. Count : j = k + 1
        BY <1>2, <2>7
    <3>2. j - 1 = k /\ j \in 0 .. Count /\ k \in 0 .. Count /\ k < j
        BY <3>1
    <3>3. End(k) + 13 <= End(j) /\ End(j) \in Nat
      <4>1. End(k) + 13 <= End(j)
          BY <1>1, <3>2, EndsGrow
      <4>2. End(j) \in Nat
          BY <1>2, <3>2 DEF Laid
      <4> QED BY <4>1, <4>2
    <3>4. End(j - 1) <= pos' /\ pos' < End(j)
        BY <1>4, <1>5, <3>2, <3>3
    <3>5. Excused(j)'
        BY <1>7, <1>10, <3>2 DEF Excused
    <3>6. InFrame(j, pos)'
        BY <1>9, <3>4 DEF InFrame
    <3>7. Skipping(j)'
        BY <2>1, <3>5, <3>6 DEF Skipping, E5
    <3> QED BY <1>9, <2>1, <2>4, <2>5, <3>7 DEF Located
  <2> QED BY <2>6, <2>7
<1>11. CASE Accepted(bs, n + 3)
  <2>1. main(Telegram(bs))
      BY <1>11 DEF ReadPayload
  <2>2. n + 3 >= 4 /\ Telegram(bs) \in Seq(Byte)
      BY <1>1, <1>3, <1>11, AcceptedIs
  <2>3. Telegram(bs) = Carried(sent[k]) /\ Len(Telegram(bs)) = n - 1
      BY <1>8, <2>2
  <2>4. Located'
    <3>1. pc' = "header" \/ pc' = "dead"
        BY <2>1 DEF main
    <3>2. k \in 0 .. Count
        OBVIOUS
    <3> QED BY <1>6, <1>9, <3>1, <3>2 DEF Located
  <2> DEFINE e == [name |-> Name(Telegram(bs)), telegram |-> Telegram(bs), end |-> pos']
  <2>5. CASE Len(Telegram(bs)) < 6 \/ Unreadable(Telegram(bs))
    <3>1. syslog' = syslog
        BY <2>1, <2>5 DEF main
    <3>2. sent[k] \notin ProperFrames
        BY <1>8, <2>3, <2>5 DEF ProperFrames, Proper
    <3>3. Excused(k)'
        BY <3>2 DEF Excused
    <3>4. Remembers
        BY <1>7, <3>1 DEF Remembers
    <3>5. Accounted'
        BY <1>1, <1>6, <3>3, <3>4, AccountedInFrame
    <3>6. AllCarried'
        BY <3>1, CarriedStay
    <3> QED BY <2>4, <3>5, <3>6
  <2>6. CASE ~(Len(Telegram(bs)) < 6 \/ Unreadable(Telegram(bs)))
    <3>1. syslog' = Append(syslog, e)
        BY <2>1, <2>6 DEF main
    <3>2. e \in Entries /\ e.end = End(k) /\ e.telegram = Carried(sent[k])
        BY <1>6, <2>2, <2>3 DEF Entries
    <3> HIDE DEF e
    <3>3. syslog \in Seq(Entries)
        BY DEF CheckedPieces, Pieces
    <3>4. IsLonger(syslog', syslog, e)
        BY <3>1, <3>2, <3>3, AppendIs
    <3>5. Remembers
        BY <1>7, <3>4 DEF Remembers, IsLonger
    <3>6. Passed(k)'
        BY <1>9, <3>2, <3>4 DEF Passed, IsLonger
    <3>7. Accounted'
        BY <1>1, <1>6, <3>5, <3>6, AccountedInFrame
    <3>8. AllCarried'
        BY <1>9, <3>2, <3>4 DEF AllCarried, IsLonger
    <3> QED BY <2>4, <3>7, <3>8
  <2> QED BY <2>5, <2>6
<1> QED BY <1>10, <1>11

LEMMA PayloadKeeps ==
    ASSUME TypeOK, CheckedPieces, AllPlain, Located, Accounted, AllCarried, fillPkgPayload
    PROVE  Located' /\ Accounted' /\ AllCarried'
<1>1. sent \in Streams \cup {<<>>} /\ pos \in Nat
    BY DEF TypeOK
<1>2. pc = "payload" /\ sent' = sent
    BY PayloadIs
<1>3. PICK bs : ReadPayload(bs)
    BY PayloadIs
<1>4. PICK k \in 1 .. Count : AtPayload(k)
    BY <1>2 DEF Located
<1>5. PICK a \in Nat, n \in 0 .. 125 : FrameAt(k, a, n)
    BY <1>1, FrameIs
<1>6. End(k - 1) = a /\ End(k) = a + n + 13 /\ Size(sent[k]) = n
    BY <1>5 DEF FrameAt
<1>7. /\ pkgLength(header) = n + 3
      /\ pos = a + 10 \/ (pos = a + 9 /\ k \in short)
    BY <1>4, <1>6 DEF AtPayload
<1>8. n + 3 \in Nat /\ n + 3 \in 2 .. 128 /\ IsNext(n + 3, bs) /\ Read(n + 3, bs)
    BY <1>3, <1>7 DEF ReadPayload
<1>9. PICK l \in 1 .. n + 3 : Len(bs) = l
    BY <1>8 DEF IsNext
<1>10. InFrame(k, pos) /\ a <= pos /\ pos <= a + 10
    BY <1>6, <1>7 DEF InFrame
<1>11. pos' = pos + l /\ short \subseteq short' /\ (l < n + 3 => k \in short')
  <2>1. /\ pos' = pos + Len(bs) /\ short \subseteq short'
        /\ Len(bs) < n + 3 => \A j \in 1 .. Count : InFrame(j, pos) => j \in short'
      BY <1>2, <1>8, ReadDoes
  <2> QED BY <1>9, <1>10, <2>1
<1>12. refused \subseteq refused'
    BY <1>2, <1>3, <1>7, <1>8, RefusedIs
<1>13. CASE pos = a + 10 /\ l = n + 3
    BY <1>2, <1>3, <1>5, <1>7, <1>9, <1>11, <1>13, EndsFrame
<1>14. CASE ~(pos = a + 10 /\ l = n + 3)
  <2>1. a <= pos' /\ pos' < a + n + 13 /\ pos' \in Nat
      BY <1>1, <1>7, <1>10, <1>11, <1>14
  <2>2. k \in short'
      BY <1>7, <1>11, <1>14
  <2>3. ~Accepted(bs, n + 3)
    <3>1. SUFFICES ASSUME Accepted(bs, n + 3) PROVE FALSE
        OBVIOUS
    <3>2. Len(bs) = n + 3 /\ Stream[pos + (n + 3)] = X1A
        BY <1>1, <1>8, <3>1, AcceptedIs
    <3>3. pos = a + 9
        BY <1>7, <1>9, <1>14, <3>2
    <3>4. pos + (n + 3) = a + n + 12
        BY <3>3
    <3>5. Stream[a + n + 12] = E5
        BY <1>5 DEF FrameAt
    <3> QED BY <3>2, <3>4, <3>5 DEF E5, X1A
  <2>4. pc' = "wait" /\ c' = 0 /\ syslog' = syslog
      BY <1>3, <1>7, <2>3 DEF ReadPayload, StartWait
  <2>5. End(k - 1) <= pos /\ End(k - 1) <= pos' /\ pos' < End(k)
      BY <1>6, <1>10, <2>1
  <2> QED BY <1>2, <1>11, <1>12, <2>1, <2>2, <2>4, <2>5, StaysInFrame
<1> QED BY <1>13, <1>14

\* Frames with no look-alikes: where the decoder is, and what it has lost.
PlainInv == AllPlain => Located /\ Accounted /\ AllCarried

LEMMA PlainKept ==
    ASSUME TypeOK, Fresh, CheckedPieces, PlainInv, [Next]_vars
    PROVE  PlainInv'
<1> SUFFICES ASSUME AllPlain' PROVE Located' /\ Accounted' /\ AllCarried'
    BY DEF PlainInv
<1>1. CASE open
    BY <1>1, OpenKeeps
<1>2. CASE Interrupted
    BY <1>2, InterruptedKeeps
<1>3. ASSUME sent' = sent PROVE Located /\ Accounted /\ AllCarried /\ AllPlain
    BY <1>3 DEF PlainInv, AllPlain
<1>4. CASE UNCHANGED vars
  <2>1. /\ sent' = sent /\ pos' = pos /\ pc' = pc /\ header' = header /\ c' = c
        /\ syslog' = syslog /\ refused' = refused /\ short' = short
      BY <1>4 DEF vars, buffers, history
  <2>2. Count' = Count /\ Total' = Total /\ \A k : End(k)' = End(k)
      BY <2>1, SentStays
  <2>3. /\ \A k : AtPayload(k)' <=> AtPayload(k)
        /\ \A k : Skipping(k)' <=> Skipping(k)
        /\ \A k : Excused(k)' <=> Excused(k)
        /\ \A k : Passed(k)' <=> Passed(k)
      BY <2>1, <2>2 DEF AtPayload, Size, pkgLength, Skipping, InFrame, Excused, Passed
  <2>4. Located'
      BY <1>3, <2>1, <2>2, <2>3 DEF Located
  <2>5. Accounted'
      BY <1>3, <2>1, <2>2, <2>3 DEF Accounted
  <2> QED BY <1>3, <2>1, <2>4, <2>5, CarriedStay
<1>5. CASE fillPkgHeader
    BY <1>3, <1>5, HeaderKeeps DEF fillPkgHeader
<1>6. CASE fillPkgHeaderV2
    BY <1>3, <1>6 DEF fillPkgHeaderV2, Located
<1>7. CASE fillPkgPayload
    BY <1>3, <1>7, PayloadKeeps DEF fillPkgPayload
<1>8. CASE waitForEndOfFrame
    BY <1>3, <1>8, WaitKeeps DEF waitForEndOfFrame
<1> QED BY <1>1, <1>2, <1>4, <1>5, <1>6, <1>7, <1>8 DEF Next, getTelegramm

\* The n bytes behind p look like a telegram: its length is before it, its CRC,
\* any byte and the trailer are behind it.
LooksLikeTelegram(p, n) ==
    /\ p + n + EMSPKG_EOD_SIZE <= Total
    /\ Announces(Stream, p, n + EMSPKG_EOD_SIZE)
    /\ buderusEmsCrc(SubSeq(Stream, p + 1, p + n)) = Stream[p + n + 1]
    /\ Stream[p + n + 3] = E5 /\ Stream[p + n + 4] = X1A

\* Nothing of 6 bytes or more does but what the frames carry.
NothingHidden ==
    \A p \in 0 .. Total, n \in 6 .. Total :
        LooksLikeTelegram(p, n) =>
            \E k \in 1 .. Count : End(k) = p + n + EMSPKG_EOD_SIZE /\ Size(sent[k]) = n + 1

\* A piece of the stream, as a part of it.
LEMMA PieceIs ==
    ASSUME Laid, NEW e \in Entries, NEW q \in Nat, q <= Total, Piece(Stream, e, q)
    PROVE  \E p \in 0 .. Total, n \in 6 .. Total :
             /\ e.end = p + n + 4 /\ p + n + 4 <= Total /\ Announces(Stream, p, n + 4)
             /\ e.telegram = SubSeq(Stream, p + 1, p + n)
             /\ e.telegram \in Seq(Byte) /\ Len(e.telegram) = n
             /\ buderusEmsCrc(e.telegram) = Stream[p + n + 1]
             /\ Stream[p + n + 3] = E5 /\ Stream[p + n + 4] = X1A
<1>1. PICK t : t = e.telegram
    OBVIOUS
<1>2. t \in Seq(Byte)
    BY <1>1, EntryIs
<1>3. PICK n \in Nat : Len(t) = n
    BY <1>2, LenProperties
<1>4. PICK z \in Nat : e.end = z
    BY EntryIs
<1>5. n >= 6 /\ n + 4 <= z /\ z <= q
    BY <1>1, <1>3, <1>4 DEF Piece, EMSPKG_EOD_SIZE
<1>6. PICK p \in Nat : z = p + n + 4
  <2>1. z - 4 - n \in Nat /\ z = (z - 4 - n) + n + 4
      BY <1>5
  <2> QED BY <2>1
<1>7. Total \in Nat
    BY DEF Laid
<1>8. p \in 0 .. Total /\ n \in 6 .. Total /\ p + n + 4 <= Total
    BY <1>5, <1>6, <1>7
<1>9. z - 4 - n = p /\ z - 4 + 1 = p + n + 1 /\ z - 1 = p + n + 3
    BY <1>6
<1>10. \A i \in 1 .. n : t[i] = Stream[p + i]
    BY <1>1, <1>3, <1>4, <1>9 DEF Piece, EMSPKG_EOD_SIZE
<1>11. buderusEmsCrc(t) = Stream[p + n + 1]
    BY <1>1, <1>4, <1>9 DEF Piece, EMSPKG_EOD_SIZE
<1>12. Stream[p + n + 3] = E5 /\ Stream[p + n + 4] = X1A
    BY <1>4, <1>6, <1>9 DEF Piece
<1>13. t = SubSeq(Stream, p + 1, p + n)
  <2>1. PICK x \in Int, y \in Int : x = p + 1 /\ y = p + n
      OBVIOUS
  <2>2. \A i \in x .. y : Stream[i] \in Byte
    <3> SUFFICES ASSUME NEW i \in x .. y PROVE Stream[i] \in Byte
        OBVIOUS
    <3>1. i \in 1 .. Total
        BY <1>7, <1>8, <2>1
    <3> QED BY <3>1, ElementOfSeq DEF Laid, Total
  <2>3. PICK s : s = SubSeq(Stream, x, y)
      OBVIOUS
  <2>4. /\ s \in Seq(Byte) /\ Len(s) = (IF x <= y THEN y - x + 1 ELSE 0)
        /\ \A i \in 1 .. y - x + 1 : s[i] = Stream[x + i - 1]
      BY <2>2, <2>3, SubSeqProperties
  <2>5. x <= y /\ y - x + 1 = n /\ \A i \in 1 .. n : x + i - 1 = p + i
      BY <1>5, <2>1
  <2>6. Len(s) = n /\ \A i \in 1 .. n : s[i] = t[i]
      BY <1>10, <2>4, <2>5
  <2>7. Len(t) = Len(s) /\ \A i \in 1 .. Len(t) : t[i] = s[i]
      BY <1>3, <2>6
  <2>8. t = s
      BY <1>2, <2>4, <2>7, SeqEqual
  <2> QED BY <2>1, <2>3, <2>8
<1>14. Announces(Stream, p, n + 4)
    BY <1>1, <1>3, <1>4, <1>9 DEF Piece, EMSPKG_EOD_SIZE
<1> QED BY <1>1, <1>2, <1>3, <1>4, <1>6, <1>8, <1>11, <1>12, <1>13, <1>14

LEMMA PieceIsFrame ==
    ASSUME sent \in Streams \cup {<<>>}, NothingHidden, NEW e \in Entries, NEW q \in Nat,
           q <= Total, Piece(Stream, e, q)
    PROVE  \E k \in 1 .. Count : e.end = End(k) /\ e.telegram = Carried(sent[k])
<1>1. Laid /\ Count \in Nat
    BY StreamIsLaid, SentIs
<1>2. PICK p \in 0 .. Total, n \in 6 .. Total :
         /\ e.end = p + n + 4 /\ p + n + 4 <= Total /\ Announces(Stream, p, n + 4)
         /\ e.telegram = SubSeq(Stream, p + 1, p + n)
         /\ e.telegram \in Seq(Byte) /\ Len(e.telegram) = n
         /\ buderusEmsCrc(e.telegram) = Stream[p + n + 1]
         /\ Stream[p + n + 3] = E5 /\ Stream[p + n + 4] = X1A
    BY <1>1, PieceIs
<1>14. LooksLikeTelegram(p, n)
    BY <1>2 DEF LooksLikeTelegram, EMSPKG_EOD_SIZE
<1>3. PICK k \in 1 .. Count : End(k) = p + n + 4 /\ Size(sent[k]) = n + 1
    BY <1>14 DEF NothingHidden, EMSPKG_EOD_SIZE
<1>4. PICK f, b, w : f = sent[k] /\ b = f.bus /\ w = Wires[f]
    OBVIOUS
<1>5. f \in Frames /\ IsWire(w, f) /\ b \in Seq(Byte) /\ Len(b) = n + 1
    BY <1>3, <1>4, SentIs, FramesAre
<1>6. \A i \in 1 .. n + 1 : w[10 + i] = b[i]
    BY <1>3, <1>4, <1>5 DEF IsWire
<1>7. PICK a \in Nat : End(k - 1) = a
  <2>1. k - 1 \in 0 .. Count
      BY <1>1
  <2> QED BY <1>1, <2>1 DEF Laid
<1>8. a + 10 = p
  <2>1. End(k) = End(k - 1) + Size(sent[k]) + 13
      BY <1>1 DEF Laid
  <2>2. p + n + 4 = a + (n + 1) + 13
      BY <1>3, <1>7, <2>1
  <2>3. Total \in Nat
      BY <1>1 DEF Laid
  <2> QED BY <2>2, <2>3
<1>9. \A i \in 1 .. n + 14 : Stream[a + i] = w[i]
  <2>1. \A i \in 1 .. Size(sent[k]) + 13 : Stream[End(k - 1) + i] = Wires[sent[k]][i]
      BY <1>1 DEF Laid
  <2>2. n + 1 + 13 = n + 14
      OBVIOUS
  <2> QED BY <1>3, <1>4, <1>7, <2>1, <2>2
<1>10. ASSUME NEW i \in 1 .. n PROVE Stream[p + i] = b[i] /\ b[i] \in Byte
  <2>1. i \in 1 .. n + 1 /\ 10 + i \in 1 .. n + 14 /\ a + (10 + i) = p + i
      BY <1>8
  <2> QED BY <1>5, <1>6, <1>9, <2>1, ElementOfSeq
<1>11. Carried(f) = SubSeq(b, 1, n)
    BY <1>4, <1>5 DEF Carried
<1>12. PICK t : t = e.telegram
    OBVIOUS
<1>13. t = SubSeq(b, 1, n)
  <2>1. \A i \in 1 .. n : t[i] = b[i] /\ t[i] \in Byte
    <3> SUFFICES ASSUME NEW i \in 1 .. n PROVE t[i] = b[i] /\ t[i] \in Byte
        OBVIOUS
    <3>1. t[i] = Stream[p + i]
      <4>1. \A j \in 1 .. Len(e.telegram) :
               e.telegram[j] = Stream[e.end - EMSPKG_EOD_SIZE - Len(e.telegram) + j]
          BY DEF Piece
      <4>2. p + n + 4 - 4 - n = p
          OBVIOUS
      <4> QED BY <1>2, <1>12, <4>1, <4>2 DEF EMSPKG_EOD_SIZE
    <3> QED BY <1>10, <3>1
  <2>2. SubSeq(t, 1, n) = SubSeq(b, 1, n)
      BY <2>1, SamePrefix
  <2>3. SubSeq(t, 1, n) = t
      BY <1>2, <1>12, SubSeqFull
  <2> QED BY <2>2, <2>3
<1> QED BY <1>2, <1>3, <1>4, <1>11, <1>12, <1>13

\* In either case, what was passed on was sent.
LEMMA SentIfPlain ==
    ASSUME TypeOK, CheckedPieces, PlainInv, AllPlain \/ NothingHidden
    PROVE  OnlySent
<1>1. sent \in Streams \cup {<<>>} /\ pos \in Nat /\ pos <= Total
  <2>1. sent \in Streams \cup {<<>>} /\ pos \in 0 .. Total
      BY DEF TypeOK, Total
  <2>2. Total \in Nat
      BY <2>1, StreamIsLaid DEF Laid
  <2> QED BY <2>1, <2>2
<1>2. DOMAIN sent = 1 .. Count
    BY <1>1, SentIs
<1>3. PICK m \in Nat : Len(syslog) = m
    BY LenProperties DEF CheckedPieces, Pieces
<1>4. syslog \in Seq(Entries) /\ DOMAIN syslog = 1 .. m /\ \A i \in 1 .. m : syslog[i] \in Entries
    BY <1>3, LenProperties, ElementOfSeq DEF CheckedPieces, Pieces
<1>5. AllCarried
  <2>1. CASE AllPlain
      BY <2>1 DEF PlainInv
  <2>2. CASE NothingHidden
    <3>1. ASSUME NEW i \in 1 .. m
          PROVE  \E k \in 1 .. Count :
                     syslog[i].end = End(k) /\ syslog[i].telegram = Carried(sent[k])
      <4>1. PICK e : e = syslog[i]
          OBVIOUS
      <4>2. e \in Entries /\ Piece(Stream, e, pos)
          BY <1>3, <1>4, <4>1 DEF CheckedPieces, Pieces
      <4>3. \E k \in 1 .. Count : e.end = End(k) /\ e.telegram = Carried(sent[k])
          BY <1>1, <2>2, <4>2, PieceIsFrame
      <4> QED BY <4>1, <4>3
    <3> QED BY <1>4, <3>1 DEF AllCarried
  <2> QED BY <2>1, <2>2
<1>6. ASSUME NEW i \in 1 .. m, NEW j \in 1 .. m, i < j PROVE syslog[i].end < syslog[j].end
  <2>1. syslog[i].end <= syslog[j].end - EMSPKG_EOD_SIZE - Len(syslog[j].telegram)
      BY <1>3, <1>6 DEF CheckedPieces, Pieces
  <2>2. PICK x \in Nat, y \in Nat, l \in Nat :
           syslog[i].end = x /\ syslog[j].end = y /\ Len(syslog[j].telegram) = l
      BY <1>4, EntryIs
  <2> QED BY <2>1, <2>2 DEF EMSPKG_EOD_SIZE
<1> QED BY <1>2, <1>4, <1>5, <1>6 DEF OnlySent, AllCarried

-----------------------------------------------------------------------------
(***************************************************************************)
(* The theorems.                                                           *)
(***************************************************************************)
IInv == TypeOK /\ Fresh /\ LengthRead /\ CheckedPieces /\ PlainInv

LEMMA InvInitially == Init => IInv
<1> SUFFICES ASSUME Init PROVE IInv
    OBVIOUS
<1>1. TypeOK
    BY InitType
<1>2. Fresh /\ LengthRead /\ CheckedPieces
    BY NoPieces DEF Init, Fresh, LengthRead, CheckedPieces
<1>3. PlainInv
    BY InitIsPlain DEF PlainInv
<1> QED BY <1>1, <1>2, <1>3 DEF IInv

LEMMA InvHolds == Spec => []IInv
<1>1. IInv /\ [Next]_vars => IInv'
    BY TypeKept, FreshKept, LengthKept, PiecesKept, PlainKept DEF IInv
<1> QED BY <1>1, InvInitially, PTL DEF Spec

\* The variables have their types, and the decoder asks for a payload only of a
\* length the trailer and its buffer admit, whatever bytes it took for a header:
\* validatePkgHeader and fillPkgPayload.
THEOREM SyslogTypes == Spec => []TypeOK
<1>1. IInv => TypeOK
    BY DEF IInv
<1> QED BY <1>1, InvHolds, PTL

\* Whatever the frames and wherever reads end, each telegram passed on is a piece
\* of the stream with its length before it and its CRC and the trailer behind it,
\* and they neither overlap nor change their order: getTelegramm and main.
THEOREM PassedOnWasChecked == Spec => []CheckedPieces
<1>1. IInv => CheckedPieces
    BY DEF IInv
<1> QED BY <1>1, InvHolds, PTL

\* If no frame looks like a trailer before its end or like V2 at its start, or if
\* nothing else in the stream looks like a telegram, its length, its CRC and its
\* trailer included, then what is passed on are telegrams of the bus, unchanged,
\* in their order and each only once: fillPkgHeader, fillPkgPayload and main.
THEOREM OnlySentIsPassedOn == Spec => [](AllPlain \/ NothingHidden => OnlySent)
<1>1. IInv => (AllPlain \/ NothingHidden => OnlySent)
    BY SentIfPlain DEF IInv
<1> QED BY <1>1, InvHolds, PTL

\* As long as nothing in the frames looks like a trailer, a telegram is lost only
\* with its own bytes coming late, or because of the one directly before it:
\* waitForEndOfFrame finds the end of the frame it is in, not of a later one.
THEOREM LossIsBounded == Spec => []BoundedLoss
<1>1. ASSUME IInv PROVE BoundedLoss
  <2>1. sent \in Streams \cup {<<>>}
      BY <1>1 DEF IInv, TypeOK
  <2>2. DOMAIN sent = 1 .. Count
      BY <2>1, SentIs
  <2>3. AllPlain => Accounted
      BY <1>1 DEF IInv, PlainInv
  <2> QED BY <2>2, <2>3 DEF BoundedLoss, AllPlain, Accounted, Passed, Excused
<1> QED BY <1>1, InvHolds, PTL
=============================================================================
