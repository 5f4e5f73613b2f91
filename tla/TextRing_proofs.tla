--------------------------- MODULE TextRing_proofs ---------------------------
(***************************************************************************)
(* The rings of the console and the log hold the newest characters, for    *)
(* every size of the ring.  The key is that nothing but a reset moves the  *)
(* indexes back: character m is at index (m - 1) % BUF_MAX.  A page shows  *)
(* them in order because what is under way to it always continues where it *)
(* is, or later.                                                           *)
(***************************************************************************)
EXTENDS TextRing, Facts, SequenceTheorems, FiniteSetTheorems, TLAPS

\* How many characters are lost when s was written.
Lost(s) == IF Len(s) < BUF_MAX THEN 0 ELSE Len(s) - (BUF_MAX - 1)

\* The ring r after s was written to it.
Holds(r, s) ==
    /\ r.buf \in [Indexes -> Char]
    /\ r.wr = Len(s) % BUF_MAX
    /\ r.pos = Lost(s)
    /\ r.rd = Lost(s) % BUF_MAX
    /\ \A m \in Lost(s) + 1 .. Len(s) : r.buf[(m - 1) % BUF_MAX] = Numbered(m, s[m])

RingInv == written \in Seq(Kinds) /\ Holds(Ring, written)

LEMMA SizeFacts == BUF_MAX \in Nat \ {0} /\ BUF_MAX >= 2
BY RingAssumption DEF RingAssumption

LEMMA AppendFacts ==
    ASSUME NEW s \in Seq(Kinds), NEW kind \in Kinds
    PROVE  /\ Append(s, kind) \in Seq(Kinds)
           /\ Len(Append(s, kind)) = Len(s) + 1
           /\ Append(s, kind)[Len(s) + 1] = kind
           /\ \A m \in 1 .. Len(s) : Append(s, kind)[m] = s[m]
BY AppendProperties

\* Len(s) and Lost(s) are less than BUF_MAX apart.
LEMMA LostFacts ==
    ASSUME NEW s \in Seq(Kinds)
    PROVE  /\ Len(s) \in Nat /\ Lost(s) \in Nat
           /\ Len(s) - Lost(s) \in 0 .. BUF_MAX - 1
BY SizeFacts, LenProperties DEF Lost

\* The ring is full when the next write would meet the oldest character.
LEMMA FullWhen ==
    ASSUME NEW s \in Seq(Kinds)
    PROVE  ((Len(s) + 1) % BUF_MAX = Lost(s) % BUF_MAX) <=> (Len(s) + 1 >= BUF_MAX)
<1> DEFINE n == Len(s)
           p == Lost(s)
<1>1. n \in Nat /\ p \in Nat /\ n - p \in 0 .. BUF_MAX - 1
    BY LostFacts
<1>2. p = IF n < BUF_MAX THEN 0 ELSE n - (BUF_MAX - 1)
    BY DEF Lost
<1> HIDE DEF n, p
<1>3. CASE n + 1 >= BUF_MAX
  <2>1. n + 1 = p + BUF_MAX
      BY <1>1, <1>2, <1>3, SizeFacts
  <2> QED BY <1>1, <1>3, <2>1, SizeFacts, ModPeriod DEF n, p
<1>4. CASE n + 1 < BUF_MAX
  <2>1. p = 0 /\ n + 1 \in 1 .. BUF_MAX - 1
      BY <1>1, <1>2, <1>4, SizeFacts
  <2>2. (0 + (n + 1)) % BUF_MAX # 0 % BUF_MAX
      BY <2>1, SizeFacts, ModDistinct
  <2> QED BY <1>1, <1>4, <2>1, <2>2, SizeFacts DEF n, p
<1> QED BY <1>1, <1>3, <1>4, SizeFacts

\* console_write and log_write add a character and drop at most the oldest.
LEMMA PutHolds ==
    ASSUME NEW r, NEW s \in Seq(Kinds), NEW kind \in Kinds, Holds(r, s)
    PROVE  Holds(Put(r, Numbered(Len(s) + 1, kind)), Append(s, kind))
<1> DEFINE n == Len(s)
           c == Numbered(n + 1, kind)
           t == Append(s, kind)
           q == Put(r, c)
<1>1. n \in Nat /\ Lost(s) \in Nat /\ n - Lost(s) \in 0 .. BUF_MAX - 1
    BY LostFacts
<1>2. t \in Seq(Kinds) /\ Len(t) = n + 1 /\ t[n + 1] = kind
      /\ \A m \in 1 .. n : t[m] = s[m]
    BY AppendFacts
<1>3. c \in Char
    BY <1>1 DEF Numbered, Char
<1>4. r.wr = n % BUF_MAX /\ r.wr \in Indexes
    BY <1>1, SizeFacts, ModFacts DEF Holds, Indexes
<1>5. q.buf = [r.buf EXCEPT ![r.wr] = c] /\ q.buf \in [Indexes -> Char]
    BY <1>3, <1>4 DEF Put, Holds
<1>6. Succ(r.wr) = (n + 1) % BUF_MAX
    BY <1>1, <1>4, SizeFacts, ModAdd DEF Succ
<1>7. (Succ(r.wr) = r.rd) <=> (n + 1 >= BUF_MAX)
    BY <1>6, FullWhen DEF Holds
<1>8. Lost(t) = IF n + 1 >= BUF_MAX THEN Lost(s) + 1 ELSE Lost(s)
    BY <1>1, <1>2, SizeFacts DEF Lost
<1>9. q.wr = Len(t) % BUF_MAX
    BY <1>2, <1>6 DEF Put
<1>10. q.pos = Lost(t)
    BY <1>7, <1>8 DEF Put, Holds
<1>11. Succ(r.rd) = (Lost(s) + 1) % BUF_MAX
  <2>1. r.rd = Lost(s) % BUF_MAX
      BY DEF Holds
  <2>2. ((Lost(s) % BUF_MAX) + 1) % BUF_MAX = (Lost(s) + 1) % BUF_MAX
      BY <1>1, SizeFacts, ModAdd
  <2> QED BY <2>1, <2>2 DEF Succ
<1>12. q.rd = Lost(t) % BUF_MAX
    BY <1>7, <1>8, <1>11 DEF Put, Holds
<1>13. ASSUME NEW m \in Lost(t) + 1 .. Len(t)
       PROVE  q.buf[(m - 1) % BUF_MAX] = Numbered(m, t[m])
  <2>1. m \in Nat /\ m - 1 \in Nat /\ (m - 1) % BUF_MAX \in Indexes
      BY <1>1, <1>2, <1>8, SizeFacts, ModFacts DEF Indexes
  <2>2. CASE m = n + 1
      BY <1>1, <1>2, <1>4, <1>5, <2>2 DEF Holds
  <2>3. CASE m # n + 1
    <3>1. m \in Lost(s) + 1 .. n /\ n - (m - 1) \in 1 .. BUF_MAX - 1
        BY <1>1, <1>2, <1>8, <2>1, <2>3, SizeFacts DEF Lost
    <3>2. n % BUF_MAX # (m - 1) % BUF_MAX
      <4> DEFINE d == n - (m - 1)
      <4>1. d \in 1 .. BUF_MAX - 1 /\ n = (m - 1) + d
          BY <1>1, <2>1, <3>1
      <4> HIDE DEF d
      <4> QED BY <2>1, <4>1, SizeFacts, ModDistinct
    <3>3. q.buf[(m - 1) % BUF_MAX] = r.buf[(m - 1) % BUF_MAX]
        BY <1>4, <1>5, <2>1, <3>2 DEF Holds
    <3>4. t[m] = s[m]
        BY <1>1, <1>2, <3>1
    <3> QED BY <3>1, <3>3, <3>4 DEF Holds
  <2> QED BY <2>2, <2>3
<1> HIDE DEF q, t
<1>14. Holds(q, t)
    BY <1>5, <1>9, <1>10, <1>12, <1>13 DEF Holds
<1> QED BY <1>14 DEF q, t, c, n

\* An empty ring.
LEMMA EmptyHolds ==
    ASSUME NEW r, r.buf \in [Indexes -> Char], r.wr = 0, r.rd = 0, r.pos = 0
    PROVE  Holds(r, <<>>)
<1>1. Len(<<>>) = 0 /\ 0 % BUF_MAX = 0
    BY SizeFacts, ModSmall, EmptySeq
<1>2. Lost(<<>>) = 0
    BY <1>1, SizeFacts DEF Lost
<1> QED BY <1>1, <1>2 DEF Holds

LEMMA InitRingInv == Init => RingInv
<1> SUFFICES ASSUME Init PROVE RingInv
    OBVIOUS
<1>1. Ring.buf \in [Indexes -> Char]
    BY DEF Init, Ring, Indexes, Numbered, Char, Kinds
<1>2. Ring.wr = 0 /\ Ring.rd = 0 /\ Ring.pos = 0 /\ written = <<>>
    BY DEF Init, Ring
<1>3. written \in Seq(Kinds)
    BY <1>2, EmptySeq
<1> QED BY <1>1, <1>2, <1>3, EmptyHolds DEF RingInv

\* One character is written.
LEMMA WriteOneInv ==
    ASSUME RingInv, NEW kind \in Kinds, WriteOne(kind)
    PROVE  RingInv'
<1> DEFINE q == Put(Ring, Numbered(Len(written) + 1, kind))
<1>1. Holds(q, Append(written, kind))
    BY PutHolds DEF RingInv
<1>2. Ring' = q /\ written' = Append(written, kind)
    BY DEF WriteOne, SetRing, Ring, Put
<1>3. Append(written, kind) \in Seq(Kinds)
    BY AppendFacts DEF RingInv
<1> QED BY <1>1, <1>2, <1>3 DEF RingInv

\* Two are, in one call.
LEMMA WriteNewlineInv ==
    ASSUME RingInv, WriteNewline
    PROVE  RingInv'
<1> DEFINE s == Append(written, "control")
           p == Put(Ring, Numbered(Len(written) + 1, "control"))
           q == Put(p, Numbered(Len(written) + 2, "control"))
<1>0. "control" \in Kinds
    BY DEF Kinds
<1>1. s \in Seq(Kinds) /\ Len(s) + 1 = Len(written) + 2 /\ Holds(p, s)
    BY <1>0, PutHolds, AppendFacts, LenProperties DEF RingInv
<1>2. Holds(q, Append(s, "control")) /\ Append(s, "control") \in Seq(Kinds)
    BY <1>0, <1>1, PutHolds, AppendFacts
<1>3. written \o <<"control", "control">> = Append(s, "control")
    BY <1>0 DEF RingInv
<1>4. Ring' = q /\ written' = Append(s, "control")
    BY <1>3 DEF WriteNewline, SetRing, Ring, Put
<1> QED BY <1>2, <1>4 DEF RingInv

LEMMA NextRingInv == RingInv /\ [Next]_vars => RingInv'
<1> SUFFICES ASSUME RingInv, [Next]_vars PROVE RingInv'
    OBVIOUS
<1>1. CASE ConsoleWriteChar
    BY <1>1, WriteOneInv DEF ConsoleWriteChar, Kinds
<1>2. CASE LogWriteChar
  <2>1. LogText \subseteq Kinds
      BY RingAssumption DEF RingAssumption, Kinds
  <2> QED BY <1>2, <2>1, WriteOneInv, WriteNewlineInv DEF LogWriteChar
<1>3. CASE ajaxConsoleReset
  <2>1. Ring'.buf \in [Indexes -> Char]
      BY <1>3 DEF ajaxConsoleReset, RingInv, Holds, Ring
  <2>2. Ring'.wr = 0 /\ Ring'.rd = 0 /\ Ring'.pos = 0 /\ written' = <<>>
      BY <1>3 DEF ajaxConsoleReset, Ring
  <2>3. <<>> \in Seq(Kinds)
      BY EmptySeq
  <2> QED BY <2>1, <2>2, <2>3, EmptyHolds DEF RingInv
<1>4. CASE UNCHANGED <<ring, written>>
    BY <1>4 DEF RingInv, Ring, ring
<1>5. CASE \E i \in Chains : Ask(i) \/ ajaxText(i) \/ Receive(i) \/ Fail(i)
    BY <1>4, <1>5 DEF Ask, ajaxText, Receive, Fail
<1>6. CASE Refresh \/ Load
    BY <1>4, <1>6 DEF Refresh, Load
<1>7. CASE UNCHANGED vars
    BY <1>4, <1>7 DEF vars
<1> QED BY <1>1, <1>2, <1>3, <1>5, <1>6, <1>7 DEF Next, Write

\* The arithmetic of console_len and of the loop over the ring.
LEMMA InvHoldsLatest == RingInv => HoldsLatest
<1> SUFFICES ASSUME RingInv PROVE HoldsLatest
    OBVIOUS
<1> DEFINE n == Len(written)
           p == Lost(written)
           d == n - p
<1>1. n \in Nat /\ p \in Nat /\ d \in 0 .. BUF_MAX - 1
    BY LostFacts DEF RingInv
<1>2. /\ wr = n % BUF_MAX /\ rd = p % BUF_MAX /\ pos = p
      /\ \A m \in p + 1 .. n : buf[(m - 1) % BUF_MAX] = Numbered(m, written[m])
    BY DEF RingInv, Holds, Ring
<1>3. d = IF n < BUF_MAX THEN n ELSE BUF_MAX - 1
    BY <1>1, SizeFacts DEF Lost
<1>4. p + d = n
    BY <1>1
<1> HIDE DEF n, p, d
<1>5. Size(Ring) = d
    BY <1>1, <1>2, <1>4, SizeFacts, ModDiff DEF Size, Ring
<1>6. ASSUME NEW k \in 1 .. d
      PROVE  Window(Ring)[k] = Numbered(pos + k, written[pos + k])
  <2>1. p + k \in p + 1 .. n /\ k - 1 \in Nat
      BY <1>1, <1>4
  <2>2. Window(Ring)[k] = buf[(rd + k - 1) % BUF_MAX]
      BY <1>5 DEF Window, Ring
  <2>3. (rd + (k - 1)) % BUF_MAX = (p + (k - 1)) % BUF_MAX
      BY <1>1, <1>2, <2>1, SizeFacts, ModAdd
  <2>4. rd + k - 1 = rd + (k - 1) /\ p + (k - 1) = (p + k) - 1
    <3>1. rd \in Nat
        BY <1>1, <1>2, SizeFacts, ModFacts
    <3> QED BY <1>1, <3>1
  <2> QED BY <1>2, <2>1, <2>2, <2>3, <2>4
<1> QED BY <1>2, <1>3, <1>4, <1>5, <1>6 DEF HoldsLatest, n

\* The ring holds the newest BUF_MAX - 1 characters in order and knows how many
\* came before them: console_write, log_write and the lengths computed in
\* ajaxConsole and ajaxLog are right for every size of the ring and every text.
THEOREM RingHoldsLatest == Spec => []HoldsLatest
<1>1. RingInv /\ [Next]_vars => RingInv'
    BY NextRingInv
<1> QED BY <1>1, InitRingInv, InvHoldsLatest, PTL DEF Spec

-----------------------------------------------------------------------------
(* The page.                                                               *)

\* The types of the variables of the page.
PageTypes ==
    /\ page \in Pages
    /\ chain \in [Chains -> ChainStates]
    /\ textEnd \in Nat /\ shown \in Seq(Nat \cup {Missing})
    /\ resets \in 0 .. MaxResets
    /\ flaw \subseteq {"reset", "overlap", "cut"}

\* s shows characters in order up to e.
InOrder(s, e) ==
    LET marked == <<0>> \o s IN
    /\ \A k \in 1 .. Len(marked) - 1 :
           IF marked[k + 1] = Missing
           THEN k + 2 <= Len(marked) /\ marked[k + 2] > marked[k] + 1
           ELSE marked[k] # Missing => marked[k + 1] = marked[k] + 1
    /\ Last(marked) = e

\* An answer that continues where the page is, or later, and stays within what
\* was written.
Continues(a) ==
    /\ textEnd <= a.start /\ a.start + a.len <= Len(written)
    /\ Len(a.text) <= a.len
    /\ \A k \in 1 .. Len(a.text) : a.text[k].n = a.start + k

\* What is under way is about the page as it is now: while it has one request at
\* a time, and the ring was not reset.
Current ==
    flaw \cap {"reset", "overlap"} = {} =>
        /\ textEnd <= Len(written)
        /\ \A i, j \in Chains : i \in UnderWay /\ j \in UnderWay => i = j
        /\ \A i \in Chains : chain[i].state = "asked" => chain[i].start = textEnd
        /\ \A i \in Chains : chain[i].state = "answered" => Continues(chain[i].answer)

Shows == flaw = {} => InOrder(shown, textEnd)

PageInv == RingInv /\ PageTypes /\ Current /\ Shows

\* The indexes that are kept have their types.
LEMMA RingTypes == RingInv =>
    /\ buf \in [Indexes -> Char] /\ wr \in Indexes /\ rd \in Indexes /\ pos \in Nat
    /\ written \in Seq(Kinds)
<1> SUFFICES ASSUME RingInv
             PROVE  /\ buf \in [Indexes -> Char] /\ wr \in Indexes /\ rd \in Indexes
                    /\ pos \in Nat /\ written \in Seq(Kinds)
    OBVIOUS
<1>1. Len(written) \in Nat /\ Lost(written) \in Nat
    BY LostFacts DEF RingInv
<1>2. Len(written) % BUF_MAX \in Indexes /\ Lost(written) % BUF_MAX \in Indexes
    BY <1>1, SizeFacts, ModFacts DEF Indexes
<1> QED BY <1>1, <1>2 DEF RingInv, Holds, Ring

\* The answer's text is a beginning of what is asked for.
LEMMA FittingFacts ==
    ASSUME NEW S, NEW text \in Seq(S)
    PROVE  /\ Fitting(text) \in Seq(S)
           /\ Len(Fitting(text)) <= Len(text)
           /\ \A k \in 1 .. Len(Fitting(text)) : Fitting(text)[k] = text[k]
<1> DEFINE begun == {k \in 1 .. Len(text) : Room(TextWidth(SubSeq(text, 1, k - 1)))}
           c == Cardinality(begun)
<1>1. Len(text) \in Nat
    BY LenProperties
<1>2. IsFiniteSet(1 .. Len(text)) /\ Cardinality(1 .. Len(text)) = Len(text)
    BY <1>1, FS_Interval
<1>3. begun \subseteq 1 .. Len(text)
    OBVIOUS
<1> HIDE DEF begun
<1>4. c \in Nat /\ c <= Len(text)
    BY <1>2, <1>3, FS_Subset, FS_CardinalityType
<1>5. Fitting(text) = SubSeq(text, 1, c)
    BY DEF Fitting, begun
<1> HIDE DEF c
<1>6. \A k \in 1 .. c : text[k] \in S
    BY <1>1, <1>4, ElementOfSeq
<1>7. SubSeq(text, 1, c) = [k \in 1 .. c |-> text[k]]
    BY <1>1, <1>4
<1>8. SubSeq(text, 1, c) \in Seq(S) /\ Len(SubSeq(text, 1, c)) = c
    BY <1>1, <1>4, <1>6, <1>7
<1> QED BY <1>4, <1>5, <1>7, <1>8

(***************************************************************************)
(* The room of an answer.  The wider the text the less room: the characters*)
(* the loop begins are the first ones, and the last of them began where    *)
(* there was room for any character and the end of the answer.             *)
(***************************************************************************)
OfKind(text, kind) == {k \in 1 .. Len(text) : text[k].kind = kind}

LEMMA CountFacts ==
    ASSUME NEW text \in Seq(Char), NEW kind
    PROVE  IsFiniteSet(OfKind(text, kind)) /\ Count(text, kind) \in Nat
<1>1. IsFiniteSet(1 .. Len(text))
    BY LenProperties, FS_Interval
<1>2. IsFiniteSet(OfKind(text, kind))
    BY <1>1, FS_Subset DEF OfKind
<1> QED BY <1>2, FS_CardinalityType DEF OfKind, Count

LEMMA WidthType ==
    ASSUME NEW text \in Seq(Char)
    PROVE  TextWidth(text) \in Nat
<1>1. /\ Count(text, "plain") \in Nat /\ Count(text, "quoted") \in Nat
      /\ Count(text, "control") \in Nat
    BY CountFacts
<1> QED BY <1>1 DEF TextWidth, Width

LEMMA PrefixFacts ==
    ASSUME NEW text \in Seq(Char), NEW n \in 0 .. Len(text)
    PROVE  /\ SubSeq(text, 1, n) \in Seq(Char)
           /\ Len(SubSeq(text, 1, n)) = n
           /\ \A k \in 1 .. n : SubSeq(text, 1, n)[k] = text[k]
<1>1. Len(text) \in Nat /\ \A k \in 1 .. n : text[k] \in Char
    BY LenProperties, ElementOfSeq
<1> QED BY <1>1

\* A longer beginning of a text has no fewer characters of a kind, one character
\* more of it at most one more and only of the kind of that character.
LEMMA CountPrefix ==
    ASSUME NEW text \in Seq(Char), NEW n \in 0 .. Len(text), NEW m \in 0 .. n, NEW kind
    PROVE  /\ Count(SubSeq(text, 1, m), kind) <= Count(SubSeq(text, 1, n), kind)
           /\ n = m + 1 => Count(SubSeq(text, 1, n), kind) =
                  Count(SubSeq(text, 1, m), kind) + (IF text[n].kind = kind THEN 1 ELSE 0)
<1> DEFINE p == SubSeq(text, 1, n)
           q == SubSeq(text, 1, m)
<1>1. Len(text) \in Nat /\ m \in 0 .. Len(text) /\ n \in Nat /\ m \in Nat /\ m <= n
    BY LenProperties
<1>2. /\ p \in Seq(Char) /\ Len(p) = n /\ \A k \in 1 .. n : p[k] = text[k]
      /\ q \in Seq(Char) /\ Len(q) = m /\ \A k \in 1 .. m : q[k] = text[k]
    BY <1>1, PrefixFacts
<1> HIDE DEF p, q
<1>3. /\ OfKind(p, kind) = {k \in 1 .. n : text[k].kind = kind}
      /\ OfKind(q, kind) = {k \in 1 .. m : text[k].kind = kind}
    BY <1>2 DEF OfKind
<1>4. IsFiniteSet(OfKind(p, kind)) /\ IsFiniteSet(OfKind(q, kind))
    BY <1>2, CountFacts
<1>5. Count(q, kind) <= Count(p, kind)
  <2>1. OfKind(q, kind) \in SUBSET OfKind(p, kind)
      BY <1>1, <1>3
  <2>2. Cardinality(OfKind(q, kind)) <= Cardinality(OfKind(p, kind))
      BY <1>4, <2>1, FS_Subset
  <2> QED BY <2>2 DEF Count, OfKind
<1>6. ASSUME n = m + 1
      PROVE  Count(p, kind) = Count(q, kind) + (IF text[n].kind = kind THEN 1 ELSE 0)
  <2>1. CASE text[n].kind = kind
    <3>1. OfKind(p, kind) = OfKind(q, kind) \cup {n} /\ n \notin OfKind(q, kind)
        BY <1>1, <1>3, <1>6, <2>1
    <3>2. Cardinality(OfKind(p, kind)) = Cardinality(OfKind(q, kind)) + 1
        BY <1>4, <3>1, FS_AddElement
    <3> QED BY <2>1, <3>2 DEF Count, OfKind
  <2>2. CASE text[n].kind # kind
    <3>1. OfKind(p, kind) = OfKind(q, kind)
        BY <1>1, <1>3, <1>6, <2>2
    <3>2. Count(p, kind) = Count(q, kind) /\ Count(q, kind) \in Nat
        BY <1>2, <3>1, CountFacts DEF Count, OfKind
    <3> QED BY <2>2, <3>2
  <2> QED BY <2>1, <2>2
<1> QED BY <1>5, <1>6 DEF p, q

\* The width grows along a text, by six at most for a character.
LEMMA WidthPrefix ==
    ASSUME NEW text \in Seq(Char), NEW n \in 0 .. Len(text), NEW m \in 0 .. n
    PROVE  /\ TextWidth(SubSeq(text, 1, m)) <= TextWidth(SubSeq(text, 1, n))
           /\ n = m + 1 =>
                  TextWidth(SubSeq(text, 1, n)) <= TextWidth(SubSeq(text, 1, m)) + 6
<1> DEFINE p == SubSeq(text, 1, n)
           q == SubSeq(text, 1, m)
<1>1. p \in Seq(Char) /\ q \in Seq(Char)
    BY PrefixFacts, LenProperties, m \in 0 .. Len(text)
<1> DEFINE a1 == Count(q, "plain")    b1 == Count(p, "plain")
           a2 == Count(q, "quoted")   b2 == Count(p, "quoted")
           a3 == Count(q, "control")  b3 == Count(p, "control")
<1>2. /\ a1 \in Nat /\ a2 \in Nat /\ a3 \in Nat
      /\ b1 \in Nat /\ b2 \in Nat /\ b3 \in Nat
  <2> HIDE DEF p, q
  <2> QED BY <1>1, CountFacts
<1>3. /\ a1 <= b1
      /\ n = m + 1 => b1 = a1 + (IF text[n].kind = "plain" THEN 1 ELSE 0)
    BY CountPrefix
<1>4. /\ a2 <= b2
      /\ n = m + 1 => b2 = a2 + (IF text[n].kind = "quoted" THEN 1 ELSE 0)
    BY CountPrefix
<1>5. /\ a3 <= b3
      /\ n = m + 1 => b3 = a3 + (IF text[n].kind = "control" THEN 1 ELSE 0)
    BY CountPrefix
<1>6. /\ TextWidth(q) = a1 + 2 * a2 + 6 * a3
      /\ TextWidth(p) = b1 + 2 * b2 + 6 * b3
  <2> HIDE DEF p, q
  <2> QED BY <1>2 DEF TextWidth, Width
<1> HIDE DEF p, q, a1, a2, a3, b1, b2, b3
<1>7. TextWidth(q) <= TextWidth(p)
    BY <1>2, <1>3, <1>4, <1>5, <1>6
<1>8. n = m + 1 => TextWidth(p) <= TextWidth(q) + 6
    BY <1>2, <1>3, <1>4, <1>5, <1>6
<1> QED BY <1>7, <1>8 DEF p, q

LEMMA FittingFits ==
    ASSUME NEW text \in Seq(Char)
    PROVE  TextWidth(Fitting(text)) + 3 <= RESP_SIZE
<1> DEFINE W(n) == TextWidth(SubSeq(text, 1, n))
           begun == {k \in 1 .. Len(text) : Room(W(k - 1))}
           c == Cardinality(begun)
<1>1. Len(text) \in Nat /\ RESP_SIZE \in Nat /\ RESP_SIZE > 8
    BY LenProperties, RingAssumption DEF RingAssumption
<1>2. IsFiniteSet(1 .. Len(text)) /\ Cardinality(1 .. Len(text)) = Len(text)
    BY <1>1, FS_Interval
<1>3. c \in Nat /\ c <= Len(text)
    BY <1>2, FS_Subset, FS_CardinalityType
<1>4. \A n \in 0 .. Len(text) : W(n) \in Nat
    BY PrefixFacts, WidthType
<1>5. \A n \in 0 .. Len(text) : \A m \in 0 .. n :
          W(m) <= W(n) /\ (n = m + 1 => W(n) <= W(m) + 6)
    BY WidthPrefix
<1>6. Fitting(text) = SubSeq(text, 1, c)
    BY DEF Fitting
<1>7. W(0) = 0
  <2>1. SubSeq(text, 1, 0) \in Seq(Char) /\ Len(SubSeq(text, 1, 0)) = 0
      BY <1>1, PrefixFacts
  <2>2. \A kind : {k \in 1 .. Len(SubSeq(text, 1, 0)) : SubSeq(text, 1, 0)[k].kind = kind} = {}
      BY <2>1
  <2>3. \A kind : Count(SubSeq(text, 1, 0), kind) = 0
      BY <2>2, FS_EmptySet DEF Count
  <2> QED BY <2>3 DEF TextWidth, Width
<1> HIDE DEF W
<1>8. ASSUME NEW k \in begun, NEW j \in 1 .. k PROVE j \in begun
  <2>1. k \in 1 .. Len(text) /\ W(k - 1) < RESP_SIZE - 8
      BY DEF Room
  <2>2. j \in 1 .. Len(text) /\ k - 1 \in 0 .. Len(text) /\ j - 1 \in 0 .. k - 1
      BY <1>1, <2>1
  <2>3. W(j - 1) <= W(k - 1)
      BY <1>5, <2>2
  <2>4. W(j - 1) \in Nat /\ W(k - 1) \in Nat
      BY <1>1, <1>4, <2>1, <2>2
  <2>5. W(j - 1) < RESP_SIZE - 8
      BY <1>1, <2>1, <2>3, <2>4
  <2> QED BY <2>2, <2>5 DEF Room
<1>9. c > 0 => c \in begun
  <2> SUFFICES ASSUME c > 0, c \notin begun PROVE FALSE
      OBVIOUS
  <2> DEFINE d == c - 1
  <2>1. d \in Nat /\ c = d + 1
      BY <1>3
  <2>2. ASSUME NEW k \in begun PROVE k \in 1 .. d
    <3>1. k \in 1 .. Len(text)
        OBVIOUS
    <3>2. c \in 1 .. k => c \in begun
        BY <1>8
    <3> HIDE DEF c, d
    <3> QED BY <1>1, <1>3, <2>1, <3>1, <3>2
  <2>3. begun \in SUBSET (1 .. d)
      BY <2>2
  <2> HIDE DEF d
  <2>4. IsFiniteSet(1 .. d) /\ Cardinality(1 .. d) = d
      BY <2>1, FS_Interval
  <2>5. c <= d
      BY <2>3, <2>4, FS_Subset
  <2> QED BY <2>1, <2>5
<1>10. W(c) + 3 <= RESP_SIZE
  <2>1. CASE c = 0
      BY <1>1, <1>7, <2>1
  <2>2. CASE c > 0
    <3>1. W(c - 1) < RESP_SIZE - 8
        BY <1>9, <2>2 DEF Room
    <3>2. c - 1 \in 0 .. Len(text) /\ c \in 0 .. Len(text) /\ c - 1 \in 0 .. c
        BY <1>1, <1>3, <2>2
    <3>3. W(c) <= W(c - 1) + 6 /\ W(c) \in Nat /\ W(c - 1) \in Nat
        BY <1>3, <1>4, <1>5, <3>2
    <3> QED BY <1>1, <3>1, <3>3
  <2> QED BY <1>3, <2>1, <2>2
<1> QED BY <1>6, <1>10 DEF W

\* What ajaxConsole and ajaxLog answer: from start on, or from the oldest
\* character the ring still has, to the newest.
LEMMA AnswerFacts ==
    ASSUME RingInv, NEW start \in Nat
    PROVE  LET a == Answer(Ring, start) IN
           /\ a \in [len : Nat, start : Nat, text : Seq(Char)]
           /\ start <= Len(written) => start <= a.start
           /\ a.start + a.len = Len(written)
           /\ Len(a.text) <= a.len
           /\ \A k \in 1 .. Len(a.text) : a.text[k].n = a.start + k
           /\ TextWidth(a.text) + 3 <= RESP_SIZE
<1> DEFINE n == Len(written)
           size == Size(Ring)
           offset == Offset(Ring, start)
           rest == SubSeq(Window(Ring), offset + 1, size)
           a == Answer(Ring, start)
<1>1. n \in Nat /\ pos \in Nat /\ written \in Seq(Kinds)
    BY RingTypes, LenProperties
<1>0. \A j \in 1 .. n : written[j] \in Kinds
    BY <1>1, ElementOfSeq
<1>2. pos + size = n /\ \A k \in 1 .. size : Window(Ring)[k] = Numbered(pos + k, written[pos + k])
    BY InvHoldsLatest DEF HoldsLatest
<1>3. size \in Nat
    BY <1>1, <1>2, InvHoldsLatest, SizeFacts DEF HoldsLatest
<1>4. Window(Ring) \in Seq(Char) /\ Len(Window(Ring)) = size
  <2>1. Window(Ring) = [k \in 1 .. size |-> Window(Ring)[k]]
      BY DEF Window
  <2>2. ASSUME NEW k \in 1 .. size PROVE Window(Ring)[k] \in Char
    <3>1. pos + k \in 1 .. n
        BY <1>1, <1>2, <1>3
    <3>2. written[pos + k] \in Kinds
        BY <1>0, <3>1
    <3>3. Window(Ring)[k] = Numbered(pos + k, written[pos + k])
        BY <1>2
    <3>4. pos + k \in Nat
        BY <1>1, <1>3
    <3> QED BY <3>2, <3>3, <3>4 DEF Numbered, Char
  <2> HIDE DEF size
  <2> QED BY <1>3, <2>1, <2>2
<1>5. Ring.pos = pos
    BY DEF Ring
<1>6. /\ offset \in 0 .. size
      /\ start <= n => start <= pos + offset
    BY <1>1, <1>2, <1>3, <1>5 DEF Offset
<1>7. a = [len |-> size - offset, start |-> pos + offset, text |-> Fitting(rest)]
    BY <1>5 DEF Answer
<1> HIDE DEF size, offset, a, n
<1>8. /\ rest \in Seq(Char) /\ Len(rest) = size - offset
      /\ \A k \in 1 .. size - offset : rest[k] = Window(Ring)[offset + k]
  <2> DEFINE w == Window(Ring)
  <2>1. w \in Seq(Char) /\ Len(w) = size
      BY <1>4
  <2> HIDE DEF w
  <2>2. SubSeq(w, offset + 1, size) = [k \in 1 .. size - offset |-> w[offset + k]]
      BY <1>3, <1>6, <2>1
  <2>3. \A k \in 1 .. size - offset : w[offset + k] \in Char
      BY <1>3, <1>6, <2>1, ElementOfSeq
  <2>4. rest = SubSeq(w, offset + 1, size)
      BY DEF w
  <2> HIDE DEF rest
  <2> DEFINE m == size - offset
  <2>5. m \in Nat
      BY <1>3, <1>6
  <2> HIDE DEF m
  <2>6. rest = [k \in 1 .. m |-> w[offset + k]]
      BY <2>2, <2>4 DEF m
  <2>7. \A k \in 1 .. m : w[offset + k] \in Char
      BY <2>3 DEF m
  <2>8. rest \in Seq(Char) /\ Len(rest) = m /\ \A k \in 1 .. m : rest[k] = w[offset + k]
      BY <2>5, <2>6, <2>7
  <2> QED BY <2>8 DEF w, m
<1> HIDE DEF rest
<1>9. /\ Fitting(rest) \in Seq(Char) /\ Len(Fitting(rest)) <= size - offset
      /\ \A k \in 1 .. Len(Fitting(rest)) : Fitting(rest)[k] = rest[k]
    BY <1>8, FittingFacts
<1>10. ASSUME NEW k \in 1 .. Len(Fitting(rest))
       PROVE  Fitting(rest)[k].n = pos + offset + k
  <2>1. Len(Fitting(rest)) \in Nat
      BY <1>9, LenProperties
  <2>2. k \in 1 .. size - offset /\ offset + k \in 1 .. size
      BY <1>3, <1>6, <1>9, <2>1
  <2>3. rest[k] = Numbered(pos + (offset + k), written[pos + (offset + k)])
      BY <1>2, <1>8, <2>2 DEF size
  <2> QED BY <1>1, <1>6, <1>9, <2>2, <2>3 DEF Numbered
<1>11. TextWidth(Fitting(rest)) + 3 <= RESP_SIZE
    BY <1>8, FittingFits
<1>12. a.text = Fitting(rest)
    BY <1>7
<1>13. a.len = size - offset /\ a.start = pos + offset
    BY <1>7
<1>14. a \in [len : Nat, start : Nat, text : Seq(Char)]
  <2>1. size - offset \in Nat /\ pos + offset \in Nat
      BY <1>1, <1>3, <1>6
  <2> QED BY <1>7, <1>9, <2>1
<1>15. /\ start <= n => start <= a.start
       /\ a.start + a.len = n /\ Len(a.text) <= a.len
    BY <1>1, <1>2, <1>3, <1>6, <1>9, <1>12, <1>13
<1>16. \A k \in 1 .. Len(a.text) : a.text[k].n = a.start + k
    BY <1>10, <1>12, <1>13
<1> QED BY <1>11, <1>12, <1>14, <1>15, <1>16 DEF a, n

\* Where the characters of two and of three texts are in their concatenation.
LEMMA TwoParts ==
    ASSUME NEW S, NEW a \in Seq(S), NEW b \in Seq(S), NEW r, r = a \o b
    PROVE  /\ r \in Seq(S) /\ Len(r) = Len(a) + Len(b)
           /\ \A k \in 1 .. Len(a) : r[k] = a[k]
           /\ \A k \in 1 .. Len(b) : r[Len(a) + k] = b[k]
<1>1. \A k \in 1 .. Len(a) : k \in 1 .. Len(a) + Len(b) /\ k <= Len(a)
    BY LenProperties
<1>2. \A k \in 1 .. Len(b) :
          /\ k \in Nat /\ Len(a) + k \in 1 .. Len(a) + Len(b)
          /\ ~(Len(a) + k <= Len(a)) /\ (Len(a) + k) - Len(a) = k
    BY LenProperties
<1> QED BY <1>1, <1>2, ConcatProperties

LEMMA ThreeParts ==
    ASSUME NEW S, NEW a \in Seq(S), NEW b \in Seq(S), NEW c \in Seq(S),
           NEW d, d = a \o b, NEW r, r = d \o c
    PROVE  /\ r \in Seq(S) /\ Len(r) = Len(a) + Len(b) + Len(c)
           /\ \A k \in 1 .. Len(a) : r[k] = a[k]
           /\ \A k \in 1 .. Len(b) : r[Len(a) + k] = b[k]
           /\ \A k \in 1 .. Len(c) : r[Len(a) + Len(b) + k] = c[k]
<1>1. /\ d \in Seq(S) /\ Len(d) = Len(a) + Len(b)
      /\ \A k \in 1 .. Len(a) : d[k] = a[k]
      /\ \A k \in 1 .. Len(b) : d[Len(a) + k] = b[k]
    BY TwoParts
<1>2. /\ r \in Seq(S) /\ Len(r) = Len(d) + Len(c)
      /\ \A k \in 1 .. Len(d) : r[k] = d[k]
      /\ \A k \in 1 .. Len(c) : r[Len(d) + k] = c[k]
    BY <1>1, TwoParts
<1>3. Len(a) \in Nat /\ Len(b) \in Nat
    BY LenProperties
<1> QED BY <1>1, <1>2, <1>3

\* A text with 0 in front of it, before and after it grows.
LEMMA Extended ==
    ASSUME NEW s \in Seq(Nat \cup {Missing}), NEW gap \in Seq(Nat \cup {Missing}),
           NEW more \in Seq(Nat \cup {Missing})
    PROVE  LET old == <<0>> \o s
               new == <<0>> \o (s \o gap \o more)
           IN  /\ Len(old) = 1 + Len(s)
               /\ Len(new) = Len(old) + Len(gap) + Len(more)
               /\ \A k \in 1 .. Len(old) : new[k] = old[k]
               /\ \A k \in 1 .. Len(gap) : new[Len(old) + k] = gap[k]
               /\ \A k \in 1 .. Len(more) : new[Len(old) + Len(gap) + k] = more[k]
<1> DEFINE S == Nat \cup {Missing}
           one == <<0>>
           tail == s \o gap
           rest == tail \o more
           old == one \o s
           new == one \o rest
<1>b. Len(one) = 1
    OBVIOUS
<1>c. tail = s \o gap /\ rest = tail \o more
    OBVIOUS
<1>d. old = one \o s
    OBVIOUS
<1>e. new = one \o rest
    OBVIOUS
<1>f. one \in Seq(S) /\ s \in Seq(S) /\ gap \in Seq(S) /\ more \in Seq(S)
    OBVIOUS
<1> HIDE DEF S, one, tail, rest, old, new
<1>0. Len(s) \in Nat /\ Len(gap) \in Nat /\ Len(more) \in Nat
    BY <1>f, LenProperties
<1>1. /\ rest \in Seq(S) /\ Len(rest) = Len(s) + Len(gap) + Len(more)
      /\ \A k \in 1 .. Len(s) : rest[k] = s[k]
      /\ \A k \in 1 .. Len(gap) : rest[Len(s) + k] = gap[k]
      /\ \A k \in 1 .. Len(more) : rest[Len(s) + Len(gap) + k] = more[k]
    BY <1>c, <1>f, ThreeParts
<1>2. /\ Len(new) = Len(one) + Len(rest)
      /\ \A k \in 1 .. Len(one) : new[k] = one[k]
      /\ \A k \in 1 .. Len(rest) : new[Len(one) + k] = rest[k]
  <2> rest \in Seq(S)
      BY <1>1
  <2> QED BY <1>e, <1>f, TwoParts
<1>3. /\ Len(old) = Len(one) + Len(s)
      /\ \A k \in 1 .. Len(one) : old[k] = one[k]
      /\ \A k \in 1 .. Len(s) : old[Len(one) + k] = s[k]
    BY <1>d, <1>f, TwoParts
<1>4. ASSUME NEW k \in 1 .. Len(old) PROVE new[k] = old[k]
  <2>1. CASE k = 1
      BY <1>b, <1>2, <1>3, <2>1
  <2>2. CASE k # 1
    <3>1. k - 1 \in 1 .. Len(s) /\ k - 1 \in 1 .. Len(rest) /\ 1 + (k - 1) = k
        BY <1>b, <1>0, <1>1, <1>3, <2>2
    <3>2. new[1 + (k - 1)] = rest[k - 1] /\ old[1 + (k - 1)] = s[k - 1]
        BY <1>b, <1>2, <1>3, <3>1
    <3> QED BY <1>1, <3>1, <3>2
  <2> QED BY <2>1, <2>2
<1>5. ASSUME NEW k \in 1 .. Len(gap) PROVE new[Len(old) + k] = gap[k]
  <2>1. Len(s) + k \in 1 .. Len(rest) /\ 1 + (Len(s) + k) = Len(old) + k
      BY <1>b, <1>0, <1>1, <1>3
  <2>2. new[1 + (Len(s) + k)] = rest[Len(s) + k]
      BY <1>b, <1>2, <2>1
  <2> QED BY <1>1, <2>1, <2>2
<1>6. ASSUME NEW k \in 1 .. Len(more) PROVE new[Len(old) + Len(gap) + k] = more[k]
  <2>1. /\ Len(s) + Len(gap) + k \in 1 .. Len(rest)
        /\ 1 + (Len(s) + Len(gap) + k) = Len(old) + Len(gap) + k
      BY <1>b, <1>0, <1>1, <1>3
  <2>2. new[1 + (Len(s) + Len(gap) + k)] = rest[Len(s) + Len(gap) + k]
      BY <1>b, <1>2, <2>1
  <2> QED BY <1>1, <2>1, <2>2
<1>7. /\ Len(old) = 1 + Len(s)
      /\ Len(new) = Len(old) + Len(gap) + Len(more)
    BY <1>0, <1>b, <1>1, <1>2, <1>3
<1> QED BY <1>4, <1>5, <1>6, <1>7, Zenon DEF one, tail, rest, old, new

\* Characters start + 1 to start + len, with the marker when some are missing
\* before them, continue a text that is in order up to e.
LEMMA ExtendOrder ==
    ASSUME NEW s \in Seq(Nat \cup {Missing}), NEW e \in Nat, InOrder(s, e),
           NEW start \in Nat, e <= start, NEW len \in Nat \ {0},
           NEW more \in Seq(Nat), Len(more) = len,
           \A k \in 1 .. len : more[k] = start + k
    PROVE  InOrder(s \o (IF start > e THEN <<Missing>> ELSE <<>>) \o more, start + len)
<1> DEFINE old == <<0>> \o s
           gap == IF start > e THEN <<Missing>> ELSE <<>>
           new == <<0>> \o (s \o gap \o more)
           n == Len(old)
           g == Len(gap)
<1>0. Missing \in Int /\ Missing < 0
    BY DEF Missing
<1>1. /\ old \in Seq(Nat \cup {Missing}) /\ n = Len(s) + 1 /\ Len(s) \in Nat
    BY LenProperties
<1>g. /\ gap \in Seq(Nat \cup {Missing}) /\ g = (IF start > e THEN 1 ELSE 0)
      /\ start > e => gap[1] = Missing
  <2>1. CASE start > e
      BY <2>1
  <2>2. CASE ~(start > e)
      BY <2>2
  <2> QED BY <2>1, <2>2
<1>2. /\ Len(new) = n + g + len
      /\ \A k \in 1 .. n : new[k] = old[k]
      /\ \A k \in 1 .. len : new[n + g + k] = start + k
      /\ start > e => new[n + 1] = Missing
  <2>1. more \in Seq(Nat \cup {Missing})
      OBVIOUS
  <2>2. s \in Seq(Nat \cup {Missing}) /\ gap \in Seq(Nat \cup {Missing})
      BY <1>g
  <2>3. /\ Len(old) = 1 + Len(s)
        /\ Len(new) = Len(old) + Len(gap) + Len(more)
        /\ \A k \in 1 .. Len(old) : new[k] = old[k]
        /\ \A k \in 1 .. Len(gap) : new[Len(old) + k] = gap[k]
        /\ \A k \in 1 .. Len(more) : new[Len(old) + Len(gap) + k] = more[k]
    <3> HIDE DEF gap
    <3> QED BY <2>1, <2>2, Extended
  <2> HIDE DEF old, new, gap
  <2>4. start > e => new[n + 1] = Missing
      BY <1>g, <2>3
  <2> QED BY <2>3, <2>4
<1>3. /\ \A k \in 1 .. n - 1 :
             IF old[k + 1] = Missing
             THEN k + 2 <= n /\ old[k + 2] > old[k] + 1
             ELSE old[k] # Missing => old[k + 1] = old[k] + 1
      /\ old[n] = e
    BY DEF InOrder, Last
<1> HIDE DEF old, gap, new, n, g
<1>4. n \in Nat \ {0} /\ g \in {0, 1}
    BY <1>1, <1>g
<1>5. ASSUME NEW k \in 1 .. Len(new) - 1
      PROVE  IF new[k + 1] = Missing
             THEN k + 2 <= Len(new) /\ new[k + 2] > new[k] + 1
             ELSE new[k] # Missing => new[k + 1] = new[k] + 1
  <2>1. CASE k < n
    <3>1. k \in 1 .. n - 1 /\ k \in 1 .. n /\ k + 1 \in 1 .. n
        BY <1>4, <2>1
    <3>2. new[k] = old[k] /\ new[k + 1] = old[k + 1]
        BY <1>2, <3>1
    <3>3. k + 2 <= n => new[k + 2] = old[k + 2] /\ k + 2 <= Len(new)
        BY <1>2, <1>4
    <3> QED BY <1>3, <3>1, <3>2, <3>3
  <2>2. CASE k = n /\ g = 1
    <3>1. start > e /\ new[n] = e /\ new[n + 1] = Missing
        BY <1>2, <1>3, <1>4, <1>g, <2>2
    <3>2. new[n + g + 1] = start + 1
        BY <1>2
    <3>3. n + 2 <= Len(new) /\ n + g + 1 = n + 2
        BY <1>2, <1>4, <2>2
    <3> QED BY <1>4, <2>2, <3>1, <3>2, <3>3
  <2>3. CASE k = n /\ g = 0
    <3>1. start = e /\ new[n] = e
        BY <1>2, <1>3, <1>4, <1>g, <2>3
    <3>2. new[n + 0 + 1] = start + 1
        BY <1>2, <2>3
    <3> QED BY <1>0, <1>4, <2>3, <3>1, <3>2
  <2>4. CASE k = n + 1 /\ g = 1
    <3>1. start > e /\ new[n + 1] = Missing
        BY <1>2, <1>g, <2>4
    <3>2. new[n + 1 + 1] = start + 1
        BY <1>2, <2>4
    <3> QED BY <1>0, <1>4, <2>4, <3>1, <3>2
  <2>5. CASE k > n + g
    <3> DEFINE j == k - (n + g)
    <3>1. j \in 1 .. len /\ j + 1 \in 1 .. len
        BY <1>2, <1>4, <2>5
    <3>2. new[n + g + j] = start + j /\ new[n + g + (j + 1)] = start + (j + 1)
        BY <1>2, <3>1
    <3>3. n + g + j = k /\ n + g + (j + 1) = k + 1
        BY <1>4
    <3> HIDE DEF j
    <3> QED BY <1>0, <3>1, <3>2, <3>3
  <2> QED BY <1>4, <2>1, <2>2, <2>3, <2>4, <2>5
<1>6. new[Len(new)] = start + len
    BY <1>2
<1> QED BY <1>5, <1>6 DEF InOrder, Last, new, gap

LEMMA InitPageInv == Init => PageInv
<1> SUFFICES ASSUME Init PROVE PageInv
    OBVIOUS
<1>1. chain = Loaded /\ \A i \in Chains : chain[i] \in {Timer, None}
    BY DEF Init, Loaded
<1>2. \A i \in Chains : chain[i].state \in {"timer", "none"}
    BY <1>1 DEF Timer, None
<1>3. PageTypes
  <2>1. resets \in 0 .. MaxResets
      BY RingAssumption DEF Init, RingAssumption
  <2>2. chain \in [Chains -> ChainStates]
      BY <1>1 DEF Loaded, ChainStates
  <2> QED BY <2>1, <2>2 DEF Init, PageTypes
<1>4. Current
  <2>1. textEnd <= Len(written)
      BY DEF Init
  <2> QED BY <1>2, <2>1 DEF Current, UnderWay
<1>5. Shows
    BY DEF Init, Shows, InOrder, Last
<1> QED BY <1>3, <1>4, <1>5, InitRingInv DEF PageInv

\* Writing adds characters after everything a page asked for or was answered.
LEMMA GrowInv ==
    ASSUME PageInv, UNCHANGED <<page, chain, shows, resets, flaw>>,
           RingInv', Len(written) <= Len(written)'
    PROVE  PageInv'
<1>1. Len(written) \in Nat /\ Len(written)' \in Nat /\ textEnd \in Nat
    BY LenProperties DEF PageInv, RingInv, PageTypes
<1>2. PageTypes' /\ Shows'
    BY DEF PageInv, PageTypes, Shows, shows
<1>3. Current'
  <2> SUFFICES ASSUME flaw \cap {"reset", "overlap"} = {} PROVE Current'
      BY DEF Current
  <2>1. Current /\ textEnd' = textEnd /\ chain' = chain /\ UnderWay' = UnderWay
      BY DEF PageInv, shows, UnderWay
  <2>2. ASSUME NEW i \in Chains, chain[i].state = "answered"
        PROVE  Continues(chain[i].answer)'
    <3>1. Continues(chain[i].answer)
        BY <2>1, <2>2 DEF Current
    <3>2. chain[i].answer.start \in Nat /\ chain[i].answer.len \in Nat
        BY <2>2 DEF PageInv, PageTypes, ChainStates, None, Timer
    <3> QED BY <1>1, <2>1, <3>1, <3>2 DEF Continues
  <2> QED BY <1>1, <2>1, <2>2 DEF Current
<1> QED BY <1>2, <1>3 DEF PageInv

\* Only chain i changes, to a state c that is not under way.
LEMMA DoneInv ==
    ASSUME PageInv, NEW i \in Chains, NEW c \in {Timer, None}, SetChain(i, c),
           UNCHANGED <<page, ring, shows, written, resets, flaw>>
    PROVE  PageInv'
<1>1. c.state \notin {"asked", "answered"} /\ c \in ChainStates
    BY DEF Timer, None, ChainStates
<1>2. /\ chain' = [chain EXCEPT ![i] = c] /\ chain \in [Chains -> ChainStates]
      /\ textEnd' = textEnd /\ shown' = shown /\ written' = written /\ flaw' = flaw
    BY DEF SetChain, PageInv, PageTypes, shows
<1>3. PageTypes' /\ Shows' /\ RingInv'
    BY <1>1, <1>2 DEF PageInv, PageTypes, Shows, RingInv, Ring, ring
<1>4. Current'
  <2> SUFFICES ASSUME flaw \cap {"reset", "overlap"} = {} PROVE Current'
      BY <1>2 DEF Current
  <2>1. UnderWay' \subseteq UnderWay
      BY <1>1, <1>2 DEF UnderWay
  <2>2. \A j \in Chains : chain'[j].state \in {"asked", "answered"} => chain'[j] = chain[j]
      BY <1>1, <1>2
  <2> QED BY <1>2, <2>1, <2>2 DEF PageInv, Current, Continues
<1> QED BY <1>3, <1>4 DEF PageInv

LEMMA AskInv ==
    ASSUME PageInv, NEW i \in Chains, Ask(i)
    PROVE  PageInv'
<1>1. /\ chain' = [chain EXCEPT ![i] = Asked(textEnd)] /\ chain \in [Chains -> ChainStates]
      /\ textEnd' = textEnd /\ shown' = shown /\ written' = written
    BY DEF Ask, SetChain, PageInv, PageTypes, shows
<1>2. Asked(textEnd) \in ChainStates /\ Asked(textEnd).state = "asked"
      /\ Asked(textEnd).start = textEnd
    BY DEF PageInv, PageTypes, Asked, ChainStates
<1>3. PageTypes' /\ Shows' /\ RingInv'
  <2>1. flaw' = flaw \/ flaw' = flaw \cup {"overlap"}
      BY DEF Ask
  <2> QED BY <1>1, <1>2, <2>1
          DEF Ask, PageInv, PageTypes, Shows, RingInv, Ring, ring
<1>4. Current'
  <2> SUFFICES ASSUME flaw' \cap {"reset", "overlap"} = {} PROVE Current'
      BY DEF Current
  <2>1. UnderWay = {} /\ flaw' = flaw
      BY DEF Ask
  <2>2. \A j \in Chains : chain[j].state \notin {"asked", "answered"}
      BY <2>1 DEF UnderWay
  <2>3. \A j \in Chains : j # i => chain'[j].state \notin {"asked", "answered"}
      BY <1>1, <2>2
  <2>4. chain'[i] = Asked(textEnd)
      BY <1>1
  <2> QED BY <1>1, <1>2, <2>1, <2>3, <2>4 DEF PageInv, Current, UnderWay
<1> QED BY <1>3, <1>4 DEF PageInv

\* The answer goes on where the page is.
LEMMA AnswerInv ==
    ASSUME PageInv, NEW i \in Chains, ajaxText(i)
    PROVE  PageInv'
<1> DEFINE a == Answer(Ring, chain[i].start)
<1>0. chain[i].state = "asked" /\ chain[i].start \in Nat
    BY DEF ajaxText, PageInv, PageTypes, ChainStates, None, Timer
<1>1. /\ chain' = [chain EXCEPT ![i] = Answered(a)] /\ chain \in [Chains -> ChainStates]
      /\ textEnd' = textEnd /\ shown' = shown /\ written' = written /\ flaw' = flaw
    BY DEF ajaxText, SetChain, PageInv, PageTypes, shows
<1>2. /\ a \in [len : Nat, start : Nat, text : Seq(Char)]
      /\ chain[i].start <= Len(written) => chain[i].start <= a.start
      /\ a.start + a.len = Len(written)
      /\ Len(a.text) <= a.len
      /\ \A k \in 1 .. Len(a.text) : a.text[k].n = a.start + k
    BY <1>0, AnswerFacts DEF PageInv
<1> HIDE DEF a
<1>3. /\ Answered(a) \in ChainStates /\ Answered(a).state = "answered"
      /\ Answered(a).answer = a
    BY <1>2 DEF Answered, ChainStates
<1>4. PageTypes' /\ Shows' /\ RingInv'
    BY <1>1, <1>3 DEF ajaxText, PageInv, PageTypes, Shows, RingInv, Ring, ring
<1>5. Current'
  <2> SUFFICES ASSUME flaw \cap {"reset", "overlap"} = {} PROVE Current'
      BY <1>1 DEF Current
  <2>1. Current /\ textEnd <= Len(written) /\ chain[i].start = textEnd
      BY <1>0 DEF PageInv, Current
  <2>2. UnderWay' = UnderWay
      BY <1>0, <1>1, <1>3 DEF UnderWay
  <2>3. Continues(chain[i].answer)'
    <3>1. Len(written) \in Nat
        BY LenProperties DEF PageInv, RingInv
    <3>2. (chain[i].answer)' = a
        BY <1>1, <1>3
    <3> QED BY <1>1, <1>2, <2>1, <3>1, <3>2 DEF Continues
  <2>4. \A j \in Chains : j # i => chain'[j] = chain[j]
      BY <1>1
  <2>5. chain'[i] = Answered(a)
      BY <1>1
  <2>6. \A j \in Chains : j # i => chain[j].state \notin {"asked", "answered"}
      BY <1>0, <2>1 DEF Current, UnderWay
  <2>7. \A j \in Chains : chain'[j].state # "asked"
      BY <1>3, <2>4, <2>5, <2>6
  <2>8. \A j \in Chains : chain'[j].state = "answered" => Continues(chain[j].answer)'
    <3>1. \A j \in Chains : chain'[j].state = "answered" => j = i
        BY <2>4, <2>6
    <3> QED BY <2>3, <3>1
  <2> QED BY <1>1, <2>1, <2>2, <2>7, <2>8 DEF Current
<1> QED BY <1>4, <1>5 DEF PageInv

\* The page shows an answer, which nothing else is under way to overtake.
LEMMA ReceiveInv ==
    ASSUME PageInv, NEW i \in Chains, Receive(i)
    PROVE  PageInv'
<1> DEFINE a == chain[i].answer
           c == IF Repeat THEN Timer ELSE None
           more == [k \in 1 .. Len(a.text) |-> a.text[k].n]
           gap == IF a.start > textEnd THEN <<Missing>> ELSE <<>>
<1>0. /\ chain[i].state = "answered"
      /\ a \in [len : Nat, start : Nat, text : Seq(Char)]
    BY DEF Receive, PageInv, PageTypes, ChainStates, None, Timer
<1>1. /\ chain' = [chain EXCEPT ![i] = c] /\ chain \in [Chains -> ChainStates]
      /\ c \in {Timer, None} /\ updateText(a)
      /\ UNCHANGED <<page, ring, written, resets>>
    BY DEF Receive, SetChain, PageInv, PageTypes
<1> HIDE DEF a, c
<1>2. CASE a.len = 0
  <2>1. UNCHANGED shows /\ flaw' = flaw
      BY <1>1, <1>2 DEF updateText, shows
  <2> QED BY <1>1, <2>1, DoneInv DEF SetChain
<1>3. CASE a.len # 0
  <2>1. /\ a.len \in Nat \ {0} /\ a.start \in Nat /\ a.text \in Seq(Char)
        /\ textEnd \in Nat /\ shown \in Seq(Nat \cup {Missing})
      BY <1>0, <1>3 DEF PageInv, PageTypes
  <2>2. /\ shown' = shown \o gap \o more
        /\ textEnd' = a.start + a.len
        /\ flaw' = IF Len(a.text) < a.len THEN flaw \cup {"cut"} ELSE flaw
    <3>1. a.len > 0 /\ updateText(a)
        BY <1>1, <2>1
    <3> QED BY <3>1, Zenon DEF updateText, TextEnd
  <2>3. more \in Seq(Nat) /\ Len(more) = Len(a.text) /\ Len(a.text) \in Nat
    <3>1. Len(a.text) \in Nat /\ \A k \in 1 .. Len(a.text) : a.text[k] \in Char
        BY <2>1, LenProperties, ElementOfSeq
    <3>2. \A k \in 1 .. Len(a.text) : a.text[k].n \in Nat
        BY <3>1 DEF Char
    <3> QED BY <3>1, <3>2
  <2>4. c.state \notin {"asked", "answered"} /\ c \in ChainStates
      BY <1>1 DEF Timer, None, ChainStates
  <2>5. PageTypes'
    <3>1. gap \in Seq(Nat \cup {Missing}) /\ more \in Seq(Nat \cup {Missing})
      <4>1. CASE a.start > textEnd
          BY <2>3, <4>1
      <4>2. CASE ~(a.start > textEnd)
          BY <2>3, <4>2
      <4> QED BY <4>1, <4>2
    <3> HIDE DEF gap, more
    <3>2. shown' \in Seq(Nat \cup {Missing})
      <4>1. shown \o gap \in Seq(Nat \cup {Missing})
          BY <2>1, <3>1, ConcatProperties
      <4> QED BY <2>2, <3>1, <4>1, ConcatProperties
    <3> QED BY <1>1, <2>1, <2>2, <2>4, <3>2 DEF PageInv, PageTypes
  <2>6. flaw \cap {"reset", "overlap"} = {} =>
            /\ Continues(a)
            /\ \A j \in Chains : j # i => chain[j].state \notin {"asked", "answered"}
      BY <1>0 DEF PageInv, Current, UnderWay, a
  <2>7. Current'
    <3> SUFFICES ASSUME flaw' \cap {"reset", "overlap"} = {} PROVE Current'
        BY DEF Current
    <3>1. flaw \cap {"reset", "overlap"} = {}
        BY <2>2
    <3>2. \A j \in Chains : chain'[j].state \notin {"asked", "answered"}
        BY <1>1, <2>4, <2>6, <3>1
    <3>3. textEnd' <= Len(written)'
        BY <1>1, <2>2, <2>6, <3>1 DEF Continues
    <3> QED BY <3>2, <3>3 DEF Current, UnderWay
  <2>8. Shows'
    <3> SUFFICES ASSUME flaw' = {} PROVE InOrder(shown, textEnd)'
        BY DEF Shows
    <3>1. flaw = {} /\ ~(Len(a.text) < a.len)
        BY <2>2
    <3>2. Continues(a) /\ InOrder(shown, textEnd)
        BY <2>6, <3>1 DEF PageInv, Shows
    <3>3. Len(more) = a.len /\ \A k \in 1 .. a.len : more[k] = a.start + k
        BY <2>1, <2>3, <3>1, <3>2 DEF Continues
    <3>4. textEnd <= a.start
        BY <3>2 DEF Continues
    <3> HIDE DEF more
    <3>5. InOrder(shown \o gap \o more, a.start + a.len)
        BY <2>1, <2>3, <3>2, <3>3, <3>4, ExtendOrder
    <3> HIDE DEF gap
    <3> QED BY <2>2, <3>5 DEF InOrder
  <2>9. RingInv'
      BY <1>1 DEF PageInv, RingInv, Ring, ring
  <2> QED BY <2>5, <2>7, <2>8, <2>9 DEF PageInv
<1> QED BY <1>2, <1>3

LEMMA NextPageInv == PageInv /\ [Next]_vars => PageInv'
<1> SUFFICES ASSUME PageInv, [Next]_vars PROVE PageInv'
    OBVIOUS
<1>0. RingInv'
    BY NextRingInv DEF PageInv
<1>1. ASSUME NEW s \in Seq(Kinds), NEW t \in Seq(Kinds)
      PROVE  Len(s) <= Len(s \o t)
    OBVIOUS
<1>2. CASE ConsoleWriteChar \/ LogWriteChar
  <2>1. Len(written) <= Len(written)'
    <3>1. written \in Seq(Kinds)
        BY DEF PageInv, RingInv
    <3>2. CASE \E kind \in Kinds : WriteOne(kind)
      <4>1. PICK kind \in Kinds : written' = Append(written, kind)
          BY <3>2 DEF WriteOne
      <4> QED BY <3>1, <4>1, AppendFacts, LenProperties
    <3>3. CASE WriteNewline
      <4>1. <<"control", "control">> \in Seq(Kinds)
          BY DEF Kinds
      <4> QED BY <1>1, <3>1, <3>3, <4>1 DEF WriteNewline
    <3>4. LogText \subseteq Kinds /\ {"plain", "control"} \subseteq Kinds
        BY RingAssumption DEF RingAssumption, Kinds
    <3> QED BY <1>2, <3>2, <3>3, <3>4 DEF ConsoleWriteChar, LogWriteChar
  <2> QED BY <1>0, <1>2, <2>1, GrowInv DEF ConsoleWriteChar, LogWriteChar
<1>3. CASE ajaxConsoleReset
  <2>1. "reset" \in flaw'
      BY <1>3 DEF ajaxConsoleReset
  <2>2. Current' /\ Shows'
      BY <2>1 DEF Current, Shows
  <2>3. PageTypes'
    <3>1. MaxResets \in Nat
        BY RingAssumption DEF RingAssumption
    <3> QED BY <1>3, <3>1 DEF ajaxConsoleReset, PageInv, PageTypes, shows
  <2> QED BY <1>0, <2>2, <2>3 DEF PageInv
<1>4. ASSUME NEW i \in Chains, Ask(i) \/ ajaxText(i) \/ Receive(i)
      PROVE  PageInv'
    BY <1>4, AskInv, AnswerInv, ReceiveInv
<1>5. ASSUME NEW i \in Chains, Fail(i)
      PROVE  PageInv'
    BY <1>5, DoneInv DEF Fail, Retry
<1>6. CASE Refresh
    BY <1>6, DoneInv DEF Refresh
<1>7. CASE Load
  <2>1. \A i \in Chains : chain'[i] \in {Timer, None}
      BY <1>7 DEF Load, Loaded
  <2>2. \A i \in Chains : chain'[i].state \notin {"asked", "answered"}
      BY <2>1 DEF Timer, None
  <2>3. PageTypes'
    <3>1. chain' \in [Chains -> ChainStates]
        BY <1>7 DEF Load, Loaded, ChainStates
    <3> QED BY <1>7, <3>1 DEF Load, PageInv, PageTypes
  <2>4. Current'
    <3>1. textEnd' = 0 /\ Len(written)' \in Nat
        BY <1>0, <1>7, LenProperties DEF Load, RingInv
    <3> QED BY <2>2, <3>1 DEF Current, UnderWay
  <2>5. Shows'
      BY <1>7 DEF Load, Shows, InOrder, Last
  <2> QED BY <1>0, <2>3, <2>4, <2>5 DEF PageInv
<1>8. CASE UNCHANGED vars
  <2>1. PageTypes' /\ Shows' /\ Current'
      BY <1>8 DEF vars, shows, PageInv, PageTypes, Shows, Current, Continues, UnderWay
  <2> QED BY <1>0, <2>1 DEF PageInv
<1> QED BY <1>2, <1>3, <1>4, <1>5, <1>6, <1>7, <1>8 DEF Next, Write

LEMMA PageInvariant == Spec => []PageInv
    BY InitPageInv, NextPageInv, PTL DEF Spec

\* The variables of the ring, of the page and of what is under way between them
\* have their types: an answer of ajaxConsole or ajaxLog never has a negative
\* length or start, wherever the page asked it to begin.
THEOREM TextTypeCorrect == Spec => []TypeOK
<1>1. PageInv => TypeOK
    BY RingTypes DEF PageInv, PageTypes, TypeOK
<1> QED BY <1>1, PageInvariant, PTL

\* A page that asks one question at a time and gets whole answers shows every
\* character once and in order and marks every gap, for every size of the ring,
\* however much is written between its questions and whatever requests fail.
THEOREM TextIsShownInOrder == Spec => []ShownInOrder
<1>1. PageInv => ShownInOrder
  <2> SUFFICES ASSUME PageInv, flaw = {} PROVE ShownInOrder
      BY DEF ShownInOrder
  <2>1. InOrder(shown, textEnd) /\ textEnd <= Len(written)
      BY DEF PageInv, Shows, Current
  <2> QED BY <2>1 DEF InOrder, ShownInOrder
<1> QED BY <1>1, PageInvariant, PTL

-----------------------------------------------------------------------------
LEMMA NextResponseFits == PageInv /\ ResponseFits /\ [Next]_vars => ResponseFits'
<1> SUFFICES ASSUME PageInv, ResponseFits, [Next]_vars, NEW j \in Chains,
                    chain'[j].state = "answered"
             PROVE  TextWidth(chain'[j].answer.text) + 3 <= RESP_SIZE
    BY DEF ResponseFits
<1>1. chain \in [Chains -> ChainStates]
    BY DEF PageInv, PageTypes
<1>2. CASE chain'[j] = chain[j]
    BY <1>2 DEF ResponseFits
<1>3. ASSUME NEW i \in Chains, NEW s, s.state # "answered", SetChain(i, s)
      PROVE  chain'[j] = chain[j]
    BY <1>1, <1>3 DEF SetChain
<1>4. CASE \E i \in Chains : ajaxText(i)
  <2>1. PICK i \in Chains : ajaxText(i)
      BY <1>4
  <2>2. CASE i = j
    <3>1. chain[i].start \in Nat
        BY <1>1, <2>1 DEF ajaxText, ChainStates, None, Timer
    <3>2. chain'[j] = Answered(Answer(Ring, chain[i].start))
        BY <1>1, <2>1, <2>2 DEF ajaxText, SetChain
    <3>3. chain'[j].answer = Answer(Ring, chain[i].start)
        BY <3>2 DEF Answered
    <3> QED BY <3>1, <3>3, AnswerFacts DEF PageInv
  <2>3. CASE i # j
      BY <1>1, <1>2, <2>1, <2>3 DEF ajaxText, SetChain
  <2> QED BY <2>2, <2>3
<1>5. CASE \E i \in Chains : Ask(i) \/ Receive(i) \/ Fail(i)
    BY <1>2, <1>3, <1>5 DEF Ask, Receive, Fail, Asked, Timer, None, Retry
<1>6. CASE Refresh
    BY <1>2, <1>3, <1>6 DEF Refresh, Timer
<1>7. CASE Load
    BY <1>7 DEF Load, Loaded, Timer, None
<1>8. CASE Write \/ UNCHANGED vars
    BY <1>2, <1>8 DEF Write, ConsoleWriteChar, LogWriteChar, ajaxConsoleReset, vars
<1> QED BY <1>4, <1>5, <1>6, <1>7, <1>8 DEF Next

\* ajaxConsole and ajaxLog never write past their 2048 bytes: the answer ends
\* within them, for every buffer of more than 8 bytes, every ring and every text.
THEOREM AnswerFitsItsBuffer == Spec => []ResponseFits
<1>1. Init => PageInv /\ ResponseFits
  <2>1. Init => ResponseFits
      BY DEF Init, Loaded, ResponseFits, Timer, None
  <2> QED BY <2>1, InitPageInv
<1>2. PageInv /\ ResponseFits /\ [Next]_vars => (PageInv /\ ResponseFits)'
    BY NextPageInv, NextResponseFits
<1> QED BY <1>1, <1>2, PTL DEF Spec
=============================================================================
