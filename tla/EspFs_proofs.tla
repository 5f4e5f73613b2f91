----------------------------- MODULE EspFs_proofs -----------------------------
(***************************************************************************)
(* Theorems about EspFs, for any files, names, number of handles and       *)
(* address: the image implements the store of FileStore, and a search of   *)
(* espFsOpen only moves forward.                                           *)
(*                                                                         *)
(* The argument is where things lie.  The entries of the image follow one  *)
(* another at aligned offsets (Chain) and hold what handleFile wrote       *)
(* (Image); the walk of espFsOpen only ever stands at the start of an      *)
(* entry or at the end, past entries of other names (WalkInv); and an open *)
(* handle points into the data of one entry (HandleInv).                   *)
(***************************************************************************)
EXTENDS EspFs, SequenceTheorems, WellFoundedInduction, TLAPS

Entry == [name : Seq(STRING), raw : Contents, gzip : BOOLEAN,
          data : Seq(STRING), at : Nat]

\* Where the entries end, and where the i-th begins.
End == IF sealed THEN size - HDR ELSE size
StartOf(i) == IF i \in 1 .. Len(archive) THEN archive[i].at ELSE End

Types ==
    /\ archive \in Seq(Entry) /\ size \in Nat /\ sealed \in BOOLEAN
    /\ DOMAIN img = 0 .. size - 1
    /\ espFsData \in Addresses \cup {NULL}
    /\ walk \in Walk \cup {NULL}
    /\ file \in [Handles -> EspFsFile \cup {NULL}]

Chain ==
    /\ End \in Nat
    /\ StartOf(1) = 0
    /\ \A i \in 1 .. Len(archive) : StartOf(i + 1) = archive[i].at + Size(archive[i])
    /\ \A i \in 1 .. Len(archive) + 1 : StartOf(i) \in 0 .. End /\ StartOf(i) % ALIGN = 0

Image ==
    /\ \A i \in 1 .. Len(archive) : \A k \in 0 .. Size(archive[i]) - 1 :
           img[archive[i].at + k] = Written(archive[i], k)
    /\ sealed => img[End] = LastHeader(0)

\* What is stored is the file or its compressed form, whichever the flag says.
Forms == \A i \in 1 .. Len(archive) :
    /\ archive[i].data = IF archive[i].gzip THEN compressGzip[archive[i].raw]
                         ELSE archive[i].raw
    /\ Len(archive[i].data) <= Len(archive[i].raw)

MountInv == espFsData # NULL => sealed /\ espFsData % ALIGN = 0

\* No entry before the i-th has the name n.
NoneBefore(i, n) == \A j \in 1 .. i - 1 : archive[j].name # n

WalkInv ==
    walk # NULL =>
        /\ sealed
        /\ IF espFsData = NULL THEN walk.p = NULL
           ELSE \E i \in 1 .. Len(archive) + 1 :
                    walk.p = espFsData + StartOf(i) /\ NoneBefore(i, walk.name)

\* Handle r is one of the i-th entry.
OfEntry(r, i) ==
    /\ r.header = espFsData + archive[i].at
    /\ r.posStart = r.header + DataAt(archive[i])
    /\ r.posComp \in r.posStart .. r.posStart + Len(archive[i].data)

HandleInv ==
    \A h \in Handles : file[h] # NULL =>
        espFsData # NULL /\ \E i \in 1 .. Len(archive) : OfEntry(file[h], i)

IInv == Types /\ Chain /\ Image /\ Forms /\ MountInv /\ WalkInv /\ HandleInv

-----------------------------------------------------------------------------
(***************************************************************************)
(* Sizes and names.                                                        *)
(***************************************************************************)
LEMMA ModSum ==
  ASSUME NEW a \in Nat, NEW b \in Nat, a % ALIGN = 0, b % ALIGN = 0
  PROVE  (a + b) % ALIGN = 0
  BY DEF ALIGN

LEMMA RoundFacts ==
  ASSUME NEW n \in Nat
  PROVE  /\ Round(n) \in Nat /\ Round(n) >= n /\ Round(n) % ALIGN = 0
         /\ \A a \in Nat : a % ALIGN = 0 => Round(a + n) = a + Round(n)
  BY DEF Round, ALIGN

\* An entry has room for its header, its name and its data, and is aligned.
LEMMA SizeFacts ==
  ASSUME NEW f, f.name \in Seq(STRING), f.data \in Seq(STRING)
  PROVE  /\ DataAt(f) \in Nat /\ DataAt(f) > HDR
         /\ DataAt(f) = HDR + Round(NameLen(f.name))
         /\ Size(f) \in Nat /\ Size(f) % ALIGN = 0
         /\ Size(f) >= DataAt(f) + Len(f.data)
         /\ \A a \in Nat : a % ALIGN = 0 =>
                Round(a + DataAt(f) + Len(f.data)) = a + Size(f)
<1>1. PICK m \in Nat \ {0} : m = NameLen(f.name)
  BY DEF NameLen
<1>2. PICK d \in Nat : d = Len(f.data)
  OBVIOUS
<1>3. PICK rm \in Nat : rm = Round(m) /\ rm >= m /\ rm % ALIGN = 0
  BY RoundFacts
<1>4. PICK rd \in Nat : rd = Round(d) /\ rd >= d /\ rd % ALIGN = 0
  BY RoundFacts
<1>5. HDR \in Nat \ {0} /\ HDR % ALIGN = 0
  BY EspFsAssumption
<1>6. PICK at \in Nat : at = HDR + rm /\ at % ALIGN = 0
  BY <1>3, <1>5, ModSum
<1>7. DataAt(f) = at
  BY <1>1, <1>3, <1>6 DEF DataAt
<1>8. Size(f) = at + rd /\ (at + rd) % ALIGN = 0
  BY <1>2, <1>4, <1>6, <1>7, ModSum DEF Size
<1>9. ASSUME NEW a \in Nat, a % ALIGN = 0
      PROVE  Round(a + at + d) = a + (at + rd)
  <2>1. PICK c \in Nat : c = a + at
    OBVIOUS
  <2>2. c % ALIGN = 0
    BY <1>6, <1>9, <2>1, ModSum
  <2>3. Round(c + d) = c + rd
    BY <1>4, <2>2, RoundFacts
  <2> QED BY <2>1, <2>3
<1>10. at > HDR /\ at + rd >= at + d /\ at + rd \in Nat
  <2>1. rm >= m /\ rd >= d /\ at = HDR + rm /\ HDR \in Nat
    BY <1>3, <1>4, <1>5, <1>6
  <2> QED BY <2>1
<1>11. DataAt(f) = HDR + Round(NameLen(f.name))
  BY DEF DataAt
<1> HIDE DEF ALIGN
<1>12. \A a \in Nat : a % ALIGN = 0 =>
          Round(a + DataAt(f) + Len(f.data)) = a + Size(f)
  BY <1>2, <1>7, <1>8, <1>9
<1> QED BY <1>2, <1>6, <1>7, <1>8, <1>10, <1>11, <1>12

\* What lies where in an entry.
LEMMA WrittenFacts ==
  ASSUME NEW f, f.name \in Seq(STRING), f.data \in Seq(STRING)
  PROVE  /\ Written(f, 0) = Header(FALSE, f.gzip, Round(NameLen(f.name)), Len(f.data))
         /\ Written(f, HDR) = Cell("name", f.name)
         /\ \A k \in 1 .. Len(f.data) :
                Written(f, DataAt(f) + k - 1) = Cell("data", f.data[k])
<1>1. DataAt(f) \in Nat /\ DataAt(f) > HDR /\ HDR \in Nat \ {0}
  BY SizeFacts, EspFsAssumption
<1>2. ASSUME NEW k \in 1 .. Len(f.data)
      PROVE  Written(f, DataAt(f) + k - 1) = Cell("data", f.data[k])
  <2>1. PICK a : a = DataAt(f) + k - 1
    OBVIOUS
  <2>2. a # 0 /\ a # HDR /\ a >= DataAt(f) /\ a < DataAt(f) + Len(f.data)
        /\ a - DataAt(f) + 1 = k
    BY <1>1, <2>1
  <2>3. Written(f, a) = Cell("data", f.data[a - DataAt(f) + 1])
    BY <2>2 DEF Written
  <2> QED BY <2>1, <2>2, <2>3
<1>3. 0 # HDR /\ ~(0 >= DataAt(f)) /\ ~(HDR >= DataAt(f))
  BY <1>1
<1>4. Written(f, 0) = Header(FALSE, f.gzip, Round(NameLen(f.name)), Len(f.data))
  BY <1>3, Zenon DEF Written
<1>5. Written(f, HDR) = Cell("name", f.name)
  BY <1>3, Zenon DEF Written
<1> QED BY <1>2, <1>4, <1>5

\* Every non-empty set of numbers has a least one.
LEMMA Least ==
  ASSUME NEW T \in SUBSET Nat, T # {}
  PROVE  \E x \in T : \A y \in T : x <= y
<1> DEFINE R == OpToRel(<, Nat)
<1>1. IsWellFoundedOn(R, Nat)
  BY NatLessThanWellFounded
<1>2. \A x \in Nat, y \in Nat : x < y => <<x, y>> \in R
  BY DEF OpToRel
<1> HIDE DEF R
<1>3. PICK x \in T : \A y \in T : ~ (<<y, x>> \in R)
  BY <1>1, WFMin
<1>4. ASSUME NEW y \in T PROVE x <= y
  <2>1. x \in Nat /\ y \in Nat
    OBVIOUS
  <2>2. ~ (y < x)
    BY <2>1, <1>2, <1>3
  <2> QED BY <2>1, <2>2
<1> QED BY <1>4

\* The names of both sides are names.
LEMMA NameFacts ==
  /\ \A line \in Lines : RealName(line) \in Seq(STRING)
  /\ \A url \in Urls : Stripped(url) \in Seq(STRING)
<1>1. ASSUME NEW line \in Lines PROVE RealName(line) \in Seq(STRING)
  <2>1. line \in Seq(STRING)
    BY EspFsAssumption
  <2>2. \A s \in Seq(STRING) : s # <<>> => Tail(s) \in Seq(STRING)
    BY HeadTailProperties
  <2> QED BY <2>1, <2>2 DEF RealName
<1>2. ASSUME NEW url \in Urls PROVE Stripped(url) \in Seq(STRING)
  <2> DEFINE stops == {i \in 1 .. Len(url) + 1 : i = Len(url) + 1 \/ url[i] # "/"}
             first == CHOOSE i \in stops : \A j \in stops : i <= j
  <2>1. url \in Seq(STRING) /\ Len(url) \in Nat
    BY EspFsAssumption
  <2>2. stops \in SUBSET Nat /\ Len(url) + 1 \in stops
    BY <2>1
  <2> HIDE DEF stops
  <2>3. first \in stops
    BY <2>2, Least
  <2>4. first \in 1 .. Len(url) + 1
    BY <2>3 DEF stops
  <2> HIDE DEF first
  <2>5. \A i \in first .. Len(url) : url[i] \in STRING
    BY <2>1, <2>4
  <2>6. SubSeq(url, first, Len(url)) \in Seq(STRING)
    BY <2>1, <2>4, <2>5, SubSeqProperties
  <2> QED BY <2>6 DEF Stripped, first, stops
<1> QED BY <1>1, <1>2

-----------------------------------------------------------------------------
(***************************************************************************)
(* Reading the image.                                                      *)
(***************************************************************************)
\* The i-th entry, its size, and the start of the next one.
LEMMA EntryFacts ==
  ASSUME Types, Chain, NEW i \in 1 .. Len(archive)
  PROVE  /\ archive[i] \in Entry
         /\ archive[i].name \in Seq(STRING) /\ archive[i].data \in Seq(STRING)
         /\ archive[i].at \in Nat /\ archive[i].at % ALIGN = 0
         /\ StartOf(i) = archive[i].at
         /\ StartOf(i + 1) = archive[i].at + Size(archive[i])
         /\ archive[i].at + Size(archive[i]) <= End
         /\ End <= size
<1>1. archive[i] \in Entry
  BY DEF Types
<1>2. StartOf(i) = archive[i].at /\ StartOf(i) % ALIGN = 0
  BY DEF Chain, StartOf
<1>3. StartOf(i + 1) = archive[i].at + Size(archive[i])
  BY DEF Chain
<1>4. StartOf(i + 1) \in 0 .. End
  BY i + 1 \in 1 .. Len(archive) + 1 DEF Chain, Types
<1>5. End <= size
  BY EspFsAssumption DEF End, Types
<1> QED BY <1>1, <1>2, <1>3, <1>4, <1>5 DEF Entry

\* What the device finds at the cells of the i-th entry, and at the end.
LEMMA Seen ==
  ASSUME Types, Chain, Image, sealed, espFsData \in Nat
  PROVE  /\ \A i \in 1 .. Len(archive) : \A k \in 0 .. Size(archive[i]) - 1 :
                At(espFsData + archive[i].at + k) = Written(archive[i], k)
         /\ At(espFsData + End) = LastHeader(0)
<1>1. ASSUME NEW i \in 1 .. Len(archive), NEW k \in 0 .. Size(archive[i]) - 1
      PROVE  At(espFsData + archive[i].at + k) = Written(archive[i], k)
  <2>1. /\ archive[i].at \in Nat /\ archive[i].at + Size(archive[i]) <= End
        /\ End <= size /\ Size(archive[i]) \in Nat
    BY EntryFacts, SizeFacts
  <2>2. PICK a : a = archive[i].at + k
    OBVIOUS
  <2>3. a \in 0 .. size - 1 /\ (espFsData + archive[i].at + k) - espFsData = a
    <3>1. size \in Nat /\ End \in Nat /\ k \in Nat /\ k < Size(archive[i])
      BY <2>1 DEF Types, Chain
    <3> QED BY <2>1, <2>2, <3>1
  <2>4. img[a] = Written(archive[i], k)
    BY <2>2 DEF Image
  <2> QED BY <2>3, <2>4 DEF At, Mapped
<1>2. At(espFsData + End) = LastHeader(0)
  <2>1. End \in Nat /\ End = size - HDR /\ HDR \in Nat \ {0}
    BY EspFsAssumption DEF End, Chain
  <2>2. End \in 0 .. size - 1 /\ (espFsData + End) - espFsData = End
    BY <2>1 DEF Types
  <2> QED BY <2>2 DEF At, Mapped, Image
<1> QED BY <1>1, <1>2

\* A handle shows what is left of the data of its entry.
LEMMA HandleSees ==
  ASSUME Types, Chain, Image, sealed, espFsData \in Nat,
         NEW r \in EspFsFile, NEW i \in 1 .. Len(archive), OfEntry(r, i),
         NEW n \in Nat, r.posComp + n <= r.posStart + Len(archive[i].data)
  PROVE  /\ At(r.header).val.gzip = archive[i].gzip
         /\ At(r.header).val.fileLenComp = Len(archive[i].data)
         /\ Bytes(r.posComp, n) =
                [k \in 1 .. n |-> archive[i].data[r.posComp - r.posStart + k]]
<1> DEFINE e == archive[i]
<1>1. e.name \in Seq(STRING) /\ e.data \in Seq(STRING) /\ e.at \in Nat
  BY EntryFacts
<1>2. /\ DataAt(e) \in Nat /\ Size(e) \in Nat /\ Size(e) >= DataAt(e) + Len(e.data)
      /\ DataAt(e) > HDR /\ HDR \in Nat
  BY <1>1, SizeFacts, EspFsAssumption
<1> HIDE DEF e
<1>a. /\ r.header \in Nat /\ r.posStart \in Nat /\ r.posComp \in Nat
      /\ r.header = espFsData + e.at /\ r.posStart = r.header + DataAt(e)
      /\ r.posComp >= r.posStart
  BY DEF OfEntry, EspFsFile, e
<1>b. \A k \in 0 .. Size(e) - 1 : At(espFsData + e.at + k) = Written(e, k)
  BY Seen DEF e
<1>c. r.posComp + n <= r.posStart + Len(e.data) /\ Len(e.data) \in Nat
  BY <1>1 DEF e
<1>3. At(r.header) = Header(FALSE, e.gzip, Round(NameLen(e.name)), Len(e.data))
  <2>1. At(espFsData + e.at + 0) = Written(e, 0)
    BY <1>2, <1>b
  <2>2. espFsData + e.at + 0 = r.header
    BY <1>1, <1>a
  <2> QED BY <1>1, <2>1, <2>2, WrittenFacts
<1>4. ASSUME NEW k \in 1 .. n
      PROVE  At(r.posComp + k - 1) = Cell("data", e.data[r.posComp - r.posStart + k])
  <2>1. PICK q \in Nat : q = r.posComp - r.posStart + k
    BY <1>a
  <2>2. q \in 1 .. Len(e.data)
    <3>1. PICK ps \in Nat, pc \in Nat, len \in Nat :
             ps = r.posStart /\ pc = r.posComp /\ len = Len(e.data)
      BY <1>a, <1>c
    <3>2. pc >= ps /\ pc + n <= ps + len /\ q = pc - ps + k
      BY <1>a, <1>c, <2>1, <3>1
    <3>3. q \in 1 .. len
      BY <3>2
    <3> QED BY <3>1, <3>3
  <2>3. Written(e, DataAt(e) + q - 1) = Cell("data", e.data[q])
    BY <1>1, <2>2, WrittenFacts
  <2>4. PICK c \in Nat : c = DataAt(e) + q - 1
    BY <1>2, <2>2
  <2>5. c \in 0 .. Size(e) - 1
    BY <1>1, <1>2, <2>2, <2>4
  <2>6. At(espFsData + e.at + c) = Written(e, c)
    BY <2>5, <1>b
  <2>7. espFsData + e.at + c = r.posComp + k - 1
    <3>1. PICK ps \in Nat, pc \in Nat, at \in Nat, skip \in Nat :
             /\ ps = r.posStart /\ pc = r.posComp
             /\ at = e.at /\ skip = DataAt(e)
      BY <1>1, <1>2, <1>a
    <3>2. ps = espFsData + at + skip /\ q = pc - ps + k /\ c = skip + q - 1
      BY <1>a, <2>1, <2>4, <3>1
    <3>3. espFsData + at + c = pc + k - 1
      BY <3>2
    <3> QED BY <3>1, <3>3
  <2> QED BY <2>1, <2>3, <2>4, <2>6, <2>7
<1>5. ASSUME NEW k \in 1 .. n
      PROVE  /\ At(r.posComp + k - 1).is = "data"
             /\ At(r.posComp + k - 1).val = e.data[r.posComp - r.posStart + k]
  <2>1. At(r.posComp + k - 1) = Cell("data", e.data[r.posComp - r.posStart + k])
    BY <1>4
  <2> QED BY <2>1 DEF Cell
<1>6. Bytes(r.posComp, n) = [k \in 1 .. n |-> e.data[r.posComp - r.posStart + k]]
  BY <1>5 DEF Bytes
<1>7. At(r.header).val.gzip = e.gzip /\ At(r.header).val.fileLenComp = Len(e.data)
  BY <1>3 DEF Header, Cell
<1> QED BY <1>6, <1>7 DEF e

\* Where the walk stands: at an entry or at the end.
LEMMA WalkSees ==
  ASSUME Types, Chain, Image, sealed, espFsData \in Nat,
         NEW i \in 1 .. Len(archive) + 1
  PROVE  /\ i = Len(archive) + 1 =>
                At(espFsData + StartOf(i)) = Header(TRUE, FALSE, 0, 0)
         /\ i # Len(archive) + 1 =>
                /\ At(espFsData + StartOf(i)) =
                      Header(FALSE, archive[i].gzip, Round(NameLen(archive[i].name)),
                             Len(archive[i].data))
                /\ At(espFsData + StartOf(i) + HDR) = Cell("name", archive[i].name)
<1>1. CASE i = Len(archive) + 1
  <2>1. StartOf(i) = End
    <3>1. Len(archive) \in Nat
      BY DEF Types
    <3> QED BY <1>1, <3>1 DEF StartOf
  <2>2. LastHeader(0) = Header(TRUE, FALSE, 0, 0)
    BY DEF LastHeader
  <2> QED BY <1>1, <2>1, <2>2, Seen
<1>2. CASE i \in 1 .. Len(archive)
  <2> DEFINE e == archive[i]
  <2>1. e.name \in Seq(STRING) /\ e.data \in Seq(STRING) /\ e.at \in Nat
        /\ StartOf(i) = e.at
    BY <1>2, EntryFacts
  <2>2. DataAt(e) \in Nat /\ Size(e) \in Nat /\ Size(e) >= DataAt(e) + Len(e.data)
        /\ DataAt(e) > HDR /\ HDR \in Nat /\ Len(e.data) \in Nat
    BY <2>1, SizeFacts, EspFsAssumption
  <2>3. 0 \in 0 .. Size(e) - 1 /\ HDR \in 0 .. Size(e) - 1
    BY <2>2
  <2>4. At(espFsData + e.at + 0) = Written(e, 0)
        /\ At(espFsData + e.at + HDR) = Written(e, HDR)
    BY <1>2, <2>3, Seen
  <2>5. espFsData + e.at + 0 = espFsData + e.at
    BY <2>1
  <2>6. Written(e, 0) = Header(FALSE, e.gzip, Round(NameLen(e.name)), Len(e.data))
        /\ Written(e, HDR) = Cell("name", e.name)
    BY <2>1, WrittenFacts
  <2>7. i # Len(archive) + 1
    <3>1. Len(archive) \in Nat
      BY DEF Types
    <3> QED BY <1>2, <3>1
  <2>8. At(espFsData + StartOf(i)) =
           Header(FALSE, archive[i].gzip, Round(NameLen(archive[i].name)),
                  Len(archive[i].data))
    BY <2>1, <2>4, <2>5, <2>6
  <2>9. At(espFsData + StartOf(i) + HDR) = Cell("name", archive[i].name)
    BY <2>1, <2>4, <2>6
  <2> QED BY <2>7, <2>8, <2>9
<1>3. i = Len(archive) + 1 \/ i \in 1 .. Len(archive)
  <2>1. Len(archive) \in Nat
    BY DEF Types
  <2> QED BY <2>1
<1> QED BY <1>1, <1>2, <1>3

-----------------------------------------------------------------------------
(***************************************************************************)
(* The builder keeps the invariant.                                        *)
(***************************************************************************)
\* What is stored of a file is one of its forms, and never the larger one.
LEMMA StoredFacts ==
  ASSUME NEW line \in Lines, NEW raw \in Contents
  PROVE  LET f == Stored(line, raw) IN
         /\ f.name \in Seq(STRING) /\ f.gzip \in BOOLEAN /\ f.data \in Seq(STRING)
         /\ f.data = IF f.gzip THEN compressGzip[raw] ELSE raw
         /\ Len(f.data) <= Len(raw)
<1> DEFINE f == Stored(line, raw)
           z == shouldCompressGzip(RealName(line)) /\ Len(compressGzip[raw]) <= Len(raw)
<1>1. /\ f.name = RealName(line) /\ f.gzip = z
      /\ f.data = IF z THEN compressGzip[raw] ELSE raw
  BY DEF Stored
<1>2. z \in BOOLEAN /\ (z => Len(compressGzip[raw]) <= Len(raw))
  BY DEF shouldCompressGzip
<1>3. /\ raw \in Seq(STRING) /\ compressGzip[raw] \in Seq(STRING)
      /\ RealName(line) \in Seq(STRING) /\ Len(raw) \in Nat
  BY EspFsAssumption, NameFacts
<1> HIDE DEF f, z
<1>4. ASSUME z
      PROVE  /\ f.name \in Seq(STRING) /\ f.gzip \in BOOLEAN /\ f.data \in Seq(STRING)
             /\ f.data = IF f.gzip THEN compressGzip[raw] ELSE raw
             /\ Len(f.data) <= Len(raw)
  <2>1. f.gzip = TRUE /\ f.data = compressGzip[raw]
    BY <1>1, <1>2, <1>4, Zenon
  <2>2. Len(f.data) <= Len(raw)
    BY <1>2, <1>4, <2>1
  <2> QED BY <1>1, <1>3, <2>1, <2>2
<1>5. ASSUME ~z
      PROVE  /\ f.name \in Seq(STRING) /\ f.gzip \in BOOLEAN /\ f.data \in Seq(STRING)
             /\ f.data = IF f.gzip THEN compressGzip[raw] ELSE raw
             /\ Len(f.data) <= Len(raw)
  <2>1. f.gzip = FALSE /\ f.data = raw
    BY <1>1, <1>2, <1>5, Zenon
  <2>2. Len(f.data) <= Len(raw)
    BY <1>3, <2>1
  <2> QED BY <1>1, <1>3, <2>1, <2>2
<1> QED BY <1>4, <1>5 DEF f

LEMMA AppendFacts ==
  ASSUME NEW S, NEW s \in Seq(S), NEW e \in S
  PROVE  /\ Append(s, e) \in Seq(S) /\ Len(Append(s, e)) = Len(s) + 1
         /\ \A i \in 1 .. Len(s) : Append(s, e)[i] = s[i]
         /\ Append(s, e)[Len(s) + 1] = e
  OBVIOUS

\* Nothing is mounted or open while the image is built.
LEMMA Unmounted ==
  ASSUME IInv, ~sealed
  PROVE  espFsData = NULL /\ walk = NULL /\ \A h \in Handles : file[h] = NULL
  BY DEF IInv, MountInv, WalkInv, HandleInv

\* The image after handleFile.
LEMMA Appended ==
  ASSUME IInv, NEW line \in Lines, NEW raw \in Contents, handleFile(line, raw)
  PROVE  \E e \in Entry :
           /\ e.name \in Seq(STRING) /\ e.data \in Seq(STRING) /\ e.raw = raw
           /\ e.at = size /\ size \in Nat
           /\ e.data = IF e.gzip THEN compressGzip[raw] ELSE raw
           /\ Len(e.data) <= Len(raw)
           /\ archive' = Append(archive, e)
           /\ size' = size + Size(e) /\ Size(e) \in Nat
           /\ End = size /\ End' = size'
           /\ DOMAIN img' = 0 .. size' - 1
           /\ \A a \in 0 .. size - 1 : img'[a] = img[a]
           /\ \A k \in 0 .. Size(e) - 1 : img'[size + k] = Written(e, k)
<1> DEFINE f == Stored(line, raw)
           e == [name |-> f.name, raw |-> raw, gzip |-> f.gzip,
                 data |-> f.data, at |-> size]
<1>1. /\ f.name \in Seq(STRING) /\ f.gzip \in BOOLEAN /\ f.data \in Seq(STRING)
      /\ f.data = IF f.gzip THEN compressGzip[raw] ELSE raw
      /\ Len(f.data) <= Len(raw)
  BY StoredFacts
<1>2. size \in Nat /\ ~sealed /\ sealed' = sealed
  BY DEF IInv, Types, handleFile
<1>3. /\ archive' = Append(archive, e) /\ size' = size + Size(f)
      /\ img' = [a \in 0 .. size + Size(f) - 1 |->
                    IF a < size THEN img[a] ELSE Written(f, a - size)]
  <2> DEFINE cells == [k \in 0 .. Size(f) - 1 |-> Written(f, k)]
  <2>1. archive' = Append(archive, e) /\ Write(Size(f), cells)
    BY DEF handleFile
  <2> HIDE DEF f, e
  <2>2. Size(f) \in Nat
    BY <1>1, SizeFacts
  <2>3. ASSUME NEW a \in 0 .. size + Size(f) - 1, ~(a < size)
        PROVE  cells[a - size] = Written(f, a - size)
    <3>1. a - size \in 0 .. Size(f) - 1
      BY <1>2, <2>2, <2>3
    <3> QED BY <3>1
  <2>4. /\ size' = size + Size(f)
        /\ img' = [a \in 0 .. size + Size(f) - 1 |->
                      IF a < size THEN img[a] ELSE cells[a - size]]
    BY <2>1 DEF Write
  <2> HIDE DEF cells
  <2> QED BY <2>1, <2>3, <2>4
<1> HIDE DEF f
<1>4. e \in Entry
  BY <1>1, <1>2 DEF Entry
<1>5. Size(e) = Size(f) /\ \A k : Written(e, k) = Written(f, k)
  BY DEF Size, DataAt, NameLen, Written
<1>6. /\ e.name = f.name /\ e.data = f.data /\ e.raw = raw /\ e.at = size
      /\ e.gzip = f.gzip
  OBVIOUS
<1> HIDE DEF e
<1>7. Size(e) \in Nat
  BY <1>1, <1>6, SizeFacts
<1>8. End = size /\ End' = size'
  BY <1>2 DEF End
<1>9. DOMAIN img' = 0 .. size' - 1
  <2>1. PICK n : n = size + Size(f)
    OBVIOUS
  <2>2. size' = n
    BY <1>3, <2>1
  <2>3. DOMAIN img' = 0 .. size + Size(f) - 1
    BY <1>3
  <2>4. n \in Nat /\ size + Size(f) - 1 = n - 1
    BY <1>2, <1>5, <1>7, <2>1
  <2> QED BY <2>2, <2>3, <2>4
<1>10. ASSUME NEW a \in 0 .. size - 1 PROVE img'[a] = img[a]
  <2>1. a \in 0 .. size + Size(f) - 1 /\ a < size
    BY <1>2, <1>5, <1>7
  <2> QED BY <1>3, <2>1
<1>11. ASSUME NEW k \in 0 .. Size(e) - 1 PROVE img'[size + k] = Written(e, k)
  <2>1. PICK a : a = size + k
    OBVIOUS
  <2>2. a \in 0 .. size + Size(f) - 1 /\ ~(a < size) /\ a - size = k
    BY <1>2, <1>5, <1>7, <2>1
  <2>3. img'[a] = Written(f, a - size)
    BY <1>3, <2>2
  <2> QED BY <1>5, <2>1, <2>2, <2>3
<1>12. size' = size + Size(e)
  BY <1>3, <1>5
<1>13. /\ e.name \in Seq(STRING) /\ e.data \in Seq(STRING)
       /\ e.data = IF e.gzip THEN compressGzip[raw] ELSE raw
       /\ Len(e.data) <= Len(raw)
  BY <1>1, <1>6
<1>14. archive' = Append(archive, e)
  BY <1>3 DEF e
<1> QED BY <1>2, <1>4, <1>6, <1>7, <1>8, <1>9, <1>10, <1>11, <1>12, <1>13, <1>14

LEMMA Building ==
  ASSUME IInv, NEW line \in Lines, NEW raw \in Contents, handleFile(line, raw)
  PROVE  IInv'
<1>1. PICK e \in Entry :
           /\ e.name \in Seq(STRING) /\ e.data \in Seq(STRING) /\ e.raw = raw
           /\ e.at = size /\ size \in Nat
           /\ e.data = IF e.gzip THEN compressGzip[raw] ELSE raw
           /\ Len(e.data) <= Len(raw)
           /\ archive' = Append(archive, e)
           /\ size' = size + Size(e) /\ Size(e) \in Nat
           /\ End = size /\ End' = size'
           /\ DOMAIN img' = 0 .. size' - 1
           /\ \A a \in 0 .. size - 1 : img'[a] = img[a]
           /\ \A k \in 0 .. Size(e) - 1 : img'[size + k] = Written(e, k)
  BY Appended
<1>0. PICK L \in Nat : L = Len(archive)
  BY DEF IInv, Types
<1>2. /\ archive \in Seq(Entry) /\ L \in Nat
      /\ archive' \in Seq(Entry) /\ Len(archive') = L + 1
      /\ \A i \in 1 .. L : archive'[i] = archive[i]
      /\ archive'[L + 1] = e
  BY <1>0, <1>1, AppendFacts DEF IInv, Types
<1>3. ~sealed /\ sealed' = sealed /\ UNCHANGED <<espFsData, walk, file>>
  BY DEF handleFile
<1>4. espFsData = NULL /\ walk = NULL /\ \A h \in Handles : file[h] = NULL
  BY <1>3, Unmounted
<1>a. /\ size \in Nat /\ Size(e) \in Nat /\ size' = size + Size(e)
      /\ e.at = size /\ End = size /\ End' = size'
  BY <1>1
<1>b. L \in Nat /\ Len(archive) = L /\ Len(archive') = L + 1
  BY <1>0, <1>2
<1>5. /\ \A i \in 1 .. L + 1 : StartOf(i)' = StartOf(i)
      /\ StartOf(L + 2)' = size'
  <2>1. ASSUME NEW i \in 1 .. L PROVE StartOf(i)' = StartOf(i)
    <3>1. i \in 1 .. Len(archive) /\ i \in 1 .. Len(archive')
      BY <1>b
    <3> QED BY <1>2, <3>1 DEF StartOf
  <2>2. StartOf(L + 1)' = StartOf(L + 1)
    <3>1. L + 1 \notin 1 .. Len(archive) /\ L + 1 \in 1 .. Len(archive')
      BY <1>b
    <3>2. StartOf(L + 1)' = (archive'[L + 1]).at
      BY <3>1 DEF StartOf
    <3>3. StartOf(L + 1) = End
      BY <3>1 DEF StartOf
    <3> QED BY <1>2, <1>a, <3>2, <3>3
  <2>3. StartOf(L + 2)' = size'
    <3>1. L + 2 \notin 1 .. Len(archive')
      BY <1>b
    <3>2. StartOf(L + 2)' = End'
      BY <3>1 DEF StartOf
    <3> QED BY <1>a, <3>2
  <2>4. ASSUME NEW i \in 1 .. L + 1 PROVE StartOf(i)' = StartOf(i)
    <3>1. i \in 1 .. L \/ i = L + 1
      BY <1>b
    <3> QED BY <2>1, <2>2, <3>1
  <2> QED BY <2>3, <2>4
<1>6. /\ \A i \in 1 .. L + 1 : StartOf(i) \in 0 .. size /\ StartOf(i) % ALIGN = 0
      /\ StartOf(1) = 0
      /\ \A i \in 1 .. L : StartOf(i + 1) = archive[i].at + Size(archive[i])
  BY <1>0, <1>1 DEF IInv, Chain
<1>7. size' \in Nat /\ size <= size' /\ size' % ALIGN = 0
  <2>1. StartOf(L + 1) = size
    BY <1>b, <1>a DEF StartOf
  <2>2. size % ALIGN = 0
    BY <1>2, <1>6, <2>1, L + 1 \in 1 .. L + 1
  <2>3. Size(e) % ALIGN = 0
    BY <1>1, SizeFacts
  <2>4. (size + Size(e)) % ALIGN = 0
    BY <1>1, <2>2, <2>3, ModSum
  <2> QED BY <1>1, <2>4
<1>8. Types'
  BY <1>1, <1>2, <1>3, <1>7 DEF IInv, Types
<1>9. Chain'
  <2>1. \A i \in 1 .. L + 1 : StartOf(i + 1)' = (archive'[i]).at + Size(archive'[i])
    <3>1. ASSUME NEW i \in 1 .. L
          PROVE  StartOf(i + 1)' = (archive'[i]).at + Size(archive'[i])
      BY <1>2, <1>5, <1>6, i + 1 \in 1 .. L + 1
    <3>2. StartOf(L + 2)' = (archive'[L + 1]).at + Size(archive'[L + 1])
      BY <1>1, <1>2, <1>5
    <3>3. ASSUME NEW i \in 1 .. L + 1
          PROVE  StartOf(i + 1)' = (archive'[i]).at + Size(archive'[i])
      <4>1. i \in 1 .. L \/ (i = L + 1 /\ i + 1 = L + 2)
        BY <1>b
      <4> QED BY <3>1, <3>2, <4>1
    <3> QED BY <3>3
  <2>2. \A i \in 1 .. L + 2 : StartOf(i)' \in 0 .. size' /\ StartOf(i)' % ALIGN = 0
    <3>1. ASSUME NEW i \in 1 .. L + 1
          PROVE  StartOf(i)' \in 0 .. size' /\ StartOf(i)' % ALIGN = 0
      <4>1. StartOf(i)' = StartOf(i) /\ StartOf(i) \in 0 .. size /\ StartOf(i) % ALIGN = 0
        BY <1>5, <1>6
      <4> QED BY <1>1, <1>7, <4>1
    <3>2. StartOf(L + 2)' \in 0 .. size' /\ StartOf(L + 2)' % ALIGN = 0
      BY <1>5, <1>7
    <3>3. ASSUME NEW i \in 1 .. L + 2
          PROVE  StartOf(i)' \in 0 .. size' /\ StartOf(i)' % ALIGN = 0
      <4>1. i \in 1 .. L + 1 \/ i = L + 2
        BY <1>b
      <4> QED BY <3>1, <3>2, <4>1
    <3> QED BY <3>3
  <2>3. StartOf(1)' = 0
    BY <1>2, <1>5, <1>6, 1 \in 1 .. L + 1
  <2>4. Len(archive') + 1 = L + 2
    BY <1>2
  <2> QED BY <1>1, <1>2, <1>7, <2>1, <2>2, <2>3, <2>4 DEF Chain
<1>10. Image'
  <2>1. ASSUME NEW i \in 1 .. L, NEW k \in 0 .. Size(archive[i]) - 1
        PROVE  img'[archive[i].at + k] = Written(archive[i], k)
    <3>1. i \in 1 .. Len(archive)
      BY <1>0
    <3>2. archive[i].at \in Nat /\ archive[i].at + Size(archive[i]) <= size
      BY <1>1, <3>1, EntryFacts DEF IInv
    <3>3. Size(archive[i]) \in Nat
      BY <3>1, EntryFacts, SizeFacts DEF IInv
    <3>4. archive[i].at + k \in 0 .. size - 1
      BY <1>a, <3>2, <3>3
    <3>5. img[archive[i].at + k] = Written(archive[i], k)
      BY <3>1 DEF IInv, Image
    <3> QED BY <1>1, <3>4, <3>5
  <2>2. \A i \in 1 .. L + 1 : i \in 1 .. L \/ i = L + 1
    BY <1>2
  <2>3. \A i \in 1 .. L + 1 : \A k \in 0 .. Size(archive'[i]) - 1 :
           img'[(archive'[i]).at + k] = Written(archive'[i], k)
    BY <1>1, <1>2, <2>1, <2>2
  <2> QED BY <1>2, <1>3, <2>3 DEF Image
<1>11. Forms'
  <2>1. ASSUME NEW i \in 1 .. L + 1
        PROVE  /\ (archive'[i]).data = IF (archive'[i]).gzip
                                      THEN compressGzip[(archive'[i]).raw]
                                      ELSE (archive'[i]).raw
               /\ Len((archive'[i]).data) <= Len((archive'[i]).raw)
    <3>1. CASE i = L + 1
      BY <1>1, <1>2, <3>1
    <3>2. CASE i \in 1 .. L
      <4>1. i \in 1 .. Len(archive) /\ archive'[i] = archive[i]
        BY <1>2, <1>b, <3>2
      <4> QED BY <4>1 DEF IInv, Forms
    <3> QED BY <1>b, <3>1, <3>2
  <2> QED BY <1>b, <2>1 DEF Forms
<1>12. MountInv' /\ WalkInv' /\ HandleInv'
  BY <1>3, <1>4 DEF MountInv, WalkInv, HandleInv
<1> QED BY <1>8, <1>9, <1>10, <1>11, <1>12 DEF IInv

LEMMA Sealing ==
  ASSUME IInv, finishArchive
  PROVE  IInv'
<1>1. size \in Nat /\ HDR \in Nat \ {0}
  BY EspFsAssumption DEF IInv, Types
<1>2. /\ ~sealed /\ sealed' /\ sealed' \in BOOLEAN
      /\ UNCHANGED <<archive, espFsData, walk, file>>
      /\ size' = size + HDR
      /\ img' = [a \in 0 .. size + HDR - 1 |->
                    IF a < size THEN img[a] ELSE LastHeader(a - size)]
  <2>1. ASSUME NEW a \in 0 .. size + HDR - 1, ~(a < size)
        PROVE  a - size \in 0 .. HDR - 1
    BY <1>1, <2>1
  <2> QED BY <2>1 DEF finishArchive, Write
<1>3. End = size /\ End' = size
  BY <1>2, <1>1 DEF End
<1>4. espFsData = NULL /\ walk = NULL /\ \A h \in Handles : file[h] = NULL
  BY <1>2, Unmounted
<1>5. \A i : StartOf(i)' = StartOf(i)
  BY <1>2, <1>3 DEF StartOf
<1>6. Types'
  <2>1. DOMAIN img' = 0 .. size + HDR - 1
    BY <1>2
  <2>2. size' \in Nat /\ size' - 1 = size + HDR - 1
    BY <1>2, <1>1
  <2> QED BY <1>2, <2>1, <2>2 DEF IInv, Types
<1>7. Chain'
  BY <1>2, <1>3, <1>5 DEF IInv, Chain
<1>8. Image'
  <2>1. ASSUME NEW i \in 1 .. Len(archive), NEW k \in 0 .. Size(archive[i]) - 1
        PROVE  img'[archive[i].at + k] = Written(archive[i], k)
    <3>1. archive[i].at \in Nat /\ archive[i].at + Size(archive[i]) <= size
      BY <1>3, EntryFacts DEF IInv
    <3>2. Size(archive[i]) \in Nat
      BY EntryFacts, SizeFacts DEF IInv
    <3>3. PICK a : a = archive[i].at + k
      OBVIOUS
    <3>4. a \in 0 .. size + HDR - 1 /\ a < size
      BY <1>1, <3>1, <3>2, <3>3
    <3>5. img[a] = Written(archive[i], k)
      BY <3>3 DEF IInv, Image
    <3> QED BY <1>2, <3>3, <3>4, <3>5
  <2>2. img'[size] = LastHeader(0)
    <3>1. size \in 0 .. size + HDR - 1 /\ ~(size < size) /\ size - size = 0
      BY <1>1
    <3> QED BY <1>2, <3>1
  <2> QED BY <1>2, <1>3, <2>1, <2>2 DEF Image
<1>9. Forms'
  BY <1>2 DEF IInv, Forms
<1>10. MountInv' /\ WalkInv' /\ HandleInv'
  BY <1>2, <1>4 DEF MountInv, WalkInv, HandleInv
<1> QED BY <1>6, <1>7, <1>8, <1>9, <1>10 DEF IInv

-----------------------------------------------------------------------------
(***************************************************************************)
(* The device keeps the invariant.                                         *)
(***************************************************************************)
LEMMA SameImage ==
  ASSUME IInv, UNCHANGED <<archive, img, size, sealed>>
  PROVE  /\ Chain' /\ Image' /\ Forms'
         /\ \A i : StartOf(i)' = StartOf(i)
         /\ \A i, n : NoneBefore(i, n)' = NoneBefore(i, n)
<1>1. End' = End
  BY DEF End
<1>2. \A i : StartOf(i)' = StartOf(i)
  BY <1>1 DEF StartOf
<1>3. Chain'
  BY <1>1, <1>2 DEF IInv, Chain
<1>4. Image' /\ Forms'
  BY <1>1 DEF IInv, Image, Forms
<1>5. \A i, n : NoneBefore(i, n)' = NoneBefore(i, n)
  BY DEF NoneBefore
<1> QED BY <1>2, <1>3, <1>4, <1>5

LEMMA Mounting ==
  ASSUME IInv, NEW a \in Addresses, espFsInit(a)
  PROVE  IInv'
<1>1. /\ UNCHANGED <<archive, img, size, sealed, walk, file>>
      /\ sealed /\ espFsData = NULL /\ walk = NULL
      /\ espFsData' = IF Mountable(a) THEN a ELSE NULL
  BY DEF espFsInit, Idle
<1>2. Chain' /\ Image' /\ Forms'
  BY <1>1, SameImage
<1>3. Types'
  BY <1>1 DEF IInv, Types
<1>4. MountInv'
  BY <1>1 DEF MountInv, Mountable
<1>5. WalkInv' /\ HandleInv'
  BY <1>1 DEF IInv, WalkInv, HandleInv
<1> QED BY <1>2, <1>3, <1>4, <1>5 DEF IInv

LEMMA Calling ==
  ASSUME IInv, NEW url \in Urls, espFsOpen(url)
  PROVE  IInv' /\ walk' \in Walk
<1>1. /\ UNCHANGED <<archive, img, size, sealed, espFsData, file>>
      /\ sealed /\ walk' = [name |-> Stripped(url), p |-> espFsData]
  BY DEF espFsOpen, Idle
<1>2. /\ Chain' /\ Image' /\ Forms' /\ \A i : StartOf(i)' = StartOf(i)
      /\ \A i, n : NoneBefore(i, n)' = NoneBefore(i, n)
  BY <1>1, SameImage
<1>3. walk' \in Walk
  BY <1>1, NameFacts, EspFsAssumption DEF IInv, Types, Walk
<1>4. Types'
  BY <1>1, <1>3 DEF IInv, Types
<1>5. WalkInv'
  <2>1. CASE espFsData = NULL
    BY <1>1, <2>1 DEF WalkInv
  <2>2. CASE espFsData # NULL
    <3>1. espFsData \in Nat /\ StartOf(1) = 0 /\ Len(archive) \in Nat
      <4>1. espFsData \in Addresses /\ Len(archive) \in Nat
        BY <2>2 DEF IInv, Types
      <4> QED BY <4>1, EspFsAssumption DEF IInv, Chain
    <3>2. (walk').p = espFsData + StartOf(1) /\ 1 \in 1 .. Len(archive) + 1
      BY <1>1, <3>1
    <3>3. NoneBefore(1, (walk').name)
      BY DEF NoneBefore
    <3>4. \E i \in 1 .. Len(archive) + 1 :
             (walk').p = espFsData + StartOf(i) /\ NoneBefore(i, (walk').name)
      BY <3>2, <3>3
    <3> QED BY <1>1, <1>2, <2>2, <3>4 DEF WalkInv
  <2> QED BY <2>1, <2>2
<1>6. MountInv' /\ HandleInv'
  BY <1>1 DEF IInv, MountInv, HandleInv, OfEntry
<1> QED BY <1>2, <1>3, <1>4, <1>5, <1>6 DEF IInv

\* Where the walk of a mounted image stands, and what it finds there.
LEMMA Standing ==
  ASSUME IInv, walk # NULL, espFsData # NULL
  PROVE  \E i \in 1 .. Len(archive) + 1 :
           /\ espFsData \in Nat /\ sealed /\ walk.p \in Nat
           /\ walk.p = espFsData + StartOf(i) /\ StartOf(i) \in Nat
           /\ NoneBefore(i, walk.name)
           /\ ~Broken
           /\ Reached.val.last <=> i = Len(archive) + 1
           /\ i # Len(archive) + 1 =>
                 /\ i \in 1 .. Len(archive)
                 /\ Matches <=> archive[i].name = walk.name
                 /\ Reached.val = [last |-> FALSE, gzip |-> archive[i].gzip,
                                   nameLen |-> Round(NameLen(archive[i].name)),
                                   fileLenComp |-> Len(archive[i].data)]
<1>1. PICK i \in 1 .. Len(archive) + 1 :
         walk.p = espFsData + StartOf(i) /\ NoneBefore(i, walk.name)
  BY DEF IInv, WalkInv
<1>2. espFsData \in Nat /\ sealed
  BY EspFsAssumption DEF IInv, Types, MountInv
<1>3. StartOf(i) \in Nat /\ walk.p \in Nat
  BY <1>1, <1>2 DEF IInv, Chain
<1>4. CASE i = Len(archive) + 1
  <2>1. Reached = Header(TRUE, FALSE, 0, 0)
    BY <1>1, <1>2, <1>4, WalkSees DEF IInv, Reached
  <2>2. ~Broken /\ Reached.val.last
    BY <2>1 DEF Broken, Header, Cell
  <2> QED BY <1>1, <1>2, <1>3, <1>4, <2>2
<1>5. CASE i # Len(archive) + 1
  <2>1. i \in 1 .. Len(archive)
    <3>1. Len(archive) \in Nat
      BY DEF IInv, Types
    <3> QED BY <1>5, <3>1
  <2>2. /\ Reached = Header(FALSE, archive[i].gzip, Round(NameLen(archive[i].name)),
                            Len(archive[i].data))
        /\ At(walk.p + HDR) = Cell("name", archive[i].name)
    BY <1>1, <1>2, <1>5, WalkSees DEF IInv, Reached
  <2>3. /\ ~Broken /\ ~Reached.val.last
        /\ Reached.val = [last |-> FALSE, gzip |-> archive[i].gzip,
                          nameLen |-> Round(NameLen(archive[i].name)),
                          fileLenComp |-> Len(archive[i].data)]
    BY <2>2 DEF Broken, Header, Cell
  <2>4. Matches <=> archive[i].name = walk.name
    BY <2>2 DEF Matches, Cell
  <2> QED BY <1>1, <1>2, <1>3, <1>5, <2>1, <2>3, <2>4
<1> QED BY <1>4, <1>5

\* The entry a walk that has not ended stands at.
LEMMA StandingAt ==
  ASSUME IInv, AtFile
  PROVE  \E i \in 1 .. Len(archive) :
           /\ espFsData \in Nat /\ sealed /\ walk.p \in Nat
           /\ walk.p = espFsData + StartOf(i)
           /\ NoneBefore(i, walk.name)
           /\ Matches <=> archive[i].name = walk.name
           /\ Reached.val.gzip = archive[i].gzip
           /\ Reached.val.nameLen = Round(NameLen(archive[i].name))
           /\ Reached.val.nameLen \in Nat
           /\ Reached.val.fileLenComp = Len(archive[i].data)
<1>1. walk # NULL /\ espFsData # NULL /\ ~Reached.val.last
  BY DEF AtFile
<1>2. PICK i \in 1 .. Len(archive) + 1 :
           /\ espFsData \in Nat /\ sealed /\ walk.p \in Nat
           /\ walk.p = espFsData + StartOf(i)
           /\ NoneBefore(i, walk.name)
           /\ Reached.val.last <=> i = Len(archive) + 1
           /\ i # Len(archive) + 1 =>
                 /\ i \in 1 .. Len(archive)
                 /\ Matches <=> archive[i].name = walk.name
                 /\ Reached.val = [last |-> FALSE, gzip |-> archive[i].gzip,
                                   nameLen |-> Round(NameLen(archive[i].name)),
                                   fileLenComp |-> Len(archive[i].data)]
  BY <1>1, Standing
<1>3. /\ i \in 1 .. Len(archive) /\ (Matches <=> archive[i].name = walk.name)
      /\ Reached.val = [last |-> FALSE, gzip |-> archive[i].gzip,
                        nameLen |-> Round(NameLen(archive[i].name)),
                        fileLenComp |-> Len(archive[i].data)]
  BY <1>1, <1>2
<1>4. /\ Reached.val.gzip = archive[i].gzip
      /\ Reached.val.nameLen = Round(NameLen(archive[i].name))
      /\ Reached.val.fileLenComp = Len(archive[i].data)
  BY <1>3
<1>5. Round(NameLen(archive[i].name)) \in Nat
  <2>1. archive[i].name \in Seq(STRING)
    BY <1>3, EntryFacts DEF IInv
  <2>2. NameLen(archive[i].name) \in Nat
    BY <2>1 DEF NameLen
  <2> QED BY <2>2, RoundFacts
<1> QED BY <1>2, <1>3, <1>4, <1>5

LEMMA Failing ==
  ASSUME IInv, OpenFails
  PROVE  IInv'
<1>1. UNCHANGED <<archive, img, size, sealed, espFsData, file>> /\ walk' = NULL
  BY DEF OpenFails, OpenReturns
<1>2. Chain' /\ Image' /\ Forms'
  BY <1>1, SameImage
<1>3. Types' /\ MountInv' /\ WalkInv' /\ HandleInv'
  BY <1>1 DEF IInv, Types, MountInv, WalkInv, HandleInv, OfEntry
<1> QED BY <1>2, <1>3 DEF IInv

\* The handle espFsOpen returns is one of the entry the walk stands at.
LEMMA NewHandle ==
  ASSUME IInv, AtFile, Matches
  PROVE  \E i \in 1 .. Len(archive) :
           /\ Opened(walk.p, Reached.val) \in EspFsFile
           /\ OfEntry(Opened(walk.p, Reached.val), i)
           /\ Opened(walk.p, Reached.val).posComp = Opened(walk.p, Reached.val).posStart
           /\ archive[i].name = walk.name /\ NoneBefore(i, walk.name)
<1>1. PICK i \in 1 .. Len(archive) :
         /\ espFsData \in Nat /\ walk.p \in Nat
         /\ walk.p = espFsData + StartOf(i)
         /\ NoneBefore(i, walk.name) /\ archive[i].name = walk.name
         /\ Reached.val.nameLen = Round(NameLen(archive[i].name))
         /\ Reached.val.nameLen \in Nat
  BY StandingAt
<1>2. /\ archive[i].name \in Seq(STRING) /\ archive[i].data \in Seq(STRING)
      /\ StartOf(i) = archive[i].at
  BY EntryFacts DEF IInv
<1>3. /\ DataAt(archive[i]) = HDR + Reached.val.nameLen
      /\ DataAt(archive[i]) \in Nat
      /\ Len(archive[i].data) \in Nat /\ HDR \in Nat /\ Reached.val.nameLen \in Nat
  <2>1. DataAt(archive[i]) = HDR + Round(NameLen(archive[i].name))
        /\ DataAt(archive[i]) \in Nat
    BY <1>2, SizeFacts
  <2>2. HDR \in Nat /\ Len(archive[i].data) \in Nat
    BY <1>2, EspFsAssumption
  <2> QED BY <1>1, <2>1, <2>2
<1> DEFINE r == Opened(walk.p, Reached.val)
<1>4. /\ r.header = walk.p /\ r.posComp = r.posStart
      /\ r.posStart = walk.p + HDR + Reached.val.nameLen
      /\ r = [header |-> r.header, posStart |-> r.posStart, posComp |-> r.posComp]
  BY DEF Opened
<1> HIDE DEF r
<1>5. r.posStart = r.header + DataAt(archive[i]) /\ r.posStart \in Nat
  BY <1>1, <1>3, <1>4
<1>6. r \in EspFsFile
  BY <1>1, <1>4, <1>5 DEF EspFsFile
<1>7. OfEntry(r, i)
  BY <1>1, <1>2, <1>3, <1>4, <1>5 DEF OfEntry
<1> QED BY <1>1, <1>4, <1>6, <1>7 DEF r

LEMMA Finding ==
  ASSUME IInv, NEW h \in Handles, OpenFinds(h)
  PROVE  IInv'
<1>1. /\ UNCHANGED <<archive, img, size, sealed, espFsData>> /\ walk' = NULL
      /\ AtFile /\ Matches
      /\ file' = [file EXCEPT ![h] = Opened(walk.p, Reached.val)]
  BY DEF OpenFinds, OpenReturns
<1>2. Chain' /\ Image' /\ Forms'
  BY <1>1, SameImage
<1>3. PICK i \in 1 .. Len(archive) :
           /\ Opened(walk.p, Reached.val) \in EspFsFile
           /\ OfEntry(Opened(walk.p, Reached.val), i)
  BY <1>1, NewHandle
<1>4. Types'
  BY <1>1, <1>3 DEF IInv, Types
<1>5. MountInv' /\ WalkInv'
  BY <1>1 DEF IInv, MountInv, WalkInv
<1>6. HandleInv'
  <2>1. \A r, j : OfEntry(r, j) => OfEntry(r, j)' 
    BY <1>1 DEF OfEntry
  <2> QED BY <1>1, <1>3 DEF IInv, Types, HandleInv, OfEntry, AtFile
<1> QED BY <1>2, <1>4, <1>5, <1>6 DEF IInv

LEMMA Skipping ==
  ASSUME IInv, OpenSkips
  PROVE  /\ IInv' /\ walk' \in Walk /\ (walk').name = walk.name
         /\ sealed /\ espFsData \in Nat
         /\ \E i \in 1 .. Len(archive) : /\ walk.p = espFsData + StartOf(i)
                                         /\ (walk').p = espFsData + StartOf(i + 1)
<1>1. /\ UNCHANGED <<archive, img, size, sealed, espFsData, file>>
      /\ AtFile /\ ~Matches /\ walk # NULL /\ espFsData # NULL
      /\ walk' = [walk EXCEPT !.p = NextHeader(walk.p, Reached.val)]
  BY DEF OpenSkips, AtFile
<1>2. /\ Chain' /\ Image' /\ Forms' /\ \A i : StartOf(i)' = StartOf(i)
      /\ \A i, n : NoneBefore(i, n)' = NoneBefore(i, n)
  BY <1>1, SameImage
<1>3. PICK i \in 1 .. Len(archive) :
         /\ espFsData \in Nat /\ sealed /\ walk.p = espFsData + StartOf(i)
         /\ NoneBefore(i, walk.name) /\ archive[i].name # walk.name
         /\ Reached.val.nameLen = Round(NameLen(archive[i].name))
         /\ Reached.val.nameLen \in Nat
         /\ Reached.val.fileLenComp = Len(archive[i].data)
  BY <1>1, StandingAt
<1>4. NextHeader(walk.p, Reached.val) = espFsData + StartOf(i + 1)
  <2>1. /\ archive[i].name \in Seq(STRING) /\ archive[i].data \in Seq(STRING)
        /\ StartOf(i) = archive[i].at /\ archive[i].at \in Nat
        /\ archive[i].at % ALIGN = 0
        /\ StartOf(i + 1) = archive[i].at + Size(archive[i])
    BY EntryFacts DEF IInv
  <2>2. PICK a \in Nat : a = espFsData + archive[i].at
    BY <1>3, <2>1
  <2>3. a % ALIGN = 0
    BY <1>1, <1>3, <2>1, <2>2, ModSum DEF IInv, MountInv
  <2>4. /\ Round(a + DataAt(archive[i]) + Len(archive[i].data)) = a + Size(archive[i])
        /\ DataAt(archive[i]) = HDR + Reached.val.nameLen
        /\ Size(archive[i]) \in Nat
    BY <1>3, <2>1, <2>3, SizeFacts
  <2>5. HDR \in Nat /\ Reached.val.nameLen \in Nat /\ Reached.val.fileLenComp \in Nat
    BY <1>3, <2>1, EspFsAssumption
  <2>6. walk.p + HDR + Reached.val.nameLen + Reached.val.fileLenComp
          = a + DataAt(archive[i]) + Len(archive[i].data)
    BY <1>3, <2>1, <2>2, <2>4, <2>5
  <2> QED BY <1>3, <2>1, <2>2, <2>4, <2>6 DEF NextHeader
<1>5. i + 1 \in 1 .. Len(archive) + 1 /\ NoneBefore(i + 1, walk.name)
  <2>1. \A j \in 1 .. (i + 1) - 1 : j \in 1 .. i - 1 \/ j = i
    OBVIOUS
  <2> QED BY <1>3, <2>1 DEF NoneBefore
<1>6. walk \in Walk
  BY <1>1 DEF IInv, Types
<1>7. /\ walk' \in Walk /\ (walk').name = walk.name
      /\ (walk').p = espFsData + StartOf(i + 1)
  <2>1. StartOf(i + 1) \in Nat
    BY <1>5 DEF IInv, Chain
  <2> QED BY <1>1, <1>3, <1>4, <1>6, <2>1 DEF Walk
<1>8. Types'
  BY <1>1, <1>7 DEF IInv, Types
<1>9. WalkInv'
  <2>1. \E k \in 1 .. Len(archive) + 1 :
           (walk').p = espFsData + StartOf(k) /\ NoneBefore(k, (walk').name)
    BY <1>5, <1>7
  <2> QED BY <1>1, <1>2, <1>3, <2>1 DEF WalkInv
<1>10. MountInv' /\ HandleInv'
  BY <1>1 DEF IInv, MountInv, HandleInv, OfEntry
<1>11. IInv'
  BY <1>2, <1>8, <1>9, <1>10 DEF IInv
<1> QED BY <1>3, <1>7, <1>11

LEMMA SubSeqIs ==
  ASSUME NEW S, NEW s \in Seq(S), NEW m \in Nat, NEW n \in Nat,
         m >= 1, m <= n + 1, n <= Len(s)
  PROVE  SubSeq(s, m, n) = [k \in 1 .. n - m + 1 |-> s[m + k - 1]]
<1>1. \A i \in m .. n : s[i] \in S
  OBVIOUS
<1>2. /\ SubSeq(s, m, n) \in Seq(S)
      /\ Len(SubSeq(s, m, n)) = n - m + 1
      /\ \A i \in 1 .. n - m + 1 : SubSeq(s, m, n)[i] = s[m + i - 1]
  BY <1>1, SubSeqProperties
<1> QED BY <1>2

\* What an open handle shows: the rest of the data of its entry.
LEMMA ViewFacts ==
  ASSUME IInv, NEW h \in Handles, file[h] # NULL
  PROVE  \E i \in 1 .. Len(archive) :
           /\ sealed /\ espFsData \in Nat
           /\ file[h] \in EspFsFile /\ OfEntry(file[h], i)
           /\ At(file[h].header).val.gzip = archive[i].gzip
           /\ Left(h) \in Nat
           /\ Left(h) = Len(archive[i].data) - (file[h].posComp - file[h].posStart)
           /\ \A n \in 0 .. Left(h) : Bytes(file[h].posComp, n) =
                 [k \in 1 .. n |->
                    archive[i].data[file[h].posComp - file[h].posStart + k]]
<1> DEFINE r == file[h]
<1>1. PICK i \in 1 .. Len(archive) : OfEntry(r, i)
  BY DEF IInv, HandleInv
<1>2. r \in EspFsFile
  BY DEF IInv, Types
<1>3. sealed /\ espFsData \in Nat
  <2>1. espFsData # NULL
    BY DEF IInv, HandleInv
  <2> QED BY <2>1, EspFsAssumption DEF IInv, Types, MountInv
<1>4. archive[i].data \in Seq(STRING) /\ Len(archive[i].data) \in Nat
  BY EntryFacts DEF IInv
<1>5. r.posComp \in Nat /\ r.posStart \in Nat
  BY <1>2 DEF EspFsFile
<1>6. r.posComp \in r.posStart .. r.posStart + Len(archive[i].data)
  BY <1>1 DEF OfEntry
<1> HIDE DEF r
<1>7. r.posComp + 0 <= r.posStart + Len(archive[i].data)
  BY <1>4, <1>5, <1>6
<1>8. /\ At(r.header).val.gzip = archive[i].gzip
      /\ At(r.header).val.fileLenComp = Len(archive[i].data)
  BY <1>1, <1>2, <1>3, <1>7, HandleSees DEF IInv
<1>9. Left(h) = Len(archive[i].data) - (r.posComp - r.posStart)
  BY <1>8 DEF Left, r
<1>10. Left(h) \in Nat
  BY <1>4, <1>5, <1>6, <1>9
<1>11. ASSUME NEW n \in 0 .. Left(h)
       PROVE  Bytes(r.posComp, n) =
                [k \in 1 .. n |-> archive[i].data[r.posComp - r.posStart + k]]
  <2>1. n \in Nat /\ r.posComp + n <= r.posStart + Len(archive[i].data)
    BY <1>4, <1>5, <1>9, <1>10
  <2> QED BY <1>1, <1>2, <1>3, <2>1, HandleSees DEF IInv
<1> QED BY <1>1, <1>2, <1>3, <1>8, <1>9, <1>10, <1>11 DEF r

\* A call that only touches the handles.
LEMMA Handling ==
  ASSUME IInv, UNCHANGED <<archive, img, size, sealed, espFsData, walk>>,
         file' \in [Handles -> EspFsFile \cup {NULL}],
         \A h \in Handles : (file')[h] # NULL =>
             espFsData # NULL /\ \E i \in 1 .. Len(archive) : OfEntry((file')[h], i)
  PROVE  IInv'
<1>1. /\ Chain' /\ Image' /\ Forms' /\ \A i : StartOf(i)' = StartOf(i)
      /\ \A i, n : NoneBefore(i, n)' = NoneBefore(i, n)
  BY SameImage
<1>2. Types' /\ MountInv'
  BY DEF IInv, Types, MountInv
<1>3. WalkInv'
  BY <1>1 DEF IInv, WalkInv
<1>4. \A r, j : OfEntry(r, j) => OfEntry(r, j)'
  BY DEF OfEntry
<1>5. HandleInv'
  BY <1>4 DEF HandleInv, OfEntry
<1> QED BY <1>1, <1>2, <1>3, <1>5 DEF IInv

LEMMA Flagging ==
  ASSUME IInv, NEW h \in Handles, espFsFlags(h)
  PROVE  IInv'
  BY Handling DEF espFsFlags, IInv, Types, HandleInv

LEMMA Closing ==
  ASSUME IInv, NEW h \in Handles, espFsClose(h)
  PROVE  IInv'
<1>1. file' = [file EXCEPT ![h] = NULL] /\ file \in [Handles -> EspFsFile \cup {NULL}]
      /\ UNCHANGED <<archive, img, size, sealed, espFsData, walk>>
  BY DEF espFsClose, IInv, Types
<1>2. \A g \in Handles : (file')[g] # NULL => (file')[g] = file[g]
  BY <1>1
<1> QED BY <1>1, <1>2, Handling DEF IInv, HandleInv

\* How far a handle moves when it is read.
LEMMA ReadFacts ==
  ASSUME IInv, NEW h \in Handles, NEW len \in Lens, espFsRead(h, len)
  PROVE  /\ file[h] \in EspFsFile /\ ToRead(h, len) \in 0 .. Left(h)
         /\ ToRead(h, len) = IF len < Left(h) THEN len ELSE Left(h)
         /\ UNCHANGED <<archive, img, size, sealed, espFsData, walk>>
         /\ (file')[h] = [header |-> file[h].header, posStart |-> file[h].posStart,
                         posComp |-> file[h].posComp + ToRead(h, len)]
         /\ (file')[h] \in EspFsFile /\ (file')[h] # NULL
         /\ \A i \in 1 .. Len(archive) : OfEntry(file[h], i) /\
                Left(h) = Len(archive[i].data) - (file[h].posComp - file[h].posStart)
                  => OfEntry((file')[h], i)
         /\ \A g \in Handles \ {h} : (file')[g] = file[g]
         /\ file' \in [Handles -> EspFsFile \cup {NULL}]
<1> DEFINE n == ToRead(h, len)
<1>1. /\ file[h] # NULL /\ file' = [file EXCEPT ![h].posComp = @ + n]
      /\ UNCHANGED <<archive, img, size, sealed, espFsData, walk>>
      /\ file \in [Handles -> EspFsFile \cup {NULL}]
  BY DEF espFsRead, IInv, Types
<1>2. file[h] \in EspFsFile /\ Left(h) \in Nat
  BY <1>1, ViewFacts
<1>3. len \in Nat
  BY EspFsAssumption
<1>4. n \in 0 .. Left(h) /\ n = IF len < Left(h) THEN len ELSE Left(h)
  BY <1>2, <1>3 DEF ToRead
<1> HIDE DEF n
<1>5. PICK hd \in Nat, ps \in Nat, pc \in Nat :
         /\ file[h] = [header |-> hd, posStart |-> ps, posComp |-> pc]
  BY <1>2 DEF EspFsFile
<1>6. (file')[h] = [header |-> hd, posStart |-> ps, posComp |-> pc + n]
  BY <1>1, <1>5
<1>7. pc + n \in Nat
  BY <1>2, <1>4
<1>8. (file')[h] \in EspFsFile /\ (file')[h] # NULL
  BY <1>6, <1>7, EspFsAssumption DEF EspFsFile
<1>9. ASSUME NEW i \in 1 .. Len(archive), OfEntry(file[h], i),
             Left(h) = Len(archive[i].data) - (file[h].posComp - file[h].posStart)
      PROVE  OfEntry((file')[h], i)
  <2>1. Len(archive[i].data) \in Nat
    BY EntryFacts DEF IInv
  <2>2. /\ hd = espFsData + archive[i].at /\ ps = hd + DataAt(archive[i])
        /\ pc \in ps .. ps + Len(archive[i].data)
        /\ Left(h) = Len(archive[i].data) - (pc - ps)
    BY <1>5, <1>9 DEF OfEntry
  <2>3. pc + n \in ps .. ps + Len(archive[i].data)
    <3>1. PICK d \in Nat, l \in Nat : d = Len(archive[i].data) /\ l = Left(h)
      BY <1>2, <2>1
    <3>2. pc >= ps /\ l = d - (pc - ps) /\ n \in 0 .. l
      BY <1>4, <2>2, <3>1
    <3>3. pc + n \in ps .. ps + d
      BY <3>2
    <3> QED BY <3>1, <3>3
  <2> QED BY <1>6, <2>2, <2>3 DEF OfEntry
<1>10. \A g \in Handles \ {h} : (file')[g] = file[g]
  BY <1>1
<1>11. file' \in [Handles -> EspFsFile \cup {NULL}]
  <2>1. file' = [g \in Handles |-> (file')[g]]
    BY <1>1
  <2>2. \A g \in Handles : (file')[g] \in EspFsFile \cup {NULL}
    BY <1>1, <1>8, <1>10
  <2> QED BY <2>1, <2>2
<1>12. (file')[h] = [header |-> file[h].header, posStart |-> file[h].posStart,
                   posComp |-> file[h].posComp + n]
  BY <1>5, <1>6
<1> QED BY <1>1, <1>2, <1>4, <1>8, <1>9, <1>10, <1>11, <1>12 DEF n

LEMMA Reading ==
  ASSUME IInv, NEW h \in Handles, NEW len \in Lens, espFsRead(h, len)
  PROVE  IInv'
<1>1. /\ file' \in [Handles -> EspFsFile \cup {NULL}]
      /\ UNCHANGED <<archive, img, size, sealed, espFsData, walk>>
      /\ \A g \in Handles \ {h} : (file')[g] = file[g]
  BY ReadFacts
<1>2. PICK i \in 1 .. Len(archive) :
        /\ OfEntry(file[h], i)
        /\ Left(h) = Len(archive[i].data) - (file[h].posComp - file[h].posStart)
  BY ViewFacts DEF espFsRead
<1>3. OfEntry((file')[h], i)
  BY <1>2, ReadFacts
<1>4. espFsData # NULL
  BY DEF espFsRead, IInv, HandleInv
<1>5. \A g \in Handles : (file')[g] # NULL =>
           \E j \in 1 .. Len(archive) : OfEntry((file')[g], j)
  BY <1>1, <1>3 DEF IInv, HandleInv
<1> QED BY <1>1, <1>4, <1>5, Handling

LEMMA Initial == Init => IInv
<1> SUFFICES ASSUME Init PROVE IInv
  OBVIOUS
<1>1. HDR \in Nat \ {0}
  BY EspFsAssumption
<1>2. End = 0 /\ Len(archive) = 0 /\ archive \in Seq(Entry)
  BY DEF Init, End
<1>3. Types
  <2>1. DOMAIN img = {} /\ {} = 0 .. size - 1
    BY DEF Init
  <2> QED BY <1>2, <2>1 DEF Init, Types
<1>4. Chain
  <2>1. \A i : StartOf(i) = 0
    BY <1>2 DEF StartOf
  <2> QED BY <1>2, <2>1 DEF Chain, ALIGN
<1>5. Image /\ Forms
  BY <1>2 DEF Init, Image, Forms
<1>6. MountInv /\ WalkInv /\ HandleInv
  BY DEF Init, MountInv, WalkInv, HandleInv
<1> QED BY <1>3, <1>4, <1>5, <1>6 DEF IInv

LEMMA Inductive == IInv /\ [Next]_vars => IInv'
<1> SUFFICES ASSUME IInv, [Next]_vars PROVE IInv'
  OBVIOUS
<1>1. ASSUME NEW line \in Lines, NEW raw \in Contents, handleFile(line, raw)
      PROVE  IInv'
  BY <1>1, Building
<1>2. CASE finishArchive
  BY <1>2, Sealing
<1>3. ASSUME NEW a \in Addresses, espFsInit(a) PROVE IInv'
  BY <1>3, Mounting
<1>4. ASSUME NEW url \in Urls, espFsOpen(url) PROVE IInv'
  BY <1>4, Calling
<1>5. CASE OpenStep
  BY <1>5, Failing, Skipping, Finding DEF OpenStep
<1>6. ASSUME NEW h \in Handles, espFsFlags(h) PROVE IInv'
  BY <1>6, Flagging
<1>7. ASSUME NEW h \in Handles, NEW len \in Lens, espFsRead(h, len) PROVE IInv'
  BY <1>7, Reading
<1>8. ASSUME NEW h \in Handles, espFsClose(h) PROVE IInv'
  BY <1>8, Closing
<1>9. CASE UNCHANGED vars
  <2>1. UNCHANGED <<archive, img, size, sealed, espFsData, walk>> /\ file' = file
    BY <1>9 DEF vars
  <2> QED BY <2>1, Handling DEF IInv, Types, HandleInv
<1> QED BY <1>1, <1>2, <1>3, <1>4, <1>5, <1>6, <1>7, <1>8, <1>9 DEF Next

-----------------------------------------------------------------------------
(***************************************************************************)
(* Every step is a step of the store.                                      *)
(***************************************************************************)
\* The store as ImplementsStore sees it.
Filed == [i \in DOMAIN archive |-> [name |-> archive[i].name,
             raw |-> archive[i].raw, gzip |-> archive[i].gzip]]
Stage == IF espFsData # NULL THEN "mounted" ELSE IF sealed THEN "built" ELSE "building"
View == [h \in Handles |-> IF file[h] = NULL THEN NULL ELSE
            [left |-> Bytes(file[h].posComp, Left(h)),
             gzip |-> At(file[h].header).val.gzip]]
Wanted == IF walk = NULL THEN NULL ELSE walk.name

\* The image that is not written to looks the same.
LEMMA SameCells ==
  ASSUME UNCHANGED <<img, size, espFsData>>
  PROVE  /\ \A a : At(a)' = At(a)
         /\ \A a, n : Bytes(a, n)' = Bytes(a, n)
<1>1. \A a : At(a)' = At(a)
  BY DEF At, Mapped
<1>2. \A a, n : Bytes(a, n)' = Bytes(a, n)
  BY <1>1 DEF Bytes
<1> QED BY <1>1, <1>2

LEMMA SameView ==
  ASSUME UNCHANGED <<img, size, espFsData, file>>
  PROVE  View' = View
  BY SameCells DEF View, Left

\* A handle is open in the store exactly when it is open here.
LEMMA ViewTypes ==
  ASSUME IInv, NEW h \in Handles
  PROVE  /\ file[h] = NULL <=> View[h] = NULL
         /\ file[h] # NULL =>
               \E i \in 1 .. Len(archive) :
                  /\ View[h] = [left |-> Bytes(file[h].posComp, Left(h)),
                               gzip |-> archive[i].gzip]
                  /\ View[h].left \in Seq(STRING) /\ Len(View[h].left) = Left(h)
                  /\ Left(h) \in Nat
                  /\ \A n \in 0 .. Left(h) : Bytes(file[h].posComp, n) =
                        [k \in 1 .. n |-> View[h].left[k]]
<1>1. CASE file[h] = NULL
  BY <1>1 DEF View
<1>2. CASE file[h] # NULL
  <2>1. PICK i \in 1 .. Len(archive) :
           /\ file[h] \in EspFsFile /\ OfEntry(file[h], i)
           /\ At(file[h].header).val.gzip = archive[i].gzip
           /\ Left(h) \in Nat
           /\ Left(h) = Len(archive[i].data) - (file[h].posComp - file[h].posStart)
           /\ \A n \in 0 .. Left(h) : Bytes(file[h].posComp, n) =
                 [k \in 1 .. n |->
                    archive[i].data[file[h].posComp - file[h].posStart + k]]
    BY <1>2, ViewFacts
  <2>2. View[h] = [left |-> Bytes(file[h].posComp, Left(h)), gzip |-> archive[i].gzip]
    BY <1>2, <2>1 DEF View
  <2> DEFINE d == archive[i].data
             o == file[h].posComp - file[h].posStart
             B == Bytes(file[h].posComp, Left(h))
  <2>3. d \in Seq(STRING) /\ archive[i].gzip \in BOOLEAN
    BY EntryFacts DEF IInv, Entry
  <2>4. o \in 0 .. Len(d) /\ Left(h) = Len(d) - o
    <3>1. file[h].posComp \in Nat /\ file[h].posStart \in Nat /\ Len(d) \in Nat
      BY <2>1, <2>3 DEF EspFsFile
    <3>2. file[h].posComp \in file[h].posStart .. file[h].posStart + Len(d)
      BY <2>1 DEF OfEntry
    <3>3. Left(h) = Len(d) - o
      BY <2>1
    <3> HIDE DEF d
    <3>4. o \in 0 .. Len(d)
      BY <3>1, <3>2
    <3> QED BY <3>3, <3>4
  <2>5. B = [k \in 1 .. Left(h) |-> d[o + k]]
    BY <2>1
  <2>6. \A n \in 0 .. Left(h) : Bytes(file[h].posComp, n) = [k \in 1 .. n |-> d[o + k]]
    BY <2>1
  <2> HIDE DEF d, o, B
  <2>7. \A k \in 1 .. Left(h) : d[o + k] \in STRING
    BY <2>1, <2>3, <2>4
  <2>8. B \in Seq(STRING) /\ Len(B) = Left(h)
    BY <2>1, <2>5, <2>7
  <2>9. ASSUME NEW n \in 0 .. Left(h)
        PROVE  Bytes(file[h].posComp, n) = [k \in 1 .. n |-> B[k]]
    <3>1. \A k \in 1 .. n : B[k] = d[o + k]
      BY <2>1, <2>5
    <3> QED BY <2>6, <3>1
  <2>10. View[h].left = B
    BY <2>2 DEF B
  <2>11. View[h] \in [left : Seq(STRING), gzip : BOOLEAN]
    BY <2>2, <2>3, <2>8 DEF B
  <2>12. View[h] # NULL
    BY <2>11, EspFsAssumption
  <2> QED BY <1>2, <2>1, <2>2, <2>8, <2>9, <2>10, <2>12
<1> QED BY <1>1, <1>2

LEMMA AddStep ==
  ASSUME IInv, NEW line \in Lines, NEW raw \in Contents, handleFile(line, raw)
  PROVE  Store!Add
<1>1. PICK e \in Entry :
           /\ e.raw = raw
           /\ e.data = IF e.gzip THEN compressGzip[raw] ELSE raw
           /\ Len(e.data) <= Len(raw)
           /\ archive' = Append(archive, e)
  BY Appended
<1>2. PICK L \in Nat : L = Len(archive)
  BY DEF IInv, Types
<1>3. /\ archive \in Seq(Entry)
      /\ archive' \in Seq(Entry) /\ Len(archive') = L + 1
      /\ \A i \in 1 .. L : archive'[i] = archive[i]
      /\ archive'[L + 1] = e
  BY <1>1, <1>2, AppendFacts DEF IInv, Types
<1>4. ~sealed /\ sealed' = sealed /\ UNCHANGED <<espFsData, walk, file, result>>
  BY DEF handleFile
<1>5. espFsData = NULL /\ walk = NULL /\ \A h \in Handles : file[h] = NULL
  BY <1>4, Unmounted
<1>6. Stage = "building" /\ Stage' = Stage /\ Wanted' = Wanted /\ View' = View
  BY <1>4, <1>5 DEF Stage, Wanted, View
<1> DEFINE f == [name |-> e.name, raw |-> e.raw, gzip |-> e.gzip]
           T == [name : Seq(STRING), raw : Contents, gzip : BOOLEAN]
<1>7. Filed \in Seq(T) /\ Len(Filed) = L /\ DOMAIN archive = 1 .. L
  <2>1. DOMAIN archive = 1 .. L
    BY <1>2, <1>3
  <2>2. \A i \in 1 .. L : archive[i] \in Entry
    BY <1>2, <1>3
  <2> QED BY <1>2, <2>1, <2>2 DEF Filed, Entry
<1>8. Filed' = [i \in 1 .. L + 1 |-> IF i <= L THEN Filed[i] ELSE f]
  <2>1. DOMAIN archive' = 1 .. L + 1
    BY <1>3
  <2>2. \A i \in 1 .. L : archive'[i] = archive[i] /\ i <= L
    BY <1>3
  <2>3. \A i \in 1 .. L + 1 : (i <= L /\ i \in 1 .. L) \/ (~(i <= L) /\ i = L + 1)
    BY <1>2
  <2> QED BY <1>3, <1>7, <2>1, <2>2, <2>3 DEF Filed
<1>9. Filed' = Append(Filed, f) /\ Len(Filed') = L + 1 /\ Filed'[L + 1] = f
  BY <1>2, <1>7, <1>8
<1>10. Len(IF f.gzip THEN compressGzip[f.raw] ELSE f.raw) <= Len(f.raw)
  BY <1>1
<1> HIDE DEF f
<1>11. Filed' = Append(Filed, Filed'[Len(Filed) + 1]) /\ Len(Filed') > Len(Filed)
  BY <1>2, <1>7, <1>9
<1>12. Filed'[Len(Filed) + 1] = f
  BY <1>7, <1>9
<1> QED BY <1>4, <1>6, <1>10, <1>11, <1>12
        DEF Store!Add, Store!Form, Filed, Stage, View, Wanted

LEMMA FinishStep ==
  ASSUME IInv, finishArchive
  PROVE  Store!Finish
<1>1. ~sealed /\ sealed' = TRUE /\ UNCHANGED <<archive, espFsData, walk, file, result>>
  BY DEF finishArchive
<1>2. espFsData = NULL /\ walk = NULL /\ \A h \in Handles : file[h] = NULL
  BY <1>1, Unmounted
<1>3. /\ Stage = "building" /\ Stage' = "built" /\ Wanted' = Wanted
      /\ View' = View /\ Filed' = Filed
  BY <1>1, <1>2 DEF Stage, Wanted, View, Filed
<1> QED BY <1>1, <1>3 DEF Store!Finish, Filed, Stage, View, Wanted

LEMMA MountStep ==
  ASSUME IInv, NEW a \in Addresses, espFsInit(a)
  PROVE  Store!Mount \/ UNCHANGED Store!vars
<1>1. /\ UNCHANGED <<archive, img, size, sealed, walk, file, result>>
      /\ sealed /\ espFsData = NULL
      /\ espFsData' = IF Mountable(a) THEN a ELSE NULL
  BY DEF espFsInit, Idle
<1>2. \A h \in Handles : file[h] = NULL
  BY <1>1 DEF IInv, HandleInv
<1>3. Wanted' = Wanted /\ View' = View /\ Filed' = Filed /\ Stage = "built"
  BY <1>1, <1>2 DEF Stage, Wanted, View, Filed
<1>4. CASE Mountable(a)
  <2>1. espFsData' # NULL
    BY <1>1, <1>4, EspFsAssumption
  <2>2. Stage' = "mounted"
    BY <2>1 DEF Stage
  <2> QED BY <1>1, <1>3, <2>2 DEF Store!Mount, Filed, Stage, View, Wanted
<1>5. CASE ~Mountable(a)
  <2>1. Stage' = Stage
    BY <1>1, <1>5 DEF Stage
  <2> QED BY <1>1, <1>3, <2>1 DEF Store!vars, Filed, Stage, View, Wanted
<1> QED BY <1>4, <1>5

LEMMA AskStep ==
  ASSUME IInv, NEW url \in Urls, espFsOpen(url)
  PROVE  Store!Ask
<1>1. /\ UNCHANGED <<archive, img, size, sealed, espFsData, file>>
      /\ walk = NULL /\ sealed /\ result' = NULL
      /\ walk' = [name |-> Stripped(url), p |-> espFsData]
  BY DEF espFsOpen, Idle
<1>2. walk' \in Walk
  BY Calling
<1>3. walk' # NULL /\ (walk').name # NULL
  BY <1>2, EspFsAssumption DEF Walk
<1>4. Wanted = NULL /\ Wanted' # NULL
  BY <1>1, <1>3 DEF Wanted
<1>5. Stage' = Stage /\ Stage # "building" /\ Filed' = Filed /\ View' = View
  BY <1>1, SameView DEF Stage, Filed
<1> QED BY <1>1, <1>4, <1>5 DEF Store!Ask, Filed, Stage, View, Wanted

\* The first file of a name, in the store and here.
LEMMA FirstFacts ==
  ASSUME IInv, NEW n
  PROVE  \A i : i \in Store!First(n) <=>
            i \in 1 .. Len(archive) /\ archive[i].name = n /\ NoneBefore(i, n)
<1>1. DOMAIN archive = 1 .. Len(archive) /\ Len(archive) \in Nat
  BY DEF IInv, Types
<1>2. DOMAIN Filed = 1 .. Len(archive)
      /\ \A i \in 1 .. Len(archive) : Filed[i].name = archive[i].name
  BY <1>1 DEF Filed
<1>3. \A i : i \in Store!First(n) <=>
         /\ i \in DOMAIN Filed /\ Filed[i].name = n
         /\ \A j \in 1 .. i - 1 : Filed[j].name # n
  BY DEF Store!First, Filed
<1>4. \A i \in 1 .. Len(archive) : \A j \in 1 .. i - 1 : j \in 1 .. Len(archive)
  BY <1>1
<1> QED BY <1>2, <1>3, <1>4 DEF NoneBefore

LEMMA NotFoundStep ==
  ASSUME IInv, OpenFails
  PROVE  Store!NotFound
<1>1. /\ UNCHANGED <<archive, img, size, sealed, espFsData, file>>
      /\ walk # NULL /\ walk' = NULL /\ result' = NULL
  BY DEF OpenFails, OpenReturns
<1>2. walk.name # NULL /\ Wanted = walk.name /\ Wanted' = NULL
  <2>1. walk \in Walk
    BY <1>1 DEF IInv, Types
  <2> QED BY <1>1, <2>1, EspFsAssumption DEF Walk, Wanted
<1>3. Stage' = Stage /\ Filed' = Filed /\ View' = View
  BY <1>1, SameView DEF Stage, Filed
<1>4. Stage # "mounted" \/ Store!First(Wanted) = {} \/ \A h \in Handles : View[h] # NULL
  <2>1. CASE espFsData = NULL
    BY <2>1 DEF Stage
  <2>2. CASE espFsData # NULL
    <3>1. Broken \/ Reached.val.last \/ NoMemory
      BY <2>2 DEF OpenFails
    <3>2. PICK i \in 1 .. Len(archive) + 1 :
             /\ NoneBefore(i, walk.name) /\ ~Broken
             /\ Reached.val.last <=> i = Len(archive) + 1
      BY <1>1, <2>2, Standing
    <3>3. CASE Reached.val.last
      <4>1. NoneBefore(Len(archive) + 1, walk.name) /\ Len(archive) \in Nat
        BY <3>2, <3>3 DEF IInv, Types
      <4>2. \A j \in 1 .. Len(archive) : archive[j].name # walk.name
        BY <4>1 DEF NoneBefore
      <4>3. \A j : j \notin Store!First(walk.name)
        BY <4>2, FirstFacts
      <4> QED BY <1>2, <4>3
    <3>4. CASE NoMemory
      BY <3>4, ViewTypes DEF NoMemory
    <3> QED BY <3>1, <3>2, <3>3, <3>4
  <2> QED BY <2>1, <2>2
<1> QED BY <1>1, <1>2, <1>3, <1>4 DEF Store!NotFound, Filed, Stage, View, Wanted

LEMMA SkipStep ==
  ASSUME IInv, OpenSkips
  PROVE  UNCHANGED Store!vars
<1>1. UNCHANGED <<archive, img, size, sealed, espFsData, file, result>> /\ walk # NULL
  BY DEF OpenSkips, AtFile
<1>2. walk' # NULL /\ (walk').name = walk.name
  BY Skipping, EspFsAssumption
<1>3. Wanted' = Wanted
  BY <1>1, <1>2 DEF Wanted
<1>4. Stage' = Stage /\ Filed' = Filed /\ View' = View
  BY <1>1, SameView DEF Stage, Filed
<1> QED BY <1>1, <1>3, <1>4 DEF Store!vars, Filed, Stage, View, Wanted

LEMMA FoundStep ==
  ASSUME IInv, NEW h \in Handles, OpenFinds(h)
  PROVE  Store!Found
<1>1. /\ UNCHANGED <<archive, img, size, sealed, espFsData>>
      /\ AtFile /\ Matches /\ file[h] = NULL /\ walk # NULL /\ espFsData # NULL
      /\ walk' = NULL /\ result' = h
      /\ file' = [file EXCEPT ![h] = Opened(walk.p, Reached.val)]
      /\ file \in [Handles -> EspFsFile \cup {NULL}]
  BY DEF OpenFinds, OpenReturns, AtFile, IInv, Types
<1>2. PICK i \in 1 .. Len(archive) :
           /\ Opened(walk.p, Reached.val) \in EspFsFile
           /\ OfEntry(Opened(walk.p, Reached.val), i)
           /\ Opened(walk.p, Reached.val).posComp = Opened(walk.p, Reached.val).posStart
           /\ archive[i].name = walk.name /\ NoneBefore(i, walk.name)
  BY <1>1, NewHandle
<1>3. walk.name # NULL /\ Wanted = walk.name /\ Wanted' = NULL
  <2>1. walk \in Walk
    BY <1>1 DEF IInv, Types
  <2> QED BY <1>1, <2>1, EspFsAssumption DEF Walk, Wanted
<1>4. Stage' = Stage /\ Stage = "mounted" /\ Filed' = Filed
  BY <1>1 DEF Stage, Filed
<1>5. i \in Store!First(Wanted)
  BY <1>2, <1>3, FirstFacts
<1>6. View[h] = NULL
  BY <1>1, ViewTypes
<1> DEFINE d == archive[i].data
           r == Opened(walk.p, Reached.val)
<1>7. r # NULL /\ (file')[h] = r
  BY <1>1, <1>2, EspFsAssumption
<1>8. d \in Seq(STRING) /\ Len(d) \in Nat
  BY EntryFacts DEF IInv
<1>9. sealed /\ espFsData \in Nat
  BY <1>1, EspFsAssumption DEF IInv, Types, MountInv
<1>10. /\ r.posComp + Len(d) <= r.posStart + Len(d) /\ r.posComp - r.posStart = 0
       /\ r.posComp \in Nat
  BY <1>2, <1>8 DEF EspFsFile
<1>11. /\ At(r.header).val.gzip = archive[i].gzip
       /\ At(r.header).val.fileLenComp = Len(d)
       /\ Bytes(r.posComp, Len(d)) = [k \in 1 .. Len(d) |-> d[r.posComp - r.posStart + k]]
  BY <1>2, <1>8, <1>9, <1>10, HandleSees DEF IInv
<1> HIDE DEF d, r
<1>12. Bytes(r.posComp, Len(d)) = d
  BY <1>8, <1>10, <1>11
<1>13. (\A a : At(a)' = At(a)) /\ (\A a, n : Bytes(a, n)' = Bytes(a, n))
  BY <1>1, SameCells
<1>14. Left(h)' = Len(d)
  BY <1>7, <1>8, <1>10, <1>11, <1>13 DEF Left
<1>15. View'[h] = [left |-> d, gzip |-> archive[i].gzip]
  BY <1>7, <1>11, <1>12, <1>13, <1>14 DEF View
<1>16. \A g \in Handles \ {h} : View'[g] = View[g]
  BY <1>1, <1>13 DEF View, Left
<1>17. View' = [View EXCEPT ![h] = [left |-> d, gzip |-> archive[i].gzip]]
  BY <1>15, <1>16 DEF View
<1>18. /\ Filed[i].gzip = archive[i].gzip
       /\ d = IF Filed[i].gzip THEN compressGzip[Filed[i].raw] ELSE Filed[i].raw
  BY DEF IInv, Types, Forms, Filed, d
<1>19. View' = [View EXCEPT ![h] = [left |-> Store!Form(Filed[i]), gzip |-> Filed[i].gzip]]
  BY <1>17, <1>18 DEF Store!Form
<1> QED BY <1>1, <1>3, <1>4, <1>5, <1>6, <1>19
        DEF Store!Found, Filed, Stage, View, Wanted

LEMMA FlagsStep ==
  ASSUME IInv, NEW h \in Handles, espFsFlags(h)
  PROVE  Store!Flags(h)
<1>1. /\ UNCHANGED <<archive, img, size, sealed, espFsData, walk, file>>
      /\ file[h] # NULL
      /\ result' = IF At(file[h].header).val.gzip THEN <<"FLAG_GZIP">> ELSE <<>>
  BY DEF espFsFlags
<1>2. View[h] # NULL
  BY <1>1, ViewTypes
<1>3. View[h].gzip = At(file[h].header).val.gzip
  BY <1>1 DEF View
<1>4. result' = IF View[h].gzip THEN <<"FLAG_GZIP">> ELSE <<>>
  BY <1>1, <1>3
<1>5. Stage' = Stage /\ Filed' = Filed /\ View' = View /\ Wanted' = Wanted
  BY <1>1, SameView DEF Stage, Filed, Wanted
<1> QED BY <1>2, <1>4, <1>5 DEF Store!Flags, Filed, Stage, View, Wanted

\* A step that changes one handle changes one handle of the store.
LEMMA OneHandle ==
  ASSUME UNCHANGED <<img, size, espFsData>>, NEW h \in Handles,
         \A g \in Handles \ {h} : (file')[g] = file[g]
  PROVE  /\ \A g \in Handles \ {h} : View'[g] = View[g]
         /\ \A v : View'[h] = v => View' = [View EXCEPT ![h] = v]
<1>1. (\A a : At(a)' = At(a)) /\ (\A a, n : Bytes(a, n)' = Bytes(a, n))
  BY SameCells
<1>2. \A g \in Handles \ {h} : View'[g] = View[g]
  BY <1>1 DEF View, Left
<1>3. DOMAIN View = Handles /\ DOMAIN View' = Handles
  BY DEF View
<1>4. View = [g \in Handles |-> View[g]] /\ View' = [g \in Handles |-> View'[g]]
  BY DEF View
<1> QED BY <1>2, <1>3, <1>4

LEMMA ReadStep ==
  ASSUME IInv, NEW h \in Handles, NEW len \in Lens, espFsRead(h, len)
  PROVE  Store!Read(h)
<1>1. file[h] # NULL /\ result' = Bytes(file[h].posComp, ToRead(h, len))
  BY DEF espFsRead
<1>2. /\ UNCHANGED <<archive, img, size, sealed, espFsData, walk>>
      /\ ToRead(h, len) \in 0 .. Left(h)
      /\ ToRead(h, len) = IF len < Left(h) THEN len ELSE Left(h)
      /\ (file')[h] = [header |-> file[h].header, posStart |-> file[h].posStart,
                       posComp |-> file[h].posComp + ToRead(h, len)]
      /\ (file')[h] # NULL
      /\ \A g \in Handles \ {h} : (file')[g] = file[g]
  BY ReadFacts
<1>3. PICK i \in 1 .. Len(archive) :
        /\ View[h] = [left |-> Bytes(file[h].posComp, Left(h)), gzip |-> archive[i].gzip]
        /\ View[h].left \in Seq(STRING) /\ Len(View[h].left) = Left(h)
        /\ Left(h) \in Nat
        /\ \A n \in 0 .. Left(h) : Bytes(file[h].posComp, n) =
              [k \in 1 .. n |-> View[h].left[k]]
  BY <1>1, ViewTypes
<1>4. PICK s \in Seq(STRING), n \in Nat, m \in Nat :
        /\ s = View[h].left /\ n = ToRead(h, len) /\ m = Len(s) /\ m = Left(h)
        /\ n <= m /\ n = IF len < m THEN len ELSE m
  BY <1>2, <1>3
<1>5. result' = SubSeq(s, 1, n)
  <2>1. result' = [k \in 1 .. n |-> s[k]]
    BY <1>1, <1>2, <1>3, <1>4
  <2>2. SubSeq(s, 1, n) = [k \in 1 .. n - 1 + 1 |-> s[1 + k - 1]]
    BY <1>4, SubSeqIs
  <2>3. n - 1 + 1 = n /\ \A k \in 1 .. n : 1 + k - 1 = k
    OBVIOUS
  <2> QED BY <2>1, <2>2, <2>3
<1>6. IInv' /\ (file')[h] # NULL
  BY <1>2, Reading
<1>7. (\A a : At(a)' = At(a)) /\ (\A a, k : Bytes(a, k)' = Bytes(a, k))
  BY <1>2, SameCells
<1>8. PICK ps \in Nat, pc \in Nat :
        ps = file[h].posStart /\ pc = file[h].posComp
  BY <1>1, ViewFacts DEF EspFsFile
<1>9. PICK size0 : /\ size0 = At(file[h].header).val.fileLenComp
                   /\ m = size0 - (pc - ps)
                   /\ size0 \in Nat
  <2>1. PICK j \in 1 .. Len(archive) :
          /\ Left(h) = Len(archive[j].data) - (file[h].posComp - file[h].posStart)
          /\ At(file[h].header).val.fileLenComp = Len(archive[j].data)
    <3>1. sealed /\ espFsData \in Nat /\ file[h] \in EspFsFile
      BY <1>1, ViewFacts
    <3>2. PICK j \in 1 .. Len(archive) :
            /\ OfEntry(file[h], j)
            /\ Left(h) = Len(archive[j].data) - (file[h].posComp - file[h].posStart)
      BY <1>1, ViewFacts
    <3>3. Len(archive[j].data) \in Nat
      BY EntryFacts DEF IInv
    <3>4. file[h].posComp + 0 <= file[h].posStart + Len(archive[j].data)
      <4>1. pc \in ps .. ps + Len(archive[j].data)
        BY <1>8, <3>2 DEF OfEntry
      <4> QED BY <1>8, <3>3, <4>1
    <3> QED BY <3>1, <3>2, <3>4, HandleSees DEF IInv
  <2>2. Len(archive[j].data) \in Nat
    BY EntryFacts DEF IInv
  <2> QED BY <1>4, <1>8, <2>1, <2>2
<1>10. Left(h)' = m - n
  <2>1. Left(h)' = size0 - ((pc + n) - ps)
    <3>1. /\ file'[h].header = file[h].header
          /\ file'[h].posStart = ps /\ file'[h].posComp = pc + n
      BY <1>2, <1>4, <1>8
    <3>2. At(file[h].header)' = At(file[h].header)
      BY <1>7, <3>1
    <3>3. Left(h)' = At(file[h].header)'.val.fileLenComp
                        - (file'[h].posComp - file'[h].posStart)
      BY DEF Left
    <3> QED BY <1>9, <3>1, <3>2, <3>3
  <2>2. m = size0 - (pc - ps) /\ size0 \in Nat /\ n <= m
    BY <1>4, <1>9
  <2> QED BY <2>1, <2>2
<1>11. View'[h] = [left |-> Bytes(pc + n, m - n), gzip |-> View[h].gzip]
  BY <1>1, <1>2, <1>3, <1>4, <1>7, <1>8, <1>10 DEF View
<1>12. Bytes(pc + n, m - n) = SubSeq(s, n + 1, m)
  <2>1. s = Bytes(pc, m)
    BY <1>3, <1>4, <1>8
  <2>2. Bytes(pc + n, m - n) = [k \in 1 .. m - n |-> s[n + k]]
    <3>1. \A k \in 1 .. m - n : /\ n + k \in 1 .. m
                              /\ (pc + n) + k - 1 = pc + (n + k) - 1
      BY <1>4
    <3> QED BY <2>1, <3>1 DEF Bytes
  <2>3. SubSeq(s, n + 1, m) = [k \in 1 .. m - (n + 1) + 1 |-> s[(n + 1) + k - 1]]
    <3>1. n + 1 \in Nat /\ n + 1 >= 1 /\ n + 1 <= m + 1 /\ m <= Len(s)
      BY <1>4
    <3> QED BY <3>1, SubSeqIs
  <2>4. m - (n + 1) + 1 = m - n /\ \A k \in 1 .. m - n : (n + 1) + k - 1 = n + k
    BY <1>4
  <2> QED BY <2>2, <2>3, <2>4
<1>13. View'[h] = [View[h] EXCEPT !.left = SubSeq(s, n + 1, Len(s))]
  <2>1. PICK v, w, t, b, x : /\ v = View[h] /\ v = [left |-> t, gzip |-> b]
                             /\ w = View'[h] /\ x = SubSeq(s, n + 1, m)
    BY <1>3
  <2>2. w = [left |-> x, gzip |-> v.gzip]
    BY <1>11, <1>12, <2>1, Zenon
  <2>3. w = [v EXCEPT !.left = x]
    <3>1. w = [left |-> x, gzip |-> b]
      BY <2>1, <2>2
    <3>2. v = [left |-> t, gzip |-> b]
      BY <2>1
    <3> QED BY ONLY <3>1, <3>2
  <2>4. m = Len(s)
    BY <1>4
  <2> QED BY <2>1, <2>3, <2>4, Zenon
<1>14. View' = [View EXCEPT ![h].left = SubSeq(s, n + 1, Len(s))]
  <2>1. View' = [View EXCEPT ![h] = View'[h]]
    BY <1>2, OneHandle
  <2> QED BY <1>13, <2>1
<1>15. View[h] # NULL
  BY <1>1, ViewTypes
<1>16. Stage' = Stage /\ Filed' = Filed /\ Wanted' = Wanted
  BY <1>2 DEF Stage, Filed, Wanted
<1>17. \E l \in Lens :
         LET left == View[h].left
             k == IF l < Len(left) THEN l ELSE Len(left)
         IN /\ result' = SubSeq(left, 1, k)
            /\ View' = [View EXCEPT ![h].left = SubSeq(left, k + 1, Len(left))]
  BY <1>4, <1>5, <1>14
<1> QED BY <1>15, <1>16, <1>17 DEF Store!Read, Filed, Stage, View, Wanted

LEMMA CloseStep ==
  ASSUME IInv, NEW h \in Handles, espFsClose(h)
  PROVE  Store!Close(h)
<1>1. /\ UNCHANGED <<archive, img, size, sealed, espFsData, walk>>
      /\ file[h] # NULL /\ file' = [file EXCEPT ![h] = NULL] /\ result' = NULL
      /\ file \in [Handles -> EspFsFile \cup {NULL}]
  BY DEF espFsClose, IInv, Types
<1>2. (file')[h] = NULL /\ \A g \in Handles \ {h} : (file')[g] = file[g]
  BY <1>1
<1>3. View'[h] = NULL
  BY <1>2 DEF View
<1>4. View' = [View EXCEPT ![h] = NULL]
  BY <1>1, <1>2, <1>3, OneHandle
<1>5. View[h] # NULL
  BY <1>1, ViewTypes
<1>6. Stage' = Stage /\ Filed' = Filed /\ Wanted' = Wanted
  BY <1>1 DEF Stage, Filed, Wanted
<1> QED BY <1>1, <1>4, <1>5, <1>6 DEF Store!Close, Filed, Stage, View, Wanted

LEMMA StoreInit == Init => Store!Init
<1> SUFFICES ASSUME Init PROVE Store!Init
  OBVIOUS
<1>1. Filed = <<>>
  BY DEF Init, Filed
<1>2. Stage = "building" /\ Wanted = NULL /\ View = [h \in Handles |-> NULL]
  BY DEF Init, Stage, Wanted, View
<1>3. result = NULL
  BY DEF Init
<1> QED BY <1>1, <1>2, <1>3 DEF Store!Init, Filed, Stage, View, Wanted

\* Every step of the image and its readers is one step of the store, or none.
LEMMA StoreStep == IInv /\ [Next]_vars => [Store!Next]_(Store!vars)
<1> SUFFICES ASSUME IInv, [Next]_vars PROVE Store!Next \/ UNCHANGED Store!vars
  OBVIOUS
<1>1. ASSUME NEW line \in Lines, NEW raw \in Contents, handleFile(line, raw)
      PROVE  Store!Next
  BY <1>1, AddStep DEF Store!Next
<1>2. CASE finishArchive
  BY <1>2, FinishStep DEF Store!Next
<1>3. ASSUME NEW a \in Addresses, espFsInit(a)
      PROVE  Store!Next \/ UNCHANGED Store!vars
  BY <1>3, MountStep DEF Store!Next
<1>4. ASSUME NEW url \in Urls, espFsOpen(url) PROVE Store!Next
  BY <1>4, AskStep DEF Store!Next
<1>5. CASE OpenFails
  BY <1>5, NotFoundStep DEF Store!Next
<1>6. CASE OpenSkips
  BY <1>6, SkipStep
<1>7. ASSUME NEW h \in Handles, OpenFinds(h) PROVE Store!Next
  BY <1>7, FoundStep DEF Store!Next
<1>8. ASSUME NEW h \in Handles, espFsFlags(h) PROVE Store!Next
  BY <1>8, FlagsStep DEF Store!Next
<1>9. ASSUME NEW h \in Handles, NEW len \in Lens, espFsRead(h, len) PROVE Store!Next
  BY <1>9, ReadStep DEF Store!Next
<1>10. ASSUME NEW h \in Handles, espFsClose(h) PROVE Store!Next
  BY <1>10, CloseStep DEF Store!Next
<1>11. CASE UNCHANGED vars
  <2>1. UNCHANGED <<archive, img, size, sealed, espFsData, walk, file, result>>
    BY <1>11 DEF vars
  <2>2. Stage' = Stage /\ Filed' = Filed /\ Wanted' = Wanted /\ View' = View
    BY <2>1, SameView DEF Stage, Filed, Wanted
  <2> QED BY <2>1, <2>2 DEF Store!vars, Filed, Stage, View, Wanted
<1> QED BY <1>1, <1>2, <1>3, <1>4, <1>5, <1>6, <1>7, <1>8, <1>9, <1>10, <1>11
        DEF Next, OpenStep

-----------------------------------------------------------------------------
\* The types hold, and no handle is read past the end of its file.
THEOREM TypesOfImage == Spec => []TypeOK
<1>1. IInv => TypeOK
  <2> SUFFICES ASSUME IInv PROVE TypeOK
    OBVIOUS
  <2>1. \A h \in Handles : file[h] # NULL => file[h] \in EspFsFile /\ Left(h) \in Nat
    BY ViewFacts
  <2> QED BY <2>1 DEF IInv, Types, TypeOK, Entry
<1> QED BY <1>1, Initial, Inductive, PTL DEF Spec

\* The image built by mkespfsimage and read by espfs.c is a store of files:
\* what was put in under a name comes out, whole, to every reader.
THEOREM ImageIsStore == Spec => ImplementsStore
  BY Initial, Inductive, StoreInit, StoreStep, PTL DEF Spec, ImplementsStore, Store!Spec

\* Where a search goes on, it goes on behind the header it was at, and where there
\* is room for another one.
Advances ==
    walk # NULL /\ walk' # NULL /\ walk' # walk =>
        walk.p + HDR < (walk').p /\ (walk').p + HDR <= espFsData + size

LEMMA SkipAdvances ==
  ASSUME IInv, OpenSkips
  PROVE  Advances
<1>1. PICK i \in 1 .. Len(archive) : /\ walk.p = espFsData + StartOf(i)
                                    /\ (walk').p = espFsData + StartOf(i + 1)
  BY Skipping
<1>2. sealed /\ espFsData \in Nat
  BY Skipping
<1> DEFINE e == archive[i]
<1>3. /\ e.name \in Seq(STRING) /\ e.data \in Seq(STRING) /\ e.at \in Nat
      /\ StartOf(i) = e.at /\ StartOf(i + 1) = e.at + Size(e)
  BY EntryFacts DEF IInv
<1>4. PICK n \in Nat : n = Size(e) /\ n > HDR
  <2> HIDE DEF e
  <2>1. /\ DataAt(e) \in Nat /\ DataAt(e) > HDR /\ Size(e) \in Nat
        /\ Size(e) >= DataAt(e) + Len(e.data)
    BY <1>3, SizeFacts
  <2>2. Len(e.data) \in Nat /\ HDR \in Nat
    BY <1>3, EspFsAssumption
  <2> QED BY <2>1, <2>2
<1>5. StartOf(i + 1) \in 0 .. End
  <2>1. Len(archive) \in Nat
    BY DEF IInv, Types
  <2>2. i + 1 \in 1 .. Len(archive) + 1
    BY <2>1
  <2> QED BY <2>2 DEF IInv, Chain
<1>6. End = size - HDR /\ size \in Nat /\ HDR \in Nat
  BY <1>2, EspFsAssumption DEF End, IInv, Types
<1> HIDE DEF e
<1>7. walk.p = espFsData + e.at /\ (walk').p = espFsData + e.at + n
  BY <1>1, <1>2, <1>3, <1>4
<1>8. e.at + n <= size - HDR
  BY <1>3, <1>4, <1>5, <1>6
<1> QED BY <1>2, <1>3, <1>4, <1>6, <1>7, <1>8 DEF Advances

LEMMA NextAdvances ==
  ASSUME IInv, [Next]_vars
  PROVE  Advances
<1>1. CASE UNCHANGED walk
  BY <1>1 DEF Advances
<1>2. CASE walk = NULL \/ walk' = NULL
  BY <1>2 DEF Advances
<1>3. CASE OpenSkips
  BY <1>3, SkipAdvances
<1>4. CASE OpenStep
  BY <1>2, <1>3, <1>4 DEF OpenStep, OpenFails, OpenFinds, OpenReturns
<1>5. ASSUME NEW url \in Urls, espFsOpen(url) PROVE Advances
  BY <1>2, <1>5 DEF espFsOpen, Idle
<1> QED BY <1>1, <1>4, <1>5
        DEF Next, vars, handleFile, finishArchive, espFsInit, espFsFlags, espFsRead, espFsClose

\* espfs.c:140-182: no search runs in a circle or out of the image.  Each turn of
\* the loop goes on to a header further behind, and the image is finite.
THEOREM SearchAdvances == Spec => [][Advances]_vars
  BY Initial, Inductive, NextAdvances, PTL DEF Spec
=============================================================================
