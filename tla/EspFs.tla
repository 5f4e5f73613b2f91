-------------------------------- MODULE EspFs --------------------------------
(***************************************************************************)
(* The read-only file system in flash: espfs/mkespfsimage/main.c, which    *)
(* writes the image on the build host, and espfs/espfs.c, which the web    *)
(* server reads it with.  An image is a chain of {header, name, data}, the *)
(* name and the data filled up to ALIGN, that ends with an empty header.   *)
(*                                                                         *)
(* A cell of the image stands for a byte; the header's fields are all in   *)
(* its first cell.  espFsOpen runs one header per step, the other calls in *)
(* one; nothing else runs on the device during a call.                     *)
(***************************************************************************)
EXTENDS Integers, Sequences

CONSTANTS
    Lines,          \* lines of the builder's input: file names, as characters
    Urls,           \* names asked for, as characters
    gzipExtensions, \* extensions, as characters, of the files to compress
    Contents,       \* contents of the files listed
    compressGzip,   \* external (zlib): the compressed form of each content
    HDR,            \* sizeof(EspFsHeader) (16)
    Addresses,      \* where the image may lie in memory
    Handles,        \* the file handles the heap has room for
    Lens,           \* lengths callers read
    NULL,           \* no address, no handle, no call under way
    MaxFiles        \* bound: files in the image

ALIGN == 4

Walk == [name : Seq(STRING), p : Nat \cup {NULL}]
EspFsFile == [header : Nat, posStart : Nat, posComp : Nat]

ASSUME EspFsAssumption ==
    /\ Lines \subseteq Seq(STRING) /\ Urls \subseteq Seq(STRING)
    /\ Contents \subseteq Seq(STRING)
    /\ compressGzip \in [Contents -> Seq(STRING)]
    /\ HDR \in Nat \ {0} /\ HDR % ALIGN = 0
    /\ Addresses \subseteq Nat
    /\ Lens \subseteq Nat
    /\ MaxFiles \in Nat
    /\ NULL \notin Nat /\ NULL \notin Handles /\ NULL \notin Seq(STRING)
    /\ NULL \notin Walk /\ NULL \notin EspFsFile
    /\ NULL \notin [left : Seq(STRING), gzip : BOOLEAN]

VARIABLES
    archive,    \* history: the files written to the image, and where
    img,        \* the image: the cell at each offset
    size,       \* its size
    sealed,     \* finishArchive has run
    espFsData,  \* where the mounted image lies
    walk,       \* the call of espFsOpen under way: the name and p
    file,       \* struct EspFsFile of each open handle
    result      \* what the last call returned

vars == <<archive, img, size, sealed, espFsData, walk, file, result>>

Init ==
    /\ archive = <<>>
    /\ img = [a \in {} |-> 0]
    /\ size = 0
    /\ sealed = FALSE
    /\ espFsData = NULL
    /\ walk = NULL
    /\ file = [h \in Handles |-> NULL]
    /\ result = NULL

(***************************************************************************)
(* The builder.                                                            *)
(***************************************************************************)
\* Filled up to the next multiple of ALIGN.
Round(n) == IF n % ALIGN = 0 THEN n ELSE n + (ALIGN - (n % ALIGN))

\* The listed name without "." and "/" in front.
RealName(line) ==
    LET n == IF line # <<>> /\ line[1] = "." THEN Tail(line) ELSE line
    IN  IF n # <<>> /\ n[1] = "/" THEN Tail(n) ELSE n

shouldCompressGzip(name) ==
    \E i \in DOMAIN name :
        /\ name[i] = "."
        /\ \A j \in i + 1 .. Len(name) : name[j] # "."
        /\ SubSeq(name, i + 1, Len(name)) \in gzipExtensions

\* Mutant: a file stored as it is keeps the flag.
Stored_KeepFlag(line, raw) ==
    LET name   == RealName(line)
        zipped == shouldCompressGzip(name) /\ Len(compressGzip[raw]) <= Len(raw)
    IN  [name |-> name, gzip |-> shouldCompressGzip(name),
         data |-> IF zipped THEN compressGzip[raw] ELSE raw]

\* The file as it is stored: compressed when that is asked for and not larger.
Stored(line, raw) ==
    LET name   == RealName(line)
        zipped == shouldCompressGzip(name) /\ Len(compressGzip[raw]) <= Len(raw)
    IN  [name |-> name, gzip |-> zipped,
         data |-> IF zipped THEN compressGzip[raw] ELSE raw]

NameLen(name) == Len(name) + 1          \* with its '\0'
DataAt(f) == HDR + Round(NameLen(f.name))
Size(f) == DataAt(f) + Round(Len(f.data))

Cell(what, val) == [is |-> what, val |-> val]
Header(last, gzip, nameLen, fileLenComp) ==
    Cell("header", [last |-> last, gzip |-> gzip, nameLen |-> nameLen,
                    fileLenComp |-> fileLenComp])
Zero == Cell("zero", 0)

\* What handleFile writes for file f, cell by cell.
Written(f, k) ==
    CASE k = 0 -> Header(FALSE, f.gzip, Round(NameLen(f.name)), Len(f.data))
      [] k = HDR -> Cell("name", f.name)
      [] k >= DataAt(f) /\ k < DataAt(f) + Len(f.data) ->
             Cell("data", f.data[k - DataAt(f) + 1])
      [] OTHER -> Zero

LastHeader(k) == IF k = 0 THEN Header(TRUE, FALSE, 0, 0) ELSE Zero

\* n cells, numbered from 0, are appended to the image.
Write(n, cells) ==
    /\ img' = [a \in 0 .. size + n - 1 |-> IF a < size THEN img[a] ELSE cells[a - size]]
    /\ size' = size + n

\* A line of the input that names a readable file; the other lines, and an
\* empty file, which mmap refuses, leave nothing in the image.
handleFile(line, raw) ==
    LET f == Stored(line, raw) IN
    /\ ~sealed /\ Len(archive) < MaxFiles
    /\ raw # <<>>
    /\ Write(Size(f), [k \in 0 .. Size(f) - 1 |-> Written(f, k)])
    /\ archive' = Append(archive, [name |-> f.name, raw |-> raw, gzip |-> f.gzip,
                                   data |-> f.data, at |-> size])
    /\ UNCHANGED <<sealed, espFsData, walk, file, result>>

finishArchive ==
    /\ ~sealed /\ sealed' = TRUE
    /\ Write(HDR, [k \in 0 .. HDR - 1 |-> LastHeader(k)])
    /\ UNCHANGED <<archive, espFsData, walk, file, result>>

(***************************************************************************)
(* The device.                                                             *)
(***************************************************************************)
\* The image is complete, and no call is under way.
Idle == walk = NULL /\ sealed

\* The image mapped at its address; what lies beyond it is something else.
Mapped(base, a) == IF a - base \in 0 .. size - 1 THEN img[a - base]
                   ELSE Cell("other", 0)
At(a) == Mapped(espFsData, a)

\* espFsInit accepts the address: aligned, and a header is there.
Mountable(a) == a % ALIGN = 0 /\ Mapped(a, a).is = "header"

espFsInit(a) ==
    /\ Idle /\ espFsData = NULL
    /\ espFsData' = IF Mountable(a) THEN a ELSE NULL
    /\ UNCHANGED <<archive, img, size, sealed, walk, file, result>>

\* The name without any "/" in front.
Stripped(url) ==
    LET stops == {i \in 1 .. Len(url) + 1 : i = Len(url) + 1 \/ url[i] # "/"}
        first == CHOOSE i \in stops : \A j \in stops : i <= j
    IN  SubSeq(url, first, Len(url))

espFsOpen(url) ==
    /\ Idle
    /\ walk' = [name |-> Stripped(url), p |-> espFsData]
    /\ result' = NULL
    /\ UNCHANGED <<archive, img, size, sealed, espFsData, file>>

NoMemory == \A h \in Handles : file[h] # NULL

\* The header at p, the one the walk has reached.
Reached == At(walk.p)
Broken == Reached.is # "header"
Matches == /\ At(walk.p + HDR).is = "name"
           /\ At(walk.p + HDR).val = walk.name

OpenReturns(h) == walk' = NULL /\ result' = h

\* Not mounted, no header, the last header, or no memory for the handle.
OpenFails ==
    /\ walk # NULL
    /\ \/ espFsData = NULL
       \/ espFsData # NULL /\ (Broken \/ Reached.val.last \/ (Matches /\ NoMemory))
    /\ OpenReturns(NULL)
    /\ UNCHANGED <<archive, img, size, sealed, espFsData, file>>

AtFile == walk # NULL /\ espFsData # NULL /\ ~Broken /\ ~Reached.val.last

\* The new handle of the file whose header hdr is at p.
Opened(p, hdr) ==
    LET at == p + HDR + hdr.nameLen
    IN  [header |-> p, posStart |-> at, posComp |-> at]

OpenFinds(h) ==
    /\ AtFile /\ Matches
    /\ file[h] = NULL
    /\ file' = [file EXCEPT ![h] = Opened(walk.p, Reached.val)]
    /\ OpenReturns(h)
    /\ UNCHANGED <<archive, img, size, sealed, espFsData>>

\* Mutant: the walk stays where it is.
NextHeader_Stuck(p, hdr) == p

\* Past the name and the data, and up to the next aligned address.
NextHeader(p, hdr) == Round(p + HDR + hdr.nameLen + hdr.fileLenComp)

OpenSkips ==
    /\ AtFile /\ ~Matches
    /\ walk' = [walk EXCEPT !.p = NextHeader(walk.p, Reached.val)]
    /\ UNCHANGED <<archive, img, size, sealed, espFsData, file, result>>

OpenStep == OpenFails \/ OpenSkips \/ \E h \in Handles : OpenFinds(h)

espFsFlags(h) ==
    /\ Idle /\ file[h] # NULL
    /\ result' = IF At(file[h].header).val.gzip THEN <<"FLAG_GZIP">> ELSE <<>>
    /\ UNCHANGED <<archive, img, size, sealed, espFsData, walk, file>>

\* The cells of an open file that were not read yet.
Left(h) == At(file[h].header).val.fileLenComp - (file[h].posComp - file[h].posStart)

\* n bytes of the image from address a.
Bytes(a, n) == [k \in 1 .. n |-> IF At(a + k - 1).is = "data" THEN At(a + k - 1).val
                                 ELSE "not data"]

\* Mutant: the length asked for is not cut off at the end of the file.
ToRead_Unbounded(h, len) == len

ToRead(h, len) == IF len > Left(h) THEN Left(h) ELSE len

espFsRead(h, len) ==
    /\ Idle /\ file[h] # NULL
    /\ result' = Bytes(file[h].posComp, ToRead(h, len))
    /\ file' = [file EXCEPT ![h].posComp = @ + ToRead(h, len)]
    /\ UNCHANGED <<archive, img, size, sealed, espFsData, walk>>

espFsClose(h) ==
    /\ Idle /\ file[h] # NULL
    /\ file' = [file EXCEPT ![h] = NULL]
    /\ result' = NULL
    /\ UNCHANGED <<archive, img, size, sealed, espFsData, walk>>

Next ==
    \/ \E line \in Lines, raw \in Contents : handleFile(line, raw)
    \/ finishArchive
    \/ \E a \in Addresses : espFsInit(a)
    \/ \E url \in Urls : espFsOpen(url)
    \/ OpenStep
    \/ \E h \in Handles : \/ espFsFlags(h)
                          \/ \E len \in Lens : espFsRead(h, len)
                          \/ espFsClose(h)

\* A call runs until it returns.
Spec == Init /\ [][Next]_vars /\ WF_vars(OpenStep)

-----------------------------------------------------------------------------
\* The variables have their types, and no handle is past the end of its file.
TypeOK ==
    /\ archive \in Seq([name : Seq(STRING), raw : Contents, gzip : BOOLEAN,
                        data : Seq(STRING), at : Nat])
    /\ size \in Nat /\ DOMAIN img = 0 .. size - 1
    /\ sealed \in BOOLEAN
    /\ espFsData \in Addresses \cup {NULL}
    /\ walk = NULL \/ walk \in Walk
    /\ \A h \in Handles : file[h] # NULL =>
           /\ file[h] \in EspFsFile
           /\ Left(h) \in Nat

\* The image is a file store: a name opens the first file archived under it,
\* with its flag; what is read is its data, to the last byte and no further,
\* whatever else is open; an open fails only where the store's may.
Store == INSTANCE FileStore WITH
    Compressed <- compressGzip,
    files   <- [i \in DOMAIN archive |-> [name |-> archive[i].name,
                   raw |-> archive[i].raw, gzip |-> archive[i].gzip]],
    state   <- IF espFsData # NULL THEN "mounted"
               ELSE IF sealed THEN "built" ELSE "building",
    handles <- [h \in Handles |-> IF file[h] = NULL THEN NULL ELSE
                   [left |-> Bytes(file[h].posComp, Left(h)),
                    gzip |-> At(file[h].header).val.gzip]],
    wanted  <- IF walk = NULL THEN NULL ELSE walk.name

ImplementsStore == Store!Spec

\* The walk through the headers comes to an end (espfs.c:140, while(1)).
OpenEnds == walk # NULL ~> walk = NULL
=============================================================================
