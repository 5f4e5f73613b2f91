------------------------------- MODULE TextRing -------------------------------
(***************************************************************************)
(* The two texts the firmware keeps for the browser, with one program for  *)
(* both: serial/console.c (what came over the bus) and user/log.c (what    *)
(* os_printf wrote).  The newest characters are in a ring; a page polls it *)
(* over HTTP with html/console.js, which remembers in textEnd how far it   *)
(* has got.                                                                *)
(*                                                                         *)
(* Which page is looked at, with which ring behind it, is chosen at the    *)
(* start.  A character is its number since the ring was last reset and its *)
(* kind, which decides how many characters it takes in a JSON string.      *)
(* Writing, answering and resetting run to the end in the system task; the *)
(* page's requests and the answers are under way in between.               *)
(***************************************************************************)
EXTENDS Integers, Sequences, FiniteSets, SequencesExt

CONSTANTS
    BUF_MAX,        \* size of the ring (console.c: 1024, log.c: 1400)
    RESP_SIZE,      \* what is left in buff[2048] after {"len":.., "text": "
    LogText,        \* kinds of the characters in log lines
    MaxChains,      \* bound: fetchText chains of a page at the same time
    MaxWritten,     \* bound: characters written since the last reset
    MaxResets       \* bound: resets of the console

ASSUME RingAssumption ==
    /\ BUF_MAX \in Nat /\ BUF_MAX >= 2
    /\ RESP_SIZE \in Nat /\ RESP_SIZE > 8
    /\ LogText \subseteq {"plain", "quoted"}
    /\ MaxChains \in Nat \ {0}
    /\ MaxWritten \in Nat /\ MaxResets \in Nat

Pages == {"console", "log"}
Kinds == {"plain", "quoted", "control"}
Char == [n : Nat, kind : Kinds]

\* "\\" and "\"" are escaped, control characters become \u00xx; a '\r' of the
\* console, which ajaxConsole leaves out, is not among the kinds it writes.
Width == [plain |-> 1, quoted |-> 2, control |-> 6]
Count(text, kind) == Cardinality({k \in 1 .. Len(text) : text[k].kind = kind})
TextWidth(text) ==
    Width.plain * Count(text, "plain") + Width.quoted * Count(text, "quoted")
        + Width.control * Count(text, "control")

VARIABLES
    page,           \* the page that is looked at
    buf, wr, rd,    \* console_buf, console_wr, console_rd (and log_..)
    pos,            \* console_pos: characters dropped since the reset
    chain,          \* the fetchText calls of the page and what they wait for
    textEnd,        \* el.textEnd
    shown,          \* el.innerHTML: numbers of characters, and markers
    written,        \* history: kinds of the characters since the reset
    resets,         \* history: number of resets
    flaw            \* history: what befell the page since it was loaded

ring  == <<buf, wr, rd, pos>>
shows == <<textEnd, shown>>
vars  == <<page, ring, chain, shows, written, resets, flaw>>

-----------------------------------------------------------------------------
(* The ring.  The operators work on a record of its variables.             *)

Ring == [buf |-> buf, wr |-> wr, rd |-> rd, pos |-> pos]
Succ(k) == (k + 1) % BUF_MAX

Put_NoPos(r, c) ==
    LET w == Succ(r.wr)
        full == w = r.rd
    IN  [buf |-> [r.buf EXCEPT ![r.wr] = c], wr |-> w,
         rd  |-> IF full THEN Succ(r.rd) ELSE r.rd, pos |-> r.pos]

\* console_write and log_write: "full, we write anyway and loose the oldest".
Put(r, c) ==
    LET w == Succ(r.wr)
        full == w = r.rd
    IN  [buf |-> [r.buf EXCEPT ![r.wr] = c], wr |-> w,
         rd  |-> IF full THEN Succ(r.rd) ELSE r.rd,
         pos |-> IF full THEN r.pos + 1 ELSE r.pos]

Size(r) == (r.wr + BUF_MAX - r.rd) % BUF_MAX
Window(r) == [k \in 1 .. Size(r) |-> r.buf[(r.rd + k - 1) % BUF_MAX]]

SetRing(r) == buf' = r.buf /\ wr' = r.wr /\ rd' = r.rd /\ pos' = r.pos

Numbered(k, kind) == [n |-> k, kind |-> kind]

WriteOne(kind) ==
    /\ SetRing(Put(Ring, Numbered(Len(written) + 1, kind)))
    /\ written' = Append(written, kind)

\* log_write_char puts a '\r' before a '\n'.
WriteNewline ==
    /\ SetRing(Put(Put(Ring, Numbered(Len(written) + 1, "control")),
                   Numbered(Len(written) + 2, "control")))
    /\ written' = written \o <<"control", "control">>

ConsoleWriteChar ==
    /\ page = "console" /\ Len(written) < MaxWritten
    /\ \E kind \in {"plain", "control"} : WriteOne(kind)
    /\ UNCHANGED <<page, chain, shows, resets, flaw>>

LogWriteChar ==
    /\ page = "log" /\ Len(written) + 1 < MaxWritten
    /\ (\E kind \in LogText : WriteOne(kind)) \/ WriteNewline
    /\ UNCHANGED <<page, chain, shows, resets, flaw>>

\* /console/reset
ajaxConsoleReset ==
    /\ page = "console" /\ resets < MaxResets
    /\ resets' = resets + 1
    /\ rd' = 0 /\ wr' = 0 /\ pos' = 0
    /\ written' = <<>>
    /\ flaw' = flaw \cup {"reset"}
    /\ UNCHANGED <<page, buf, chain, shows>>

-----------------------------------------------------------------------------
(* The answer of ajaxConsole and ajaxLog.                                  *)

\* Where to begin in the ring.
Offset(r, start) ==
    CASE start < r.pos -> 0
      [] start >= r.pos + Size(r) -> Size(r)
      [] OTHER -> start - r.pos

\* The loop stops when there may be no room for another character.
Room_Late(len) == len <= RESP_SIZE - 8
Room(len) == len < RESP_SIZE - 8
Fitting(text) ==
    LET begun == {k \in 1 .. Len(text) : Room(TextWidth(SubSeq(text, 1, k - 1)))}
    IN  SubSeq(text, 1, Cardinality(begun))

Answer(r, start) ==
    LET offset == Offset(r, start)
    IN  [len |-> Size(r) - offset, start |-> r.pos + offset,
         text |-> Fitting(SubSeq(Window(r), offset + 1, Size(r)))]

-----------------------------------------------------------------------------
(* The page.  A chain waits for its timer, then for its answer.            *)

None  == [state |-> "none"]
Timer == [state |-> "timer"]
Asked(start) == [state |-> "asked", start |-> start]
Answered(a) == [state |-> "answered", answer |-> a]
Chains == 1 .. MaxChains
UnderWay == {i \in Chains : chain[i].state \in {"asked", "answered"}}
Missing == -1               \* "<missing lines"

SetChain(i, c) == chain' = [chain EXCEPT ![i] = c]

\* The timer of fetchText: the request is made with textEnd as it is then.
Ask(i) ==
    /\ chain[i] = Timer
    /\ SetChain(i, Asked(textEnd))
    /\ flaw' = IF UnderWay = {} THEN flaw ELSE flaw \cup {"overlap"}
    /\ UNCHANGED <<page, ring, shows, written, resets>>

ajaxText(i) ==
    /\ chain[i].state = "asked"
    /\ SetChain(i, Answered(Answer(Ring, chain[i].start)))
    /\ UNCHANGED <<page, ring, shows, written, resets, flaw>>

TextEnd_Added(a) == textEnd + a.len
TextEnd(a) == a.start + a.len

updateText(a) ==
    IF a.len > 0
    THEN /\ shown' = shown \o (IF a.start > textEnd THEN <<Missing>> ELSE <<>>)
                           \o [k \in 1 .. Len(a.text) |-> a.text[k].n]
         /\ textEnd' = TextEnd(a)
         /\ flaw' = IF Len(a.text) < a.len THEN flaw \cup {"cut"} ELSE flaw
    ELSE UNCHANGED <<shown, textEnd, flaw>>

\* console.html polls again and again, log.html once.
Repeat == page = "console"
Receive(i) ==
    /\ chain[i].state = "answered"
    /\ updateText(chain[i].answer)
    /\ SetChain(i, IF Repeat THEN Timer ELSE None)
    /\ UNCHANGED <<page, ring, written, resets>>

Retry_Never == None
Retry == Timer
\* Request or answer is lost or is later than the 9 seconds of ajaxReq.
Fail(i) ==
    /\ chain[i].state \in {"asked", "answered"}
    /\ SetChain(i, Retry)
    /\ UNCHANGED <<page, ring, shows, written, resets, flaw>>

\* log.html: the "Refresh" button.
Refresh ==
    /\ page = "log"
    /\ \E i \in Chains : chain[i] = None /\ SetChain(i, Timer)
    /\ UNCHANGED <<page, ring, shows, written, resets, flaw>>

Loaded == [i \in Chains |-> IF i = 1 THEN Timer ELSE None]

-----------------------------------------------------------------------------
\* consoleInit and logInit, and a page just loaded.
Init ==
    /\ page \in Pages
    /\ buf = [k \in 0 .. BUF_MAX - 1 |-> Numbered(0, "plain")]
    /\ wr = 0 /\ rd = 0 /\ pos = 0
    /\ chain = Loaded
    /\ textEnd = 0 /\ shown = <<>>
    /\ written = <<>>
    /\ resets = 0
    /\ flaw = {}

\* The browser loads the page again.
Load ==
    /\ chain' = Loaded
    /\ textEnd' = 0 /\ shown' = <<>>
    /\ flaw' = {}
    /\ UNCHANGED <<page, ring, written, resets>>

Write == ConsoleWriteChar \/ LogWriteChar \/ ajaxConsoleReset

Next ==
    \/ Write
    \/ \E i \in Chains : Ask(i) \/ ajaxText(i) \/ Receive(i) \/ Fail(i)
    \/ Refresh \/ Load

\* Timers run and the server answers; answers get lost and pages are loaded
\* again, but not always before the page gets any further.
Fairness ==
    \A i \in Chains : SF_vars(Ask(i)) /\ SF_vars(ajaxText(i)) /\ SF_vars(Receive(i))

Spec == Init /\ [][Next]_vars /\ Fairness

-----------------------------------------------------------------------------
Indexes == 0 .. BUF_MAX - 1
ChainStates == {None, Timer} \cup [state : {"asked"}, start : Nat]
    \cup [state : {"answered"}, answer : [len : Nat, start : Nat, text : Seq(Char)]]

\* The variables have their types.
TypeOK ==
    /\ page \in Pages
    /\ buf \in [Indexes -> Char] /\ wr \in Indexes /\ rd \in Indexes /\ pos \in Nat
    /\ chain \in [Chains -> ChainStates]
    /\ textEnd \in Nat /\ shown \in Seq(Nat \cup {Missing})
    /\ written \in Seq(Kinds)
    /\ resets \in 0 .. MaxResets
    /\ flaw \subseteq {"reset", "overlap", "cut"}

\* The ring holds the newest characters, all BUF_MAX - 1 that fit, in the order
\* in which they were written, and console_pos counts those before them (the
\* "Invariants" of console.c:15-20).
HoldsLatest ==
    /\ Size(Ring) = IF Len(written) < BUF_MAX THEN Len(written) ELSE BUF_MAX - 1
    /\ pos + Size(Ring) = Len(written)
    /\ \A k \in 1 .. Size(Ring) :
           Window(Ring)[k] = Numbered(pos + k, written[pos + k])

\* What a page shows are the characters written, each once and in order, up to
\* textEnd, and wherever some are missing it says so: however often the ring
\* overwrote what the page had not fetched, and whatever requests failed.  Not
\* so for a page that was open at a reset, that asked twice at a time, or got an
\* answer cut short for want of room (log.c:116).
ShownInOrder ==
    flaw = {} =>
        LET marked == <<0>> \o shown IN
        /\ \A k \in 1 .. Len(marked) - 1 :
               IF marked[k + 1] = Missing
               THEN k + 2 <= Len(marked) /\ marked[k + 2] > marked[k] + 1
               ELSE marked[k] # Missing => marked[k + 1] = marked[k] + 1
        /\ Last(marked) = textEnd /\ textEnd <= Len(written)

\* The answer with its closing quote, brace and NUL stays within the buffer on
\* the stack: the loop's limit of 2040 leaves room for one \u00xx more.
ResponseFits ==
    \A i \in Chains : chain[i].state = "answered" =>
        TextWidth(chain[i].answer.text) + 3 <= RESP_SIZE

\* Whenever writing pauses the console page catches up with it (it shows every
\* character, or that it was missed), whatever requests fail; unless the console
\* was reset while the page was open.
CatchesUp ==
    []<>(page = "console" => textEnd = Len(written) \/ "reset" \in flaw)
=============================================================================
