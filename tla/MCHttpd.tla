------------------------------ MODULE MCHttpd ------------------------------
(* Small instances of Httpd for TLC: a request is described by what differs *)
(* from a short GET.                                                         *)
EXTENDS Httpd

CONSTANTS p1, p2, p3

Get(url) == [url |-> url, method |-> "GET", headUnits |-> 2, contentLength |-> -1,
             firmware |-> FALSE, gzip |-> FALSE, accepts |-> FALSE]
Post(url, len) == [Get(url) EXCEPT !.method = "POST", !.headUnits = 1, !.contentLength = len]
Short(req) == [req EXCEPT !.headUnits = 1]

\* Files of one and a half chunks, of less than one, of two full ones.
MCFileLen == [name \in {"/a.html", "/b.html", "/full.html"} |->
                 CASE name = "/a.html" -> 3 [] name = "/b.html" -> 1 [] OTHER -> 4]

MCClients == {p1, p2, p3}
MCRequests ==
    [p \in MCClients |->
        CASE p = p1 -> { Get("/a.html"), Post("/flash/upload", 2) }
          [] p = p2 -> { Short([Get("/b.html") EXCEPT !.gzip = TRUE]),
                         [Get("/") EXCEPT !.headUnits = 3], Short(Get("/none")) }
          [] OTHER -> { Post("/b.html", 2) }]

\* The bounds of that instance: the first slot may lose blocks, as many that with
\* the two it may refer to they are MaxHeap.
MaxHeap == 3
LeakBound == repeats \subseteq {1} /\ heap[1] <= MaxHeap

\* Two clients with every kind of request.
MCTwoClients == {p1, p2}
MCEveryRequest ==
    [p \in MCTwoClients |->
        IF p = p1 THEN { Get("/a.html"), Post("/", 2), Post("/flash/upload", 3), Get("/flash/upload") }
        ELSE { [Get("/b.html") EXCEPT !.gzip = TRUE], [Get("/a.html") EXCEPT !.headUnits = 4],
               [Get("/") EXCEPT !.method = "HEAD"], Post("/", 0) }]

\* A file that fills its last chunk.
MCFullRequests == [p \in MCTwoClients |-> IF p = p1 THEN { Get("/full.html") } ELSE { Get("/b.html") }]

\* Uploads that are longer than a sector and shorter, and what starts them.
Image(len) == [Post("/flash/upload", len) EXCEPT !.firmware = TRUE]
MCUploads ==
    [p \in MCTwoClients |->
        IF p = p1 THEN { Image(3) }
        ELSE { Image(1), Short(Get("/flash/reboot")) }]

\* The bound of that instance: from a reboot into anything but a whole image it
\* does not go on (the reboot itself is checked), so that one partition at a
\* time has a history.
Whole(part) ==
    \/ part = FactoryImage
    \/ \E p \in Clients : \E req \in Requests[p] :
          /\ req.firmware
          /\ part = [k \in Units |-> IF k < req.contentLength THEN Content(p, req, k) ELSE Erased]
WholeImageRuns == Whole(flash[userbin])

=============================================================================
