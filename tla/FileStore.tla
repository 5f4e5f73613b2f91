------------------------------ MODULE FileStore ------------------------------
(***************************************************************************)
(* What the read-only file system in flash promises, without its image:    *)
(* the files given to the builder, and handles that are read to their end. *)
(* A name opens the first file of that name, with its content and the flag *)
(* that tells whether that is the file itself or its compressed form;      *)
(* every handle has its own position.                                      *)
(***************************************************************************)
EXTENDS Integers, Sequences

CONSTANTS
    Compressed, \* the compressed form of each content
    Handles,    \* the file handles the heap has room for
    NULL,       \* no handle, no call under way
    Lens        \* lengths callers read

VARIABLES
    files,      \* what was archived: a sequence of [name, raw, gzip]
    state,      \* "building", "built" or "mounted"
    handles,    \* what is left to read of each open file, and its flag
    wanted,     \* the name an open call is looking for
    result      \* what the last call returned

vars == <<files, state, handles, wanted, result>>

Init ==
    /\ files = <<>>
    /\ state = "building"
    /\ handles = [h \in Handles |-> NULL]
    /\ wanted = NULL
    /\ result = NULL

\* What is stored of a file.
Form(f) == IF f.gzip THEN Compressed[f.raw] ELSE f.raw

\* One file is added; it never takes more room than it has bytes.
Add ==
    /\ state = "building"
    /\ Len(files') > Len(files)
    /\ LET f == files'[Len(files) + 1]
       IN  /\ files' = Append(files, f)
           /\ Len(Form(f)) <= Len(f.raw)
    /\ UNCHANGED <<state, handles, wanted, result>>

Finish ==
    /\ state = "building" /\ state' = "built"
    /\ UNCHANGED <<files, handles, wanted, result>>

Mount ==
    /\ state = "built" /\ state' = "mounted"
    /\ UNCHANGED <<files, handles, wanted, result>>

Ask ==
    /\ state # "building" /\ wanted = NULL /\ wanted' # NULL
    /\ result' = NULL
    /\ UNCHANGED <<files, state, handles>>

First(n) == {i \in DOMAIN files : /\ files[i].name = n
                                  /\ \A j \in 1 .. i - 1 : files[j].name # n}

Found ==
    /\ wanted # NULL /\ state = "mounted"
    /\ \E i \in First(wanted), h \in Handles :
         /\ handles[h] = NULL
         /\ handles' = [handles EXCEPT ![h] =
                          [left |-> Form(files[i]), gzip |-> files[i].gzip]]
         /\ result' = h
    /\ wanted' = NULL
    /\ UNCHANGED <<files, state>>

\* The only reasons for an open call to return nothing.
NotFound ==
    /\ wanted # NULL
    /\ \/ state # "mounted"
       \/ First(wanted) = {}
       \/ \A h \in Handles : handles[h] # NULL
    /\ wanted' = NULL /\ result' = NULL
    /\ UNCHANGED <<files, state, handles>>

Flags(h) ==
    /\ handles[h] # NULL
    /\ result' = IF handles[h].gzip THEN <<"FLAG_GZIP">> ELSE <<>>
    /\ UNCHANGED <<files, state, handles, wanted>>

Read(h) ==
    /\ handles[h] # NULL
    /\ \E len \in Lens :
         LET left == handles[h].left
             n == IF len < Len(left) THEN len ELSE Len(left)
         IN /\ result' = SubSeq(left, 1, n)
            /\ handles' = [handles EXCEPT ![h].left = SubSeq(left, n + 1, Len(left))]
    /\ UNCHANGED <<files, state, wanted>>

Close(h) ==
    /\ handles[h] # NULL
    /\ handles' = [handles EXCEPT ![h] = NULL]
    /\ result' = NULL
    /\ UNCHANGED <<files, state, wanted>>

Next ==
    \/ Add \/ Finish \/ Mount \/ Ask \/ Found \/ NotFound
    \/ \E h \in Handles : Flags(h) \/ Read(h) \/ Close(h)

Spec == Init /\ [][Next]_vars
=============================================================================
