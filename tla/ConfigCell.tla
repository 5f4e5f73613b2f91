------------------------------ MODULE ConfigCell ------------------------------
(***************************************************************************)
(* What user/config.c promises of the stored configuration, with no        *)
(* sectors and no checksums: a cell that a boot reads, and a spare.  While *)
(* a configuration is being saved the cell may fall back to the spare,     *)
(* then it takes the new configuration; the spare changes only when the    *)
(* cell holds the configuration being saved.                               *)
(***************************************************************************)
EXTENDS Integers

CONSTANT Edits          \* changes a user can make; a configuration is a set

VARIABLES
    phase,              \* "boot", "idle" or "saving"
    mem,                \* the configuration in use
    cell,               \* what a boot restores, {} for the defaults
    spare               \* what it restores when the cell's copy is lost

vars == <<phase, mem, cell, spare>>

Init == phase = "boot" /\ mem = {} /\ cell = {} /\ spare = {}

\* A copy that cannot be read counts as lost.
Boot ==
    /\ phase = "boot" /\ phase' = "idle"
    /\ mem' \in {cell, spare, {}}
    /\ UNCHANGED <<cell, spare>>

Change ==
    /\ phase = "idle" /\ phase' = "saving"
    /\ \E e \in Edits : mem' = mem \cup {e}
    /\ UNCHANGED <<cell, spare>>

FallBack == cell' = spare /\ UNCHANGED spare
Commit   == cell' = mem /\ UNCHANGED spare
Copy     == cell = mem /\ spare' \in {cell, {}} /\ UNCHANGED cell

\* A save goes on, ends, or is cut off.
Save ==
    /\ phase = "saving" /\ phase' \in {"saving", "idle", "boot"}
    /\ UNCHANGED mem
    /\ FallBack \/ Commit \/ Copy \/ UNCHANGED <<cell, spare>>

PowerCut == phase = "idle" /\ phase' = "boot" /\ UNCHANGED <<mem, cell, spare>>

Next == Boot \/ Change \/ Save \/ PowerCut

Spec == Init /\ [][Next]_vars
=============================================================================
