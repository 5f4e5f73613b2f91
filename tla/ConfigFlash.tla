----------------------------- MODULE ConfigFlash -----------------------------
(***************************************************************************)
(* user/config.c: the configuration in RAM (flashConfig) and its two flash *)
(* sectors, primary and backup.  configSave erases and writes the primary, *)
(* then the backup; configRestore takes the first sector with the right    *)
(* version and checksum, or the defaults.  The power may fail at any       *)
(* moment, also inside a flash operation, and every flash operation may    *)
(* report an error.                                                        *)
(*                                                                         *)
(* A configuration is the set of the changes made to the defaults.  The    *)
(* checksum is taken to be injective: a sector that was not written whole  *)
(* is found out.                                                           *)
(***************************************************************************)
EXTENDS Integers, FiniteSets

CONSTANTS
    MaxEdits,       \* bound: changes made by the users
    MaxFaults       \* bound: faults since the last complete save

ASSUME ConfigAssumption == MaxEdits \in Nat /\ MaxFaults \in Nat

Edits   == 1 .. MaxEdits
Configs == SUBSET Edits
Default == {}
Garbage == {0}      \* the contents of a sector that is not written whole

\* The crc field: Zero, or the checksum of a configuration with the crc field
\* it then held.
Zero == <<>>
inet_chksum(cfg, crc) == <<cfg, crc>>

\* A sector; of its version field only whether it is this firmware's counts.
\* Erased also stands for the zeros put in place of a sector that cannot be read.
Erased    == [ours |-> FALSE, cfg |-> Garbage, crc |-> Zero]
Torn(img) == [img EXCEPT !.cfg = Garbage]

VARIABLES
    pc,             \* "boot", "idle", or the flash operation of configSave
    flashConfig,    \* the configuration in RAM, with its crc field
    sector,         \* the two sectors, 0 primary and 1 backup
    ff,             \* configSave: the image being written
    edits,          \* number of changes made
    promised,       \* history: what was last reported saved or restored
    faults          \* history: flash errors and saves cut off since the last
                    \* complete save

vars == <<pc, flashConfig, sector, ff, edits, promised, faults>>

Init ==
    /\ pc = "boot"
    /\ flashConfig = [cfg |-> Default, crc |-> Zero]
    /\ sector = [k \in 0 .. 1 |-> Erased]
    /\ ff = Erased
    /\ edits = 0 /\ promised = Default /\ faults = 0

\* Mutant: a sector is taken for good when its version is right.
Good_VersionOnly(img) == img.ours

\* selectFlash clears the crc field before it computes the checksum.
Good(img) == img.ours /\ img.crc = inet_chksum(img.cfg, Zero)

\* The sector to use, -1 for none.
selectFlash(ff0, ff1) ==
    CASE Good(ff0) -> 0
      [] ~Good(ff0) /\ Good(ff1) -> 1
      [] OTHER -> -1

\* Mutant: the crc field the image was read with stays in flashConfig.
Loaded_KeepCrc(img) == [cfg |-> img.cfg, crc |-> img.crc]

\* What becomes of the image chosen: its crc field was cleared on the way.
Loaded(img) == [cfg |-> img.cfg, crc |-> Zero]

Restored(ff0, ff1) ==
    CASE selectFlash(ff0, ff1) = 0 -> Loaded(ff0)
      [] selectFlash(ff0, ff1) = 1 -> Loaded(ff1)
      [] OTHER -> [cfg |-> Default, crc |-> Zero]

\* Boot: sectors may be unreadable.
configRestore ==
    /\ pc = "boot" /\ pc' = "idle"
    /\ \E unread \in SUBSET {0, 1} :
         LET read(k) == IF k \in unread THEN Erased ELSE sector[k] IN
         /\ faults + Cardinality(unread) <= MaxFaults
         /\ faults' = faults + Cardinality(unread)
         /\ flashConfig' = Restored(read(0), read(1))
    /\ promised' = flashConfig'.cfg
    /\ UNCHANGED <<sector, ff, edits>>

\* A web handler changes the configuration and calls configSave.
ChangeAndSave ==
    /\ pc = "idle" /\ edits < MaxEdits
    /\ edits' = edits + 1
    /\ flashConfig' = [flashConfig EXCEPT !.cfg = @ \cup {edits + 1}]
    /\ pc' = "erase primary"
    /\ UNCHANGED <<sector, ff, promised, faults>>

\* What an erase or a write of img may leave when it fails or is cut off.
HalfErased(k) == {sector[k], Torn(sector[k]), Erased}
HalfWritten(k) == {sector[k], Torn(ff), ff}

Fault == faults < MaxFaults /\ faults' = faults + 1
Put(k, img) == sector' = [sector EXCEPT ![k] = img]

\* The image to write: the crc field is still flashConfig's when the checksum
\* is computed.
Signed(config) ==
    [ours |-> TRUE, cfg |-> config.cfg,
     crc |-> inet_chksum(config.cfg, config.crc)]

\* Mutant: both sectors are erased before either is written.
ErasePrimary_Both ==
    /\ pc = "erase primary"
    /\ \/ /\ sector' = [k \in 0 .. 1 |-> Erased]
          /\ ff' = Signed(flashConfig)
          /\ pc' = "write primary"
          /\ UNCHANGED faults
       \/ /\ \E img \in HalfErased(0) : Put(0, img)
          /\ pc' = "idle"
          /\ Fault /\ UNCHANGED ff
    /\ UNCHANGED <<flashConfig, edits, promised>>

ErasePrimary ==
    /\ pc = "erase primary"
    /\ \/ /\ Put(0, Erased)
          /\ ff' = Signed(flashConfig)
          /\ pc' = "write primary"
          /\ UNCHANGED faults
       \/ /\ \E img \in HalfErased(0) : Put(0, img)
          /\ pc' = "idle"
          /\ Fault /\ UNCHANGED ff
    /\ UNCHANGED <<flashConfig, edits, promised>>

WritePrimary ==
    /\ pc = "write primary"
    /\ \/ Put(0, ff) /\ pc' = "erase backup" /\ UNCHANGED faults
       \/ (\E img \in HalfWritten(0) : Put(0, img)) /\ pc' = "idle" /\ Fault
    /\ UNCHANGED <<flashConfig, ff, edits, promised>>

\* From here on configSave reports success whatever happens.
EraseBackup ==
    /\ pc = "erase backup"
    /\ \/ /\ Put(1, Erased) /\ pc' = "write backup"
          /\ UNCHANGED <<faults, promised>>
       \/ /\ \E img \in HalfErased(1) : Put(1, img)
          /\ pc' = "idle" /\ promised' = flashConfig.cfg /\ Fault
    /\ UNCHANGED <<flashConfig, ff, edits>>

WriteBackup ==
    /\ pc = "write backup" /\ pc' = "idle"
    /\ promised' = flashConfig.cfg
    /\ \/ Put(1, ff) /\ faults' = 0
       \/ (\E img \in HalfWritten(1) : Put(1, img)) /\ Fault
    /\ UNCHANGED <<flashConfig, ff, edits>>

\* The power fails: a save is cut off before, in or after its operation.
PowerCut ==
    /\ pc # "boot" /\ pc' = "boot"
    /\ CASE pc = "idle" -> UNCHANGED <<sector, faults>>
         [] pc = "erase primary" -> Fault /\ \E img \in HalfErased(0) : Put(0, img)
         [] pc = "write primary" -> Fault /\ \E img \in HalfWritten(0) : Put(0, img)
         [] pc = "erase backup" -> Fault /\ \E img \in HalfErased(1) : Put(1, img)
         [] pc = "write backup" -> Fault /\ \E img \in HalfWritten(1) : Put(1, img)
    /\ UNCHANGED <<flashConfig, ff, edits, promised>>

Next ==
    \/ configRestore \/ ChangeAndSave
    \/ ErasePrimary \/ WritePrimary \/ EraseBackup \/ WriteBackup
    \/ PowerCut

Spec == Init /\ [][Next]_vars

-----------------------------------------------------------------------------
Checksums == {Zero} \cup {inet_chksum(cfg, Zero) : cfg \in Configs}
Images == [ours : BOOLEAN, cfg : Configs \cup {Garbage}, crc : Checksums]

\* The variables have their types; in particular the crc field of flashConfig
\* is zero whenever configSave computes a checksum over it.
TypeOK ==
    /\ pc \in {"boot", "idle", "erase primary", "write primary",
               "erase backup", "write backup"}
    /\ flashConfig \in [cfg : Configs, crc : {Zero}]
    /\ sector \in [0 .. 1 -> Images]
    /\ ff \in Images
    /\ edits \in 0 .. MaxEdits
    /\ promised \in Configs
    /\ faults \in 0 .. MaxFaults

\* A boot brings back every change that configSave reported as saved or an
\* earlier boot had restored, if at most one fault (an unreadable sector, a
\* flash error, a save cut off) befell the flash since both sectors were last
\* written.
OneFaultTolerated ==
    [][pc = "boot" /\ pc' = "idle" /\ faults' <= 1
           => promised \subseteq flashConfig'.cfg]_vars

\* The two sectors behave as the cell and the spare of ConfigCell: above all,
\* the backup is left alone until the primary holds the new configuration.
Cell == INSTANCE ConfigCell WITH
    phase <- IF pc \in {"boot", "idle"} THEN pc ELSE "saving",
    mem   <- flashConfig.cfg,
    cell  <- Restored(sector[0], sector[1]).cfg,
    spare <- Restored(Erased, sector[1]).cfg

ImplementsCell == Cell!Spec
=============================================================================
