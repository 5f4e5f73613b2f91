---------------------------- MODULE Settings_proofs ----------------------------
(***************************************************************************)
(* Theorems about the settings of the device: how ConfigFlash keeps them   *)
(* in flash, and how those of the network take effect in Wifi.             *)
(*                                                                         *)
(* ConfigFlash, for any number of changes and of faults: type correctness, *)
(* with the crc field of flashConfig zero whenever a checksum is computed  *)
(* over it; a single fault costs no saved change; and the two sectors      *)
(* implement the cell and the spare of ConfigCell.                         *)
(*                                                                         *)
(* The argument is the order of configSave.  With no fault since the last  *)
(* complete save the sectors are equal (SectorsAgree); the primary is      *)
(* destroyed while the backup holds what was promised, and the backup is   *)
(* touched only when the primary holds the image of flashConfig            *)
(* (SaveProgress), which has everything promised and more.                 *)
(*                                                                         *)
(* Wifi, for every set of networks, and any number of requests and events: *)
(* the UART log obeys its setting, changes are applied, and a change that  *)
(* has not been found to work has the check of the fail-safe armed.        *)
(***************************************************************************)
EXTENDS ConfigFlash, Wifi, FiniteSetTheorems, TLAPS

\* What one sector restores.
Recall(img) == IF Good(img) THEN img.cfg ELSE Default

-----------------------------------------------------------------------------
(***************************************************************************)
(* Images and checksums.                                                   *)
(***************************************************************************)

\* The checksum tells a whole image from an interrupted one.
LEMMA GoodImages ==
  /\ Erased \in Images /\ ~Good(Erased)
  /\ \A img \in Images : /\ Torn(img) \in Images /\ ~Good(Torn(img))
                         /\ Good(img) => img.cfg \in Configs
<1>1. Garbage \notin Configs
  BY DEF Garbage, Configs, Edits
<1>2. \A sum \in Checksums : \A cfg : sum = inet_chksum(cfg, Zero) => cfg \in Configs
  BY DEF Checksums, inet_chksum, Zero
<1>3. Erased \in Images /\ ~Good(Erased)
  BY DEF Erased, Good, Images, Checksums
<1>4. ASSUME NEW img \in Images
      PROVE  Torn(img) \in Images /\ ~Good(Torn(img))
  BY <1>1, <1>2, <1>4 DEF Torn, Good, Images
<1>5. ASSUME NEW img \in Images, Good(img)
      PROVE  img.cfg \in Configs
  BY <1>2, <1>5 DEF Good, Images
<1> QED BY <1>3, <1>4, <1>5

\* The image configSave writes is good and restores flashConfig.
LEMMA SignedIsGood ==
  ASSUME NEW config \in [cfg : Configs, crc : {Zero}]
  PROVE  /\ Signed(config) \in Images /\ Good(Signed(config))
         /\ Signed(config).cfg = config.cfg
  BY DEF Signed, Good, Images, Checksums

\* configRestore prefers the primary.
LEMMA RestoredFacts ==
  ASSUME NEW ff0 \in Images, NEW ff1 \in Images
  PROVE  /\ Restored(ff0, ff1) \in [cfg : Configs, crc : {Zero}]
         /\ Good(ff0) => Restored(ff0, ff1).cfg = ff0.cfg
         /\ ~Good(ff0) => Restored(ff0, ff1).cfg = Recall(ff1)
<1>1. (Good(ff0) => ff0.cfg \in Configs) /\ (Good(ff1) => ff1.cfg \in Configs)
  BY GoodImages
<1>2. Default \in Configs
  BY DEF Default, Configs
<1>3. CASE Good(ff0)
  <2>1. Restored(ff0, ff1) = [cfg |-> ff0.cfg, crc |-> Zero]
    BY <1>3 DEF Restored, selectFlash, Loaded
  <2> QED BY <1>1, <1>3, <2>1
<1>4. CASE ~Good(ff0) /\ Good(ff1)
  <2>1. Restored(ff0, ff1) = [cfg |-> ff1.cfg, crc |-> Zero]
    BY <1>4 DEF Restored, selectFlash, Loaded
  <2> QED BY <1>1, <1>4, <2>1 DEF Recall
<1>5. CASE ~Good(ff0) /\ ~Good(ff1)
  <2>1. Restored(ff0, ff1) = [cfg |-> Default, crc |-> Zero]
    BY <1>5 DEF Restored, selectFlash
  <2> QED BY <1>2, <1>5, <2>1 DEF Recall
<1> QED BY <1>3, <1>4, <1>5

\* What is in the flash and what configSave writes there are images.
LEMMA SectorTypes ==
  ASSUME TypeOK
  PROVE  /\ Erased \in Images /\ ff \in Images
         /\ sector \in [0 .. 1 -> Images]
         /\ sector[0] \in Images /\ sector[1] \in Images
         /\ 0 \in 0 .. 1 /\ 1 \in 0 .. 1
<1>1. sector \in [0 .. 1 -> Images] /\ ff \in Images
  BY DEF TypeOK
<1>2. 0 \in 0 .. 1 /\ 1 \in 0 .. 1
  OBVIOUS
<1> QED BY <1>1, <1>2, GoodImages

\* flashConfig's crc is zero, and faults are counted.
LEMMA OtherTypes ==
  ASSUME TypeOK
  PROVE  flashConfig \in [cfg : Configs, crc : {Zero}] /\ faults \in Nat
<1>1. flashConfig \in [cfg : Configs, crc : {Zero}] /\ faults \in 0 .. MaxFaults
  BY DEF TypeOK
<1> QED BY <1>1, ConfigAssumption

\* An operation changes one sector.
LEMMA PutOne ==
  ASSUME TypeOK, NEW img
  PROVE  /\ Put(0, img) => sector'[0] = img /\ sector'[1] = sector[1]
         /\ Put(1, img) => sector'[0] = sector[0] /\ sector'[1] = img
  BY SectorTypes DEF Put

\* An operation that fails or is cut off leaves the sector as it was, as the
\* operation was to leave it, or no good.
LEMMA HalfDone ==
  ASSUME TypeOK, NEW k \in 0 .. 1
  PROVE  /\ \A img \in HalfErased(k) :
              img \in Images /\ (img = sector[k] \/ ~Good(img))
         /\ \A img \in HalfWritten(k) :
              img \in Images /\ (img = sector[k] \/ img = ff \/ ~Good(img))
<1>1. sector[k] \in Images /\ ff \in Images
  BY DEF TypeOK
<1> QED BY <1>1, GoodImages DEF HalfErased, HalfWritten

-----------------------------------------------------------------------------
(***************************************************************************)
(* Type correctness.                                                       *)
(***************************************************************************)
LEMMA InitTypeOK == Init => TypeOK
<1> SUFFICES ASSUME Init PROVE TypeOK
  OBVIOUS
<1>1. Default \in Configs
  BY DEF Default, Configs
<1> QED BY <1>1, GoodImages, ConfigAssumption DEF Init, TypeOK

\* A boot that could not read the sectors in unread.
LEMMA RestoreTypes ==
  ASSUME TypeOK, configRestore
  PROVE  /\ flashConfig' \in [cfg : Configs, crc : {Zero}]
         /\ promised' \in Configs
         /\ faults' \in 0 .. MaxFaults
<1>1. PICK unread \in SUBSET {0, 1} :
         /\ faults' = faults + Cardinality(unread) /\ faults' <= MaxFaults
         /\ flashConfig' = Restored(IF 0 \in unread THEN Erased ELSE sector[0],
                                    IF 1 \in unread THEN Erased ELSE sector[1])
  BY DEF configRestore
<1>2. Cardinality(unread) \in Nat
  <2>1. IsFiniteSet({0} \cup {1})
    BY FS_Singleton, FS_AddElement
  <2>2. {0, 1} = {0} \cup {1}
    OBVIOUS
  <2> QED BY <2>1, <2>2, FS_Subset, FS_CardinalityType
<1>3. /\ (IF 0 \in unread THEN Erased ELSE sector[0]) \in Images
      /\ (IF 1 \in unread THEN Erased ELSE sector[1]) \in Images
  BY SectorTypes
<1>4. flashConfig' \in [cfg : Configs, crc : {Zero}]
  BY <1>1, <1>3, RestoredFacts
<1>5. promised' \in Configs
  BY <1>4 DEF configRestore
<1>6. faults \in 0 .. MaxFaults
  BY DEF TypeOK
<1>7. faults' \in 0 .. MaxFaults
  BY <1>1, <1>2, <1>6, ConfigAssumption
<1> QED BY <1>4, <1>5, <1>7

\* The types survive every step.
LEMMA NextTypeOK == TypeOK /\ [Next]_vars => TypeOK'
<1> SUFFICES ASSUME TypeOK, [Next]_vars PROVE TypeOK'
  OBVIOUS
<1> DEFINE Pcs == {"boot", "idle", "erase primary", "write primary",
                   "erase backup", "write backup"}
<1>a. faults \in 0 .. MaxFaults /\ edits \in 0 .. MaxEdits
  BY DEF TypeOK
<1>b. /\ promised \in Configs /\ flashConfig.cfg \in Configs
      /\ sector \in [0 .. 1 -> Images] /\ ff \in Images
  BY DEF TypeOK
<1>c. 0 \in 0 .. 1 /\ 1 \in 0 .. 1
  OBVIOUS
<1>0. ASSUME Fault PROVE faults' \in 0 .. MaxFaults
  BY <1>a, <1>0, ConfigAssumption DEF Fault
<1>1. ASSUME NEW k \in 0 .. 1, NEW img \in Images, Put(k, img)
      PROVE  sector' \in [0 .. 1 -> Images]
  BY <1>b, <1>1 DEF Put
<1>2. CASE configRestore
  <2>1. UNCHANGED <<sector, ff, edits>> /\ pc' = "idle"
    BY <1>2 DEF configRestore
  <2> QED BY <1>2, <2>1, RestoreTypes DEF TypeOK
<1>3. CASE ChangeAndSave
  <2>1. edits + 1 \in Edits /\ edits' \in 0 .. MaxEdits
    <3>1. edits < MaxEdits /\ edits' = edits + 1
      BY <1>3 DEF ChangeAndSave
    <3> QED BY <1>a, <3>1, ConfigAssumption DEF Edits
  <2>2. flashConfig.cfg \cup {edits + 1} \in Configs
    BY <1>b, <2>1 DEF Configs
  <2>3. flashConfig \in [cfg : Configs, crc : {Zero}]
    BY DEF TypeOK
  <2>4. flashConfig' \in [cfg : Configs, crc : {Zero}]
    BY <1>3, <2>2, <2>3 DEF ChangeAndSave
  <2> QED BY <1>3, <2>1, <2>4 DEF ChangeAndSave, TypeOK
<1>4. CASE ErasePrimary
  <2>1. sector' \in [0 .. 1 -> Images]
    BY <1>b, <1>c, <1>1, <1>4, GoodImages, HalfDone DEF ErasePrimary
  <2>2. ff' \in Images
    BY <1>4, SignedIsGood DEF ErasePrimary, TypeOK
  <2>3. faults' \in 0 .. MaxFaults
    BY <1>a, <1>0, <1>4, ConfigAssumption DEF ErasePrimary
  <2> QED BY <1>4, <2>1, <2>2, <2>3 DEF ErasePrimary, TypeOK
<1>5. CASE WritePrimary
  <2>1. sector' \in [0 .. 1 -> Images]
    BY <1>b, <1>c, <1>1, <1>5, HalfDone DEF WritePrimary
  <2>2. faults' \in 0 .. MaxFaults
    BY <1>a, <1>0, <1>5, ConfigAssumption DEF WritePrimary
  <2> QED BY <1>5, <2>1, <2>2 DEF WritePrimary, TypeOK
<1>6. CASE EraseBackup
  <2>1. sector' \in [0 .. 1 -> Images]
    BY <1>b, <1>c, <1>1, <1>6, GoodImages, HalfDone DEF EraseBackup
  <2>2. faults' \in 0 .. MaxFaults
    BY <1>a, <1>0, <1>6, ConfigAssumption DEF EraseBackup
  <2>3. promised' \in Configs
    BY <1>b, <1>6 DEF EraseBackup
  <2> QED BY <1>6, <2>1, <2>2, <2>3 DEF EraseBackup, TypeOK
<1>7. CASE WriteBackup
  <2>1. sector' \in [0 .. 1 -> Images]
    BY <1>b, <1>c, <1>1, <1>7, HalfDone DEF WriteBackup
  <2>2. faults' \in 0 .. MaxFaults
    <3>1. faults' = 0 \/ Fault
      BY <1>7 DEF WriteBackup
    <3> QED BY <1>0, <3>1, ConfigAssumption
  <2>3. promised' \in Configs
    BY <1>b, <1>7 DEF WriteBackup
  <2> QED BY <1>7, <2>1, <2>2, <2>3 DEF WriteBackup, TypeOK
<1>8. CASE PowerCut
  <2>1. pc \in Pcs \ {"boot"}
    BY <1>8 DEF PowerCut, TypeOK
  <2>2. \/ UNCHANGED <<sector, faults>>
        \/ /\ Fault
           /\ \E k \in 0 .. 1 : \E img \in HalfErased(k) \cup HalfWritten(k) : Put(k, img)
    BY <1>c, <1>8, <2>1 DEF PowerCut
  <2>3. sector' \in [0 .. 1 -> Images]
    BY <1>b, <1>1, <2>2, HalfDone
  <2>4. faults' \in 0 .. MaxFaults
    BY <1>a, <1>0, <2>2
  <2> QED BY <1>8, <2>3, <2>4 DEF PowerCut, TypeOK
<1>9. CASE UNCHANGED vars
  BY <1>9 DEF vars, TypeOK
<1> QED BY <1>2, <1>3, <1>4, <1>5, <1>6, <1>7, <1>8, <1>9 DEF Next

\* config.c:48-120: types, and the crc field of flashConfig is zero whenever
\* configSave computes the checksum over it.
THEOREM ConfigTypeCorrect == Spec => []TypeOK
  BY InitTypeOK, NextTypeOK, PTL DEF Spec

-----------------------------------------------------------------------------
(***************************************************************************)
(* A single fault costs nothing.                                           *)
(***************************************************************************)
Resting == pc \in {"boot", "idle", "erase primary"}

\* flashConfig has what was promised; ff is its image while it is written, and
\* the primary holds that image before the backup is touched.
SaveProgress ==
    /\ promised \subseteq flashConfig.cfg
    /\ pc \in {"write primary", "erase backup", "write backup"} => ff = Signed(flashConfig)
    /\ pc \in {"erase backup", "write backup"} => sector[0] = ff

\* With no fault since the last complete save the sectors agree, and the backup
\* holds what was promised until the primary holds more.
SectorsAgree ==
    faults = 0 =>
        /\ Resting => sector[0] = sector[1] /\ Recall(sector[1]) = promised
        /\ pc = "write primary" => ~Good(sector[0]) /\ Recall(sector[1]) = promised

\* Outside of a save the flash restores what was promised after one fault too.
PromiseKept ==
    faults <= 1 /\ pc \in {"boot", "idle"}
        => promised \subseteq Restored(sector[0], sector[1]).cfg

ConfigInv == TypeOK /\ SaveProgress /\ SectorsAgree /\ PromiseKept

LEMMA InitConfigInv == Init => ConfigInv
<1> SUFFICES ASSUME Init PROVE ConfigInv
  OBVIOUS
<1>1. TypeOK
  BY InitTypeOK
<1>2. /\ sector[0] = Erased /\ sector[1] = Erased /\ pc = "boot"
      /\ promised = Default /\ flashConfig.cfg = Default
  BY DEF Init
<1>3. Recall(Erased) = Default
  BY GoodImages DEF Recall
<1>4. PromiseKept
  BY <1>2 DEF PromiseKept, Default
<1> QED BY <1>1, <1>2, <1>3, <1>4 DEF ConfigInv, SaveProgress, SectorsAgree

\* configRestore: with at most one fault the boot loads what was promised.
LEMMA RestoreKeepsPromise ==
  ASSUME ConfigInv, configRestore
  PROVE  ConfigInv' /\ (faults' <= 1 => promised \subseteq flashConfig'.cfg)
<1>1. TypeOK /\ TypeOK'
  BY NextTypeOK DEF ConfigInv, Next
<1>2. PICK unread \in SUBSET {0, 1} :
         /\ faults' = faults + Cardinality(unread)
         /\ flashConfig' = Restored(IF 0 \in unread THEN Erased ELSE sector[0],
                                    IF 1 \in unread THEN Erased ELSE sector[1])
  BY DEF configRestore
<1>3. /\ pc = "boot" /\ pc' = "idle" /\ promised' = flashConfig'.cfg
      /\ sector' = sector /\ ff' = ff
  BY DEF configRestore
<1>4. faults \in Nat
  BY <1>1, OtherTypes
<1>5. /\ Cardinality({}) = 0 /\ Cardinality({0}) = 1 /\ Cardinality({1}) = 1
      /\ Cardinality({0, 1}) = 2
  <2>1. {0, 1} = {0} \cup {1} /\ 1 \notin {0}
    OBVIOUS
  <2>2. IsFiniteSet({0}) /\ Cardinality({0}) = 1 /\ Cardinality({1}) = 1
    BY FS_Singleton
  <2>3. Cardinality({0} \cup {1}) = 1 + 1
    BY <2>1, <2>2, FS_AddElement
  <2> QED BY <2>1, <2>2, <2>3, FS_EmptySet
<1>6. unread \in {{}, {0}, {1}, {0, 1}}
  OBVIOUS
<1>7. Erased \in Images /\ sector[0] \in Images /\ sector[1] \in Images
  BY <1>1, SectorTypes
<1>8. SaveProgress'
  BY <1>3 DEF SaveProgress
<1>9. CASE unread = {}
  <2>1. faults' = faults /\ flashConfig' = Restored(sector[0], sector[1])
    BY <1>2, <1>4, <1>5, <1>9
  <2>2. PromiseKept' /\ (faults' <= 1 => promised \subseteq flashConfig'.cfg)
    BY <1>3, <2>1 DEF ConfigInv, PromiseKept
  <2>3. SectorsAgree'
    <3> SUFFICES ASSUME faults = 0
                 PROVE  sector[0] = sector[1] /\ Recall(sector[1]) = promised'
      BY <1>3, <2>1 DEF SectorsAgree, Resting
    <3>1. sector[0] = sector[1]
      BY <1>3 DEF ConfigInv, SectorsAgree, Resting
    <3> QED BY <1>3, <1>7, <2>1, <3>1, RestoredFacts DEF Recall
  <2> QED BY <1>1, <1>8, <2>2, <2>3 DEF ConfigInv
<1>10. CASE unread \in {{0}, {1}}
  <2>1. faults' = faults + 1 /\ faults' # 0
    BY <1>2, <1>4, <1>5, <1>10
  <2>2. SectorsAgree'
    BY <2>1 DEF SectorsAgree
  <2>3. ASSUME faults' <= 1
        PROVE  /\ promised \subseteq flashConfig'.cfg
               /\ promised' \subseteq Restored(sector[0], sector[1]).cfg
    <3>1. faults = 0
      BY <1>4, <2>1, <2>3
    <3>2. sector[0] = sector[1] /\ Recall(sector[1]) = promised
      BY <1>3, <3>1 DEF ConfigInv, SectorsAgree, Resting
    <3>3. flashConfig'.cfg = promised
      <4>1. CASE unread = {0}
        <5>1. flashConfig' = Restored(Erased, sector[1])
          BY <1>2, <4>1
        <5> QED BY <1>7, <3>2, <5>1, RestoredFacts, GoodImages
      <4>2. CASE unread = {1}
        <5>1. flashConfig' = Restored(sector[0], Erased)
          BY <1>2, <4>2
        <5> QED BY <1>7, <3>2, <5>1, RestoredFacts, GoodImages DEF Recall
      <4> QED BY <1>10, <4>1, <4>2
    <3>4. Restored(sector[0], sector[1]).cfg = promised
      BY <1>7, <3>2, RestoredFacts DEF Recall
    <3> QED BY <1>3, <3>3, <3>4
  <2>4. PromiseKept'
    BY <1>3, <2>3 DEF PromiseKept
  <2> QED BY <1>1, <1>8, <2>2, <2>3, <2>4 DEF ConfigInv
<1>11. CASE unread = {0, 1}
  <2>1. ~(faults' <= 1) /\ faults' # 0
    BY <1>2, <1>4, <1>5, <1>11
  <2>2. SectorsAgree' /\ PromiseKept'
    BY <2>1 DEF SectorsAgree, PromiseKept
  <2> QED BY <1>1, <1>8, <2>1, <2>2 DEF ConfigInv
<1> QED BY <1>6, <1>9, <1>10, <1>11

\* A fault leaves no claim about the sectors but PromiseKept.
LEMMA FaultKeeps ==
  ASSUME TypeOK, Fault
  PROVE  /\ SectorsAgree'
         /\ faults' <= 1 => faults = 0
<1>1. faults \in Nat /\ faults' = faults + 1
  BY OtherTypes DEF Fault
<1>2. faults' # 0 /\ (faults' <= 1 => faults = 0)
  BY <1>1
<1> QED BY <1>2 DEF SectorsAgree

\* An operation on the primary fails or is cut off: the backup has it all.
LEMMA PrimarySpoilt ==
  ASSUME ConfigInv, Fault, pc \in {"erase primary", "write primary"},
         \E img \in (IF pc = "erase primary" THEN HalfErased(0) ELSE HalfWritten(0)) : Put(0, img),
         UNCHANGED <<flashConfig, ff, edits, promised>>, pc' \in {"idle", "boot"}
  PROVE  SaveProgress' /\ SectorsAgree' /\ PromiseKept'
<1>1. PICK img \in (IF pc = "erase primary" THEN HalfErased(0) ELSE HalfWritten(0)) : Put(0, img)
  OBVIOUS
<1>2. TypeOK /\ Erased \in Images /\ sector[0] \in Images /\ sector[1] \in Images
  BY SectorTypes DEF ConfigInv
<1>3. img \in Images /\ (img = sector[0] \/ img = ff \/ ~Good(img))
  BY <1>2, HalfDone, SectorTypes
<1>4. sector'[0] = img /\ sector'[1] = sector[1]
  BY <1>1, <1>2, PutOne
<1>5. SaveProgress'
  BY DEF SaveProgress, ConfigInv
<1>6. ASSUME faults = 0
      PROVE  promised \subseteq Restored(img, sector[1]).cfg
  <2>1. Recall(sector[1]) = promised
    BY <1>6 DEF ConfigInv, SectorsAgree, Resting
  <2>2. CASE ~Good(img)
    BY <1>2, <1>3, <2>1, <2>2, RestoredFacts
  <2>3. CASE Good(img) /\ pc = "erase primary"
    <3>1. img = sector[0] /\ sector[0] = sector[1]
      BY <1>1, <1>2, <1>6, <2>3, HalfDone, SectorTypes
         DEF ConfigInv, SectorsAgree, Resting
    <3>2. Good(sector[1]) /\ sector[1].cfg = promised
      BY <2>1, <2>3, <3>1 DEF Recall
    <3>3. Restored(sector[1], sector[1]).cfg = sector[1].cfg
      BY <1>2, <3>2, RestoredFacts
    <3> QED BY <3>1, <3>2, <3>3
  <2>4. CASE Good(img) /\ pc = "write primary"
    <3>1. ff = Signed(flashConfig) /\ promised \subseteq flashConfig.cfg
      BY <2>4 DEF ConfigInv, SaveProgress
    <3>2. ~Good(sector[0])
      BY <1>6, <2>4 DEF ConfigInv, SectorsAgree
    <3>3. img.cfg = flashConfig.cfg
      BY <1>2, <1>3, <2>4, <3>1, <3>2, SignedIsGood, OtherTypes
    <3> QED BY <1>2, <1>3, <2>4, <3>1, <3>3, RestoredFacts
  <2> QED BY <2>2, <2>3, <2>4
<1>7. PromiseKept'
  BY <1>2, <1>4, <1>6, FaultKeeps DEF PromiseKept
<1> QED BY <1>2, <1>5, <1>7, FaultKeeps

\* An operation on the backup fails or is cut off: the primary has it all.
LEMMA BackupSpoilt ==
  ASSUME ConfigInv, Fault, pc \in {"erase backup", "write backup"},
         \E img \in HalfErased(1) \cup HalfWritten(1) : Put(1, img),
         UNCHANGED <<flashConfig, ff, edits>>, pc' \in {"idle", "boot"},
         promised' \in {promised, flashConfig.cfg}
  PROVE  SaveProgress' /\ SectorsAgree' /\ PromiseKept'
<1>1. TypeOK
  BY DEF ConfigInv
<1>2. PICK img \in HalfErased(1) \cup HalfWritten(1) : Put(1, img)
  OBVIOUS
<1>3. img \in Images
  BY <1>1, HalfDone, SectorTypes
<1>4. sector'[0] = sector[0] /\ sector'[1] = img
  BY <1>1, <1>2, PutOne
<1>5. /\ promised \subseteq flashConfig.cfg
      /\ sector[0] = Signed(flashConfig)
  BY DEF ConfigInv, SaveProgress
<1>6. promised' \subseteq flashConfig.cfg
  BY <1>5
<1>7. Restored(sector[0], img).cfg = flashConfig.cfg
  <2>1. sector[0] \in Images /\ Good(sector[0]) /\ sector[0].cfg = flashConfig.cfg
    BY <1>1, <1>5, SignedIsGood, OtherTypes
  <2> QED BY <1>3, <2>1, RestoredFacts
<1>8. SaveProgress'
  BY <1>6 DEF SaveProgress
<1>9. PromiseKept'
  BY <1>4, <1>6, <1>7 DEF PromiseKept
<1> QED BY <1>1, <1>8, <1>9, FaultKeeps

\* The steps of configSave.
LEMMA SaveKeepsPromise ==
  ASSUME ConfigInv,
         ErasePrimary \/ WritePrimary \/ EraseBackup \/ WriteBackup
  PROVE  SaveProgress' /\ SectorsAgree' /\ PromiseKept'
<1>1. TypeOK /\ sector[0] \in Images /\ sector[1] \in Images
  BY SectorTypes DEF ConfigInv
<1>2. /\ Put(0, ff) => sector'[0] = ff /\ sector'[1] = sector[1]
      /\ Put(1, ff) => sector'[0] = sector[0] /\ sector'[1] = ff
      /\ Put(0, Erased) => sector'[0] = Erased /\ sector'[1] = sector[1]
      /\ Put(1, Erased) => sector'[0] = sector[0] /\ sector'[1] = Erased
  BY <1>1, PutOne
<1>3. CASE ErasePrimary
  <2>1. pc = "erase primary" /\ UNCHANGED <<flashConfig, edits, promised>>
    BY <1>3 DEF ErasePrimary
  <2>2. CASE pc' = "write primary"
    <3>1. Put(0, Erased) /\ ff' = Signed(flashConfig) /\ faults' = faults
      BY <1>3, <2>2 DEF ErasePrimary
    <3>2. SaveProgress'
      BY <2>1, <2>2, <3>1 DEF SaveProgress, ConfigInv
    <3>3. SectorsAgree'
      BY <1>2, <2>1, <2>2, <3>1, GoodImages DEF SectorsAgree, Resting, ConfigInv
    <3> QED BY <2>2, <3>2, <3>3 DEF PromiseKept
  <2>3. CASE pc' # "write primary"
    <3>1. /\ Fault /\ UNCHANGED ff /\ pc' = "idle"
          /\ \E img \in HalfErased(0) : Put(0, img)
      BY <1>3, <2>3 DEF ErasePrimary
    <3> QED BY <2>1, <3>1, PrimarySpoilt
  <2> QED BY <2>2, <2>3
<1>4. CASE WritePrimary
  <2>1. pc = "write primary" /\ UNCHANGED <<flashConfig, ff, edits, promised>>
    BY <1>4 DEF WritePrimary
  <2>2. CASE pc' = "erase backup"
    <3>1. Put(0, ff) /\ faults' = faults
      BY <1>4, <2>2 DEF WritePrimary
    <3>2. SaveProgress'
      BY <1>2, <2>1, <2>2, <3>1 DEF SaveProgress, ConfigInv
    <3> QED BY <2>2, <3>2 DEF SectorsAgree, Resting, PromiseKept
  <2>3. CASE pc' # "erase backup"
    <3>1. Fault /\ pc' = "idle" /\ \E img \in HalfWritten(0) : Put(0, img)
      BY <1>4, <2>3 DEF WritePrimary
    <3> QED BY <2>1, <3>1, PrimarySpoilt
  <2> QED BY <2>2, <2>3
<1>5. CASE EraseBackup
  <2>1. pc = "erase backup" /\ UNCHANGED <<flashConfig, ff, edits>>
    BY <1>5 DEF EraseBackup
  <2>2. CASE pc' = "write backup"
    <3>1. Put(1, Erased) /\ faults' = faults /\ promised' = promised
      BY <1>5, <2>2 DEF EraseBackup
    <3>2. SaveProgress'
      BY <1>2, <2>1, <2>2, <3>1 DEF SaveProgress, ConfigInv
    <3> QED BY <2>2, <3>2 DEF SectorsAgree, Resting, PromiseKept
  <2>3. CASE pc' # "write backup"
    <3>1. /\ Fault /\ pc' = "idle" /\ promised' = flashConfig.cfg
          /\ \E img \in HalfErased(1) : Put(1, img)
      BY <1>5, <2>3 DEF EraseBackup
    <3> QED BY <2>1, <3>1, BackupSpoilt
  <2> QED BY <2>2, <2>3
<1>6. CASE WriteBackup
  <2>1. /\ pc = "write backup" /\ pc' = "idle" /\ promised' = flashConfig.cfg
        /\ UNCHANGED <<flashConfig, ff, edits>>
    BY <1>6 DEF WriteBackup
  <2>2. CASE Put(1, ff)
    <3>1. sector[0] = ff /\ ff = Signed(flashConfig)
      BY <2>1 DEF ConfigInv, SaveProgress
    <3>2. sector'[0] = ff /\ sector'[1] = ff
      BY <1>2, <2>2, <3>1
    <3>3. ff \in Images /\ Good(ff) /\ ff.cfg = flashConfig.cfg
      BY <1>1, <3>1, SignedIsGood, OtherTypes
    <3>4. Restored(ff, ff).cfg = flashConfig.cfg
      BY <3>3, RestoredFacts
    <3> QED BY <2>1, <3>2, <3>3, <3>4
            DEF SaveProgress, SectorsAgree, Recall, PromiseKept
  <2>3. CASE ~Put(1, ff)
    <3>1. Fault /\ \E img \in HalfWritten(1) : Put(1, img)
      BY <1>6, <2>3 DEF WriteBackup
    <3> QED BY <2>1, <3>1, BackupSpoilt
  <2> QED BY <2>2, <2>3
<1> QED BY <1>3, <1>4, <1>5, <1>6

\* Every step keeps the invariant, and a boot what was promised.
LEMMA NextConfigInv ==
  ASSUME ConfigInv, [Next]_vars
  PROVE  /\ ConfigInv'
         /\ pc = "boot" /\ pc' = "idle" /\ faults' <= 1
                => promised \subseteq flashConfig'.cfg
<1>1. TypeOK'
  BY NextTypeOK DEF ConfigInv
<1>2. CASE configRestore
  BY <1>2, RestoreKeepsPromise
<1>3. CASE ChangeAndSave
  <2>1. /\ pc = "idle" /\ pc' = "erase primary"
        /\ flashConfig'.cfg = flashConfig.cfg \cup {edits + 1}
        /\ UNCHANGED <<sector, ff, promised, faults>>
    BY <1>3 DEF ChangeAndSave, ConfigInv, TypeOK
  <2>2. SaveProgress' /\ SectorsAgree' /\ PromiseKept'
    BY <2>1 DEF ConfigInv, SaveProgress, SectorsAgree, Resting, PromiseKept
  <2> QED BY <1>1, <2>1, <2>2 DEF ConfigInv
<1>4. CASE ErasePrimary \/ WritePrimary \/ EraseBackup \/ WriteBackup
  <2>1. pc # "boot"
    BY <1>4 DEF ErasePrimary, WritePrimary, EraseBackup, WriteBackup
  <2> QED BY <1>1, <1>4, <2>1, SaveKeepsPromise DEF ConfigInv
<1>5. CASE PowerCut
  <2>1. pc' = "boot" /\ UNCHANGED <<flashConfig, ff, edits, promised>>
    BY <1>5 DEF PowerCut
  <2>2. CASE pc = "idle"
    <3>1. UNCHANGED <<sector, faults>>
      BY <1>5, <2>2 DEF PowerCut
    <3> QED BY <1>1, <2>1, <2>2, <3>1
            DEF ConfigInv, SaveProgress, SectorsAgree, Resting, PromiseKept
  <2>3. CASE pc \in {"erase primary", "write primary"}
    <3>1. /\ Fault
          /\ \E img \in (IF pc = "erase primary" THEN HalfErased(0) ELSE HalfWritten(0)) : Put(0, img)
      BY <1>5, <2>3 DEF PowerCut
    <3> QED BY <1>1, <2>1, <2>3, <3>1, PrimarySpoilt DEF ConfigInv
  <2>4. CASE pc \in {"erase backup", "write backup"}
    <3>1. Fault /\ \E img \in HalfErased(1) \cup HalfWritten(1) : Put(1, img)
      BY <1>5, <2>4 DEF PowerCut
    <3> QED BY <1>1, <2>1, <2>4, <3>1, BackupSpoilt DEF ConfigInv
  <2> QED BY <1>5, <2>1, <2>2, <2>3, <2>4 DEF PowerCut, ConfigInv, TypeOK
<1>6. CASE UNCHANGED vars
  BY <1>1, <1>6 DEF vars, ConfigInv, SaveProgress, SectorsAgree, Resting, PromiseKept
<1> QED BY <1>2, <1>3, <1>4, <1>5, <1>6 DEF Next

LEMMA ConfigInvariant == Spec => []ConfigInv
<1>1. ConfigInv /\ [Next]_vars => ConfigInv'
  BY NextConfigInv
<1> QED BY <1>1, InitConfigInv, PTL DEF Spec

\* config.c:48-120: with at most one fault since both sectors were last written,
\* a boot brings back every change reported as saved or restored before.
THEOREM OneFaultCostsNothing == Spec => OneFaultTolerated
<1> DEFINE Step == pc = "boot" /\ pc' = "idle" /\ faults' <= 1
                       => promised \subseteq flashConfig'.cfg
<1>1. ConfigInv /\ [Next]_vars => [Step]_vars
  BY NextConfigInv
<1> QED BY <1>1, ConfigInvariant, PTL DEF Spec, OneFaultTolerated

-----------------------------------------------------------------------------
(***************************************************************************)
(* The sectors implement ConfigCell.                                       *)
(***************************************************************************)
TheCell  == Restored(sector[0], sector[1]).cfg
TheSpare == Restored(Erased, sector[1]).cfg

LEMMA CellFacts ==
  ASSUME TypeOK
  PROVE  /\ Good(sector[0]) => TheCell = sector[0].cfg
         /\ ~Good(sector[0]) => TheCell = Recall(sector[1])
         /\ TheSpare = Recall(sector[1])
  BY SectorTypes, RestoredFacts, GoodImages DEF TheCell, TheSpare

\* SectorTypes, of the next state.
LEMMA NewSectorTypes ==
  ASSUME TypeOK'
  PROVE  sector'[0] \in Images /\ sector'[1] \in Images
<1>1. sector' \in [0 .. 1 -> Images]
  BY DEF TypeOK
<1>2. 0 \in 0 .. 1 /\ 1 \in 0 .. 1
  OBVIOUS
<1> QED BY <1>1, <1>2

\* While the primary is at work the cell stays, takes flashConfig or falls back.
LEMMA PrimaryStep ==
  ASSUME TypeOK, TypeOK', sector'[1] = sector[1],
         \/ sector'[0] = sector[0] \/ ~Good(sector'[0])
         \/ Good(sector'[0]) /\ sector'[0].cfg = flashConfig.cfg
  PROVE  TheCell' \in {TheCell, TheSpare, flashConfig.cfg} /\ TheSpare' = TheSpare
<1>1. TheSpare' = TheSpare
  BY DEF TheSpare
<1>2. CASE sector'[0] = sector[0]
  BY <1>1, <1>2 DEF TheCell
<1>3. CASE ~Good(sector'[0])
  <2>1. TheCell' = Restored(sector'[0], sector'[1]).cfg
    BY DEF TheCell
  <2>2. sector'[0] \in Images /\ sector'[1] \in Images
    BY NewSectorTypes
  <2> QED BY <1>1, <1>3, <2>1, <2>2, RestoredFacts, CellFacts
<1>4. CASE Good(sector'[0]) /\ sector'[0].cfg = flashConfig.cfg
  <2>1. TheCell' = Restored(sector'[0], sector'[1]).cfg
    BY DEF TheCell
  <2>2. sector'[0] \in Images /\ sector'[1] \in Images
    BY NewSectorTypes
  <2> QED BY <1>1, <1>4, <2>1, <2>2, RestoredFacts
<1> QED BY <1>2, <1>3, <1>4

\* While the backup is at work the cell is flashConfig, and the spare stays,
\* takes it or is lost.
LEMMA BackupStep ==
  ASSUME ConfigInv, TypeOK', pc \in {"erase backup", "write backup"},
         sector'[0] = sector[0],
         sector'[1] = sector[1] \/ sector'[1] = ff \/ ~Good(sector'[1])
  PROVE  /\ TheCell = flashConfig.cfg /\ TheCell' = TheCell
         /\ TheSpare' \in {TheSpare, TheCell, {}}
<1>1. TypeOK /\ sector[0] = ff /\ ff = Signed(flashConfig)
  BY DEF ConfigInv, SaveProgress
<1>2. Good(ff) /\ ff.cfg = flashConfig.cfg
  BY <1>1, SignedIsGood, OtherTypes
<1>3. TheCell = flashConfig.cfg
  BY <1>1, <1>2, CellFacts
<1>4. sector'[0] \in Images /\ sector'[1] \in Images
  BY NewSectorTypes
<1>5. TheCell' = TheCell
  <2>1. TheCell' = Restored(sector'[0], sector'[1]).cfg
    BY DEF TheCell
  <2>2. Good(sector'[0]) /\ sector'[0].cfg = flashConfig.cfg
    BY <1>1, <1>2
  <2> QED BY <1>3, <1>4, <2>1, <2>2, RestoredFacts
<1>6. TheSpare' = Recall(sector'[1])
  <2>1. TheSpare' = Restored(Erased, sector'[1]).cfg
    BY DEF TheSpare
  <2> QED BY <1>4, <2>1, RestoredFacts, GoodImages
<1>7. TheSpare' \in {TheSpare, TheCell, {}}
  BY <1>1, <1>2, <1>3, <1>6, CellFacts DEF Recall, Default
<1> QED BY <1>3, <1>5, <1>7

\* Everything that can happen in a save is a step of the abstract save.
LEMMA SaveStep ==
  ASSUME ConfigInv, TypeOK',
         ErasePrimary \/ WritePrimary \/ EraseBackup \/ WriteBackup
            \/ (PowerCut /\ pc # "idle")
  PROVE  Cell!Save
<1>1. TypeOK /\ ff \in Images
  BY SectorTypes DEF ConfigInv
<1>2. /\ pc \notin {"boot", "idle"} /\ flashConfig' = flashConfig
  BY DEF ErasePrimary, WritePrimary, EraseBackup, WriteBackup, PowerCut
<1>3. CASE pc \in {"erase primary", "write primary"}
  <2>1. \/ \E img \in HalfErased(0) : Put(0, img)
        \/ /\ pc = "write primary"
           /\ \E img \in HalfWritten(0) : Put(0, img)
    BY <1>3 DEF ErasePrimary, WritePrimary, EraseBackup, WriteBackup, PowerCut,
                HalfErased, HalfWritten
  <2>2. sector'[1] = sector[1]
    BY <1>1, <2>1, PutOne
  <2>3. \/ sector'[0] = sector[0] \/ ~Good(sector'[0])
        \/ Good(sector'[0]) /\ sector'[0].cfg = flashConfig.cfg
    <3>1. CASE \E img \in HalfErased(0) : Put(0, img)
      BY <1>1, <3>1, PutOne, HalfDone, SectorTypes
    <3>2. CASE pc = "write primary" /\ \E img \in HalfWritten(0) : Put(0, img)
      <4>1. \/ sector'[0] = sector[0] \/ ~Good(sector'[0]) \/ sector'[0] = ff
        BY <1>1, <3>2, PutOne, HalfDone, SectorTypes
      <4>2. ff = Signed(flashConfig)
        BY <3>2 DEF ConfigInv, SaveProgress
      <4> QED BY <1>1, <4>1, <4>2, SignedIsGood, OtherTypes
    <3> QED BY <2>1, <3>1, <3>2
  <2>4. TheCell' \in {TheCell, TheSpare, flashConfig.cfg} /\ TheSpare' = TheSpare
    BY <1>1, <2>2, <2>3, PrimaryStep
  <2>5. Cell!FallBack \/ Cell!Commit \/ UNCHANGED <<TheCell, TheSpare>>
    BY <2>4 DEF Cell!FallBack, Cell!Commit, TheCell, TheSpare
  <2> QED BY <1>2, <2>5 DEF Cell!Save, TheCell, TheSpare
<1>4. CASE pc \in {"erase backup", "write backup"}
  <2>1. \E img \in HalfErased(1) \cup HalfWritten(1) : Put(1, img)
    BY <1>4 DEF ErasePrimary, WritePrimary, EraseBackup, WriteBackup, PowerCut,
                HalfErased, HalfWritten
  <2>2. /\ sector'[0] = sector[0]
        /\ sector'[1] = sector[1] \/ sector'[1] = ff \/ ~Good(sector'[1])
    BY <1>1, <2>1, PutOne, HalfDone, SectorTypes
  <2>3. /\ TheCell = flashConfig.cfg /\ TheCell' = TheCell
        /\ TheSpare' \in {TheSpare, TheCell, {}}
    BY <1>4, <2>2, BackupStep
  <2>4. Cell!Copy \/ UNCHANGED <<TheCell, TheSpare>>
    BY <2>3 DEF Cell!Copy, TheCell, TheSpare
  <2> QED BY <1>2, <2>4 DEF Cell!Save, TheCell, TheSpare
<1> QED BY <1>1, <1>2, <1>3, <1>4 DEF TypeOK

\* A boot reads the cell, the spare or nothing.
LEMMA BootStep ==
  ASSUME TypeOK, configRestore
  PROVE  Cell!Boot
<1>1. PICK ff0 \in {sector[0], Erased}, ff1 \in {sector[1], Erased} :
          flashConfig' = Restored(ff0, ff1)
  BY DEF configRestore
<1>2. pc = "boot" /\ pc' = "idle" /\ sector' = sector
  BY DEF configRestore
<1>3. ff0 \in Images /\ ff1 \in Images
  BY <1>1, SectorTypes
<1>4. flashConfig'.cfg \in {TheCell, TheSpare, {}}
  BY <1>1, <1>3, RestoredFacts, CellFacts, GoodImages DEF Recall, Default
<1> QED BY <1>2, <1>4 DEF Cell!Boot, TheCell, TheSpare

LEMMA InitCell == Init => Cell!Init
<1> SUFFICES ASSUME Init PROVE Cell!Init
  OBVIOUS
<1>1. Restored(Erased, Erased).cfg = {}
  BY GoodImages, RestoredFacts DEF Recall, Default
<1> QED BY <1>1 DEF Init, Cell!Init, Default

\* Every step of ConfigFlash is a step of ConfigCell or changes nothing there.
LEMMA NextCell ==
  ASSUME ConfigInv, [Next]_vars
  PROVE  [Cell!Next]_(Cell!vars)
<1>1. TypeOK /\ TypeOK'
  BY NextTypeOK DEF ConfigInv
<1>2. CASE configRestore
  BY <1>1, <1>2, BootStep DEF Cell!Next
<1>3. CASE ChangeAndSave
  <2>0. edits < MaxEdits
    BY <1>3 DEF ChangeAndSave
  <2>1. /\ pc = "idle" /\ pc' = "erase primary" /\ sector' = sector
        /\ flashConfig'.cfg = flashConfig.cfg \cup {edits + 1}
    BY <1>3 DEF ChangeAndSave, ConfigInv, TypeOK
  <2>2. edits \in 0 .. MaxEdits
    BY <1>1 DEF TypeOK
  <2>3. edits + 1 \in Edits
    BY <2>0, <2>2, ConfigAssumption DEF Edits
  <2>4. Cell!Change
    BY <2>1, <2>3 DEF Cell!Change
  <2> QED BY <2>4 DEF Cell!Next
<1>4. CASE \/ ErasePrimary \/ WritePrimary \/ EraseBackup \/ WriteBackup
           \/ (PowerCut /\ pc # "idle")
  BY <1>1, <1>4, SaveStep DEF Cell!Next
<1>5. CASE PowerCut /\ pc = "idle"
  <2>1. pc' = "boot" /\ sector' = sector /\ flashConfig' = flashConfig
    BY <1>5 DEF PowerCut
  <2> QED BY <1>5, <2>1 DEF Cell!Next, Cell!PowerCut
<1>6. CASE UNCHANGED vars
  BY <1>6 DEF vars, Cell!vars
<1> QED BY <1>2, <1>3, <1>4, <1>5, <1>6 DEF Next

\* config.c:48-120: the two sectors are a cell and its spare; above all the
\* spare is only touched when the cell holds the configuration being saved.
THEOREM SectorsImplementCell == Spec => ImplementsCell
<1>1. ConfigInv /\ [Next]_vars => [Cell!Next]_(Cell!vars)
  BY NextCell
<1> QED BY <1>1, InitCell, ConfigInvariant, PTL DEF Spec, ImplementsCell, Cell!Spec

-----------------------------------------------------------------------------
(***************************************************************************)
(* Wifi.                                                                   *)
(***************************************************************************)
\* The check is armed until it has found everything to work.
CheckArmed == Pending => resetTimer

\* A network asked for and not overtaken is the one reassTimerCb will set.
Delivered == reassTimer = "assoc" => stconf = asked

WifiInv ==
    /\ WifiTypeOK
    /\ UartLogHonoured
    /\ ChangesApplied
    /\ CheckArmed
    /\ Delivered

-----------------------------------------------------------------------------
\* log_uart follows the user's setting, whatever it is called with.
LEMMA NoUartObeys ==
    ASSUME NEW enable \in BOOLEAN, NEW mode \in {"auto", "off", "on"},
           log_no_uart \in BOOLEAN
    PROVE  /\ NoUart(enable, mode) \in BOOLEAN
           /\ UartLogHonoured /\ mode = log_mode =>
                /\ mode = "on" => ~NoUart(enable, mode)
                /\ mode = "off" => NoUart(enable, mode)
           /\ mode = "on" /\ enable => ~NoUart(enable, mode)
           /\ mode = "off" /\ ~enable => NoUart(enable, mode)
  <1>1. CASE ~enable /\ ~log_no_uart /\ mode # "on"
    BY <1>1 DEF NoUart, UartLogHonoured
  <1>2. CASE enable /\ log_no_uart /\ mode # "off"
    BY <1>2 DEF NoUart, UartLogHonoured
  <1>3. CASE ~(~enable /\ ~log_no_uart /\ mode # "on") /\ ~(enable /\ log_no_uart /\ mode # "off")
    <2>1. NoUart(enable, mode) = log_no_uart
      BY <1>3 DEF NoUart
    <2>. QED  BY <1>3, <2>1 DEF UartLogHonoured
  <1>. QED  BY <1>1, <1>2, <1>3

LEMMA WifiInitially == WifiInit => WifiInv
  <1>. SUFFICES ASSUME WifiInit PROVE WifiInv
    OBVIOUS
  <1>1. log_no_uart \in BOOLEAN /\ dhcpc \in BOOLEAN /\ UartLogHonoured
    <2>1. log_no_uart = (log_mode = "off") /\ dhcpc = ~staticip
      BY DEF WifiInit
    <2>2. log_mode = "on" => log_mode # "off"
      OBVIOUS
    <2>. QED  BY <2>1, <2>2, Zenon DEF UartLogHonoured
  <1>2. ChangesApplied /\ CheckArmed /\ Delivered
    BY DEF WifiInit, ChangesApplied, CheckArmed, Delivered
  <1>3. WifiTypeOK
    BY <1>1, WifiAssumption DEF WifiInit, WifiTypeOK
  <1>. QED  BY <1>1, <1>2, <1>3 DEF WifiInv

LEMMA WifiKept ==
    ASSUME WifiInv, [WifiNext]_wifiVars
    PROVE  WifiInv'
  <1>. USE WifiAssumption DEF Modes
  <1>1. CASE Associate
    BY <1>1 DEF Associate, WifiInv, WifiTypeOK, UartLogHonoured, ChangesApplied,
                CheckArmed, Delivered, Pending, timers, scans, log, history, bounds
  <1>2. CASE GetIp
    BY <1>2 DEF GetIp, WifiInv, WifiTypeOK, UartLogHonoured, ChangesApplied,
                CheckArmed, Delivered, Pending, timers, scans, log, history, bounds
  <1>3. CASE AirChanges
    BY <1>3 DEF AirChanges, WifiInv, WifiTypeOK, UartLogHonoured, ChangesApplied,
                CheckArmed, Delivered, Pending, timers, scans, log, history
  <1>4. CASE PowerCycle
    BY <1>4 DEF PowerCycle, Booted, WifiInv, WifiTypeOK, UartLogHonoured, ChangesApplied,
                CheckArmed, Delivered, Pending
  <1>5. ASSUME NEW ssid \in Networks, cgiWiFiConnect(ssid)
        PROVE  WifiInv'
    BY <1>5 DEF cgiWiFiConnect, Request, WifiInv, WifiTypeOK, UartLogHonoured, ChangesApplied,
                CheckArmed, Delivered, Pending, sdk, scans, log
  <1>6. ASSUME NEW static \in BOOLEAN, cgiWiFiSpecial(static)
        PROVE  WifiInv'
    BY <1>6 DEF cgiWiFiSpecial, Request, WifiInv, WifiTypeOK, UartLogHonoured, ChangesApplied,
                CheckArmed, Delivered, Pending, sdk, scans, log
  <1>7. ASSUME NEW m \in Modes, cgiWiFiSetMode(m)
        PROVE  WifiInv'
    <2>1. UNCHANGED <<station, dhcpc, wifiState, air, staticip, stconf, reassTimer,
                      scanInProgress, scanTimer, scan, log_mode, log_no_uart, asked, overtaken,
                      events>>
      BY <1>7 DEF cgiWiFiSetMode, scans, log
    <2>2. /\ opmode' \in Modes /\ status' \in {"none", "assoc", "gotip"}
          /\ requests' \in 0 .. MaxRequests
          /\ unchecked' \subseteq {"reset", "connect", "mode", "special"}
      BY <1>7 DEF cgiWiFiSetMode, SetOpmode, Request, WifiInv, WifiTypeOK
    <2>3. resetTimer' \in BOOLEAN /\ (resetTimer => resetTimer')
      BY <1>7, Zenon DEF cgiWiFiSetMode
    <2>4. CheckArmed'
      <3>1. CASE m = STA
        BY <3>1, <1>7, Zenon DEF cgiWiFiSetMode, CheckArmed
      <3>2. CASE m # STA
        BY <3>2, <1>7, <2>3 DEF cgiWiFiSetMode, CheckArmed, WifiInv, Pending
      <3>. QED  BY <3>1, <3>2
    <2>. QED  BY <2>1, <2>2, <2>3, <2>4
              DEF WifiInv, WifiTypeOK, UartLogHonoured, ChangesApplied, Delivered
  <1>8. CASE cgiWiFiStartScan
    BY <1>8 DEF cgiWiFiStartScan, Request, WifiInv, WifiTypeOK, UartLogHonoured, ChangesApplied,
                CheckArmed, Delivered, Pending, sdk, timers, log, history
  <1>9. ASSUME NEW mode \in {"auto", "off", "on"}, ajaxLogDbg(mode)
        PROVE  WifiInv'
    <2>1. log_no_uart' \in BOOLEAN /\ UartLogHonoured'
      BY <1>9, NoUartObeys DEF ajaxLogDbg, WifiInv, WifiTypeOK, UartLogHonoured
    <2>2. UNCHANGED <<opmode, station, status, dhcpc, wifiState, air, staticip, stconf, reassTimer,
                      resetTimer, scanInProgress, scanTimer, scan, asked, overtaken, unchecked,
                      events>>
          /\ requests' \in 0 .. MaxRequests /\ log_mode' = mode
      BY <1>9 DEF ajaxLogDbg, Request, WifiInv, WifiTypeOK, sdk, timers, scans, history
    <2>. QED  BY <2>1, <2>2 DEF WifiInv, WifiTypeOK, ChangesApplied, CheckArmed, Delivered, Pending
  <1>10. CASE resetTimerCb
    <2>1. log_no_uart' \in BOOLEAN /\ UartLogHonoured'
      BY <1>10, NoUartObeys DEF resetTimerCb, WifiInv, WifiTypeOK, UartLogHonoured
    <2>2. /\ UNCHANGED <<station, dhcpc, wifiState, air, staticip, stconf, reassTimer,
                         scanInProgress, scanTimer, scan, log_mode, asked, overtaken,
                         requests, events>>
          /\ opmode' \in Modes /\ status' \in {"none", "assoc", "gotip"}
          /\ resetTimer' \in BOOLEAN
          /\ unchecked' \subseteq unchecked
          /\ resetTimer' \/ unchecked' = {}
      BY <1>10 DEF resetTimerCb, SetOpmode, WifiInv, WifiTypeOK, scans, bounds, STA, STA_AP
    <2>. QED  BY <2>1, <2>2 DEF WifiInv, WifiTypeOK, ChangesApplied, CheckArmed, Delivered, Pending
  <1>11. CASE reassTimerCb
    BY <1>11 DEF reassTimerCb, WifiInv, WifiTypeOK, UartLogHonoured, ChangesApplied, CheckArmed,
                 Delivered, Pending, scans, log, bounds
  <1>12. CASE configWifiIP
    BY <1>12 DEF configWifiIP, WifiInv, WifiTypeOK, UartLogHonoured, ChangesApplied, CheckArmed,
                 Delivered, Pending, scans, log, bounds
  <1>13. CASE scanStartCb
    BY <1>13 DEF scanStartCb, WifiInv, WifiTypeOK, UartLogHonoured, ChangesApplied, CheckArmed,
                 Delivered, Pending, sdk, timers, log, history, bounds
  <1>14. CASE ScanDone
    BY <1>14 DEF ScanDone, wifiScanDoneCb, WifiInv, WifiTypeOK, UartLogHonoured, ChangesApplied,
                 CheckArmed, Delivered, Pending, sdk, timers, log, history, bounds
  <1>15. CASE UNCHANGED wifiVars
    BY <1>15 DEF wifiVars, WifiInv, WifiTypeOK, UartLogHonoured, ChangesApplied, CheckArmed,
                Delivered,  Pending, sdk, timers, scans, log, history, bounds
  <1>. QED
    BY <1>1, <1>2, <1>3, <1>4, <1>5, <1>6, <1>7, <1>8, <1>9, <1>10, <1>11, <1>12, <1>13,
       <1>14, <1>15
    DEF WifiNext, Requests

LEMMA WifiInvariant == WifiSpec => []WifiInv
  BY WifiInitially, WifiKept, PTL DEF WifiSpec

-----------------------------------------------------------------------------
\* The variables keep their types, and a scan that is waited for is under way:
\* its timer and the radio are busy only while scanInProgress says so.
THEOREM WifiTypeCorrect == WifiSpec => []WifiTypeOK
  <1>1. WifiInv => WifiTypeOK
    BY DEF WifiInv
  <1>. QED  BY <1>1, WifiInvariant, PTL

\* The UART log obeys the user's setting under every order of requests, checks
\* of the fail-safe and resets.
THEOREM UartLogIsHonoured == WifiSpec => []UartLogHonoured
  <1>1. WifiInv => UartLogHonoured
    BY DEF WifiInv
  <1>. QED  BY <1>1, WifiInvariant, PTL

\* A change that nobody overtook is in use once its timer has fired.
THEOREM ChangesAreApplied == WifiSpec => []ChangesApplied
  <1>1. WifiInv => ChangesApplied
    BY DEF WifiInv
  <1>. QED  BY <1>1, WifiInvariant, PTL

\* The safety half of FailSafe: no order of requests, timers, events and resets
\* leaves a change of network or mode without a check to come.
THEOREM CheckStaysArmed == WifiSpec => []CheckArmed
  <1>1. WifiInv => CheckArmed
    BY DEF WifiInv
  <1>. QED  BY <1>1, WifiInvariant, PTL

\* A scan that is in progress is still to be started, or was: by then it runs, or
\* the SDK refused it, and scanStartCb took no notice.
ScanUnderWay == scanInProgress => scanTimer \/ scan # "idle"

LEMMA ScanKept == ScanUnderWay /\ [WifiNext]_wifiVars => ScanUnderWay'
  BY DEF WifiNext, Requests, cgiWiFiConnect, cgiWiFiSpecial, cgiWiFiSetMode, cgiWiFiStartScan,
         ajaxLogDbg, Associate, GetIp, AirChanges, PowerCycle, Booted, resetTimerCb,
         reassTimerCb, configWifiIP, scanStartCb, ScanDone, wifiScanDoneCb, wifiVars, scans,
         ScanUnderWay

\* The safety half of ScanEnds: "We're still scanning" (cgiwifi.c) is only said while
\* a timer or the SDK is to end it, or after the SDK has refused; whatever requests,
\* changes of mode and power cuts come between.
THEOREM ScanIsUnderWay == WifiSpec => []ScanUnderWay
  <1>1. WifiInit => ScanUnderWay
    BY DEF WifiInit, ScanUnderWay
  <1>. QED  BY <1>1, ScanKept, PTL DEF WifiSpec
=============================================================================
