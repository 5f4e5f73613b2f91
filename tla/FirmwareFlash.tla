---------------------------- MODULE FirmwareFlash ----------------------------
(***************************************************************************)
(* The two firmware partitions as cgiflash.c uses them.  A partition is a  *)
(* function from units to contents, a unit standing for a fixed number of  *)
(* bytes; units are grouped in sectors, which are erased as a whole, and   *)
(* writing what is not erased leaves neither the old content nor the new.  *)
(* A content is <<its author, its place in the author's image>>; the first *)
(* unit of an image is at place 0 if check_header accepts it and Junk if   *)
(* it does not.                                                            *)
(***************************************************************************)
EXTENDS Integers, Sequences

CONSTANTS
    FIRMWARE_SIZE,      \* the size of a partition
    SPI_FLASH_SEC_SIZE, \* the size of a sector
    Factory             \* the author of what the partitions hold at first

ASSUME SectorAssumption ==
    /\ SPI_FLASH_SEC_SIZE \in Nat \ {0}
    /\ FIRMWARE_SIZE \in Nat \ {0}
    /\ FIRMWARE_SIZE % SPI_FLASH_SEC_SIZE = 0

Units == 0 .. FIRMWARE_SIZE - 1
Userbins == {0, 1}          \* system_upgrade_userbin_check: user1.bin, user2.bin

Junk == -1
Erased == <<Factory, -2>>
Garbage == <<Factory, -3>>
FactoryImage == [k \in Units |-> <<Factory, k>>]
Blank == [k \in Units |-> Erased]

check_header(content) == content[2] = 0

\* id == 1 ? the first partition : the second; the one that does not run.
NextPartition_Running(id) == id
NextPartition(id) == IF id = 1 THEN 0 ELSE 1

\* spi_flash_erase_sector, of the sector that begins at offset.
EraseSector(part, offset) ==
    [k \in Units |-> IF k \in offset .. offset + SPI_FLASH_SEC_SIZE - 1
                     THEN Erased ELSE part[k]]

\* spi_flash_write.
WriteUnits(part, offset, data) ==
    [k \in Units |->
        IF k \notin offset .. offset + Len(data) - 1 THEN part[k]
        ELSE IF part[k] = Erased THEN data[k - offset + 1] ELSE Garbage]

\* "erase next flash block if necessary" and "Write the data": the partitions
\* start at multiples of the sector size, so that the offset decides.  fault
\* tells which of the two operations fails, of those that are made.
Faults == {"none", "erase", "write"}
Erases(offset) == offset % SPI_FLASH_SEC_SIZE = 0

\* The operation that fails is one the chunk at offset comes to.
Strikes(offset, fault) == fault = "write" \/ (fault = "erase" /\ Erases(offset))

FlashChunk_NoErase(part, offset, data, fault) ==
    WriteUnits(IF offset = 0 THEN EraseSector(part, offset) ELSE part, offset, data)
FlashChunk(part, offset, data, fault) ==
    LET erased == IF Erases(offset) /\ fault # "erase" THEN EraseSector(part, offset) ELSE part
    IN  IF fault = "write" THEN erased ELSE WriteUnits(erased, offset, data)

=============================================================================
