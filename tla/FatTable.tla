---- MODULE FatTable ----
(***************************************************************************)
(* The sector buffers of fat_table.c: every look at the FAT and every      *)
(* change of it goes through a list of FAT_BUFFERS buffers, newest first,  *)
(* each with FAT_BUFFER_SECTORS sectors of the FAT from its address on.  A *)
(* sector no buffer has is read into the last one of the list, which then  *)
(* heads it; a change stays in its buffer until the buffer is needed for   *)
(* another sector or the buffers are purged.  Reads and writes of the card *)
(* may fail.                                                               *)
(*                                                                         *)
(* The addresses are counted from fat_begin_lba.                           *)
(***************************************************************************)
EXTENDS Integers

CONSTANTS
    LastSector,     \* the FAT has fat_sectors = LastSector + 1 sectors
    FatBuffers,     \* FAT_BUFFERS
    BufferSectors,  \* FAT_BUFFER_SECTORS
    SectorValues,   \* what a sector of the FAT may hold
    Beyond          \* what is read behind the FAT

ASSUME TableAssumption ==
    /\ LastSector \in Nat
    /\ FatBuffers \in Nat \ {0} /\ BufferSectors \in Nat \ {0}

Sectors == 0 .. LastSector
Places == 1 .. FatBuffers
Offsets == 0 .. BufferSectors - 1
Invalid == -1       \* FAT32_INVALID_CLUSTER

VARIABLES
    onCard,     \* the FAT on the card
    list,       \* the buffers, from fat_buffer_head on
    intended,   \* for the properties: the FAT as it was set
    overlapped  \* for the properties: two buffers have had a sector in common

tableVars == <<onCard, list, intended, overlapped>>

Unused == [address |-> Invalid, dirty |-> FALSE, sector |-> [k \in Offsets |-> Beyond]]

\* fatfs_fat_init.
TableInit ==
    /\ onCard \in [Sectors -> SectorValues]
    /\ intended = onCard
    /\ list = [i \in Places |-> Unused]
    /\ overlapped = FALSE

(***************************************************************************)
(* Buffers                                                                 *)
(***************************************************************************)
Has(buffer, s) ==
    /\ buffer.address # Invalid
    /\ buffer.address <= s /\ s < buffer.address + BufferSectors

\* The place of the first buffer that has sector s.
Hits(buffers, s) == {i \in Places : Has(buffers[i], s)}
IsFirst(i, places) == i \in places /\ \A j \in places : i <= j

\* What looking at sector s gives.
Sees(s, v) ==
    IF Hits(list, s) = {} THEN v = onCard[s]
    ELSE \E i \in Places :
            IsFirst(i, Hits(list, s)) /\ v = list[i].sector[s - list[i].address]

Overlap(buffers) ==
    \E i, j \in Places, s \in Sectors : i # j /\ Has(buffers[i], s) /\ Has(buffers[j], s)

\* A slip: one sector is written, however many the buffer has.
WrittenShort(onto, buffer) ==
    [s \in Sectors |-> IF s = buffer.address THEN buffer.sector[0] ELSE onto[s]]

\* fatfs_fat_writeback: the buffer as far as the FAT goes.
Written(onto, buffer) ==
    [s \in Sectors |-> IF Has(buffer, s) THEN buffer.sector[s - buffer.address] ELSE onto[s]]

Clean(buffer) == [buffer EXCEPT !.dirty = FALSE]

\* The buffer filled from the card, from sector s on.
Filled(from, s) ==
    [address |-> s, dirty |-> FALSE,
     sector |-> [k \in Offsets |-> IF s + k \in Sectors THEN from[s + k] ELSE Beyond]]

\* The last buffer becomes the first, as `buffer`.
ToHead(buffer) == [i \in Places |-> IF i = 1 THEN buffer ELSE list[i - 1]]

(***************************************************************************)
(* fatfs_fat_read_sector                                                   *)
(***************************************************************************)
Spare == list[FatBuffers]

\* A slip: the spare buffer is taken with its changes in it.
SpareLost == onCard

\* The card when the spare buffer's changes are on it.
SpareSaved == IF Spare.dirty THEN Written(onCard, Spare) ELSE onCard

Moves(buffers) ==
    /\ list' = buffers
    /\ overlapped' = (overlapped \/ Overlap(buffers))

\* A look at a sector that no buffer has: it is read into the spare one.
Look(s) ==
    /\ Hits(list, s) = {}
    /\ onCard' = SpareSaved
    /\ Moves(ToHead(Filled(SpareSaved, s)))
    /\ UNCHANGED intended

\* The write back fails: the buffer heads the list as it was.
WritebackFails(s) ==
    /\ Hits(list, s) = {}
    /\ Spare.dirty
    /\ Moves(ToHead(Spare))
    /\ UNCHANGED <<onCard, intended>>

\* The read fails: the buffer has no sector.
ReadFails(s) ==
    /\ Hits(list, s) = {}
    /\ onCard' = SpareSaved
    /\ Moves(ToHead(Unused))
    /\ UNCHANGED intended

(***************************************************************************)
(* fatfs_fat_set_cluster and fatfs_fat_purge                               *)
(***************************************************************************)
Changed(buffer, s, v) ==
    [buffer EXCEPT !.sector = [@ EXCEPT ![s - buffer.address] = v], !.dirty = TRUE]

\* An entry in sector s is set, which makes v of the sector.
SetHit(s, v) ==
    /\ \E i \in Places :
        /\ IsFirst(i, Hits(list, s))
        /\ Moves([list EXCEPT ![i] = Changed(@, s, v)])
    /\ intended' = [intended EXCEPT ![s] = v]
    /\ UNCHANGED onCard

SetMiss(s, v) ==
    /\ Hits(list, s) = {}
    /\ onCard' = SpareSaved
    /\ Moves(ToHead(Changed(Filled(SpareSaved, s), s, v)))
    /\ intended' = [intended EXCEPT ![s] = v]

\* One buffer of a purge goes to the card; a purge goes through the list and
\* stops at the first write that fails.
PurgeOne(i) ==
    /\ list[i].dirty
    /\ \A j \in Places : j < i => ~list[j].dirty
    /\ onCard' = Written(onCard, list[i])
    /\ Moves([list EXCEPT ![i] = Clean(@)])
    /\ UNCHANGED intended

TableNext ==
    \/ \E s \in Sectors : Look(s) \/ WritebackFails(s) \/ ReadFails(s)
    \/ \E s \in Sectors, v \in SectorValues : SetHit(s, v) \/ SetMiss(s, v)
    \/ \E i \in Places : PurgeOne(i)

TableSpec == TableInit /\ [][TableNext]_tableVars

(***************************************************************************)
(* Properties                                                              *)
(***************************************************************************)

\* The FAT that the library's reads give is the one its writes have made.
Coherent == \A s \in Sectors : Sees(s, intended[s])

\* It is, as long as no two buffers have had a sector in common.
CoherentApart == ~overlapped => Coherent

\* Once no buffer is dirty, which is what fatfs_fat_purge brings about, the
\* FAT is on the card.
SavedApart ==
    ~overlapped /\ (\A i \in Places : ~list[i].dirty) => onCard = intended
====
