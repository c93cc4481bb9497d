---- MODULE FatFiles ----
(***************************************************************************)
(* Files on a FAT card: fl_fopen, fl_fread, fl_fwrite, fl_fseek, fl_fflush,*)
(* fl_fclose and fl_remove of the boards' sdfat library, down to the FAT,  *)
(* its write-back and the two things a handle remembers of its chain.      *)
(*                                                                         *)
(* The library is not re-entered: an operation runs to its end, and what   *)
(* cuts it short is a reset.  No action is a reset.  `card`, `dir` and     *)
(* `data` are what a card holds at that moment, and a property about a     *)
(* reset is one about those three in every state.  An operation that       *)
(* writes to the card more than once is cut between its writes.            *)
(*                                                                         *)
(* A cluster is one sector here, a sector SectorSize units.  The FAT is    *)
(* coherent in memory, and any of its dirty sectors may be written back at *)
(* any time to make room: FatTable says when that is so.  One directory;   *)
(* an entry is written at once.  The volume was formatted for this library *)
(* or by it: an empty file has a cluster.  Reads beyond the end of the     *)
(* card fail, and nothing else of the medium does.                         *)
(***************************************************************************)
EXTENDS Integers, Sequences, FiniteSetsExt, TLC

CONSTANTS
    Files,          \* the names
    LastCluster,    \* clusters are numbered from 2
    SectorEntries,  \* FAT entries in a sector of the FAT
    SectorSize,     \* units in a sector
    MaxLen,         \* bound: the length of a file of the Seekers, in units; others
                    \* have one sector
    Lengths,        \* bound: how much is left to write or read in a call
    Seekers,        \* bound: the files that are read and sought in
    Positions,      \* bound: where a seek goes
    Values,         \* what is written
    Modes           \* bound: how fl_fopen opens a file

Clusters == 2 .. LastCluster
Free == 0
Last == -1          \* FAT32_LAST_CLUSTER
None == -2
Unset == 0          \* what a unit holds that nobody wrote

ASSUME FilesAssumption ==
    /\ LastCluster \in Nat /\ MaxLen \in Nat
    /\ SectorEntries \in Nat \ {0} /\ SectorSize \in Nat \ {0}
    /\ Seekers \subseteq Files
    /\ Lengths \subseteq Nat \ {0} /\ Positions \subseteq Nat
    /\ Values \subseteq Nat \ {Unset}
    /\ Modes \in [Files -> SUBSET {"r", "r+", "w", "w+", "a", "a+"}]

VARIABLES
    cached,     \* FAT_CLUSTER_CACHE_ENTRIES is defined
    fat,        \* the FAT as reads give it
    hint,       \* next_free_cluster
    card,       \* the FAT on the card
    dir,        \* the directory on the card
    data,       \* the data sectors on the card
    handle,     \* FL_FILE
    op,         \* the operation that is between two of its writes
    owner,      \* for FatVolume: whose a cluster is
    content,    \* for the properties: what was written to a file
    kept        \* for the properties: what the file held when it was closed

cardVars == <<card, dir, data>>
ghosts == <<owner, content, kept>>
vars == <<cached, fat, hint, card, dir, data, handle, op, owner, content, kept>>

NoEntry == [start |-> None, len |-> 0]
Unknown == <<None>>
Shut == [open |-> FALSE]
Idle == [name |-> "idle"]
Top == MaxLen \div SectorSize + 1
Room(f) == IF f \in Seekers THEN MaxLen ELSE SectorSize
Blanks == [i \in 1 .. SectorSize |-> Unset]
NoCache == [i \in 0 .. Top |-> None]
Nowhere == [idx |-> -1, cluster |-> None]

Init ==
    /\ cached \in BOOLEAN
    /\ fat = [c \in Clusters |-> Free] /\ card = fat
    /\ hint = 0
    /\ dir = [f \in Files |-> NoEntry]
    /\ data = [c \in Clusters |-> Blanks]
    /\ handle = [f \in Files |-> Shut]
    /\ op = Idle
    /\ owner = [c \in Clusters |-> None]
    /\ content = [f \in Files |-> <<>>] /\ kept = content

(***************************************************************************)
(* The FAT.  A state of the library during an operation is a record w of   *)
(* fat, hint, data and h, the handle it works on.                          *)
(***************************************************************************)

\* A slip: the cluster the hint names is taken without a look at its entry.
FindBlankUnseen(table, from) ==
    LET found == {c \in Clusters : c >= from}
    IN  IF found = {} THEN None ELSE Min(found)

\* The first free cluster from the hint on; the hint never goes back.
FindBlank(table, from) ==
    LET found == {c \in Clusters : c >= from /\ table[c] = Free}
    IN  IF found = {} THEN None ELSE Min(found)

\* From the hint, `count` clusters behind cluster c; stops short when none is left.
AddFreeSpace(w, c, count) ==
    LET step[i \in 0 .. count] ==
            IF i = 0 THEN [w |-> w, tail |-> c, first |-> None, ok |-> TRUE]
            ELSE LET s == step[i - 1]
                     new == FindBlank(s.w.fat, s.w.hint)
                 IN  IF ~s.ok \/ new = None THEN [s EXCEPT !.ok = FALSE]
                     ELSE [w |-> [fat |-> [s.w.fat EXCEPT ![s.tail] = new, ![new] = Last],
                                  hint |-> IF i = 1 THEN new ELSE s.w.hint,
                                  data |-> s.w.data, h |-> s.w.h],
                           tail |-> new, ok |-> TRUE,
                           first |-> IF i = 1 THEN new ELSE s.first]
    IN  step[count]

\* A chain of the card or of the FAT in memory, by its links.
Follow(table, first, n) ==
    LET at[i \in 0 .. n] ==
            IF i = 0 THEN first
            ELSE IF at[i - 1] \in Clusters THEN table[at[i - 1]] ELSE Last
    IN  at[n]

\* The chain that begins with c, and what freeing it leaves.
ChainOf(table, c) == {Follow(table, c, n) : n \in 0 .. LastCluster} \intersect Clusters
\* A slip: the link is cleared before it is followed.
FreeFirst(table, c) == [table EXCEPT ![c] = Free]
FreeChain(table, c) == [d \in Clusters |-> IF d \in ChainOf(table, c) THEN Free ELSE table[d]]

(***************************************************************************)
(* A handle's way to a cluster of its file                                 *)
(***************************************************************************)

\* One step of the walk: the handle's cache, and else the FAT.
Hop(w, p, i) ==
    LET hit == cached /\ p.h.cache[i] # None
        next == IF hit THEN p.h.cache[i] ELSE Follow(w.fat, p.cluster, 1)
    IN  [cluster |-> next, before |-> p.cluster,
         h |-> IF cached THEN [p.h EXCEPT !.cache[i] = next] ELSE p.h]

\* From the cluster looked up last when the next one is wanted, and else from
\* the start.  A walk to write stops at the end of the chain.
Walk(w, idx, writing) ==
    LET near == idx # 0 /\ idx = w.h.at.idx + 1
        from == IF near THEN w.h.at.idx ELSE 0
        p[i \in from .. idx] ==
            IF i = from
            THEN [cluster |-> IF near THEN w.h.at.cluster ELSE w.h.start,
                  before |-> Last, h |-> w.h]
            ELSE IF writing /\ p[i - 1].cluster = Last THEN p[i - 1]
            ELSE Hop(w, p[i - 1], i - 1)
    IN  p[idx]

Found(w, idx) == [cluster |-> w.h.at.cluster, before |-> Last, h |-> w.h]
WayTo(w, idx, writing) == IF idx = w.h.at.idx THEN Found(w, idx) ELSE Walk(w, idx, writing)

\* _read_sectors, for one sector.
ReadSector(w, idx) ==
    LET way == WayTo(w, idx, FALSE)
        there == way.cluster # Last
    IN  [h |-> IF there THEN [way.h EXCEPT !.at = [idx |-> idx, cluster |-> way.cluster]] ELSE way.h,
         ok |-> there, bytes |-> IF there THEN w.data[way.cluster] ELSE Blanks]

\* _write_sectors: the first sector of `count` that are to follow.  At the end
\* of the chain, clusters for all of them.
WriteSector(w, idx, bytes, count) ==
    LET way == WayTo(w, idx, TRUE)
        walked == [w EXCEPT !.h = way.h]
        more == AddFreeSpace(walked, way.before, count)
        end == way.cluster = Last
        cluster == IF end THEN more.first ELSE way.cluster
        v == IF end THEN more.w ELSE walked
    IN  IF end /\ ~more.ok THEN [w |-> v, ok |-> FALSE]
        ELSE [w |-> [v EXCEPT !.data = [@ EXCEPT ![cluster] = bytes],
                          !.h = [@ EXCEPT !.at = [idx |-> idx, cluster |-> cluster]]],
              ok |-> TRUE]

\* The handle's buffer is of sector addr, as it was read or, for None, of no sector.
Buffers(h, addr, bytes) == [h EXCEPT !.addr = addr, !.buf = bytes, !.dirty = FALSE]
Forgets(h) == Buffers(h, None, Blanks)

\* fl_fflush.
Flushed(w) ==
    IF ~w.h.dirty THEN w
    ELSE LET r == WriteSector(w, w.h.addr, w.h.buf, 1)
         IN  [r.w EXCEPT !.h.dirty = ~r.ok]

\* A slip: what is in the buffer is forgotten.
LoadedUnflushed(w, idx) ==
    IF w.h.addr = idx THEN w
    ELSE LET r == ReadSector(w, idx)
         IN  [w EXCEPT !.h = Buffers(r.h, idx, r.bytes)]

\* Before a write the buffer takes on sector idx, which need not exist; dirty
\* bytes that found no cluster go.
Loaded(w, idx) ==
    IF w.h.addr = idx THEN w
    ELSE LET v == Flushed(w)
             r == ReadSector(v, idx)
         IN  [v EXCEPT !.h = Buffers(r.h, idx, r.bytes)]

\* The library's state outside an operation, with f's handle.
Now(f) == [fat |-> fat, hint |-> hint, data |-> data, h |-> handle[f]]

Becomes(f, w) ==
    /\ fat' = w.fat /\ hint' = w.hint /\ data' = w.data
    /\ handle' = [handle EXCEPT ![f] = w.h]
    /\ owner' = [c \in Clusters |->
                    IF w.fat[c] # Free /\ owner[c] = None THEN f ELSE owner[c]]

(***************************************************************************)
(* fl_fopen                                                                *)
(***************************************************************************)
Reads(mode) == mode \in {"r", "r+", "w+", "a+"}
Writes(mode) == mode # "r"
Appends(mode) == mode \in {"a", "a+"}
Creates(mode) == mode \in {"w", "w+", "a", "a+"}

Exists(f) == dir[f] # NoEntry

Fresh(first, len, mode) ==
    [open |-> TRUE, start |-> first, len |-> len, pos |-> 0,
     buf |-> Blanks, addr |-> None, dirty |-> FALSE,
     at |-> Nowhere, cache |-> NoCache, changed |-> FALSE, mode |-> mode]

\* Whatever the mode, a file that exists is opened as it is.
Open(f, mode) ==
    /\ op = Idle
    /\ Exists(f) /\ ~handle[f].open
    /\ handle' = [handle EXCEPT ![f] = Fresh(dir[f].start, dir[f].len, mode)]
    /\ card' = fat
    /\ kept' = [kept EXCEPT ![f] = <<>>]
    /\ UNCHANGED <<cached, fat, hint, dir, data, op, owner, content>>

\* _create_file: the cluster first, in the FAT in memory alone,
Create(f, mode) ==
    LET c == FindBlank(fat, hint)
    IN  /\ op = Idle
        /\ ~Exists(f) /\ ~handle[f].open
        /\ Creates(mode)
        /\ c # None
        /\ fat' = [fat EXCEPT ![c] = Last]
        /\ owner' = [owner EXCEPT ![c] = f]
        /\ hint' = c
        /\ op' = [name |-> "create", file |-> f, cluster |-> c, mode |-> mode]
        /\ UNCHANGED <<cached, cardVars, handle, content, kept>>

\* then the entry, on the card,
AddEntry ==
    /\ op.name = "create"
    /\ dir' = [dir EXCEPT ![op.file] = [start |-> op.cluster, len |-> 0]]
    /\ handle' = [handle EXCEPT ![op.file] = Fresh(op.cluster, 0, op.mode)]
    /\ content' = [content EXCEPT ![op.file] = <<>>]
    /\ op' = [name |-> "purge", file |-> op.file]
    /\ UNCHANGED <<cached, fat, hint, card, data, owner, kept>>

\* or not, when the directory has no room;
EntryFails ==
    /\ op.name = "create"
    /\ fat' = FreeChain(fat, op.cluster)
    /\ owner' = [owner EXCEPT ![op.cluster] = None]
    /\ op' = Idle
    /\ UNCHANGED <<cached, hint, cardVars, handle, content, kept>>

(***************************************************************************)
(* fatfs_fat_purge and the write-back of single sectors                    *)
(***************************************************************************)
SectorOf(c) == c \div SectorEntries

\* A dirty sector of the FAT goes to the card because its buffer is needed, or
\* as one of a purge.
WriteBack(s) ==
    /\ card' = [c \in Clusters |-> IF SectorOf(c) = s THEN fat[c] ELSE card[c]]
    /\ card' # card
    /\ UNCHANGED <<cached, fat, hint, dir, data, handle, op, ghosts>>

\* What the card gives for a file: its chain there, as far as its length.
Unit(table, bytes, first, p) ==
    LET c == Follow(table, first, p \div SectorSize)
    IN  IF c \in Clusters THEN bytes[c][(p % SectorSize) + 1] ELSE None
Stored(table, f) ==
    [i \in 1 .. dir[f].len |-> Unit(table, data, dir[f].start, i - 1)]

\* A slip: the purge is left out.
NoPurge ==
    /\ op.name = "purge"
    /\ op' = Idle
    /\ kept' = [kept EXCEPT ![op.file] = Stored(fat, op.file)]
    /\ UNCHANGED <<cached, fat, hint, cardVars, handle, owner, content>>

\* The purge that ends a creation, a close or a removal.
Purge ==
    /\ op.name = "purge"
    /\ card' = fat
    /\ op' = Idle
    /\ kept' = [kept EXCEPT ![op.file] = Stored(fat, op.file)]
    /\ UNCHANGED <<cached, fat, hint, dir, data, handle, owner, content>>

\* Bytes of the file are dropped without a word: nothing is promised of it.
GivesUp(f, dropped) ==
    content' = IF dropped THEN [content EXCEPT ![f] = Unknown] ELSE content

(***************************************************************************)
(* fl_fread, fl_fwrite and fl_fseek.  One pass of the loops of fl_fread    *)
(* and fl_fwrite is an action: what is left after it is as good as another *)
(* call.                                                                   *)
(***************************************************************************)

\* Whole sectors go past the handle's buffer.
Read(f, left) ==
    LET h == handle[f]
        count == Min({left, h.len - h.pos})
        idx == h.pos \div SectorSize
        offset == h.pos % SectorSize
        whole == offset = 0 /\ count >= SectorSize
        part == IF whole THEN SectorSize ELSE Min({count, SectorSize - offset})
        near == ~whole /\ h.addr = idx
        w == IF whole \/ near THEN Now(f) ELSE Flushed(Now(f))
        r == ReadSector(w, idx)
    IN  /\ op = Idle
        /\ h.open /\ Reads(h.mode) /\ h.pos < h.len
        /\ IF near THEN Becomes(f, [w EXCEPT !.h.pos = @ + part])
           ELSE IF ~r.ok THEN Becomes(f, [w EXCEPT !.h = r.h])
           ELSE LET read == IF whole THEN r.h ELSE Buffers(r.h, idx, r.bytes)
                IN  Becomes(f, [w EXCEPT !.h = [read EXCEPT !.pos = @ + part]])
        /\ GivesUp(f, ~whole /\ ~near /\ r.ok /\ w.h.dirty)
        /\ UNCHANGED <<cached, card, dir, op, kept>>

Overwritten(old, at, bytes) ==
    [i \in 1 .. Max({Len(old), at + Len(bytes)}) |->
        IF i \in at + 1 .. at + Len(bytes) THEN bytes[i - at] ELSE old[i]]

Dirtied(h, bytes) == [h EXCEPT !.buf = bytes, !.dirty = TRUE]
Longer(h) == [h EXCEPT !.len = h.pos, !.changed = TRUE]
Grown(h) == IF h.pos > h.len THEN Longer(h) ELSE h

\* A pass of fl_fwrite writes v as many times as fit.
Write(f, left, v) ==
    LET h == handle[f]
        pos == IF Appends(h.mode) THEN h.len ELSE h.pos
        idx == pos \div SectorSize
        offset == pos % SectorSize
        whole == offset = 0 /\ left >= SectorSize
        part == IF whole THEN SectorSize ELSE Min({left, SectorSize - offset})
        bytes == [i \in 1 .. part |-> v]
        flushed == Flushed(Now(f))
        cleared == [flushed EXCEPT !.h = Forgets(@)]
        direct == WriteSector(cleared, idx, bytes, left \div SectorSize)
        loaded == Loaded(Now(f), idx)
        through == [loaded EXCEPT !.h = Dirtied(@, Overwritten(@.buf, offset, bytes))]
        after == IF whole THEN direct.w ELSE through
        done == ~whole \/ direct.ok
    IN  /\ op = Idle
        /\ h.open /\ Writes(h.mode)
        /\ pos + left <= Room(f)
        /\ Becomes(f, [after EXCEPT !.h =
                          Grown([@ EXCEPT !.pos = IF done THEN pos + part ELSE pos])])
        /\ content' = [content EXCEPT ![f] =
                IF @ = Unknown \/ (flushed.h.dirty /\ (whole \/ h.addr # idx)) THEN Unknown
                ELSE IF done THEN Overwritten(@, pos, bytes) ELSE @]
        /\ UNCHANGED <<cached, card, dir, op, kept>>

\* A seek forgets the buffer, written back or not.
Seek(f, pos) ==
    LET h == handle[f]
    IN  /\ op = Idle
        /\ h.open
        /\ handle' = [handle EXCEPT ![f] = [Forgets(h) EXCEPT !.pos = Min({pos, h.len})]]
        /\ GivesUp(f, h.dirty)
        /\ UNCHANGED <<cached, fat, hint, cardVars, op, owner, kept>>

Flush(f) ==
    /\ op = Idle
    /\ handle[f].open /\ handle[f].dirty
    /\ Becomes(f, Flushed(Now(f)))
    /\ UNCHANGED <<cached, card, dir, op, content, kept>>

\* fl_fclose: the buffer, the length in the directory, the handle; then the purge.
Close(f) ==
    LET w == Flushed(Now(f))
    IN  /\ op = Idle
        /\ handle[f].open
        /\ Becomes(f, [w EXCEPT !.h = Shut])
        /\ dir' = [dir EXCEPT ![f].len = IF w.h.changed THEN w.h.len ELSE @]
        /\ GivesUp(f, w.h.dirty)
        /\ op' = [name |-> "purge", file |-> f]
        /\ UNCHANGED <<cached, card, kept>>

\* fl_remove: opened for reading, which purges; its chain is freed in memory,
Remove(f) ==
    /\ op = Idle
    /\ Exists(f) /\ ~handle[f].open
    /\ card' = fat
    /\ fat' = FreeChain(fat, dir[f].start)
    /\ owner' = [c \in Clusters |-> IF fat'[c] = Free THEN None ELSE owner[c]]
    /\ op' = [name |-> "remove", file |-> f]
    /\ UNCHANGED <<cached, hint, dir, data, handle, content, kept>>

\* and its entry marked, on the card; the close that follows purges.
MarkDeleted ==
    /\ op.name = "remove"
    /\ dir' = [dir EXCEPT ![op.file] = NoEntry]
    /\ content' = [content EXCEPT ![op.file] = <<>>]
    /\ op' = [name |-> "purge", file |-> op.file]
    /\ UNCHANGED <<cached, fat, hint, card, data, handle, owner, kept>>

Next ==
    \/ \E f \in Files : \E mode \in Modes[f] : Open(f, mode) \/ Create(f, mode)
    \/ AddEntry \/ EntryFails \/ Purge \/ MarkDeleted
    \/ \E s \in 0 .. SectorOf(LastCluster) : WriteBack(s)
    \/ \E f \in Files, left \in Lengths, v \in Values : Write(f, left, v)
    \/ \E f \in Seekers, left \in Lengths : Read(f, left)
    \/ \E f \in Seekers, pos \in Positions : Seek(f, pos)
    \/ \E f \in Files : Flush(f) \/ Close(f) \/ Remove(f)

Spec == Init /\ [][Next]_vars

(***************************************************************************)
(* Properties                                                              *)
(***************************************************************************)

\* At every moment, whatever other files are in the middle of, the card alone
\* holds every closed file as it was when it was closed: what a reset leaves
\* of the files that fl_fclose and fl_remove have done with.
Settled(f) == Exists(f) /\ ~handle[f].open /\ (op = Idle \/ op.file # f)
ClosedSurvives == \A f \in Files : Settled(f) => Stored(card, f) = kept[f]

\* What a read of one unit would bring.
Answer(f, p) ==
    LET h == handle[f]
        idx == p \div SectorSize
    IN  IF h.addr = idx THEN h.buf[(p % SectorSize) + 1]
        ELSE ReadSector([Now(f) EXCEPT !.h.buf = Blanks], idx).bytes[(p % SectorSize) + 1]

\* A file gives back what was written to it, through its handle and after it is
\* closed, except for bytes that a seek dropped or a full card refused.  A read
\* of whole sectors does not look into the buffer and misses nothing in it: one
\* still to be written begins before the place of the handle.  The cluster cache
\* "improves access speed" (fat_io_lib/README.md), no more.
GivesBack ==
    \A f \in Files : content[f] # Unknown =>
        /\ handle[f].open =>
            /\ handle[f].len = Len(content[f])
            /\ \A p \in 0 .. handle[f].len - 1 : Answer(f, p) = content[f][p + 1]
            /\ handle[f].dirty => handle[f].addr * SectorSize < handle[f].pos
        /\ Settled(f) => kept[f] = content[f]

\* Without the cluster cache, files give back what was written to them.
ReadsBack == ~cached => GivesBack

\* The files' clusters are a FatVolume's.
FirstOf(f) ==
    IF op.name = "create" /\ op.file = f THEN op.cluster
    ELSE IF op.name = "remove" /\ op.file = f THEN None ELSE dir[f].start
Volume == INSTANCE FatVolume WITH start <- [f \in Files |-> FirstOf(f)]

ASSUME VolumeAssumption == Volume!VolumeConstants

\* Every operation allocates, links and frees as FatVolume allows.
ImplementsFatVolume == Volume!Spec

\* No two files share a cluster, and none leads into a free one.
ChainsDisjoint == Volume!ChainsDisjoint

====
