---- MODULE FatVolume ----
(***************************************************************************)
(* What the FAT library of the boards promises of a volume: a cluster is   *)
(* free or belongs to one file, and a file's clusters are what its         *)
(* directory entry leads to along the links of the FAT.                    *)
(*                                                                         *)
(* FatFiles, the library's operations on files, implements this.  Clusters *)
(* that a file has lost (a link overwritten) stay its own until the card   *)
(* is formatted; the library has nothing that finds them.                  *)
(***************************************************************************)
CONSTANTS
    Clusters,   \* the data clusters
    Files,      \* the names files may have
    Free,       \* FAT entry of a free cluster
    Last,       \* FAT entry of the last cluster of a chain
    None        \* no file, or no cluster

\* What the constants have to be, for a volume to be one.
VolumeConstants ==
    /\ Free \notin Clusters /\ Last \notin Clusters /\ Free # Last
    /\ None \notin Clusters /\ None \notin Files

VARIABLES
    fat,        \* the FAT as the library's reads give it
    owner,      \* whose a cluster is
    start       \* the first cluster of a file's chain

vars == <<fat, owner, start>>

Init ==
    /\ fat = [c \in Clusters |-> Free]
    /\ owner = [c \in Clusters |-> None]
    /\ start = [f \in Files |-> None]

Closed(S) == \A c \in S : fat[c] \in Clusters => fat[c] \in S

\* The clusters that the links lead to from the file's first: the least set
\* that has the first and is closed under the links.
Chain(f) ==
    LET first == start[f]
    IN  {c \in Clusters : \A S \in SUBSET Clusters : first \in S /\ c \notin S => ~Closed(S)}

Blank(c) == fat[c] = Free

\* A new file gets one cluster.
Allocate(f, c) ==
    /\ start[f] = None
    /\ Blank(c)
    /\ start' = [start EXCEPT ![f] = c]
    /\ fat' = [fat EXCEPT ![c] = Last]
    /\ owner' = [owner EXCEPT ![c] = f]

\* Clusters N, all of them blank, are linked behind each other and behind some
\* of the file's, C, which need not be the last.
Extend(f, C, N) ==
    /\ \A c \in C : owner[c] = f
    /\ UNCHANGED start
    /\ \A d \in N : Blank(d)
    /\ owner' = [d \in Clusters |-> IF d \in N THEN f ELSE owner[d]]
    /\ \E link \in [N \union C -> N \union {Last}] :
        /\ \A c \in C : link[c] # Last
        /\ \A d, e \in N \union C : d # e /\ link[d] # Last => link[d] # link[e]
        /\ fat' = [d \in Clusters |-> IF d \in N \union C THEN link[d] ELSE fat[d]]

\* All that the file's chain has is free.
Release(f) ==
    /\ start[f] # None
    /\ start' = [start EXCEPT ![f] = None]
    /\ fat' = [c \in Clusters |-> IF c \in Chain(f) THEN Free ELSE fat[c]]
    /\ owner' = [c \in Clusters |-> IF c \in Chain(f) THEN None ELSE owner[c]]

Next ==
    /\ fat' # fat
    /\ \E f \in Files :
        \/ \E c \in Clusters : Allocate(f, c)
        \/ \E C, N \in SUBSET Clusters : Extend(f, C, N)
        \/ Release(f)

Spec == Init /\ [][Next]_vars

(***************************************************************************)
(* Properties                                                              *)
(***************************************************************************)
Present == {f \in Files : start[f] # None}

\* No cluster is in the chains of two files, and no chain leads into a free
\* cluster: fat_table.c's searches, links and releases never cross two files.
ChainsDisjoint ==
    LET chain == [f \in Present |-> Chain(f)]
    IN  /\ \A f, g \in Present : f # g => chain[f] \intersect chain[g] = {}
        /\ \A f \in Present : \A c \in chain[f] : fat[c] # Free

====
