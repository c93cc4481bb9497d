---- MODULE Heap ----
(***************************************************************************)
(* The boards' heap (shmall): heap.c and the size-ordered lists of llist.c,*)
(* under malloc and free.                                                  *)
(*                                                                         *)
(* A block is a header, its bytes and a footer that leads back to the      *)
(* header; block follows block from the start of the heap to its end.  Its *)
(* bytes count from the end of the header, though a caller is given the    *)
(* header's last eight as well.  A hole is in the bin of its size.         *)
(*                                                                         *)
(* Addresses count from the start of the heap.  A footer is named by the   *)
(* address behind it.  Callers free what they were given, and once.        *)
(***************************************************************************)
EXTENDS Integers, Sequences, FiniteSetsExt

CONSTANTS
    HeapSize,   \* bytes in the heap
    Overhead,   \* sizeof(node_t) + sizeof(footer_t)
    MinAlloc,   \* MIN_ALLOC_SZ
    Above,      \* where the bins after the first begin: <<8, 16, .. 1024>>
    WordSize,   \* the number of values of a size_t
    Requests    \* bound: what malloc is asked for

Start == 0
End == HeapSize
Addresses == Start .. End
BinMax == Len(Above)    \* BIN_MAX_IDX, 8
Bins == 0 .. BinMax
None == -1

ASSUME HeapAssumption ==
    /\ HeapSize \in Nat /\ Overhead \in Nat \ {0} /\ MinAlloc \in Nat
    /\ WordSize \in Nat \ {0}
    /\ Above \in Seq(Nat)
    /\ \A i, j \in DOMAIN Above : i < j => Above[i] < Above[j]
    /\ Overhead <= HeapSize
    /\ Requests \subseteq 0 .. WordSize - 1

VARIABLES
    heads,      \* where the headers are
    size, hole, \* of a header
    foot,       \* node_t the footer that ends before an address leads to
    bins,       \* the nodes of each bin, from its head on
    asked,      \* for the properties: what the owner of a block asked for
    escaped     \* memory behind the heap was taken for a hole

vars == <<heads, size, hole, foot, bins, asked, escaped>>

(***************************************************************************)
(* The lists                                                               *)
(***************************************************************************)
\* get_bin_index: bins for each power of two from 4 on, and for all above.
BinOf(sz) ==
    CHOOSE i \in Bins : (i > 0 => sz >= Above[i]) /\ (i < BinMax => sz < Above[i + 1])

\* A slip: nodes are put in front whatever their size.
InsertFirst(bin, a, sz) == <<a>> \o bin

\* add_node: behind all that are not larger.
Insert(bin, a, sz) ==
    LET larger == {k \in DOMAIN bin : size[bin[k]] > sz}
        at == IF larger = {} THEN Len(bin) + 1 ELSE Min(larger)
    IN  [k \in 1 .. Len(bin) + 1 |->
            IF k < at THEN bin[k] ELSE IF k = at THEN a ELSE bin[k - 1]]

\* A slip: the head of the bin is not looked at.
WithoutBehindHead(bin, a) ==
    LET places == {k \in DOMAIN bin : k > 1 /\ bin[k] = a}
        at == Min(places)
    IN  IF places = {} THEN bin
        ELSE [k \in 1 .. Len(bin) - 1 |-> IF k < at THEN bin[k] ELSE bin[k + 1]]

\* remove_node.
Without(bin, a) ==
    LET places == {k \in DOMAIN bin : bin[k] = a}
        at == Min(places)
    IN  IF places = {} THEN bin
        ELSE [k \in 1 .. Len(bin) - 1 |-> IF k < at THEN bin[k] ELSE bin[k + 1]]

Put(lists, a, sz) == [lists EXCEPT ![BinOf(sz)] = Insert(@, a, sz)]
TakeOut(lists, a) == [lists EXCEPT ![BinOf(size[a])] = Without(@, a)]

(***************************************************************************)
(* init_heap, heap_alloc and heap_free                                     *)
(***************************************************************************)
Init ==
    /\ heads = {Start}
    /\ size = [a \in Addresses |-> IF a = Start THEN HeapSize - Overhead ELSE 0]
    /\ hole = [a \in Addresses |-> a = Start]
    /\ foot = [a \in Addresses |-> IF a = End THEN Start ELSE None]
    /\ bins = [i \in Bins |-> IF i = BinOf(HeapSize - Overhead) THEN <<Start>> ELSE <<>>]
    /\ asked = [a \in Addresses |-> None]
    /\ escaped = FALSE

\* Odd sizes are rounded up, in a word.
Rounded(request) == (request + (request % 2)) % WordSize

NextOf(a) == a + Overhead + size[a]
PrevOf(a) == foot[a]

\* A slip: the sizes in the bin are not looked at.
FitsAny(i, sz) == DOMAIN bins[i]

\* get_best_fit in the bin of the size and those above it.
Fits(i, sz) == {k \in DOMAIN bins[i] : size[bins[i][k]] >= sz}
FitBins(sz) == {i \in BinOf(sz) .. BinMax : Fits(i, sz) # {}}
FoundIn(sz) == Min(FitBins(sz))
Found(sz) == bins[FoundIn(sz)][Min(Fits(FoundIn(sz), sz))]

\* A slip: header and footer of the rest are forgotten.
NoRoomForHeader(a, sz) == size[a] > sz

Splits(a, sz) == size[a] - sz > Overhead + MinAlloc

\* The block found is the caller's as it is,
TakeWhole(request) ==
    LET sz == Rounded(request)
        a == Found(sz)
    IN  /\ ~escaped
        /\ FitBins(sz) # {}
        /\ ~Splits(a, sz)
        /\ hole' = [hole EXCEPT ![a] = FALSE]
        /\ bins' = [bins EXCEPT ![FoundIn(sz)] = Without(@, a)]
        /\ asked' = [asked EXCEPT ![a] = request]
        /\ UNCHANGED <<heads, size, foot, escaped>>

\* or its first part is, and the rest a hole of its own.
TakePart(request) ==
    LET sz == Rounded(request)
        a == Found(sz)
        split == a + Overhead + sz
        rest == size[a] - sz - Overhead
    IN  /\ ~escaped
        /\ FitBins(sz) # {}
        /\ Splits(a, sz)
        /\ heads' = heads \union {split}
        /\ size' = [size EXCEPT ![a] = sz, ![split] = rest]
        /\ hole' = [hole EXCEPT ![a] = FALSE, ![split] = TRUE]
        /\ foot' = [foot EXCEPT ![split] = a, ![NextOf(a)] = split]
        /\ bins' = [Put(bins, split, rest) EXCEPT ![FoundIn(sz)] = Without(@, a)]
        /\ asked' = [asked EXCEPT ![a] = request]
        /\ UNCHANGED escaped

Used(a) == a \in heads /\ ~hole[a]

\* The first block of the heap becomes a hole beside whatever follows.
FreeFirst ==
    /\ ~escaped
    /\ Used(Start)
    /\ hole' = [hole EXCEPT ![Start] = TRUE]
    /\ bins' = Put(bins, Start, size[Start])
    /\ asked' = [asked EXCEPT ![Start] = None]
    /\ UNCHANGED <<heads, size, foot, escaped>>

\* Another joins the holes before and behind it.
Free(a) ==
    LET before == PrevOf(a)
        behind == NextOf(a)
        first == hole[before]
        second == behind # End /\ hole[behind]
        head == IF first THEN before ELSE a
        length == size[a] + (IF first THEN Overhead + size[before] ELSE 0)
                          + (IF second THEN Overhead + size[behind] ELSE 0)
        gone == (IF first THEN {a} ELSE {}) \union (IF second THEN {behind} ELSE {})
        lists == IF first THEN TakeOut(bins, before) ELSE bins
    IN  /\ ~escaped
        /\ Used(a) /\ a # Start
        /\ heads' = heads \ gone
        /\ size' = [x \in Addresses |->
                        IF x = head THEN length ELSE IF x \in gone THEN 0 ELSE size[x]]
        /\ hole' = [x \in Addresses |-> x = head \/ (x \notin gone /\ hole[x])]
        /\ foot' = [x \in Addresses |->
                        IF x = head + Overhead + length THEN head
                        ELSE IF x \in gone THEN None ELSE foot[x]]
        /\ bins' = Put(IF second THEN TakeOut(lists, behind) ELSE lists, head, length)
        /\ asked' = [asked EXCEPT ![a] = None]
        /\ UNCHANGED escaped

\* The last block looks for its neighbour behind the heap.  If what is there
\* happens to look like a hole, it joins that.
Escape(a) ==
    /\ ~escaped
    /\ Used(a) /\ a # Start /\ NextOf(a) = End
    /\ escaped' = TRUE
    /\ UNCHANGED <<heads, size, hole, foot, bins, asked>>

Next ==
    \/ \E request \in Requests : TakeWhole(request) \/ TakePart(request)
    \/ FreeFirst
    \/ \E a \in heads : Free(a) \/ Escape(a)

Spec == Init /\ [][Next]_vars

(***************************************************************************)
(* Properties                                                              *)
(***************************************************************************)

\* Blocks follow one another from the start of the heap to its end, none
\* inside another, and every footer leads to the block it ends: heap_alloc's
\* splits and heap_free's joins never hand out a byte twice.
Tiles ==
    /\ Start \in heads /\ End \notin heads
    /\ \A a \in heads :
        /\ size[a] >= 0
        /\ NextOf(a) \in heads \union {End}
        /\ PrevOf(NextOf(a)) = a
        /\ \A b \in heads : a < b => NextOf(a) <= b

\* A block in use has the bytes that were asked for, unless they are as many
\* as a word counts: those round up to none.
HasRoom ==
    \A a \in heads : Used(a) => asked[a] <= size[a] \/ asked[a] = WordSize - 1

\* The bins have the holes, each once and in the bin of its size, and nothing
\* that is in use.
BinsHoldHoles ==
    /\ \A i \in Bins : \A k \in DOMAIN bins[i] :
        /\ bins[i][k] \in heads /\ hole[bins[i][k]] /\ BinOf(size[bins[i][k]]) = i
        /\ \A l \in DOMAIN bins[i] : bins[i][k] = bins[i][l] => k = l
    /\ \A a \in heads : hole[a] => \E k \in DOMAIN bins[BinOf(size[a])] :
                                        bins[BinOf(size[a])][k] = a

\* heap_alloc takes a smallest hole that is large enough, and fails only when
\* there is none.
TakesBestFit ==
    \A request \in Requests :
        LET sz == Rounded(request)
            enough == {a \in heads : hole[a] /\ size[a] >= sz}
        IN  IF FitBins(sz) = {} THEN enough = {}
            ELSE Found(sz) \in enough /\ \A a \in enough : size[Found(sz)] <= size[a]

====
