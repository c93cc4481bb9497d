---- MODULE HeapProofs ----
(***************************************************************************)
(* Proofs about Heap for a heap of any size, any overhead and any bins:    *)
(* blocks tile it, the bins have its holes and nothing else, a caller has  *)
(* the room that was asked for, and a request gets the best fit.           *)
(***************************************************************************)
EXTENDS Heap, FiniteSetTheorems, SequenceTheorems, TLAPS

(***************************************************************************)
(* Least elements                                                          *)
(***************************************************************************)

LEMMA Least ==
    ASSUME NEW S \in SUBSET Nat, S # {} PROVE \E x \in S : \A y \in S : x <= y
  <1>1. PICK n \in S : TRUE OBVIOUS
  <1> DEFINE U == 0 .. n
             upTo(x) == {y \in U : y \in S /\ y <= x}
             family == {upTo(x) : x \in S \intersect U}
             R == StrictSubsetOrdering(U)
  <1>2. IsFiniteSet(U) BY <1>1, FS_Interval
  <1>3. IsWellFoundedOn(R, SUBSET U)
    BY <1>2, FS_FiniteSubsetsOfFinite, FS_StrictSubsetOrderingWellFounded
  <1>4. \A x \in S \intersect U : upTo(x) \in SUBSET U OBVIOUS
  <1>5. upTo(n) \in family BY <1>1
  <1>6. \E M \in family : \A N \in family : <<N, M>> \notin R
    <2>1. family \subseteq SUBSET U
      <3> HIDE DEF upTo
      <3> QED BY <1>4
    <2> HIDE DEF family, R
    <2> QED BY <1>3, <2>1, <1>5, WFMin
  <1>7. PICK x \in S \intersect U : \A N \in family : <<N, upTo(x)>> \notin R
    BY <1>6
  <1>8. ASSUME NEW y \in S, y < x PROVE FALSE
    <2>0. y \in U /\ x \in U /\ y \in Nat /\ x \in Nat BY <1>8, <1>7
    <2>1. upTo(y) \in family BY <1>8, <2>0
    <2>2. x \in upTo(x) /\ x \notin upTo(y) BY <1>8, <2>0
    <2>3. upTo(y) \subseteq upTo(x) BY <1>8, <2>0
    <2>4. upTo(y) \in SUBSET U /\ upTo(x) \in SUBSET U OBVIOUS
    <2>5. <<upTo(y), upTo(x)>> \in R
      <3> HIDE DEF upTo
      <3> QED BY <2>2, <2>3, <2>4 DEF StrictSubsetOrdering
    <2> QED BY <2>1, <2>5, <1>7
  <1> QED BY <1>7, <1>8

LEMMA MinIsLeast ==
    ASSUME NEW S \in SUBSET Nat, S # {} PROVE Min(S) \in S /\ \A y \in S : Min(S) <= y
  BY Least DEF Min

LEMMA SeqIntro == ASSUME NEW S, NEW n \in Nat, NEW f \in [1 .. n -> S] PROVE f \in Seq(S)
  <1>1. f \in UNION {[1 .. m -> S] : m \in Nat} OBVIOUS
  <1> QED BY <1>1, SeqDef

(***************************************************************************)
(* Bins                                                                    *)
(***************************************************************************)
USE HeapAssumption DEF Start, End, Addresses, Bins, BinMax, None

\* Every size has a bin, between the bounds that Above gives it.
IsBinOf(i, sz) == (i > 0 => sz >= Above[i]) /\ (i < BinMax => sz < Above[i + 1])

LEMMA BinOfBounds ==
    ASSUME NEW sz \in Nat PROVE BinOf(sz) \in Bins /\ IsBinOf(BinOf(sz), sz)
  <1> DEFINE P(i) == (i > 0 => sz >= Above[i]) /\ (i < BinMax => sz < Above[i + 1])
             larger == {k \in DOMAIN Above : sz < Above[k]}
  <1>1. Len(Above) \in Nat /\ DOMAIN Above = 1 .. Len(Above)
        /\ \A k \in DOMAIN Above : Above[k] \in Nat
    OBVIOUS
  <1>2. \E i \in Bins : P(i)
    <2>1. CASE larger = {}
      <3>1. P(Len(Above)) BY <2>1, <1>1
      <3> QED BY <3>1, <1>1
    <2>2. CASE larger # {}
      <3>1. larger \in SUBSET Nat BY <1>1
      <3>2. PICK k \in larger : \A l \in larger : k <= l BY <3>1, <2>2, Least
      <3>3. P(k - 1) BY <3>2, <1>1
      <3> QED BY <3>2, <3>3, <1>1
    <2> QED BY <2>1, <2>2
  <1> QED BY <1>2 DEF BinOf, IsBinOf

LEMMA BinOfType == ASSUME NEW sz \in Nat PROVE BinOf(sz) \in Bins
  BY BinOfBounds

Members(bin) == {bin[k] : k \in DOMAIN bin}
Distinct(bin) == \A k, l \in DOMAIN bin : bin[k] = bin[l] => k = l

SizeType == size \in [Addresses -> Nat]

LEMMA InsertMembers ==
    ASSUME SizeType, NEW bin \in Seq(Addresses), NEW a \in Addresses, NEW sz \in Nat
    PROVE  /\ Insert(bin, a, sz) \in Seq(Addresses)
           /\ Members(Insert(bin, a, sz)) = Members(bin) \union {a}
           /\ Distinct(bin) /\ a \notin Members(bin) => Distinct(Insert(bin, a, sz))
  <1> DEFINE larger == {k \in DOMAIN bin : size[bin[k]] > sz}
             at == IF larger = {} THEN Len(bin) + 1 ELSE Min(larger)
             longer == Insert(bin, a, sz)
  <1>1. Len(bin) \in Nat /\ DOMAIN bin = 1 .. Len(bin)
    OBVIOUS
  <1>2. at \in 1 .. Len(bin) + 1
    <2>1. larger \in SUBSET Nat /\ larger \subseteq 1 .. Len(bin) BY <1>1
    <2>2. larger # {} => Min(larger) \in larger
      <3> HIDE DEF larger
      <3> QED BY <2>1, MinIsLeast
    <2>3. CASE larger = {} BY <1>1, <2>3
    <2>4. CASE larger # {}
      <3>1. at = Min(larger) BY <2>4
      <3>2. at \in 1 .. Len(bin) BY <2>1, <2>2, <2>4, <3>1
      <3> QED BY <1>1, <3>2
    <2> QED BY <2>3, <2>4
  <1>3. longer = [k \in 1 .. Len(bin) + 1 |->
                    IF k < at THEN bin[k] ELSE IF k = at THEN a ELSE bin[k - 1]]
    BY DEF Insert
  <1> HIDE DEF at, longer
  <1>4. DOMAIN longer = 1 .. Len(bin) + 1 BY <1>3
  <1>5. \A k \in 1 .. Len(bin) + 1 : longer[k] \in Addresses BY <1>1, <1>2, <1>3
  <1>6. longer \in Seq(Addresses)
    <2>1. longer \in [1 .. Len(bin) + 1 -> Addresses] BY <1>3, <1>5
    <2>2. Len(bin) + 1 \in Nat BY <1>1
    <2> QED BY <2>1, <2>2, SeqIntro
  <1>7. Members(longer) = Members(bin) \union {a}
    <2>1. \A k \in DOMAIN longer : longer[k] \in Members(bin) \union {a}
      BY <1>1, <1>2, <1>3 DEF Members
    <2>2. \A k \in DOMAIN bin : longer[IF k < at THEN k ELSE k + 1] = bin[k]
                               /\ (IF k < at THEN k ELSE k + 1) \in DOMAIN longer
      BY <1>1, <1>2, <1>3
    <2>3. longer[at] = a /\ at \in DOMAIN longer BY <1>2, <1>3
    <2>4. \A k \in DOMAIN bin : bin[k] \in Members(longer) BY <2>2 DEF Members
    <2>5. a \in Members(longer) BY <2>3 DEF Members
    <2> QED BY <2>1, <2>4, <2>5 DEF Members
  <1>8. ASSUME Distinct(bin), a \notin Members(bin) PROVE Distinct(longer)
    <2> SUFFICES ASSUME NEW k \in DOMAIN longer, NEW l \in DOMAIN longer, k < l,
                        longer[k] = longer[l]
                 PROVE  FALSE
      BY <1>1, <1>4 DEF Distinct
    <2> DEFINE from(i) == IF i < at THEN i ELSE i - 1
    <2>1. \A i \in DOMAIN bin : bin[i] # a BY <1>8 DEF Members
    <2>2. \A i \in DOMAIN longer : i # at => from(i) \in DOMAIN bin /\ longer[i] = bin[from(i)]
      BY <1>1, <1>2, <1>3
    <2>3. k # at /\ l # at BY <1>2, <1>3, <1>4, <2>1, <2>2
    <2>4. from(k) # from(l) BY <1>2, <1>4, <2>3
    <2> QED BY <1>8, <2>2, <2>3, <2>4 DEF Distinct
  <1> QED BY <1>6, <1>7, <1>8 DEF longer

LEMMA WithoutMembers ==
    ASSUME NEW bin \in Seq(Addresses), Distinct(bin), NEW a \in Addresses
    PROVE  /\ Without(bin, a) \in Seq(Addresses)
           /\ Members(Without(bin, a)) = Members(bin) \ {a}
           /\ Distinct(Without(bin, a))
  <1> DEFINE places == {k \in DOMAIN bin : bin[k] = a}
             at == Min(places)
             shorter == [k \in 1 .. Len(bin) - 1 |-> IF k < at THEN bin[k] ELSE bin[k + 1]]
  <1>1. Len(bin) \in Nat /\ DOMAIN bin = 1 .. Len(bin)
        /\ \A k \in DOMAIN bin : bin[k] \in Addresses
    OBVIOUS
  <1>2. CASE places = {}
    <2>1. Without(bin, a) = bin BY <1>2 DEF Without
    <2>2. a \notin Members(bin) BY <1>2 DEF Members
    <2> QED BY <2>1, <2>2
  <1>3. CASE places # {}
    <2>1. Without(bin, a) = shorter BY <1>3 DEF Without
    <2>2. at \in places
      <3>1. places \in SUBSET Nat BY <1>1
      <3> HIDE DEF places
      <3> QED BY <3>1, <1>3, MinIsLeast
    <2>3. at \in 1 .. Len(bin) /\ bin[at] = a BY <1>1, <2>2
    <2> HIDE DEF at, places
    <2>4. \A k \in 1 .. Len(bin) : bin[k] = a => k = at BY <1>1, <2>3 DEF Distinct
    <2>5. shorter \in Seq(Addresses)
      <3>1. shorter \in [1 .. Len(bin) - 1 -> Addresses] BY <1>1, <2>3
      <3>2. Len(bin) - 1 \in Nat BY <1>1, <2>3
      <3> QED BY <3>1, <3>2, SeqIntro
    <2>6. Members(shorter) = Members(bin) \ {a}
      <3>1. \A k \in DOMAIN shorter : shorter[k] \in Members(bin) \ {a}
        BY <1>1, <2>3, <2>4 DEF Members
      <3>2. \A k \in DOMAIN bin : k # at =>
                /\ shorter[IF k < at THEN k ELSE k - 1] = bin[k]
                /\ (IF k < at THEN k ELSE k - 1) \in DOMAIN shorter
        BY <1>1, <2>3
      <3>3. \A k \in DOMAIN bin : k # at => bin[k] \in Members(shorter)
        <4> HIDE DEF shorter
        <4> QED BY <3>2 DEF Members
      <3> HIDE DEF shorter
      <3> QED BY <1>1, <2>3, <3>1, <3>3 DEF Members
    <2>7. Distinct(shorter)
      <3> DEFINE from(i) == IF i < at THEN i ELSE i + 1
      <3>1. \A i \in DOMAIN shorter :
                i \in Int /\ from(i) \in DOMAIN bin /\ shorter[i] = bin[from(i)]
        BY <1>1, <2>3
      <3>2. \A k, l \in DOMAIN shorter : from(k) = from(l) => k = l BY <1>1, <2>3
      <3> HIDE DEF shorter, from
      <3> QED BY <3>1, <3>2 DEF Distinct
    <2> QED BY <2>1, <2>5, <2>6, <2>7
  <1> QED BY <1>2, <1>3

\* A step of the lists, each of which has a node at most once.
ListsOK(lists) ==
    lists \in [Bins -> Seq(Addresses)] /\ \A i \in Bins : Distinct(lists[i])

\* What putting a node in its bin makes of the lists.
HasPut(lists, more, a, sz) ==
    /\ ListsOK(more)
    /\ \A i \in Bins : Members(more[i]) =
         IF i = BinOf(sz) THEN Members(lists[i]) \union {a} ELSE Members(lists[i])

Absent(lists, a) == \A i \in Bins : a \notin Members(lists[i])

LEMMA PutMembers ==
    ASSUME SizeType, NEW lists, ListsOK(lists), NEW a \in Addresses, NEW sz \in Nat,
           Absent(lists, a)
    PROVE  HasPut(lists, Put(lists, a, sz), a, sz)
  <1> DEFINE b == BinOf(sz)
             longer == Insert(lists[b], a, sz)
  <1>1. b \in Bins BY BinOfType
  <1>2. /\ longer \in Seq(Addresses) /\ Distinct(longer)
        /\ Members(longer) = Members(lists[b]) \union {a}
    BY <1>1, InsertMembers DEF ListsOK, Absent
  <1>3. Put(lists, a, sz) = [lists EXCEPT ![b] = longer] BY DEF Put
  <1> HIDE DEF b, longer
  <1>4. \A i \in Bins : Put(lists, a, sz)[i] = IF i = b THEN longer ELSE lists[i]
    BY <1>3 DEF ListsOK
  <1>5. Put(lists, a, sz) \in [Bins -> Seq(Addresses)] BY <1>2, <1>3 DEF ListsOK
  <1> QED BY <1>2, <1>4, <1>5 DEF ListsOK, HasPut, b

LEMMA DropMembers ==
    ASSUME NEW lists, ListsOK(lists), NEW a \in Addresses, NEW b \in Bins,
           \A i \in Bins : a \in Members(lists[i]) => i = b
    PROVE  LET less == [lists EXCEPT ![b] = Without(@, a)]
           IN  ListsOK(less) /\ \A i \in Bins : Members(less[i]) = Members(lists[i]) \ {a}
  <1> DEFINE shorter == Without(lists[b], a)
             less == [lists EXCEPT ![b] = shorter]
  <1>1. /\ shorter \in Seq(Addresses) /\ Distinct(shorter)
        /\ Members(shorter) = Members(lists[b]) \ {a}
    BY WithoutMembers DEF ListsOK
  <1> HIDE DEF shorter
  <1>2. \A i \in Bins : less[i] = IF i = b THEN shorter ELSE lists[i]
    BY DEF ListsOK
  <1>3. less \in [Bins -> Seq(Addresses)] BY <1>1 DEF ListsOK
  <1> HIDE DEF less
  <1>4. ListsOK(less) BY <1>1, <1>2, <1>3 DEF ListsOK
  <1>5. \A i \in Bins : Members(less[i]) = Members(lists[i]) \ {a} BY <1>1, <1>2
  <1> QED BY <1>4, <1>5 DEF less, shorter

\* What taking a node out of its bin makes of the lists.
HasTakenOut(lists, less, a) ==
    ListsOK(less) /\ \A i \in Bins : Members(less[i]) = Members(lists[i]) \ {a}

InItsBin(lists, a) == \A i \in Bins : a \in Members(lists[i]) => i = BinOf(size[a])

LEMMA TakeOutMembers ==
    ASSUME SizeType, NEW lists, ListsOK(lists), NEW a \in Addresses, InItsBin(lists, a)
    PROVE  HasTakenOut(lists, TakeOut(lists, a), a)
  <1>1. BinOf(size[a]) \in Bins BY BinOfType DEF SizeType
  <1> QED BY <1>1, DropMembers DEF TakeOut, HasTakenOut, InItsBin

(***************************************************************************)
(* The invariant                                                           *)
(***************************************************************************)
TypeOK ==
    /\ heads \subseteq Addresses /\ SizeType
    /\ hole \in [Addresses -> BOOLEAN]
    /\ foot \in [Addresses -> Addresses \union {None}]
    /\ asked \in [Addresses -> Int]

\* A block is behind the one that its neighbour's footer leads to.
Preceded ==
    \A a \in heads : a # Start => PrevOf(a) \in heads /\ NextOf(PrevOf(a)) = a

HolesOf(i) == {a \in heads : hole[a] /\ BinOf(size[a]) = i}
Binned == ListsOK(bins) /\ \A i \in Bins : Members(bins[i]) = HolesOf(i)

IInv == TypeOK /\ Tiles /\ Preceded /\ Binned /\ HasRoom

LEMMA InitIInv == Init => IInv
  <1> SUFFICES ASSUME Init PROVE IInv
    OBVIOUS
  <1> DEFINE whole == HeapSize - Overhead
  <1>1. whole \in Nat /\ BinOf(whole) \in Bins BY BinOfType
  <1>2. TypeOK BY <1>1 DEF Init, TypeOK, SizeType
  <1>3. Tiles BY <1>1 DEF Init, Tiles, NextOf, PrevOf
  <1>4. Preceded BY DEF Init, Preceded
  <1>5. HasRoom BY DEF Init, HasRoom, Used
  <1>6. Binned
    <2>1. <<Start>> \in Seq(Addresses) /\ <<>> \in Seq(Addresses) OBVIOUS
    <2>2. Distinct(<<Start>>) /\ Distinct(<<>>) BY DEF Distinct
    <2>3. ListsOK(bins) BY <1>1, <2>1, <2>2 DEF Init, ListsOK
    <2>4. Members(<<Start>>) = {Start} /\ Members(<<>>) = {} BY DEF Members
    <2>5. ASSUME NEW i \in Bins PROVE Members(bins[i]) = HolesOf(i)
      <3>1. bins[i] = IF i = BinOf(whole) THEN <<Start>> ELSE <<>> BY DEF Init
      <3>2. HolesOf(i) = IF i = BinOf(whole) THEN {Start} ELSE {}
        <4>1. heads = {Start} /\ size[Start] = whole BY DEF Init
        <4>2. hole[Start]
          <5>1. Start \in Addresses OBVIOUS
          <5>2. hole = [a \in Addresses |-> a = Start] BY DEF Init
          <5> QED BY <5>1, <5>2, Zenon
        <4> HIDE DEF whole
        <4> QED BY <4>1, <4>2 DEF HolesOf
      <3> QED BY <3>1, <3>2, <2>4
    <2> QED BY <2>3, <2>5 DEF Binned
  <1> QED BY <1>2, <1>3, <1>4, <1>5, <1>6 DEF IInv

(***************************************************************************)
(* heap_alloc                                                              *)
(***************************************************************************)
LEMMA RoundedRoom ==
    ASSUME NEW request \in Requests
    PROVE  /\ Rounded(request) \in Nat /\ request \in Nat
           /\ request <= Rounded(request) \/ request = WordSize - 1
  <1>1. request \in 0 .. WordSize - 1 /\ request \in Nat OBVIOUS
  <1>2. request % 2 \in {0, 1} BY <1>1
  <1> DEFINE odd == request % 2
             sum == request + odd
  <1>6. Rounded(request) = sum % WordSize BY Zenon DEF Rounded
  <1>0. odd \in {0, 1} BY <1>2
  <1> HIDE DEF odd
  <1>3. sum \in Nat /\ request <= sum /\ sum <= WordSize BY <1>0, <1>1
  <1>7. sum = WordSize => request = WordSize - 1 BY <1>0, <1>1
  <1> HIDE DEF sum
  <1>4. sum < WordSize => sum % WordSize = sum BY <1>3
  <1>5. sum % WordSize \in Nat BY <1>3
  <1> QED BY <1>1, <1>3, <1>4, <1>5, <1>6, <1>7

\* What the search finds is a hole in the bin it was found in, and large enough.
LEMMA FoundIsHole ==
    ASSUME IInv, NEW sz \in Nat, FitBins(sz) # {}
    PROVE  /\ FoundIn(sz) \in Bins
           /\ Found(sz) \in heads /\ hole[Found(sz)]
           /\ size[Found(sz)] >= sz
           /\ BinOf(size[Found(sz)]) = FoundIn(sz)
  <1> DEFINE i == FoundIn(sz)
             k == Min(Fits(i, sz))
  <1>1. BinOf(sz) \in Bins BY BinOfType
  <1>2. FitBins(sz) \in SUBSET Nat BY <1>1 DEF FitBins
  <1>3. i \in FitBins(sz) BY <1>2, MinIsLeast DEF FoundIn
  <1>4. i \in Bins /\ Fits(i, sz) # {} BY <1>1, <1>3 DEF FitBins
  <1>5. bins[i] \in Seq(Addresses) BY <1>4 DEF IInv, Binned, ListsOK
  <1>6. Fits(i, sz) \in SUBSET Nat
    <2>1. DOMAIN bins[i] = 1 .. Len(bins[i]) /\ Len(bins[i]) \in Nat BY <1>5
    <2> QED BY <2>1 DEF Fits
  <1>7. k \in Fits(i, sz)
    <2> HIDE DEF i
    <2> QED BY <1>4, <1>6, MinIsLeast
  <1>8. Found(sz) = bins[i][k] BY DEF Found
  <1> HIDE DEF i, k
  <1>9. k \in DOMAIN bins[i] /\ size[bins[i][k]] >= sz BY <1>7 DEF Fits
  <1>10. bins[i][k] \in HolesOf(i) BY <1>4, <1>9 DEF IInv, Binned, Members
  <1> QED BY <1>4, <1>8, <1>9, <1>10 DEF HolesOf, i

\* A node is in no bin but the one of its size.
LEMMA BinnedOnce ==
    ASSUME IInv, NEW a \in Addresses, NEW i \in Bins, a \in Members(bins[i])
    PROVE  i = BinOf(size[a]) /\ a \in heads /\ hole[a]
  BY DEF IInv, Binned, HolesOf

LEMMA TakeWholeIInv ==
    ASSUME IInv, NEW request \in Requests, TakeWhole(request) PROVE IInv'
  <1>1. PICK sz \in Nat : sz = Rounded(request) /\ (request <= sz \/ request = WordSize - 1)
    BY RoundedRoom
  <1>2. FitBins(sz) # {} BY <1>1 DEF TakeWhole
  <1>3. PICK a \in heads, b \in Bins :
            a = Found(sz) /\ b = FoundIn(sz) /\ hole[a] /\ size[a] >= sz /\ BinOf(size[a]) = b
    BY <1>1, <1>2, FoundIsHole
  <1>4. /\ heads' = heads /\ size' = size /\ foot' = foot
        /\ hole' = [hole EXCEPT ![a] = FALSE]
        /\ bins' = [bins EXCEPT ![b] = Without(@, a)]
        /\ asked' = [asked EXCEPT ![a] = request]
    BY <1>1, <1>3 DEF TakeWhole
  <1>5. a \in Addresses /\ heads \subseteq Addresses /\ request \in Int
    BY <1>3, RoundedRoom DEF IInv, TypeOK
  <1>6. \A x \in Addresses : asked'[x] = IF x = a THEN request ELSE asked[x]
    BY <1>4 DEF IInv, TypeOK
  <1>12. \A x \in Addresses : hole'[x] <=> x # a /\ hole[x]
    BY <1>4 DEF IInv, TypeOK
  <1>7. TypeOK' BY <1>4, <1>5 DEF IInv, TypeOK, SizeType
  <1>8. Tiles' BY <1>4 DEF IInv, Tiles, NextOf, PrevOf
  <1>9. Preceded' BY <1>4 DEF IInv, Preceded, NextOf, PrevOf
  <1>10. Binned'
    <2> DEFINE less == [bins EXCEPT ![b] = Without(@, a)]
    <2>1. ListsOK(bins) /\ \A i \in Bins : a \in Members(bins[i]) => i = b
      BY <1>3, <1>5, BinnedOnce DEF IInv, Binned
    <2>2. ListsOK(less) /\ \A i \in Bins : Members(less[i]) = Members(bins[i]) \ {a}
      BY <1>5, <2>1, DropMembers
    <2>3. bins' = less BY <1>4
    <2> HIDE DEF less
    <2>4. ListsOK(bins') BY <2>2, <2>3
    <2>5. ASSUME NEW i \in Bins
          PROVE  Members(bins'[i]) = {x \in heads' : hole'[x] /\ BinOf(size'[x]) = i}
      <3>1. Members(bins[i]) = {x \in heads : hole[x] /\ BinOf(size[x]) = i}
        BY DEF IInv, Binned, HolesOf
      <3>2. Members(bins'[i]) = Members(bins[i]) \ {a} BY <2>2, <2>3
      <3>3. \A x \in heads : hole'[x] <=> x # a /\ hole[x] BY <1>5, <1>12
      <3> QED BY <3>1, <3>2, <3>3, <1>4, Zenon
    <2> QED BY <2>4, <2>5 DEF Binned, HolesOf, BinOf
  <1>11. HasRoom'
    <2> SUFFICES ASSUME NEW x \in heads, ~hole'[x]
                 PROVE  asked'[x] <= size[x] \/ asked'[x] = WordSize - 1
      BY <1>4 DEF HasRoom, Used
    <2>1. x \in Addresses BY <1>5
    <2>2. CASE x = a
      <3>1. asked'[x] = request BY <1>6, <2>1, <2>2
      <3>2. size[x] \in Nat BY <2>1 DEF IInv, TypeOK, SizeType
      <3> QED BY <1>1, <1>3, <1>5, <2>2, <3>1, <3>2
    <2>3. CASE x # a
      <3>1. asked'[x] = asked[x] BY <1>6, <2>1, <2>3
      <3>2. ~hole[x] BY <1>12, <2>1, <2>3
      <3> QED BY <3>1, <3>2 DEF IInv, HasRoom, Used
    <2> QED BY <2>2, <2>3
  <1> QED BY <1>7, <1>8, <1>9, <1>10, <1>11 DEF IInv

(***************************************************************************)
(* Where blocks are: splits and joins                                      *)
(***************************************************************************)

\* Where the block behind one begins, of given sizes S.
Behind(S, a) == a + Overhead + S[a]

\* Tiles and Preceded of given headers H, sizes S and footers F.
Geometry(H, S, F) ==
    /\ H \subseteq Addresses /\ Start \in H /\ End \notin H
    /\ S \in [Addresses -> Nat] /\ F \in [Addresses -> Addresses \union {None}]
    /\ \A a \in H : Behind(S, a) \in H \union {End} /\ F[Behind(S, a)] = a
    /\ \A a, b \in H : a < b => Behind(S, a) <= b
    /\ \A a \in H : a # Start => F[a] \in H /\ Behind(S, F[a]) = a

\* What the invariant says of places is said by Geometry, before a step
LEMMA GeometryNow == ASSUME IInv PROVE Geometry(heads, size, foot)
  <1>1. \A a : NextOf(a) = Behind(size, a) BY DEF NextOf, Behind
  <1> QED BY <1>1 DEF IInv, TypeOK, SizeType, Tiles, Preceded, PrevOf, Geometry

\* and after one.
LEMMA GeometryNext ==
    ASSUME Geometry(heads', size', foot') PROVE Tiles' /\ Preceded' /\ SizeType'
  <1>1. Tiles'
    <2>1. \A a \in heads' : size'[a] >= 0 BY DEF Geometry
    <2> QED BY <2>1 DEF Tiles, NextOf, PrevOf, Geometry, Behind
  <1>2. Preceded' BY DEF Preceded, NextOf, PrevOf, Geometry, Behind
  <1>3. SizeType' BY DEF SizeType, Geometry
  <1> QED BY <1>1, <1>2, <1>3

\* A block has a place, and ends in front of the next.
LEMMA Place ==
    ASSUME NEW H, NEW S, NEW F, Geometry(H, S, F), NEW a \in H
    PROVE  /\ a \in Nat /\ a \in Addresses /\ S[a] \in Nat
           /\ Behind(S, a) = a + Overhead + S[a]
           /\ Behind(S, a) \in Nat /\ Behind(S, a) \in Addresses
           /\ a < Behind(S, a)
           /\ \A b \in H : Behind(S, a) = Behind(S, b) => a = b
  <1>1. a \in Nat /\ a \in Addresses /\ S[a] \in Nat BY DEF Geometry
  <1>2. Behind(S, a) = a + Overhead + S[a] BY DEF Behind
  <1>3. Behind(S, a) \in Addresses
    <2>1. End \in Addresses OBVIOUS
    <2>2. Behind(S, a) \in H \union {End} /\ H \subseteq Addresses BY DEF Geometry
    <2> QED BY <2>1, <2>2
  <1>4. a < Behind(S, a) /\ Behind(S, a) \in Nat BY <1>1, <1>2
  <1>5. \A b \in H : Behind(S, a) = Behind(S, b) => a = b BY DEF Geometry
  <1> QED BY <1>1, <1>2, <1>3, <1>4, <1>5

SplitAt(a, sz) == a + Overhead + sz
SplitRest(S, a, sz) == S[a] - sz - Overhead
SplitSizes(S, a, sz) == [S EXCEPT ![a] = sz, ![SplitAt(a, sz)] = SplitRest(S, a, sz)]
SplitFeet(S, F, a, sz) ==
    [F EXCEPT ![SplitAt(a, sz)] = a, ![Behind(S, a)] = SplitAt(a, sz)]
IsRoomy(S, a, sz) == S[a] - sz > Overhead

\* A block that is large enough makes two.
LEMMA Split ==
    ASSUME NEW H, NEW S, NEW F, Geometry(H, S, F),
           NEW a \in H, NEW sz \in Nat, IsRoomy(S, a, sz)
    PROVE  /\ Geometry(H \union {SplitAt(a, sz)}, SplitSizes(S, a, sz), SplitFeet(S, F, a, sz))
           /\ SplitAt(a, sz) \in Addresses \ H /\ a < SplitAt(a, sz)
           /\ SplitRest(S, a, sz) \in Nat
  <1> DEFINE split == SplitAt(a, sz)
             S2 == SplitSizes(S, a, sz)
             F2 == SplitFeet(S, F, a, sz)
             H2 == H \union {split}
             end == Behind(S, a)
             rest == SplitRest(S, a, sz)
  <1>1. /\ a \in Nat /\ S[a] \in Nat /\ a \in Addresses /\ Overhead \in Nat \ {0}
        /\ end = a + Overhead + S[a] /\ end \in Addresses /\ end \in Nat
    BY Place
  <1>2. end \in H \union {End} BY DEF Geometry
  <1>3. a < split /\ split < end /\ split \in Nat /\ rest \in Nat
        /\ split = a + Overhead + sz /\ split + Overhead + rest = end
    BY ONLY <1>1, IsRoomy(S, a, sz), sz \in Nat DEF SplitAt, SplitRest, IsRoomy
  <1>4. split \in Addresses /\ split # a /\ split # end BY <1>1, <1>3
  <1>7. /\ S2 = [S EXCEPT ![a] = sz, ![split] = rest]
        /\ F2 = [F EXCEPT ![split] = a, ![end] = split]
    BY DEF SplitSizes, SplitFeet
  <1> HIDE DEF end, rest, split, S2, F2
  <1>5. \A x \in H : a < x => end <= x BY DEF Geometry, end
  <1>6. split \notin H /\ split # End BY <1>1, <1>3, <1>5
  <1>8. S2 \in [Addresses -> Nat] /\ F2 \in [Addresses -> Addresses \union {None}]
    BY <1>1, <1>3, <1>4, <1>7 DEF Geometry
  <1>9. \A x \in Addresses : S2[x] = IF x = split THEN rest ELSE IF x = a THEN sz ELSE S[x]
    BY <1>1, <1>4, <1>7 DEF Geometry
  <1>10. \A x \in Addresses : F2[x] = IF x = end THEN split ELSE IF x = split THEN a ELSE F[x]
    BY <1>1, <1>4, <1>7 DEF Geometry
  <1>11. Behind(S2, a) = split /\ Behind(S2, split) = end
    <2>1. S2[a] = sz BY <1>1, <1>4, <1>9
    <2>2. S2[split] = rest BY <1>4, <1>9
    <2> QED BY <2>1, <2>2, <1>3 DEF Behind
  <1>12. \A x \in H : x # a => Behind(S2, x) = Behind(S, x)
    <2>1. \A x \in H : x # a => S2[x] = S[x] BY <1>6, <1>9 DEF Geometry
    <2> QED BY <2>1 DEF Behind
  <1>14. \A x \in H : x # a => Behind(S, x) # end BY Place DEF end
  <1>15. \A x \in H : Behind(S, x) # split BY <1>6 DEF Geometry
  <1>13. \A x \in H2 : x \in Nat BY <1>3 DEF Geometry
  <1>16. \A x \in H2 : Behind(S2, x) \in H2 \union {End} /\ F2[Behind(S2, x)] = x
    <2> SUFFICES ASSUME NEW x \in H2
                 PROVE  Behind(S2, x) \in H2 \union {End} /\ F2[Behind(S2, x)] = x
      OBVIOUS
    <2>1. CASE x = a
      <3>1. F2[split] = a BY <1>4, <1>10
      <3> QED BY <2>1, <1>11, <3>1
    <2>2. CASE x = split
      <3>1. F2[end] = split BY <1>1, <1>10
      <3> QED BY <2>2, <1>2, <1>11, <3>1
    <2>3. CASE x \in H /\ x # a
      <3>1. Behind(S2, x) = Behind(S, x) BY <2>3, <1>12
      <3>2. Behind(S, x) \in H \union {End} /\ F[Behind(S, x)] = x
        BY <2>3 DEF Geometry
      <3>3. Behind(S, x) \in Addresses BY <2>3, Place
      <3>4. F2[Behind(S, x)] = x BY <3>2, <3>3, <2>3, <1>10, <1>14, <1>15
      <3> QED BY <3>1, <3>2, <3>4
    <2> QED BY <2>1, <2>2, <2>3
  <1>17. \A x, y \in H2 : x < y => Behind(S2, x) <= y
    <2> SUFFICES ASSUME NEW x \in H2, NEW y \in H2, x < y PROVE Behind(S2, x) <= y
      OBVIOUS
    <2>1. x \in Nat /\ y \in Nat BY <1>13
    <2>2. CASE x = split
      <3>1. a < y /\ y \in H BY <2>1, <2>2, <1>1, <1>3
      <3> QED BY <3>1, <2>2, <1>5, <1>11
    <2>3. CASE x = a
      <3>1. CASE y = split BY <3>1, <2>3, <1>3, <1>11
      <3>2. CASE y \in H
        <4>1. end <= y BY <3>2, <2>3, <1>5
        <4> QED BY <4>1, <2>1, <2>3, <1>1, <1>3, <1>11
      <3> QED BY <3>1, <3>2
    <2>4. CASE x \in H /\ x # a /\ y \in H BY <2>4, <1>12 DEF Geometry
    <2>5. CASE x \in H /\ x # a /\ y = split
      <3>1. x < a
        <4>1. CASE a < x
          <5>1. end <= x BY <4>1, <2>5, <1>5
          <5> QED BY <5>1, <2>1, <2>5, <1>1, <1>3
        <4> QED BY <4>1, <2>1, <2>5, <1>1
      <3>2. Behind(S, x) <= a BY <2>5, <3>1 DEF Geometry
      <3>3. Behind(S, x) \in Nat BY <2>5, Place
      <3>4. Behind(S2, x) = Behind(S, x) BY <2>5, <1>12
      <3>5. Behind(S, x) <= split BY <3>2, <3>3, <1>1, <1>3
      <3> QED BY <3>4, <3>5, <2>5
    <2> QED BY <2>2, <2>3, <2>4, <2>5
  <1>18. \A x \in H2 : x # Start => F2[x] \in H2 /\ Behind(S2, F2[x]) = x
    <2> SUFFICES ASSUME NEW x \in H2, x # Start
                 PROVE  F2[x] \in H2 /\ Behind(S2, F2[x]) = x
      OBVIOUS
    <2>1. CASE x = split
      <3>1. F2[x] = a BY <2>1, <1>4, <1>10
      <3> QED BY <3>1, <2>1, <1>11
    <2>2. CASE x = end
      <3>1. F2[x] = split BY <2>2, <1>1, <1>10
      <3> QED BY <3>1, <2>2, <1>11
    <2>3. CASE x # split /\ x # end
      <3>1. x \in H BY <2>3
      <3>2. F[x] \in H /\ Behind(S, F[x]) = x BY <3>1 DEF Geometry
      <3>3. x \in Addresses BY <3>1 DEF Geometry
      <3>4. F2[x] = F[x] BY <3>3, <2>3, <1>10
      <3>5. F[x] # a BY <3>2, <2>3 DEF end
      <3> QED BY <3>2, <3>4, <3>5, <1>12
    <2> QED BY <2>1, <2>2, <2>3
  <1>19. H2 \subseteq Addresses /\ Start \in H2 /\ End \notin H2
    BY <1>4, <1>6 DEF Geometry
  <1>20. Geometry(H2, S2, F2) BY <1>8, <1>16, <1>17, <1>18, <1>19 DEF Geometry
  <1> QED BY <1>3, <1>4, <1>6, <1>20 DEF rest, split, S2, F2

LEMMA Sums ==
    ASSUME NEW a \in Nat, NEW b \in Nat, NEW c \in Nat, NEW s \in Nat, NEW t \in Nat,
           b = a + Overhead + s, c = b + Overhead + t
    PROVE  a < b /\ b < c /\ a + Overhead + (s + Overhead + t) = c
  OBVIOUS

Adjacent(S, a, b) == Behind(S, a) = b
JoinedSizes(S, a, b) ==
    [x \in Addresses |-> IF x = a THEN S[a] + Overhead + S[b] ELSE IF x = b THEN 0 ELSE S[x]]
JoinedFeet(S, F, a, b) ==
    [x \in Addresses |-> IF x = Behind(S, b) THEN a ELSE IF x = b THEN None ELSE F[x]]

\* Two neighbours make one block.
LEMMA Join ==
    ASSUME NEW H, NEW S, NEW F, Geometry(H, S, F),
           NEW a \in H, NEW b \in H, Adjacent(S, a, b)
    PROVE  /\ Geometry(H \ {b}, JoinedSizes(S, a, b), JoinedFeet(S, F, a, b))
           /\ a < b /\ Behind(JoinedSizes(S, a, b), a) = Behind(S, b)
           /\ Behind(S, b) \in Addresses
  <1> DEFINE end == Behind(S, b)
             S2 == JoinedSizes(S, a, b)
             F2 == JoinedFeet(S, F, a, b)
  <1>1. /\ a \in Nat /\ a \in Addresses /\ S[a] \in Nat
        /\ b \in Nat /\ b \in Addresses /\ S[b] \in Nat /\ Overhead \in Nat \ {0}
        /\ b = a + Overhead + S[a] /\ end = b + Overhead + S[b]
        /\ end \in Addresses /\ end \in Nat
    BY Place DEF Adjacent
  <1>5. S2 \in [Addresses -> Nat] /\ F2 \in [Addresses -> Addresses \union {None}]
    <2>1. S2 \in [Addresses -> Nat]
      <3>1. S[a] + Overhead + S[b] \in Nat BY ONLY <1>1
      <3>2. S \in [Addresses -> Nat] BY DEF Geometry
      <3> QED BY <3>1, <3>2 DEF JoinedSizes
    <2>2. F2 \in [Addresses -> Addresses \union {None}] BY <1>1 DEF Geometry, JoinedFeet
    <2> QED BY <2>1, <2>2
  <1>14. \A x \in Addresses : S2[x] = IF x = a THEN S[a] + Overhead + S[b]
                                      ELSE IF x = b THEN 0 ELSE S[x]
    BY DEF JoinedSizes
  <1>2. a < b /\ b < end /\ a # b /\ end # b /\ b # Start
    <2>1. a < b /\ b < end BY Place DEF Adjacent
    <2> QED BY <2>1, <1>1
  <1>3. end \in H \union {End} BY DEF Geometry
  <1>4. Behind(S2, a) = end
    <2>1. S2[a] = S[a] + Overhead + S[b] BY <1>1, <1>14
    <2>2. Behind(S2, a) = a + Overhead + S2[a] BY Zenon DEF Behind
    <2>3. a + Overhead + (S[a] + Overhead + S[b]) = end BY ONLY <1>1, Sums
    <2> QED BY <2>1, <2>2, <2>3
  <1>6. \A x \in H : x # a /\ x # b => Behind(S2, x) = Behind(S, x)
    <2>1. \A x \in H : x # a /\ x # b => S2[x] = S[x] BY <1>14 DEF Geometry
    <2> QED BY <2>1 DEF Behind
  <1>7. \A x \in Addresses : F2[x] = IF x = end THEN a ELSE IF x = b THEN None ELSE F[x]
    BY DEF JoinedFeet
  <1>8. \A x \in H : x # b => Behind(S, x) # end BY Place
  <1>9. \A x \in H : x # a => Behind(S, x) # b BY Place DEF Adjacent
  <1> HIDE DEF end, S2, F2
  <1>10. \A x \in H \ {b} : /\ Behind(S2, x) \in (H \ {b}) \union {End}
                            /\ F2[Behind(S2, x)] = x
    <2> SUFFICES ASSUME NEW x \in H \ {b}
                 PROVE  Behind(S2, x) \in (H \ {b}) \union {End} /\ F2[Behind(S2, x)] = x
      OBVIOUS
    <2>1. CASE x = a
      <3>1. F2[end] = a BY <1>1, <1>7
      <3>2. end # b BY <1>1, <1>2
      <3> QED BY <2>1, <3>1, <3>2, <1>3, <1>4
    <2>2. CASE x # a
      <3>1. Behind(S2, x) = Behind(S, x) BY <2>2, <1>6
      <3>2. Behind(S, x) \in H \union {End} /\ F[Behind(S, x)] = x BY DEF Geometry
      <3>3. Behind(S, x) \in Addresses BY Place
      <3>4. Behind(S, x) # end /\ Behind(S, x) # b BY <2>2, <1>8, <1>9
      <3>5. F2[Behind(S, x)] = x BY <3>2, <3>3, <3>4, <1>7
      <3> QED BY <3>1, <3>2, <3>4, <3>5
    <2> QED BY <2>1, <2>2
  <1>11. \A x, y \in H \ {b} : x < y => Behind(S2, x) <= y
    <2> SUFFICES ASSUME NEW x \in H \ {b}, NEW y \in H \ {b}, x < y
                 PROVE  Behind(S2, x) <= y
      OBVIOUS
    <2>1. CASE x = a
      <3>1. b <= y BY <2>1 DEF Geometry, Adjacent
      <3>2. y \in Nat BY DEF Geometry
      <3>3. b < y BY <3>1, <3>2, <1>1
      <3>4. end <= y BY <3>3 DEF Geometry, end
      <3> QED BY <3>4, <2>1, <1>4
    <2>2. CASE x # a
      <3>1. Behind(S, x) <= y BY DEF Geometry
      <3> QED BY <3>1, <2>2, <1>6
    <2> QED BY <2>1, <2>2
  <1>12. \A x \in H \ {b} : x # Start => F2[x] \in H \ {b} /\ Behind(S2, F2[x]) = x
    <2> SUFFICES ASSUME NEW x \in H \ {b}, x # Start
                 PROVE  F2[x] \in H \ {b} /\ Behind(S2, F2[x]) = x
      OBVIOUS
    <2>1. x \in Addresses BY DEF Geometry
    <2>2. CASE x = end
      <3>1. F2[x] = a BY <2>1, <2>2, <1>7
      <3>2. a # b BY <1>1, <1>2
      <3> QED BY <3>1, <3>2, <2>2, <1>4
    <2>3. CASE x # end
      <3>1. F[x] \in H /\ Behind(S, F[x]) = x BY DEF Geometry
      <3>2. F[x] # b BY <3>1, <2>3 DEF end
      <3>3. F[x] # a BY <3>1 DEF Adjacent
      <3>4. F2[x] = F[x] BY <2>1, <2>3, <1>7
      <3> QED BY <3>1, <3>2, <3>3, <3>4, <1>6
    <2> QED BY <2>2, <2>3
  <1>13. H \ {b} \subseteq Addresses /\ Start \in H \ {b} /\ End \notin H \ {b}
    BY <1>1, <1>2 DEF Geometry
  <1>15. Geometry(H \ {b}, S2, F2)
    BY <1>5, <1>10, <1>11, <1>12, <1>13 DEF Geometry
  <1> QED BY <1>1, <1>2, <1>4, <1>15 DEF end, S2, F2

(***************************************************************************)
(* The other steps                                                         *)
(***************************************************************************)

LEMMA TakePartIInv ==
    ASSUME IInv, NEW request \in Requests, TakePart(request) PROVE IInv'
  <1>1. PICK sz \in Nat : sz = Rounded(request) /\ (request <= sz \/ request = WordSize - 1)
    BY RoundedRoom
  <1>2. FitBins(sz) # {} BY <1>1 DEF TakePart
  <1>3. PICK a \in heads, b \in Bins :
            a = Found(sz) /\ b = FoundIn(sz) /\ hole[a] /\ BinOf(size[a]) = b
    BY <1>1, <1>2, FoundIsHole
  <1>4. PICK split, rest, end :
            split = a + Overhead + sz /\ rest = size[a] - sz - Overhead /\ end = NextOf(a)
    OBVIOUS
  <1>5. /\ size[a] - sz > Overhead + MinAlloc
        /\ heads' = heads \union {split}
        /\ size' = [size EXCEPT ![a] = sz, ![split] = rest]
        /\ hole' = [hole EXCEPT ![a] = FALSE, ![split] = TRUE]
        /\ foot' = [foot EXCEPT ![split] = a, ![end] = split]
        /\ bins' = [Put(bins, split, rest) EXCEPT ![b] = Without(@, a)]
        /\ asked' = [asked EXCEPT ![a] = request]
    BY <1>1, <1>3, <1>4 DEF TakePart, Splits
  <1>6. /\ a \in Addresses /\ a \in Nat /\ heads \subseteq Addresses /\ request \in Int
        /\ size \in [Addresses -> Nat] /\ size[a] \in Nat
    BY ONLY <1>3, IInv, request \in Requests, RoundedRoom DEF IInv, TypeOK, SizeType
  <1>7. /\ Geometry(heads', size', foot') /\ split \in Addresses /\ split \notin heads
        /\ split # a /\ rest \in Nat
    <2>1. IsRoomy(size, a, sz) BY <1>5, <1>6 DEF IsRoomy
    <2>2. end = Behind(size, a) BY <1>4 DEF NextOf, Behind
    <2>3. split = SplitAt(a, sz) /\ rest = SplitRest(size, a, sz)
      BY <1>4 DEF SplitAt, SplitRest
    <2>4. size' = SplitSizes(size, a, sz) /\ foot' = SplitFeet(size, foot, a, sz)
      BY <1>5, <2>2, <2>3 DEF SplitSizes, SplitFeet
    <2>5. Geometry(heads, size, foot) BY GeometryNow
    <2>6. /\ Geometry(heads \union {split}, size', foot')
          /\ split \in Addresses \ heads /\ a < split /\ rest \in Nat
      BY <2>1, <2>3, <2>4, <2>5, Split
    <2>7. split # a BY <1>3, <2>6
    <2> QED BY <1>5, <2>6, <2>7
  <1>8. Tiles' /\ Preceded' /\ SizeType' BY <1>7, GeometryNext
  <1>9. \A x \in heads : x # a => size'[x] = size[x]
    BY <1>5, <1>6, <1>7
  <1>10. size'[a] = sz /\ size'[split] = rest BY <1>5, <1>6, <1>7
  <1>11. \A x \in Addresses : asked'[x] = IF x = a THEN request ELSE asked[x]
    BY <1>5 DEF IInv, TypeOK
  <1>12. \A x \in Addresses : hole'[x] <=> x = split \/ (x # a /\ hole[x])
    BY <1>5, <1>6, <1>7 DEF IInv, TypeOK
  <1>13. TypeOK'
    <2>1. hole' \in [Addresses -> BOOLEAN] BY <1>5 DEF IInv, TypeOK
    <2>2. asked' \in [Addresses -> Int] BY <1>5, <1>6 DEF IInv, TypeOK
    <2>3. foot' \in [Addresses -> Addresses \union {None}] BY <1>7 DEF Geometry
    <2>4. heads' \subseteq Addresses BY <1>7 DEF Geometry
    <2> QED BY <2>1, <2>2, <2>3, <2>4, <1>8 DEF TypeOK
  <1>14. Binned'
    <2> DEFINE lists == Put(bins, split, rest)
               less == [lists EXCEPT ![b] = Without(@, a)]
    <2>1. ListsOK(bins) /\ \A i \in Bins : split \notin Members(bins[i])
      BY <1>7, BinnedOnce DEF IInv, Binned
    <2>2. /\ ListsOK(lists)
          /\ \A i \in Bins : Members(lists[i]) =
               IF i = BinOf(rest) THEN Members(bins[i]) \union {split} ELSE Members(bins[i])
      <3>1. SizeType BY DEF IInv, TypeOK
      <3>2. split \in Addresses /\ rest \in Nat BY <1>7
      <3>3. ListsOK(bins) /\ Absent(bins, split) BY <2>1 DEF Absent
      <3> HIDE DEF Addresses
      <3>4. HasPut(bins, Put(bins, split, rest), split, rest) BY <3>1, <3>2, <3>3, PutMembers
      <3> QED BY <3>4 DEF HasPut, lists
    <2> HIDE DEF lists
    <2>3. \A i \in Bins : a \in Members(lists[i]) => i = b
      <3>1. \A i \in Bins : a \in Members(bins[i]) => i = b BY <1>3, <1>6, BinnedOnce
      <3> QED BY <2>2, <3>1, <1>7
    <2>4. ListsOK(less) /\ \A i \in Bins : Members(less[i]) = Members(lists[i]) \ {a}
      <3>1. a \in Addresses BY <1>6
      <3>2. ListsOK(lists) BY <2>2
      <3> HIDE DEF Addresses, Bins
      <3> QED BY <2>3, <3>1, <3>2, DropMembers
    <2>5. bins' = less BY <1>5 DEF lists
    <2> HIDE DEF less
    <2>6. ListsOK(bins') BY <2>4, <2>5
    <2>7. ASSUME NEW i \in Bins
          PROVE  Members(bins'[i]) = {x \in heads' : hole'[x] /\ BinOf(size'[x]) = i}
      <3>1. Members(bins[i]) = {x \in heads : hole[x] /\ BinOf(size[x]) = i}
        BY DEF IInv, Binned, HolesOf
      <3>2. Members(bins'[i]) = (Members(bins[i]) \ {a}) \union
                                (IF i = BinOf(rest) THEN {split} ELSE {})
        BY <2>2, <2>4, <2>5, <1>7
      <3>3. \A x \in heads : hole'[x] <=> x # a /\ hole[x] BY <1>6, <1>7, <1>12
      <3>4. hole'[split] BY <1>7, <1>12
      <3>5. \A x \in heads' : x \in heads \/ x = split BY <1>5
      <3>6. split \in heads' /\ heads \subseteq heads' BY <1>5
      <3>7. ASSUME NEW x \in heads' PROVE x \in Members(bins'[i]) <=> hole'[x] /\ BinOf(size'[x]) = i
        <4>1. CASE x = split BY <4>1, <3>1, <3>2, <3>4, <1>7, <1>10
        <4>2. CASE x \in heads /\ x # a
          <5>1. x # split /\ size'[x] = size[x] /\ (hole'[x] <=> hole[x])
            BY <4>2, <3>3, <1>7, <1>9
          <5> QED BY <4>2, <5>1, <3>1, <3>2
        <4>3. CASE x = a BY <4>3, <3>2, <3>3, <1>3, <1>7
        <4> QED BY <4>1, <4>2, <4>3, <3>5
      <3>8. Members(bins'[i]) \subseteq heads' BY <3>1, <3>2, <3>6
      <3> QED BY <3>7, <3>8
    <2> QED BY <2>6, <2>7 DEF Binned, HolesOf, BinOf
  <1>15. HasRoom'
    <2> SUFFICES ASSUME NEW x \in heads', ~hole'[x]
                 PROVE  asked'[x] <= size'[x] \/ asked'[x] = WordSize - 1
      BY DEF HasRoom, Used
    <2>1. x \in heads /\ x \in Addresses BY <1>5, <1>6, <1>7, <1>12
    <2>2. CASE x = a
      <3>1. asked'[x] = request /\ size'[x] = sz BY <2>1, <2>2, <1>10, <1>11
      <3> QED BY <3>1, <1>1
    <2>3. CASE x # a
      <3>1. asked'[x] = asked[x] /\ size'[x] = size[x] BY <2>1, <2>3, <1>9, <1>11
      <3>2. ~hole[x] BY <2>1, <2>3, <1>12
      <3> QED BY <2>1, <3>1, <3>2 DEF IInv, HasRoom, Used
    <2> QED BY <2>2, <2>3
  <1> QED BY <1>8, <1>13, <1>14, <1>15 DEF IInv

LEMMA FreeFirstIInv == ASSUME IInv, FreeFirst PROVE IInv'
  <1>1. Start \in heads /\ Start \in Addresses /\ ~hole[Start] /\ heads \subseteq Addresses
    BY DEF FreeFirst, Used, IInv, TypeOK
  <1>2. size[Start] \in Nat BY <1>1 DEF IInv, TypeOK, SizeType
  <1>3. /\ heads' = heads /\ size' = size /\ foot' = foot
        /\ hole' = [hole EXCEPT ![Start] = TRUE]
        /\ bins' = Put(bins, Start, size[Start])
        /\ asked' = [asked EXCEPT ![Start] = None]
    BY DEF FreeFirst
  <1>4. \A x \in Addresses : hole'[x] <=> x = Start \/ hole[x]
    BY <1>1, <1>3 DEF IInv, TypeOK
  <1>5. \A x \in Addresses : asked'[x] = IF x = Start THEN None ELSE asked[x]
    BY <1>1, <1>3 DEF IInv, TypeOK
  <1>6. TypeOK' BY ONLY <1>1, <1>3, IInv DEF IInv, TypeOK, SizeType
  <1>7. Tiles' BY <1>3 DEF IInv, Tiles, NextOf, PrevOf
  <1>8. Preceded' BY <1>3 DEF IInv, Preceded, NextOf, PrevOf
  <1>9. Binned'
    <2>1. ListsOK(bins) /\ \A i \in Bins : Start \notin Members(bins[i])
      BY <1>1, BinnedOnce DEF IInv, Binned
    <2>2. /\ ListsOK(bins')
          /\ \A i \in Bins : Members(bins'[i]) =
               IF i = BinOf(size[Start]) THEN Members(bins[i]) \union {Start} ELSE Members(bins[i])
      <3>1. SizeType BY DEF IInv, TypeOK
      <3> HIDE DEF Start, Addresses, Bins
      <3>2. bins' = Put(bins, Start, size[Start]) BY <1>3
      <3>3. Start \in Addresses BY <1>1
      <3>5. ListsOK(bins) /\ Absent(bins, Start) BY <2>1 DEF Absent
      <3>4. HasPut(bins, Put(bins, Start, size[Start]), Start, size[Start])
        BY <1>2, <3>1, <3>3, <3>5, PutMembers
      <3> QED BY <3>2, <3>4 DEF HasPut
    <2>3. ASSUME NEW i \in Bins
          PROVE  Members(bins'[i]) = {x \in heads' : hole'[x] /\ BinOf(size'[x]) = i}
      <3>1. Members(bins[i]) = {x \in heads : hole[x] /\ BinOf(size[x]) = i}
        BY DEF IInv, Binned, HolesOf
      <3>2. \A x \in heads : hole'[x] <=> x = Start \/ hole[x] BY <1>1, <1>4
      <3> QED BY <2>2, <3>1, <3>2, <1>1, <1>3
    <2> QED BY <2>2, <2>3 DEF Binned, HolesOf, BinOf
  <1>10. HasRoom'
    <2> SUFFICES ASSUME NEW x \in heads, ~hole'[x]
                 PROVE  asked'[x] <= size[x] \/ asked'[x] = WordSize - 1
      BY <1>3 DEF HasRoom, Used
    <2>1. x \in Addresses /\ x # Start /\ ~hole[x] BY <1>1, <1>4
    <2>2. asked'[x] = asked[x] BY <2>1, <1>5
    <2> QED BY <2>1, <2>2 DEF IInv, HasRoom, Used
  <1> QED BY <1>6, <1>7, <1>8, <1>9, <1>10 DEF IInv

\* The lists when heap_free has taken the neighbours out.
FreedLists(before, behind, first, second) ==
    LET lists == IF first THEN TakeOut(bins, before) ELSE bins
    IN  IF second THEN TakeOut(lists, behind) ELSE lists

HasLost(less, before, behind, first, second) ==
    /\ ListsOK(less)
    /\ \A i \in Bins : \A x : x \in Members(less[i]) <=>
         x \in Members(bins[i]) /\ ~(first /\ x = before) /\ ~(second /\ x = behind)

LEMMA FreeLists ==
    ASSUME IInv, NEW before \in Addresses, NEW behind \in Addresses,
           NEW first \in BOOLEAN, NEW second \in BOOLEAN
    PROVE  HasLost(FreedLists(before, behind, first, second), before, behind, first, second)
  <1> DEFINE lists == IF first THEN TakeOut(bins, before) ELSE bins
             less == FreedLists(before, behind, first, second)
  <1>7. less = IF second THEN TakeOut(lists, behind) ELSE lists BY DEF FreedLists
  <1>1. SizeType /\ ListsOK(bins) BY DEF IInv, TypeOK, Binned
  <1>2. InItsBin(bins, before) /\ InItsBin(bins, behind) BY BinnedOnce DEF InItsBin
  <1>3. /\ ListsOK(lists)
        /\ \A i \in Bins : \A x : x \in Members(lists[i]) <=>
             x \in Members(bins[i]) /\ ~(first /\ x = before)
    <2>1. HasTakenOut(bins, TakeOut(bins, before), before) BY <1>1, <1>2, TakeOutMembers
    <2>2. CASE first BY <2>1, <2>2 DEF HasTakenOut
    <2>3. CASE ~first BY <1>1, <2>3
    <2> QED BY <2>2, <2>3
  <1> HIDE DEF lists, less
  <1>4. InItsBin(lists, behind) BY <1>2, <1>3 DEF InItsBin
  <1>5. /\ ListsOK(less)
        /\ \A i \in Bins : \A x : x \in Members(less[i]) <=>
             x \in Members(lists[i]) /\ ~(second /\ x = behind)
    <2>1. HasTakenOut(lists, TakeOut(lists, behind), behind)
      BY <1>1, <1>3, <1>4, TakeOutMembers
    <2>2. CASE second BY <2>1, <2>2, <1>7 DEF HasTakenOut
    <2>3. CASE ~second BY <1>3, <2>3, <1>7
    <2> QED BY <2>2, <2>3
  <1>6. \A i \in Bins : \A x : x \in Members(less[i]) <=>
          x \in Members(bins[i]) /\ ~(first /\ x = before) /\ ~(second /\ x = behind)
    BY <1>3, <1>5
  <1> QED BY <1>5, <1>6 DEF HasLost, less

HeadFreed(a, before, first) == IF first THEN before ELSE a
HeadsBefore(H, a, first) == IF first THEN H \ {a} ELSE H
SizesBefore(S, a, before, first) == IF first THEN JoinedSizes(S, before, a) ELSE S
FeetBefore(S, F, a, before, first) == IF first THEN JoinedFeet(S, F, before, a) ELSE F
HeadsFreed(H, a, behind, first, second) ==
    IF second THEN HeadsBefore(H, a, first) \ {behind} ELSE HeadsBefore(H, a, first)
SizesFreed(S, a, before, behind, first, second) ==
    IF second THEN JoinedSizes(SizesBefore(S, a, before, first), HeadFreed(a, before, first), behind)
              ELSE SizesBefore(S, a, before, first)
FeetFreed(S, F, a, before, behind, first, second) ==
    IF second THEN JoinedFeet(SizesBefore(S, a, before, first),
                              FeetBefore(S, F, a, before, first),
                              HeadFreed(a, before, first), behind)
              ELSE FeetBefore(S, F, a, before, first)

\* Where blocks are when one has joined the holes before and behind it.
LEMMA FreePlaces ==
    ASSUME NEW H, NEW S, NEW F, Geometry(H, S, F), NEW a \in H,
           NEW before \in H, Adjacent(S, before, a), NEW behind, Adjacent(S, a, behind),
           NEW first \in BOOLEAN, NEW second \in BOOLEAN, second => behind \in H
    PROVE  /\ Geometry(HeadsFreed(H, a, behind, first, second),
                       SizesFreed(S, a, before, behind, first, second),
                       FeetFreed(S, F, a, before, behind, first, second))
           /\ HeadFreed(a, before, first) \in HeadsFreed(H, a, behind, first, second)
           /\ before < a /\ a < behind /\ behind \in Nat
  <1> DEFINE S1 == SizesBefore(S, a, before, first)
             F1 == FeetBefore(S, F, a, before, first)
             head == HeadFreed(a, before, first)
             H1 == HeadsBefore(H, a, first)
  <1>1. before < a /\ before # a BY Place DEF Adjacent
  <1>2. a < behind /\ a \in Nat /\ behind \in Nat /\ behind # a BY Place DEF Adjacent
  <1>3. Geometry(H1, S1, F1) /\ Behind(S1, head) = behind /\ head \in H1
    <2>1. CASE first
      <3>1. /\ Geometry(H \ {a}, JoinedSizes(S, before, a), JoinedFeet(S, F, before, a))
            /\ Behind(JoinedSizes(S, before, a), before) = Behind(S, a)
        BY Join
      <3> QED BY <2>1, <3>1, <1>1
              DEF Adjacent, SizesBefore, FeetBefore, HeadsBefore, HeadFreed
    <2>2. CASE ~first BY <2>2 DEF Adjacent, SizesBefore, FeetBefore, HeadsBefore, HeadFreed
    <2> QED BY <2>1, <2>2
  <1>4. second => behind \in H1 BY <1>2 DEF HeadsBefore
  <1> HIDE DEF S1, F1, head, H1
  <1>5. CASE second
    <2>1. Adjacent(S1, head, behind) BY <1>3 DEF Adjacent
    <2>2. /\ Geometry(H1 \ {behind}, JoinedSizes(S1, head, behind), JoinedFeet(S1, F1, head, behind))
          /\ head < behind
      BY <1>3, <1>4, <1>5, <2>1, Join
    <2>3. head # behind BY <2>2, <1>2
    <2> QED BY <1>1, <1>2, <1>3, <1>5, <2>2, <2>3
            DEF S1, F1, head, H1, HeadsFreed, SizesFreed, FeetFreed
  <1>6. CASE ~second
    BY <1>1, <1>2, <1>3, <1>6 DEF S1, F1, head, H1, HeadsFreed, SizesFreed, FeetFreed
  <1> QED BY <1>5, <1>6

LEMMA FreeIInv == ASSUME IInv, NEW a \in heads, Free(a) PROVE IInv'
  <1>1. PICK before, behind, first, second :
            /\ before = foot[a] /\ behind = NextOf(a)
            /\ first = (hole[before] = TRUE)
            /\ second = (behind # End /\ hole[behind] = TRUE)
    OBVIOUS
  <1>2. PICK head, length :
            /\ head = IF first THEN before ELSE a
            /\ length = size[a] + (IF first THEN Overhead + size[before] ELSE 0)
                                + (IF second THEN Overhead + size[behind] ELSE 0)
    OBVIOUS
  <1>3. PICK gone : gone = (IF first THEN {a} ELSE {}) \union (IF second THEN {behind} ELSE {})
    OBVIOUS
  <1>4. Geometry(heads, size, foot) BY GeometryNow
  <1>5. /\ a # Start /\ ~hole[a] /\ first \in BOOLEAN /\ second \in BOOLEAN
        /\ heads \subseteq Addresses /\ a \in Addresses
    BY <1>1 DEF Free, Used, IInv, TypeOK
  <1>6. behind = Behind(size, a) BY <1>1 DEF NextOf, Behind
  <1>7. before \in heads /\ Behind(size, before) = a
    BY <1>1, <1>4, <1>5 DEF Geometry
  <1>8. behind \in Addresses /\ (second => behind \in heads)
    <2>1. behind \in heads \union {End} BY <1>4, <1>6 DEF Geometry
    <2>2. behind \in Addresses BY <1>4, <1>6, Place
    <2> QED BY <1>1, <2>1, <2>2
  <1>9. (first <=> hole[before]) /\ (second <=> behind # End /\ hole[behind])
    <2>1. hole[before] \in BOOLEAN /\ hole[behind] \in BOOLEAN
      BY <1>7, <1>8 DEF IInv, TypeOK
    <2> QED BY <1>1, <2>1, Zenon
  <1>20. PICK less : less = FreedLists(before, behind, first, second) OBVIOUS
  <1>10. /\ heads' = heads \ gone
         /\ size' = [x \in Addresses |->
                        IF x = head THEN length ELSE IF x \in gone THEN 0 ELSE size[x]]
         /\ hole' = [x \in Addresses |-> x = head \/ (x \notin gone /\ hole[x])]
         /\ foot' = [x \in Addresses |->
                        IF x = head + Overhead + length THEN head
                        ELSE IF x \in gone THEN None ELSE foot[x]]
         /\ bins' = Put(less, head, length)
         /\ asked' = [asked EXCEPT ![a] = None]
    <2>1. first = hole[before] /\ second = (behind # End /\ hole[behind])
      BY <1>5, <1>9, <1>7, <1>8 DEF IInv, TypeOK
    <2> QED BY <1>1, <1>2, <1>3, <1>20, <2>1, Zenon DEF Free, PrevOf, FreedLists
  <1>11. /\ length \in Nat /\ head \in heads /\ head \in Addresses
         /\ Geometry(heads', size', foot') /\ head \in heads'
    <2> DEFINE S2 == SizesFreed(size, a, before, behind, first, second)
               F2 == FeetFreed(size, foot, a, before, behind, first, second)
               H2 == HeadsFreed(heads, a, behind, first, second)
    <2>1. Geometry(H2, S2, F2) /\ HeadFreed(a, before, first) \in H2
          /\ before < a /\ a < behind /\ behind \in Nat
      <3>1. Adjacent(size, before, a) /\ Adjacent(size, a, behind)
        BY <1>6, <1>7 DEF Adjacent
      <3> QED BY <1>4, <1>5, <1>7, <1>8, <3>1, FreePlaces
    <2>2. head = HeadFreed(a, before, first) BY <1>2 DEF HeadFreed
    <2>3. heads' = H2 BY <1>3, <1>10 DEF HeadsFreed, HeadsBefore
    <2>4. length \in Nat /\ size' = S2 /\ foot' = F2
      <3>1. size[a] \in Nat /\ size[before] \in Nat /\ a \in Nat /\ before \in Nat
        BY <1>5, <1>7 DEF IInv, TypeOK, SizeType
      <3>2. behind = a + Overhead + size[a] /\ a = before + Overhead + size[before]
        BY <1>6, <1>7 DEF Behind
      <3>3. second => size[behind] \in Nat BY <1>8 DEF IInv, TypeOK, SizeType
      <3>8. before < a /\ a < behind /\ before # a /\ a # behind /\ before # behind
        BY <2>1, <3>1
      <3>9. PICK s1 \in Nat, s2 \in Nat, s3 \in Nat :
                s1 = size[before] /\ s2 = size[a] /\ (second => s3 = size[behind])
        BY <3>1, <3>3
      <3>10. behind = a + Overhead + s2 /\ a = before + Overhead + s1 BY <3>2, <3>9
      <3>4. CASE first /\ second
        <4> DEFINE S1 == JoinedSizes(size, before, a)
                   F1 == JoinedFeet(size, foot, before, a)
        <4>1. head = before /\ gone = {a, behind} BY <1>2, <1>3, <3>4
        <4>2. length = size[a] + (Overhead + size[before]) + (Overhead + size[behind])
          BY <1>2, <3>4
        <4>3. \A x \in Addresses : S1[x] = IF x = before THEN size[before] + Overhead + size[a]
                                           ELSE IF x = a THEN 0 ELSE size[x]
          BY DEF JoinedSizes
        <4>4. S1[before] = size[before] + Overhead + size[a] /\ S1[behind] = size[behind]
          BY <4>3, <1>5, <1>7, <1>8, <3>8
        <4>10. /\ length = s2 + (Overhead + s1) + (Overhead + s3)
               /\ S1[before] = s1 + Overhead + s2 /\ S1[behind] = s3
          BY <4>2, <4>4, <3>4, <3>9
        <4>5. length = S1[before] + Overhead + S1[behind] /\ length \in Nat
          <5>1. /\ length = (s1 + Overhead + s2) + Overhead + s3
                /\ s2 + (Overhead + s1) + (Overhead + s3) \in Nat
            BY <4>10
          <5> QED BY <5>1, <4>10
        <4>6. \A x \in Addresses : F1[x] = IF x = behind THEN before
                                           ELSE IF x = a THEN None ELSE foot[x]
          BY <1>6 DEF JoinedFeet
        <4>7. Behind(S1, behind) = head + Overhead + length
          <5>1. Behind(S1, behind) = behind + Overhead + size[behind] BY <4>4 DEF Behind
          <5>2. before + Overhead + length = behind + Overhead + size[behind]
            <6>1. before + Overhead + length = behind + Overhead + s3
              BY <4>10, <3>1, <3>10
            <6> QED BY <6>1, <3>4, <3>9
          <5> QED BY <5>1, <5>2, <4>1
        <4> HIDE DEF S1, F1
        <4>8. size' = JoinedSizes(S1, before, behind)
          BY <1>10, <4>1, <4>3, <4>5, <3>8 DEF JoinedSizes
        <4>9. foot' = JoinedFeet(S1, F1, before, behind)
          BY <1>10, <4>1, <4>6, <4>7, <3>8 DEF JoinedFeet
        <4> QED BY <3>4, <4>5, <4>8, <4>9
                DEF S1, F1, SizesFreed, FeetFreed, SizesBefore, FeetBefore, HeadFreed
      <3>5. CASE first /\ ~second
        <4>1. head = before /\ gone = {a} BY <1>2, <1>3, <3>5
        <4>2. length = size[before] + Overhead + size[a] /\ length \in Nat
          BY <1>2, <3>1, <3>5
        <4>3. head + Overhead + length = Behind(size, a)
          <5>1. length = s1 + Overhead + s2 BY <4>2, <3>9
          <5>2. before + Overhead + length = behind BY <5>1, <3>1, <3>10
          <5> QED BY <5>2, <4>1, <1>6
        <4>4. size' = JoinedSizes(size, before, a) BY <1>10, <4>1, <4>2 DEF JoinedSizes
        <4>5. foot' = JoinedFeet(size, foot, before, a) BY <1>10, <4>1, <4>3 DEF JoinedFeet
        <4> QED BY <3>5, <4>2, <4>4, <4>5
                DEF SizesFreed, FeetFreed, SizesBefore, FeetBefore
      <3>6. CASE ~first /\ second
        <4>1. head = a /\ gone = {behind} BY <1>2, <1>3, <3>6
        <4>2. length = size[a] + Overhead + size[behind] /\ length \in Nat
          BY <1>2, <3>1, <3>3, <3>6
        <4>3. head + Overhead + length = Behind(size, behind)
          <5>1. Behind(size, behind) = behind + Overhead + size[behind] BY DEF Behind
          <5>2. length = s2 + Overhead + s3 BY <4>2, <3>6, <3>9
          <5>3. a + Overhead + length = behind + Overhead + s3 BY <5>2, <3>1, <3>10
          <5> QED BY <5>1, <5>3, <4>1, <3>6, <3>9
        <4>4. size' = JoinedSizes(size, a, behind) BY <1>10, <4>1, <4>2 DEF JoinedSizes
        <4>5. foot' = JoinedFeet(size, foot, a, behind) BY <1>10, <4>1, <4>3 DEF JoinedFeet
        <4> QED BY <3>6, <4>2, <4>4, <4>5
                DEF SizesFreed, FeetFreed, SizesBefore, FeetBefore, HeadFreed
      <3>7. CASE ~first /\ ~second
        <4>1. head = a /\ gone = {} BY <1>2, <1>3, <3>7
        <4>2. length = size[a] /\ length \in Nat BY <1>2, <3>1, <3>7
        <4>3. foot[behind] = a /\ head + Overhead + length = behind
          BY <1>4, <1>6, <4>1, <4>2, <3>2 DEF Geometry
        <4>4. size \in [Addresses -> Nat] /\ foot \in [Addresses -> Addresses \union {None}]
          BY <1>4 DEF Geometry
        <4>5. size' = size BY <1>10, <4>1, <4>2, <4>4
        <4>6. foot' = foot BY <1>10, <4>1, <4>3, <4>4
        <4> QED BY <3>7, <4>2, <4>5, <4>6
                DEF SizesFreed, FeetFreed, SizesBefore, FeetBefore
      <3> QED BY <3>4, <3>5, <3>6, <3>7
    <2> HIDE DEF S2, F2, H2
    <2> QED BY <1>2, <1>5, <1>7, <2>1, <2>2, <2>3, <2>4
  <1>12. Tiles' /\ Preceded' /\ SizeType' BY <1>11, GeometryNext
  <1>13. TypeOK'
    <2>1. hole' \in [Addresses -> BOOLEAN] BY <1>10
    <2>2. asked' \in [Addresses -> Int] BY <1>10 DEF IInv, TypeOK
    <2>3. foot' \in [Addresses -> Addresses \union {None}] /\ heads' \subseteq Addresses
      BY <1>11 DEF Geometry
    <2> QED BY <2>1, <2>2, <2>3, <1>12 DEF TypeOK
  <1>14. \A x \in Addresses : hole'[x] <=> x = head \/ (x \notin gone /\ hole[x])
    BY <1>10 DEF IInv, TypeOK
  <1>15. \A x \in Addresses : x # head /\ x \notin gone => size'[x] = size[x]
    BY <1>10
  <1>16. size'[head] = length BY <1>10, <1>11
  <1>17. \A x \in Addresses : asked'[x] = IF x = a THEN None ELSE asked[x]
    BY <1>10 DEF IInv, TypeOK
  <1>18. Binned'
    <2>1. /\ ListsOK(less)
          /\ \A i \in Bins : \A x : x \in Members(less[i]) <=>
               x \in Members(bins[i]) /\ ~(first /\ x = before) /\ ~(second /\ x = behind)
      <3>1. before \in Addresses /\ behind \in Addresses BY <1>5, <1>7, <1>8
      <3>2. first \in BOOLEAN /\ second \in BOOLEAN BY <1>5
      <3> HIDE DEF Addresses
      <3>3. HasLost(less, before, behind, first, second) BY <1>20, <3>1, <3>2, FreeLists
      <3> QED BY <3>3 DEF HasLost
    <2>2. Absent(less, head)
      <3>1. \A i \in Bins : a \notin Members(bins[i]) BY <1>5, BinnedOnce
      <3> QED BY <2>1, <3>1, <1>2 DEF Absent
    <2>3. HasPut(less, bins', head, length)
      <3>1. SizeType BY DEF IInv, TypeOK
      <3>2. bins' = Put(less, head, length) BY <1>10
      <3> QED BY <2>1, <2>2, <3>1, <3>2, <1>11, PutMembers
    <2>4. ListsOK(bins') BY <2>3 DEF HasPut
    <2>5. ASSUME NEW i \in Bins
          PROVE  Members(bins'[i]) = {x \in heads' : hole'[x] /\ BinOf(size'[x]) = i}
      <3>1. Members(bins[i]) = {x \in heads : hole[x] /\ BinOf(size[x]) = i}
        BY DEF IInv, Binned, HolesOf
      <3>2. \A x : x \in Members(bins'[i]) <=>
                \/ x = head /\ i = BinOf(length)
                \/ x \in Members(bins[i]) /\ ~(first /\ x = before) /\ ~(second /\ x = behind)
        BY <2>1, <2>3 DEF HasPut
      <3>3. ASSUME NEW x
            PROVE  x \in Members(bins'[i]) <=> x \in heads' /\ hole'[x] /\ BinOf(size'[x]) = i
        <4>1. CASE x = head
          <5>1. hole'[x] /\ size'[x] = length /\ x \in heads' BY <4>1, <1>11, <1>14, <1>16
          <5>2. x \notin Members(less[i]) BY <4>1, <2>2 DEF Absent
          <5> QED BY <4>1, <5>1, <5>2, <3>2, <2>1
        <4>2. CASE x # head /\ x \in gone
          <5>1. x \notin heads' BY <4>2, <1>10
          <5>2. x = a \/ (second /\ x = behind) BY <4>2, <1>3
          <5>3. x \notin Members(bins'[i]) BY <4>2, <5>2, <3>1, <3>2, <1>5
          <5> QED BY <5>1, <5>3
        <4>3. CASE x # head /\ x \notin gone
          <5>1. ~(first /\ x = before) /\ ~(second /\ x = behind) BY <4>3, <1>2, <1>3
          <5>2. x \in heads' <=> x \in heads BY <4>3, <1>10
          <5>3. x \in heads => size'[x] = size[x] /\ (hole'[x] <=> hole[x])
            BY <4>3, <1>5, <1>14, <1>15
          <5> QED BY <4>3, <5>1, <5>2, <5>3, <3>1, <3>2
        <4> QED BY <4>1, <4>2, <4>3
      <3> QED BY <3>3
    <2> QED BY <2>4, <2>5 DEF Binned, HolesOf, BinOf
  <1>19. HasRoom'
    <2> SUFFICES ASSUME NEW x \in heads', ~hole'[x]
                 PROVE  asked'[x] <= size'[x] \/ asked'[x] = WordSize - 1
      BY DEF HasRoom, Used
    <2>1. x \in heads /\ x \in Addresses /\ x \notin gone BY <1>5, <1>10
    <2>2. x # head /\ ~hole[x] BY <2>1, <1>14
    <2>3. x # a BY <2>1, <2>2, <1>2, <1>3
    <2>4. asked'[x] = asked[x] /\ size'[x] = size[x] BY <2>1, <2>2, <2>3, <1>15, <1>17
    <2> QED BY <2>1, <2>2, <2>4 DEF IInv, HasRoom, Used
  <1> QED BY <1>12, <1>13, <1>18, <1>19 DEF IInv

(***************************************************************************)
(* The theorems                                                            *)
(***************************************************************************)
LEMMA NextIInv == IInv /\ [Next]_vars => IInv'
  <1> SUFFICES ASSUME IInv, [Next]_vars PROVE IInv' OBVIOUS
  <1>1. ASSUME UNCHANGED <<heads, size, hole, foot, bins, asked>> PROVE IInv'
    <2>1. TypeOK' BY <1>1 DEF IInv, TypeOK, SizeType
    <2>2. Tiles' BY <1>1 DEF IInv, Tiles, NextOf, PrevOf
    <2>3. Preceded' BY <1>1 DEF IInv, Preceded, NextOf, PrevOf
    <2>4. Binned' BY ONLY <1>1, IInv DEF IInv, Binned, HolesOf, BinOf, ListsOK, Distinct, Members
    <2>5. HasRoom' BY <1>1 DEF IInv, HasRoom, Used
    <2> QED BY <2>1, <2>2, <2>3, <2>4, <2>5 DEF IInv
  <1>2. CASE UNCHANGED vars BY <1>1, <1>2 DEF vars
  <1>3. CASE \E request \in Requests : TakeWhole(request) BY <1>3, TakeWholeIInv
  <1>4. CASE \E request \in Requests : TakePart(request) BY <1>4, TakePartIInv
  <1>5. CASE FreeFirst BY <1>5, FreeFirstIInv
  <1>6. CASE \E a \in heads : Free(a) BY <1>6, FreeIInv
  <1>7. CASE \E a \in heads : Escape(a) BY <1>1, <1>7 DEF Escape
  <1> QED BY <1>2, <1>3, <1>4, <1>5, <1>6, <1>7 DEF Next

LEMMA Inductive == Spec => []IInv
  <1>1. Init => IInv BY InitIInv
  <1>2. IInv /\ [Next]_vars => IInv' BY NextIInv
  <1> QED BY <1>1, <1>2, PTL DEF Spec

\* Whatever is asked for and freed, blocks tile the heap: heap_alloc's splits
\* and heap_free's joins never hand out a byte twice.
THEOREM BlocksTile == Spec => []Tiles
  <1>1. IInv => Tiles BY DEF IInv
  <1> QED BY <1>1, Inductive, PTL

\* A caller has the bytes it asked for, but for the one request that wraps.
THEOREM CallersHaveRoom == Spec => []HasRoom
  <1>1. IInv => HasRoom BY DEF IInv
  <1> QED BY <1>1, Inductive, PTL

\* The bins have every hole once and nothing in use: what heap_alloc finds in
\* a bin is nobody's.
THEOREM BinsAreRight == Spec => []BinsHoldHoles
  <1>1. IInv => BinsHoldHoles
    <2> SUFFICES ASSUME IInv PROVE BinsHoldHoles OBVIOUS
    <2>1. \A i \in Bins : Members(bins[i]) = HolesOf(i) /\ Distinct(bins[i])
      BY DEF IInv, Binned, ListsOK
    <2>2. ASSUME NEW i \in Bins, NEW k \in DOMAIN bins[i]
          PROVE  /\ bins[i][k] \in heads /\ hole[bins[i][k]] /\ BinOf(size[bins[i][k]]) = i
                 /\ \A l \in DOMAIN bins[i] : bins[i][k] = bins[i][l] => k = l
      <3>1. bins[i][k] \in HolesOf(i) BY <2>1 DEF Members
      <3>2. \A l \in DOMAIN bins[i] : bins[i][k] = bins[i][l] => k = l
        BY <2>1 DEF Distinct
      <3> QED BY <3>1, <3>2 DEF HolesOf
    <2>3. ASSUME NEW a \in heads, hole[a]
          PROVE  \E k \in DOMAIN bins[BinOf(size[a])] : bins[BinOf(size[a])][k] = a
      <3>1. BinOf(size[a]) \in Bins
        <4>1. size[a] \in Nat BY DEF IInv, TypeOK, SizeType
        <4> QED BY <4>1, BinOfType
      <3>2. a \in Members(bins[BinOf(size[a])]) BY <2>1, <2>3, <3>1 DEF HolesOf
      <3> QED BY <3>2 DEF Members
    <2> QED BY <2>2, <2>3 DEF BinsHoldHoles
  <1> QED BY <1>1, Inductive, PTL

(***************************************************************************)
(* The best fit: every bin has its nodes in the order of their sizes, and  *)
(* a bin above another larger ones.                                        *)
(***************************************************************************)
SortedBy(S, bin) == \A k, l \in DOMAIN bin : k < l => S[bin[k]] <= S[bin[l]]
ListsSorted(S, lists) == \A i \in Bins : SortedBy(S, lists[i])
Sorted == ListsSorted(size, bins)

\* The sizes of the nodes of a list are those they had.
SameSizes(T, S, bin) == \A x \in Members(bin) : T[x] = S[x]

LEMMA SortedFrame ==
    ASSUME NEW bin, NEW S, NEW T, SortedBy(S, bin), SameSizes(T, S, bin)
    PROVE  SortedBy(T, bin)
  <1>1. \A k \in DOMAIN bin : T[bin[k]] = S[bin[k]] BY DEF SameSizes, Members
  <1> QED BY <1>1 DEF SortedBy

\* A node goes behind all that are not larger.
LEMMA InsertSorted ==
    ASSUME SizeType, NEW bin \in Seq(Addresses), NEW a \in Addresses, NEW sz \in Nat,
           SortedBy(size, bin), NEW T, T[a] = sz, SameSizes(T, size, bin)
    PROVE  SortedBy(T, Insert(bin, a, sz))
  <1> DEFINE larger == {k \in DOMAIN bin : size[bin[k]] > sz}
             at == IF larger = {} THEN Len(bin) + 1 ELSE Min(larger)
             longer == Insert(bin, a, sz)
  <1>1. /\ Len(bin) \in Nat /\ DOMAIN bin = 1 .. Len(bin)
        /\ \A k \in DOMAIN bin : size[bin[k]] \in Nat
    <2>1. Len(bin) \in Nat /\ DOMAIN bin = 1 .. Len(bin) OBVIOUS
    <2>2. \A k \in DOMAIN bin : bin[k] \in Addresses OBVIOUS
    <2> QED BY ONLY <2>1, <2>2, SizeType DEF SizeType
  <1>2. /\ at \in 1 .. Len(bin) + 1
        /\ \A k \in DOMAIN bin : k < at => size[bin[k]] <= sz
        /\ at \in DOMAIN bin => size[bin[at]] > sz
    <2>1. larger \in SUBSET Nat /\ larger \subseteq DOMAIN bin BY <1>1
    <2>2. CASE larger = {}
      <3>1. \A k \in DOMAIN bin : size[bin[k]] <= sz BY <1>1, <2>2
      <3> QED BY <2>2, <3>1, <1>1
    <2>3. CASE larger # {}
      <3>1. at = Min(larger) BY <2>3
      <3>2. at \in larger /\ \A k \in larger : at <= k
        <4> HIDE DEF larger, at
        <4> QED BY <2>1, <2>3, <3>1, MinIsLeast
      <3> HIDE DEF at
      <3>3. \A k \in DOMAIN bin : k < at => k \notin larger BY <3>2, <1>1
      <3>4. \A k \in DOMAIN bin : k < at => size[bin[k]] <= sz BY <3>3, <1>1
      <3> QED BY <3>2, <3>4, <1>1
    <2> QED BY <2>2, <2>3
  <1>3. longer = [k \in 1 .. Len(bin) + 1 |->
                    IF k < at THEN bin[k] ELSE IF k = at THEN a ELSE bin[k - 1]]
    BY DEF Insert
  <1> HIDE DEF at, longer, larger
  <1>4. \A k \in DOMAIN bin : k >= at => sz <= size[bin[k]]
    <2> SUFFICES ASSUME NEW k \in DOMAIN bin, k >= at PROVE sz <= size[bin[k]] OBVIOUS
    <2>1. at \in DOMAIN bin BY <1>1, <1>2
    <2>2. size[bin[at]] <= size[bin[k]]
      BY ONLY <1>1, <1>2, <2>1, SortedBy(size, bin), k \in DOMAIN bin, k >= at DEF SortedBy
    <2> QED BY <2>1, <2>2, <1>1, <1>2
  <1>5. \A k \in DOMAIN longer : k \in Nat BY <1>3
  <1>6. \A k \in DOMAIN longer :
          /\ k < at => k \in DOMAIN bin /\ longer[k] = bin[k]
          /\ k = at => longer[k] = a
          /\ k > at => k - 1 \in DOMAIN bin /\ longer[k] = bin[k - 1] /\ k - 1 >= at
    <2>1. \A k \in DOMAIN longer : k < at => k \in DOMAIN bin /\ longer[k] = bin[k]
      BY <1>1, <1>2, <1>3
    <2>2. \A k \in DOMAIN longer : k = at => longer[k] = a BY <1>1, <1>2, <1>3
    <2>3. \A k \in DOMAIN longer :
            k > at => k - 1 \in DOMAIN bin /\ longer[k] = bin[k - 1] /\ k - 1 >= at
      BY <1>1, <1>2, <1>3
    <2> QED BY <2>1, <2>2, <2>3
  <1>7. \A k \in DOMAIN bin : T[bin[k]] = size[bin[k]] BY DEF SameSizes, Members
  <1>8. ASSUME NEW k \in DOMAIN longer, NEW l \in DOMAIN longer, k < l
        PROVE  T[longer[k]] <= T[longer[l]]
    <2>0. k \in Nat /\ l \in Nat /\ at \in Nat BY <1>1, <1>2, <1>5
    <2>1. CASE k < at /\ l < at
      <3>1. k \in DOMAIN bin /\ l \in DOMAIN bin /\ longer[k] = bin[k] /\ longer[l] = bin[l]
        BY <1>6, <2>0, <2>1
      <3>2. size[bin[k]] <= size[bin[l]] BY <3>1, <1>8 DEF SortedBy
      <3> QED BY <3>1, <3>2, <1>7
    <2>2. CASE k < at /\ l = at
      <3>1. k \in DOMAIN bin /\ longer[k] = bin[k] /\ longer[l] = a BY <1>6, <2>0, <2>2
      <3>2. size[bin[k]] <= sz BY <3>1, <2>2, <1>2
      <3> QED BY <3>1, <3>2, <1>7
    <2>3. CASE k < at /\ l > at
      <3>1. k \in DOMAIN bin /\ longer[k] = bin[k] BY <1>6, <2>0, <2>3
      <3>2. l - 1 \in DOMAIN bin /\ longer[l] = bin[l - 1] BY <1>6, <2>0, <2>3
      <3>3. k < l - 1 BY <2>0, <2>3
      <3>4. size[bin[k]] <= size[bin[l - 1]] BY <3>1, <3>2, <3>3 DEF SortedBy
      <3> QED BY <3>1, <3>2, <3>4, <1>7
    <2>4. CASE k = at
      <3>1. longer[k] = a /\ l > at BY <1>6, <1>8, <2>0, <2>4
      <3>2. l - 1 \in DOMAIN bin /\ longer[l] = bin[l - 1] /\ l - 1 >= at
        BY <1>6, <3>1
      <3>3. sz <= size[bin[l - 1]] BY <3>2, <1>4
      <3> QED BY <3>1, <3>2, <3>3, <1>7
    <2>5. CASE k > at
      <3>1. k - 1 \in DOMAIN bin /\ longer[k] = bin[k - 1] BY <1>6, <2>0, <2>5
      <3>2. l - 1 \in DOMAIN bin /\ longer[l] = bin[l - 1]
        <4>1. l > at BY <1>8, <2>0, <2>5
        <4> QED BY <4>1, <1>6
      <3>3. k - 1 < l - 1 BY <2>0, <1>8
      <3>4. size[bin[k - 1]] <= size[bin[l - 1]] BY <3>1, <3>2, <3>3 DEF SortedBy
      <3> QED BY <3>1, <3>2, <3>4, <1>7
    <2> QED BY <1>8, <2>0, <2>1, <2>2, <2>3, <2>4, <2>5
  <1> QED BY <1>8 DEF SortedBy, longer

LEMMA WithoutSorted ==
    ASSUME NEW bin \in Seq(Addresses), NEW a, NEW S, SortedBy(S, bin)
    PROVE  SortedBy(S, Without(bin, a))
  <1> DEFINE places == {k \in DOMAIN bin : bin[k] = a}
             at == Min(places)
             shorter == [k \in 1 .. Len(bin) - 1 |-> IF k < at THEN bin[k] ELSE bin[k + 1]]
  <1>1. Len(bin) \in Nat /\ DOMAIN bin = 1 .. Len(bin) OBVIOUS
  <1>2. CASE places = {}
    <2>1. Without(bin, a) = bin BY <1>2 DEF Without
    <2> QED BY <2>1
  <1>3. CASE places # {}
    <2>1. Without(bin, a) = shorter BY <1>3 DEF Without
    <2>2. at \in Nat
      <3>1. places \in SUBSET Nat BY <1>1
      <3> HIDE DEF places
      <3> QED BY <3>1, <1>3, MinIsLeast
    <2> HIDE DEF at
    <2> DEFINE from(i) == IF i < at THEN i ELSE i + 1
    <2>3. \A i \in DOMAIN shorter :
              i \in Int /\ from(i) \in DOMAIN bin /\ shorter[i] = bin[from(i)]
      BY <1>1
    <2>4. \A k, l \in DOMAIN shorter : k < l => from(k) < from(l) BY <1>1, <2>2
    <2> HIDE DEF shorter, from
    <2>5. \A k, l \in DOMAIN shorter : k < l => S[shorter[k]] <= S[shorter[l]]
      BY <2>3, <2>4 DEF SortedBy
    <2> QED BY <2>1, <2>5 DEF SortedBy
  <1> QED BY <1>2, <1>3

LEMMA PutSorted ==
    ASSUME SizeType, NEW lists, ListsOK(lists), ListsSorted(size, lists),
           NEW a \in Addresses, NEW sz \in Nat, NEW T, T[a] = sz,
           \A i \in Bins : SameSizes(T, size, lists[i])
    PROVE  ListsSorted(T, Put(lists, a, sz))
  <1> DEFINE b == BinOf(sz)
             longer == Insert(lists[b], a, sz)
  <1>1. b \in Bins BY BinOfType
  <1>2. SortedBy(T, longer)
    <2>1. lists[b] \in Seq(Addresses) /\ SortedBy(size, lists[b]) /\ SameSizes(T, size, lists[b])
      BY <1>1 DEF ListsOK, ListsSorted
    <2> QED BY <2>1, InsertSorted
  <1>3. Put(lists, a, sz) = [lists EXCEPT ![b] = longer] BY DEF Put
  <1> HIDE DEF b, longer
  <1>4. \A i \in Bins : Put(lists, a, sz)[i] = IF i = b THEN longer ELSE lists[i]
    BY <1>3 DEF ListsOK
  <1>5. ASSUME NEW i \in Bins, i # b PROVE SortedBy(T, lists[i])
    BY SortedFrame DEF ListsSorted
  <1> QED BY <1>2, <1>4, <1>5 DEF ListsSorted

LEMMA DropSorted ==
    ASSUME NEW lists, ListsOK(lists), NEW S, ListsSorted(S, lists), NEW a, NEW b \in Bins
    PROVE  ListsSorted(S, [lists EXCEPT ![b] = Without(@, a)])
  <1> DEFINE shorter == Without(lists[b], a)
  <1>1. SortedBy(S, shorter) BY WithoutSorted DEF ListsOK, ListsSorted
  <1> HIDE DEF shorter
  <1>2. \A i \in Bins : [lists EXCEPT ![b] = shorter][i] = IF i = b THEN shorter ELSE lists[i]
    BY DEF ListsOK
  <1>3. ListsSorted(S, [lists EXCEPT ![b] = shorter]) BY <1>1, <1>2 DEF ListsSorted
  <1> QED BY <1>3 DEF shorter

LEMMA InitSorted == Init => Sorted
  <1> SUFFICES ASSUME Init, NEW i \in Bins PROVE SortedBy(size, bins[i])
    BY DEF Sorted, ListsSorted
  <1>1. bins[i] = <<Start>> \/ bins[i] = <<>> BY DEF Init
  <1>2. \A k, l \in DOMAIN bins[i] : k = l BY <1>1
  <1>3. \A k \in DOMAIN bins[i] : k \in Int BY <1>1
  <1> QED BY <1>2, <1>3 DEF SortedBy

LEMMA TakeWholeSorted ==
    ASSUME IInv, Sorted, NEW request \in Requests, TakeWhole(request) PROVE Sorted'
  <1>1. PICK sz \in Nat : sz = Rounded(request) BY RoundedRoom
  <1>2. FitBins(sz) # {} BY <1>1 DEF TakeWhole
  <1>3. PICK b \in Bins : b = FoundIn(sz) BY <1>2, FoundIsHole
  <1>4. size' = size /\ bins' = [bins EXCEPT ![b] = Without(@, Found(sz))]
    BY <1>1, <1>3 DEF TakeWhole
  <1>5. ListsOK(bins) BY DEF IInv, Binned
  <1> QED BY <1>4, <1>5, DropSorted DEF Sorted

LEMMA TakePartSorted ==
    ASSUME IInv, Sorted, NEW request \in Requests, TakePart(request) PROVE Sorted'
  <1>1. PICK sz \in Nat : sz = Rounded(request) BY RoundedRoom
  <1>2. FitBins(sz) # {} BY <1>1 DEF TakePart
  <1>3. PICK a \in heads, b \in Bins :
            a = Found(sz) /\ b = FoundIn(sz) /\ hole[a] /\ BinOf(size[a]) = b
    BY <1>1, <1>2, FoundIsHole
  <1>4. PICK split, rest : split = a + Overhead + sz /\ rest = size[a] - sz - Overhead
    OBVIOUS
  <1>5. /\ size[a] - sz > Overhead + MinAlloc
        /\ size' = [size EXCEPT ![a] = sz, ![split] = rest]
        /\ bins' = [Put(bins, split, rest) EXCEPT ![b] = Without(@, a)]
    BY <1>1, <1>3, <1>4 DEF TakePart, Splits
  <1>6. /\ a \in Addresses /\ heads \subseteq Addresses
        /\ size \in [Addresses -> Nat] /\ size[a] \in Nat
        /\ SizeType /\ ListsOK(bins) /\ ListsSorted(size, bins)
    BY <1>3 DEF IInv, TypeOK, SizeType, Binned, Sorted
  <1>7. split \in Addresses /\ split \notin heads /\ split # a /\ rest \in Nat
    <2>1. IsRoomy(size, a, sz) BY <1>5, <1>6 DEF IsRoomy
    <2>2. split = SplitAt(a, sz) /\ rest = SplitRest(size, a, sz)
      BY <1>4 DEF SplitAt, SplitRest
    <2>3. Geometry(heads, size, foot) BY GeometryNow
    <2>4. split \in Addresses \ heads /\ rest \in Nat BY <2>1, <2>2, <2>3, Split
    <2> QED BY <1>3, <2>4
  <1>8. \A i \in Bins : \A x \in Members(bins[i]) : x \in heads
    BY DEF IInv, Binned, HolesOf
  <1> DEFINE T == [size EXCEPT ![split] = rest]
             lists == Put(bins, split, rest)
  <1>9. ListsSorted(T, lists) /\ ListsOK(lists)
        /\ \A i \in Bins : \A x \in Members(lists[i]) : x \in heads \/ x = split
    <2>1. T[split] = rest BY <1>6, <1>7
    <2>2. \A i \in Bins : SameSizes(T, size, bins[i])
      BY <1>6, <1>7, <1>8 DEF SameSizes
    <2>3. Absent(bins, split) BY <1>7, <1>8 DEF Absent
    <2> HIDE DEF T, Addresses, Bins
    <2>4. HasPut(bins, lists, split, rest) BY <1>6, <1>7, <2>3, PutMembers
    <2>5. ListsSorted(T, lists) BY <1>6, <1>7, <2>1, <2>2, PutSorted
    <2>6. \A i \in Bins : \A x \in Members(lists[i]) : x \in heads \/ x = split
      BY <2>4, <1>8 DEF HasPut
    <2> QED BY <2>4, <2>5, <2>6 DEF HasPut
  <1>10. \A i \in Bins : a \in Members(lists[i]) => i = b
    <2>1. \A i \in Bins : a \in Members(bins[i]) => i = b BY <1>3, <1>6, BinnedOnce
    <2>2. Absent(bins, split) BY <1>7, <1>8 DEF Absent
    <2> HIDE DEF Addresses, Bins
    <2>3. HasPut(bins, lists, split, rest) BY <1>6, <1>7, <2>2, PutMembers
    <2> QED BY <2>1, <2>3, <1>7 DEF HasPut
  <1> HIDE DEF T, lists
  <1> DEFINE less == [lists EXCEPT ![b] = Without(@, a)]
  <1>11. ListsSorted(T, less) BY <1>9, DropSorted
  <1>12. \A i \in Bins : Members(less[i]) = Members(lists[i]) \ {a}
    <2>1. a \in Addresses /\ b \in Bins /\ ListsOK(lists) BY <1>3, <1>6, <1>9
    <2> HIDE DEF Addresses, Bins
    <2> QED BY <1>10, <2>1, DropMembers
  <1>13. bins' = less BY <1>5 DEF lists
  <1> HIDE DEF less
  <1>14. ASSUME NEW i \in Bins PROVE SameSizes(size', T, bins'[i])
    <2>1. \A x \in heads \union {split} : x # a => size'[x] = T[x]
      BY <1>5, <1>6, <1>7 DEF T
    <2> QED BY <2>1, <1>9, <1>12, <1>13 DEF SameSizes
  <1>15. ASSUME NEW i \in Bins PROVE SortedBy(size', bins'[i])
    <2>1. SortedBy(T, bins'[i]) BY <1>11, <1>13 DEF ListsSorted
    <2> QED BY <2>1, <1>14, SortedFrame
  <1> QED BY <1>15 DEF Sorted, ListsSorted

LEMMA FreeFirstSorted == ASSUME IInv, Sorted, FreeFirst PROVE Sorted'
  <1>1. Start \in Addresses /\ SizeType /\ ListsOK(bins) /\ size[Start] \in Nat
        /\ ListsSorted(size, bins)
    BY DEF IInv, TypeOK, SizeType, Binned, Sorted
  <1>2. size' = size /\ bins' = Put(bins, Start, size[Start]) BY DEF FreeFirst
  <1>3. \A i \in Bins : SameSizes(size, size, bins[i]) BY DEF SameSizes
  <1> HIDE DEF Start, Addresses, Bins
  <1>4. ListsSorted(size, Put(bins, Start, size[Start])) BY <1>1, <1>3, PutSorted
  <1> QED BY <1>2, <1>4 DEF Sorted

LEMMA FreeSorted == ASSUME IInv, Sorted, NEW a \in heads, Free(a) PROVE Sorted'
  <1>1. PICK before, behind, first, second :
            /\ before = foot[a] /\ behind = NextOf(a)
            /\ first = (hole[before] = TRUE)
            /\ second = (behind # End /\ hole[behind] = TRUE)
    OBVIOUS
  <1>2. PICK head, length, gone :
            /\ head = IF first THEN before ELSE a
            /\ length = size[a] + (IF first THEN Overhead + size[before] ELSE 0)
                                + (IF second THEN Overhead + size[behind] ELSE 0)
            /\ gone = (IF first THEN {a} ELSE {}) \union (IF second THEN {behind} ELSE {})
    OBVIOUS
  <1>3. Geometry(heads, size, foot) BY GeometryNow
  <1>4. /\ a # Start /\ ~hole[a] /\ first \in BOOLEAN /\ second \in BOOLEAN
        /\ heads \subseteq Addresses /\ a \in Addresses
    BY <1>1 DEF Free, Used, IInv, TypeOK
  <1>5. behind = Behind(size, a) BY <1>1 DEF NextOf, Behind
  <1>6. before \in Addresses /\ before \in heads BY <1>1, <1>3, <1>4 DEF Geometry
  <1>7. behind \in Addresses BY <1>3, <1>5, Place
  <1>8. (first <=> hole[before]) /\ (second <=> behind # End /\ hole[behind])
    <2>1. hole[before] \in BOOLEAN /\ hole[behind] \in BOOLEAN
      BY <1>6, <1>7 DEF IInv, TypeOK
    <2> QED BY <1>1, <2>1, Zenon
  <1>9. PICK less : less = FreedLists(before, behind, first, second) OBVIOUS
  <1>10. /\ size' = [x \in Addresses |->
                        IF x = head THEN length ELSE IF x \in gone THEN 0 ELSE size[x]]
         /\ bins' = Put(less, head, length)
    <2>1. first = hole[before] /\ second = (behind # End /\ hole[behind])
      BY <1>4, <1>8, <1>6, <1>7 DEF IInv, TypeOK
    <2> QED BY <1>1, <1>2, <1>9, <2>1, Zenon DEF Free, PrevOf, FreedLists
  <1>11. head \in Addresses BY <1>2, <1>4, <1>6
  <1>12. size'[head] = length BY <1>10, <1>11
  <1>13. length \in Nat
    <2>1. IInv' BY FreeIInv
    <2>2. size' \in [Addresses -> Nat] BY <2>1 DEF IInv, TypeOK, SizeType
    <2> QED BY <2>2, <1>11, <1>12
  <1>14. SizeType /\ ListsOK(bins) /\ ListsSorted(size, bins)
    BY DEF IInv, TypeOK, Binned, Sorted
  <1>15. HasLost(less, before, behind, first, second)
    <2> HIDE DEF Addresses
    <2> QED BY <1>4, <1>6, <1>7, <1>9, FreeLists
  <1>16. ListsSorted(size, less)
    <2> DEFINE lists == IF first THEN TakeOut(bins, before) ELSE bins
    <2>1. /\ less = IF second THEN TakeOut(lists, behind) ELSE lists
          /\ BinOf(size[before]) \in Bins /\ BinOf(size[behind]) \in Bins
      <3>1. size[before] \in Nat /\ size[behind] \in Nat BY <1>6, <1>7, <1>14 DEF SizeType
      <3> QED BY <3>1, <1>9, BinOfType DEF FreedLists
    <2>2. ListsSorted(size, lists) /\ ListsOK(lists)
      <3>1. CASE first
        <4>1. ListsSorted(size, TakeOut(bins, before)) BY <1>14, <2>1, DropSorted DEF TakeOut
        <4>2. InItsBin(bins, before) BY <1>6, BinnedOnce DEF InItsBin
        <4>3. HasTakenOut(bins, TakeOut(bins, before), before)
          BY <1>6, <1>14, <4>2, TakeOutMembers
        <4> QED BY <3>1, <4>1, <4>3 DEF HasTakenOut
      <3>2. CASE ~first BY <3>2, <1>14
      <3> QED BY <3>1, <3>2
    <2> HIDE DEF lists
    <2>3. ListsSorted(size, TakeOut(lists, behind)) BY <2>1, <2>2, DropSorted DEF TakeOut
    <2> QED BY <2>1, <2>2, <2>3
  <1>17. ASSUME NEW i \in Bins PROVE SameSizes(size', size, less[i])
    <2> SUFFICES ASSUME NEW x \in Members(less[i]) PROVE size'[x] = size[x]
      BY DEF SameSizes
    <2>1. /\ x \in Members(bins[i]) /\ ~(first /\ x = before) /\ ~(second /\ x = behind)
      BY <1>15 DEF HasLost
    <2>2. x \in heads /\ hole[x] BY <2>1 DEF IInv, Binned, HolesOf
    <2>3. x # a BY <2>2, <1>4
    <2>4. x # head /\ x \notin gone BY <2>1, <2>3, <1>2
    <2> QED BY <2>2, <2>4, <1>4, <1>10
  <1>18. ListsOK(less) BY <1>15 DEF HasLost
  <1>19. ListsSorted(size', Put(less, head, length))
    <2> HIDE DEF Addresses, Bins
    <2> QED BY <1>11, <1>12, <1>13, <1>14, <1>16, <1>17, <1>18, PutSorted
  <1> QED BY <1>10, <1>19 DEF Sorted

LEMMA NextSorted == IInv /\ Sorted /\ [Next]_vars => Sorted'
  <1> SUFFICES ASSUME IInv, Sorted, [Next]_vars PROVE Sorted' OBVIOUS
  <1>1. ASSUME size' = size, bins' = bins PROVE Sorted'
    BY <1>1 DEF Sorted, ListsSorted, SortedBy
  <1>2. CASE UNCHANGED vars BY <1>1, <1>2 DEF vars
  <1>3. CASE \E request \in Requests : TakeWhole(request) BY <1>3, TakeWholeSorted
  <1>4. CASE \E request \in Requests : TakePart(request) BY <1>4, TakePartSorted
  <1>5. CASE FreeFirst BY <1>5, FreeFirstSorted
  <1>6. CASE \E a \in heads : Free(a) BY <1>6, FreeSorted
  <1>7. CASE \E a \in heads : Escape(a) BY <1>1, <1>7 DEF Escape
  <1> QED BY <1>2, <1>3, <1>4, <1>5, <1>6, <1>7 DEF Next

LEMMA AlwaysSorted == Spec => []Sorted
  <1>1. Init => Sorted BY InitSorted
  <1>2. IInv /\ Sorted /\ [Next]_vars => Sorted' BY NextSorted
  <1> QED BY <1>1, <1>2, Inductive, PTL DEF Spec

\* A larger size is in the same bin or in one above.
LEMMA BinsInOrder ==
    ASSUME NEW s \in Nat, NEW t \in Nat, s <= t PROVE BinOf(s) <= BinOf(t)
  <1>1. Len(Above) \in Nat /\ DOMAIN Above = 1 .. Len(Above)
        /\ \A k \in DOMAIN Above : Above[k] \in Nat
    OBVIOUS
  <1>3. PICK i \in Bins, j \in Bins :
            i = BinOf(s) /\ j = BinOf(t) /\ IsBinOf(i, s) /\ IsBinOf(j, t)
    BY BinOfBounds
  <1>4. ASSUME j < i PROVE FALSE
    <2>1. t < Above[j + 1] /\ Above[i] <= s BY <1>1, <1>3, <1>4 DEF IsBinOf
    <2>2. Above[j + 1] <= Above[i]
      <3>1. i \in DOMAIN Above /\ j + 1 \in DOMAIN Above BY <1>1, <1>4
      <3>2. CASE j + 1 = i BY <3>2, <3>1, <1>1
      <3>3. CASE j + 1 < i
        <4>1. Above[j + 1] < Above[i] BY <3>1, <3>3
        <4> QED BY <4>1, <3>1, <1>1
      <3> QED BY <3>2, <3>3, <1>1, <1>4
    <2>3. Above[i] \in Nat /\ Above[j + 1] \in Nat BY <1>1, <1>4
    <2> QED BY <2>1, <2>2, <2>3
  <1> QED BY <1>1, <1>3, <1>4

\* heap_alloc takes a smallest hole that is large enough, and fails only when
\* there is none: looking no further than the first node that fits, in the
\* first bin that has one, is enough, however blocks were split and joined.
THEOREM BestFit == Spec => []TakesBestFit
  <1>1. IInv /\ Sorted => TakesBestFit
    <2> SUFFICES ASSUME IInv, Sorted, NEW request \in Requests
                 PROVE  LET sz == Rounded(request)
                            enough == {a \in heads : hole[a] /\ size[a] >= sz}
                        IN  IF FitBins(sz) = {} THEN enough = {}
                            ELSE /\ Found(sz) \in enough
                                 /\ \A a \in enough : size[Found(sz)] <= size[a]
      BY DEF TakesBestFit
    <2>1. PICK sz \in Nat : sz = Rounded(request) BY RoundedRoom
    <2> DEFINE enough == {a \in heads : hole[a] /\ size[a] >= sz}
               j == FoundIn(sz)
               least == Min(Fits(j, sz))
    <2>2. BinOf(sz) \in Bins BY BinOfType
    <2>3. ASSUME NEW a \in enough
          PROVE  \E i \in FitBins(sz) : \E k \in Fits(i, sz) :
                    i = BinOf(size[a]) /\ bins[i][k] = a
      <3>1. size[a] \in Nat BY DEF IInv, TypeOK, SizeType
      <3>2. PICK i \in Bins : i = BinOf(size[a]) BY <3>1, BinOfType
      <3>3. BinOf(sz) <= i BY <3>1, <3>2, BinsInOrder
      <3>4. a \in Members(bins[i]) BY <3>2 DEF IInv, Binned, HolesOf
      <3>5. PICK k \in DOMAIN bins[i] : bins[i][k] = a BY <3>4 DEF Members
      <3>6. k \in Fits(i, sz) BY <3>5 DEF Fits
      <3>7. i \in FitBins(sz) BY <3>3, <3>6, <2>2 DEF FitBins
      <3> QED BY <3>2, <3>5, <3>6, <3>7
    <2>4. CASE FitBins(sz) = {}
      <3>1. enough = {}
        <4> HIDE DEF enough
        <4> QED BY <2>3, <2>4
      <3> QED BY <2>1, <2>4, <3>1
    <2>5. CASE FitBins(sz) # {}
      <3>1. j \in Bins /\ Found(sz) \in enough /\ BinOf(size[Found(sz)]) = j
        BY <2>5, FoundIsHole
      <3>2. j \in FitBins(sz) /\ \A i \in FitBins(sz) : j <= i
        <4>1. FitBins(sz) \in SUBSET Nat BY <2>2 DEF FitBins
        <4> QED BY <4>1, <2>5, MinIsLeast DEF FoundIn
      <3>3. bins[j] \in Seq(Addresses) BY <3>1 DEF IInv, Binned, ListsOK
      <3>4. least \in Fits(j, sz) /\ \A k \in Fits(j, sz) : least <= k
        <4>1. Fits(j, sz) \in SUBSET Nat BY <3>3 DEF Fits
        <4>2. Fits(j, sz) # {} BY <3>2 DEF FitBins
        <4> HIDE DEF j
        <4> QED BY <4>1, <4>2, MinIsLeast
      <3>5. Found(sz) = bins[j][least] BY DEF Found
      <3> HIDE DEF j, least
      <3>6. ASSUME NEW a \in enough PROVE size[Found(sz)] <= size[a]
        <4>0. PICK i \in FitBins(sz) :
                  i = BinOf(size[a]) /\ \E k \in Fits(i, sz) : bins[i][k] = a
          BY <2>3
        <4>1. PICK k \in Fits(i, sz) : i = BinOf(size[a]) /\ bins[i][k] = a
          BY <4>0
        <4>2. size[a] \in Nat /\ size[Found(sz)] \in Nat
          BY <3>1 DEF IInv, TypeOK, SizeType
        <4>3. i \in Int /\ j \in Int /\ j <= i BY <3>1, <3>2, <4>1, <2>2 DEF FitBins
        <4>4. CASE i = j
          <5>1. least \in DOMAIN bins[j] /\ k \in DOMAIN bins[j] /\ least <= k
            BY <3>4, <4>1, <4>4 DEF Fits
          <5>2. least \in Int /\ k \in Int BY <5>1, <3>3
          <5>3. CASE least = k BY <5>3, <3>5, <4>1, <4>2, <4>4
          <5>4. CASE least < k
            BY <5>1, <5>4, <3>1, <3>5, <4>1, <4>4 DEF Sorted, ListsSorted, SortedBy
          <5> QED BY <5>1, <5>2, <5>3, <5>4
        <4>5. CASE j < i
          <5>1. ~(size[a] <= size[Found(sz)])
            <6>1. size[a] <= size[Found(sz)] => i <= j
              BY <3>1, <4>1, <4>2, BinsInOrder
            <6> QED BY <6>1, <4>3, <4>5
          <5> QED BY <5>1, <4>2
        <4> QED BY <4>3, <4>4, <4>5
      <3> QED BY <2>1, <2>5, <3>1, <3>6
    <2> QED BY <2>4, <2>5
  <1> QED BY <1>1, Inductive, AlwaysSorted, PTL
====
