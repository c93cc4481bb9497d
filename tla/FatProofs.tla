---- MODULE FatProofs ----
(***************************************************************************)
(* Proofs about the boards' FAT library.  FatFiles, with and without the   *)
(* cluster cache, for any card, files and bounds: every call of the        *)
(* library allocates, links and frees as FatVolume allows, no two files    *)
(* share a cluster, and what the card holds of a file that has been closed *)
(* is what was closed, whatever the other files are in the middle of.      *)
(* Without the cache, a file also gives back what was written to it.       *)
(*                                                                         *)
(* FatTable, for a FAT of any size and any number of buffers of any size:  *)
(* as long as no two buffers have had a sector in common, reads give what  *)
(* was written, and the card has it once no buffer is dirty.  With buffers *)
(* of one sector, no two ever have.                                        *)
(***************************************************************************)
EXTENDS FatFiles, FatTable, FiniteSetTheorems, WellFoundedInduction, TLAPS

(***************************************************************************)
(* The inductive invariant                                                 *)
(***************************************************************************)
First(f) == FirstOf(f)
Present == {f \in Files : First(f) # None}
Own(f) == {c \in Clusters : owner[c] = f}
Links == Clusters \union {Free, Last}

Entries == [start : Clusters \union {None}, len : Nat]

TypeOK ==
    /\ cached \in BOOLEAN
    /\ fat \in [Clusters -> Links]
    /\ card \in [Clusters -> Links]
    /\ owner \in [Clusters -> Files \union {None}]
    /\ dir \in [Files -> Entries]
    /\ \A f \in Files : dir[f].len <= Room(f) /\ (dir[f].start = None => dir[f] = NoEntry)
    /\ DOMAIN data = Clusters /\ DOMAIN handle = Files /\ DOMAIN kept = Files

\* What makes a volume keep its chains apart: links never cross files, no two
\* lead to one cluster, and none leads to a file's first.
FreeIsUnowned == \A c \in Clusters : fat[c] = Free <=> owner[c] = None
LinksStayInFile == \A c \in Clusters : fat[c] \in Clusters => owner[fat[c]] = owner[c]
LinksApart == \A c, d \in Clusters : fat[c] \in Clusters /\ c # d => fat[c] # fat[d]
FirstIsOwned == \A f \in Files : First(f) # None => First(f) \in Clusters /\ owner[First(f)] = f
FirstIsUnlinked == \A f \in Files, c \in Clusters : First(f) # None => fat[c] # First(f)

Apart == FreeIsUnowned /\ LinksStayInFile /\ LinksApart /\ FirstIsOwned /\ FirstIsUnlinked

\* A handle has the fields of an FL_FILE, and what it remembers of its chain are
\* clusters of its file; S are these.
HandlesLike(h, S) ==
    [open : {TRUE}, start : S, len : Nat, pos : Nat,
     buf : {h.buf}, addr : {h.addr}, dirty : BOOLEAN,
     at : {h.at}, cache : [0 .. Top -> S \union {None, Last}],
     changed : BOOLEAN, mode : {h.mode}]

IsHandle(h, S) ==
    /\ h \in HandlesLike(h, S)
    /\ h.dirty => h.addr \in 0 .. Top
    /\ h.at.idx \in Nat \union {-1} /\ (h.at.idx \in Nat => h.at.cluster \in S)

HandleOK(f) ==
    \/ handle[f] = Shut
    \/ /\ IsHandle(handle[f], Own(f))
       /\ handle[f].len <= Room(f) /\ handle[f].start = dir[f].start

OpOK ==
    \/ op = Idle
    \/ /\ op.name = "create" /\ op.file \in Files
       /\ dir[op.file] = NoEntry /\ handle[op.file] = Shut
       /\ op.cluster \in Clusters /\ fat[op.cluster] = Last
    \/ /\ op.name = "remove" /\ op.file \in Files
       /\ dir[op.file] # NoEntry /\ handle[op.file] = Shut
    \/ op.name = "purge" /\ op.file \in Files

\* Of a file that is settled, the card has its clusters' links, and the file is
\* what it was.
SettledOK ==
    \A f \in Files : Settled(f) =>
        /\ \A c \in Own(f) : card[c] = fat[c]
        /\ kept[f] = Stored(fat, f)

IndInv ==
    /\ TypeOK /\ Apart /\ OpOK /\ SettledOK
    /\ \A f \in Files : HandleOK(f)

(***************************************************************************)
(* Induction over the naturals                                             *)
(***************************************************************************)

\* A set of naturals has a least element.
LEMMA Least ==
    ASSUME NEW S \in SUBSET Nat, S # {} PROVE \E x \in S : \A y \in S : x <= y
  <1>1. PICK n \in S : TRUE OBVIOUS
  <1> DEFINE U == 0 .. n
             upTo(x) == {y \in U : y \in S /\ y <= x}
             family == {upTo(x) : x \in S \intersect U}
             R == StrictSubsetOrdering(U)
  <1>2. IsFiniteSet(U) BY <1>1, FS_Interval
  <1>3. IsWellFoundedOn(R, SUBSET U)
    BY <1>2, FS_FiniteSubsetsOfFinite, FS_StrictSubsetOrderingWellFounded
  <1>4. \A x \in S \intersect U : upTo(x) \in SUBSET U OBVIOUS
  <1>5. upTo(n) \in family BY <1>1
  <1>6. \E M \in family : \A N \in family : <<N, M>> \notin R
    <2>1. family \subseteq SUBSET U
      <3> HIDE DEF upTo
      <3> QED BY <1>4
    <2> HIDE DEF family, R
    <2> QED BY <1>3, <2>1, <1>5, WFMin
  <1>7. PICK x \in S \intersect U : \A N \in family : <<N, upTo(x)>> \notin R
    BY <1>6
  <1>8. ASSUME NEW y \in S, y < x PROVE FALSE
    <2>0. y \in U /\ x \in U /\ y \in Nat /\ x \in Nat BY <1>8, <1>7
    <2>1. upTo(y) \in family BY <1>8, <2>0
    <2>2. x \in upTo(x) /\ x \notin upTo(y) BY <1>8, <2>0
    <2>3. upTo(y) \subseteq upTo(x) BY <1>8, <2>0
    <2>4. upTo(y) \in SUBSET U /\ upTo(x) \in SUBSET U OBVIOUS
    <2>5. <<upTo(y), upTo(x)>> \in R
      <3> HIDE DEF upTo
      <3> QED BY <2>2, <2>3, <2>4 DEF StrictSubsetOrdering
    <2> QED BY <2>1, <2>5, <1>7
  <1> QED BY <1>7, <1>8

\* What holds of 0 and of the successor of each that it holds of.
LEMMA Induction ==
    ASSUME NEW S \in SUBSET Nat, 0 \in S, \A n \in S : n + 1 \in S
    PROVE  S = Nat
  <1> SUFFICES ASSUME NEW m \in Nat \ S PROVE FALSE OBVIOUS
  <1>1. PICK n \in Nat \ S : \A k \in Nat \ S : n <= k
    <2>1. Nat \ S \in SUBSET Nat /\ Nat \ S # {} OBVIOUS
    <2> QED BY <2>1, Least, Zenon
  <1>2. n # 0 OBVIOUS
  <1>3. n - 1 \in Nat /\ ~(n <= n - 1) /\ (n - 1) + 1 = n BY <1>1, <1>2
  <1>4. n - 1 \in S BY <1>1, <1>3
  <1> QED BY <1>3, <1>4

(***************************************************************************)
(* Chains of links                                                         *)
(***************************************************************************)
Link(table, x) == IF x \in Clusters THEN table[x] ELSE Last

Path(table, first, g, i) == IF i = 0 THEN first ELSE Link(table, g[i - 1])
IsPath(table, first, n, g) == g = [i \in 0 .. n |-> Path(table, first, g, i)]

\* Each number of steps along the links gives a path,
LEMMA PathExists ==
    ASSUME NEW table, NEW first, NEW n \in Nat PROVE \E g : IsPath(table, first, n, g)
  <1> DEFINE S == {m \in Nat : \E g : IsPath(table, first, m, g)}
  <1>1. 0 \in S
    <2> DEFINE g == [i \in 0 .. 0 |-> first]
    <2>1. \A i \in 0 .. 0 : Path(table, first, g, i) = first BY DEF Path
    <2>2. g = [i \in 0 .. 0 |-> Path(table, first, g, i)]
      <3>1. g = [i \in 0 .. 0 |-> first] OBVIOUS
      <3> HIDE DEF g
      <3> QED BY <3>1, <2>1
    <2> HIDE DEF g
    <2> QED BY <2>2 DEF IsPath
  <1>2. ASSUME NEW m \in S PROVE m + 1 \in S
    <2>1. PICK g : g = [i \in 0 .. m |-> Path(table, first, g, i)] BY DEF IsPath
    <2> HIDE DEF S
    <2>2. m \in Nat BY DEF S
    <2> DEFINE h == [i \in 0 .. m + 1 |-> IF i = m + 1 THEN Path(table, first, g, i) ELSE g[i]]
    <2>3. ASSUME NEW i \in 0 .. m + 1 PROVE h[i] = Path(table, first, h, i)
      <3>1. CASE i = 0
        <4>1. h[i] = g[i] /\ g[i] = Path(table, first, g, i) BY <3>1, <2>1, <2>2
        <4> QED BY <3>1, <4>1 DEF Path
      <3>2. CASE i # 0
        <4>1. i - 1 \in 0 .. m /\ i - 1 # m + 1 /\ i - 1 \in 0 .. m + 1 BY <3>2, <2>2
        <4>2. h[i - 1] = g[i - 1] BY <4>1
        <4>3. Path(table, first, h, i) = Path(table, first, g, i) BY <4>2 DEF Path
        <4>4. h[i] = Path(table, first, g, i) BY <2>1, <2>2
        <4> QED BY <4>3, <4>4
      <3> QED BY <3>1, <3>2
    <2>4. h = [i \in 0 .. m + 1 |-> h[i]] OBVIOUS
    <2> HIDE DEF h
    <2>5. IsPath(table, first, m + 1, h) BY <2>3, <2>4 DEF IsPath
    <2> QED BY <2>2, <2>5 DEF S
  <1>3. S = Nat
    <2>1. S \in SUBSET Nat OBVIOUS
    <2> HIDE DEF S
    <2> QED BY <1>1, <1>2, <2>1, Induction
  <1>4. n \in S BY <1>3
  <1> HIDE DEF S
  <1> QED BY <1>4 DEF S

\* two paths agree as far as both go,
LEMMA PathsAgree ==
    ASSUME NEW table, NEW first, NEW m \in Nat, NEW n \in Nat, NEW g, NEW h,
           IsPath(table, first, m, g), IsPath(table, first, n, h)
    PROVE  \A k \in Nat : k <= m /\ k <= n => g[k] = h[k]
  <1> DEFINE S == {k \in Nat : k <= m /\ k <= n => g[k] = h[k]}
  <1>0. /\ \A i \in 0 .. m : g[i] = Path(table, first, g, i)
        /\ \A i \in 0 .. n : h[i] = Path(table, first, h, i)
    BY DEF IsPath
  <1>1. 0 \in S BY <1>0 DEF Path
  <1>2. ASSUME NEW k \in S PROVE k + 1 \in S
    <2> SUFFICES ASSUME k + 1 <= m, k + 1 <= n PROVE g[k + 1] = h[k + 1] OBVIOUS
    <2>1. k \in Nat /\ g[k] = h[k] OBVIOUS
    <2>2. k + 1 # 0 /\ k + 1 - 1 = k /\ k + 1 \in 0 .. m /\ k + 1 \in 0 .. n BY <2>1
    <2>3. g[k + 1] = Path(table, first, g, k + 1) /\ h[k + 1] = Path(table, first, h, k + 1)
      BY <1>0, <2>2
    <2> HIDE DEF S
    <2> QED BY <2>1, <2>2, <2>3 DEF Path
  <1>3. S = Nat
    <2>1. S \in SUBSET Nat OBVIOUS
    <2> HIDE DEF S
    <2> QED BY <1>1, <1>2, <2>1, Induction
  <1> QED BY <1>3

\* and Follow is where the path ends.
LEMMA FollowIsPath ==
    ASSUME NEW table, NEW first, NEW n \in Nat
    PROVE  \E g : IsPath(table, first, n, g) /\ Follow(table, first, n) = g[n]
  <1> DEFINE g == CHOOSE h : IsPath(table, first, n, h)
  <1>1. IsPath(table, first, n, g) BY PathExists
  <1>2. Follow(table, first, n) = g[n] BY DEF Follow, IsPath, Path, Link
  <1> HIDE DEF g
  <1> QED BY <1>1, <1>2

\* Follow, unfolded.
LEMMA FollowFirst == ASSUME NEW table, NEW first PROVE Follow(table, first, 0) = first
  <1>1. PICK g : IsPath(table, first, 0, g) /\ Follow(table, first, 0) = g[0] BY FollowIsPath
  <1> QED BY <1>1 DEF IsPath, Path

\* One step more follows one link more.
LEMMA FollowNext ==
    ASSUME NEW table, NEW first, NEW n \in Nat
    PROVE  Follow(table, first, n + 1) = Link(table, Follow(table, first, n))
  <1>1. PICK g : IsPath(table, first, n, g) /\ Follow(table, first, n) = g[n] BY FollowIsPath
  <1>2. n + 1 \in Nat OBVIOUS
  <1>3. PICK h : IsPath(table, first, n + 1, h) /\ Follow(table, first, n + 1) = h[n + 1]
    BY <1>2, FollowIsPath
  <1>4. g[n] = h[n]
    <2>1. n <= n /\ n <= n + 1 OBVIOUS
    <2> QED BY <1>1, <1>2, <1>3, <2>1, PathsAgree
  <1>5. h[n + 1] = Path(table, first, h, n + 1) BY <1>3 DEF IsPath
  <1>6. n + 1 # 0 /\ n + 1 - 1 = n OBVIOUS
  <1> QED BY <1>1, <1>3, <1>4, <1>5, <1>6 DEF Path

\* A chain that begins in a set closed under the links stays there,
LEMMA FollowStays ==
    ASSUME NEW table, NEW S \in SUBSET Clusters, NEW first \in S,
           \A c \in S : table[c] \in Clusters => table[c] \in S
    PROVE  \A n \in Nat : Follow(table, first, n) \in Clusters => Follow(table, first, n) \in S
  <1> DEFINE N == {n \in Nat : Follow(table, first, n) \in Clusters => Follow(table, first, n) \in S}
  <1>1. 0 \in N BY FollowFirst
  <1>2. ASSUME NEW n \in N PROVE n + 1 \in N
    <2>1. Follow(table, first, n + 1) = Link(table, Follow(table, first, n)) BY FollowNext
    <2>2. Last \notin Clusters BY DEF Last, Clusters
    <2> QED BY <2>1, <2>2 DEF Link
  <1>3. N = Nat
    <2>1. N \in SUBSET Nat OBVIOUS
    <2> HIDE DEF N
    <2> QED BY <1>1, <1>2, <2>1, Induction
  <1> QED BY <1>3

\* and does not depend on the links elsewhere.
LEMMA FollowSame ==
    ASSUME NEW table, NEW other, NEW S \in SUBSET Clusters, NEW first \in S,
           \A c \in S : table[c] \in Clusters => table[c] \in S,
           \A c \in S : other[c] = table[c]
    PROVE  \A n \in Nat : Follow(other, first, n) = Follow(table, first, n)
  <1> DEFINE N == {n \in Nat : Follow(other, first, n) = Follow(table, first, n)}
  <1>1. 0 \in N BY FollowFirst
  <1>2. ASSUME NEW n \in N PROVE n + 1 \in N
    <2>1. /\ Follow(table, first, n + 1) = Link(table, Follow(table, first, n))
          /\ Follow(other, first, n + 1) = Link(other, Follow(other, first, n))
      BY FollowNext
    <2>2. Follow(other, first, n) = Follow(table, first, n) OBVIOUS
    <2>3. Follow(table, first, n) \in Clusters => Follow(table, first, n) \in S BY FollowStays
    <2>4. Link(other, Follow(table, first, n)) = Link(table, Follow(table, first, n))
      BY <2>3 DEF Link
    <2> QED BY <2>1, <2>2, <2>4
  <1>3. N = Nat
    <2>1. N \in SUBSET Nat OBVIOUS
    <2> HIDE DEF N
    <2> QED BY <1>1, <1>2, <2>1, Induction
  <1> QED BY <1>3

(***************************************************************************)
(* Clusters are linked                                                     *)
(***************************************************************************)

\* Clusters of S, and blank ones, get links to the blank ones, which gives T.
Relinks(old, new, S, T) ==
    \E C \in SUBSET S, N \in SUBSET Clusters :
        /\ T = S \union N
        /\ \A d \in N : old[d] = Free
        /\ \E link \in [N \union C -> N \union {Last}] :
            /\ \A c \in C : link[c] # Last
            /\ \A d, e \in N \union C : d # e /\ link[d] # Last => link[d] # link[e]
            /\ new = [d \in Clusters |-> IF d \in N \union C THEN link[d] ELSE old[d]]

\* The marks of the FAT are no clusters and differ.
LEMMA Marks == Free \notin Clusters /\ Last \notin Clusters /\ None \notin Clusters
               /\ Free # Last /\ Free # None /\ Last # None
  BY DEF Free, Last, None, Clusters

\* Clusters S of the FAT t are linked among themselves.
AreLinked(t, S) ==
    /\ t \in [Clusters -> Links] /\ S \in SUBSET Clusters
    /\ \A c \in S : t[c] \in S \union {Last}

\* A linked cluster is not free.
LEMMA LinkedNotFree == ASSUME NEW t, NEW S, AreLinked(t, S) PROVE \A c \in S : t[c] # Free
  BY Marks DEF AreLinked

\* Linking nothing is linking,
LEMMA RelinksNothing ==
    ASSUME NEW t, NEW S, AreLinked(t, S)
    PROVE  Relinks(t, t, S, S)
  <1> t \in [Clusters -> Links] /\ S \in SUBSET Clusters BY DEF AreLinked
  <1> DEFINE N == {}
             link == [d \in N |-> Last]
  <1>1. link \in [N \union N -> N \union {Last}] OBVIOUS
  <1>2. t = [d \in Clusters |-> IF d \in N \union N THEN link[d] ELSE t[d]] OBVIOUS
  <1>3. N \in SUBSET S /\ N \in SUBSET Clusters /\ S = S \union N OBVIOUS
  <1> QED BY <1>1, <1>2, <1>3 DEF Relinks

\* and so is linking twice: the second may start behind another cluster.
LEMMA RelinksTwice ==
    ASSUME NEW t, NEW u, NEW v, NEW S, NEW T, NEW U, AreLinked(t, S),
           Relinks(t, u, S, T), Relinks(u, v, T, U)
    PROVE  Relinks(t, v, S, U)
  <1>0. t \in [Clusters -> Links] /\ S \in SUBSET Clusters BY DEF AreLinked
  <1>a. \A c \in S : t[c] # Free BY LinkedNotFree
  <1>1. PICK C1 \in SUBSET S, N1 \in SUBSET Clusters :
            /\ T = S \union N1
            /\ \A d \in N1 : t[d] = Free
            /\ \E link \in [N1 \union C1 -> N1 \union {Last}] :
                /\ \A c \in C1 : link[c] # Last
                /\ \A d, e \in N1 \union C1 : d # e /\ link[d] # Last => link[d] # link[e]
                /\ u = [d \in Clusters |-> IF d \in N1 \union C1 THEN link[d] ELSE t[d]]
    BY DEF Relinks
  <1>2. PICK l1 \in [N1 \union C1 -> N1 \union {Last}] :
            /\ \A c \in C1 : l1[c] # Last
            /\ \A d, e \in N1 \union C1 : d # e /\ l1[d] # Last => l1[d] # l1[e]
            /\ u = [d \in Clusters |-> IF d \in N1 \union C1 THEN l1[d] ELSE t[d]]
    BY <1>1
  <1>3. PICK C2 \in SUBSET T, N2 \in SUBSET Clusters :
            /\ U = T \union N2
            /\ \A d \in N2 : u[d] = Free
            /\ \E link \in [N2 \union C2 -> N2 \union {Last}] :
                /\ \A c \in C2 : link[c] # Last
                /\ \A d, e \in N2 \union C2 : d # e /\ link[d] # Last => link[d] # link[e]
                /\ v = [d \in Clusters |-> IF d \in N2 \union C2 THEN link[d] ELSE u[d]]
    BY DEF Relinks
  <1>4. PICK l2 \in [N2 \union C2 -> N2 \union {Last}] :
            /\ \A c \in C2 : l2[c] # Last
            /\ \A d, e \in N2 \union C2 : d # e /\ l2[d] # Last => l2[d] # l2[e]
            /\ v = [d \in Clusters |-> IF d \in N2 \union C2 THEN l2[d] ELSE u[d]]
    BY <1>3
  <1> DEFINE N == N1 \union N2
             C == C1 \union (C2 \ N1)
             l == [d \in N \union C |-> IF d \in N2 \union C2 THEN l2[d] ELSE l1[d]]
  <1>5. \A d \in N1 \union C1 : u[d] # Free BY <1>0, <1>2, Marks
  <1>6. \A d \in N2 : d \notin N1 \union C1 /\ t[d] = Free BY <1>0, <1>2, <1>3, <1>5
  <1>7. C \in SUBSET S BY <1>1
  <1>8. N \in SUBSET Clusters /\ U = S \union N /\ \A d \in N : t[d] = Free
    BY <1>1, <1>3, <1>6
  <1>9. \A d \in N \union C : \/ d \in N2 \union C2 /\ l[d] = l2[d] /\ l[d] \in N2 \union {Last}
                              \/ d \in N1 \union C1 /\ d \notin N2 \union C2
                                 /\ l[d] = l1[d] /\ l[d] \in N1 \union {Last}
    OBVIOUS
  <1>10. l \in [N \union C -> N \union {Last}] BY <1>9
  <1>11. \A c \in C : l[c] # Last
    <2> SUFFICES ASSUME NEW c \in C PROVE l[c] # Last OBVIOUS
    <2>1. c \notin N2 BY <1>a, <1>6, <1>7
    <2>2. CASE c \in C2 BY <2>2, <1>4
    <2>3. CASE c \notin C2
      <3>1. c \in C1 BY <2>3
      <3> QED BY <2>1, <2>3, <3>1, <1>2
    <2> QED BY <2>2, <2>3
  <1>12. ASSUME NEW d \in N \union C, NEW e \in N \union C, d # e, l[d] # Last
         PROVE  l[d] # l[e]
    <2> HIDE DEF l, N, C
    <2>1. \A x \in N1 : x \notin N2 BY <1>6
    <2>2. Last \notin N1 \union N2 BY Marks
    <2> QED BY <1>9, <1>12, <1>2, <1>4, <2>1, <2>2
  <1>13. v = [d \in Clusters |-> IF d \in N \union C THEN l[d] ELSE t[d]]
    <2>1. ASSUME NEW d \in Clusters
          PROVE  (IF d \in N2 \union C2 THEN l2[d] ELSE u[d])
                     = (IF d \in N \union C THEN l[d] ELSE t[d])
      <3>1. u[d] = IF d \in N1 \union C1 THEN l1[d] ELSE t[d] BY <1>2
      <3>2. CASE d \in N2 \union C2
        <4>1. d \in N \union C BY <3>2
        <4> QED BY <3>2, <4>1
      <3>3. CASE d \notin N2 \union C2
        <4>1. d \in N \union C <=> d \in N1 \union C1 BY <3>3
        <4> QED BY <3>1, <3>3, <4>1
      <3> QED BY <3>2, <3>3
    <2> HIDE DEF l, N, C
    <2> QED BY <1>4, <2>1
  <1> HIDE DEF l, N, C
  <1>14. \E link \in [N \union C -> N \union {Last}] :
            /\ \A c \in C : link[c] # Last
            /\ \A d, e \in N \union C : d # e /\ link[d] # Last => link[d] # link[e]
            /\ v = [d \in Clusters |-> IF d \in N \union C THEN link[d] ELSE t[d]]
    BY <1>10, <1>11, <1>12, <1>13, Zenon
  <1>15. \A d \in N : t[d] = Free BY <1>8
  <1>16. U = S \union N /\ N \in SUBSET Clusters BY <1>8
  <1>17. /\ U = S \union N
         /\ \A d \in N : t[d] = Free
         /\ \E link \in [N \union C -> N \union {Last}] :
              /\ \A c \in C : link[c] # Last
              /\ \A d, e \in N \union C : d # e /\ link[d] # Last => link[d] # link[e]
              /\ v = [d \in Clusters |-> IF d \in N \union C THEN link[d] ELSE t[d]]
    BY ONLY <1>14, <1>15, <1>16, Zenon
  <1> QED BY ONLY <1>7, <1>16, <1>17, Zenon DEF Relinks

\* What a file has stays linked among itself,
LEMMA RelinksLinked ==
    ASSUME NEW t, NEW u, NEW S, NEW T, AreLinked(t, S), Relinks(t, u, S, T)
    PROVE  AreLinked(u, T) /\ S \subseteq T
  BY DEF AreLinked, Relinks, Links

\* and the rest as it was.
OnlyOwn(t, u, S, T) ==
    \A c \in Clusters : (c \notin T => u[c] = t[c]) /\ (c \in T /\ c \notin S => t[c] = Free)

\* Both of what follows, from a step that links.
LEMMA RelinksOwn ==
    ASSUME NEW t, NEW u, NEW S, NEW T, AreLinked(t, S), Relinks(t, u, S, T)
    PROVE  OnlyOwn(t, u, S, T)
  BY DEF AreLinked, Relinks, Links, OnlyOwn

\* One blank cluster behind a cluster of the file's.
LEMMA RelinksOne ==
    ASSUME NEW t, NEW S, AreLinked(t, S),
           NEW tail \in S, NEW new \in Clusters, t[new] = Free
    PROVE  Relinks(t, [t EXCEPT ![tail] = new, ![new] = Last], S, S \union {new})
  <1> t \in [Clusters -> Links] /\ S \in SUBSET Clusters BY DEF AreLinked
  <1> \A c \in S : t[c] # Free BY LinkedNotFree
  <1> DEFINE C == {tail}
             N == {new}
             link == [d \in N \union C |-> IF d = tail THEN new ELSE Last]
  <1>1. tail # new OBVIOUS
  <1>2. link \in [N \union C -> N \union {Last}] OBVIOUS
  <1>3. \A c \in C : link[c] # Last BY <1>1, Marks
  <1>4. \A d, e \in N \union C : d # e /\ link[d] # Last => link[d] # link[e] BY <1>1, Marks
  <1>5. [t EXCEPT ![tail] = new, ![new] = Last]
            = [d \in Clusters |-> IF d \in N \union C THEN link[d] ELSE t[d]]
    BY <1>1
  <1>6. C \in SUBSET S /\ N \in SUBSET Clusters /\ \A d \in N : t[d] = Free OBVIOUS
  <1> DEFINE u == [t EXCEPT ![tail] = new, ![new] = Last]
  <1> HIDE DEF C, N, link, u
  <1>7. \E k \in [N \union C -> N \union {Last}] :
            /\ \A c \in C : k[c] # Last
            /\ \A d, e \in N \union C : d # e /\ k[d] # Last => k[d] # k[e]
            /\ u = [d \in Clusters |-> IF d \in N \union C THEN k[d] ELSE t[d]]
    BY <1>2, <1>3, <1>4, <1>5, Zenon DEF u
  <1>8. Relinks(t, u, S, S \union N) BY ONLY <1>6, <1>7, Zenon DEF Relinks
  <1> QED BY <1>8 DEF u, N

\* What the search finds is a blank cluster.
LEMMA FindBlankType ==
    ASSUME NEW table, NEW from
    PROVE  LET new == FindBlank(table, from)
           IN  new # None => new \in Clusters /\ table[new] = Free
  <1> DEFINE found == {c \in Clusters : c >= from /\ table[c] = Free}
  <1>1. found # {} => Min(found) \in found
    <2> SUFFICES ASSUME found # {} PROVE Min(found) \in found OBVIOUS
    <2>1. found \in SUBSET Nat BY FilesAssumption DEF Clusters
    <2> HIDE DEF found
    <2>2. \E x \in found : \A y \in found : x <= y BY <2>1, Least
    <2> QED BY <2>2 DEF Min
  <1> QED BY <1>1 DEF FindBlank

(***************************************************************************)
(* The library during a call                                               *)
(***************************************************************************)
LibrariesLike(w) ==
    [fat : {w.fat}, hint : {w.hint}, data : {w.data}, h : {w.h}]

\* A state of the library in which the handle's file has clusters S.
IsLibrary(w, S) ==
    /\ w \in LibrariesLike(w) /\ DOMAIN w.data = Clusters
    /\ AreLinked(w.fat, S)
    /\ IsHandle(w.h, S)

\* What the operations of a call leave of a handle,
Same(g, h) == g.start = h.start /\ g.len = h.len /\ g.pos = h.pos
\* and the ones that do not touch its buffer.
SameBuffer(g, h) == Same(g, h) /\ g.addr = h.addr /\ g.dirty = h.dirty

\* From v to w the file's clusters grow from S to T, and nothing else changes.
Grows(v, w, S, T) ==
    /\ Relinks(v.fat, w.fat, S, T)
    /\ \A c \in Clusters \ T : w.data[c] = v.data[c]
    /\ Same(w.h, v.h)

\* Every change a call makes to a handle leaves it one: its buffer,
LEMMA BuffersIsHandle ==
    ASSUME NEW h, NEW S, IsHandle(h, S), NEW addr, NEW bytes
    PROVE  IsHandle(Buffers(h, addr, bytes), S) /\ Same(Buffers(h, addr, bytes), h)
  BY Zenon DEF Buffers, IsHandle, HandlesLike, Same

\* which is of the sector it was read from,
LEMMA BuffersFields ==
    ASSUME NEW h, NEW S, IsHandle(h, S), NEW addr, NEW bytes
    PROVE  Buffers(h, addr, bytes).addr = addr
  BY Zenon DEF Buffers, IsHandle, HandlesLike

\* the buffer's bytes,
LEMMA DirtiedIsHandle ==
    ASSUME NEW h, NEW S, IsHandle(h, S), h.addr \in 0 .. Top, NEW bytes
    PROVE  IsHandle(Dirtied(h, bytes), S) /\ Same(Dirtied(h, bytes), h)
  BY Zenon DEF Dirtied, IsHandle, HandlesLike, Same

\* the mark that they are to be written,
LEMMA FlushedIsHandle ==
    ASSUME NEW h, NEW S, IsHandle(h, S), h.dirty, NEW x \in BOOLEAN
    PROVE  IsHandle([h EXCEPT !.dirty = x], S) /\ Same([h EXCEPT !.dirty = x], h)
  BY Zenon DEF IsHandle, HandlesLike, Same

\* the cluster looked up last,
LEMMA AtIsHandle ==
    ASSUME NEW h, NEW S, IsHandle(h, S), NEW idx \in Nat, NEW c \in S
    PROVE  LET g == [h EXCEPT !.at = [idx |-> idx, cluster |-> c]]
           IN  IsHandle(g, S) /\ SameBuffer(g, h)
  BY Zenon DEF IsHandle, HandlesLike, Same, SameBuffer

\* an entry of the cluster cache,
LEMMA CacheIsHandle ==
    ASSUME NEW h, NEW S, IsHandle(h, S), NEW i, NEW x \in S \union {None, Last}
    PROVE  LET g == [h EXCEPT !.cache[i] = x]
           IN  IsHandle(g, S) /\ SameBuffer(g, h)
  BY Zenon DEF IsHandle, HandlesLike, Same, SameBuffer

\* the place in the file,
LEMMA PosIsHandle ==
    ASSUME NEW h, NEW S, IsHandle(h, S), NEW pos \in Nat
    PROVE  LET g == [h EXCEPT !.pos = pos]
           IN  IsHandle(g, S) /\ g.start = h.start /\ g.len = h.len /\ g.pos = pos
  BY Zenon DEF IsHandle, HandlesLike

\* and its length.
LEMMA LongerIsHandle ==
    ASSUME NEW h, NEW S, IsHandle(h, S)
    PROVE  LET g == Longer(h)
           IN  IsHandle(g, S) /\ g.start = h.start /\ g.len = h.pos /\ g.pos = h.pos
  BY Zenon DEF IsHandle, HandlesLike, Longer

\* A file that has more clusters has those the handle remembers.
LEMMA WiderIsHandle ==
    ASSUME NEW h, NEW S, NEW T, S \subseteq T, IsHandle(h, S) PROVE IsHandle(h, T)
  BY Zenon DEF IsHandle, HandlesLike

\* The handle of a library, replaced.
LEMMA WithHandle ==
    ASSUME NEW w, NEW S, IsLibrary(w, S), NEW h, IsHandle(h, S)
    PROVE  LET v == [w EXCEPT !.h = h]
           IN  IsLibrary(v, S) /\ v.fat = w.fat /\ v.data = w.data /\ v.h = h
  BY Zenon DEF IsLibrary, LibrariesLike

\* A library's file is linked.
LEMMA LibraryLinked == ASSUME NEW w, NEW S, IsLibrary(w, S) PROVE AreLinked(w.fat, S)
  BY DEF IsLibrary

\* A file may grow by nothing,
LEMMA GrowsNothing ==
    ASSUME NEW v, NEW w, NEW S, IsLibrary(v, S), w.fat = v.fat, w.data = v.data, Same(w.h, v.h)
    PROVE  Grows(v, w, S, S)
  BY LibraryLinked, RelinksNothing DEF Grows

\* and by one part and then another.
LEMMA GrowsTwice ==
    ASSUME NEW u, NEW v, NEW w, NEW S, NEW T, NEW U,
           IsLibrary(u, S), IsLibrary(v, T), Grows(u, v, S, T), Grows(v, w, T, U)
    PROVE  Grows(u, w, S, U)
  <1>1. Relinks(u.fat, w.fat, S, U) BY LibraryLinked, RelinksTwice DEF Grows
  <1>2. T \subseteq U BY LibraryLinked, RelinksLinked DEF Grows
  <1>3. \A c \in Clusters \ U : w.data[c] = u.data[c] BY <1>2 DEF Grows
  <1>4. Same(w.h, u.h) BY DEF Grows, Same
  <1> QED BY <1>1, <1>3, <1>4 DEF Grows

\* A state that grew has as many links as it needs.
LEMMA GrowsLibrary ==
    ASSUME NEW w, NEW S, IsLibrary(w, S), NEW fat1, NEW T, Relinks(w.fat, fat1, S, T),
           NEW hint1, NEW data1, DOMAIN data1 = Clusters, NEW h, IsHandle(h, T)
    PROVE  IsLibrary([fat |-> fat1, hint |-> hint1, data |-> data1, h |-> h], T)
  <1>1. AreLinked(fat1, T) BY LibraryLinked, RelinksLinked
  <1> QED BY <1>1, Zenon DEF IsLibrary, LibrariesLike

(***************************************************************************)
(* AddFreeSpace                                                            *)
(***************************************************************************)
OneMore(s, i) ==
    LET new == FindBlank(s.w.fat, s.w.hint)
    IN  IF ~s.ok \/ new = None THEN [s EXCEPT !.ok = FALSE]
        ELSE [w |-> [fat |-> [s.w.fat EXCEPT ![s.tail] = new, ![new] = Last],
                     hint |-> IF i = 1 THEN new ELSE s.w.hint,
                     data |-> s.w.data, h |-> s.w.h],
              tail |-> new, ok |-> TRUE,
              first |-> IF i = 1 THEN new ELSE s.first]
Added(w, c, g, i) ==
    IF i = 0 THEN [w |-> w, tail |-> c, first |-> None, ok |-> TRUE]
    ELSE OneMore(g[i - 1], i)
IsAdding(w, c, n, g) == g = [i \in 0 .. n |-> Added(w, c, g, i)]

\* Each number of clusters added gives a sequence of states.
LEMMA AddingExists == ASSUME NEW w, NEW c, NEW n \in Nat PROVE \E g : IsAdding(w, c, n, g)
  <1> DEFINE S == {m \in Nat : \E g : IsAdding(w, c, m, g)}
  <1>1. 0 \in S
    <2> DEFINE g == [i \in 0 .. 0 |-> [w |-> w, tail |-> c, first |-> None, ok |-> TRUE]]
    <2>1. \A i \in 0 .. 0 : Added(w, c, g, i) = [w |-> w, tail |-> c, first |-> None, ok |-> TRUE]
      <3> HIDE DEF g
      <3> QED BY DEF Added
    <2>2. g = [i \in 0 .. 0 |-> Added(w, c, g, i)]
      <3>1. g = [i \in 0 .. 0 |-> [w |-> w, tail |-> c, first |-> None, ok |-> TRUE]] OBVIOUS
      <3> HIDE DEF g
      <3> QED BY <3>1, <2>1
    <2> HIDE DEF g
    <2> QED BY <2>2 DEF IsAdding
  <1>2. ASSUME NEW m \in S PROVE m + 1 \in S
    <2>1. PICK g : g = [i \in 0 .. m |-> Added(w, c, g, i)] BY DEF IsAdding
    <2> HIDE DEF S
    <2>2. m \in Nat BY DEF S
    <2> DEFINE h == [i \in 0 .. m + 1 |-> IF i = m + 1 THEN Added(w, c, g, i) ELSE g[i]]
    <2>3. ASSUME NEW i \in 0 .. m + 1 PROVE h[i] = Added(w, c, h, i)
      <3>1. CASE i = 0
        <4>1. h[i] = g[i] /\ g[i] = Added(w, c, g, i) BY <3>1, <2>1, <2>2
        <4> HIDE DEF h
        <4> QED BY <3>1, <4>1 DEF Added
      <3>2. CASE i # 0
        <4>1. i - 1 \in 0 .. m /\ i - 1 # m + 1 /\ i - 1 \in 0 .. m + 1 BY <3>2, <2>2
        <4>2. h[i - 1] = g[i - 1] BY <4>1
        <4>4. h[i] = Added(w, c, g, i) BY <2>1, <2>2
        <4> HIDE DEF h
        <4>3. Added(w, c, h, i) = Added(w, c, g, i) BY <4>2 DEF Added
        <4> QED BY <4>3, <4>4
      <3> QED BY <3>1, <3>2
    <2>4. h = [i \in 0 .. m + 1 |-> h[i]] OBVIOUS
    <2> HIDE DEF h
    <2>5. IsAdding(w, c, m + 1, h) BY <2>3, <2>4 DEF IsAdding
    <2> QED BY <2>2, <2>5 DEF S
  <1>3. S = Nat
    <2>1. S \in SUBSET Nat OBVIOUS
    <2> HIDE DEF S
    <2> QED BY <1>1, <1>2, <2>1, Induction
  <1>4. n \in S BY <1>3
  <1> HIDE DEF S
  <1> QED BY <1>4 DEF S

\* What is so when i clusters have been linked behind one of the file's.
IsAdded(s) == s \in [w : {s.w}, tail : {s.tail}, first : {s.first}, ok : BOOLEAN]

AddedOK(w, S, s, i) ==
    /\ IsAdded(s)
    /\ s.w.data = w.data /\ s.w.h = w.h
    /\ \E T : /\ Relinks(w.fat, s.w.fat, S, T) /\ IsLibrary(s.w, T)
              /\ s.tail \in T /\ (s.ok /\ i >= 1 => s.first \in T)

\* One cluster more,
LEMMA OneMoreOK ==
    ASSUME NEW w, NEW S, IsLibrary(w, S), NEW i \in Nat, NEW s, AddedOK(w, S, s, i)
    PROVE  AddedOK(w, S, OneMore(s, i + 1), i + 1)
  <1> DEFINE new == FindBlank(s.w.fat, s.w.hint)
  <1>1. PICK T : /\ Relinks(w.fat, s.w.fat, S, T) /\ IsLibrary(s.w, T)
                 /\ s.tail \in T /\ (s.ok /\ i >= 1 => s.first \in T)
    BY DEF AddedOK
  <1>2. s.w.data = w.data /\ s.w.h = w.h BY DEF AddedOK
  <1>3. CASE ~s.ok \/ new = None
    <2> DEFINE r == [s EXCEPT !.ok = FALSE]
    <2>1. OneMore(s, i + 1) = r BY <1>3, Zenon DEF OneMore
    <2>2. IsAdded(r) /\ r.w = s.w /\ r.tail = s.tail /\ r.ok = FALSE
      BY Zenon DEF IsAdded, AddedOK
    <2> HIDE DEF r
    <2>3. AddedOK(w, S, r, i + 1) BY <2>2, <1>1, <1>2 DEF AddedOK
    <2> QED BY <2>1, <2>3
  <1>4. CASE ~(~s.ok \/ new = None)
    <2> DEFINE table == [s.w.fat EXCEPT ![s.tail] = new, ![new] = Last]
               at == IF i + 1 = 1 THEN new ELSE s.w.hint
               one == IF i + 1 = 1 THEN new ELSE s.first
               v == [fat |-> table, hint |-> at, data |-> s.w.data, h |-> s.w.h]
               r == [w |-> v, tail |-> new, ok |-> TRUE, first |-> one]
    <2>1. OneMore(s, i + 1) = r BY <1>4, Zenon DEF OneMore
    <2>2. new \in Clusters /\ s.w.fat[new] = Free BY <1>4, FindBlankType
    <2>3. one \in T \union {new} BY <1>1, <1>4
    <2>4. AreLinked(s.w.fat, T) BY <1>1, LibraryLinked
    <2> HIDE DEF new
    <2>6. Relinks(s.w.fat, table, T, T \union {new}) BY <1>1, <2>2, <2>4, RelinksOne
    <2> HIDE DEF table, at, one
    <2>7. Relinks(w.fat, table, S, T \union {new})
      BY <1>1, <2>6, LibraryLinked, RelinksTwice
    <2>8. IsHandle(s.w.h, T) /\ DOMAIN s.w.data = Clusters BY <1>1 DEF IsLibrary
    <2>9. IsHandle(s.w.h, T \union {new}) BY <2>8, WiderIsHandle
    <2>10. IsLibrary(v, T \union {new}) BY <1>1, <2>6, <2>8, <2>9, GrowsLibrary
    <2>11. v.fat = table /\ v.data = w.data /\ v.h = w.h BY <1>2
    <2> HIDE DEF v
    <2>12. IsAdded(r) /\ r.w = v /\ r.tail = new /\ r.first = one BY Zenon DEF IsAdded
    <2> HIDE DEF r
    <2>13. AddedOK(w, S, r, i + 1) BY <2>3, <2>7, <2>10, <2>11, <2>12 DEF AddedOK
    <2> QED BY <2>1, <2>13
  <1> QED BY <1>3, <1>4

\* and so any number.
LEMMA AddFreeSpaceLinks ==
    ASSUME NEW w, NEW S, IsLibrary(w, S), NEW c \in S, NEW n \in Nat
    PROVE  AddedOK(w, S, AddFreeSpace(w, c, n), n)
  <1> DEFINE g == CHOOSE h : IsAdding(w, c, n, h)
  <1>1. IsAdding(w, c, n, g) BY AddingExists
  <1>2. AddFreeSpace(w, c, n) = g[n] BY DEF AddFreeSpace, IsAdding, Added, OneMore
  <1> HIDE DEF g
  <1>3. \A i \in 0 .. n : g[i] = Added(w, c, g, i) BY <1>1 DEF IsAdding
  <1> DEFINE N == {i \in Nat : i <= n => AddedOK(w, S, g[i], i)}
  <1>4. 0 \in N
    <2> DEFINE s == [w |-> w, tail |-> c, first |-> None, ok |-> TRUE]
    <2>0. 0 \in 0 .. n OBVIOUS
    <2>1. g[0] = s BY <1>3, <2>0, Zenon DEF Added
    <2>2. Relinks(w.fat, w.fat, S, S) BY LibraryLinked, RelinksNothing
    <2>3. IsAdded(s) /\ s.w = w /\ s.tail = c BY Zenon DEF IsAdded
    <2> HIDE DEF s
    <2>4. AddedOK(w, S, s, 0) BY <2>2, <2>3 DEF AddedOK
    <2> QED BY <2>1, <2>4
  <1>5. ASSUME NEW i \in N PROVE i + 1 \in N
    <2> SUFFICES ASSUME i + 1 <= n PROVE AddedOK(w, S, g[i + 1], i + 1) OBVIOUS
    <2>1. i \in Nat /\ AddedOK(w, S, g[i], i) OBVIOUS
    <2> HIDE DEF N
    <2>2. i + 1 \in 0 .. n /\ i + 1 # 0 /\ (i + 1) - 1 = i BY <2>1
    <2>3. g[i + 1] = OneMore(g[i], i + 1) BY <1>3, <2>2 DEF Added
    <2> QED BY <2>1, <2>3, OneMoreOK
  <1>6. N = Nat
    <2>1. N \in SUBSET Nat OBVIOUS
    <2> HIDE DEF N
    <2> QED BY <1>4, <1>5, <2>1, Induction
  <1>7. n \in N BY <1>6
  <1> QED BY <1>2, <1>7

(***************************************************************************)
(* Walk                                                                    *)
(***************************************************************************)
Near(w, idx) == idx # 0 /\ idx = w.h.at.idx + 1
From(w, idx) == IF Near(w, idx) THEN w.h.at.idx ELSE 0
Begin(w, idx) ==
    [cluster |-> IF Near(w, idx) THEN w.h.at.cluster ELSE w.h.start, before |-> Last, h |-> w.h]
OneOn(w, p, writing, i) == IF writing /\ p.cluster = Last THEN p ELSE Hop(w, p, i)
Passed(w, idx, writing, g, i) ==
    IF i = From(w, idx) THEN Begin(w, idx) ELSE OneOn(w, g[i - 1], writing, i - 1)
IsWalk(w, idx, writing, n, g) ==
    g = [i \in From(w, idx) .. n |-> Passed(w, idx, writing, g, i)]

\* Each number of hops gives a walk.
LEMMA WalkExists ==
    ASSUME NEW w, NEW idx, NEW writing, From(w, idx) \in Nat, NEW n \in Nat, From(w, idx) <= n
    PROVE  \E g : IsWalk(w, idx, writing, n, g)
  <1> DEFINE from == From(w, idx)
             S == {m \in Nat : \E g : IsWalk(w, idx, writing, from + m, g)}
  <1>1. 0 \in S
    <2> DEFINE g == [i \in from .. from |-> Begin(w, idx)]
    <2>1. \A i \in from .. from : Passed(w, idx, writing, g, i) = Begin(w, idx)
      <3> HIDE DEF g
      <3> QED BY DEF Passed
    <2>2. g = [i \in from .. from |-> Passed(w, idx, writing, g, i)]
      <3>1. g = [i \in from .. from |-> Begin(w, idx)] OBVIOUS
      <3> HIDE DEF g
      <3> QED BY <3>1, <2>1
    <2> HIDE DEF g
    <2>3. from + 0 = from OBVIOUS
    <2> QED BY <2>2, <2>3 DEF IsWalk
  <1>2. ASSUME NEW m \in S PROVE m + 1 \in S
    <2> DEFINE k == from + m
    <2>1. PICK g : g = [i \in from .. k |-> Passed(w, idx, writing, g, i)] BY DEF IsWalk
    <2> HIDE DEF S
    <2>2. m \in Nat /\ k \in Nat /\ from <= k /\ from + (m + 1) = k + 1 BY DEF S
    <2> HIDE DEF k
    <2> DEFINE h == [i \in from .. k + 1 |->
                        IF i = k + 1 THEN Passed(w, idx, writing, g, i) ELSE g[i]]
    <2>3. ASSUME NEW i \in from .. k + 1 PROVE h[i] = Passed(w, idx, writing, h, i)
      <3>1. CASE i = from
        <4>1. h[i] = g[i] /\ g[i] = Passed(w, idx, writing, g, i) BY <3>1, <2>1, <2>2
        <4> HIDE DEF h
        <4> QED BY <3>1, <4>1 DEF Passed
      <3>2. CASE i # from
        <4>1. i - 1 \in from .. k /\ i - 1 # k + 1 /\ i - 1 \in from .. k + 1 BY <3>2, <2>2
        <4>2. h[i - 1] = g[i - 1] BY <4>1
        <4>4. h[i] = Passed(w, idx, writing, g, i) BY <2>1, <2>2
        <4> HIDE DEF h
        <4>3. Passed(w, idx, writing, h, i) = Passed(w, idx, writing, g, i) BY <4>2 DEF Passed
        <4> QED BY <4>3, <4>4
      <3> QED BY <3>1, <3>2
    <2>4. h = [i \in from .. k + 1 |-> h[i]] OBVIOUS
    <2> HIDE DEF h
    <2>5. IsWalk(w, idx, writing, from + (m + 1), h) BY <2>2, <2>3, <2>4 DEF IsWalk
    <2> QED BY <2>2, <2>5 DEF S
  <1>3. S = Nat
    <2>1. S \in SUBSET Nat OBVIOUS
    <2> HIDE DEF S
    <2> QED BY <1>1, <1>2, <2>1, Induction
  <1>4. PICK m \in Nat : from + m = n
    <2>1. n - from \in Nat /\ from + (n - from) = n OBVIOUS
    <2> QED BY <2>1
  <1>5. m \in S BY <1>3
  <1> HIDE DEF from
  <1> QED BY <1>4, <1>5

\* Where a walk has come to: a cluster of the file or the end of its chain.
PlaceOK(w, S, writing, p) ==
    /\ p.cluster \in S \union {Last}
    /\ writing /\ p.cluster = Last => p.before \in S
    /\ IsHandle(p.h, S) /\ SameBuffer(p.h, w.h)

\* A walk begins in the file,
LEMMA BeginOK ==
    ASSUME NEW w, NEW S, IsLibrary(w, S), NEW idx \in Nat, NEW writing
    PROVE  PlaceOK(w, S, writing, Begin(w, idx)) /\ From(w, idx) \in Nat /\ From(w, idx) <= idx
  <1>1. /\ IsHandle(w.h, S) /\ SameBuffer(w.h, w.h)
        /\ w.h.at.idx \in Nat \union {-1} /\ (w.h.at.idx \in Nat => w.h.at.cluster \in S)
    BY DEF IsLibrary, IsHandle, SameBuffer, Same
  <1>2. w.h.start \in S BY <1>1, Zenon DEF IsHandle, HandlesLike
  <1>3. Last \notin S BY LibraryLinked, Marks DEF AreLinked
  <1>4. Near(w, idx) => w.h.at.idx \in Nat /\ w.h.at.idx <= idx BY <1>1 DEF Near
  <1>5. From(w, idx) \in Nat /\ From(w, idx) <= idx BY <1>4 DEF From
  <1>6. (IF Near(w, idx) THEN w.h.at.cluster ELSE w.h.start) \in S BY <1>1, <1>2, <1>4
  <1>7. Begin(w, idx).cluster \in S /\ Begin(w, idx).h = w.h BY <1>6 DEF Begin
  <1> QED BY <1>1, <1>3, <1>5, <1>7 DEF PlaceOK

\* a hop stays in it,
LEMMA HopOK ==
    ASSUME NEW w, NEW S, IsLibrary(w, S), NEW writing, NEW p, PlaceOK(w, S, writing, p),
           ~(writing /\ p.cluster = Last), NEW i \in 0 .. Top
    PROVE  PlaceOK(w, S, writing, Hop(w, p, i))
  <1> DEFINE hit == cached /\ p.h.cache[i] # None
             next == IF hit THEN p.h.cache[i] ELSE Follow(w.fat, p.cluster, 1)
             h == IF cached THEN [p.h EXCEPT !.cache[i] = next] ELSE p.h
  <1>1. p.cluster \in S \union {Last} /\ IsHandle(p.h, S) /\ SameBuffer(p.h, w.h)
    BY DEF PlaceOK
  <1>2. AreLinked(w.fat, S) BY LibraryLinked
  <1>3. Follow(w.fat, p.cluster, 1) \in S \union {Last}
    <2>1. Follow(w.fat, p.cluster, 0 + 1) = Link(w.fat, Follow(w.fat, p.cluster, 0))
      BY FollowNext
    <2>2. Follow(w.fat, p.cluster, 1) = Link(w.fat, p.cluster) BY <2>1, FollowFirst
    <2> QED BY <1>1, <1>2, <2>2, Marks DEF AreLinked, Link
  <1>4. p.h.cache \in [0 .. Top -> S \union {None, Last}] BY <1>1, Zenon DEF IsHandle, HandlesLike
  <1>5. next \in S \union {Last} BY <1>3, <1>4
  <1> HIDE DEF next
  <1>6. IsHandle([p.h EXCEPT !.cache[i] = next], S)
        /\ SameBuffer([p.h EXCEPT !.cache[i] = next], p.h)
    BY <1>1, <1>5, CacheIsHandle, Zenon
  <1>7. IsHandle(h, S) /\ SameBuffer(h, p.h) BY <1>1, <1>6 DEF SameBuffer, Same
  <1>8. SameBuffer(h, w.h) BY <1>1, <1>7 DEF SameBuffer, Same
  <1> HIDE DEF h
  <1>9. Hop(w, p, i) = [cluster |-> next, before |-> p.cluster, h |-> h]
    BY DEF Hop, h, next
  <1>10. /\ Hop(w, p, i).cluster = next /\ Hop(w, p, i).before = p.cluster
         /\ Hop(w, p, i).h = h
    BY <1>9
  <1>11. writing => p.cluster \in S BY <1>1
  <1> QED BY <1>5, <1>7, <1>8, <1>10, <1>11 DEF PlaceOK

\* and so does the walk.
LEMMA WalkOK ==
    ASSUME NEW w, NEW S, IsLibrary(w, S), NEW idx \in 0 .. Top, Top \in Nat, NEW writing
    PROVE  PlaceOK(w, S, writing, Walk(w, idx, writing))
  <1> DEFINE from == From(w, idx)
             g == CHOOSE h : IsWalk(w, idx, writing, idx, h)
  <1>0. idx \in Nat /\ idx <= Top OBVIOUS
  <1>1. from \in Nat /\ from <= idx /\ PlaceOK(w, S, writing, Begin(w, idx))
    BY <1>0, BeginOK
  <1>2. IsWalk(w, idx, writing, idx, g) BY <1>0, <1>1, WalkExists
  <1>3. Walk(w, idx, writing) = g[idx]
    BY DEF Walk, IsWalk, Passed, From, Near, Begin, OneOn
  <1> HIDE DEF g
  <1>4. \A i \in from .. idx : g[i] = Passed(w, idx, writing, g, i) BY <1>2 DEF IsWalk
  <1> DEFINE N == {m \in Nat : from + m <= idx => PlaceOK(w, S, writing, g[from + m])}
  <1>5. 0 \in N
    <2>1. from + 0 = from /\ from \in from .. idx BY <1>1
    <2>2. g[from] = Begin(w, idx) BY <1>4, <2>1 DEF Passed
    <2> QED BY <1>1, <2>1, <2>2
  <1>6. ASSUME NEW m \in N PROVE m + 1 \in N
    <2> DEFINE i == from + m
    <2> SUFFICES ASSUME i + 1 <= idx PROVE PlaceOK(w, S, writing, g[i + 1])
      BY <1>1
    <2>1. m \in Nat /\ i \in Nat /\ from <= i /\ i <= idx BY <1>1
    <2>2. PlaceOK(w, S, writing, g[i]) BY <2>1
    <2> HIDE DEF N, i
    <2>3. i + 1 \in from .. idx /\ i + 1 # from /\ (i + 1) - 1 = i /\ i \in 0 .. Top
      BY <1>0, <1>1, <2>1
    <2>4. g[i + 1] = OneOn(w, g[i], writing, i) BY <1>4, <2>3 DEF Passed
    <2>5. CASE writing /\ g[i].cluster = Last BY <2>2, <2>4, <2>5 DEF OneOn
    <2>6. CASE ~(writing /\ g[i].cluster = Last)
      <3>1. g[i + 1] = Hop(w, g[i], i) BY <2>4, <2>6 DEF OneOn
      <3> QED BY <2>2, <2>3, <2>6, <3>1, HopOK
    <2> QED BY <2>5, <2>6
  <1>7. N = Nat
    <2>1. N \in SUBSET Nat OBVIOUS
    <2> HIDE DEF N
    <2> QED BY <1>5, <1>6, <2>1, Induction
  <1>8. idx - from \in N /\ from + (idx - from) = idx BY <1>0, <1>1, <1>7
  <1> QED BY <1>0, <1>3, <1>8

\* From the cluster looked up last, or by a walk.
LEMMA WayOK ==
    ASSUME NEW w, NEW S, IsLibrary(w, S), NEW idx \in 0 .. Top, Top \in Nat, NEW writing
    PROVE  PlaceOK(w, S, writing, WayTo(w, idx, writing))
  <1>1. CASE idx = w.h.at.idx
    <2>1. w.h.at.cluster \in S /\ IsHandle(w.h, S) BY <1>1 DEF IsLibrary, IsHandle
    <2>2. Last \notin S BY LibraryLinked, Marks DEF AreLinked
    <2>3. Found(w, idx).cluster = w.h.at.cluster /\ Found(w, idx).h = w.h BY DEF Found
    <2>4. WayTo(w, idx, writing) = Found(w, idx) BY <1>1 DEF WayTo
    <2> QED BY <2>1, <2>2, <2>3, <2>4 DEF PlaceOK, SameBuffer, Same
  <1>2. CASE idx # w.h.at.idx BY <1>2, WalkOK DEF WayTo
  <1> QED BY <1>1, <1>2

(***************************************************************************)
(* Sectors of a file                                                       *)
(***************************************************************************)
LEMMA ReadSectorOK ==
    ASSUME NEW w, NEW S, IsLibrary(w, S), NEW idx \in 0 .. Top, Top \in Nat
    PROVE  IsHandle(ReadSector(w, idx).h, S) /\ SameBuffer(ReadSector(w, idx).h, w.h)
  <1> DEFINE way == WayTo(w, idx, FALSE)
             g == [way.h EXCEPT !.at = [idx |-> idx, cluster |-> way.cluster]]
  <1>1. PlaceOK(w, S, FALSE, way) BY WayOK
  <1>2. /\ way.cluster \in S \union {Last}
        /\ IsHandle(way.h, S) /\ SameBuffer(way.h, w.h)
    BY <1>1 DEF PlaceOK
  <1>3. ReadSector(w, idx).h = IF way.cluster # Last THEN g ELSE way.h BY DEF ReadSector
  <1> HIDE DEF way
  <1>4. idx \in Nat OBVIOUS
  <1>5. ASSUME way.cluster # Last PROVE IsHandle(g, S) /\ SameBuffer(g, way.h)
    <2>1. way.cluster \in S BY <1>2, <1>5
    <2> QED BY <2>1, <1>2, <1>4, AtIsHandle, Zenon
  <1> HIDE DEF g
  <1> QED BY <1>2, <1>3, <1>5 DEF SameBuffer, Same

\* A call that has written: the file has grown, the handle is as it was.
WroteOK(w, S, r) ==
    /\ r.ok \in BOOLEAN
    /\ SameBuffer(r.w.h, w.h)
    /\ \E T : IsLibrary(r.w, T) /\ Grows(w, r.w, S, T)

\* A sector is written to one of the file's clusters.
LEMMA StoredOK ==
    ASSUME NEW w, NEW S, NEW v, NEW T, IsLibrary(w, S), IsLibrary(v, T), Grows(w, v, S, T),
           SameBuffer(v.h, w.h), NEW idx \in Nat, NEW c \in T, NEW bytes
    PROVE  WroteOK(w, S, [w |-> [v EXCEPT !.data = [@ EXCEPT ![c] = bytes],
                                     !.h = [@ EXCEPT !.at = [idx |-> idx, cluster |-> c]]],
                          ok |-> TRUE])
  <1> DEFINE d == [v.data EXCEPT ![c] = bytes]
             g == [v.h EXCEPT !.at = [idx |-> idx, cluster |-> c]]
             u == [v EXCEPT !.data = [@ EXCEPT ![c] = bytes],
                            !.h = [@ EXCEPT !.at = [idx |-> idx, cluster |-> c]]]
             r == [w |-> u, ok |-> TRUE]
  <1>0. u.fat = v.fat /\ u.data = d /\ u.h = g /\ u \in LibrariesLike(u)
    BY Zenon DEF IsLibrary, LibrariesLike
  <1>1. IsHandle(v.h, T) /\ DOMAIN v.data = Clusters BY DEF IsLibrary
  <1>2. IsHandle(g, T) /\ SameBuffer(g, v.h) BY <1>1, AtIsHandle, Zenon
  <1> HIDE DEF g
  <1>3. AreLinked(v.fat, T) BY LibraryLinked
  <1>4. DOMAIN d = Clusters /\ \A e \in Clusters \ T : d[e] = v.data[e] BY <1>1
  <1> HIDE DEF d
  <1>5. u.fat = v.fat /\ u.data = d /\ u.h = g /\ u \in LibrariesLike(u) BY <1>0 DEF d, g
  <1> HIDE DEF u
  <1>6. IsLibrary(u, T) BY <1>2, <1>3, <1>4, <1>5 DEF IsLibrary
  <1>8. Grows(w, u, S, T)
    <2>1. \A e \in Clusters \ T : u.data[e] = w.data[e] BY <1>4, <1>5 DEF Grows
    <2>2. Same(u.h, w.h) BY <1>2, <1>5 DEF SameBuffer, Same
    <2> QED BY <2>1, <2>2, <1>5 DEF Grows, SameBuffer
  <1>9. SameBuffer(u.h, w.h) BY <1>2, <1>5 DEF SameBuffer, Same
  <1>10. r.w = u /\ r.ok = TRUE OBVIOUS
  <1> HIDE DEF r
  <1>11. WroteOK(w, S, r) BY <1>6, <1>8, <1>9, <1>10 DEF WroteOK
  <1> QED BY <1>11 DEF r, u

\* Writing a sector adds what clusters it needs and keeps the rest.
LEMMA WriteSectorOK ==
    ASSUME NEW w, NEW S, IsLibrary(w, S), NEW idx \in 0 .. Top, Top \in Nat,
           NEW bytes, NEW count \in Nat \ {0}
    PROVE  WroteOK(w, S, WriteSector(w, idx, bytes, count))
  <1> DEFINE way == WayTo(w, idx, TRUE)
             walked == [w EXCEPT !.h = way.h]
             more == AddFreeSpace(walked, way.before, count)
             end == way.cluster = Last
             r == WriteSector(w, idx, bytes, count)
             Stores(v, c) == [w |-> [v EXCEPT !.data = [@ EXCEPT ![c] = bytes],
                                         !.h = [@ EXCEPT !.at = [idx |-> idx, cluster |-> c]]],
                              ok |-> TRUE]
  <1> idx \in Nat OBVIOUS
  <1>0. /\ ~end => r = Stores(walked, way.cluster)
        /\ end /\ more.ok => r = Stores(more.w, more.first)
        /\ end /\ ~more.ok => r = [w |-> more.w, ok |-> FALSE]
    BY Zenon DEF WriteSector
  <1>1. PlaceOK(w, S, TRUE, way) BY WayOK
  <1>2. /\ way.cluster \in S \union {Last} /\ (end => way.before \in S)
        /\ IsHandle(way.h, S) /\ SameBuffer(way.h, w.h)
    BY <1>1 DEF PlaceOK
  <1> HIDE DEF way
  <1>3. /\ IsLibrary(walked, S) /\ walked.fat = w.fat /\ walked.data = w.data
        /\ walked.h = way.h
    BY ONLY <1>2, IsLibrary(w, S), WithHandle
  <1> HIDE DEF walked, r
  <1>4. Grows(w, walked, S, S) BY <1>2, <1>3, GrowsNothing DEF SameBuffer
  <1>5. SameBuffer(walked.h, w.h) BY <1>2, <1>3
  <1>6. CASE ~end
    <2>1. way.cluster \in S BY <1>2, <1>6
    <2>2. WroteOK(w, S, Stores(walked, way.cluster)) BY <2>1, <1>0, <1>3, <1>4, <1>5, StoredOK
    <2> QED BY <2>2, <1>0, <1>6 DEF r
  <1>7. ASSUME end PROVE WroteOK(w, S, r)
    <2>1. AddedOK(walked, S, more, count) BY <1>2, <1>3, <1>7, AddFreeSpaceLinks
    <2>2. PICK T : /\ Relinks(walked.fat, more.w.fat, S, T) /\ IsLibrary(more.w, T)
                   /\ more.ok /\ count >= 1 => more.first \in T
      BY <2>1 DEF AddedOK
    <2>3. more.w.data = w.data /\ more.w.h = walked.h BY <2>1, <1>3 DEF AddedOK
    <2> HIDE DEF more
    <2>4. SameBuffer(more.w.h, w.h) BY <2>3, <1>5
    <2>5. Grows(w, more.w, S, T) BY <2>2, <2>3, <2>4, <1>3 DEF Grows, SameBuffer
    <2>6. CASE more.ok
      <3>1. more.first \in T BY <2>2, <2>6
      <3>2. WroteOK(w, S, Stores(more.w, more.first)) BY <3>1, <2>2, <2>4, <2>5, <1>0, StoredOK
      <3> QED BY <3>2, <2>6, <1>0, <1>7
    <2>7. CASE ~more.ok
      <3>1. r = [w |-> more.w, ok |-> FALSE] BY <2>7, <1>0, <1>7
      <3>2. r.w = more.w /\ r.ok = FALSE BY <3>1
      <3> QED BY <3>2, <2>2, <2>4, <2>5 DEF WroteOK
    <2> QED BY <2>6, <2>7
  <1> QED BY <1>6, <1>7 DEF r

\* From state w a call comes to v, in which the file has more clusters.
GoesOn(w, S, v) == \E T : IsLibrary(v, T) /\ Grows(w, v, S, T)

\* A call goes on from where it had come,
LEMMA GoesOnTwice ==
    ASSUME NEW w, NEW S, IsLibrary(w, S), NEW v, NEW T, IsLibrary(v, T), Grows(w, v, S, T),
           NEW u, GoesOn(v, T, u)
    PROVE  GoesOn(w, S, u)
  <1>1. PICK U : IsLibrary(u, U) /\ Grows(v, u, T, U) BY DEF GoesOn
  <1> QED BY <1>1, GrowsTwice DEF GoesOn

\* or stays there.
LEMMA GoesNowhere == ASSUME NEW w, NEW S, IsLibrary(w, S) PROVE GoesOn(w, S, w)
  BY GrowsNothing DEF GoesOn, Same

\* Another handle, with the place and the length of the one before.
LEMMA GoesOnWith ==
    ASSUME NEW w, NEW S, IsLibrary(w, S), NEW h, IsHandle(h, S), Same(h, w.h)
    PROVE  IsLibrary([w EXCEPT !.h = h], S) /\ Grows(w, [w EXCEPT !.h = h], S, S)
  <1> DEFINE v == [w EXCEPT !.h = h]
  <1>1. IsLibrary(v, S) /\ v.fat = w.fat /\ v.data = w.data /\ v.h = h BY WithHandle, Zenon
  <1> HIDE DEF v
  <1>2. IsLibrary(v, S) /\ Grows(w, v, S, S) BY <1>1, GrowsNothing
  <1> QED BY <1>2 DEF v

\* Flushing the buffer,
LEMMA FlushedOK ==
    ASSUME NEW w, NEW S, IsLibrary(w, S), Top \in Nat
    PROVE  GoesOn(w, S, Flushed(w))
  <1> DEFINE r == WriteSector(w, w.h.addr, w.h.buf, 1)
             g == [r.w.h EXCEPT !.dirty = ~r.ok]
  <1>1. CASE ~w.h.dirty BY <1>1, GoesNowhere DEF Flushed
  <1>2. CASE w.h.dirty
    <2>1. w.h.addr \in 0 .. Top BY <1>2 DEF IsLibrary, IsHandle
    <2>2. WroteOK(w, S, r) BY <2>1, WriteSectorOK
    <2>3. Flushed(w) = [r.w EXCEPT !.h.dirty = ~r.ok] BY <1>2 DEF Flushed
    <2>4. [r.w EXCEPT !.h.dirty = ~r.ok] = [r.w EXCEPT !.h = g] BY Zenon
    <2> HIDE DEF r
    <2>5. PICK T : IsLibrary(r.w, T) /\ Grows(w, r.w, S, T) BY <2>2 DEF WroteOK
    <2>6. r.ok \in BOOLEAN /\ r.w.h.dirty BY <1>2, <2>2 DEF WroteOK, SameBuffer
    <2>7. IsHandle(r.w.h, T) BY <2>5 DEF IsLibrary
    <2>8. IsHandle(g, T) /\ Same(g, r.w.h) BY <2>6, <2>7, FlushedIsHandle, Zenon
    <2> HIDE DEF g
    <2>9. GoesOn(r.w, T, [r.w EXCEPT !.h = g]) BY <2>5, <2>8, GoesOnWith DEF GoesOn
    <2> QED BY <2>3, <2>4, <2>5, <2>9, GoesOnTwice
  <1> QED BY <1>1, <1>2

\* and loading another sector.
LEMMA LoadedOK ==
    ASSUME NEW w, NEW S, IsLibrary(w, S), Top \in Nat, NEW idx \in 0 .. Top
    PROVE  GoesOn(w, S, Loaded(w, idx)) /\ Loaded(w, idx).h.addr = idx
  <1>1. CASE w.h.addr = idx BY <1>1, GoesNowhere DEF Loaded
  <1>2. CASE w.h.addr # idx
    <2> DEFINE v == Flushed(w)
               r == ReadSector(v, idx)
               h == Buffers(r.h, idx, r.bytes)
    <2>1. Loaded(w, idx) = [v EXCEPT !.h = h] BY <1>2 DEF Loaded
    <2>2. PICK T : IsLibrary(v, T) /\ Grows(w, v, S, T) BY FlushedOK DEF GoesOn
    <2> HIDE DEF v
    <2>3. IsHandle(r.h, T) /\ Same(r.h, v.h) BY <2>2, ReadSectorOK DEF SameBuffer
    <2> HIDE DEF r
    <2>4. IsHandle(h, T) /\ Same(h, r.h) /\ h.addr = idx
      BY <2>3, BuffersIsHandle, BuffersFields
    <2> HIDE DEF h
    <2>5. Same(h, v.h) BY <2>3, <2>4 DEF Same
    <2>6. GoesOn(v, T, [v EXCEPT !.h = h]) BY <2>2, <2>4, <2>5, GoesOnWith DEF GoesOn
    <2>7. [v EXCEPT !.h = h].h = h BY <2>2, <2>4, WithHandle, Zenon
    <2> QED BY <2>1, <2>2, <2>4, <2>6, <2>7, GoesOnTwice
  <1> QED BY <1>1, <1>2

(***************************************************************************)
(* Sectors and bounds                                                      *)
(***************************************************************************)
LEMMA Quotient ==
    ASSUME NEW a \in Nat, NEW d \in Nat \ {0}
    PROVE  a \div d \in Nat /\ d * (a \div d) <= a /\ a < d * (a \div d) + d
           /\ a % d \in Nat /\ a % d < d
  OBVIOUS

\* Division keeps the order.
LEMMA QuotientsGrow ==
    ASSUME NEW a \in Nat, NEW b \in Nat, NEW d \in Nat \ {0}, a <= b
    PROVE  a \div d <= b \div d
  <1> DEFINE p == a \div d
             q == b \div d
  <1>1. p \in Nat /\ q \in Nat /\ d * p <= a /\ b < d * q + d BY Quotient
  <1> HIDE DEF p, q
  <1>2. ASSUME p > q PROVE FALSE
    <2>1. PICK e \in Nat : p = q + 1 + e
      <3>1. p - q - 1 \in Nat /\ p = q + 1 + (p - q - 1) BY <1>1, <1>2
      <3> QED BY <3>1
    <2>2. d * p = d * q + d + d * e BY <1>1, <2>1
    <2>3. d * e \in Nat BY <2>1
    <2>4. d * q \in Nat /\ d * p \in Nat BY <1>1
    <2> QED BY <1>1, <2>2, <2>3, <2>4
  <1> QED BY <1>1, <1>2 DEF p, q

\* The last index of a sector,
LEMMA TopIsNat == Top \in Nat
  BY FilesAssumption, Quotient DEF Top

\* which no place in a file exceeds.
LEMMA IndexOK ==
    ASSUME NEW f \in Files, NEW pos \in Nat, pos < Room(f)
    PROVE  pos \div SectorSize \in 0 .. Top
  <1>1. SectorSize \in Nat \ {0} /\ MaxLen \in Nat BY FilesAssumption
  <1>2. pos \div SectorSize \in Nat /\ MaxLen \div SectorSize \in Nat BY <1>1, Quotient
  <1>3. CASE f \in Seekers
    <2>1. pos <= MaxLen BY <1>1, <1>3 DEF Room
    <2>2. pos \div SectorSize <= MaxLen \div SectorSize BY <1>1, <2>1, QuotientsGrow
    <2> QED BY <1>2, <2>2 DEF Top
  <1>4. CASE f \notin Seekers
    <2>1. pos < SectorSize BY <1>4 DEF Room
    <2>2. pos \div SectorSize = 0
      <3>1. SectorSize * (pos \div SectorSize) <= pos BY <1>1, Quotient
      <3>2. ASSUME pos \div SectorSize >= 1 PROVE FALSE
        <4> DEFINE q == pos \div SectorSize
        <4>1. PICK e \in Nat : q = 1 + e
          <5>1. q - 1 \in Nat /\ q = 1 + (q - 1) BY <1>2, <3>2
          <5> QED BY <5>1
        <4> HIDE DEF q
        <4>2. SectorSize * q = SectorSize + SectorSize * e /\ SectorSize * e \in Nat BY <1>1, <4>1
        <4> QED BY <1>1, <2>1, <3>1, <4>2 DEF q
      <3> QED BY <1>2, <3>2
    <2> QED BY <1>2, <2>2 DEF Top
  <1> QED BY <1>3, <1>4

(***************************************************************************)
(* The volume grows                                                        *)
(***************************************************************************)

\* What the card's clusters are for the library, when a call on f begins.
LEMMA OwnLinked == ASSUME TypeOK, Apart, NEW f \in Files PROVE AreLinked(fat, Own(f))
  <1>1. f # None BY VolumeAssumption DEF Volume!VolumeConstants
  <1>2. ASSUME NEW c \in Own(f) PROVE fat[c] \in Own(f) \union {Last}
    <2>1. c \in Clusters /\ owner[c] = f BY DEF Own
    <2>2. fat[c] # Free BY <1>1, <2>1 DEF Apart, FreeIsUnowned
    <2>3. fat[c] \in Clusters \union {Last} BY <2>1, <2>2 DEF TypeOK, Links
    <2> QED BY <2>1, <2>3 DEF Apart, LinksStayInFile, Own
  <1> QED BY <1>2 DEF AreLinked, Own, TypeOK

\* A call on an open file begins in a state of the library.
LEMMA NowOK ==
    ASSUME TypeOK, Apart, NEW f \in Files, HandleOK(f), handle[f].open
    PROVE  IsLibrary(Now(f), Own(f))
  <1>1. handle[f] # Shut BY DEF Shut
  <1>2. IsHandle(handle[f], Own(f)) BY <1>1 DEF HandleOK
  <1>3. AreLinked(fat, Own(f)) BY OwnLinked
  <1>4. DOMAIN data = Clusters BY DEF TypeOK
  <1> QED BY <1>2, <1>3, <1>4, Zenon DEF IsLibrary, LibrariesLike, Now

\* The files' clusters when f has got new ones.
OwnsNew(f) ==
    owner' = [c \in Clusters |-> IF fat'[c] # Free /\ owner[c] = None THEN f ELSE owner[c]]

\* What a call leaves alone.
Others(f) ==
    /\ \A g \in Files : g # f => Own(g)' = Own(g)
    /\ \A c \in Clusters : c \notin Own(f)' => fat'[c] = fat[c]

\* Who has what, when f has grown,
LEMMA RelinkedOwners ==
    ASSUME TypeOK, Apart, NEW f \in Files, NEW T, Relinks(fat, fat', Own(f), T), OwnsNew(f)
    PROVE  /\ Own(f)' = T /\ Others(f)
           /\ fat' \in [Clusters -> Links] /\ owner' \in [Clusters -> Files \union {None}]
  <1>1. AreLinked(fat, Own(f)) BY OwnLinked
  <1>2. AreLinked(fat', T) /\ Own(f) \subseteq T BY <1>1, RelinksLinked
  <1>3. \A c \in Clusters : /\ c \notin T => fat'[c] = fat[c]
                            /\ c \in T /\ c \notin Own(f) => fat[c] = Free
    <2>1. OnlyOwn(fat, fat', Own(f), T) BY <1>1, RelinksOwn
    <2> QED BY <2>1 DEF OnlyOwn
  <1>4. \A c \in T : c \in Clusters /\ fat'[c] # Free BY <1>2, LinkedNotFree DEF AreLinked
  <1>5. \A c \in Clusters : fat[c] = Free <=> owner[c] = None BY DEF Apart, FreeIsUnowned
  <1>6. f # None BY VolumeAssumption DEF Volume!VolumeConstants
  <1>7. \A c \in Clusters : owner'[c] = IF c \in T THEN f ELSE owner[c]
    BY <1>2, <1>3, <1>4, <1>5 DEF OwnsNew, Own
  <1>8. \A c \in Clusters : c \in T => owner[c] \in {f, None} BY <1>3, <1>5 DEF Own
  <1>9. Own(f)' = T
    <2>1. \A c \in Clusters : owner'[c] = f <=> c \in T BY <1>2, <1>7 DEF Own
    <2> QED BY <1>4, <2>1 DEF Own
  <1>10. ASSUME NEW g \in Files, g # f PROVE Own(g)' = Own(g)
    <2>1. g # None BY VolumeAssumption DEF Volume!VolumeConstants
    <2> QED BY <1>7, <1>8, <1>10, <2>1 DEF Own
  <1>11. owner' \in [Clusters -> Files \union {None}] BY DEF OwnsNew, TypeOK
  <1> QED BY <1>2, <1>3, <1>9, <1>10, <1>11 DEF Others, AreLinked

\* and that files stay apart.
LEMMA RelinkedApart ==
    ASSUME TypeOK, Apart, NEW f \in Files, NEW T, Relinks(fat, fat', Own(f), T), OwnsNew(f),
           \A g \in Files : First(g)' = First(g)
    PROVE  Apart'
  <1>1. PICK C \in SUBSET Own(f), N \in SUBSET Clusters :
            /\ T = Own(f) \union N
            /\ \A d \in N : fat[d] = Free
            /\ \E link \in [N \union C -> N \union {Last}] :
                /\ \A c \in C : link[c] # Last
                /\ \A d, e \in N \union C : d # e /\ link[d] # Last => link[d] # link[e]
                /\ fat' = [d \in Clusters |-> IF d \in N \union C THEN link[d] ELSE fat[d]]
    BY DEF Relinks
  <1>2. PICK link \in [N \union C -> N \union {Last}] :
            /\ \A c \in C : link[c] # Last
            /\ \A d, e \in N \union C : d # e /\ link[d] # Last => link[d] # link[e]
            /\ fat' = [d \in Clusters |-> IF d \in N \union C THEN link[d] ELSE fat[d]]
    BY <1>1
  <1>3. \A d \in Clusters : fat'[d] = IF d \in N \union C THEN link[d] ELSE fat[d] BY <1>2
  <1>4. \A d \in N \union C : d \in Clusters /\ link[d] \in N \union {Last} BY <1>1, <1>2 DEF Own
  <1>5. \A c \in Clusters : fat[c] = Free <=> owner[c] = None BY DEF Apart, FreeIsUnowned
  <1>6. f # None BY VolumeAssumption DEF Volume!VolumeConstants
  <1>7. \A d \in N \union C : link[d] # Free BY <1>4, Marks
  <1>8. \A d \in Clusters : owner'[d] = IF d \in N THEN f ELSE owner[d]
    BY <1>1, <1>3, <1>5, <1>7 DEF OwnsNew, Own
  <1>9. \A d \in C : owner[d] = f BY <1>1 DEF Own
  <1>10. \A d \in Clusters : fat[d] \in Clusters => fat[d] \notin N
    <2> SUFFICES ASSUME NEW d \in Clusters, fat[d] \in Clusters PROVE fat[d] \notin N OBVIOUS
    <2>1. owner[fat[d]] = owner[d] BY DEF Apart, LinksStayInFile
    <2>2. fat[d] # Free BY Marks
    <2> QED BY <1>1, <1>5, <2>1, <2>2
  <1>11. FreeIsUnowned' BY <1>3, <1>4, <1>5, <1>6, <1>7, <1>8, <1>9 DEF FreeIsUnowned
  <1>12. LinksStayInFile'
    <2> SUFFICES ASSUME NEW c \in Clusters, fat'[c] \in Clusters PROVE owner'[fat'[c]] = owner'[c]
      BY DEF LinksStayInFile
    <2>1. CASE c \in N \union C
      <3>1. fat'[c] \in N BY <1>3, <1>4, <2>1, Marks
      <3>2. owner'[c] = f BY <1>8, <1>9, <2>1
      <3> QED BY <1>8, <3>1, <3>2
    <2>2. CASE c \notin N \union C
      <3>1. fat'[c] = fat[c] /\ fat[c] \notin N BY <1>3, <1>10, <2>2
      <3>2. owner[fat[c]] = owner[c] BY <3>1 DEF Apart, LinksStayInFile
      <3> QED BY <1>8, <2>2, <3>1, <3>2
    <2> QED BY <2>1, <2>2
  <1>13. LinksApart'
    <2> SUFFICES ASSUME NEW c \in Clusters, NEW d \in Clusters, fat'[c] \in Clusters, c # d
                 PROVE  fat'[c] # fat'[d]
      BY DEF LinksApart
    <2>1. CASE c \in N \union C /\ d \in N \union C
      BY <1>2, <1>3, <2>1, Marks
    <2>2. CASE c \in N \union C /\ d \notin N \union C
      BY <1>3, <1>4, <1>10, <2>2, Marks
    <2>3. CASE c \notin N \union C /\ d \in N \union C
      BY <1>3, <1>4, <1>10, <2>3, Marks
    <2>4. CASE c \notin N \union C /\ d \notin N \union C
      BY <1>3, <2>4 DEF Apart, LinksApart
    <2> QED BY <2>1, <2>2, <2>3, <2>4
  <1>14. \A g \in Files : First(g) # None => First(g) \in Clusters /\ owner[First(g)] = g
    BY DEF Apart, FirstIsOwned
  <1>15. \A g \in Files : First(g) # None => First(g) \notin N
    <2> SUFFICES ASSUME NEW g \in Files, First(g) # None, First(g) \in N PROVE FALSE OBVIOUS
    <2>1. owner[First(g)] = g /\ fat[First(g)] = Free /\ First(g) \in Clusters BY <1>1, <1>14
    <2>2. g # None BY VolumeAssumption DEF Volume!VolumeConstants
    <2> QED BY <1>5, <2>1, <2>2
  <1>16. FirstIsOwned'
    <2> SUFFICES ASSUME NEW g \in Files, First(g)' # None
                 PROVE  First(g)' \in Clusters /\ owner'[First(g)'] = g
      BY DEF FirstIsOwned
    <2>1. First(g)' = First(g) OBVIOUS
    <2> QED BY <1>8, <1>14, <1>15, <2>1
  <1>17. FirstIsUnlinked'
    <2> SUFFICES ASSUME NEW g \in Files, NEW c \in Clusters, First(g)' # None
                 PROVE  fat'[c] # First(g)'
      BY DEF FirstIsUnlinked
    <2>1. First(g)' = First(g) OBVIOUS
    <2>2. CASE c \in N \union C
      BY <1>3, <1>4, <1>14, <1>15, <2>1, <2>2, Marks
    <2>3. CASE c \notin N \union C
      BY <1>3, <2>1, <2>3 DEF Apart, FirstIsUnlinked
    <2> QED BY <2>2, <2>3
  <1> QED BY <1>11, <1>12, <1>13, <1>16, <1>17 DEF Apart

\* Every such step is one of FatVolume's, or none at all.
LEMMA RelinkedVolume ==
    ASSUME TypeOK, Apart, NEW f \in Files, NEW T, Relinks(fat, fat', Own(f), T), OwnsNew(f),
           \A g \in Files : First(g)' = First(g)
    PROVE  [Volume!Next]_Volume!vars
  <1>1. PICK C \in SUBSET Own(f), N \in SUBSET Clusters :
            /\ T = Own(f) \union N
            /\ \A d \in N : fat[d] = Free
            /\ \E link \in [N \union C -> N \union {Last}] :
                /\ \A c \in C : link[c] # Last
                /\ \A d, e \in N \union C : d # e /\ link[d] # Last => link[d] # link[e]
                /\ fat' = [d \in Clusters |-> IF d \in N \union C THEN link[d] ELSE fat[d]]
    BY DEF Relinks
  <1>2. PICK link \in [N \union C -> N \union {Last}] :
            /\ \A c \in C : link[c] # Last
            /\ \A d, e \in N \union C : d # e /\ link[d] # Last => link[d] # link[e]
            /\ fat' = [d \in Clusters |-> IF d \in N \union C THEN link[d] ELSE fat[d]]
    BY <1>1
  <1>3. \A c \in Clusters : fat[c] = Free <=> owner[c] = None BY DEF Apart, FreeIsUnowned
  <1>4. [g \in Files |-> FirstOf(g)]' = [g \in Files |-> FirstOf(g)] BY DEF First
  <1>5. owner = [c \in Clusters |-> owner[c]] BY DEF TypeOK
  <1>6. CASE fat' = fat
    <2>1. owner' = owner
      <3>1. \A c \in Clusters : (IF fat'[c] # Free /\ owner[c] = None THEN f ELSE owner[c]) = owner[c]
        BY <1>3, <1>6
      <3> QED BY <1>5, <3>1 DEF OwnsNew
    <2> QED BY <1>4, <1>6, <2>1 DEF Volume!vars
  <1>7. CASE fat' # fat
    <2>1. C \in SUBSET Clusters /\ \A c \in C : owner[c] = f BY <1>1 DEF Own
    <2>2. \A d \in N : Volume!Blank(d) BY <1>1 DEF Volume!Blank
    <2>3. owner' = [d \in Clusters |-> IF d \in N THEN f ELSE owner[d]]
      <3>1. f # None BY VolumeAssumption DEF Volume!VolumeConstants
      <3>2. \A d \in N \union C : link[d] # Free
        <4>1. \A d \in N : d \in Clusters BY <1>1
        <4>2. \A d \in N \union C : link[d] \in N \union {Last} BY <1>2
        <4> QED BY <4>1, <4>2, Marks
      <3>3. \A d \in Clusters : (IF fat'[d] # Free /\ owner[d] = None THEN f ELSE owner[d])
                                    = IF d \in N THEN f ELSE owner[d]
        <4> SUFFICES ASSUME NEW d \in Clusters
                     PROVE  (IF fat'[d] # Free /\ owner[d] = None THEN f ELSE owner[d])
                                = IF d \in N THEN f ELSE owner[d]
          OBVIOUS
        <4>1. fat'[d] = IF d \in N \union C THEN link[d] ELSE fat[d] BY <1>2
        <4>2. CASE d \in N
          <5>1. owner[d] = None BY <1>1, <1>3, <4>2
          <5> QED BY <3>2, <4>1, <4>2, <5>1
        <4>3. CASE d \notin N
          <5>1. owner[d] = None => d \notin C /\ fat[d] = Free BY <1>3, <2>1, <3>1
          <5> QED BY <4>1, <4>3, <5>1
        <4> QED BY <4>2, <4>3
      <3> QED BY <3>3 DEF OwnsNew
    <2>4. Volume!Extend(f, C, N)
      <3>1. \E l \in [N \union C -> N \union {Last}] :
                /\ \A c \in C : l[c] # Last
                /\ \A d, e \in N \union C : d # e /\ l[d] # Last => l[d] # l[e]
                /\ fat' = [d \in Clusters |-> IF d \in N \union C THEN l[d] ELSE fat[d]]
        BY <1>1
      <3> QED BY <1>4, <2>1, <2>2, <2>3, <3>1, Zenon DEF Volume!Extend
    <2> QED BY <1>1, <1>7, <2>1, <2>4, Zenon DEF Volume!Next
  <1> QED BY <1>6, <1>7

(***************************************************************************)
(* The end of a chain                                                      *)
(***************************************************************************)

\* Of a chain that nothing links to, and whose links come apart, no cluster
\* comes again,
LEMMA NeverAgain ==
    ASSUME NEW t, NEW first \in Clusters, \A c \in Clusters : t[c] # first,
           \A c, d \in Clusters : t[c] \in Clusters /\ c # d => t[c] # t[d]
    PROVE  \A i, j \in Nat : i < j /\ Follow(t, first, i) \in Clusters =>
               Follow(t, first, j) # Follow(t, first, i)
  <1> DEFINE F(i) == Follow(t, first, i)
             N == {i \in Nat : \A j \in Nat : i < j /\ F(i) \in Clusters => F(j) # F(i)}
  <1>0. \A i \in Nat : F(i + 1) = Link(t, F(i)) BY FollowNext
  <1>1. F(0) = first BY FollowFirst
  <1> HIDE DEF F
  <1>2. 0 \in N
    <2> SUFFICES ASSUME NEW j \in Nat, 0 < j PROVE F(j) # F(0) OBVIOUS
    <2>1. j - 1 \in Nat /\ (j - 1) + 1 = j OBVIOUS
    <2>2. F(j) = Link(t, F(j - 1)) BY <1>0, <2>1
    <2> QED BY <1>1, <2>2, Marks DEF Link
  <1>3. ASSUME NEW i \in N PROVE i + 1 \in N
    <2> SUFFICES ASSUME NEW j \in Nat, i + 1 < j, F(i + 1) \in Clusters, F(j) = F(i + 1)
                 PROVE  FALSE
      OBVIOUS
    <2>1. i \in Nat /\ (\A k \in Nat : i < k /\ F(i) \in Clusters => F(k) # F(i)) OBVIOUS
    <2> HIDE DEF N
    <2>2. j - 1 \in Nat /\ (j - 1) + 1 = j /\ i < j - 1 BY <2>1
    <2>3. F(j) = Link(t, F(j - 1)) /\ F(i + 1) = Link(t, F(i)) BY <1>0, <2>1, <2>2
    <2>4. F(i) \in Clusters /\ F(j - 1) \in Clusters /\ t[F(i)] = t[F(j - 1)] /\ t[F(i)] \in Clusters
      BY <2>3, Marks DEF Link
    <2>5. F(j - 1) # F(i) BY <2>1, <2>2, <2>4
    <2> QED BY <2>4, <2>5
  <1>4. N = Nat
    <2>1. N \in SUBSET Nat OBVIOUS
    <2> HIDE DEF N
    <2> QED BY <1>2, <1>3, <2>1, Induction
  <1> QED BY <1>4 DEF F

\* so that it ends before it has as many as the card,
LEMMA ChainEnds ==
    ASSUME NEW t, NEW first \in Clusters, \A c \in Clusters : t[c] # first,
           \A c, d \in Clusters : t[c] \in Clusters /\ c # d => t[c] # t[d]
    PROVE  Follow(t, first, LastCluster) \notin Clusters
  <1> DEFINE F(i) == Follow(t, first, i)
  <1>0. LastCluster \in Nat BY FilesAssumption
  <1>1. \A i \in Nat : F(i + 1) \in Clusters => F(i) \in Clusters
    <2> SUFFICES ASSUME NEW i \in Nat, F(i + 1) \in Clusters PROVE F(i) \in Clusters OBVIOUS
    <2>1. F(i + 1) = Link(t, F(i)) BY FollowNext
    <2> QED BY <2>1, Marks DEF Link
  <1>2. \A i, j \in Nat : i < j /\ F(i) \in Clusters => F(j) # F(i) BY NeverAgain
  <1> HIDE DEF F
  <1> SUFFICES ASSUME F(LastCluster) \in Clusters PROVE FALSE BY DEF F
  <1> DEFINE M == {k \in Nat : k <= LastCluster => F(LastCluster - k) \in Clusters}
  <1>3. 0 \in M BY <1>0
  <1>4. ASSUME NEW k \in M PROVE k + 1 \in M
    <2> SUFFICES ASSUME k + 1 <= LastCluster PROVE F(LastCluster - (k + 1)) \in Clusters OBVIOUS
    <2> DEFINE i == LastCluster - (k + 1)
    <2>1. i \in Nat /\ i + 1 = LastCluster - k /\ k <= LastCluster BY <1>0
    <2>2. F(LastCluster - k) \in Clusters BY <2>1
    <2> HIDE DEF M, i
    <2>3. F(i) \in Clusters BY <1>1, <2>1, <2>2
    <2> QED BY <2>3 DEF i
  <1>5. M = Nat
    <2>1. M \in SUBSET Nat OBVIOUS
    <2> HIDE DEF M
    <2> QED BY <1>3, <1>4, <2>1, Induction
  <1>6. \A i \in 0 .. LastCluster : F(i) \in Clusters
    <2> SUFFICES ASSUME NEW i \in 0 .. LastCluster PROVE F(i) \in Clusters OBVIOUS
    <2> DEFINE k == LastCluster - i
    <2>1. k \in Nat /\ LastCluster - k = i /\ k <= LastCluster BY <1>0
    <2> HIDE DEF k
    <2>2. k \in M
      <3> HIDE DEF M
      <3> QED BY <1>5, <2>1
    <2>3. F(LastCluster - k) \in Clusters BY <2>1, <2>2
    <2> QED BY <2>1, <2>3
  <1> HIDE DEF M
  <1> DEFINE I == 0 .. LastCluster
             g == [i \in I |-> F(i)]
  <1>7. g \in [I -> Clusters] BY <1>6
  <1>8. IsFiniteSet(I) /\ Cardinality(I) = LastCluster + 1 BY <1>0, FS_Interval
  <1>9. IsFiniteSet(Clusters) /\ Cardinality(Clusters) < LastCluster + 1
    BY <1>0, FS_Interval DEF Clusters
  <1>10. \E i, j \in I : i # j /\ g[i] = g[j]
    <2> HIDE DEF I, g
    <2>1. Cardinality(Clusters) < Cardinality(I) BY <1>8, <1>9
    <2> QED BY <1>7, <1>8, <1>9, <2>1, FS_PigeonHole
  <1>11. PICK i \in I, j \in I : i # j /\ g[i] = g[j] BY <1>10
  <1>12. F(i) = F(j) /\ F(i) \in Clusters /\ F(j) \in Clusters BY <1>6, <1>11
  <1>13. i \in Nat /\ j \in Nat /\ (i < j \/ j < i) BY <1>0, <1>11
  <1> QED BY <1>2, <1>12, <1>13

\* and what freeing it follows is all that the links lead to.
LEMMA ChainClosed ==
    ASSUME TypeOK, Apart, NEW f \in Files, First(f) # None
    PROVE  /\ First(f) \in ChainOf(fat, First(f))
           /\ \A c \in ChainOf(fat, First(f)) :
                 c \in Clusters /\ (fat[c] \in Clusters => fat[c] \in ChainOf(fat, First(f)))
  <1> DEFINE first == First(f)
  <1>1. first \in Clusters /\ \A c \in Clusters : fat[c] # first
    BY DEF Apart, FirstIsOwned, FirstIsUnlinked
  <1>2. \A c, d \in Clusters : fat[c] \in Clusters /\ c # d => fat[c] # fat[d]
    BY DEF Apart, LinksApart
  <1> HIDE DEF first
  <1>3. Follow(fat, first, LastCluster) \notin Clusters BY <1>1, <1>2, ChainEnds
  <1>4. LastCluster \in Nat BY FilesAssumption
  <1>5. first \in ChainOf(fat, first)
    <2>1. first = Follow(fat, first, 0) /\ 0 \in 0 .. LastCluster BY <1>4, FollowFirst
    <2> QED BY <1>1, <2>1 DEF ChainOf
  <1>6. ASSUME NEW c \in ChainOf(fat, first), fat[c] \in Clusters
        PROVE  fat[c] \in ChainOf(fat, first)
    <2>1. PICK n \in 0 .. LastCluster : c = Follow(fat, first, n) BY DEF ChainOf
    <2>2. c \in Clusters BY DEF ChainOf
    <2>3. n \in Nat /\ n # LastCluster /\ n + 1 \in 0 .. LastCluster BY <1>3, <1>4, <2>1, <2>2
    <2>4. Follow(fat, first, n + 1) = Link(fat, c) BY <2>1, <2>3, FollowNext
    <2>5. Follow(fat, first, n + 1) = fat[c] BY <2>2, <2>4 DEF Link
    <2> QED BY <1>6, <2>3, <2>5 DEF ChainOf
  <1>7. \A c \in ChainOf(fat, first) : c \in Clusters BY DEF ChainOf
  <1> QED BY <1>5, <1>6, <1>7 DEF first

\* A chain stays within a set closed under the links,
LEMMA ChainWithin ==
    ASSUME NEW t, NEW first, NEW S \in SUBSET Clusters, first \in S,
           \A c \in S : t[c] \in Clusters => t[c] \in S
    PROVE  ChainOf(t, first) \subseteq S
  <1> SUFFICES ASSUME NEW c \in ChainOf(t, first) PROVE c \in S OBVIOUS
  <1>1. PICK n \in 0 .. LastCluster : c = Follow(t, first, n) BY DEF ChainOf
  <1>2. c \in Clusters /\ n \in Nat BY FilesAssumption DEF ChainOf
  <1>3. \A m \in Nat : Follow(t, first, m) \in Clusters => Follow(t, first, m) \in S BY FollowStays
  <1> QED BY <1>1, <1>2, <1>3

\* The chain of the library is the one of FatVolume.
LEMMA ChainIsVolumes ==
    ASSUME TypeOK, Apart, NEW f \in Files, First(f) # None
    PROVE  Volume!Chain(f) = ChainOf(fat, First(f))
  <1> DEFINE first == First(f)
             V == {c \in Clusters : \A S \in SUBSET Clusters :
                        first \in S /\ c \notin S => ~Volume!Closed(S)}
  <1>1. Volume!Chain(f) = V
    <2>1. [g \in Files |-> FirstOf(g)][f] = first BY DEF First
    <2> QED BY <2>1, Zenon DEF Volume!Chain
  <1> HIDE DEF first
  <1>2. ASSUME NEW c \in ChainOf(fat, first) PROVE c \in V
    <2>1. c \in Clusters BY DEF ChainOf
    <2>2. ASSUME NEW S \in SUBSET Clusters, first \in S, Volume!Closed(S) PROVE c \in S
      <3>1. \A d \in S : fat[d] \in Clusters => fat[d] \in S BY <2>2 DEF Volume!Closed
      <3>2. ChainOf(fat, first) \subseteq S BY <2>2, <3>1, ChainWithin
      <3> QED BY <3>2
    <2> QED BY <2>1, <2>2
  <1>3. ASSUME NEW c \in V PROVE c \in ChainOf(fat, first)
    <2> DEFINE S == ChainOf(fat, first)
    <2>1. S \in SUBSET Clusters /\ first \in S /\ \A d \in S : fat[d] \in Clusters => fat[d] \in S
      BY ChainClosed DEF first
    <2>2. Volume!Closed(S) BY <2>1 DEF Volume!Closed
    <2> HIDE DEF S
    <2>3. c \in S BY <2>1, <2>2
    <2> QED BY <2>3 DEF S
  <1>4. V = ChainOf(fat, first)
    <2> HIDE DEF V
    <2> QED BY <1>2, <1>3
  <1> QED BY <1>1, <1>4 DEF first

\* hence within its file.
LEMMA ChainIsOwn ==
    ASSUME TypeOK, Apart, NEW f \in Files, First(f) # None
    PROVE  ChainOf(fat, First(f)) \subseteq Own(f)
  <1>1. First(f) \in Own(f) BY DEF Apart, FirstIsOwned, Own
  <1>2. AreLinked(fat, Own(f)) BY OwnLinked
  <1>3. Own(f) \in SUBSET Clusters /\ \A c \in Own(f) : fat[c] \in Clusters => fat[c] \in Own(f)
    BY <1>2, Marks DEF AreLinked
  <1> QED BY <1>1, <1>3, ChainWithin

\* No two files' chains meet.
LEMMA ApartIsDisjoint == ASSUME TypeOK, Apart PROVE ChainsDisjoint
  <1> DEFINE chain == [f \in Volume!Present |-> Volume!Chain(f)]
  <1>1. \A f \in Volume!Present : f \in Files /\ First(f) # None
    BY DEF Volume!Present, First
  <1>2. \A f \in Volume!Present : chain[f] = ChainOf(fat, First(f)) BY <1>1, ChainIsVolumes
  <1>3. \A f \in Volume!Present : chain[f] \subseteq Own(f) BY <1>1, <1>2, ChainIsOwn
  <1> HIDE DEF chain
  <1>4. \A f, g \in Volume!Present : f # g => chain[f] \intersect chain[g] = {}
    <2>1. \A f, g \in Volume!Present : f # g => Own(f) \intersect Own(g) = {} BY DEF Own
    <2> QED BY <1>3, <2>1
  <1>5. \A f \in Volume!Present : \A c \in chain[f] : fat[c] # Free
    <2> SUFFICES ASSUME NEW f \in Volume!Present, NEW c \in chain[f] PROVE fat[c] # Free OBVIOUS
    <2>1. AreLinked(fat, Own(f)) BY <1>1, OwnLinked
    <2>2. c \in Own(f) BY <1>3
    <2> QED BY <2>1, <2>2, LinkedNotFree
  <1> QED BY <1>4, <1>5, Zenon DEF ChainsDisjoint, Volume!ChainsDisjoint, chain

(***************************************************************************)
(* A chain is freed                                                        *)
(***************************************************************************)
LEMMA ReleasedApart ==
    ASSUME TypeOK, Apart, NEW f \in Files, First(f) # None,
           fat' = FreeChain(fat, First(f)),
           owner' = [c \in Clusters |-> IF c \in ChainOf(fat, First(f)) THEN None ELSE owner[c]],
           First(f)' = None, \A g \in Files : g # f => First(g)' = First(g)
    PROVE  /\ Apart' /\ Volume!Release(f)
           /\ fat' \in [Clusters -> Links] /\ owner' \in [Clusters -> Files \union {None}]
           /\ \A g \in Files : g # f =>
                 Own(g)' = Own(g) /\ \A c \in Own(g) : fat'[c] = fat[c]
           /\ fat' # fat
  <1> DEFINE S == ChainOf(fat, First(f))
  <1>1. S \subseteq Own(f) BY ChainIsOwn
  <1>2. First(f) \in S /\ \A c \in S : c \in Clusters /\ (fat[c] \in Clusters => fat[c] \in S)
    BY ChainClosed
  <1>3. fat' = [c \in Clusters |-> IF c \in S THEN Free ELSE fat[c]] BY DEF FreeChain
  <1>4. owner' = [c \in Clusters |-> IF c \in S THEN None ELSE owner[c]] OBVIOUS
  <1>5. Volume!Release(f)
    <2>1. S = Volume!Chain(f) BY ChainIsVolumes
    <2>2. [g \in Files |-> FirstOf(g)][f] # None BY DEF First
    <2>3. [g \in Files |-> FirstOf(g)]' = [[g \in Files |-> FirstOf(g)] EXCEPT ![f] = None]
      <3>1. \A g \in Files : FirstOf(g)' = IF g = f THEN None ELSE FirstOf(g) BY DEF First
      <3> QED BY <3>1
    <2> HIDE DEF S
    <2> QED BY <1>3, <1>4, <2>1, <2>2, <2>3, Zenon DEF Volume!Release
  <1>6. S = {First(f)} \union {fat[c] : c \in {d \in S : fat[d] \in Clusters}}
    \* A cluster of the chain is the first or the next of one.
    <2>1. ASSUME NEW c \in S, c # First(f) PROVE \E d \in S : fat[d] = c /\ fat[d] \in Clusters
      <3>1. PICK n \in 0 .. LastCluster : c = Follow(fat, First(f), n) BY DEF ChainOf
      <3>2. n \in Nat /\ n # 0 BY <2>1, <3>1, FollowFirst, FilesAssumption
      <3>3. n - 1 \in Nat /\ (n - 1) + 1 = n /\ n - 1 \in 0 .. LastCluster BY <3>1, <3>2, FilesAssumption
      <3> DEFINE d == Follow(fat, First(f), n - 1)
      <3>4. Follow(fat, First(f), (n - 1) + 1) = Link(fat, d) BY <3>3, FollowNext
      <3>5. c = Link(fat, d) /\ c \in Clusters BY <1>2, <3>1, <3>3, <3>4
      <3>6. d \in Clusters /\ fat[d] = c BY <3>5, Marks DEF Link
      <3>7. d \in S BY <3>3, <3>6 DEF ChainOf
      <3> HIDE DEF d, S
      <3> QED BY <3>5, <3>6, <3>7
    <2> HIDE DEF S
    <2> QED BY <1>2, <2>1
  <1> HIDE DEF S
  <1>7. \A c \in Clusters : fat'[c] = IF c \in S THEN Free ELSE fat[c] BY <1>3
  <1>8. \A c \in Clusters : owner'[c] = IF c \in S THEN None ELSE owner[c] BY <1>4
  <1>9. FreeIsUnowned' BY <1>7, <1>8 DEF Apart, FreeIsUnowned
  <1>10. \A c \in Clusters : fat[c] \in S => c \in S
    <2> SUFFICES ASSUME NEW c \in Clusters, fat[c] \in S, c \notin S PROVE FALSE OBVIOUS
    <2>1. fat[c] # First(f) BY DEF Apart, FirstIsUnlinked
    <2>2. PICK d \in S : fat[d] = fat[c] /\ fat[d] \in Clusters BY <1>6, <2>1
    <2>3. d \in Clusters /\ d # c BY <1>2, <2>2
    <2> QED BY <2>2, <2>3 DEF Apart, LinksApart
  <1>11. LinksStayInFile'
    <2> SUFFICES ASSUME NEW c \in Clusters, fat'[c] \in Clusters PROVE owner'[fat'[c]] = owner'[c]
      BY DEF LinksStayInFile
    <2>1. c \notin S /\ fat'[c] = fat[c] BY <1>7, Marks
    <2>2. fat[c] \notin S BY <1>10, <2>1
    <2>3. owner[fat[c]] = owner[c] BY <2>1 DEF Apart, LinksStayInFile
    <2> QED BY <1>8, <2>1, <2>2, <2>3
  <1>12. LinksApart' BY <1>7, Marks DEF Apart, LinksApart
  <1>13. FirstIsOwned'
    <2> SUFFICES ASSUME NEW g \in Files, First(g)' # None
                 PROVE  First(g)' \in Clusters /\ owner'[First(g)'] = g
      BY DEF FirstIsOwned
    <2>1. g # f /\ First(g)' = First(g) OBVIOUS
    <2>2. First(g) \in Clusters /\ owner[First(g)] = g BY <2>1 DEF Apart, FirstIsOwned
    <2>3. First(g) \notin S BY <1>1, <2>1, <2>2 DEF Own
    <2> QED BY <1>8, <2>1, <2>2, <2>3
  <1>14. FirstIsUnlinked'
    <2> SUFFICES ASSUME NEW g \in Files, NEW c \in Clusters, First(g)' # None
                 PROVE  fat'[c] # First(g)'
      BY DEF FirstIsUnlinked
    <2>1. First(g)' = First(g) /\ First(g) \in Clusters BY DEF Apart, FirstIsOwned
    <2> QED BY <1>7, <2>1, Marks DEF Apart, FirstIsUnlinked
  <1>15. fat' \in [Clusters -> Links] BY <1>3 DEF TypeOK, Links
  <1>16. owner' \in [Clusters -> Files \union {None}] BY <1>4 DEF TypeOK
  <1>17. ASSUME NEW g \in Files, g # f PROVE Own(g)' = Own(g) /\ \A c \in Own(g) : fat'[c] = fat[c]
    <2>1. g # None BY VolumeAssumption DEF Volume!VolumeConstants
    <2>2. \A c \in Clusters : owner[c] = g => c \notin S BY <1>1, <1>17 DEF Own
    <2> QED BY <1>7, <1>8, <2>1, <2>2 DEF Own
  <1>18. fat' # fat
    <2>1. fat'[First(f)] = Free /\ First(f) \in Own(f) BY <1>1, <1>2, <1>7
    <2>2. fat[First(f)] # Free
      <3>1. AreLinked(fat, Own(f)) BY OwnLinked
      <3> QED BY <2>1, <3>1, LinkedNotFree
    <2> QED BY <2>1, <2>2
  <1> QED BY <1>5, <1>9, <1>11, <1>12, <1>13, <1>14, <1>15, <1>16, <1>17, <1>18 DEF Apart

(***************************************************************************)
(* Settled files                                                           *)
(***************************************************************************)
LEMMA UnitSame ==
    ASSUME NEW table, NEW other, NEW bytes, NEW others, NEW S \in SUBSET Clusters, NEW first \in S,
           \A c \in S : table[c] \in Clusters => table[c] \in S,
           \A c \in S : other[c] = table[c] /\ others[c] = bytes[c], NEW p \in Nat
    PROVE  Unit(other, others, first, p) = Unit(table, bytes, first, p)
  <1> DEFINE n == p \div SectorSize
             c == Follow(table, first, n)
  <1>1. n \in Nat BY Quotient, FilesAssumption
  <1>2. Follow(other, first, n) = c BY <1>1, FollowSame
  <1>3. c \in Clusters => c \in S BY <1>1, FollowStays
  <1> HIDE DEF n, c
  <1>4. Unit(table, bytes, first, p) = IF c \in Clusters THEN bytes[c][(p % SectorSize) + 1] ELSE None
    BY DEF Unit, n, c
  <1>5. Unit(other, others, first, p) = IF c \in Clusters THEN others[c][(p % SectorSize) + 1] ELSE None
    BY <1>2 DEF Unit, n
  <1> QED BY <1>3, <1>4, <1>5

\* What leads to a settled file.
LEMMA SettledFirst ==
    ASSUME TypeOK, Apart, NEW f \in Files, Settled(f)
    PROVE  First(f) = dir[f].start /\ dir[f].start \in Own(f)
  <1>1. First(f) = dir[f].start BY DEF Settled, First, FirstOf, Idle
  <1>2. dir[f].start # None BY DEF TypeOK, Settled, Exists
  <1> QED BY <1>1, <1>2 DEF Apart, FirstIsOwned, Own

SettledSo(f) ==
    /\ \A c \in Own(f) : card[c] = fat[c]
    /\ kept[f] = Stored(fat, f)

\* A file's clusters hold the same whatever is done to others' clusters,
LEMMA StoredFrame ==
    ASSUME TypeOK, Apart, NEW f \in Files, dir[f].start \in Own(f), dir'[f] = dir[f],
           \A c \in Own(f) : fat'[c] = fat[c] /\ data'[c] = data[c]
    PROVE  Stored(fat, f)' = Stored(fat, f)
  <1>1. AreLinked(fat, Own(f)) BY OwnLinked
  <1>2. Own(f) \in SUBSET Clusters /\ \A c \in Own(f) : fat[c] \in Clusters => fat[c] \in Own(f)
    BY <1>1, Marks DEF AreLinked
  <1>3. dir[f].len \in Nat BY DEF TypeOK, Entries
  <1>4. \A p \in Nat : Unit(fat', data', dir[f].start, p) = Unit(fat, data, dir[f].start, p)
    <2> DEFINE S == Own(f)
               first == dir[f].start
    <2>1. \A c \in S : fat'[c] = fat[c] /\ data'[c] = data[c] OBVIOUS
    <2>2. S \in SUBSET Clusters /\ first \in S /\ \A c \in S : fat[c] \in Clusters => fat[c] \in S
      BY <1>2
    <2> HIDE DEF S, first
    <2>3. \A p \in Nat : Unit(fat', data', first, p) = Unit(fat, data, first, p)
      BY <2>1, <2>2, UnitSame
    <2> QED BY <2>3 DEF first
  <1>5. \A i \in 1 .. dir[f].len : i - 1 \in Nat BY <1>3
  <1>6. \A i \in 1 .. dir[f].len :
            Unit(fat', data', dir[f].start, i - 1) = Unit(fat, data, dir[f].start, i - 1)
    BY <1>4, <1>5
  <1>7. Stored(fat, f)' = [i \in 1 .. dir[f].len |-> Unit(fat', data', dir[f].start, i - 1)]
    BY DEF Stored, Unit
  <1> QED BY <1>6, <1>7 DEF Stored

\* and a settled one stays so.
LEMMA SettledFrame ==
    ASSUME TypeOK, Apart, NEW f \in Files, Settled(f), SettledSo(f),
           dir'[f] = dir[f], kept'[f] = kept[f], Own(f)' = Own(f),
           \A c \in Own(f) : fat'[c] = fat[c] /\ data'[c] = data[c] /\ card'[c] \in {card[c], fat[c]}
    PROVE  SettledSo(f)'
  <1>1. dir[f].start \in Own(f) BY SettledFirst
  <1>2. Stored(fat, f)' = Stored(fat, f) BY <1>1, StoredFrame
  <1>3. \A c \in Own(f) : card'[c] = fat'[c] BY DEF SettledSo
  <1> QED BY <1>2, <1>3 DEF SettledSo

\* On the card it is what it was.
LEMMA SettledIsKept ==
    ASSUME TypeOK, Apart, NEW f \in Files, Settled(f), SettledSo(f)
    PROVE  Stored(card, f) = kept[f]
  <1>1. dir[f].start \in Own(f) BY SettledFirst
  <1>2. AreLinked(fat, Own(f)) BY OwnLinked
  <1>3. Own(f) \in SUBSET Clusters /\ \A c \in Own(f) : fat[c] \in Clusters => fat[c] \in Own(f)
    BY <1>2, Marks DEF AreLinked
  <1>4. dir[f].len \in Nat BY DEF TypeOK, Entries
  <1>5. \A p \in Nat : Unit(card, data, dir[f].start, p) = Unit(fat, data, dir[f].start, p)
    <2> DEFINE S == Own(f)
               first == dir[f].start
    <2>1. \A c \in S : card[c] = fat[c] /\ data[c] = data[c] BY DEF SettledSo
    <2>2. S \in SUBSET Clusters /\ first \in S /\ \A c \in S : fat[c] \in Clusters => fat[c] \in S
      BY <1>1, <1>3
    <2> HIDE DEF S, first
    <2>3. \A p \in Nat : Unit(card, data, first, p) = Unit(fat, data, first, p)
      BY <2>1, <2>2, UnitSame
    <2> QED BY <2>3 DEF first
  <1>6. \A i \in 1 .. dir[f].len : i - 1 \in Nat BY <1>4
  <1>7. \A i \in 1 .. dir[f].len :
            Unit(card, data, dir[f].start, i - 1) = Unit(fat, data, dir[f].start, i - 1)
    BY <1>5, <1>6
  <1> QED BY <1>7 DEF Stored, SettledSo

(***************************************************************************)
(* Steps                                                                   *)
(***************************************************************************)

\* f is left alone: its handle, its entry, its clusters and what they hold.
LeftAlone(f) ==
    /\ handle'[f] = handle[f] /\ dir'[f] = dir[f] /\ kept'[f] = kept[f]
    /\ Own(f)' = Own(f)
    /\ \A c \in Own(f) : fat'[c] = fat[c] /\ data'[c] = data[c] /\ card'[c] \in {card[c], fat[c]}

\* So are all but one.
OthersAlone(f) == \A g \in Files : g # f => LeftAlone(g)

\* A file left alone keeps its handle,
LEMMA AloneHandle ==
    ASSUME NEW f \in Files, LeftAlone(f), HandleOK(f) PROVE HandleOK(f)'
  BY DEF LeftAlone, HandleOK, Room, Top, IsHandle, HandlesLike

\* and stays settled.
LEMMA AloneSettled ==
    ASSUME TypeOK, Apart, NEW f \in Files, LeftAlone(f), Settled(f), SettledSo(f)
    PROVE  SettledSo(f)'
  BY SettledFrame DEF LeftAlone

\* Reading, writing and closing: f's handle, clusters and length.
LEMMA CallOK ==
    ASSUME IndInv, NEW f \in Files, op = Idle, handle[f].open, NEW w, NEW T,
           Relinks(fat, w.fat, Own(f), T), DOMAIN w.data = Clusters,
           \A c \in Clusters \ T : w.data[c] = data[c],
           Becomes(f, w), UNCHANGED <<cached, card, kept>>,
           \/ /\ UNCHANGED <<dir, op>>
              /\ IsHandle(w.h, T) /\ w.h.len <= Room(f) /\ w.h.start = handle[f].start
           \/ /\ w.h = Shut /\ op' = [name |-> "purge", file |-> f]
              /\ dir' \in [Files -> Entries] /\ dir'[f].len <= Room(f)
              /\ dir'[f].start = dir[f].start /\ \A g \in Files : g # f => dir'[g] = dir[g]
    PROVE  IndInv' /\ [Volume!Next]_Volume!vars /\ OthersAlone(f)
  <1>0. TypeOK /\ Apart /\ SettledOK /\ \A g \in Files : HandleOK(g) BY DEF IndInv
  <1>1. fat' = w.fat /\ data' = w.data /\ handle' = [handle EXCEPT ![f] = w.h] /\ OwnsNew(f)
    BY DEF Becomes, OwnsNew
  <1>2. Relinks(fat, fat', Own(f), T) BY <1>1
  <1>3. /\ Own(f)' = T /\ Others(f)
        /\ fat' \in [Clusters -> Links] /\ owner' \in [Clusters -> Files \union {None}]
    BY <1>0, <1>1, <1>2, RelinkedOwners
  <1>4. \A g \in Files : First(g)' = First(g)
    BY DEF First, FirstOf, Idle
  <1>5. Apart' BY <1>0, <1>1, <1>2, <1>4, RelinkedApart
  <1>6. [Volume!Next]_Volume!vars BY <1>0, <1>1, <1>2, <1>4, RelinkedVolume
  <1>7. DOMAIN handle = Files BY <1>0 DEF TypeOK
  <1>8. handle'[f] = w.h /\ DOMAIN handle' = Files BY <1>1, <1>7
  <1>9. ASSUME NEW g \in Files, g # f PROVE LeftAlone(g)
    <2>1. Own(g)' = Own(g) BY <1>3, <1>9 DEF Others
    <2>2. handle'[g] = handle[g] /\ dir'[g] = dir[g] /\ kept'[g] = kept[g] BY <1>1, <1>7, <1>9
    <2>3. \A c \in Own(g) : c \in Clusters /\ c \notin T BY <1>3, <1>9, <2>1 DEF Own
    <2>4. \A c \in Own(g) : fat'[c] = fat[c] /\ data'[c] = data[c] /\ card'[c] = card[c]
      BY <1>1, <1>3, <2>3 DEF Others
    <2> QED BY <2>1, <2>2, <2>4 DEF LeftAlone
  <1>10. handle[f].start \in Own(f) /\ handle[f].start = dir[f].start
    <2>1. handle[f] # Shut BY DEF Shut
    <2> QED BY <1>0, <2>1, Zenon DEF HandleOK, IsHandle, HandlesLike
  <1>11. dir[f].start # None BY <1>10, Marks DEF Own
  <1>12. TypeOK'
    <2>1. dir' \in [Files -> Entries] BY <1>0 DEF TypeOK
    <2>2. \A g \in Files : dir'[g].len <= Room(g) /\ (dir'[g].start = None => dir'[g] = NoEntry)
      BY <1>0, <1>11 DEF TypeOK
    <2>3. DOMAIN data' = Clusters BY <1>1
    <2>4. cached' \in BOOLEAN /\ card' \in [Clusters -> Links] /\ DOMAIN kept' = Files
      BY <1>0 DEF TypeOK
    <2> QED BY <1>3, <1>8, <2>1, <2>2, <2>3, <2>4 DEF TypeOK, Room
  <1>13. OpOK' BY DEF OpOK
  <1>14. HandleOK(f)'
    <2>1. CASE w.h = Shut BY <1>8, <2>1 DEF HandleOK
    <2>2. CASE w.h # Shut
      <3>1. IsHandle(w.h, T) /\ w.h.len <= Room(f) /\ w.h.start = handle[f].start /\ dir' = dir
        BY <2>2
      <3>2. IsHandle(handle[f], Own(f))' BY <1>3, <1>8, <3>1 DEF IsHandle, HandlesLike, Top
      <3> QED BY <1>8, <1>10, <3>1, <3>2 DEF HandleOK, Room
    <2> QED BY <2>1, <2>2
  <1>15. \A g \in Files : HandleOK(g)' BY <1>0, <1>9, <1>14, AloneHandle
  <1>16. SettledOK'
    <2> SUFFICES ASSUME NEW g \in Files, Settled(g)' PROVE SettledSo(g)'
      BY DEF SettledOK, SettledSo
    <2>1. g # f
      <3> SUFFICES ASSUME g = f PROVE FALSE OBVIOUS
      <3>1. CASE w.h = Shut
        <4>1. op' = [name |-> "purge", file |-> f]
          <5>1. IsHandle(w.h, T) => w.h.open BY Zenon DEF IsHandle, HandlesLike
          <5> QED BY <3>1, <5>1 DEF Shut
        <4> QED BY <4>1 DEF Settled, Idle
      <3>2. CASE w.h # Shut
        <4>1. w.h.open BY <3>2, Zenon DEF IsHandle, HandlesLike
        <4> QED BY <1>8, <4>1 DEF Settled
      <3> QED BY <3>1, <3>2
    <2>2. LeftAlone(g) BY <1>9, <2>1
    <2>3. Settled(g) BY <2>2 DEF LeftAlone, Settled, Exists
    <2>4. SettledSo(g) BY <1>0, <2>3 DEF SettledOK, SettledSo
    <2> QED BY <1>0, <2>2, <2>3, <2>4, AloneSettled
  <1> QED BY <1>5, <1>6, <1>12, <1>9, <1>13, <1>15, <1>16 DEF IndInv, OthersAlone

(***************************************************************************)
(* Calls on an open file                                                   *)
(***************************************************************************)
LEMMA Lesser ==
    ASSUME NEW a \in Nat, NEW b \in Nat
    PROVE  /\ Min({a, b}) \in Nat /\ Min({a, b}) \in {a, b}
           /\ Min({a, b}) <= a /\ Min({a, b}) <= b
  <1> DEFINE S == {a, b}
  <1>1. S \in SUBSET Nat /\ S # {} OBVIOUS
  <1>2. \E x \in S : \A y \in S : x <= y
    <2> HIDE DEF S
    <2> QED BY <1>1, Least
  <1>3. Min(S) \in S /\ \A y \in S : Min(S) <= y
    <2> HIDE DEF S
    <2> QED BY <1>2 DEF Min
  <1> QED BY <1>3

\* A call ends with another handle in a state it came to.
LEMMA CallEnds ==
    ASSUME IndInv, NEW f \in Files, op = Idle, handle[f].open,
           NEW v, NEW T, IsLibrary(v, T), Grows(Now(f), v, Own(f), T),
           NEW h, IsHandle(h, T), h.start = handle[f].start, h.len <= Room(f),
           Becomes(f, [v EXCEPT !.h = h]), UNCHANGED <<cached, card, kept, dir, op>>
    PROVE  IndInv' /\ [Volume!Next]_Volume!vars /\ OthersAlone(f)
  <1> DEFINE w == [v EXCEPT !.h = h]
  <1>1. w.fat = v.fat /\ w.data = v.data /\ w.h = h BY ONLY IsLibrary(v, T), IsHandle(h, T), WithHandle
  <1>2. Becomes(f, w) OBVIOUS
  <1> HIDE DEF w
  <1>3. Now(f).fat = fat /\ Now(f).data = data BY DEF Now
  <1>4. /\ Relinks(fat, w.fat, Own(f), T)
        /\ \A c \in Clusters \ T : w.data[c] = data[c]
    BY <1>1, <1>3 DEF Grows
  <1>5. DOMAIN w.data = Clusters BY <1>1 DEF IsLibrary
  <1>6. UNCHANGED <<cached, card, kept>> /\ UNCHANGED <<dir, op>> OBVIOUS
  <1>7. IsHandle(w.h, T) /\ w.h.len <= Room(f) /\ w.h.start = handle[f].start BY <1>1
  <1> QED BY <1>2, <1>4, <1>5, <1>6, <1>7, CallOK

\* The handle of an open file, when a call begins.
LEMMA CallBegins ==
    ASSUME IndInv, NEW f \in Files, handle[f].open
    PROVE  /\ IsLibrary(Now(f), Own(f)) /\ Now(f).h = handle[f]
           /\ IsHandle(handle[f], Own(f))
           /\ handle[f].len \in Nat /\ handle[f].pos \in Nat /\ handle[f].len <= Room(f)
           /\ Grows(Now(f), Now(f), Own(f), Own(f))
  <1>1. TypeOK /\ Apart /\ HandleOK(f) BY DEF IndInv
  <1>2. handle[f] # Shut BY DEF Shut
  <1>3. IsHandle(handle[f], Own(f)) /\ handle[f].len <= Room(f) BY <1>1, <1>2 DEF HandleOK
  <1>4. IsLibrary(Now(f), Own(f)) BY <1>1, NowOK
  <1>5. Now(f).h = handle[f] BY DEF Now
  <1>6. Grows(Now(f), Now(f), Own(f), Own(f)) BY <1>4, GrowsNothing DEF Same
  <1>7. handle[f].len \in Nat /\ handle[f].pos \in Nat
    BY <1>3, Zenon DEF IsHandle, HandlesLike
  <1> QED BY <1>3, <1>4, <1>5, <1>6, <1>7

\* The invariant and FatVolume, call by call: fl_fseek,
LEMMA SeekOK ==
    ASSUME IndInv, NEW f \in Files, NEW pos \in Nat, Seek(f, pos)
    PROVE  IndInv' /\ [Volume!Next]_Volume!vars /\ OthersAlone(f)
  <1> DEFINE h == handle[f]
             g == Forgets(h)
             to == Min({pos, h.len})
             k == [g EXCEPT !.pos = to]
             v == Now(f)
             w == [v EXCEPT !.h = k]
  <1>1. op = Idle /\ h.open /\ handle' = [handle EXCEPT ![f] = k] BY DEF Seek
  <1>2. UNCHANGED <<cached, fat, hint, card, dir, data, op, owner, kept>> BY DEF Seek, cardVars
  <1>3. /\ IsLibrary(v, Own(f)) /\ IsHandle(h, Own(f)) /\ h.len \in Nat /\ h.len <= Room(f)
        /\ Grows(v, v, Own(f), Own(f))
    BY <1>1, CallBegins
  <1>4. to \in Nat BY <1>3, Lesser
  <1>5. IsHandle(g, Own(f)) /\ Same(g, h) BY <1>3, BuffersIsHandle DEF Forgets
  <1> HIDE DEF g, to
  <1>6. IsHandle(k, Own(f)) /\ k.start = h.start /\ k.len = h.len
    <2>1. IsHandle(k, Own(f)) /\ k.start = g.start /\ k.len = g.len
      BY <1>4, <1>5, PosIsHandle, Zenon
    <2> QED BY <2>1, <1>5 DEF Same
  <1>7. Becomes(f, w)
    <2>1. w.fat = fat /\ w.data = data /\ w.h = k /\ w.hint = hint BY DEF Now
    <2>2. owner' = [c \in Clusters |-> IF fat[c] # Free /\ owner[c] = None THEN f ELSE owner[c]]
      BY <1>2 DEF IndInv, Apart, FreeIsUnowned, TypeOK
    <2> HIDE DEF w, k
    <2> QED BY <1>1, <1>2, <2>1, <2>2 DEF Becomes
  <1> HIDE DEF k, v
  <1> QED BY <1>1, <1>2, <1>3, <1>6, <1>7, CallEnds DEF v

\* fl_fflush,
LEMMA FlushOK ==
    ASSUME IndInv, NEW f \in Files, Flush(f)
    PROVE  IndInv' /\ [Volume!Next]_Volume!vars /\ OthersAlone(f)
  <1> DEFINE v == Flushed(Now(f))
  <1>1. op = Idle /\ handle[f].open /\ Becomes(f, v) /\ UNCHANGED <<cached, card, kept, dir, op>>
    BY DEF Flush
  <1>2. /\ IsLibrary(Now(f), Own(f)) /\ Now(f).h = handle[f] /\ handle[f].len <= Room(f)
    BY <1>1, CallBegins
  <1>3. PICK T : IsLibrary(v, T) /\ Grows(Now(f), v, Own(f), T)
    BY <1>2, FlushedOK, TopIsNat DEF GoesOn
  <1> HIDE DEF v
  <1>4. IsHandle(v.h, T) /\ v.h.start = handle[f].start /\ v.h.len <= Room(f)
    BY <1>2, <1>3 DEF IsLibrary, Grows, Same
  <1>5. [v EXCEPT !.h = v.h] = v BY <1>3, Zenon DEF IsLibrary, LibrariesLike
  <1>6. Becomes(f, [v EXCEPT !.h = v.h]) BY <1>1, <1>5
  <1> QED BY <1>1, <1>3, <1>4, <1>6, CallEnds

\* fl_fclose,
LEMMA CloseOK ==
    ASSUME IndInv, NEW f \in Files, Close(f)
    PROVE  IndInv' /\ [Volume!Next]_Volume!vars /\ OthersAlone(f)
  <1> DEFINE v == Flushed(Now(f))
             w == [v EXCEPT !.h = Shut]
  <1>1. /\ op = Idle /\ handle[f].open /\ Becomes(f, w) /\ UNCHANGED <<cached, card, kept>>
        /\ op' = [name |-> "purge", file |-> f]
        /\ dir' = [dir EXCEPT ![f].len = IF v.h.changed THEN v.h.len ELSE dir[f].len]
    BY DEF Close
  <1>2. IsLibrary(Now(f), Own(f)) /\ Now(f).h = handle[f] /\ handle[f].len \in Nat
        /\ handle[f].len <= Room(f)
    BY <1>1, CallBegins
  <1>3. PICK T : IsLibrary(v, T) /\ Grows(Now(f), v, Own(f), T)
    BY <1>2, FlushedOK, TopIsNat DEF GoesOn
  <1> HIDE DEF v
  <1>4. w.fat = v.fat /\ w.data = v.data /\ w.h = Shut
    BY <1>3, Zenon DEF IsLibrary, LibrariesLike
  <1> HIDE DEF w
  <1>5. Now(f).fat = fat /\ Now(f).data = data BY DEF Now
  <1>6. /\ Relinks(fat, w.fat, Own(f), T)
        /\ \A c \in Clusters \ T : w.data[c] = data[c]
    BY <1>3, <1>4, <1>5 DEF Grows
  <1>7. DOMAIN w.data = Clusters BY <1>3, <1>4 DEF IsLibrary
  <1>8. dir \in [Files -> Entries] /\ dir[f].len <= Room(f) BY DEF IndInv, TypeOK
  <1>9. v.h.len = handle[f].len BY <1>2, <1>3 DEF Grows, Same
  <1> DEFINE len == IF v.h.changed THEN v.h.len ELSE dir[f].len
  <1>10. len \in Nat /\ len <= Room(f) BY <1>2, <1>8, <1>9 DEF Entries
  <1>11. dir' = [dir EXCEPT ![f].len = len] BY <1>1
  <1> HIDE DEF len
  <1>12. /\ dir' \in [Files -> Entries] /\ dir'[f].len <= Room(f)
         /\ dir'[f].start = dir[f].start /\ \A g \in Files : g # f => dir'[g] = dir[g]
    BY <1>8, <1>10, <1>11 DEF Entries
  <1> QED BY <1>1, <1>4, <1>6, <1>7, <1>12, CallOK

\* fl_fread,
LEMMA ReadOK ==
    ASSUME IndInv, NEW f \in Files, NEW left \in Nat, Read(f, left)
    PROVE  IndInv' /\ [Volume!Next]_Volume!vars /\ OthersAlone(f)
  <1> DEFINE h == handle[f]
             count == Min({left, h.len - h.pos})
             idx == h.pos \div SectorSize
             offset == h.pos % SectorSize
             whole == offset = 0 /\ count >= SectorSize
             part == IF whole THEN SectorSize ELSE Min({count, SectorSize - offset})
             near == ~whole /\ h.addr = idx
             w == IF whole \/ near THEN Now(f) ELSE Flushed(Now(f))
             r == ReadSector(w, idx)
             read == IF whole THEN r.h ELSE Buffers(r.h, idx, r.bytes)
  <1>1. /\ op = Idle /\ h.open /\ h.pos < h.len /\ UNCHANGED <<cached, card, kept, dir, op>>
        /\ near => Becomes(f, [w EXCEPT !.h.pos = w.h.pos + part])
        /\ ~near /\ ~r.ok => Becomes(f, [w EXCEPT !.h = r.h])
        /\ ~near /\ r.ok => Becomes(f, [w EXCEPT !.h = [read EXCEPT !.pos = read.pos + part]])
    BY Zenon DEF Read
  <1>0. h.pos < h.len BY <1>1, Zenon
  <1>2. /\ IsLibrary(Now(f), Own(f)) /\ Now(f).h = h /\ h.len \in Nat /\ h.pos \in Nat
        /\ h.len <= Room(f) /\ Grows(Now(f), Now(f), Own(f), Own(f))
    BY <1>1, CallBegins
  <1>3. idx \in 0 .. Top
    <2>1. h.pos < Room(f)
      <3>1. Room(f) \in Nat BY FilesAssumption DEF Room
      <3> QED BY <1>0, <1>2, <3>1
    <2> QED BY <1>2, <2>1, IndexOK
  <1>4. part \in Nat
    <2>1. SectorSize \in Nat \ {0} BY FilesAssumption
    <2>2. offset \in Nat /\ offset < SectorSize BY <1>2, <2>1, Quotient
    <2>3. h.len - h.pos \in Nat BY <1>0, <1>2
    <2>4. count \in Nat BY <2>3, Lesser
    <2> HIDE DEF offset, count
    <2>5. SectorSize - offset \in Nat BY <2>1, <2>2
    <2>6. Min({count, SectorSize - offset}) \in Nat BY <2>4, <2>5, Lesser
    <2> QED BY <2>1, <2>6
  <1> HIDE DEF idx, part
  <1>5. PICK T : IsLibrary(w, T) /\ Grows(Now(f), w, Own(f), T)
    BY <1>2, FlushedOK, TopIsNat DEF GoesOn
  <1>6. IsHandle(w.h, T) /\ Same(w.h, h) BY <1>2, <1>5 DEF IsLibrary, Grows
  <1> HIDE DEF w
  <1>7. IsHandle(r.h, T) /\ Same(r.h, h)
    <2>1. IsHandle(r.h, T) /\ SameBuffer(r.h, w.h) BY <1>3, <1>5, TopIsNat, ReadSectorOK
    <2> QED BY <2>1, <1>6 DEF SameBuffer, Same
  <1> HIDE DEF r
  <1>8. IsHandle(read, T) /\ Same(read, h)
    <2>1. IsHandle(Buffers(r.h, idx, r.bytes), T) /\ Same(Buffers(r.h, idx, r.bytes), r.h)
      BY <1>7, BuffersIsHandle
    <2> QED BY <2>1, <1>7 DEF Same
  <1> HIDE DEF read, whole
  <1>9. ASSUME NEW k, IsHandle(k, T), Same(k, h),
               Becomes(f, [w EXCEPT !.h = [k EXCEPT !.pos = k.pos + part]])
        PROVE  IndInv' /\ [Volume!Next]_Volume!vars /\ OthersAlone(f)
    <2> DEFINE to == k.pos + part
               g == [k EXCEPT !.pos = to]
    <2>1. to \in Nat BY <1>2, <1>4, <1>9 DEF Same
    <2> HIDE DEF to
    <2>2. IsHandle(g, T) /\ g.start = k.start /\ g.len = k.len BY <1>9, <2>1, PosIsHandle, Zenon
    <2>3. Becomes(f, [w EXCEPT !.h = g]) BY <1>9 DEF to
    <2> HIDE DEF g
    <2>4. g.start = h.start /\ g.len <= Room(f) BY <1>2, <1>9, <2>2 DEF Same
    <2> QED BY <1>1, <1>5, <2>2, <2>3, <2>4, CallEnds
  <1>10. CASE near
    <2>1. [w EXCEPT !.h.pos = w.h.pos + part] = [w EXCEPT !.h = [w.h EXCEPT !.pos = w.h.pos + part]]
      BY Zenon
    <2> QED BY <1>1, <1>6, <1>9, <1>10, <2>1
  <1>11. CASE ~near /\ ~r.ok
    <2>1. r.h.start = h.start /\ r.h.len <= Room(f) BY <1>2, <1>7 DEF Same
    <2>2. Becomes(f, [w EXCEPT !.h = r.h]) BY <1>1, <1>11
    <2> QED BY <1>1, <1>5, <1>7, <2>1, <2>2, CallEnds
  <1>12. CASE ~near /\ r.ok BY <1>1, <1>8, <1>9, <1>12
  <1> QED BY <1>10, <1>11, <1>12

\* and fl_fwrite.
LEMMA WriteOK ==
    ASSUME IndInv, NEW f \in Files, NEW left \in Nat \ {0}, NEW v, Write(f, left, v)
    PROVE  IndInv' /\ [Volume!Next]_Volume!vars /\ OthersAlone(f)
  <1> DEFINE h == handle[f]
             pos == IF Appends(h.mode) THEN h.len ELSE h.pos
             idx == pos \div SectorSize
             offset == pos % SectorSize
             whole == offset = 0 /\ left >= SectorSize
             part == IF whole THEN SectorSize ELSE Min({left, SectorSize - offset})
             bytes == [i \in 1 .. part |-> v]
             flushed == Flushed(Now(f))
             forgot == Forgets(flushed.h)
             cleared == [flushed EXCEPT !.h = forgot]
             direct == WriteSector(cleared, idx, bytes, left \div SectorSize)
             loaded == Loaded(Now(f), idx)
             dirtied == Dirtied(loaded.h, Overwritten(loaded.h.buf, offset, bytes))
             through == [loaded EXCEPT !.h = dirtied]
             after == IF whole THEN direct.w ELSE through
             done == ~whole \/ direct.ok
             to == IF done THEN pos + part ELSE pos
             moved == [after.h EXCEPT !.pos = to]
  <1>1. /\ op = Idle /\ h.open /\ UNCHANGED <<cached, card, kept, dir, op>>
        /\ pos + left <= Room(f)
        /\ Becomes(f, [after EXCEPT !.h = Grown(moved)])
    BY Zenon DEF Write
  <1>2. /\ IsLibrary(Now(f), Own(f)) /\ Now(f).h = h /\ h.len \in Nat /\ h.pos \in Nat
        /\ h.len <= Room(f)
    BY <1>1, CallBegins
  <1>3. pos \in Nat BY <1>2
  <1> HIDE DEF pos
  <1>4. SectorSize \in Nat \ {0} /\ Room(f) \in Nat BY FilesAssumption DEF Room
  <1>5. idx \in 0 .. Top
    <2>1. pos < Room(f) BY <1>1, <1>3, <1>4
    <2> QED BY <1>3, <2>1, IndexOK
  <1>6. part \in Nat /\ part <= left
    <2>1. offset \in Nat /\ offset < SectorSize BY <1>3, <1>4, Quotient
    <2> HIDE DEF offset
    <2>2. SectorSize - offset \in Nat BY <1>4, <2>1
    <2>3. Min({left, SectorSize - offset}) \in Nat /\ Min({left, SectorSize - offset}) <= left
      BY <2>2, Lesser
    <2> QED BY <1>4, <2>3
  <1>7. to \in Nat /\ to <= Room(f)
    <2> HIDE DEF part, done
    <2> QED BY <1>1, <1>3, <1>4, <1>6
  <1>8. whole => left \div SectorSize \in Nat \ {0}
    <2> SUFFICES ASSUME left >= SectorSize PROVE left \div SectorSize \in Nat \ {0} OBVIOUS
    <2> DEFINE q == left \div SectorSize
    <2>1. q \in Nat /\ left < SectorSize * q + SectorSize BY <1>4, Quotient
    <2> HIDE DEF q
    <2>2. q # 0 BY <1>4, <2>1
    <2> QED BY <2>1, <2>2 DEF q
  <1> HIDE DEF idx, part, offset, whole, bytes
  <1>9. GoesOn(Now(f), Own(f), after)
    <2>1. CASE whole
      <3>1. PICK T : IsLibrary(flushed, T) /\ Grows(Now(f), flushed, Own(f), T)
        BY <1>2, FlushedOK, TopIsNat DEF GoesOn
      <3> HIDE DEF flushed
      <3>2. IsHandle(forgot, T) /\ Same(forgot, flushed.h)
        BY <3>1, BuffersIsHandle DEF IsLibrary, Forgets
      <3> HIDE DEF forgot
      <3>3. IsLibrary(cleared, T) /\ Grows(flushed, cleared, T, T) BY <3>1, <3>2, GoesOnWith
      <3>4. IsLibrary(cleared, T) /\ Grows(Now(f), cleared, Own(f), T)
        <4> HIDE DEF cleared
        <4> QED BY <1>2, <3>1, <3>3, GrowsTwice
      <3> HIDE DEF cleared
      <3>5. WroteOK(cleared, T, direct) BY <1>5, <1>8, <2>1, <3>3, TopIsNat, WriteSectorOK
      <3> HIDE DEF direct
      <3>6. GoesOn(cleared, T, direct.w) BY <3>5 DEF WroteOK, GoesOn
      <3>7. GoesOn(Now(f), Own(f), direct.w) BY <1>2, <3>4, <3>6, GoesOnTwice
      <3> QED BY <2>1, <3>7
    <2>2. CASE ~whole
      <3>1. GoesOn(Now(f), Own(f), loaded) /\ loaded.h.addr = idx
        BY <1>2, <1>5, LoadedOK, TopIsNat
      <3> HIDE DEF loaded
      <3>2. PICK T : IsLibrary(loaded, T) /\ Grows(Now(f), loaded, Own(f), T) BY <3>1 DEF GoesOn
      <3>3. IsHandle(loaded.h, T) /\ loaded.h.addr \in 0 .. Top BY <1>5, <3>1, <3>2 DEF IsLibrary
      <3>4. IsHandle(dirtied, T) /\ Same(dirtied, loaded.h) BY <3>3, DirtiedIsHandle
      <3> HIDE DEF dirtied
      <3>5. GoesOn(loaded, T, through) BY <3>2, <3>4, GoesOnWith DEF GoesOn
      <3> HIDE DEF through
      <3>6. GoesOn(Now(f), Own(f), through) BY <1>2, <3>2, <3>5, GoesOnTwice
      <3> QED BY <2>2, <3>6
    <2> QED BY <2>1, <2>2
  <1> HIDE DEF after, to
  <1>10. PICK T : IsLibrary(after, T) /\ Grows(Now(f), after, Own(f), T) BY <1>9 DEF GoesOn
  <1>11. IsHandle(after.h, T) /\ Same(after.h, h) BY <1>2, <1>10 DEF IsLibrary, Grows
  <1>12. IsHandle(moved, T) /\ moved.start = after.h.start /\ moved.len = after.h.len /\ moved.pos = to
    BY <1>7, <1>11, PosIsHandle, Zenon
  <1> HIDE DEF moved
  <1>13. IsHandle(Longer(moved), T) /\ Longer(moved).start = moved.start
         /\ Longer(moved).len = moved.pos
    BY <1>12, LongerIsHandle
  <1>14. /\ IsHandle(Grown(moved), T) /\ Grown(moved).start = h.start
         /\ Grown(moved).len <= Room(f)
    BY <1>2, <1>7, <1>11, <1>12, <1>13 DEF Grown, Same
  <1> QED BY <1>1, <1>10, <1>14, CallEnds

(***************************************************************************)
(* Opening, creating and removing                                          *)
(***************************************************************************)
LEMMA FreshOK ==
    ASSUME NEW S, NEW first \in S, NEW len \in Nat, NEW mode
    PROVE  /\ IsHandle(Fresh(first, len, mode), S)
           /\ Fresh(first, len, mode).start = first /\ Fresh(first, len, mode).len = len
           /\ Fresh(first, len, mode).open
  <1>1. Nowhere.idx = -1 /\ -1 \notin Nat BY DEF Nowhere
  <1>2. NoCache \in [0 .. Top -> S \union {None, Last}] BY DEF NoCache
  <1>3. FALSE \in BOOLEAN /\ 0 \in Nat OBVIOUS
  <1> QED BY <1>1, <1>2, <1>3, Zenon DEF Fresh, IsHandle, HandlesLike

\* A handle that is not open is none.
LEMMA NotOpen == ASSUME NEW f \in Files, HandleOK(f), ~handle[f].open PROVE handle[f] = Shut
  <1>1. IsHandle(handle[f], Own(f)) => handle[f].open BY Zenon DEF IsHandle, HandlesLike
  <1> QED BY <1>1 DEF HandleOK

\* The FAT and the owners, and the first clusters, stay.
LEMMA ApartSame ==
    ASSUME Apart, fat' = fat, owner' = owner, \A f \in Files : First(f)' = First(f)
    PROVE  Apart' /\ [Volume!Next]_Volume!vars
  <1>1. [f \in Files |-> FirstOf(f)]' = [f \in Files |-> FirstOf(f)] BY DEF First
  <1>2. UNCHANGED Volume!vars BY <1>1 DEF Volume!vars
  <1>3. Apart'
    BY DEF Apart, FreeIsUnowned, LinksStayInFile, LinksApart, FirstIsOwned, FirstIsUnlinked
  <1> QED BY <1>2, <1>3

\* Every file but one is left alone: what is so of the others remains so.
LEMMA OthersOK ==
    ASSUME IndInv, NEW f, \A g \in Files : g # f => LeftAlone(g),
           f \in Files => HandleOK(f)',
           \A g \in Files : g # f /\ Settled(g)' => Settled(g),
           f \in Files /\ Settled(f)' => SettledSo(f)'
    PROVE  SettledOK' /\ \A g \in Files : HandleOK(g)'
  <1>1. TypeOK /\ Apart /\ SettledOK /\ \A g \in Files : HandleOK(g) BY DEF IndInv
  <1>2. ASSUME NEW g \in Files PROVE HandleOK(g)'
    <2>1. CASE g = f BY <2>1
    <2>2. CASE g # f BY <1>1, <2>2, AloneHandle
    <2> QED BY <2>1, <2>2
  <1>3. ASSUME NEW g \in Files, Settled(g)' PROVE SettledSo(g)'
    <2>1. CASE g = f BY <1>3, <2>1
    <2>2. CASE g # f
      <3>1. LeftAlone(g) /\ Settled(g) BY <1>3, <2>2
      <3>2. SettledSo(g) BY <1>1, <3>1 DEF SettledOK, SettledSo
      <3> QED BY <1>1, <3>1, <3>2, AloneSettled
    <2> QED BY <2>1, <2>2
  <1>4. SettledOK' BY <1>3 DEF SettledOK, SettledSo
  <1> QED BY <1>2, <1>4

\* fl_fopen of a file there is,
LEMMA OpenOK ==
    ASSUME IndInv, NEW f \in Files, NEW mode, Open(f, mode)
    PROVE  IndInv' /\ [Volume!Next]_Volume!vars /\ OthersAlone(f)
  <1>0. TypeOK /\ Apart BY DEF IndInv
  <1> DEFINE h == Fresh(dir[f].start, dir[f].len, mode)
  <1>1. /\ op = Idle /\ Exists(f) /\ handle' = [handle EXCEPT ![f] = h] /\ card' = fat
        /\ kept' = [kept EXCEPT ![f] = <<>>]
        /\ UNCHANGED <<cached, fat, dir, data, op, owner>>
    BY DEF Open
  <1>2. First(f) = dir[f].start BY <1>1 DEF First, FirstOf, Idle
  <1>3. dir[f].start # None BY <1>0, <1>1 DEF TypeOK, Exists
  <1>4. dir[f].start \in Own(f) /\ dir[f].len \in Nat /\ dir[f].len <= Room(f)
    BY <1>0, <1>2, <1>3 DEF TypeOK, Entries, Apart, FirstIsOwned, Own
  <1>5. IsHandle(h, Own(f)) /\ h.start = dir[f].start /\ h.len = dir[f].len /\ h.open
    BY <1>4, FreshOK
  <1> HIDE DEF h
  <1>6. handle'[f] = h /\ DOMAIN handle' = Files BY <1>0, <1>1 DEF TypeOK
  <1>7. \A g \in Files : First(g)' = First(g) BY <1>1 DEF First, FirstOf
  <1>8. Apart' /\ [Volume!Next]_Volume!vars BY <1>0, <1>1, <1>7, ApartSame
  <1>9. TypeOK' BY <1>0, <1>1, <1>6 DEF TypeOK, Room
  <1>10. OpOK' BY <1>1 DEF OpOK
  <1>11. \A g \in Files : g # f => LeftAlone(g)
    BY <1>0, <1>1 DEF LeftAlone, TypeOK, Own
  <1>12. HandleOK(f)'
    <2>1. Own(f)' = Own(f) BY <1>1 DEF Own
    <2>2. IsHandle(handle'[f], Own(f)') BY <1>5, <1>6, <2>1
    <2>3. IsHandle(handle[f], Own(f))' BY <2>2 DEF IsHandle, HandlesLike, Top
    <2> QED BY <1>1, <1>4, <1>5, <1>6, <2>3 DEF HandleOK, Room
  <1>13. ~Settled(f)' BY <1>5, <1>6 DEF Settled
  <1>14. \A g \in Files : g # f /\ Settled(g)' => Settled(g)
    BY <1>1, <1>11 DEF Settled, LeftAlone, Exists
  <1>15. SettledOK' /\ \A g \in Files : HandleOK(g)'
    BY <1>11, <1>12, <1>13, <1>14, OthersOK
  <1> QED BY <1>8, <1>9, <1>10, <1>15, <1>11 DEF IndInv, OthersAlone

\* fl_fopen of a file there is not takes a cluster,
LEMMA CreateOK ==
    ASSUME IndInv, NEW f \in Files, NEW mode, Create(f, mode)
    PROVE  IndInv' /\ [Volume!Next]_Volume!vars /\ OthersAlone(f)
  <1>0. TypeOK /\ Apart /\ HandleOK(f) BY DEF IndInv
  <1> DEFINE c == FindBlank(fat, hint)
  <1>1. /\ op = Idle /\ ~Exists(f) /\ ~handle[f].open /\ c # None
        /\ fat' = [fat EXCEPT ![c] = Last] /\ owner' = [owner EXCEPT ![c] = f]
        /\ op' = [name |-> "create", file |-> f, cluster |-> c, mode |-> mode]
        /\ UNCHANGED <<cached, card, dir, data, handle, kept>>
    BY DEF Create, cardVars
  <1>2. c \in Clusters /\ fat[c] = Free BY <1>1, FindBlankType
  <1> HIDE DEF c
  <1>3. owner[c] = None BY <1>0, <1>2 DEF Apart, FreeIsUnowned
  <1>4. \A d \in Clusters : fat'[d] = (IF d = c THEN Last ELSE fat[d])
                           /\ owner'[d] = (IF d = c THEN f ELSE owner[d])
    BY <1>0, <1>1 DEF TypeOK
  <1>5. fat' \in [Clusters -> Links] /\ owner' \in [Clusters -> Files \union {None}]
    BY <1>0, <1>1 DEF TypeOK, Links
  <1>6. dir[f] = NoEntry BY <1>1 DEF Exists
  <1>7. op'.name = "create" /\ op'.file = f /\ op'.cluster = c BY <1>1
  <1>8. /\ First(f) = None /\ First(f)' = c
        /\ \A g \in Files : g # f => First(g)' = First(g)
    BY <1>1, <1>6, <1>7 DEF First, FirstOf, Idle, NoEntry
  <1>9. \A g \in Files : g # None BY VolumeAssumption DEF Volume!VolumeConstants
  <1>10. Apart'
    <2>1. \A d \in Clusters : fat[d] \in Clusters => fat[d] # c
      BY <1>0, <1>2, <1>3, <1>9, Marks DEF Apart, FreeIsUnowned, LinksStayInFile
    <2>2. FreeIsUnowned' BY <1>0, <1>4, <1>9, Marks DEF Apart, FreeIsUnowned
    <2>3. LinksStayInFile' BY <1>0, <1>4, <2>1, Marks DEF Apart, LinksStayInFile
    <2>4. LinksApart' BY <1>0, <1>4, Marks DEF Apart, LinksApart
    <2>5. FirstIsOwned'
      <3> SUFFICES ASSUME NEW g \in Files, First(g)' # None
                   PROVE  First(g)' \in Clusters /\ owner'[First(g)'] = g
        BY DEF FirstIsOwned
      <3>1. CASE g = f BY <1>2, <1>4, <1>8, <3>1
      <3>2. CASE g # f
        <4>1. First(g) \in Clusters /\ owner[First(g)] = g BY <1>0, <1>8, <3>2 DEF Apart, FirstIsOwned
        <4>2. First(g) # c BY <1>3, <1>9, <4>1
        <4> QED BY <1>4, <1>8, <3>2, <4>1, <4>2
      <3> QED BY <3>1, <3>2
    <2>6. FirstIsUnlinked'
      <3> SUFFICES ASSUME NEW g \in Files, NEW d \in Clusters, First(g)' # None
                   PROVE  fat'[d] # First(g)'
        BY DEF FirstIsUnlinked
      <3>1. CASE g = f BY <1>2, <1>4, <1>8, <2>1, <3>1, Marks
      <3>2. CASE g # f
        <4>1. First(g) \in Clusters /\ First(g)' = First(g) BY <1>0, <1>8, <3>2 DEF Apart, FirstIsOwned
        <4> QED BY <1>0, <1>4, <4>1, Marks DEF Apart, FirstIsUnlinked
      <3> QED BY <3>1, <3>2
    <2> QED BY <2>2, <2>3, <2>4, <2>5, <2>6 DEF Apart
  <1>11. [Volume!Next]_Volume!vars
    <2>1. [g \in Files |-> FirstOf(g)][f] = None BY <1>8 DEF First
    <2>2. [g \in Files |-> FirstOf(g)]' = [[g \in Files |-> FirstOf(g)] EXCEPT ![f] = c]
      <3>1. \A g \in Files : FirstOf(g)' = IF g = f THEN c ELSE FirstOf(g) BY <1>8 DEF First
      <3> QED BY <3>1
    <2>3. Volume!Allocate(f, c)
      BY <1>1, <1>2, <2>1, <2>2, Zenon DEF Volume!Allocate, Volume!Blank
    <2>4. fat' # fat BY <1>2, <1>4, Marks
    <2> QED BY <1>2, <2>3, <2>4 DEF Volume!Next
  <1>12. TypeOK' BY <1>0, <1>1, <1>5 DEF TypeOK, Room
  <1>13. handle[f] = Shut BY <1>0, <1>1, NotOpen
  <1>14. OpOK' BY <1>1, <1>2, <1>4, <1>6, <1>7, <1>13 DEF OpOK
  <1>15. ASSUME NEW g \in Files, g # f PROVE LeftAlone(g)
    <2>1. Own(g)' = Own(g) BY <1>3, <1>4, <1>9, <1>15 DEF Own
    <2>2. \A d \in Own(g) : d \in Clusters /\ d # c BY <1>3, <1>9 DEF Own
    <2> QED BY <1>1, <1>4, <2>1, <2>2 DEF LeftAlone
  <1>16. HandleOK(f)' BY <1>1, <1>13 DEF HandleOK
  <1>17. ~Settled(f)' BY <1>1, <1>6 DEF Settled, Exists
  <1>18. \A g \in Files : g # f /\ Settled(g)' => Settled(g) BY <1>1 DEF Settled, Exists
  <1>19. SettledOK' /\ \A g \in Files : HandleOK(g)'
    BY <1>15, <1>16, <1>17, <1>18, OthersOK
  <1> QED BY <1>10, <1>11, <1>12, <1>14, <1>19, <1>15 DEF IndInv, OthersAlone

\* enters it in the directory,
LEMMA AddEntryOK ==
    ASSUME IndInv, AddEntry
    PROVE  IndInv' /\ [Volume!Next]_Volume!vars /\ OthersAlone(op.file)
  <1>0. TypeOK /\ Apart /\ OpOK BY DEF IndInv
  <1>a. op.name = "create" BY DEF AddEntry
  <1>b. op.file \in Files /\ op.cluster \in Clusters BY <1>0, <1>a DEF OpOK, Idle
  <1>c. PICK f \in Files, c \in Clusters : f = op.file /\ c = op.cluster BY <1>b
  <1> DEFINE h == Fresh(c, 0, op.mode)
  <1>1. /\ op.name = "create"
        /\ dir' = [dir EXCEPT ![f] = [start |-> c, len |-> 0]]
        /\ handle' = [handle EXCEPT ![f] = h]
        /\ op' = [name |-> "purge", file |-> f]
        /\ UNCHANGED <<cached, fat, card, data, owner, kept>>
    BY <1>c DEF AddEntry
  <1>2. f \in Files /\ dir[f] = NoEntry /\ handle[f] = Shut /\ c \in Clusters
    BY <1>0, <1>1, <1>c DEF OpOK, Idle
  <1>3. First(f) = c /\ c # None BY <1>1, <1>2, <1>c, Marks DEF First, FirstOf
  <1>4. c \in Own(f) BY <1>0, <1>2, <1>3 DEF Apart, FirstIsOwned, Own
  <1>5. IsHandle(h, Own(f)) /\ h.start = c /\ h.len = 0 /\ h.open BY <1>4, FreshOK
  <1>6. op'.name = "purge" /\ op'.file = f /\ op' # Idle BY <1>1 DEF Idle
  <1>7. op # Idle BY <1>1 DEF Idle
  <1> HIDE DEF h
  <1>8. /\ handle'[f] = h /\ dir'[f] = [start |-> c, len |-> 0] /\ DOMAIN handle' = Files
        /\ \A g \in Files : g # f => handle'[g] = handle[g] /\ dir'[g] = dir[g]
    BY <1>0, <1>1, <1>2 DEF TypeOK
  <1>9. \A g \in Files : First(g)' = First(g)
    <2> SUFFICES ASSUME NEW g \in Files PROVE First(g)' = First(g) OBVIOUS
    <2>1. First(g)' = dir'[g].start BY <1>6 DEF First, FirstOf
    <2>2. CASE g = f BY <1>3, <1>8, <2>1, <2>2
    <2>3. CASE g # f
      <3>1. First(g) = dir[g].start BY <1>1, <1>c, <2>3 DEF First, FirstOf
      <3> QED BY <1>8, <2>1, <2>3, <3>1
    <2> QED BY <2>2, <2>3
  <1>10. Apart' /\ [Volume!Next]_Volume!vars BY <1>0, <1>1, <1>9, ApartSame
  <1>11. TypeOK'
    <2>1. dir' \in [Files -> Entries] BY <1>0, <1>1, <1>2 DEF TypeOK, Entries
    <2>2. \A g \in Files : dir'[g].len <= Room(g) /\ (dir'[g].start = None => dir'[g] = NoEntry)
      <3> SUFFICES ASSUME NEW g \in Files
                   PROVE  dir'[g].len <= Room(g) /\ (dir'[g].start = None => dir'[g] = NoEntry)
        OBVIOUS
      <3>1. CASE g = f
        <4>1. 0 <= Room(g) BY FilesAssumption DEF Room
        <4> QED BY <1>3, <1>8, <3>1, <4>1
      <3>2. CASE g # f BY <1>0, <1>8, <3>2 DEF TypeOK
      <3> QED BY <3>1, <3>2
    <2> QED BY <1>0, <1>1, <1>8, <2>1, <2>2 DEF TypeOK, Room
  <1>12. OpOK' BY <1>1, <1>2, <1>6 DEF OpOK
  <1>13. \A g \in Files : g # f => LeftAlone(g) BY <1>1, <1>8 DEF LeftAlone, Own
  <1>14. HandleOK(f)'
    <2>1. Own(f)' = Own(f) BY <1>1 DEF Own
    <2>2. IsHandle(handle'[f], Own(f)') BY <1>5, <1>8, <2>1
    <2>3. IsHandle(handle[f], Own(f))' BY <2>2 DEF IsHandle, HandlesLike, Top
    <2>4. 0 <= Room(f) BY FilesAssumption DEF Room
    <2> QED BY <1>5, <1>8, <2>3, <2>4 DEF HandleOK, Room
  <1>15. ~Settled(f)' BY <1>5, <1>8 DEF Settled
  <1>16. \A g \in Files : g # f /\ Settled(g)' => Settled(g)
    BY <1>8, <1>c DEF Settled, Exists
  <1>17. SettledOK' /\ \A g \in Files : HandleOK(g)'
    BY <1>13, <1>14, <1>15, <1>16, OthersOK
  <1> QED BY <1>10, <1>11, <1>12, <1>17, <1>13, <1>c DEF IndInv, OthersAlone

\* or gives the cluster back.
LEMMA EntryFailsOK ==
    ASSUME IndInv, EntryFails
    PROVE  IndInv' /\ [Volume!Next]_Volume!vars /\ OthersAlone(op.file)
  <1>0. TypeOK /\ Apart /\ OpOK BY DEF IndInv
  <1>a. op.name = "create" BY DEF EntryFails
  <1>b. op.file \in Files /\ op.cluster \in Clusters BY <1>0, <1>a DEF OpOK, Idle
  <1>c. PICK f \in Files, c \in Clusters : f = op.file /\ c = op.cluster BY <1>b
  <1>1. /\ op.name = "create" /\ op' = Idle
        /\ fat' = FreeChain(fat, c) /\ owner' = [owner EXCEPT ![c] = None]
        /\ UNCHANGED <<cached, card, dir, data, handle, kept>>
    BY <1>c DEF EntryFails, cardVars
  <1>2. f \in Files /\ dir[f] = NoEntry /\ handle[f] = Shut /\ c \in Clusters /\ fat[c] = Last
    BY <1>0, <1>1, <1>c DEF OpOK, Idle
  <1>3. First(f) = c /\ c # None BY <1>1, <1>2, <1>c, Marks DEF First, FirstOf
  <1>4. op'.name # "create" /\ op'.name # "remove" BY <1>1 DEF Idle
  <1>5. First(f)' = None /\ \A g \in Files : g # f => First(g)' = First(g)
    <2>1. \A g \in Files : First(g)' = dir[g].start BY <1>1, <1>4 DEF First, FirstOf
    <2>2. \A g \in Files : g # f => First(g) = dir[g].start BY <1>1, <1>c DEF First, FirstOf
    <2> QED BY <1>2, <2>1, <2>2 DEF NoEntry
  <1>6. ChainOf(fat, First(f)) = {c}
    <2> DEFINE S == {c}
    <2>1. S \in SUBSET Clusters /\ c \in S /\ \A d \in S : fat[d] \in Clusters => fat[d] \in S
      BY <1>2, Marks
    <2> HIDE DEF S
    <2>2. ChainOf(fat, c) \subseteq S BY <2>1, ChainWithin
    <2>3. First(f) \in ChainOf(fat, First(f)) BY <1>0, <1>2, <1>3, ChainClosed
    <2> QED BY <1>3, <2>2, <2>3 DEF S
  <1>7. owner' = [d \in Clusters |-> IF d \in ChainOf(fat, First(f)) THEN None ELSE owner[d]]
    BY <1>0, <1>1, <1>6 DEF TypeOK
  <1>8. /\ Apart' /\ Volume!Release(f)
        /\ fat' \in [Clusters -> Links] /\ owner' \in [Clusters -> Files \union {None}]
        /\ \A g \in Files : g # f =>
              Own(g)' = Own(g) /\ \A d \in Own(g) : fat'[d] = fat[d]
        /\ fat' # fat
    BY <1>0, <1>1, <1>2, <1>3, <1>5, <1>7, ReleasedApart
  <1>9. [Volume!Next]_Volume!vars BY <1>2, <1>8 DEF Volume!Next
  <1>10. TypeOK' BY <1>0, <1>1, <1>8 DEF TypeOK, Room
  <1>11. OpOK' BY <1>1 DEF OpOK
  <1>12. \A g \in Files : g # f => LeftAlone(g) BY <1>1, <1>8 DEF LeftAlone
  <1>13. HandleOK(f)' BY <1>1, <1>2 DEF HandleOK
  <1>14. ~Settled(f)' BY <1>1, <1>2 DEF Settled, Exists
  <1>15. \A g \in Files : g # f /\ Settled(g)' => Settled(g)
    BY <1>1, <1>c DEF Settled, Exists
  <1>16. SettledOK' /\ \A g \in Files : HandleOK(g)'
    BY <1>12, <1>13, <1>14, <1>15, OthersOK
  <1> QED BY <1>8, <1>9, <1>10, <1>11, <1>16, <1>12, <1>c DEF IndInv, OthersAlone

\* fl_remove frees the chain,
LEMMA RemoveOK ==
    ASSUME IndInv, NEW f \in Files, Remove(f)
    PROVE  IndInv' /\ [Volume!Next]_Volume!vars /\ OthersAlone(f)
  <1>0. TypeOK /\ Apart /\ HandleOK(f) BY DEF IndInv
  <1>1. /\ op = Idle /\ Exists(f) /\ ~handle[f].open /\ card' = fat
        /\ fat' = FreeChain(fat, dir[f].start)
        /\ owner' = [c \in Clusters |-> IF fat'[c] = Free THEN None ELSE owner[c]]
        /\ op' = [name |-> "remove", file |-> f]
        /\ UNCHANGED <<cached, dir, data, handle, kept>>
    BY DEF Remove
  <1>2. First(f) = dir[f].start BY <1>1 DEF First, FirstOf, Idle
  <1>3. First(f) # None BY <1>0, <1>1, <1>2 DEF TypeOK, Exists
  <1>4. op'.name = "remove" /\ op'.file = f BY <1>1
  <1>5. First(f)' = None /\ \A g \in Files : g # f => First(g)' = First(g)
    BY <1>1, <1>4 DEF First, FirstOf, Idle
  <1>6. owner' = [c \in Clusters |-> IF c \in ChainOf(fat, First(f)) THEN None ELSE owner[c]]
    <2>1. \A c \in Clusters : fat'[c] = IF c \in ChainOf(fat, First(f)) THEN Free ELSE fat[c]
      BY <1>1, <1>2 DEF FreeChain
    <2>2. \A c \in Clusters : fat[c] = Free => owner[c] = None BY <1>0 DEF Apart, FreeIsUnowned
    <2>3. \A c \in Clusters : (IF fat'[c] = Free THEN None ELSE owner[c])
                                  = IF c \in ChainOf(fat, First(f)) THEN None ELSE owner[c]
      BY <2>1, <2>2
    <2> QED BY <1>1, <2>3
  <1>7. fat' = FreeChain(fat, First(f)) BY <1>1, <1>2
  <1>8. /\ Apart' /\ Volume!Release(f)
        /\ fat' \in [Clusters -> Links] /\ owner' \in [Clusters -> Files \union {None}]
        /\ \A g \in Files : g # f =>
              Own(g)' = Own(g) /\ \A d \in Own(g) : fat'[d] = fat[d]
        /\ fat' # fat
    BY <1>0, <1>3, <1>5, <1>6, <1>7, ReleasedApart
  <1>9. [Volume!Next]_Volume!vars BY <1>8 DEF Volume!Next
  <1>10. TypeOK' BY <1>0, <1>1, <1>8 DEF TypeOK, Room
  <1>11. handle[f] = Shut BY <1>0, <1>1, NotOpen
  <1>12. OpOK' BY <1>1, <1>4, <1>11 DEF OpOK, Exists
  <1>13. \A g \in Files : g # f => LeftAlone(g) BY <1>1, <1>8 DEF LeftAlone
  <1>14. HandleOK(f)' BY <1>1, <1>11 DEF HandleOK
  <1>15. ~Settled(f)' BY <1>1, <1>4 DEF Settled, Idle
  <1>16. \A g \in Files : g # f /\ Settled(g)' => Settled(g) BY <1>1 DEF Settled, Exists
  <1>17. SettledOK' /\ \A g \in Files : HandleOK(g)'
    BY <1>13, <1>14, <1>15, <1>16, OthersOK
  <1> QED BY <1>8, <1>9, <1>10, <1>12, <1>17, <1>13 DEF IndInv, OthersAlone

\* and marks the entry deleted.
LEMMA MarkDeletedOK ==
    ASSUME IndInv, MarkDeleted
    PROVE  IndInv' /\ [Volume!Next]_Volume!vars /\ OthersAlone(op.file)
  <1>0. TypeOK /\ Apart /\ OpOK BY DEF IndInv
  <1>a. op.name = "remove" BY DEF MarkDeleted
  <1>b. op.file \in Files BY <1>0, <1>a DEF OpOK, Idle
  <1>c. PICK f \in Files : f = op.file BY <1>b
  <1>1. /\ op.name = "remove" /\ dir' = [dir EXCEPT ![f] = NoEntry]
        /\ op' = [name |-> "purge", file |-> f]
        /\ UNCHANGED <<cached, fat, card, data, handle, owner, kept>>
    BY <1>c DEF MarkDeleted
  <1>2. f \in Files /\ handle[f] = Shut BY <1>0, <1>1, <1>c DEF OpOK, Idle
  <1>3. op'.name = "purge" /\ op'.file = f BY <1>1
  <1>4. First(f) = None BY <1>1, <1>c DEF First, FirstOf
  <1>5. \A g \in Files : g # f => First(g) = dir[g].start BY <1>1, <1>c DEF First, FirstOf
  <1>6. \A g \in Files : First(g)' = dir'[g].start BY <1>3 DEF First, FirstOf
  <1>7. dir'[f] = NoEntry /\ \A g \in Files : g # f => dir'[g] = dir[g]
    BY <1>0, <1>1, <1>2 DEF TypeOK
  <1>8. \A g \in Files : First(g)' = First(g) BY <1>4, <1>5, <1>6, <1>7 DEF NoEntry
  <1>9. Apart' /\ [Volume!Next]_Volume!vars BY <1>0, <1>1, <1>8, ApartSame
  <1>10. TypeOK'
    <2>1. dir' \in [Files -> Entries] BY <1>0, <1>1, <1>2 DEF TypeOK, Entries, NoEntry
    <2>2. \A g \in Files : 0 <= Room(g) BY FilesAssumption DEF Room
    <2>3. \A g \in Files : dir'[g].len <= Room(g) /\ (dir'[g].start = None => dir'[g] = NoEntry)
      BY <1>0, <1>7, <2>2 DEF TypeOK, NoEntry
    <2> QED BY <1>0, <1>1, <2>1, <2>3 DEF TypeOK, Room
  <1>11. OpOK' BY <1>1, <1>2, <1>3 DEF OpOK
  <1>12. \A g \in Files : g # f => LeftAlone(g) BY <1>1, <1>7 DEF LeftAlone, Own
  <1>13. HandleOK(f)' BY <1>1, <1>2 DEF HandleOK
  <1>14. ~Settled(f)' BY <1>7 DEF Settled, Exists
  <1>15. \A g \in Files : g # f /\ Settled(g)' => Settled(g)
    BY <1>1, <1>7, <1>c DEF Settled, Exists
  <1>16. SettledOK' /\ \A g \in Files : HandleOK(g)'
    BY <1>12, <1>13, <1>14, <1>15, OthersOK
  <1> QED BY <1>9, <1>10, <1>11, <1>16, <1>12, <1>c DEF IndInv, OthersAlone

(***************************************************************************)
(* The card                                                                *)
(***************************************************************************)
LEMMA WriteBackOK ==
    ASSUME IndInv, NEW s, WriteBack(s)
    PROVE  IndInv' /\ [Volume!Next]_Volume!vars /\ \A g \in Files : LeftAlone(g)
  <1>0. TypeOK /\ Apart /\ OpOK BY DEF IndInv
  <1>1. /\ card' = [c \in Clusters |-> IF SectorOf(c) = s THEN fat[c] ELSE card[c]]
        /\ UNCHANGED <<cached, fat, dir, data, handle, op, owner, kept>>
    BY DEF WriteBack, ghosts
  <1>2. \A g \in Files : First(g)' = First(g) BY <1>1 DEF First, FirstOf
  <1>3. Apart' /\ [Volume!Next]_Volume!vars BY <1>0, <1>1, <1>2, ApartSame
  <1>4. TypeOK' BY <1>0, <1>1 DEF TypeOK, Room
  <1>5. OpOK' BY <1>0, <1>1 DEF OpOK
  <1>6. \A g \in Files : LeftAlone(g) BY <1>1 DEF LeftAlone, Own
  <1>7. \A g \in Files : Settled(g)' => Settled(g) BY <1>1 DEF Settled, Exists
  <1>8. None \notin Files BY VolumeAssumption DEF Volume!VolumeConstants
  <1>9. SettledOK' /\ \A g \in Files : HandleOK(g)' BY <1>6, <1>7, <1>8, OthersOK
  <1> QED BY <1>3, <1>4, <1>5, <1>6, <1>9 DEF IndInv

\* The FAT's sectors are written back.
LEMMA PurgeOK ==
    ASSUME IndInv, Purge
    PROVE  IndInv' /\ [Volume!Next]_Volume!vars /\ OthersAlone(op.file)
  <1>0. TypeOK /\ Apart /\ OpOK BY DEF IndInv
  <1>a. op.name = "purge" BY DEF Purge
  <1>b. op.file \in Files BY <1>0, <1>a DEF OpOK, Idle
  <1>c. PICK f \in Files : f = op.file BY <1>b
  <1>1. /\ op.name = "purge" /\ op' = Idle /\ card' = fat
        /\ kept' = [kept EXCEPT ![f] = Stored(fat, f)]
        /\ UNCHANGED <<cached, fat, dir, data, handle, owner>>
    BY <1>c DEF Purge
  <1>2. f \in Files OBVIOUS
  <1>3. \A g \in Files : First(g)' = First(g) BY <1>1 DEF First, FirstOf, Idle
  <1>4. Apart' /\ [Volume!Next]_Volume!vars BY <1>0, <1>1, <1>3, ApartSame
  <1>5. kept'[f] = Stored(fat, f) /\ DOMAIN kept' = Files
        /\ \A g \in Files : g # f => kept'[g] = kept[g]
    BY <1>0, <1>1, <1>2 DEF TypeOK
  <1>6. TypeOK' BY <1>0, <1>1, <1>5 DEF TypeOK, Room
  <1>7. OpOK' BY <1>1 DEF OpOK
  <1>8. \A g \in Files : g # f => LeftAlone(g) BY <1>1, <1>5 DEF LeftAlone, Own
  <1>9. HandleOK(f)'
    <2>1. HandleOK(f) BY <1>2 DEF IndInv
    <2> QED BY <1>1, <2>1 DEF HandleOK, IsHandle, HandlesLike, Room, Own, Top
  <1>10. SettledSo(f)'
    <2>1. Stored(fat, f)' = Stored(fat, f) BY <1>1 DEF Stored, Unit
    <2> QED BY <1>1, <1>5, <2>1 DEF SettledSo
  <1>11. \A g \in Files : g # f /\ Settled(g)' => Settled(g)
    BY <1>1, <1>c DEF Settled, Exists
  <1>12. SettledOK' /\ \A g \in Files : HandleOK(g)'
    BY <1>8, <1>9, <1>10, <1>11, OthersOK
  <1> QED BY <1>4, <1>6, <1>7, <1>12, <1>8, <1>c DEF IndInv, OthersAlone

(***************************************************************************)
(* The results                                                             *)
(***************************************************************************)
LEMMA NextOK == ASSUME IndInv, [Next]_vars PROVE IndInv' /\ [Volume!Next]_Volume!vars
  <1>1. CASE UNCHANGED vars
    <2>1. UNCHANGED <<cached, fat, hint, card, dir, data, handle, op, owner, content, kept>>
      BY <1>1 DEF vars
    <2>2. \A g \in Files : First(g)' = First(g) BY <2>1 DEF First, FirstOf
    <2>3. Apart' /\ [Volume!Next]_Volume!vars BY <2>1, <2>2, ApartSame DEF IndInv
    <2>4. TypeOK' /\ OpOK' BY <2>1 DEF IndInv, TypeOK, OpOK, Room
    <2>5. \A g \in Files : LeftAlone(g) BY <2>1 DEF LeftAlone, Own
    <2>6. \A g \in Files : Settled(g)' => Settled(g) BY <2>1 DEF Settled, Exists
    <2>7. None \notin Files BY VolumeAssumption DEF Volume!VolumeConstants
    <2>8. SettledOK' /\ \A g \in Files : HandleOK(g)' BY <2>5, <2>6, <2>7, OthersOK
    <2> QED BY <2>3, <2>4, <2>8 DEF IndInv
  <1>2. ASSUME NEW f \in Files, NEW mode, Open(f, mode) \/ Create(f, mode)
        PROVE  IndInv' /\ [Volume!Next]_Volume!vars
    BY <1>2, OpenOK, CreateOK
  <1>3. CASE AddEntry \/ EntryFails \/ Purge \/ MarkDeleted
    BY <1>3, AddEntryOK, EntryFailsOK, PurgeOK, MarkDeletedOK
  <1>4. ASSUME NEW s \in 0 .. SectorOf(LastCluster), WriteBack(s)
        PROVE  IndInv' /\ [Volume!Next]_Volume!vars
    BY <1>4, WriteBackOK
  <1>5. ASSUME NEW f \in Files, NEW left \in Lengths, NEW v \in Values, Write(f, left, v)
        PROVE  IndInv' /\ [Volume!Next]_Volume!vars
    BY <1>5, WriteOK, FilesAssumption
  <1>6. ASSUME NEW f \in Seekers, NEW left \in Lengths, Read(f, left)
        PROVE  IndInv' /\ [Volume!Next]_Volume!vars
    BY <1>6, ReadOK, FilesAssumption
  <1>7. ASSUME NEW f \in Seekers, NEW pos \in Positions, Seek(f, pos)
        PROVE  IndInv' /\ [Volume!Next]_Volume!vars
    BY <1>7, SeekOK, FilesAssumption
  <1>8. ASSUME NEW f \in Files, Flush(f) \/ Close(f) \/ Remove(f)
        PROVE  IndInv' /\ [Volume!Next]_Volume!vars
    BY <1>8, FlushOK, CloseOK, RemoveOK
  <1> QED BY <1>1, <1>2, <1>3, <1>4, <1>5, <1>6, <1>7, <1>8 DEF Next

\* An empty card is as the invariant and FatVolume have it.
LEMMA InitOK == ASSUME Init PROVE IndInv /\ Volume!Init
  <1>1. /\ cached \in BOOLEAN /\ fat = [c \in Clusters |-> Free] /\ card = fat
        /\ dir = [f \in Files |-> NoEntry] /\ DOMAIN data = Clusters
        /\ handle = [f \in Files |-> Shut] /\ op = Idle
        /\ owner = [c \in Clusters |-> None] /\ DOMAIN kept = Files
    BY DEF Init
  <1>2. \A f \in Files : First(f) = None BY <1>1 DEF First, FirstOf, Idle, NoEntry
  <1>3. TypeOK
    <2>1. \A f \in Files : 0 <= Room(f) BY FilesAssumption DEF Room
    <2>2. dir \in [Files -> Entries] BY <1>1 DEF Entries, NoEntry
    <2>3. \A f \in Files : dir[f].len <= Room(f) /\ (dir[f].start = None => dir[f] = NoEntry)
      BY <1>1, <2>1 DEF NoEntry
    <2> QED BY <1>1, <2>2, <2>3 DEF TypeOK, Links
  <1>4. Apart
    BY <1>1, <1>2, Marks
    DEF Apart, FreeIsUnowned, LinksStayInFile, LinksApart, FirstIsOwned, FirstIsUnlinked
  <1>5. OpOK BY <1>1 DEF OpOK
  <1>6. SettledOK BY <1>1 DEF SettledOK, Settled, Exists
  <1>7. \A f \in Files : HandleOK(f) BY <1>1 DEF HandleOK
  <1>8. [f \in Files |-> FirstOf(f)] = [f \in Files |-> None] BY <1>2 DEF First
  <1>9. Volume!Init BY <1>1, <1>8 DEF Volume!Init
  <1> QED BY <1>3, <1>4, <1>5, <1>6, <1>7, <1>9 DEF IndInv

\* The invariant holds for good.
LEMMA Invariance == Spec => []IndInv
  <1>1. Init => IndInv BY InitOK
  <1>2. IndInv /\ [Next]_vars => IndInv' BY NextOK
  <1> QED BY <1>1, <1>2, PTL DEF Spec

\* Whatever the calls, and with either way of finding a cluster, the library
\* takes, links and frees clusters as FatVolume allows.
THEOREM LibraryKeepsVolume == Spec => ImplementsFatVolume
  <1>1. Init => Volume!Init BY InitOK
  <1>2. IndInv /\ [Next]_vars => [Volume!Next]_Volume!vars BY NextOK
  <1> QED BY <1>1, <1>2, Invariance, PTL DEF Spec, ImplementsFatVolume, Volume!Spec

\* No two files have a cluster in common, and none leads into a free one.
THEOREM FilesNeverMeet == Spec => []ChainsDisjoint
  <1>1. IndInv => ChainsDisjoint BY ApartIsDisjoint DEF IndInv
  <1> QED BY <1>1, Invariance, PTL

\* A reset at any moment finds every closed file on the card as it was closed.
THEOREM ClosedFilesSurvive == Spec => []ClosedSurvives
  <1>1. ASSUME IndInv PROVE ClosedSurvives
    <2> SUFFICES ASSUME NEW f \in Files, Settled(f) PROVE Stored(card, f) = kept[f]
      BY DEF ClosedSurvives
    <2>1. TypeOK /\ Apart /\ SettledSo(f) BY <1>1 DEF IndInv, SettledOK, SettledSo
    <2> QED BY <2>1, SettledIsKept
  <1>2. IndInv => ClosedSurvives BY <1>1
  <1> QED BY <1>2, Invariance, PTL

(***************************************************************************)
(* What is read back.  Without the cluster cache, what an open file holds  *)
(* is in the buffer of its handle or along its chain, where a walk finds   *)
(* it; a chain that a write prolongs is not changed as far as it went.     *)
(***************************************************************************)
FullSectors == [1 .. SectorSize -> Nat]

\* The cluster that holds sector i of the file, in its chain.
PlaceAt(w, i) == Follow(w.fat, w.h.start, i)

\* The cluster looked up last is where the chain has it.
AtOK(w) == w.h.at.idx \in Nat => w.h.at.cluster = PlaceAt(w, w.h.at.idx)

\* A buffer that is to be written has a cluster before it.
Reached(w, idx) == idx = 0 \/ PlaceAt(w, idx - 1) \in Clusters
Reach(w) == w.h.dirty => Reached(w, w.h.addr)

OnCard(w, s, p) ==
    LET c == PlaceAt(w, p \div SectorSize)
    IN  c \in Clusters /\ w.data[c][(p % SectorSize) + 1] = s[p + 1]

\* Unit p is in the buffer when the buffer is of its sector, and on the card
\* unless it is in a buffer that is still to be written.
Holds(w, s, p) ==
    /\ w.h.addr = p \div SectorSize => w.h.buf[(p % SectorSize) + 1] = s[p + 1]
    /\ ~(w.h.dirty /\ w.h.addr = p \div SectorSize) => OnCard(w, s, p)

\* An open file as the library has it is s.
Carries(w, s) ==
    /\ AtOK(w) /\ Reach(w)
    /\ \A p \in Nat : p < Len(s) => Holds(w, s, p)

\* No chain leads to the file's first cluster or to a blank one, and no two
\* links lead to one.
Straight(t, first) ==
    /\ \A c \in Clusters : t[c] # first
    /\ \A c \in Clusters : t[c] \in Clusters => t[t[c]] # Free
    /\ \A c, d \in Clusters : t[c] \in Clusters /\ c # d => t[c] # t[d]

\* The chain from first is in u what it is in t, and may go on.
Prolongs(t, u, first) ==
    \A i \in Nat : Follow(t, first, i) \in Clusters => Follow(u, first, i) = Follow(t, first, i)

\* Two prolongations are one.
LEMMA ProlongsTwice ==
    ASSUME NEW t, NEW u, NEW v, NEW first, Prolongs(t, u, first), Prolongs(u, v, first)
    PROVE  Prolongs(t, v, first)
  BY DEF Prolongs

\* Behind its end a chain has nothing.
LEMMA EndStays ==
    ASSUME NEW t, NEW first, NEW k \in Nat, Follow(t, first, k) \notin Clusters
    PROVE  \A i \in Nat : i > k => Follow(t, first, i) = Last
  <1> DEFINE N == {m \in Nat : Follow(t, first, k + (m + 1)) = Last}
  <1>1. 0 \in N
    <2>1. Follow(t, first, k + 1) = Link(t, Follow(t, first, k)) BY FollowNext
    <2>2. k + (0 + 1) = k + 1 OBVIOUS
    <2> QED BY <2>1, <2>2 DEF Link
  <1>2. ASSUME NEW m \in N PROVE m + 1 \in N
    <2> DEFINE j == k + (m + 1)
    <2>1. m \in Nat /\ Follow(t, first, j) = Last OBVIOUS
    <2>2. j \in Nat /\ k + ((m + 1) + 1) = j + 1 BY <2>1
    <2>3. Follow(t, first, j + 1) = Link(t, Follow(t, first, j)) BY <2>2, FollowNext
    <2> HIDE DEF j
    <2>4. Follow(t, first, k + ((m + 1) + 1)) = Last BY <2>1, <2>2, <2>3, Marks DEF Link
    <2> QED BY <2>1, <2>4
  <1>3. N = Nat
    <2>1. N \in SUBSET Nat OBVIOUS
    <2> HIDE DEF N
    <2> QED BY <1>1, <1>2, <2>1, Induction
  <1>4. ASSUME NEW i \in Nat, i > k PROVE Follow(t, first, i) = Last
    <2> DEFINE m == i - (k + 1)
    <2>1. m \in Nat /\ k + (m + 1) = i BY <1>4
    <2> HIDE DEF m
    <2>2. m \in N BY <1>3, <2>1
    <2> QED BY <2>1, <2>2
  <1> QED BY <1>4

\* A blank cluster linked behind the last one prolongs the chain by one.
LEMMA TailGrows ==
    ASSUME NEW t \in [Clusters -> Links], NEW first, NEW k \in Nat, NEW tail \in Clusters,
           tail = Follow(t, first, k), t[tail] = Last, NEW new \in Clusters, t[new] = Free
    PROVE  LET u == [t EXCEPT ![tail] = new, ![new] = Last]
           IN  /\ Prolongs(t, u, first) /\ Follow(u, first, k + 1) = new /\ u[new] = Last
  <1> DEFINE u == [t EXCEPT ![tail] = new, ![new] = Last]
             N == {i \in Nat : Follow(t, first, i) \in Clusters => Follow(u, first, i) = Follow(t, first, i)}
  <1>1. tail # new BY Marks
  <1>2. /\ u[tail] = new /\ u[new] = Last
        /\ \A c \in Clusters : c # tail /\ c # new => u[c] = t[c]
    BY <1>1
  <1> HIDE DEF u
  <1>3. 0 \in N BY FollowFirst
  <1>4. ASSUME NEW i \in N PROVE i + 1 \in N
    <2> SUFFICES ASSUME Follow(t, first, i + 1) \in Clusters
                 PROVE  Follow(u, first, i + 1) = Follow(t, first, i + 1)
      OBVIOUS
    <2> DEFINE c == Follow(t, first, i)
    <2>1. i \in Nat /\ (c \in Clusters => Follow(u, first, i) = c) OBVIOUS
    <2>2. Follow(t, first, i + 1) = Link(t, c) /\ Follow(u, first, i + 1) = Link(u, Follow(u, first, i))
      BY FollowNext
    <2> HIDE DEF c, N
    <2>3. c \in Clusters /\ t[c] \in Clusters BY <2>2, Marks DEF Link
    <2>4. c # tail /\ c # new BY <2>3, Marks
    <2> QED BY <1>2, <2>1, <2>2, <2>3, <2>4 DEF Link
  <1>5. N = Nat
    <2>1. N \in SUBSET Nat OBVIOUS
    <2> HIDE DEF N
    <2> QED BY <1>3, <1>4, <2>1, Induction
  <1>6. Prolongs(t, u, first) BY <1>5 DEF Prolongs
  <1>7. Follow(u, first, k + 1) = new
    <2>1. Follow(u, first, k) = tail BY <1>6 DEF Prolongs
    <2>2. Follow(u, first, k + 1) = Link(u, Follow(u, first, k)) BY FollowNext
    <2> QED BY <1>2, <2>1, <2>2 DEF Link
  <1> QED BY <1>2, <1>6, <1>7 DEF u

\* Clusters that are linked by a call leave the file's chain straight.
LEMMA StraightOn ==
    ASSUME NEW t, NEW u, NEW S, NEW T, NEW first \in S, AreLinked(t, S), Relinks(t, u, S, T),
           Straight(t, first)
    PROVE  Straight(u, first)
  <1>1. PICK C \in SUBSET S, N \in SUBSET Clusters :
            /\ T = S \union N
            /\ \A d \in N : t[d] = Free
            /\ \E link \in [N \union C -> N \union {Last}] :
                /\ \A c \in C : link[c] # Last
                /\ \A d, e \in N \union C : d # e /\ link[d] # Last => link[d] # link[e]
                /\ u = [d \in Clusters |-> IF d \in N \union C THEN link[d] ELSE t[d]]
    BY Zenon DEF Relinks
  <1>2. PICK link \in [N \union C -> N \union {Last}] :
            /\ \A c \in C : link[c] # Last
            /\ \A d, e \in N \union C : d # e /\ link[d] # Last => link[d] # link[e]
            /\ u = [d \in Clusters |-> IF d \in N \union C THEN link[d] ELSE t[d]]
    BY <1>1
  <1>3. \A d \in Clusters : u[d] = IF d \in N \union C THEN link[d] ELSE t[d] BY <1>2
  <1>4. S \in SUBSET Clusters /\ first \in Clusters BY DEF AreLinked
  <1>5. \A d \in N \union C : d \in Clusters /\ link[d] \in N \union {Last} BY <1>1, <1>2, <1>4
  <1>6. \A c \in S : t[c] # Free BY LinkedNotFree
  <1>7. first \notin N BY <1>1, <1>6
  <1>8. \A d \in Clusters : t[d] \in Clusters => t[d] \notin N BY <1>1 DEF Straight
  <1>9. \A c \in Clusters : u[c] # first
    <2> SUFFICES ASSUME NEW c \in Clusters PROVE u[c] # first OBVIOUS
    <2>1. CASE c \in N \union C BY <1>3, <1>4, <1>5, <1>7, <2>1, Marks
    <2>2. CASE c \notin N \union C BY <1>3, <2>2 DEF Straight
    <2> QED BY <2>1, <2>2
  <1>10. \A c \in Clusters : u[c] \in Clusters => u[u[c]] # Free
    <2> SUFFICES ASSUME NEW c \in Clusters, u[c] \in Clusters PROVE u[u[c]] # Free OBVIOUS
    <2>1. CASE c \in N \union C
      <3>1. u[c] \in N BY <1>3, <1>5, <2>1, Marks
      <3> QED BY <1>3, <1>5, <3>1, Marks
    <2>2. CASE c \notin N \union C
      <3>1. u[c] = t[c] /\ t[t[c]] # Free BY <1>3, <2>2 DEF Straight
      <3>2. u[u[c]] = IF u[c] \in N \union C THEN link[u[c]] ELSE t[u[c]] BY <1>3
      <3> QED BY <1>5, <3>1, <3>2, Marks
    <2> QED BY <2>1, <2>2
  <1>11. ASSUME NEW c \in Clusters, NEW d \in Clusters, u[c] \in Clusters, c # d
         PROVE  u[c] # u[d]
    <2>1. CASE c \in N \union C /\ d \in N \union C BY <1>2, <1>3, <1>11, <2>1, Marks
    <2>2. CASE c \in N \union C /\ d \notin N \union C BY <1>3, <1>5, <1>8, <1>11, <2>2, Marks
    <2>3. CASE c \notin N \union C /\ d \in N \union C BY <1>3, <1>5, <1>8, <1>11, <2>3, Marks
    <2>4. CASE c \notin N \union C /\ d \notin N \union C
      BY <1>3, <1>11, <2>4 DEF Straight
    <2> QED BY <2>1, <2>2, <2>3, <2>4
  <1> QED BY <1>9, <1>10, <1>11 DEF Straight

\* Two sectors of a file are in two clusters.
LEMMA PlacesDiffer ==
    ASSUME NEW t, NEW first \in Clusters, Straight(t, first), NEW i \in Nat, NEW j \in Nat, i # j,
           Follow(t, first, i) \in Clusters
    PROVE  Follow(t, first, i) # Follow(t, first, j)
  <1>1. \A a, b \in Nat : a < b /\ Follow(t, first, a) \in Clusters =>
            Follow(t, first, b) # Follow(t, first, a)
    BY NeverAgain DEF Straight
  <1>2. i < j \/ j < i OBVIOUS
  <1> QED BY <1>1, <1>2

\* What is so when i clusters have been linked behind place k, the end.
AddedOn(w, k, s, i) ==
    LET first == w.h.start
        t == s.w.fat
    IN  /\ Prolongs(w.fat, t, first)
        /\ s.ok => s.tail \in Clusters /\ s.tail = Follow(t, first, k + i) /\ t[s.tail] = Last
        /\ s.ok /\ i >= 1 => s.first \in Clusters /\ s.first = Follow(t, first, k + 1)

\* One cluster more,
LEMMA OneMoreOn ==
    ASSUME NEW w, NEW S, IsLibrary(w, S), NEW i \in Nat, NEW k \in Nat, NEW s,
           AddedOK(w, S, s, i), AddedOn(w, k, s, i)
    PROVE  AddedOn(w, k, OneMore(s, i + 1), i + 1)
  <1> DEFINE new == FindBlank(s.w.fat, s.w.hint)
             first == w.h.start
             t == s.w.fat
  <1>1. PICK T : Relinks(w.fat, s.w.fat, S, T) /\ IsLibrary(s.w, T) BY DEF AddedOK
  <1>2. t \in [Clusters -> Links] BY <1>1, LibraryLinked DEF AreLinked
  <1>a. /\ Prolongs(w.fat, t, first)
        /\ s.ok => s.tail \in Clusters /\ s.tail = Follow(t, first, k + i) /\ t[s.tail] = Last
        /\ s.ok /\ i >= 1 => s.first \in Clusters /\ s.first = Follow(t, first, k + 1)
    BY DEF AddedOn
  <1>3. CASE ~s.ok \/ new = None
    <2> DEFINE r == [s EXCEPT !.ok = FALSE]
    <2>1. OneMore(s, i + 1) = r BY <1>3, Zenon DEF OneMore
    <2>2. r.w = s.w /\ r.ok = FALSE BY Zenon DEF IsAdded, AddedOK
    <2> HIDE DEF r
    <2> QED BY <1>a, <2>1, <2>2 DEF AddedOn
  <1>4. CASE ~(~s.ok \/ new = None)
    <2> DEFINE u == [s.w.fat EXCEPT ![s.tail] = new, ![new] = Last]
               at == IF i + 1 = 1 THEN new ELSE s.w.hint
               one == IF i + 1 = 1 THEN new ELSE s.first
               v == [fat |-> u, hint |-> at, data |-> s.w.data, h |-> s.w.h]
               r == [w |-> v, tail |-> new, ok |-> TRUE, first |-> one]
    <2>1. OneMore(s, i + 1) = r BY <1>4, Zenon DEF OneMore
    <2>2. new \in Clusters /\ t[new] = Free BY <1>4, FindBlankType
    <2>3. s.ok /\ s.tail \in Clusters /\ s.tail = Follow(t, first, k + i) /\ t[s.tail] = Last
      BY <1>a, <1>4
    <2>4. k + i \in Nat OBVIOUS
    <2> HIDE DEF new
    <2>5. Prolongs(t, u, first) /\ Follow(u, first, (k + i) + 1) = new /\ u[new] = Last
      BY <1>2, <2>2, <2>3, <2>4, TailGrows
    <2> HIDE DEF u, t, first
    <2>6. r.w.fat = u /\ r.tail = new /\ r.ok = TRUE /\ r.first = one OBVIOUS
    <2> HIDE DEF r
    <2>7. Prolongs(w.fat, u, first) BY <1>a, <2>5, ProlongsTwice
    <2>8. (k + i) + 1 = k + (i + 1) OBVIOUS
    <2>9. one \in Clusters /\ one = Follow(u, first, k + 1)
      <3>1. CASE i = 0
        <4>1. one = new /\ (k + i) + 1 = k + 1 BY <3>1
        <4> QED BY <2>2, <2>5, <4>1
      <3>2. CASE i # 0
        <4>1. one = s.first /\ i >= 1 BY <3>2
        <4>2. s.first \in Clusters /\ s.first = Follow(t, first, k + 1) BY <1>a, <2>3, <4>1
        <4>3. Follow(u, first, k + 1) = Follow(t, first, k + 1)
          <5>1. k + 1 \in Nat OBVIOUS
          <5> QED BY <2>5, <4>2, <5>1 DEF Prolongs
        <4> QED BY <4>1, <4>2, <4>3
      <3> QED BY <3>1, <3>2
    <2> HIDE DEF one
    <2>10. AddedOn(w, k, r, i + 1)
      BY <2>2, <2>5, <2>6, <2>7, <2>8, <2>9 DEF AddedOn, first
    <2> QED BY <2>1, <2>10
  <1> QED BY <1>3, <1>4

\* and so any number.
LEMMA AddFreeSpaceOn ==
    ASSUME NEW w, NEW S, IsLibrary(w, S), NEW c \in S, NEW n \in Nat, NEW k \in Nat,
           c = PlaceAt(w, k), w.fat[c] = Last
    PROVE  AddedOn(w, k, AddFreeSpace(w, c, n), n)
  <1> DEFINE g == CHOOSE h : IsAdding(w, c, n, h)
  <1>1. IsAdding(w, c, n, g) BY AddingExists
  <1>2. AddFreeSpace(w, c, n) = g[n] BY DEF AddFreeSpace, IsAdding, Added, OneMore
  <1> HIDE DEF g
  <1>3. \A i \in 0 .. n : g[i] = Added(w, c, g, i) BY <1>1 DEF IsAdding
  <1> DEFINE Q(s, i) == AddedOK(w, S, s, i) /\ AddedOn(w, k, s, i)
             N == {i \in Nat : i <= n => Q(g[i], i)}
  <1>4. 0 \in N
    <2> DEFINE s == [w |-> w, tail |-> c, first |-> None, ok |-> TRUE]
    <2>0. 0 \in 0 .. n OBVIOUS
    <2>1. g[0] = s BY <1>3, <2>0, Zenon DEF Added
    <2>2. Relinks(w.fat, w.fat, S, S) BY LibraryLinked, RelinksNothing
    <2>3. IsAdded(s) /\ s.w = w /\ s.tail = c BY Zenon DEF IsAdded
    <2> HIDE DEF s
    <2>4. AddedOK(w, S, s, 0) BY <2>2, <2>3 DEF AddedOK
    <2>5. k + 0 = k /\ ~(0 >= 1) OBVIOUS
    <2>6. c \in Clusters BY LibraryLinked DEF AreLinked
    <2>7. AddedOn(w, k, s, 0) BY <2>3, <2>5, <2>6 DEF AddedOn, Prolongs, PlaceAt
    <2> QED BY <2>1, <2>4, <2>7
  <1>5. ASSUME NEW i \in N PROVE i + 1 \in N
    <2> SUFFICES ASSUME i + 1 <= n PROVE Q(g[i + 1], i + 1) OBVIOUS
    <2>1. i \in Nat /\ Q(g[i], i) OBVIOUS
    <2> HIDE DEF N
    <2>2. i + 1 \in 0 .. n /\ i + 1 # 0 /\ (i + 1) - 1 = i BY <2>1
    <2>3. g[i + 1] = OneMore(g[i], i + 1) BY <1>3, <2>2 DEF Added
    <2> QED BY <2>1, <2>3, OneMoreOK, OneMoreOn
  <1>6. N = Nat
    <2>1. N \in SUBSET Nat OBVIOUS
    <2> HIDE DEF N
    <2> QED BY <1>4, <1>5, <2>1, Induction
  <1>7. n \in N BY <1>6
  <1> QED BY <1>2, <1>7

\* A file's places are its clusters, as far as it has some.
LEMMA PlacesOwn ==
    ASSUME NEW w, NEW S, IsLibrary(w, S), NEW i \in Nat
    PROVE  PlaceAt(w, i) \in S \union {Last} /\ w.h.start \in S /\ w.h.start = PlaceAt(w, 0)
  <1> DEFINE N == {j \in Nat : PlaceAt(w, j) \in S \union {Last}}
  <1>1. AreLinked(w.fat, S) BY LibraryLinked
  <1>2. w.h.start \in S /\ w.h.start = PlaceAt(w, 0)
    <2>1. IsHandle(w.h, S) BY DEF IsLibrary
    <2>2. w.h.start \in S BY <2>1, Zenon DEF IsHandle, HandlesLike
    <2> QED BY <2>2, FollowFirst DEF PlaceAt
  <1>3. 0 \in N BY <1>2
  <1>4. ASSUME NEW j \in N PROVE j + 1 \in N
    <2>1. j \in Nat /\ PlaceAt(w, j) \in S \union {Last} OBVIOUS
    <2>2. PlaceAt(w, j + 1) = Link(w.fat, PlaceAt(w, j)) BY <2>1, FollowNext DEF PlaceAt
    <2>3. PlaceAt(w, j + 1) \in S \union {Last} BY <1>1, <2>1, <2>2, Marks DEF AreLinked, Link
    <2> QED BY <2>1, <2>3
  <1>5. N = Nat
    <2>1. N \in SUBSET Nat OBVIOUS
    <2> HIDE DEF N
    <2> QED BY <1>3, <1>4, <2>1, Induction
  <1> QED BY <1>2, <1>5

\* Without the cache a walk leaves the handle as it is; and it is along the
\* chain, if the cluster looked up last is.
OnPath(w, writing, i, p) ==
    /\ p.h = w.h
    /\ AtOK(w) =>
          /\ p.cluster = PlaceAt(w, i)
          /\ writing /\ p.cluster = Last =>
                \E k \in Nat : /\ k < i /\ p.before = PlaceAt(w, k) /\ p.before \in Clusters
                               /\ w.fat[p.before] = Last

\* One hop,
LEMMA OneOnPath ==
    ASSUME NEW w, NEW S, IsLibrary(w, S), ~cached, NEW i \in Nat, NEW writing, NEW p,
           OnPath(w, writing, i, p)
    PROVE  OnPath(w, writing, i + 1, OneOn(w, p, writing, i))
  <1>1. AreLinked(w.fat, S) BY LibraryLinked
  <1>2. PlaceAt(w, i + 1) = Link(w.fat, PlaceAt(w, i)) BY FollowNext DEF PlaceAt
  <1>3. PlaceAt(w, i) \in S \union {Last} BY PlacesOwn
  <1>4. p.h = w.h /\ (AtOK(w) => p.cluster = PlaceAt(w, i)) BY DEF OnPath
  <1>5. CASE writing /\ p.cluster = Last
    <2>1. OneOn(w, p, writing, i) = p BY <1>5 DEF OneOn
    <2>2. ASSUME AtOK(w)
          PROVE  /\ p.cluster = PlaceAt(w, i + 1)
                 /\ \E k \in Nat : /\ k < i + 1 /\ p.before = PlaceAt(w, k) /\ p.before \in Clusters
                                   /\ w.fat[p.before] = Last
      <3>1. PlaceAt(w, i + 1) = Last BY <1>2, <1>4, <1>5, <2>2, Marks DEF Link
      <3>2. PICK k \in Nat : /\ k < i /\ p.before = PlaceAt(w, k) /\ p.before \in Clusters
                             /\ w.fat[p.before] = Last
        BY <1>5, <2>2 DEF OnPath
      <3>3. k < i + 1 BY <3>2
      <3> QED BY <1>5, <3>1, <3>2, <3>3
    <2>3. OnPath(w, writing, i + 1, p) BY <1>4, <2>2 DEF OnPath
    <2> QED BY <2>1, <2>3
  <1>6. CASE ~(writing /\ p.cluster = Last)
    <2> DEFINE next == Follow(w.fat, p.cluster, 1)
               q == [cluster |-> next, before |-> p.cluster, h |-> p.h]
    <2>1. OneOn(w, p, writing, i) = q BY <1>6 DEF OneOn, Hop
    <2>2. next = Link(w.fat, p.cluster)
      <3>1. Follow(w.fat, p.cluster, 0 + 1) = Link(w.fat, Follow(w.fat, p.cluster, 0))
        BY FollowNext
      <3> QED BY <3>1, FollowFirst
    <2>3. q.cluster = next /\ q.before = p.cluster /\ q.h = p.h OBVIOUS
    <2> HIDE DEF q, next
    <2>4. AtOK(w) => q.cluster = PlaceAt(w, i + 1) BY <1>2, <1>4, <2>2, <2>3
    <2>5. ASSUME AtOK(w), writing, q.cluster = Last
          PROVE  \E k \in Nat : /\ k < i + 1 /\ q.before = PlaceAt(w, k) /\ q.before \in Clusters
                                /\ w.fat[q.before] = Last
      <3>1. p.cluster \in S BY <1>3, <1>4, <1>6, <2>5
      <3>2. p.cluster \in Clusters /\ w.fat[p.cluster] = Last
        BY <1>1, <2>2, <2>3, <2>5, <3>1 DEF AreLinked, Link
      <3>3. i < i + 1 OBVIOUS
      <3> QED BY <1>4, <2>3, <2>5, <3>2, <3>3
    <2>6. OnPath(w, writing, i + 1, q) BY <1>4, <2>3, <2>4, <2>5 DEF OnPath
    <2> QED BY <2>1, <2>6
  <1> QED BY <1>5, <1>6

\* the whole walk, and the way without one.
LEMMA WayIs ==
    ASSUME NEW w, NEW S, IsLibrary(w, S), ~cached, NEW idx \in Nat, NEW writing
    PROVE  OnPath(w, writing, idx, WayTo(w, idx, writing))
  <1> DEFINE from == From(w, idx)
             g == CHOOSE h : IsWalk(w, idx, writing, idx, h)
             Q(i, p) == OnPath(w, writing, i, p)
  <1>1. from \in Nat /\ from <= idx BY BeginOK
  <1>2. Last \notin S BY LibraryLinked, Marks DEF AreLinked
  <1>3. w.h.at.idx \in Nat => w.h.at.cluster \in S /\ (AtOK(w) => w.h.at.cluster = PlaceAt(w, w.h.at.idx))
    BY DEF IsLibrary, IsHandle, AtOK
  <1>4. w.h.at.idx \in Nat \union {-1} BY DEF IsLibrary, IsHandle
  <1>5. w.h.start \in S /\ w.h.start = PlaceAt(w, 0)
    <2>1. 0 \in Nat OBVIOUS
    <2> QED BY <2>1, PlacesOwn
  <1>6. CASE idx = w.h.at.idx
    <2>1. Found(w, idx).cluster = w.h.at.cluster /\ Found(w, idx).h = w.h BY DEF Found
    <2>2. WayTo(w, idx, writing) = Found(w, idx) BY <1>6 DEF WayTo
    <2> QED BY <1>2, <1>3, <1>6, <2>1, <2>2 DEF OnPath
  <1>7. CASE idx # w.h.at.idx
    <2>1. IsWalk(w, idx, writing, idx, g) BY <1>1, WalkExists
    <2>2. WayTo(w, idx, writing) = g[idx]
      BY <1>7 DEF WayTo, Walk, IsWalk, Passed, From, Near, Begin, OneOn
    <2> HIDE DEF g
    <2>3. \A i \in from .. idx : g[i] = Passed(w, idx, writing, g, i) BY <2>1 DEF IsWalk
    <2>4. Q(from, Begin(w, idx))
      <3>1. CASE Near(w, idx)
        <4>1. from = w.h.at.idx /\ w.h.at.idx \in Nat BY <1>4, <3>1 DEF Near, From
        <4>2. Begin(w, idx).cluster = w.h.at.cluster /\ Begin(w, idx).h = w.h BY <3>1 DEF Begin
        <4> QED BY <1>2, <1>3, <4>1, <4>2 DEF OnPath
      <3>2. CASE ~Near(w, idx)
        <4>1. from = 0 BY <3>2 DEF From
        <4>2. Begin(w, idx).cluster = w.h.start /\ Begin(w, idx).h = w.h BY <3>2 DEF Begin
        <4> QED BY <1>2, <1>5, <4>1, <4>2 DEF OnPath
      <3> QED BY <3>1, <3>2
    <2> DEFINE N == {m \in Nat : from + m <= idx => Q(from + m, g[from + m])}
    <2>5. 0 \in N
      <3>1. from + 0 = from /\ from \in from .. idx BY <1>1
      <3>2. g[from] = Begin(w, idx) BY <2>3, <3>1 DEF Passed
      <3> QED BY <2>4, <3>1, <3>2
    <2>6. ASSUME NEW m \in N PROVE m + 1 \in N
      <3> DEFINE i == from + m
      <3>1. from + (m + 1) = i + 1 BY <1>1
      <3> SUFFICES ASSUME i + 1 <= idx PROVE Q(i + 1, g[i + 1]) BY <3>1
      <3>2. m \in Nat /\ i \in Nat /\ from <= i /\ i <= idx BY <1>1
      <3>3. Q(i, g[i]) BY <3>2
      <3> HIDE DEF N, i
      <3>4. i + 1 \in from .. idx /\ i + 1 # from /\ (i + 1) - 1 = i BY <1>1, <3>2
      <3>5. g[i + 1] = OneOn(w, g[i], writing, i) BY <2>3, <3>4 DEF Passed
      <3> QED BY <3>2, <3>3, <3>5, OneOnPath
    <2>7. N = Nat
      <3>1. N \in SUBSET Nat OBVIOUS
      <3> HIDE DEF N
      <3> QED BY <2>5, <2>6, <3>1, Induction
    <2>8. idx - from \in N /\ from + (idx - from) = idx BY <1>1, <2>7
    <2> QED BY <1>1, <2>2, <2>8
  <1> QED BY <1>6, <1>7

\* A handle whose last cluster is c, of sector idx.
AtMoved(h, idx, c) == [h EXCEPT !.at = [idx |-> idx, cluster |-> c]]

\* The fields but for that one.
SameButAt(g, h) ==
    /\ Same(g, h) /\ g.open = h.open /\ g.buf = h.buf /\ g.addr = h.addr /\ g.dirty = h.dirty
    /\ g.changed = h.changed

\* A handle that has looked up a cluster has all but that place as before.
LEMMA AtMovedIs ==
    ASSUME NEW h, NEW S, IsHandle(h, S), NEW idx, NEW c
    PROVE  LET g == AtMoved(h, idx, c)
           IN  SameButAt(g, h) /\ g.at.idx = idx /\ g.at.cluster = c
  <1> DEFINE g == AtMoved(h, idx, c)
             a == [idx |-> idx, cluster |-> c]
  <1>1. SameButAt(g, h) BY Zenon DEF AtMoved, IsHandle, HandlesLike, SameButAt, Same
  <1>2. g.at = a BY Zenon DEF AtMoved, IsHandle, HandlesLike
  <1>3. a.idx = idx /\ a.cluster = c OBVIOUS
  <1> QED BY <1>1, <1>2, <1>3

\* What is read of a sector.
LEMMA ReadSectorIs ==
    ASSUME NEW w, NEW S, IsLibrary(w, S), ~cached, NEW idx \in 0 .. Top, Top \in Nat
    PROVE  LET r == ReadSector(w, idx)
           IN  /\ r.ok \in BOOLEAN
               /\ r.ok => \E c \in Clusters : /\ r.bytes = w.data[c] /\ r.h = AtMoved(w.h, idx, c)
                                              /\ AtOK(w) => c = PlaceAt(w, idx)
               /\ ~r.ok => /\ r.bytes = Blanks /\ r.h = w.h
                           /\ AtOK(w) => PlaceAt(w, idx) \notin Clusters
  <1> DEFINE way == WayTo(w, idx, FALSE)
             r == ReadSector(w, idx)
             there == way.cluster # Last
  <1> idx \in Nat OBVIOUS
  <1>1. OnPath(w, FALSE, idx, way) BY WayIs
  <1>2. way.h = w.h /\ (AtOK(w) => way.cluster = PlaceAt(w, idx)) BY <1>1 DEF OnPath
  <1>3. PlaceOK(w, S, FALSE, way) BY WayOK
  <1>4. way.cluster \in S \union {Last} /\ S \in SUBSET Clusters
    BY <1>3, LibraryLinked DEF PlaceOK, AreLinked
  <1>5. /\ r.h = IF there THEN AtMoved(way.h, idx, way.cluster) ELSE way.h
        /\ r.ok = there /\ r.bytes = IF there THEN w.data[way.cluster] ELSE Blanks
    BY Zenon DEF ReadSector, AtMoved
  <1> HIDE DEF way, r
  <1>6. CASE there BY <1>2, <1>4, <1>5, <1>6 DEF r
  <1>7. CASE ~there BY <1>2, <1>5, <1>7, Marks DEF r
  <1> QED BY <1>6, <1>7

\* Where a sector that is written goes: to its place, and what the chain had
\* stays in it.
WrittenTo(w, idx, bytes, r) ==
    /\ r.ok \in BOOLEAN
    /\ ~r.ok => r.w.h = w.h /\ r.w.data = w.data
    /\ r.ok => \E c \in Clusters :
                  /\ r.w.data = [w.data EXCEPT ![c] = bytes] /\ r.w.h = AtMoved(w.h, idx, c)
                  /\ AtOK(w) /\ Reached(w, idx) => c = Follow(r.w.fat, w.h.start, idx)
    /\ AtOK(w) => Prolongs(w.fat, r.w.fat, w.h.start)

\* _write_sectors writes the sector's bytes to one cluster, the one the chain has
\* for it, or it fails and leaves handle and data alone.
LEMMA WriteSectorIs ==
    ASSUME NEW w, NEW S, IsLibrary(w, S), ~cached, NEW idx \in 0 .. Top, Top \in Nat,
           NEW bytes, NEW count \in Nat \ {0}
    PROVE  WrittenTo(w, idx, bytes, WriteSector(w, idx, bytes, count))
  <1> DEFINE way == WayTo(w, idx, TRUE)
             walked == [w EXCEPT !.h = way.h]
             more == AddFreeSpace(walked, way.before, count)
             end == way.cluster = Last
             r == WriteSector(w, idx, bytes, count)
             Stores(v, c) == [w |-> [v EXCEPT !.data = [@ EXCEPT ![c] = bytes],
                                         !.h = [@ EXCEPT !.at = [idx |-> idx, cluster |-> c]]],
                              ok |-> TRUE]
  <1> idx \in Nat OBVIOUS
  <1>0. /\ ~end => r = Stores(walked, way.cluster)
        /\ end /\ more.ok => r = Stores(more.w, more.first)
        /\ end /\ ~more.ok => r = [w |-> more.w, ok |-> FALSE]
    BY Zenon DEF WriteSector
  <1>a. ASSUME NEW v, v \in LibrariesLike(v), NEW c
        PROVE  /\ Stores(v, c).ok = TRUE /\ Stores(v, c).w.fat = v.fat
               /\ Stores(v, c).w.data = [v.data EXCEPT ![c] = bytes]
               /\ Stores(v, c).w.h = AtMoved(v.h, idx, c)
    <2> DEFINE u == [v EXCEPT !.data = [@ EXCEPT ![c] = bytes],
                              !.h = [@ EXCEPT !.at = [idx |-> idx, cluster |-> c]]]
    <2>1. u.fat = v.fat /\ u.data = [v.data EXCEPT ![c] = bytes] /\ u.h = AtMoved(v.h, idx, c)
      BY <1>a, Zenon DEF LibrariesLike, AtMoved
    <2> HIDE DEF u
    <2>2. Stores(v, c).ok = TRUE /\ Stores(v, c).w = u BY DEF u
    <2> HIDE DEF Stores
    <2> QED BY <2>1, <2>2
  <1>1. OnPath(w, TRUE, idx, way) BY WayIs
  <1>2. way.h = w.h BY <1>1 DEF OnPath
  <1>3. PlaceOK(w, S, TRUE, way) BY WayOK
  <1>4. way.cluster \in S \union {Last} /\ (end => way.before \in S) /\ S \in SUBSET Clusters
    BY <1>3, LibraryLinked DEF PlaceOK, AreLinked
  <1>5. walked = w BY <1>2, Zenon DEF IsLibrary, LibrariesLike
  <1> HIDE DEF way, walked, r, Stores
  <1>6. CASE ~end
    <2>1. way.cluster \in Clusters BY <1>4, <1>6
    <2>2. w \in LibrariesLike(w) BY DEF IsLibrary
    <2>3. /\ r.ok = TRUE /\ r.w.fat = w.fat /\ r.w.data = [w.data EXCEPT ![way.cluster] = bytes]
          /\ r.w.h = AtMoved(w.h, idx, way.cluster)
      <3>1. r = Stores(w, way.cluster) BY <1>0, <1>5, <1>6
      <3>2. PICK c : c = way.cluster OBVIOUS
      <3>3. /\ Stores(w, c).ok = TRUE /\ Stores(w, c).w.fat = w.fat
            /\ Stores(w, c).w.data = [w.data EXCEPT ![c] = bytes]
            /\ Stores(w, c).w.h = AtMoved(w.h, idx, c)
        BY ONLY <1>a, <2>2, Zenon
      <3> QED BY ONLY <3>1, <3>2, <3>3
    <2>4. AtOK(w) => way.cluster = Follow(r.w.fat, w.h.start, idx)
      BY <1>1, <2>3 DEF OnPath, PlaceAt
    <2>5. Prolongs(w.fat, r.w.fat, w.h.start) BY <2>3 DEF Prolongs
    <2>6. WrittenTo(w, idx, bytes, r) BY <2>1, <2>3, <2>4, <2>5 DEF WrittenTo
    <2> QED BY <2>6 DEF r
  <1>7. CASE end
    <2>1. way.before \in S /\ count \in Nat BY <1>4, <1>7
    <2>2. AddedOK(w, S, more, count) BY <1>5, <2>1, AddFreeSpaceLinks
    <2>3. PICK T : /\ IsLibrary(more.w, T) /\ (more.ok /\ count >= 1 => more.first \in T)
      BY <2>2 DEF AddedOK
    <2>4. more.w.data = w.data /\ more.w.h = w.h /\ more.ok \in BOOLEAN
      BY <2>2, Zenon DEF AddedOK, IsAdded
    <2>5. count >= 1 /\ more.w \in LibrariesLike(more.w) /\ T \in SUBSET Clusters
      BY <2>3, LibraryLinked DEF IsLibrary, AreLinked
    <2>6. ASSUME AtOK(w) PROVE \E k \in Nat : k < idx /\ way.before = PlaceAt(w, k)
                                             /\ AddedOn(w, k, more, count)
      <3>1. PICK k \in Nat : k < idx /\ way.before = PlaceAt(w, k) /\ w.fat[way.before] = Last
        BY <1>1, <1>7, <2>6 DEF OnPath
      <3>2. AddedOn(w, k, more, count) BY <1>5, <2>1, <3>1, AddFreeSpaceOn
      <3> QED BY <3>1, <3>2
    <2> HIDE DEF more
    <2>7. AtOK(w) => Prolongs(w.fat, more.w.fat, w.h.start) BY <2>6 DEF AddedOn
    <2>8. ASSUME AtOK(w), Reached(w, idx), more.ok
          PROVE  more.first = Follow(more.w.fat, w.h.start, idx)
      <3>1. PICK k \in Nat : k < idx /\ way.before = PlaceAt(w, k) /\ AddedOn(w, k, more, count)
        BY <2>6, <2>8
      <3>2. more.first = Follow(more.w.fat, w.h.start, k + 1) BY <2>5, <2>8, <3>1 DEF AddedOn
      <3>3. k + 1 = idx
        <4>1. CASE idx - 1 > k + 1 \/ idx - 1 = k + 1
          <5>1. idx # 0 /\ idx - 1 \in Nat /\ k + 1 \in Nat BY <4>1
          <5>2. PlaceAt(w, idx - 1) \in Clusters BY <2>8, <5>1 DEF Reached
          <5>3. PlaceAt(w, k + 1) = Last
            <6>1. PlaceAt(w, k + 1) = Link(w.fat, PlaceAt(w, k)) BY FollowNext DEF PlaceAt
            <6>2. PICK j \in Nat : way.before = PlaceAt(w, j) /\ w.fat[way.before] = Last
              BY <1>1, <1>7, <2>8 DEF OnPath
            <6> QED BY <3>1, <6>1, <6>2 DEF Link
          <5>4. Follow(w.fat, w.h.start, k + 1) \notin Clusters BY <5>3, Marks DEF PlaceAt
          <5>5. PlaceAt(w, idx - 1) = Last
            <6>1. \A i \in Nat : i > k + 1 => Follow(w.fat, w.h.start, i) = Last
              BY <5>1, <5>4, EndStays
            <6> QED BY <4>1, <5>1, <5>3, <6>1 DEF PlaceAt
          <5> QED BY <5>2, <5>5, Marks
        <4>2. CASE ~(idx - 1 > k + 1 \/ idx - 1 = k + 1) BY <3>1, <4>2
        <4> QED BY <4>1, <4>2
      <3> QED BY <3>2, <3>3
    <2>9. CASE more.ok
      <3>1. more.first \in Clusters BY <2>3, <2>5, <2>9
      <3>2. /\ r.ok = TRUE /\ r.w.fat = more.w.fat
            /\ r.w.data = [w.data EXCEPT ![more.first] = bytes]
            /\ r.w.h = AtMoved(w.h, idx, more.first)
        <4>1. r = Stores(more.w, more.first) BY <1>0, <1>7, <2>9 DEF more
        <4>2. /\ r.ok = TRUE /\ r.w.fat = more.w.fat
              /\ r.w.data = [more.w.data EXCEPT ![more.first] = bytes]
              /\ r.w.h = AtMoved(more.w.h, idx, more.first)
          <5>1. PICK v, c : v = more.w /\ c = more.first OBVIOUS
          <5>2. v \in LibrariesLike(v) BY ONLY <2>5, <5>1
          <5>3. /\ Stores(v, c).ok = TRUE /\ Stores(v, c).w.fat = v.fat
                /\ Stores(v, c).w.data = [v.data EXCEPT ![c] = bytes]
                /\ Stores(v, c).w.h = AtMoved(v.h, idx, c)
            BY ONLY <1>a, <5>2, Zenon
          <5> QED BY ONLY <4>1, <5>1, <5>3
        <4> QED BY <2>4, <4>2
      <3>3. WrittenTo(w, idx, bytes, r) BY <2>7, <2>8, <2>9, <3>1, <3>2 DEF WrittenTo
      <3> QED BY <3>3 DEF r
    <2>10. CASE ~more.ok
      <3>1. r = [w |-> more.w, ok |-> FALSE] BY <1>0, <1>7, <2>10 DEF more
      <3>2. r.w = more.w /\ r.ok = FALSE BY <3>1
      <3>3. WrittenTo(w, idx, bytes, r) BY <2>4, <2>7, <3>2 DEF WrittenTo
      <3> QED BY <3>3 DEF r
    <2> QED BY <2>9, <2>10
  <1> QED BY <1>6, <1>7

\* and what that makes of the chain and its sectors.
LEMMA WriteKeeps ==
    ASSUME NEW w, NEW S, IsLibrary(w, S), Straight(w.fat, w.h.start), AtOK(w), NEW idx \in Nat,
           Reached(w, idx), NEW bytes, NEW r, WrittenTo(w, idx, bytes, r), WroteOK(w, S, r)
    PROVE  /\ r.ok \in BOOLEAN /\ SameButAt(r.w.h, w.h)
           /\ Straight(r.w.fat, r.w.h.start) /\ AtOK(r.w)
           /\ \A i \in Nat : PlaceAt(w, i) \in Clusters => PlaceAt(r.w, i) = PlaceAt(w, i)
           /\ ~r.ok => r.w.data = w.data
           /\ r.ok => /\ PlaceAt(r.w, idx) \in Clusters /\ r.w.data[PlaceAt(r.w, idx)] = bytes
                      /\ \A i \in Nat : i # idx /\ PlaceAt(w, i) \in Clusters =>
                            r.w.data[PlaceAt(w, i)] = w.data[PlaceAt(w, i)]
  <1> DEFINE first == w.h.start
             t == r.w.fat
  <1>1. IsHandle(w.h, S) /\ DOMAIN w.data = Clusters /\ AreLinked(w.fat, S) /\ S \in SUBSET Clusters
    BY DEF IsLibrary, AreLinked
  <1>2. first \in S BY PlacesOwn
  <1>3. PICK T : IsLibrary(r.w, T) /\ Relinks(w.fat, t, S, T) BY DEF WroteOK, Grows
  <1>4. /\ r.ok \in BOOLEAN /\ (~r.ok => r.w.h = w.h /\ r.w.data = w.data)
        /\ r.ok => \E c \in Clusters :
                      /\ r.w.data = [w.data EXCEPT ![c] = bytes] /\ r.w.h = AtMoved(w.h, idx, c)
                      /\ c = Follow(t, first, idx)
        /\ Prolongs(w.fat, t, first)
    BY DEF WrittenTo
  <1>5. SameButAt(r.w.h, w.h)
    <2>1. CASE r.ok
      <3>1. PICK c : r.w.h = AtMoved(w.h, idx, c) BY <1>4, <2>1
      <3> QED BY <1>1, <3>1, AtMovedIs
    <2>2. CASE ~r.ok BY <1>4, <2>2 DEF SameButAt, Same
    <2> QED BY <1>4, <2>1, <2>2
  <1>6. r.w.h.start = first BY <1>5 DEF SameButAt, Same
  <1>7. Straight(t, first) BY <1>1, <1>2, <1>3, StraightOn
  <1>8. \A i \in Nat : PlaceAt(w, i) \in Clusters => PlaceAt(r.w, i) = PlaceAt(w, i)
    BY <1>4, <1>6 DEF Prolongs, PlaceAt
  <1>9. AtOK(r.w)
    <2>1. CASE r.ok
      <3>1. PICK c : r.w.h = AtMoved(w.h, idx, c) /\ c = Follow(t, first, idx) BY <1>4, <2>1
      <3>2. r.w.h.at.idx = idx /\ r.w.h.at.cluster = c BY <1>1, <3>1, AtMovedIs
      <3> QED BY <1>6, <3>1, <3>2 DEF AtOK, PlaceAt
    <2>2. CASE ~r.ok
      <3>1. r.w.h = w.h BY <1>4, <2>2
      <3>2. w.h.at.idx \in Nat => w.h.at.cluster \in Clusters BY <1>1 DEF IsHandle
      <3> QED BY <1>8, <3>1, <3>2 DEF AtOK
    <2> QED BY <1>4, <2>1, <2>2
  <1>10. ASSUME r.ok
         PROVE  /\ PlaceAt(r.w, idx) \in Clusters /\ r.w.data[PlaceAt(r.w, idx)] = bytes
                /\ \A i \in Nat : i # idx /\ PlaceAt(w, i) \in Clusters =>
                      r.w.data[PlaceAt(w, i)] = w.data[PlaceAt(w, i)]
    <2>1. PICK c \in Clusters : r.w.data = [w.data EXCEPT ![c] = bytes] /\ c = Follow(t, first, idx)
      BY <1>4, <1>10
    <2>2. PlaceAt(r.w, idx) = c BY <1>6, <2>1 DEF PlaceAt
    <2>3. ASSUME NEW i \in Nat, i # idx, PlaceAt(w, i) \in Clusters PROVE PlaceAt(w, i) # c
      <3>1. PlaceAt(w, i) = Follow(t, first, i) BY <1>6, <1>8, <2>3 DEF PlaceAt
      <3>2. first \in Clusters /\ Follow(t, first, i) \in Clusters BY <1>1, <1>2, <2>3, <3>1
      <3>3. Follow(t, first, i) # Follow(t, first, idx) BY <1>7, <2>3, <3>2, PlacesDiffer
      <3> QED BY <2>1, <3>1, <3>3
    <2> QED BY <1>1, <2>1, <2>2, <2>3
  <1> QED BY <1>4, <1>5, <1>6, <1>7, <1>8, <1>9, <1>10

\* Sectors are full.
Full(w) == w.data \in [Clusters -> FullSectors] /\ w.h.buf \in FullSectors

\* A write leaves sectors full and the chain straight.
LEMMA WroteIs ==
    ASSUME NEW w, NEW S, IsLibrary(w, S), Full(w), NEW idx, NEW bytes \in FullSectors,
           NEW r, WrittenTo(w, idx, bytes, r), WroteOK(w, S, r)
    PROVE  /\ Full(r.w) /\ SameButAt(r.w.h, w.h) /\ r.ok \in BOOLEAN
           /\ Straight(w.fat, w.h.start) => Straight(r.w.fat, r.w.h.start)
  <1>1. IsHandle(w.h, S) /\ r.ok \in BOOLEAN BY DEF IsLibrary, WroteOK
  <1>2. SameButAt(r.w.h, w.h) /\ r.w.data \in [Clusters -> FullSectors]
    <2>1. CASE r.ok
      <3>1. PICK c \in Clusters : /\ r.w.data = [w.data EXCEPT ![c] = bytes]
                                  /\ r.w.h = AtMoved(w.h, idx, c)
        BY <2>1 DEF WrittenTo
      <3>2. SameButAt(r.w.h, w.h) BY <1>1, <3>1, AtMovedIs
      <3> QED BY <3>1, <3>2 DEF Full
    <2>2. CASE ~r.ok
      <3>1. r.w.h = w.h /\ r.w.data = w.data BY <2>2 DEF WrittenTo
      <3> QED BY <3>1 DEF Full, SameButAt, Same
    <2> QED BY <1>1, <2>1, <2>2
  <1>3. Full(r.w) BY <1>2 DEF Full, SameButAt
  <1>4. ASSUME Straight(w.fat, w.h.start) PROVE Straight(r.w.fat, r.w.h.start)
    <2>1. w.h.start \in S
      <3>1. 0 \in Nat OBVIOUS
      <3> QED BY <3>1, PlacesOwn
    <2>2. AreLinked(w.fat, S) BY LibraryLinked
    <2>3. PICK U : Relinks(w.fat, r.w.fat, S, U) BY DEF WroteOK, Grows
    <2>4. Straight(r.w.fat, w.h.start) BY <1>4, <2>1, <2>2, <2>3, StraightOn
    <2> QED BY <1>2, <2>4 DEF SameButAt, Same
  <1> QED BY <1>1, <1>2, <1>3, <1>4

\* What stays of a handle that is flushed.
Rests(g, h) ==
    Same(g, h) /\ g.open = h.open /\ g.buf = h.buf /\ g.addr = h.addr /\ g.changed = h.changed

\* The buffer is marked, or no longer, and the rest stays.
LEMMA DirtyIs ==
    ASSUME NEW h, NEW S, IsHandle(h, S), NEW x
    PROVE  LET g == [h EXCEPT !.dirty = x] IN Rests(g, h) /\ g.at = h.at /\ g.dirty = x
  BY Zenon DEF IsHandle, HandlesLike, Rests, Same

\* Unit p of a file that is carried is carried on when its place stays and what
\* the place holds; and so is the whole file.
LEMMA CarriedOn ==
    ASSUME NEW w, NEW v, NEW s, Carries(w, s), AtOK(v), Reach(v),
           v.h.buf = w.h.buf, v.h.addr = w.h.addr, SectorSize \in Nat \ {0},
           v.h.dirty => w.h.dirty,
           \A j \in Nat : PlaceAt(w, j) \in Clusters /\ (w.h.dirty => j # w.h.addr) =>
               PlaceAt(v, j) = PlaceAt(w, j) /\ v.data[PlaceAt(w, j)] = w.data[PlaceAt(w, j)],
           w.h.dirty /\ ~v.h.dirty =>
               PlaceAt(v, w.h.addr) \in Clusters /\ v.data[PlaceAt(v, w.h.addr)] = w.h.buf
    PROVE  Carries(v, s)
  <1> SUFFICES ASSUME NEW p \in Nat, p < Len(s) PROVE Holds(v, s, p) BY DEF Carries
  <1> DEFINE q == p \div SectorSize
             o == (p % SectorSize) + 1
  <1>1. q \in Nat BY Quotient
  <1>2. Holds(w, s, p) BY DEF Carries
  <1>3. /\ w.h.addr = q => w.h.buf[o] = s[p + 1]
        /\ ~(w.h.dirty /\ w.h.addr = q) => PlaceAt(w, q) \in Clusters
                                           /\ w.data[PlaceAt(w, q)][o] = s[p + 1]
    BY <1>2 DEF Holds, OnCard
  <1> HIDE DEF q, o
  <1>4. ASSUME ~(v.h.dirty /\ v.h.addr = q)
        PROVE  PlaceAt(v, q) \in Clusters /\ v.data[PlaceAt(v, q)][o] = s[p + 1]
    <2>1. CASE w.h.dirty /\ w.h.addr = q BY <1>3, <1>4, <2>1
    <2>2. CASE ~(w.h.dirty /\ w.h.addr = q) BY <1>1, <1>3, <2>2
    <2> QED BY <2>1, <2>2
  <1> QED BY <1>3, <1>4 DEF Holds, OnCard, q, o

\* A flush carries a file on.
LEMMA FlushedIs ==
    ASSUME NEW w, NEW S, IsLibrary(w, S), ~cached, Full(w), Top \in Nat
    PROVE  LET v == Flushed(w)
           IN  /\ Full(v) /\ Rests(v.h, w.h) /\ v.h.dirty \in BOOLEAN /\ (v.h.dirty => w.h.dirty)
               /\ Straight(w.fat, w.h.start) =>
                      /\ Straight(v.fat, v.h.start)
                      /\ \A s : Carries(w, s) => Carries(v, s)
  <1> DEFINE v == Flushed(w)
  <1>a. w.h.dirty \in BOOLEAN BY Zenon DEF IsLibrary, IsHandle, HandlesLike
  <1>1. CASE ~w.h.dirty
    <2>1. v = w BY <1>1 DEF Flushed
    <2> QED BY <1>a, <2>1 DEF Rests, Same
  <1>2. CASE w.h.dirty
    <2> DEFINE idx == w.h.addr
               r == WriteSector(w, idx, w.h.buf, 1)
               g == [r.w.h EXCEPT !.dirty = ~r.ok]
    <2>1. v = [r.w EXCEPT !.h = g]
      <3>1. v = [r.w EXCEPT !.h.dirty = ~r.ok] BY <1>2 DEF Flushed
      <3>2. [r.w EXCEPT !.h.dirty = ~r.ok] = [r.w EXCEPT !.h = g] BY Zenon
      <3> QED BY <3>1, <3>2
    <2>2. idx \in 0 .. Top /\ idx \in Nat BY <1>2 DEF IsLibrary, IsHandle
    <2>b. 1 \in Nat \ {0} OBVIOUS
    <2>3. WrittenTo(w, idx, w.h.buf, r) /\ WroteOK(w, S, r)
      BY <2>2, <2>b, WriteSectorIs, WriteSectorOK
    <2> HIDE DEF r
    <2>4. PICK T : IsLibrary(r.w, T) BY <2>3 DEF WroteOK
    <2>5. IsHandle(r.w.h, T) /\ r.ok \in BOOLEAN BY <2>3, <2>4 DEF IsLibrary, WroteOK
    <2>6. Rests(g, r.w.h) /\ g.at = r.w.h.at /\ g.dirty = ~r.ok BY <2>5, DirtyIs, Zenon
    <2> HIDE DEF g
    <2>7. v.h = g /\ v.fat = r.w.fat /\ v.data = r.w.data
      BY <2>1, <2>4, Zenon DEF IsLibrary, LibrariesLike
    <2> HIDE DEF v
    <2>8. /\ Full(r.w) /\ SameButAt(r.w.h, w.h)
          /\ Straight(w.fat, w.h.start) => Straight(r.w.fat, r.w.h.start)
      <3>1. w.h.buf \in FullSectors BY DEF Full
      <3> QED BY <2>3, <3>1, WroteIs
    <2>9. Rests(v.h, w.h) BY <2>6, <2>7, <2>8 DEF Rests, Same, SameButAt
    <2>11. Full(v) BY <2>6, <2>7, <2>8 DEF Full, Rests
    <2>12. ASSUME Straight(w.fat, w.h.start) PROVE Straight(v.fat, v.h.start)
      BY <2>6, <2>7, <2>8, <2>12 DEF Rests, Same
    <2>13. ASSUME Straight(w.fat, w.h.start), NEW s, Carries(w, s) PROVE Carries(v, s)
      <3>1. AtOK(w) /\ Reached(w, idx) BY <1>2, <2>13 DEF Carries, Reach
      <3>2. /\ AtOK(r.w)
            /\ \A i \in Nat : PlaceAt(w, i) \in Clusters => PlaceAt(r.w, i) = PlaceAt(w, i)
            /\ ~r.ok => r.w.data = w.data
            /\ r.ok => /\ PlaceAt(r.w, idx) \in Clusters /\ r.w.data[PlaceAt(r.w, idx)] = w.h.buf
                       /\ \A i \in Nat : i # idx /\ PlaceAt(w, i) \in Clusters =>
                             r.w.data[PlaceAt(w, i)] = w.data[PlaceAt(w, i)]
        BY <2>2, <2>3, <2>13, <3>1, WriteKeeps
      <3>3. v.h.start = r.w.h.start /\ v.h.at = r.w.h.at BY <2>6, <2>7 DEF Rests, Same
      <3>4. \A i \in Nat : PlaceAt(v, i) = PlaceAt(r.w, i) BY <2>7, <3>3 DEF PlaceAt
      <3>5. AtOK(v) BY <3>2, <3>3, <3>4 DEF AtOK
      <3>6. v.h.addr = idx /\ v.h.buf = w.h.buf BY <2>9 DEF Rests
      <3>7. Reach(v)
        <4>1. ASSUME idx # 0 PROVE PlaceAt(v, idx - 1) \in Clusters
          <5>1. idx - 1 \in Nat /\ PlaceAt(w, idx - 1) \in Clusters BY <2>2, <3>1, <4>1 DEF Reached
          <5> QED BY <3>2, <3>4, <5>1
        <4> QED BY <3>6, <4>1 DEF Reach, Reached
      <3>8. \A j \in Nat : PlaceAt(w, j) \in Clusters /\ (w.h.dirty => j # w.h.addr) =>
               PlaceAt(v, j) = PlaceAt(w, j) /\ v.data[PlaceAt(w, j)] = w.data[PlaceAt(w, j)]
        BY <1>2, <2>5, <2>7, <3>2, <3>4
      <3>9. w.h.dirty /\ ~v.h.dirty =>
               PlaceAt(v, w.h.addr) \in Clusters /\ v.data[PlaceAt(v, w.h.addr)] = w.h.buf
        BY <2>2, <2>6, <2>7, <3>2, <3>4
      <3>10. SectorSize \in Nat \ {0} BY FilesAssumption
      <3>11. v.h.dirty => w.h.dirty BY <1>2
      <3> HIDE DEF idx
      <3> QED BY <2>13, <3>5, <3>6, <3>7, <3>8, <3>9, <3>10, <3>11, CarriedOn DEF idx
    <2>14. v.h.dirty \in BOOLEAN BY <2>5, <2>6, <2>7
    <2> QED BY <1>2, <2>9, <2>11, <2>12, <2>13, <2>14 DEF v
  <1> QED BY <1>a, <1>1, <1>2

\* What a handle gets with another sector in its buffer.
LEMMA BuffersIs ==
    ASSUME NEW h, NEW S, IsHandle(h, S), NEW addr, NEW bytes
    PROVE  /\ Same(Buffers(h, addr, bytes), h) /\ Buffers(h, addr, bytes).open = h.open
           /\ Buffers(h, addr, bytes).changed = h.changed /\ Buffers(h, addr, bytes).at = h.at
           /\ Buffers(h, addr, bytes).addr = addr /\ Buffers(h, addr, bytes).buf = bytes
           /\ ~Buffers(h, addr, bytes).dirty
  BY Zenon DEF Buffers, IsHandle, HandlesLike, Same

\* The cluster looked up last is another one, where the chain has it.
Moved(v, g) ==
    SameButAt(g, v.h) /\ (AtOK(v) => (g.at.idx \in Nat => g.at.cluster = PlaceAt(v, g.at.idx)))

\* A handle that has moved carries what it carried.
LEMMA MovedIs ==
    ASSUME NEW v, NEW S, IsLibrary(v, S), NEW g, Moved(v, g), NEW u,
           u.fat = v.fat, u.data = v.data, u.h = g
    PROVE  /\ Full(v) => Full(u)
           /\ \A s : Carries(v, s) => Carries(u, s)
  <1>1. /\ g.start = v.h.start /\ g.buf = v.h.buf /\ g.addr = v.h.addr /\ g.dirty = v.h.dirty
        /\ (AtOK(v) => (g.at.idx \in Nat => g.at.cluster = PlaceAt(v, g.at.idx)))
    BY DEF Moved, SameButAt, Same
  <1>2. Full(v) => Full(u) BY <1>1 DEF Full
  <1>3. ASSUME NEW s, Carries(v, s) PROVE Carries(u, s)
    <2>1. \A i : PlaceAt(u, i) = PlaceAt(v, i) BY <1>1 DEF PlaceAt
    <2>2. AtOK(u) BY <1>1, <1>3, <2>1 DEF AtOK, Carries
    <2>3. Reach(u) BY <1>1, <1>3, <2>1 DEF Reach, Reached, Carries
    <2>4. \A p \in Nat : Holds(v, s, p) => Holds(u, s, p) BY <1>1, <2>1 DEF Holds, OnCard
    <2> QED BY <1>3, <2>2, <2>3, <2>4 DEF Carries
  <1> QED BY <1>2, <1>3

\* Another sector in the buffer, as the card has it, carries a file on when
\* nothing waits in the buffer.
LEMMA BufferedIs ==
    ASSUME NEW v, NEW S, IsLibrary(v, S), NEW g, IsHandle(g, S), Moved(v, g),
           NEW addr, NEW bytes,
           AtOK(v) /\ addr \in Nat /\ PlaceAt(v, addr) \in Clusters => bytes = v.data[PlaceAt(v, addr)],
           NEW u, u.fat = v.fat, u.data = v.data, u.h = Buffers(g, addr, bytes)
    PROVE  /\ Full(v) /\ bytes \in FullSectors => Full(u)
           /\ \A s : Carries(v, s) /\ ~v.h.dirty => Carries(u, s)
  <1>1. /\ g.start = v.h.start
        /\ (AtOK(v) => (g.at.idx \in Nat => g.at.cluster = PlaceAt(v, g.at.idx)))
    BY DEF Moved, SameButAt, Same
  <1>2. /\ u.h.start = v.h.start /\ u.h.at = g.at /\ u.h.addr = addr /\ u.h.buf = bytes
        /\ ~u.h.dirty
    <2> DEFINE h == Buffers(g, addr, bytes)
    <2>1. Same(h, g) /\ h.at = g.at /\ h.addr = addr /\ h.buf = bytes /\ ~h.dirty
      BY BuffersIs
    <2>2. u.h = h OBVIOUS
    <2> HIDE DEF h
    <2> QED BY <1>1, <2>1, <2>2 DEF Same
  <1>3. Full(v) /\ bytes \in FullSectors => Full(u) BY <1>2 DEF Full
  <1>4. ASSUME NEW s, Carries(v, s), ~v.h.dirty PROVE Carries(u, s)
    <2>1. \A i : PlaceAt(u, i) = PlaceAt(v, i) BY <1>2 DEF PlaceAt
    <2>2. AtOK(v) /\ AtOK(u) BY <1>1, <1>2, <1>4, <2>1 DEF AtOK, Carries
    <2>3. Reach(u) BY <1>2 DEF Reach
    <2>4. ASSUME NEW p \in Nat, p < Len(s) PROVE Holds(u, s, p)
      <3>1. OnCard(v, s, p) BY <1>4, <2>4 DEF Carries, Holds
      <3>2. OnCard(u, s, p) BY <2>1, <3>1 DEF OnCard
      <3>3. ASSUME addr = p \div SectorSize PROVE bytes[(p % SectorSize) + 1] = s[p + 1]
        <4>1. addr \in Nat
          <5>1. SectorSize \in Nat \ {0} BY FilesAssumption
          <5>2. p \div SectorSize \in Nat BY <5>1, Quotient
          <5> QED BY <3>3, <5>2
        <4>2. /\ PlaceAt(v, addr) \in Clusters
              /\ v.data[PlaceAt(v, addr)][(p % SectorSize) + 1] = s[p + 1]
          BY <3>1, <3>3 DEF OnCard
        <4> QED BY <2>2, <4>1, <4>2
      <3> QED BY <1>2, <3>2, <3>3 DEF Holds
    <2> QED BY <2>2, <2>3, <2>4 DEF Carries
  <1> QED BY <1>3, <1>4

\* What a read leaves of the handle, and what it brings.
LEMMA ReadMoves ==
    ASSUME NEW w, NEW S, IsLibrary(w, S), ~cached, Full(w), NEW idx \in 0 .. Top, Top \in Nat
    PROVE  LET r == ReadSector(w, idx)
           IN  /\ r.ok \in BOOLEAN /\ Moved(w, r.h) /\ r.bytes \in FullSectors
               /\ AtOK(w) /\ PlaceAt(w, idx) \in Clusters =>
                      r.ok /\ r.bytes = w.data[PlaceAt(w, idx)]
  <1> DEFINE r == ReadSector(w, idx)
  <1>1. /\ r.ok \in BOOLEAN
        /\ r.ok => \E c \in Clusters : /\ r.bytes = w.data[c] /\ r.h = AtMoved(w.h, idx, c)
                                       /\ AtOK(w) => c = PlaceAt(w, idx)
        /\ ~r.ok => /\ r.bytes = Blanks /\ r.h = w.h
                    /\ AtOK(w) => PlaceAt(w, idx) \notin Clusters
    BY ReadSectorIs
  <1> HIDE DEF r
  <1>2. IsHandle(w.h, S) BY DEF IsLibrary
  <1>3. CASE r.ok
    <2>1. PICK c \in Clusters : /\ r.bytes = w.data[c] /\ r.h = AtMoved(w.h, idx, c)
                                /\ AtOK(w) => c = PlaceAt(w, idx)
      BY <1>1, <1>3
    <2>2. SameButAt(r.h, w.h) /\ r.h.at.idx = idx /\ r.h.at.cluster = c
      BY <1>2, <2>1, AtMovedIs
    <2>3. Moved(w, r.h) BY <2>1, <2>2 DEF Moved
    <2>4. r.bytes \in FullSectors BY <2>1 DEF Full
    <2> QED BY <1>1, <1>3, <2>1, <2>3, <2>4 DEF r
  <1>4. CASE ~r.ok
    <2>1. Moved(w, r.h) BY <1>1, <1>4 DEF Moved, SameButAt, Same, AtOK
    <2>2. Blanks \in FullSectors BY DEF Blanks, FullSectors, Unset
    <2> QED BY <1>1, <1>4, <2>1, <2>2 DEF r
  <1> QED BY <1>1, <1>3, <1>4

\* Loading a sector carries the file on, unless what was in the buffer found no
\* cluster.
LEMMA LoadedIs ==
    ASSUME NEW w, NEW S, IsLibrary(w, S), ~cached, Full(w), NEW idx \in 0 .. Top, Top \in Nat
    PROVE  LET u == Loaded(w, idx)
           IN  /\ Full(u) /\ Same(u.h, w.h) /\ u.h.open = w.h.open /\ u.h.changed = w.h.changed
               /\ (w.h.addr # idx => ~u.h.dirty)
               /\ (w.h.addr = idx => u = w)
               /\ Straight(w.fat, w.h.start) =>
                      /\ Straight(u.fat, u.h.start)
                      /\ \A s : Carries(w, s) /\ (w.h.addr # idx => ~Flushed(w).h.dirty) =>
                            Carries(u, s)
  <1> DEFINE u == Loaded(w, idx)
  <1>a. w.h.dirty \in BOOLEAN BY Zenon DEF IsLibrary, IsHandle, HandlesLike
  <1>1. CASE w.h.addr = idx
    <2>1. u = w BY <1>1 DEF Loaded
    <2> HIDE DEF u
    <2> QED BY <1>1, <1>a, <2>1 DEF Same, u
  <1>2. CASE w.h.addr # idx
    <2> DEFINE v == Flushed(w)
               r == ReadSector(v, idx)
               h == Buffers(r.h, idx, r.bytes)
    <2>1. u = [v EXCEPT !.h = h] BY <1>2 DEF Loaded
    <2>2. PICK T : IsLibrary(v, T) BY FlushedOK DEF GoesOn
    <2>3. /\ Full(v) /\ Rests(v.h, w.h) /\ v.h.dirty \in BOOLEAN
          /\ Straight(w.fat, w.h.start) =>
                /\ Straight(v.fat, v.h.start)
                /\ \A s : Carries(w, s) => Carries(v, s)
      BY FlushedIs
    <2> HIDE DEF v
    <2>4. /\ r.ok \in BOOLEAN /\ Moved(v, r.h) /\ r.bytes \in FullSectors
          /\ AtOK(v) /\ PlaceAt(v, idx) \in Clusters => r.bytes = v.data[PlaceAt(v, idx)]
      BY <2>2, <2>3, ReadMoves
    <2>5. IsHandle(r.h, T) BY <2>2, ReadSectorOK
    <2> HIDE DEF r
    <2>6. IsHandle(h, T) BY <2>5, BuffersIsHandle
    <2>7. /\ Same(h, r.h) /\ h.open = r.h.open /\ h.changed = r.h.changed /\ ~h.dirty
      BY <2>5, BuffersIs
    <2> DEFINE g == h
    <2>8. u.fat = v.fat /\ u.data = v.data /\ u.h = g
      BY <2>1, <2>2, Zenon DEF IsLibrary, LibrariesLike
    <2>9. u.h = Buffers(r.h, idx, r.bytes) BY <2>8
    <2> HIDE DEF g, u
    <2>10. Full(u) /\ \A s : Carries(v, s) /\ ~v.h.dirty => Carries(u, s)
      BY <2>2, <2>3, <2>4, <2>5, <2>8, <2>9, BufferedIs
    <2>11. /\ Same(u.h, w.h) /\ u.h.open = w.h.open /\ u.h.changed = w.h.changed
           /\ ~u.h.dirty
      BY <2>3, <2>4, <2>7, <2>8 DEF Same, Moved, SameButAt, Rests, g
    <2>12. Straight(w.fat, w.h.start) => Straight(u.fat, u.h.start)
      BY <2>3, <2>8, <2>11 DEF Same, Rests
    <2>13. ASSUME Straight(w.fat, w.h.start), NEW s, Carries(w, s), ~v.h.dirty PROVE Carries(u, s)
      BY <2>3, <2>10, <2>13
    <2> QED BY <1>2, <2>10, <2>11, <2>12, <2>13 DEF u, v
  <1> QED BY <1>1, <1>2

\* A place is in a sector;
LEMMA Parts ==
    ASSUME NEW a \in Nat, NEW d \in Nat \ {0}
    PROVE  a = d * (a \div d) + (a % d)
  OBVIOUS

\* what is written within one stays in it;
WithinOne(p, pos, d, part) ==
    /\ p \div d = pos \div d =>
          (p + 1 \in pos + 1 .. pos + part <=> (p % d) + 1 \in (pos % d) + 1 .. (pos % d) + part)
    /\ p + 1 \in pos + 1 .. pos + part => p \div d = pos \div d

\* As the remainders have it.
LEMMA Within ==
    ASSUME NEW p \in Nat, NEW pos \in Nat, NEW d \in Nat \ {0}, NEW part \in Nat, (pos % d) + part <= d
    PROVE  WithinOne(p, pos, d, part)
  <1>1. p = d * (p \div d) + (p % d) /\ pos = d * (pos \div d) + (pos % d) BY Parts
  <1> DEFINE a == p \div d b == pos \div d x == p % d y == pos % d
  <1>2. a \in Nat /\ b \in Nat /\ x \in Nat /\ y \in Nat /\ x < d /\ y < d OBVIOUS
  <1> HIDE DEF a, b, x, y
  <1>3. d * a \in Nat /\ d * b \in Nat BY <1>2
  <1>4. p = d * a + x /\ pos = d * b + y BY <1>1 DEF a, b, x, y
  <1>5. a = b => (p + 1 \in pos + 1 .. pos + part <=> x + 1 \in y + 1 .. y + part)
    BY <1>2, <1>3, <1>4
  <1>6. ASSUME p + 1 \in pos + 1 .. pos + part PROVE a = b
    <2>1. d * b <= p /\ p < d * b + d BY <1>2, <1>3, <1>4, <1>6 DEF y
    <2>2. ASSUME a > b PROVE FALSE
      <3>1. PICK e \in Nat : a = b + 1 + e
        <4>1. a - b - 1 \in Nat /\ a = b + 1 + (a - b - 1) BY <1>2, <2>2
        <4> QED BY <4>1
      <3>2. d * a = d * b + d + d * e /\ d * e \in Nat BY <1>2, <3>1
      <3> QED BY <1>2, <1>3, <1>4, <2>1, <3>2
    <2>3. ASSUME a < b PROVE FALSE
      <3>1. PICK e \in Nat : b = a + 1 + e
        <4>1. b - a - 1 \in Nat /\ b = a + 1 + (b - a - 1) BY <1>2, <2>3
        <4> QED BY <4>1
      <3>2. d * b = d * a + d + d * e /\ d * e \in Nat BY <1>2, <3>1
      <3> QED BY <1>2, <1>3, <1>4, <2>1, <3>2
    <2> QED BY <1>2, <2>2, <2>3
  <1> QED BY <1>5, <1>6 DEF WithinOne, a, b, x, y

\* a sector and an offset make a place;
LEMMA QuotientIs ==
    ASSUME NEW d \in Nat \ {0}, NEW q \in Nat, NEW r \in Nat, r < d
    PROVE  (d * q + r) \div d = q /\ (d * q + r) % d = r
  <1> DEFINE a == d * q + r
             b == a \div d
  <1>1. d * q \in Nat /\ a \in Nat OBVIOUS
  <1>2. b \in Nat /\ d * b <= a /\ a < d * b + d BY <1>1, Quotient
  <1> HIDE DEF b
  <1>3. ASSUME b > q PROVE FALSE
    <2>1. PICK e \in Nat : b = q + 1 + e
      <3>1. b - q - 1 \in Nat /\ b = q + 1 + (b - q - 1) BY <1>2, <1>3
      <3> QED BY <3>1
    <2>2. d * b = d * q + d + d * e /\ d * e \in Nat BY <2>1
    <2> QED BY <1>1, <1>2, <2>2
  <1>4. ASSUME b < q PROVE FALSE
    <2>1. PICK e \in Nat : q = b + 1 + e
      <3>1. q - b - 1 \in Nat /\ q = b + 1 + (q - b - 1) BY <1>2, <1>4
      <3> QED BY <3>1
    <2>2. d * q = d * b + d + d * e /\ d * e \in Nat /\ d * b \in Nat BY <1>2, <2>1
    <2> QED BY <1>1, <1>2, <2>2
  <1>5. b = q BY <1>2, <1>3, <1>4
  <1>6. a = d * b + (a % d) /\ a % d \in Nat
    <2>1. \A x \in Nat, y \in Nat \ {0} : x = y * (x \div y) + (x % y) /\ x % y \in Nat OBVIOUS
    <2> HIDE DEF a
    <2> QED BY <1>1, <2>1 DEF b
  <1>7. a % d = r BY <1>1, <1>5, <1>6
  <1> QED BY <1>5, <1>7 DEF b

\* and the place before a sector is in the one before.
LEMMA PlaceBefore ==
    ASSUME NEW idx \in Nat \ {0}, NEW d \in Nat \ {0}
    PROVE  d * idx - 1 \in Nat /\ (d * idx - 1) \div d = idx - 1
  <1> DEFINE k == idx - 1
             p == d * idx - 1
  <1>1. k \in Nat /\ idx = k + 1 /\ d - 1 \in Nat /\ d - 1 < d OBVIOUS
  <1> HIDE DEF k
  <1>2. d * idx = d * k + d /\ d * k \in Nat BY <1>1
  <1>3. p \in Nat /\ p = d * k + (d - 1) BY <1>1, <1>2
  <1>4. (d * k + (d - 1)) \div d = k BY <1>1, QuotientIs
  <1> QED BY <1>3, <1>4 DEF k

\* A file that is written over.
LEMMA LenOf ==
    ASSUME NEW n \in Nat, NEW S, NEW s \in [1 .. n -> S] PROVE s \in Seq(S) /\ Len(s) = n
  OBVIOUS

\* The greater of two.
LEMMA Greater ==
    ASSUME NEW m \in Nat, NEW n \in Nat
    PROVE  Max({m, n}) = IF n > m THEN n ELSE m
  <1> DEFINE M == {m, n}
  <1>1. M \in SUBSET Nat /\ \E x \in M : \A y \in M : x >= y
    <2>1. CASE n > m BY <2>1
    <2>2. CASE ~(n > m) BY <2>2
    <2> QED BY <2>1, <2>2
  <1>2. Max(M) \in M /\ \A y \in M : Max(M) >= y
    <2> HIDE DEF M
    <2> QED BY <1>1 DEF Max
  <1>3. m \in M /\ n \in M /\ \A x \in M : x = m \/ x = n OBVIOUS
  <1> HIDE DEF M
  <1>4. PICK x : x = Max(M) OBVIOUS
  <1>5. x \in M /\ \A y \in M : x >= y BY <1>2, <1>4
  <1>6. (x = m \/ x = n) /\ x >= m /\ x >= n BY <1>3, <1>5
  <1>7. x = IF n > m THEN n ELSE m BY <1>6
  <1> QED BY <1>4, <1>7 DEF M

Repeated(n, v) == [i \in 1 .. n |-> v]

WrittenOver(s, old, pos, part, v) ==
    /\ s \in Seq(Nat) /\ Len(s) = (IF pos + part > Len(old) THEN pos + part ELSE Len(old))
    /\ \A i \in 1 .. Len(s) :
          /\ i \in pos + 1 .. pos + part => s[i] = v
          /\ i \notin pos + 1 .. pos + part => i \in 1 .. Len(old) /\ s[i] = old[i]

\* A file that is written over has what was written and the rest as it was.
LEMMA OverwrittenIs ==
    ASSUME NEW old \in Seq(Nat), NEW pos \in Nat, pos <= Len(old), NEW part \in Nat, NEW v \in Nat
    PROVE  WrittenOver(Overwritten(old, pos, Repeated(part, v)), old, pos, part, v)
  <1> DEFINE bytes == Repeated(part, v)
             n == IF pos + part > Len(old) THEN pos + part ELSE Len(old)
             s == Overwritten(old, pos, bytes)
  <1>1. Len(bytes) = part
    <2>1. bytes \in [1 .. part -> Nat] BY DEF Repeated
    <2> HIDE DEF bytes
    <2> QED BY <2>1, LenOf
  <1>2. \A i \in pos + 1 .. pos + part : bytes[i - pos] = v
    <2> SUFFICES ASSUME NEW i \in pos + 1 .. pos + part PROVE bytes[i - pos] = v OBVIOUS
    <2>1. i - pos \in 1 .. part OBVIOUS
    <2> QED BY <2>1 DEF Repeated
  <1> HIDE DEF bytes
  <1>3. Len(old) \in Nat OBVIOUS
  <1>4. Max({Len(old), pos + part}) = n BY <1>3, Greater
  <1>5. n \in Nat BY <1>3
  <1>6. s = [i \in 1 .. n |-> IF i \in pos + 1 .. pos + part THEN bytes[i - pos] ELSE old[i]]
    BY <1>1, <1>4, Zenon DEF Overwritten
  <1>7. \A i \in 1 .. n : i \notin pos + 1 .. pos + part => i \in 1 .. Len(old) /\ old[i] \in Nat
    BY <1>3
  <1>8. \A i \in 1 .. n : /\ i \in pos + 1 .. pos + part => s[i] = v
                          /\ i \notin pos + 1 .. pos + part => s[i] = old[i]
    BY <1>2, <1>6
  <1>9. s \in [1 .. n -> Nat] BY <1>2, <1>6, <1>7
  <1> HIDE DEF s, n
  <1>10. s \in Seq(Nat) /\ Len(s) = n BY <1>5, <1>9, LenOf
  <1>11. WrittenOver(s, old, pos, part, v) BY <1>7, <1>8, <1>10 DEF WrittenOver, n
  <1> QED BY <1>11 DEF s, bytes

\* A file as far as it is carried has the sector before any of its places, unless
\* that one waits in the buffer.
LEMMA ReachedOn ==
    ASSUME NEW w, NEW s, Carries(w, s), Len(s) \in Nat, NEW pos \in Nat, pos <= Len(s),
           ~w.h.dirty \/ w.h.addr = pos \div SectorSize
    PROVE  Reached(w, pos \div SectorSize)
  <1> DEFINE idx == pos \div SectorSize
             p == SectorSize * idx - 1
  <1>0. SectorSize \in Nat \ {0} BY FilesAssumption
  <1>1. idx \in Nat /\ SectorSize * idx <= pos BY <1>0, Quotient
  <1>2. CASE idx = 0 BY <1>2 DEF Reached
  <1>3. CASE idx # 0
    <2>1. p \in Nat /\ p \div SectorSize = idx - 1 BY <1>0, <1>1, <1>3, PlaceBefore
    <2>2. p < Len(s)
      <3>1. SectorSize * idx \in Nat BY <1>0, <1>1
      <3> QED BY <1>1, <3>1
    <2> HIDE DEF p
    <2>3. Holds(w, s, p) BY <2>1, <2>2 DEF Carries
    <2>4. ~(w.h.dirty /\ w.h.addr = p \div SectorSize)
      <3>1. idx # idx - 1 BY <1>1
      <3> QED BY <2>1, <3>1
    <2>5. PlaceAt(w, idx - 1) \in Clusters BY <2>1, <2>3, <2>4 DEF Holds, OnCard
    <2> QED BY <2>5 DEF Reached
  <1> QED BY <1>2, <1>3

\* A sector stays full when it is written over.
LEMMA OverwrittenFull ==
    ASSUME NEW old \in FullSectors, NEW offset \in Nat, NEW part \in Nat,
           offset + part <= SectorSize, NEW v \in Nat
    PROVE  Overwritten(old, offset, Repeated(part, v)) \in FullSectors
  <1> DEFINE b == Overwritten(old, offset, Repeated(part, v))
  <1>1. SectorSize \in Nat BY FilesAssumption
  <1>2. old \in Seq(Nat) /\ Len(old) = SectorSize
    <2>1. old \in [1 .. SectorSize -> Nat] BY DEF FullSectors
    <2> QED BY <1>1, <2>1, LenOf
  <1>a. offset <= Len(old) BY <1>1, <1>2
  <1>3. WrittenOver(b, old, offset, part, v) BY <1>2, <1>a, OverwrittenIs
  <1> HIDE DEF b
  <1>4. b \in Seq(Nat) /\ Len(b) = SectorSize BY <1>1, <1>2, <1>3 DEF WrittenOver
  <1>5. b \in [1 .. Len(b) -> Nat] BY <1>4
  <1> QED BY <1>4, <1>5 DEF FullSectors, b

\* What is written through the buffer is carried.
LEMMA ThroughCarries ==
    ASSUME NEW w, Full(w), NEW s \in Seq(Nat), Carries(w, s),
           NEW pos \in Nat, pos <= Len(s), w.h.addr = pos \div SectorSize,
           NEW part \in Nat, (pos % SectorSize) + part <= SectorSize, NEW v \in Nat,
           NEW u, u.fat = w.fat, u.data = w.data, u.h.start = w.h.start, u.h.at = w.h.at,
           u.h.addr = w.h.addr, u.h.dirty,
           u.h.buf = Overwritten(w.h.buf, pos % SectorSize, Repeated(part, v))
    PROVE  Carries(u, Overwritten(s, pos, Repeated(part, v)))
  <1> DEFINE bytes == Repeated(part, v)
             idx == pos \div SectorSize
             offset == pos % SectorSize
             b == Overwritten(w.h.buf, offset, bytes)
             z == Overwritten(s, pos, bytes)
  <1>0. SectorSize \in Nat \ {0} BY FilesAssumption
  <1>1. idx \in Nat /\ offset \in Nat /\ offset < SectorSize BY <1>0, Quotient
  <1>2. w.h.buf \in Seq(Nat) /\ Len(w.h.buf) = SectorSize
    <2>1. w.h.buf \in [1 .. SectorSize -> Nat] BY DEF Full, FullSectors
    <2> QED BY <1>0, <2>1, LenOf
  <1> HIDE DEF offset, idx
  <1>3. /\ b \in Seq(Nat)
        /\ Len(b) = (IF offset + part > SectorSize THEN offset + part ELSE SectorSize)
        /\ \A i \in 1 .. Len(b) :
              /\ i \in offset + 1 .. offset + part => b[i] = v
              /\ i \notin offset + 1 .. offset + part => b[i] = w.h.buf[i]
    <2>1. offset <= Len(w.h.buf) BY <1>0, <1>1, <1>2
    <2>2. WrittenOver(b, w.h.buf, offset, part, v) BY <1>1, <1>2, <2>1, OverwrittenIs
    <2> HIDE DEF b
    <2> QED BY <1>2, <2>2 DEF WrittenOver
  <1>4. /\ z \in Seq(Nat) /\ Len(z) = (IF pos + part > Len(s) THEN pos + part ELSE Len(s))
        /\ \A i \in 1 .. Len(z) :
              /\ i \in pos + 1 .. pos + part => z[i] = v
              /\ i \notin pos + 1 .. pos + part => i \in 1 .. Len(s) /\ z[i] = s[i]
    <2>1. WrittenOver(z, s, pos, part, v) BY OverwrittenIs
    <2> HIDE DEF z
    <2> QED BY <2>1 DEF WrittenOver
  <1>5. u.h.buf = b BY DEF offset
  <1> HIDE DEF b, z
  <1>6. Len(b) = SectorSize
    <2>1. ~(offset + part > SectorSize) BY <1>0, <1>1 DEF offset
    <2> QED BY <1>3, <2>1
  <1>7. \A i : PlaceAt(u, i) = PlaceAt(w, i) BY DEF PlaceAt
  <1>8. AtOK(u) BY <1>7 DEF AtOK, Carries
  <1>9. Reach(u)
    <2>1. Len(s) \in Nat OBVIOUS
    <2>2. Reached(w, idx) BY <2>1, ReachedOn DEF idx
    <2> QED BY <1>7, <2>2 DEF Reach, Reached, idx
  <1>10. ASSUME NEW p \in Nat, p < Len(z) PROVE Holds(u, z, p)
    <2> DEFINE o == (p % SectorSize) + 1
               q == p \div SectorSize
    <2>1. q \in Nat /\ p % SectorSize \in Nat /\ p % SectorSize < SectorSize BY <1>0, Quotient
    <2>2. o \in 1 .. SectorSize BY <1>0, <2>1
    <2>3. /\ q = idx => (p + 1 \in pos + 1 .. pos + part <=> o \in offset + 1 .. offset + part)
          /\ p + 1 \in pos + 1 .. pos + part => q = idx
      <3>1. WithinOne(p, pos, SectorSize, part) BY <1>0, Within
      <3> QED BY <3>1 DEF WithinOne, idx, offset
    <2>4. p + 1 \in 1 .. Len(z) BY <1>4, <1>10
    <2> HIDE DEF o, q
    <2>5. ASSUME p + 1 \notin pos + 1 .. pos + part PROVE Holds(w, s, p) /\ z[p + 1] = s[p + 1]
      <3>1. p + 1 \in 1 .. Len(s) /\ z[p + 1] = s[p + 1] BY <1>4, <2>4, <2>5
      <3>2. p < Len(s) BY <3>1
      <3> QED BY <3>1, <3>2 DEF Carries
    <2>6. ASSUME q = idx PROVE b[o] = z[p + 1]
      <3>1. CASE p + 1 \in pos + 1 .. pos + part
        BY <1>3, <1>4, <1>6, <2>2, <2>3, <2>4, <2>6, <3>1
      <3>2. CASE p + 1 \notin pos + 1 .. pos + part
        <4>1. b[o] = w.h.buf[o] BY <1>3, <1>6, <2>2, <2>3, <2>6, <3>2
        <4>2. w.h.buf[o] = s[p + 1] BY <2>5, <2>6, <3>2 DEF Holds, o, q, idx
        <4> QED BY <2>5, <3>2, <4>1, <4>2
      <3> QED BY <3>1, <3>2
    <2>7. ASSUME q # idx PROVE OnCard(u, z, p)
      <3>1. p + 1 \notin pos + 1 .. pos + part BY <2>3, <2>7
      <3>2. OnCard(w, s, p) /\ z[p + 1] = s[p + 1] BY <2>5, <2>7, <3>1 DEF Holds, q, idx
      <3> QED BY <1>7, <3>2 DEF OnCard
    <2> QED BY <1>5, <2>6, <2>7 DEF Holds, o, q, idx
  <1> QED BY <1>8, <1>9, <1>10 DEF Carries, z

\* So is what is written past the buffer, when the buffer has no sector.
LEMMA DirectCarries ==
    ASSUME NEW w, NEW S, IsLibrary(w, S), ~cached, Full(w), Straight(w.fat, w.h.start),
           ~w.h.dirty, w.h.addr = None, NEW s \in Seq(Nat), Carries(w, s),
           NEW pos \in Nat, pos <= Len(s), pos % SectorSize = 0,
           pos \div SectorSize \in 0 .. Top, Top \in Nat, NEW count \in Nat \ {0}, NEW v \in Nat
    PROVE  LET bytes == Repeated(SectorSize, v)
               r == WriteSector(w, pos \div SectorSize, bytes, count)
           IN  Carries(r.w, IF r.ok THEN Overwritten(s, pos, bytes) ELSE s)
  <1> DEFINE bytes == Repeated(SectorSize, v)
             idx == pos \div SectorSize
             r == WriteSector(w, idx, bytes, count)
             z == Overwritten(s, pos, bytes)
  <1>0. SectorSize \in Nat \ {0} BY FilesAssumption
  <1>1. idx \in Nat OBVIOUS
  <1>2. WrittenTo(w, idx, bytes, r) /\ WroteOK(w, S, r)
    <2> HIDE DEF bytes, idx
    <2>1. idx \in 0 .. Top BY DEF idx
    <2> QED BY <2>1, WriteSectorIs, WriteSectorOK
  <1>3. AtOK(w) /\ Reached(w, idx)
    <2>1. Len(s) \in Nat OBVIOUS
    <2> QED BY <2>1, ReachedOn DEF Carries
  <1>4. SectorSize \in Nat BY <1>0
  <1>5. WrittenOver(z, s, pos, SectorSize, v) BY <1>4, OverwrittenIs
  <1>6. \A o \in 1 .. SectorSize : bytes[o] = v BY DEF Repeated
  <1> HIDE DEF r, bytes, idx, z
  <1>7. /\ r.ok \in BOOLEAN /\ SameButAt(r.w.h, w.h) /\ AtOK(r.w)
        /\ \A i \in Nat : PlaceAt(w, i) \in Clusters => PlaceAt(r.w, i) = PlaceAt(w, i)
        /\ ~r.ok => r.w.data = w.data
        /\ r.ok => /\ PlaceAt(r.w, idx) \in Clusters /\ r.w.data[PlaceAt(r.w, idx)] = bytes
                   /\ \A i \in Nat : i # idx /\ PlaceAt(w, i) \in Clusters =>
                         r.w.data[PlaceAt(w, i)] = w.data[PlaceAt(w, i)]
    BY <1>1, <1>2, <1>3, WriteKeeps
  <1>8. ~r.w.h.dirty /\ r.w.h.addr = None BY <1>7 DEF SameButAt
  <1>9. Reach(r.w) BY <1>8 DEF Reach
  <1>10. \A p \in Nat : p \div SectorSize \in Nat /\ p \div SectorSize # None
    <2> SUFFICES ASSUME NEW p \in Nat PROVE p \div SectorSize \in Nat /\ p \div SectorSize # None
      OBVIOUS
    <2>1. p \div SectorSize \in Nat BY <1>0, Quotient
    <2> QED BY <2>1 DEF None
  <1>11. CASE ~r.ok
    <2>1. ASSUME NEW p \in Nat, p < Len(s) PROVE Holds(r.w, s, p)
      <3>1. OnCard(w, s, p) BY <2>1 DEF Carries, Holds
      <3>2. OnCard(r.w, s, p) BY <1>7, <1>10, <1>11, <3>1 DEF OnCard
      <3> QED BY <1>8, <1>10, <3>2 DEF Holds
    <2>2. Carries(r.w, s) BY <1>7, <1>9, <2>1 DEF Carries
    <2> QED BY <1>11, <2>2 DEF r, bytes, idx
  <1>12. CASE r.ok
    <2>1. ASSUME NEW p \in Nat, p < Len(z) PROVE Holds(r.w, z, p)
      <3> DEFINE o == (p % SectorSize) + 1
                 q == p \div SectorSize
      <3>1. q \in Nat /\ o \in 1 .. SectorSize
        <4>1. p % SectorSize \in Nat /\ p % SectorSize < SectorSize /\ q \in Nat
          BY <1>0, Quotient
        <4> QED BY <1>0, <4>1
      <3>2. p + 1 \in 1 .. Len(z) BY <1>5, <2>1 DEF WrittenOver
      <3>3. /\ q = idx => p + 1 \in pos + 1 .. pos + SectorSize
            /\ p + 1 \in pos + 1 .. pos + SectorSize => q = idx
        <4>1. (pos % SectorSize) + SectorSize <= SectorSize BY <1>0
        <4>2. WithinOne(p, pos, SectorSize, SectorSize) BY <1>0, <1>4, <4>1, Within
        <4>3. o \in (pos % SectorSize) + 1 .. (pos % SectorSize) + SectorSize BY <1>0, <3>1
        <4> QED BY <4>2, <4>3 DEF WithinOne, idx
      <3> HIDE DEF o, q
      <3>4. CASE q = idx
        <4>1. z[p + 1] = v BY <1>5, <3>2, <3>3, <3>4 DEF WrittenOver
        <4>2. PlaceAt(r.w, q) \in Clusters /\ r.w.data[PlaceAt(r.w, q)][o] = v
          BY <1>6, <1>7, <1>12, <3>1, <3>4
        <4>3. OnCard(r.w, z, p) BY <4>1, <4>2 DEF OnCard, o, q
        <4> QED BY <1>8, <1>10, <4>3 DEF Holds
      <3>5. CASE q # idx
        <4>1. p + 1 \in 1 .. Len(s) /\ z[p + 1] = s[p + 1]
          BY <1>5, <3>2, <3>3, <3>5 DEF WrittenOver
        <4>2. p < Len(s) BY <4>1
        <4>3. OnCard(w, s, p) BY <4>2 DEF Carries, Holds
        <4>4. PlaceAt(w, q) \in Clusters /\ w.data[PlaceAt(w, q)][o] = s[p + 1]
          BY <4>3 DEF OnCard, o, q
        <4>5. PlaceAt(r.w, q) \in Clusters /\ r.w.data[PlaceAt(r.w, q)][o] = z[p + 1]
          BY <1>7, <1>12, <3>1, <3>5, <4>1, <4>4
        <4>6. OnCard(r.w, z, p) BY <4>5 DEF OnCard, o, q
        <4> QED BY <1>8, <1>10, <4>6 DEF Holds
      <3> QED BY <3>4, <3>5
    <2>2. Carries(r.w, z) BY <1>7, <1>9, <2>1 DEF Carries
    <2> QED BY <1>12, <2>2 DEF r, bytes, idx, z
  <1> QED BY <1>7, <1>11, <1>12

(***************************************************************************)
(* What is read back, call by call.  content is what each file was given;  *)
(* BackInv says that an open one carries it and that a closed one has it   *)
(* along the chain of its entry.                                           *)
(***************************************************************************)
Removing(f) == op.name = "remove" /\ op.file = f

\* The library has s as the file of a handle, whose entry says n for its length.
Back(w, s, n) ==
    s # Unknown =>
        /\ Carries(w, s)
        /\ w.h.len = Len(s) /\ w.h.pos <= Len(s) /\ (w.h.changed \/ Len(s) = n)
        /\ w.h.dirty => w.h.addr * SectorSize < w.h.pos

OpenBack(f) == handle[f].open => Back(Now(f), content[f], dir[f].len)

ClosedBack(f) ==
    Exists(f) /\ ~handle[f].open /\ ~Removing(f) /\ content[f] # Unknown =>
        Stored(fat, f) = content[f]

BackTypes ==
    /\ data \in [Clusters -> FullSectors] /\ DOMAIN content = Files
    /\ \A f \in Files : content[f] # Unknown => content[f] \in Seq(Nat)
    /\ \A f \in Files : handle[f].open => handle[f].buf \in FullSectors

BackInv == ~cached => BackTypes /\ \A f \in Files : OpenBack(f) /\ ClosedBack(f)

\* Between calls the chain of an open file is straight.
LEMMA StraightNow ==
    ASSUME IndInv, NEW f \in Files, op = Idle, handle[f].open
    PROVE  Straight(fat, handle[f].start)
  <1>1. TypeOK /\ Apart /\ HandleOK(f) BY DEF IndInv
  <1>2. handle[f] # Shut BY DEF Shut
  <1>3. IsHandle(handle[f], Own(f)) /\ handle[f].start = dir[f].start BY <1>1, <1>2 DEF HandleOK
  <1>4. handle[f].start \in Own(f) BY <1>3, Zenon DEF IsHandle, HandlesLike
  <1>5. First(f) = handle[f].start /\ First(f) # None BY <1>3, <1>4, Marks DEF First, FirstOf, Idle, Own
  <1>6. \A c \in Clusters : fat[c] # handle[f].start BY <1>1, <1>5 DEF Apart, FirstIsUnlinked
  <1>7. \A c \in Clusters : fat[c] \in Clusters => fat[fat[c]] # Free
    BY <1>1, Marks DEF Apart, FreeIsUnowned, LinksStayInFile
  <1>8. \A c, d \in Clusters : fat[c] \in Clusters /\ c # d => fat[c] # fat[d]
    BY <1>1 DEF Apart, LinksApart
  <1> QED BY <1>6, <1>7, <1>8 DEF Straight

\* What is known of an open file when a call begins.
LEMMA BackBegins ==
    ASSUME IndInv, BackInv, ~cached, NEW f \in Files, op = Idle, handle[f].open
    PROVE  /\ Full(Now(f)) /\ Straight(Now(f).fat, Now(f).h.start)
           /\ content[f] # Unknown => content[f] \in Seq(Nat)
           /\ Back(Now(f), content[f], dir[f].len)
  <1>1. BackTypes /\ OpenBack(f) BY DEF BackInv
  <1>2. Now(f).data = data /\ Now(f).fat = fat /\ Now(f).h = handle[f] BY DEF Now
  <1>3. Straight(fat, handle[f].start) BY StraightNow
  <1>4. data \in [Clusters -> FullSectors] /\ handle[f].buf \in FullSectors BY <1>1 DEF BackTypes
  <1>5. content[f] # Unknown => content[f] \in Seq(Nat) BY <1>1 DEF BackTypes
  <1> QED BY <1>1, <1>2, <1>3, <1>4, <1>5 DEF Full, OpenBack

\* What carries a file is the FAT, the data and what the handle has of its
\* sectors.
SameSector(g, h) ==
    /\ g.start = h.start /\ g.open = h.open /\ g.at = h.at
    /\ g.addr = h.addr /\ g.buf = h.buf /\ g.dirty = h.dirty

\* These being equal, the file is.
LEMMA CarriesSame ==
    ASSUME NEW w, NEW u, u.fat = w.fat, u.data = w.data, SameSector(u.h, w.h)
    PROVE  (Full(w) => Full(u)) /\ \A s : Carries(w, s) => Carries(u, s)
  BY DEF SameSector, Full, Carries, AtOK, Reach, Reached, Holds, OnCard, PlaceAt

\* A library with the same FAT, data and handle has the same file.
LEMMA BackSame ==
    ASSUME NEW w, NEW u, u.fat = w.fat, u.data = w.data, u.h = w.h, NEW s, NEW n, Back(w, s, n)
    PROVE  Back(u, s, n)
  <1>1. SameSector(u.h, w.h) BY DEF SameSector
  <1> QED BY <1>1, CarriesSame DEF Back

\* A file left alone is carried on,
LEMMA AloneOpenBack ==
    ASSUME IndInv, NEW f \in Files, LeftAlone(f), content'[f] = content[f], OpenBack(f)
    PROVE  OpenBack(f)'
  <1>1. SUFFICES ASSUME handle[f].open, content[f] # Unknown
                 PROVE  Carries(Now(f)', content[f])
    <2>1. Now(f).h = handle[f] /\ Now(f)'.h = handle[f] BY DEF Now, LeftAlone
    <2>2. handle'[f] = handle[f] /\ dir'[f] = dir[f] BY DEF LeftAlone
    <2>3. ASSUME handle[f].open PROVE Back(Now(f)', content[f], dir[f].len)
      BY <1>1, <2>1, <2>3 DEF Back, OpenBack
    <2>4. OpenBack(f)' <=> (handle'[f].open => Back(Now(f)', content'[f], dir'[f].len))
      BY DEF OpenBack, Back, Carries, AtOK, Reach, Reached, Holds, OnCard, PlaceAt, Follow
    <2> QED BY <2>2, <2>3, <2>4
  <1>2. PICK w, v, h, s : w = Now(f) /\ v = Now(f)' /\ h = handle[f] /\ s = content[f] OBVIOUS
  <1>3. w.fat = fat /\ w.data = data /\ w.h = h /\ v.fat = fat' /\ v.data = data' /\ v.h = h
    BY <1>2 DEF Now, LeftAlone
  <1>4. Carries(w, s) BY <1>1, <1>2 DEF OpenBack, Back
  <1>5. IsLibrary(w, Own(f)) BY <1>1, <1>2, CallBegins
  <1>6. PICK S : S = Own(f) OBVIOUS
  <1>7. \A c \in S : fat'[c] = fat[c] /\ data'[c] = data[c] BY <1>6 DEF LeftAlone
  <1>8. S \in SUBSET Clusters /\ \A c \in S : fat[c] \in Clusters => fat[c] \in S
    BY <1>3, <1>5, <1>6, Marks DEF IsLibrary, AreLinked
  <1>9. \A i \in Nat : PlaceAt(w, i) \in S \union {Last} /\ h.start \in S BY <1>3, <1>5, <1>6, PlacesOwn
  <1>10. \A i \in Nat : PlaceAt(v, i) = PlaceAt(w, i)
    <2>1. h.start \in S BY <1>9
    <2>2. \A i \in Nat : Follow(fat', h.start, i) = Follow(fat, h.start, i)
      BY <1>7, <1>8, <2>1, FollowSame
    <2> QED BY <1>3, <2>2 DEF PlaceAt
  <1>11. \A i \in Nat : PlaceAt(w, i) \in Clusters =>
             PlaceAt(v, i) = PlaceAt(w, i) /\ v.data[PlaceAt(w, i)] = w.data[PlaceAt(w, i)]
    BY <1>3, <1>7, <1>9, <1>10, Marks
  <1>12. AtOK(v) BY <1>3, <1>4, <1>10 DEF AtOK, Carries
  <1>13. Reach(v)
    <2> SUFFICES ASSUME h.dirty PROVE Reached(v, h.addr) BY <1>3 DEF Reach
    <2>1. Reached(w, h.addr) BY <1>3, <1>4 DEF Carries, Reach
    <2>2. h.addr \in 0 .. Top BY <1>3, <1>5 DEF IsLibrary, IsHandle
    <2>3. h.addr = 0 \/ h.addr - 1 \in Nat BY <2>2, TopIsNat
    <2> QED BY <1>10, <2>1, <2>3 DEF Reached
  <1>14. SectorSize \in Nat \ {0} BY FilesAssumption
  <1>15. v.h.buf = w.h.buf /\ v.h.addr = w.h.addr /\ v.h.dirty = w.h.dirty BY <1>3
  <1>16. Carries(v, s) BY <1>4, <1>11, <1>12, <1>13, <1>14, <1>15, CarriedOn
  <1> QED BY <1>2, <1>16

\* and so is a closed one.
LEMMA AloneClosedBack ==
    ASSUME IndInv, NEW f \in Files, LeftAlone(f), content'[f] = content[f],
           Removing(f) => Removing(f)', ClosedBack(f)
    PROVE  ClosedBack(f)'
  <1> SUFFICES ASSUME Exists(f)', ~handle'[f].open, ~Removing(f)', content'[f] # Unknown
               PROVE  Stored(fat, f)' = content'[f]
    BY DEF ClosedBack
  <1>0. TypeOK /\ Apart /\ OpOK BY DEF IndInv
  <1>1. Exists(f) /\ ~handle[f].open /\ ~Removing(f) /\ content[f] # Unknown /\ dir'[f] = dir[f]
    BY DEF LeftAlone, Exists
  <1>2. ~(op.name = "create" /\ op.file = f) BY <1>0, <1>1 DEF OpOK, Idle, Exists
  <1>3. First(f) = dir[f].start BY <1>1, <1>2 DEF First, FirstOf, Removing
  <1>4. dir[f].start # None BY <1>0, <1>1 DEF TypeOK, Exists
  <1>5. dir[f].start \in Own(f) BY <1>0, <1>3, <1>4 DEF Apart, FirstIsOwned, Own
  <1>6. \A c \in Own(f) : fat'[c] = fat[c] /\ data'[c] = data[c] BY DEF LeftAlone
  <1>7. Stored(fat, f)' = Stored(fat, f) BY <1>0, <1>1, <1>5, <1>6, StoredFrame
  <1> QED BY <1>1, <1>7 DEF ClosedBack

\* A step that leaves all but one alone.
LEMMA OthersBack ==
    ASSUME IndInv, BackInv, ~cached, cached' = cached, NEW f, OthersAlone(f),
           \A g \in Files : g # f => content'[g] = content[g] /\ (Removing(g) => Removing(g)'),
           data' \in [Clusters -> FullSectors], DOMAIN content' = Files,
           f \in Files => /\ content'[f] # Unknown => content'[f] \in Seq(Nat)
                          /\ handle'[f].open => handle'[f].buf \in FullSectors
                          /\ OpenBack(f)' /\ ClosedBack(f)'
    PROVE  BackInv'
  <1>1. BackTypes /\ \A g \in Files : OpenBack(g) /\ ClosedBack(g) BY DEF BackInv
  <1>2. \A g \in Files : g # f => LeftAlone(g) BY DEF OthersAlone
  <1>3. BackTypes'
    <2>1. \A g \in Files : g # f => handle'[g] = handle[g] BY <1>2 DEF LeftAlone
    <2>2. FullSectors' = FullSectors BY DEF FullSectors
    <2> QED BY <1>1, <2>1, <2>2 DEF BackTypes
  <1>4. \A g \in Files : OpenBack(g)' /\ ClosedBack(g)'
    BY <1>1, <1>2, AloneOpenBack, AloneClosedBack
  <1> QED BY <1>3, <1>4 DEF BackInv

\* From a step on f is to contain s.
Contains(f, s) ==
    content'[f] = s /\ DOMAIN content' = Files /\ \A g \in Files : g # f => content'[g] = content[g]

\* After bytes were given up nothing is known of the file.
LEMMA GivesUpIs ==
    ASSUME BackTypes, NEW f \in Files, NEW dropped, GivesUp(f, dropped)
    PROVE  Contains(f, IF dropped THEN Unknown ELSE content[f])
  BY DEF BackTypes, GivesUp, Contains

\* A call on an open file that leaves it open.
LEMMA BackCall ==
    ASSUME IndInv, BackInv, ~cached, NEW f \in Files, OthersAlone(f), op = Idle,
           NEW w, Full(w), w.h.open, NEW s, s # Unknown => s \in Seq(Nat), Back(w, s, dir[f].len),
           fat' = w.fat, data' = w.data, handle' = [handle EXCEPT ![f] = w.h],
           Contains(f, s), UNCHANGED <<cached, dir, op>>
    PROVE  BackInv'
  <1>1. BackTypes /\ TypeOK BY DEF BackInv, IndInv
  <1>2. handle'[f] = w.h BY <1>1 DEF TypeOK
  <1>3. content'[f] = s /\ DOMAIN content' = Files /\ \A g \in Files : g # f => content'[g] = content[g]
    BY DEF Contains
  <1>4. data' \in [Clusters -> FullSectors] /\ handle'[f].buf \in FullSectors BY <1>2 DEF Full
  <1>5. \A g \in Files : Removing(g) => Removing(g)' BY DEF Removing
  <1>6. ClosedBack(f)' BY <1>2 DEF ClosedBack
  <1>7. OpenBack(f)'
    <2>1. PICK u : u = Now(f)' OBVIOUS
    <2>2. u.fat = w.fat /\ u.data = w.data /\ u.h = w.h BY <1>2, <2>1 DEF Now
    <2>3. Back(u, s, dir[f].len) BY <2>2, BackSame
    <2>4. Back(Now(f)', content'[f], dir'[f].len) BY <1>3, <2>1, <2>3
    <2> QED BY <2>4
      DEF OpenBack, Back, Carries, AtOK, Reach, Reached, Holds, OnCard, PlaceAt, Follow
  <1> QED BY <1>3, <1>4, <1>5, <1>6, <1>7, OthersBack

\* The place and the length in a handle are apart from its sectors.
LEMMA PosIs ==
    ASSUME NEW h, NEW S, IsHandle(h, S), NEW x
    PROVE  LET g == [h EXCEPT !.pos = x]
           IN  SameSector(g, h) /\ g.pos = x /\ g.len = h.len /\ g.changed = h.changed
  BY Zenon DEF IsHandle, HandlesLike, SameSector

\* A longer file has its place for its length.
LEMMA LongerIs ==
    ASSUME NEW h, NEW S, IsHandle(h, S)
    PROVE  LET g == Longer(h)
           IN  SameSector(g, h) /\ g.pos = h.pos /\ g.len = h.pos /\ g.changed
  BY Zenon DEF IsHandle, HandlesLike, SameSector, Longer

\* A handle may stay where it is.
LEMMA NotMoved == ASSUME NEW v PROVE Moved(v, v.h)
  BY DEF Moved, SameButAt, Same, AtOK

\* A blank sector is a sector.
LEMMA BlanksFull == Blanks \in FullSectors
  BY DEF Blanks, FullSectors, Unset

\* Another handle leaves the FAT and the data.
LEMMA HandIs ==
    ASSUME NEW w, NEW S, IsLibrary(w, S), NEW h
    PROVE  LET v == [w EXCEPT !.h = h] IN v.fat = w.fat /\ v.data = w.data /\ v.h = h
  BY Zenon DEF IsLibrary, LibrariesLike

\* A call after which the file is what it was, or that has given bytes up.
LEMMA BackReads ==
    ASSUME IndInv, BackInv, ~cached, NEW f \in Files, OthersAlone(f), op = Idle, handle[f].open,
           NEW u, Full(u), u.h.open, u.h.changed = handle[f].changed,
           u.h.len = handle[f].len, u.h.pos \in Nat,
           handle[f].pos <= handle[f].len => u.h.pos <= handle[f].len,
           u.h.dirty => /\ handle[f].dirty /\ u.h.addr = handle[f].addr
                        /\ handle[f].pos <= u.h.pos,
           NEW s, Contains(f, s),
           s # Unknown => s = content[f] /\ \A x : Carries(Now(f), x) => Carries(u, x),
           fat' = u.fat, data' = u.data, handle' = [handle EXCEPT ![f] = u.h],
           UNCHANGED <<cached, dir, op>>
    PROVE  BackInv'
  <1> DEFINE h == handle[f]
  <1>1. IsHandle(h, Own(f)) /\ h.len \in Nat /\ h.pos \in Nat /\ Now(f).h = h BY CallBegins
  <1>2. (content[f] # Unknown => content[f] \in Seq(Nat)) /\ Back(Now(f), content[f], dir[f].len)
    BY BackBegins
  <1>3. Back(u, s, dir[f].len)
    <2> SUFFICES ASSUME s # Unknown
                 PROVE  /\ Carries(u, s) /\ u.h.len = Len(s) /\ u.h.pos <= Len(s)
                        /\ (u.h.changed \/ Len(s) = dir[f].len)
                        /\ u.h.dirty => u.h.addr * SectorSize < u.h.pos
      BY DEF Back
    <2>1. s = content[f] OBVIOUS
    <2>2. /\ Carries(Now(f), s) /\ h.len = Len(s) /\ h.pos <= h.len /\ (h.changed \/ Len(s) = dir[f].len)
          /\ h.dirty => h.addr * SectorSize < h.pos
      BY <1>1, <1>2, <2>1 DEF Back
    <2>3. ASSUME u.h.dirty PROVE u.h.addr * SectorSize < u.h.pos
      <3>1. h.addr \in Int BY <1>1, <2>3, TopIsNat DEF IsHandle
      <3>2. SectorSize \in Nat BY FilesAssumption
      <3>3. PICK n \in Int : n = h.addr * SectorSize BY <3>1, <3>2
      <3> QED BY <1>1, <2>2, <2>3, <3>3
    <2> QED BY <2>1, <2>2, <2>3
  <1>4. s # Unknown => s \in Seq(Nat) BY <1>2
  <1> QED BY <1>3, <1>4, BackCall

\* fl_fseek,
LEMMA SeekCarries ==
    ASSUME IndInv, BackInv, ~cached, NEW f \in Files, NEW pos \in Nat, Seek(f, pos)
    PROVE  BackInv'
  <1> DEFINE h == handle[f]
             g == Forgets(h)
             to == Min({pos, h.len})
             k == [g EXCEPT !.pos = to]
             v == Now(f)
             u == [v EXCEPT !.h = g]
             w == [v EXCEPT !.h = k]
  <1>1. op = Idle /\ h.open /\ handle' = [handle EXCEPT ![f] = k] /\ GivesUp(f, h.dirty) BY DEF Seek
  <1>2. UNCHANGED <<cached, fat, dir, data, op>> BY DEF Seek, cardVars
  <1>3. /\ IsLibrary(v, Own(f)) /\ IsHandle(h, Own(f)) /\ h.len \in Nat /\ v.h = h
    BY <1>1, CallBegins
  <1>4. to \in Nat /\ to <= h.len BY <1>3, Lesser
  <1>5. Full(v) BY <1>1, BackBegins
  <1>6. OthersAlone(f) BY SeekOK
  <1>7. v.fat = fat /\ v.data = data BY DEF Now
  <1> HIDE DEF to
  <1>8. /\ Same(g, h) /\ g.open = h.open /\ g.changed = h.changed /\ ~g.dirty /\ IsHandle(g, Own(f))
    BY <1>3, BuffersIs, BuffersIsHandle DEF Forgets
  <1>9. SameSector(k, g) /\ k.pos = to /\ k.len = g.len /\ k.changed = g.changed BY <1>8, PosIs
  <1>10. g = Buffers(h, None, Blanks) BY DEF Forgets
  <1> HIDE DEF v, g, k
  <1>11. u.fat = fat /\ u.data = data /\ u.h = g BY <1>3, <1>7, HandIs
  <1>12. w.fat = fat /\ w.data = data /\ w.h = k BY <1>3, <1>7, HandIs
  <1> HIDE DEF u, w, h
  <1>13. Full(u) /\ \A x : Carries(v, x) /\ ~v.h.dirty => Carries(u, x)
    <2>1. Moved(v, h) BY <1>3, NotMoved
    <2>2. None \notin Nat BY DEF None
    <2> QED BY <1>3, <1>5, <1>7, <1>10, <1>11, <2>1, <2>2, BlanksFull, BufferedIs
  <1>14. Full(w) /\ \A x : Carries(u, x) => Carries(w, x) BY <1>9, <1>11, <1>12, <1>13, CarriesSame
  <1>15. PICK s : /\ Contains(f, s)
                  /\ s # Unknown => s = content[f] /\ \A x : Carries(v, x) => Carries(w, x)
    <2>1. BackTypes BY DEF BackInv
    <2>2. Contains(f, IF h.dirty THEN Unknown ELSE content[f]) BY <1>1, <2>1, GivesUpIs DEF h
    <2> QED BY <1>3, <1>13, <1>14, <2>2
  <1>16. /\ w.h.open /\ w.h.changed = h.changed /\ w.h.len = h.len /\ w.h.pos = to /\ ~w.h.dirty
    BY <1>1, <1>8, <1>9, <1>12 DEF Same, SameSector
  <1> QED BY <1>1, <1>2, <1>4, <1>6, <1>12, <1>14, <1>15, <1>16, BackReads DEF h, v

\* fl_fflush,
LEMMA FlushCarries ==
    ASSUME IndInv, BackInv, ~cached, NEW f \in Files, Flush(f) PROVE BackInv'
  <1> DEFINE w == Flushed(Now(f))
             h == handle[f]
  <1>1. op = Idle /\ h.open /\ Becomes(f, w) /\ UNCHANGED <<cached, dir, op, content>>
    BY DEF Flush
  <1>2. IsLibrary(Now(f), Own(f)) /\ Now(f).h = h /\ h.pos \in Nat BY <1>1, CallBegins
  <1>3. /\ Full(Now(f)) /\ Straight(Now(f).fat, Now(f).h.start)
    BY <1>1, BackBegins
  <1>4. /\ Full(w) /\ Rests(w.h, h) /\ (w.h.dirty => h.dirty)
        /\ \A s : Carries(Now(f), s) => Carries(w, s)
    BY <1>2, <1>3, FlushedIs, TopIsNat
  <1>5. OthersAlone(f) BY FlushOK
  <1>6. Contains(f, content[f]) BY <1>1 DEF Contains, BackInv, BackTypes
  <1> HIDE DEF w
  <1>7. fat' = w.fat /\ data' = w.data /\ handle' = [handle EXCEPT ![f] = w.h]
    BY <1>1 DEF Becomes
  <1>8. w.h.open /\ w.h.changed = h.changed /\ w.h.len = h.len /\ w.h.pos = h.pos
        /\ (w.h.dirty => h.dirty /\ w.h.addr = h.addr)
    BY <1>1, <1>4 DEF Rests, Same
  <1>9. /\ w.h.pos \in Nat /\ (h.pos <= h.len => w.h.pos <= h.len)
        /\ w.h.dirty => h.dirty /\ w.h.addr = h.addr /\ h.pos <= w.h.pos
    BY <1>2, <1>8
  <1>10. content[f] # Unknown => content[f] = content[f] /\ \A x : Carries(Now(f), x) => Carries(w, x)
    BY <1>4
  <1>11. UNCHANGED <<cached, dir, op>> BY <1>1
  <1>12. Full(w) BY <1>4
  <1>13. op = Idle /\ h.open BY <1>1
  <1> QED BY ONLY IndInv, BackInv, ~cached, <1>13, <1>12, <1>5, <1>6, <1>7, <1>8, <1>9, <1>10, <1>11, BackReads

\* fl_fread,
LEMMA ReadCarries ==
    ASSUME IndInv, BackInv, ~cached, NEW f \in Files, NEW left \in Nat, Read(f, left)
    PROVE  BackInv'
  <1> DEFINE h == handle[f]
             count == Min({left, h.len - h.pos})
             idx == h.pos \div SectorSize
             offset == h.pos % SectorSize
             whole == offset = 0 /\ count >= SectorSize
             part == IF whole THEN SectorSize ELSE Min({count, SectorSize - offset})
             near == ~whole /\ h.addr = idx
             w == IF whole \/ near THEN Now(f) ELSE Flushed(Now(f))
             r == ReadSector(w, idx)
             read == IF whole THEN r.h ELSE Buffers(r.h, idx, r.bytes)
             lost == ~whole /\ ~near /\ r.ok /\ w.h.dirty
  <1>1. /\ op = Idle /\ h.open /\ h.pos < h.len /\ UNCHANGED <<cached, dir, op>>
        /\ near => Becomes(f, [w EXCEPT !.h.pos = w.h.pos + part])
        /\ ~near /\ ~r.ok => Becomes(f, [w EXCEPT !.h = r.h])
        /\ ~near /\ r.ok => Becomes(f, [w EXCEPT !.h = [read EXCEPT !.pos = read.pos + part]])
        /\ GivesUp(f, lost)
    BY Zenon DEF Read
  <1>0. h.pos < h.len BY <1>1, Zenon
  <1>2. /\ IsLibrary(Now(f), Own(f)) /\ Now(f).h = h /\ h.len \in Nat /\ h.pos \in Nat
        /\ h.len <= Room(f) /\ Grows(Now(f), Now(f), Own(f), Own(f))
    BY <1>1, CallBegins
  <1>3. idx \in 0 .. Top
    <2>1. h.pos < Room(f)
      <3>1. Room(f) \in Nat BY FilesAssumption DEF Room
      <3> QED BY <1>0, <1>2, <3>1
    <2> QED BY <1>2, <2>1, IndexOK
  <1>4. part \in Nat /\ h.pos + part <= h.len
    <2>1. SectorSize \in Nat \ {0} BY FilesAssumption
    <2>2. offset \in Nat /\ offset < SectorSize BY <1>2, <2>1, Quotient
    <2>3. h.len - h.pos \in Nat BY <1>0, <1>2
    <2>4. count \in Nat /\ count <= h.len - h.pos BY <2>3, Lesser
    <2> HIDE DEF offset, count
    <2>5. SectorSize - offset \in Nat BY <2>1, <2>2
    <2>6. Min({count, SectorSize - offset}) \in Nat /\ Min({count, SectorSize - offset}) <= count
      BY <2>4, <2>5, Lesser
    <2>7. part \in Nat /\ part <= count
      <3>1. CASE whole BY <2>1, <3>1
      <3>2. CASE ~whole BY <2>6, <3>2
      <3> QED BY <3>1, <3>2
    <2> HIDE DEF part, h
    <2> QED BY <1>2, <2>4, <2>7
  <1> HIDE DEF idx, part
  <1>5. PICK T : IsLibrary(w, T) /\ Grows(Now(f), w, Own(f), T)
    BY <1>2, FlushedOK, TopIsNat DEF GoesOn
  <1>6. /\ Full(w) /\ Rests(w.h, h) /\ (w.h.dirty => h.dirty)
        /\ \A s : Carries(Now(f), s) => Carries(w, s)
    <2>1. Full(Now(f)) /\ Straight(Now(f).fat, Now(f).h.start) BY <1>1, BackBegins
    <2>2. CASE whole \/ near BY <1>2, <2>1, <2>2 DEF Rests, Same
    <2>3. CASE ~(whole \/ near) BY <1>2, <2>1, <2>3, FlushedIs, TopIsNat
    <2> QED BY <2>2, <2>3
  <1> HIDE DEF w
  <1>7. IsHandle(w.h, T) BY <1>5 DEF IsLibrary
  <1>8. IsHandle(r.h, T) BY <1>3, <1>5, TopIsNat, ReadSectorOK
  <1>9. /\ Moved(w, r.h) /\ r.bytes \in FullSectors /\ r.ok \in BOOLEAN
        /\ AtOK(w) /\ PlaceAt(w, idx) \in Clusters => r.bytes = w.data[PlaceAt(w, idx)]
    BY <1>3, <1>5, <1>6, TopIsNat, ReadMoves
  <1>10. OthersAlone(f) BY ReadOK
  <1> HIDE DEF r, read, whole, near
  \* The call ends with handle k, moved on or not.
  <1>11. ASSUME NEW k, NEW u, u.fat = w.fat, u.data = w.data, u.h = k,
                Full(u), k.open, k.changed = h.changed, k.len = h.len, k.pos = h.pos,
                k.dirty => h.dirty /\ k.addr = h.addr,
                lost \/ \A s : Carries(Now(f), s) => Carries(u, s),
                NEW z, z.fat = w.fat, z.data = w.data, SameSector(z.h, k), z.h.len = k.len,
                z.h.changed = k.changed, z.h.pos \in {k.pos, k.pos + part}, Becomes(f, z)
         PROVE  BackInv'
    <2>1. Full(z) /\ \A s : Carries(u, s) => Carries(z, s) BY <1>11, CarriesSame
    <2>2. fat' = z.fat /\ data' = z.data /\ handle' = [handle EXCEPT ![f] = z.h]
      BY <1>11 DEF Becomes
    <2> HIDE DEF lost
    <2>3. PICK s : /\ Contains(f, s)
                   /\ s # Unknown => s = content[f] /\ \A x : Carries(Now(f), x) => Carries(z, x)
      <3>1. BackTypes BY DEF BackInv
      <3>2. Contains(f, IF lost THEN Unknown ELSE content[f]) BY <1>1, <3>1, GivesUpIs
      <3> QED BY <1>11, <2>1, <3>2
    <2>4. z.h.pos \in Nat /\ z.h.pos <= h.len /\ h.pos <= z.h.pos BY <1>0, <1>2, <1>4, <1>11
    <2>5. z.h.open /\ z.h.changed = h.changed /\ z.h.len = h.len /\ (z.h.dirty => h.dirty /\ z.h.addr = h.addr)
      BY <1>11 DEF SameSector
    <2> QED BY <1>1, <1>10, <2>1, <2>2, <2>3, <2>4, <2>5, BackReads
  <1>12. \A k : IsHandle(k, T) => [k EXCEPT !.pos = k.pos + part].pos = k.pos + part
                                  /\ SameSector([k EXCEPT !.pos = k.pos + part], k)
                                  /\ [k EXCEPT !.pos = k.pos + part].len = k.len
                                  /\ [k EXCEPT !.pos = k.pos + part].changed = k.changed
    BY PosIs
  <1> DEFINE On(k) == [w EXCEPT !.h = [k EXCEPT !.pos = k.pos + part]]
  <1>13. ASSUME NEW k, IsHandle(k, T)
         PROVE  /\ On(k).fat = w.fat /\ On(k).data = w.data /\ SameSector(On(k).h, k)
                /\ On(k).h.len = k.len /\ On(k).h.changed = k.changed /\ On(k).h.pos = k.pos + part
    <2> DEFINE g == [k EXCEPT !.pos = k.pos + part]
    <2>1. g.pos = k.pos + part /\ SameSector(g, k) /\ g.len = k.len /\ g.changed = k.changed
      BY <1>12, <1>13
    <2>2. On(k) = [w EXCEPT !.h = g] OBVIOUS
    <2> HIDE DEF g, On
    <2>3. On(k).fat = w.fat /\ On(k).data = w.data /\ On(k).h = g BY <1>5, <2>2, HandIs
    <2> QED BY <2>1, <2>3
  <1>14. CASE near
    <2>1. [w EXCEPT !.h.pos = w.h.pos + part] = On(w.h) BY Zenon
    <2> HIDE DEF On
    <2>2. Becomes(f, On(w.h)) BY <1>1, <1>14, <2>1
    <2>3. On(w.h).fat = w.fat /\ On(w.h).data = w.data /\ SameSector(On(w.h).h, w.h)
          /\ On(w.h).h.len = w.h.len /\ On(w.h).h.changed = w.h.changed
          /\ On(w.h).h.pos = w.h.pos + part
      BY <1>7, <1>13
    <2>4. w.h.open /\ w.h.changed = h.changed /\ w.h.len = h.len /\ w.h.pos = h.pos
          /\ (w.h.dirty => h.dirty /\ w.h.addr = h.addr)
      BY <1>1, <1>6 DEF Rests, Same
    <2> HIDE DEF lost, h
    <2> QED BY <1>6, <1>11, <2>2, <2>3, <2>4
  <1>15. /\ SameButAt(r.h, w.h) /\ r.h.open /\ r.h.changed = h.changed /\ r.h.len = h.len
         /\ r.h.pos = h.pos /\ (r.h.dirty => h.dirty /\ r.h.addr = h.addr)
    BY <1>1, <1>6, <1>9 DEF Moved, SameButAt, Rests, Same
  <1> DEFINE u == [w EXCEPT !.h = r.h]
  <1>16. u.fat = w.fat /\ u.data = w.data /\ u.h = r.h BY <1>5, HandIs
  <1> HIDE DEF u
  <1>17. Full(u) /\ \A s : Carries(Now(f), s) => Carries(u, s) BY <1>5, <1>6, <1>9, <1>16, MovedIs
  <1>18. CASE ~near /\ ~r.ok
    <2>1. Becomes(f, u) BY <1>1, <1>18 DEF u
    <2>2. SameSector(u.h, r.h) BY <1>16 DEF SameSector
    <2> HIDE DEF lost, h
    <2> QED BY <1>11, <1>15, <1>16, <1>17, <2>1, <2>2
  <1>19. CASE ~near /\ r.ok
    <2>1. Becomes(f, On(read)) BY <1>1, <1>19
    <2> HIDE DEF On
    <2>2. CASE whole
      <3>1. read = r.h BY <2>2 DEF read
      <3>2. Becomes(f, On(r.h)) BY <2>1, <3>1
      <3> HIDE DEF lost, h
      <3>3. On(r.h).fat = w.fat /\ On(r.h).data = w.data /\ SameSector(On(r.h).h, r.h)
            /\ On(r.h).h.len = r.h.len /\ On(r.h).h.changed = r.h.changed
            /\ On(r.h).h.pos = r.h.pos + part
        BY <1>8, <1>13
      <3> QED BY <1>11, <1>15, <1>16, <1>17, <3>2, <3>3
    <2>3. CASE ~whole
      <3> DEFINE b == Buffers(r.h, idx, r.bytes)
                 x == [w EXCEPT !.h = b]
      <3>1. read = b BY <2>3 DEF read
      <3>2. Becomes(f, On(b)) BY <2>1, <3>1
      <3>3. IsHandle(b, T) BY <1>8, BuffersIsHandle
      <3>4. Same(b, r.h) /\ b.open = r.h.open /\ b.changed = r.h.changed /\ ~b.dirty
        BY <1>8, BuffersIs
      <3>5. x.fat = w.fat /\ x.data = w.data /\ x.h = b BY <1>5, HandIs
      <3>6. x.h = Buffers(r.h, idx, r.bytes) BY <3>5
      <3> HIDE DEF b, x
      <3>7. Full(x) /\ \A s : Carries(w, s) /\ ~w.h.dirty => Carries(x, s)
        BY <1>5, <1>6, <1>8, <1>9, <3>5, <3>6, BufferedIs
      <3>8. lost <=> w.h.dirty BY <1>19, <2>3
      <3> HIDE DEF lost, h
      <3>9. lost \/ \A s : Carries(Now(f), s) => Carries(x, s) BY <1>6, <3>7, <3>8
      <3>10. On(b).fat = w.fat /\ On(b).data = w.data /\ SameSector(On(b).h, b)
             /\ On(b).h.len = b.len /\ On(b).h.changed = b.changed /\ On(b).h.pos = b.pos + part
        BY <1>13, <3>3
      <3>11. b.open /\ b.changed = h.changed /\ b.len = h.len /\ b.pos = h.pos
        BY <1>15, <3>4 DEF Same
      <3> QED BY <1>11, <3>2, <3>4, <3>5, <3>7, <3>9, <3>10, <3>11
    <2> QED BY <2>2, <2>3
  <1> QED BY <1>14, <1>18, <1>19

\* Bytes put into the buffer leave the rest of the handle.
LEMMA DirtiedIs ==
    ASSUME NEW h, NEW S, IsHandle(h, S), NEW bytes
    PROVE  LET g == Dirtied(h, bytes)
           IN  /\ Same(g, h) /\ g.open = h.open /\ g.changed = h.changed /\ g.at = h.at
               /\ g.addr = h.addr /\ g.buf = bytes /\ g.dirty
  BY Zenon DEF Dirtied, IsHandle, HandlesLike, Same

\* A file grows to the place of its handle, and never shrinks.
LEMMA GrownIs ==
    ASSUME NEW h, NEW S, IsHandle(h, S)
    PROVE  LET g == Grown(h)
           IN  /\ SameSector(g, h) /\ g.pos = h.pos
               /\ h.pos > h.len => g.len = h.pos /\ g.changed
               /\ ~(h.pos > h.len) => g.len = h.len /\ g.changed = h.changed
  <1>1. CASE h.pos > h.len
    <2>1. Grown(h) = Longer(h) BY <1>1 DEF Grown
    <2> QED BY <1>1, <2>1, LongerIs
  <1>2. CASE ~(h.pos > h.len)
    <2>1. Grown(h) = h BY <1>2 DEF Grown
    <2> QED BY <1>2, <2>1 DEF SameSector
  <1> QED BY <1>1, <1>2

\* What stays of a handle that is written with.
Stays(g, h) == Same(g, h) /\ g.open = h.open /\ g.changed = h.changed

\* Past the buffer, or
LEMMA WritesDirect ==
    ASSUME NEW w, NEW S, IsLibrary(w, S), ~cached, Full(w), Straight(w.fat, w.h.start),
           NEW pos \in Nat, pos % SectorSize = 0, pos \div SectorSize \in 0 .. Top, Top \in Nat,
           NEW count \in Nat \ {0}, NEW v \in Nat
    PROVE  LET bytes == Repeated(SectorSize, v)
               flushed == Flushed(w)
               cleared == [flushed EXCEPT !.h = Forgets(@)]
               r == WriteSector(cleared, pos \div SectorSize, bytes, count)
           IN  /\ \E T : IsLibrary(r.w, T)
               /\ Full(r.w) /\ Stays(r.w.h, w.h) /\ ~r.w.h.dirty /\ r.ok \in BOOLEAN
               /\ \A s \in Seq(Nat) :
                     Carries(w, s) /\ ~flushed.h.dirty /\ pos <= Len(s) =>
                         Carries(r.w, IF r.ok THEN Overwritten(s, pos, bytes) ELSE s)
  <1> DEFINE bytes == Repeated(SectorSize, v)
             idx == pos \div SectorSize
             flushed == Flushed(w)
             g == Forgets(flushed.h)
             cleared == [flushed EXCEPT !.h = g]
             r == WriteSector(cleared, idx, bytes, count)
  <1>1. PICK T : IsLibrary(flushed, T) BY FlushedOK DEF GoesOn
  <1>2. /\ Full(flushed) /\ Rests(flushed.h, w.h) /\ Straight(flushed.fat, flushed.h.start)
        /\ \A s : Carries(w, s) => Carries(flushed, s)
    BY FlushedIs
  <1>3. bytes \in FullSectors BY DEF FullSectors, Repeated
  <1> HIDE DEF flushed, bytes, idx
  <1>4. IsHandle(flushed.h, T) BY <1>1 DEF IsLibrary
  <1>5. /\ Same(g, flushed.h) /\ g.open = flushed.h.open /\ g.changed = flushed.h.changed
        /\ g.addr = None /\ ~g.dirty
    BY <1>4, BuffersIs DEF Forgets
  <1>6. g = Buffers(flushed.h, None, Blanks) /\ IsHandle(g, T)
    BY <1>4, BuffersIsHandle DEF Forgets
  <1> HIDE DEF g
  <1>7. IsLibrary(cleared, T) /\ cleared.fat = flushed.fat /\ cleared.data = flushed.data
        /\ cleared.h = g
    BY <1>1, <1>6, WithHandle
  <1> HIDE DEF cleared
  <1>8. Full(cleared) /\ \A s : Carries(flushed, s) /\ ~flushed.h.dirty => Carries(cleared, s)
    <2>1. Moved(flushed, flushed.h) BY NotMoved
    <2>2. None \notin Nat BY DEF None
    <2>3. cleared.h = Buffers(flushed.h, None, Blanks) BY <1>6, <1>7
    <2> QED BY <1>1, <1>2, <1>4, <1>7, <2>1, <2>2, <2>3, BlanksFull, BufferedIs
  <1>9. Straight(cleared.fat, cleared.h.start) BY <1>2, <1>5, <1>7 DEF Same
  <1>10. idx \in 0 .. Top BY DEF idx
  <1>11. WrittenTo(cleared, idx, bytes, r) /\ WroteOK(cleared, T, r)
    BY <1>7, <1>10, WriteSectorIs, WriteSectorOK
  <1>12. Full(r.w) /\ SameButAt(r.w.h, cleared.h) /\ r.ok \in BOOLEAN
    <2> HIDE DEF r
    <2> QED BY <1>3, <1>7, <1>8, <1>11, WroteIs
  <1>13. ASSUME NEW s \in Seq(Nat), Carries(w, s), ~flushed.h.dirty, pos <= Len(s)
         PROVE  Carries(r.w, IF r.ok THEN Overwritten(s, pos, bytes) ELSE s)
    <2>1. Carries(cleared, s) BY <1>2, <1>8, <1>13
    <2>2. ~cleared.h.dirty /\ cleared.h.addr = None BY <1>5, <1>7
    <2> QED BY <1>7, <1>8, <1>9, <1>13, <2>1, <2>2, DirectCarries DEF bytes, idx
  <1> HIDE DEF r
  <1>14. Stays(r.w.h, w.h) /\ ~r.w.h.dirty
    BY <1>2, <1>5, <1>7, <1>12 DEF Stays, SameButAt, Rests, Same
  <1>15. cleared = [flushed EXCEPT !.h = Forgets(@)] BY DEF cleared, g
  <1>16. \E U : IsLibrary(r.w, U) BY <1>11 DEF WroteOK
  <1> QED BY <1>12, <1>13, <1>14, <1>15, <1>16 DEF r, bytes, idx, flushed

\* through it.
LEMMA WritesThrough ==
    ASSUME NEW w, NEW S, IsLibrary(w, S), ~cached, Full(w), Straight(w.fat, w.h.start),
           NEW pos \in Nat, pos \div SectorSize \in 0 .. Top, Top \in Nat,
           NEW part \in Nat, (pos % SectorSize) + part <= SectorSize, NEW v \in Nat
    PROVE  LET bytes == Repeated(part, v)
               idx == pos \div SectorSize
               loaded == Loaded(w, idx)
               r == [loaded EXCEPT !.h = Dirtied(@, Overwritten(@.buf, pos % SectorSize, bytes))]
           IN  /\ \E T : IsLibrary(r, T)
               /\ Full(r) /\ Stays(r.h, w.h) /\ r.h.addr = idx
               /\ \A s \in Seq(Nat) :
                     Carries(w, s) /\ ~(Flushed(w).h.dirty /\ w.h.addr # idx) /\ pos <= Len(s) =>
                         Carries(r, Overwritten(s, pos, bytes))
  <1> DEFINE bytes == Repeated(part, v)
             idx == pos \div SectorSize
             loaded == Loaded(w, idx)
             buf == Overwritten(loaded.h.buf, pos % SectorSize, bytes)
             g == Dirtied(loaded.h, buf)
             r == [loaded EXCEPT !.h = g]
  <1>0. SectorSize \in Nat \ {0} /\ pos % SectorSize \in Nat BY FilesAssumption, Quotient
  <1>1. PICK T : IsLibrary(loaded, T) BY LoadedOK DEF GoesOn
  <1>2. loaded.h.addr = idx BY LoadedOK
  <1>3. /\ Full(loaded) /\ Same(loaded.h, w.h) /\ loaded.h.open = w.h.open
        /\ loaded.h.changed = w.h.changed
        /\ \A s : Carries(w, s) /\ (w.h.addr # idx => ~Flushed(w).h.dirty) => Carries(loaded, s)
    BY LoadedIs
  <1> HIDE DEF loaded
  <1>4. IsHandle(loaded.h, T) BY <1>1 DEF IsLibrary
  <1>5. buf \in FullSectors BY <1>0, <1>3, OverwrittenFull DEF Full
  <1>6. /\ Same(g, loaded.h) /\ g.open = loaded.h.open /\ g.changed = loaded.h.changed
        /\ g.at = loaded.h.at /\ g.addr = loaded.h.addr /\ g.buf = buf /\ g.dirty
    BY <1>4, DirtiedIs
  <1>12. IsHandle(g, T) BY <1>2, <1>4, DirtiedIsHandle
  <1> HIDE DEF g
  <1>7. r.fat = loaded.fat /\ r.data = loaded.data /\ r.h = g BY <1>1, HandIs
  <1>8. r = [loaded EXCEPT !.h = Dirtied(@, Overwritten(@.buf, pos % SectorSize, bytes))] BY DEF g
  <1>13. IsLibrary(r, T) BY <1>1, <1>12, WithHandle
  <1> HIDE DEF r
  <1>9. Full(r) BY <1>3, <1>5, <1>6, <1>7 DEF Full
  <1>10. ASSUME NEW s \in Seq(Nat), Carries(w, s), w.h.addr # idx => ~Flushed(w).h.dirty,
                pos <= Len(s)
         PROVE  Carries(r, Overwritten(s, pos, bytes))
    <2>1. Carries(loaded, s) BY <1>3, <1>10
    <2>2. r.h.start = loaded.h.start BY <1>6, <1>7 DEF Same
    <2>3. r.h.buf = Overwritten(loaded.h.buf, pos % SectorSize, Repeated(part, v))
      BY <1>6, <1>7
    <2>4. r.h.at = loaded.h.at /\ r.h.addr = loaded.h.addr /\ r.h.dirty BY <1>6, <1>7
    <2>5. loaded.h.addr = pos \div SectorSize BY <1>2
    <2>6. Full(loaded) BY <1>3
    <2> HIDE DEF buf, idx
    <2> QED BY <1>7, <1>10, <2>1, <2>2, <2>3, <2>4, <2>5, <2>6, ThroughCarries
  <1>11. Stays(r.h, w.h) /\ r.h.addr = idx BY <1>2, <1>3, <1>6, <1>7 DEF Stays, Same
  <1> HIDE DEF bytes, idx
  <1> QED BY <1>8, <1>9, <1>10, <1>11, <1>13 DEF bytes, idx, loaded

\* A call that writes.
LEMMA BackWrites ==
    ASSUME IndInv, BackInv, ~cached, NEW f \in Files, OthersAlone(f), op = Idle, handle[f].open,
           NEW w, NEW S, IsLibrary(w, S), Full(w), Stays(w.h, handle[f]), NEW to \in Nat,
           NEW s, Contains(f, s),
           s # Unknown =>
               /\ s \in Seq(Nat) /\ content[f] # Unknown /\ Carries(w, s)
               /\ Len(s) = (IF to > handle[f].len THEN to ELSE handle[f].len)
               /\ w.h.dirty => w.h.addr * SectorSize < to,
           Becomes(f, [w EXCEPT !.h = Grown([w.h EXCEPT !.pos = to])]),
           UNCHANGED <<cached, dir, op>>
    PROVE  BackInv'
  <1> DEFINE h == handle[f]
             m == [w.h EXCEPT !.pos = to]
             g == Grown(m)
             u == [w EXCEPT !.h = g]
  <1>1. IsHandle(w.h, S) BY DEF IsLibrary
  <1>2. IsHandle(m, S) /\ SameSector(m, w.h) /\ m.pos = to /\ m.len = w.h.len /\ m.changed = w.h.changed
    BY <1>1, PosIs, PosIsHandle
  <1> HIDE DEF m
  <1>3. /\ SameSector(g, m) /\ g.pos = m.pos
        /\ m.pos > m.len => g.len = m.pos /\ g.changed
        /\ ~(m.pos > m.len) => g.len = m.len /\ g.changed = m.changed
    BY <1>2, GrownIs
  <1> HIDE DEF g
  <1>4. u.fat = w.fat /\ u.data = w.data /\ u.h = g BY HandIs
  <1>5. fat' = u.fat /\ data' = u.data /\ handle' = [handle EXCEPT ![f] = u.h]
    <2>1. Becomes(f, u) BY DEF g, m
    <2> HIDE DEF u
    <2> QED BY <2>1 DEF Becomes
  <1> HIDE DEF u
  <1>6. SameSector(u.h, w.h) BY <1>2, <1>3, <1>4 DEF SameSector
  <1>7. Full(u) /\ \A x : Carries(w, x) => Carries(u, x) BY <1>4, <1>6, CarriesSame
  <1>8. h.len \in Nat /\ h.pos \in Nat /\ Now(f).h = h BY CallBegins
  <1>9. Back(Now(f), content[f], dir[f].len) BY BackBegins
  <1>10. u.h.open BY <1>6 DEF SameSector, Stays
  <1>11. Back(u, s, dir[f].len)
    <2> SUFFICES ASSUME s # Unknown
                 PROVE  /\ Carries(u, s) /\ u.h.len = Len(s) /\ u.h.pos <= Len(s)
                        /\ (u.h.changed \/ Len(s) = dir[f].len)
                        /\ u.h.dirty => u.h.addr * SectorSize < u.h.pos
      BY DEF Back
    <2>1. /\ h.len = Len(content[f]) /\ (h.changed \/ Len(content[f]) = dir[f].len)
      BY <1>8, <1>9 DEF Back
    <2>2. m.len = h.len /\ m.changed = h.changed BY <1>2 DEF Stays, Same
    <2>3. Carries(u, s) BY <1>7
    <2>4. u.h.pos = to BY <1>2, <1>3, <1>4
    <2>5. u.h.dirty => u.h.addr * SectorSize < u.h.pos BY <1>6, <2>4 DEF SameSector
    <2>6. u.h.len = Len(s) /\ u.h.pos <= Len(s) /\ (u.h.changed \/ Len(s) = dir[f].len)
      <3>1. CASE to > h.len BY <1>2, <1>3, <1>4, <1>8, <2>2, <2>4, <3>1
      <3>2. CASE ~(to > h.len) BY <1>2, <1>3, <1>4, <1>8, <2>1, <2>2, <2>4, <3>2
      <3> QED BY <3>1, <3>2
    <2> QED BY <2>3, <2>5, <2>6
  <1> QED BY <1>5, <1>7, <1>10, <1>11, BackCall

\* and fl_fwrite.
LEMMA WriteCarries ==
    ASSUME IndInv, BackInv, ~cached, NEW f \in Files, NEW left \in Nat \ {0}, NEW v \in Nat,
           Write(f, left, v)
    PROVE  BackInv'
  <1> DEFINE h == handle[f]
             c == content[f]
             pos == IF Appends(h.mode) THEN h.len ELSE h.pos
             idx == pos \div SectorSize
             offset == pos % SectorSize
             whole == offset = 0 /\ left >= SectorSize
             part == IF whole THEN SectorSize ELSE Min({left, SectorSize - offset})
             bytes == [i \in 1 .. part |-> v]
             flushed == Flushed(Now(f))
             cleared == [flushed EXCEPT !.h = Forgets(@)]
             direct == WriteSector(cleared, idx, bytes, left \div SectorSize)
             loaded == Loaded(Now(f), idx)
             through == [loaded EXCEPT !.h = Dirtied(@, Overwritten(@.buf, offset, bytes))]
             after == IF whole THEN direct.w ELSE through
             done == ~whole \/ direct.ok
             to == IF done THEN pos + part ELSE pos
             lost == flushed.h.dirty /\ (whole \/ h.addr # idx)
             s == IF c = Unknown \/ lost THEN Unknown
                  ELSE IF done THEN Overwritten(c, pos, bytes) ELSE c
  <1>1. /\ op = Idle /\ h.open /\ UNCHANGED <<cached, dir, op>> /\ pos + left <= Room(f)
        /\ Becomes(f, [after EXCEPT !.h = Grown([after.h EXCEPT !.pos = to])])
        /\ content' = [content EXCEPT ![f] = s]
    BY Zenon DEF Write
  <1>2. /\ IsLibrary(Now(f), Own(f)) /\ Now(f).h = h /\ h.len \in Nat /\ h.pos \in Nat
        /\ h.len <= Room(f)
    BY <1>1, CallBegins
  <1>a. PICK w, S : w = Now(f) /\ S = Own(f) OBVIOUS
  <1>3. pos \in Nat BY <1>2
  <1>4. SectorSize \in Nat \ {0} /\ Room(f) \in Nat BY FilesAssumption DEF Room
  <1>5. /\ Full(Now(f)) /\ Straight(Now(f).fat, Now(f).h.start)
        /\ c # Unknown => c \in Seq(Nat) /\ Carries(Now(f), c) /\ h.len = Len(c) /\ pos <= Len(c)
    <2>1. /\ Full(Now(f)) /\ Straight(Now(f).fat, Now(f).h.start)
          /\ c # Unknown => c \in Seq(Nat)
          /\ Back(Now(f), c, dir[f].len)
      BY <1>1, BackBegins
    <2>2. c # Unknown => Carries(Now(f), c) /\ h.len = Len(c) /\ h.pos <= Len(c)
      BY <1>2, <2>1 DEF Back
    <2> QED BY <1>2, <2>1, <2>2
  <1> HIDE DEF pos
  <1>6. idx \in 0 .. Top
    <2>1. pos < Room(f) BY <1>1, <1>3, <1>4
    <2> QED BY <1>3, <2>1, IndexOK
  <1>7. offset \in Nat /\ offset < SectorSize /\ SectorSize * idx <= pos BY <1>3, <1>4, Quotient
  <1>8. part \in Nat \ {0} /\ (~whole => offset + part <= SectorSize) /\ (whole => part = SectorSize)
    <2> HIDE DEF offset
    <2>1. SectorSize - offset \in Nat \ {0} BY <1>4, <1>7
    <2>2. Min({left, SectorSize - offset}) \in {left, SectorSize - offset}
          /\ Min({left, SectorSize - offset}) <= SectorSize - offset
      BY <2>1, Lesser
    <2>3. CASE whole BY <1>4, <2>3
    <2>4. CASE ~whole
      <3>1. PICK m : m = Min({left, SectorSize - offset}) OBVIOUS
      <3>2. part = m BY <2>4, <3>1
      <3>3. m \in {left, SectorSize - offset} /\ m <= SectorSize - offset BY <2>2, <3>1
      <3>4. m \in Nat \ {0} /\ offset + m <= SectorSize BY <1>4, <1>7, <2>1, <3>3
      <3> QED BY <2>4, <3>2, <3>4
    <2> QED BY <2>3, <2>4
  <1>9. bytes = Repeated(part, v) BY DEF Repeated
  <1>10. whole => left \div SectorSize \in Nat \ {0}
    <2> SUFFICES ASSUME left >= SectorSize PROVE left \div SectorSize \in Nat \ {0} OBVIOUS
    <2> DEFINE q == left \div SectorSize
    <2>1. q \in Nat /\ left < SectorSize * q + SectorSize BY <1>4, Quotient
    <2> HIDE DEF q
    <2>2. q # 0 BY <1>4, <2>1
    <2> QED BY <2>1, <2>2 DEF q
  <1> HIDE DEF part, bytes
  <1>11. /\ \E T : IsLibrary(after, T)
         /\ Full(after) /\ Stays(after.h, h)
         /\ c # Unknown /\ ~lost => Carries(after, s)
         /\ after.h.dirty => ~whole /\ after.h.addr = idx
    <2>1. CASE whole
      <3>1. pos % SectorSize = 0 /\ part = SectorSize BY <1>8, <2>1
      <3>2. PICK count \in Nat \ {0} : count = left \div SectorSize BY <1>10, <2>1
      <3> DEFINE r == WriteSector([Flushed(w) EXCEPT !.h = Forgets(@)], pos \div SectorSize,
                                  Repeated(SectorSize, v), count)
      <3>3. direct = r BY <1>9, <1>a, <3>1, <3>2
      <3>4. /\ \E T : IsLibrary(r.w, T)
            /\ Full(r.w) /\ Stays(r.w.h, w.h) /\ ~r.w.h.dirty /\ r.ok \in BOOLEAN
            /\ \A x \in Seq(Nat) :
                  Carries(w, x) /\ ~Flushed(w).h.dirty /\ pos <= Len(x) =>
                      Carries(r.w, IF r.ok THEN Overwritten(x, pos, Repeated(SectorSize, v)) ELSE x)
        <4>1. IsLibrary(w, S) /\ Full(w) /\ Straight(w.fat, w.h.start) BY <1>2, <1>5, <1>a
        <4> QED BY <1>3, <1>6, <3>1, <4>1, TopIsNat, WritesDirect
      <3> HIDE DEF direct, r
      <3>5. after = direct.w BY <2>1
      <3>6. ASSUME c # Unknown, ~lost PROVE Carries(direct.w, s)
        <4>1. ~flushed.h.dirty BY <2>1, <3>6
        <4>2. s = IF direct.ok THEN Overwritten(c, pos, Repeated(SectorSize, v)) ELSE c
          BY <1>9, <2>1, <3>1, <3>6
        <4> QED BY <1>5, <1>a, <3>3, <3>4, <3>6, <4>1, <4>2
      <3> QED BY <1>2, <1>a, <2>1, <3>3, <3>4, <3>5, <3>6
    <2>2. CASE ~whole
      <3>1. part \in Nat /\ (pos % SectorSize) + part <= SectorSize BY <1>8, <2>2
      <3> DEFINE r == [Loaded(w, pos \div SectorSize) EXCEPT
                          !.h = Dirtied(@, Overwritten(@.buf, pos % SectorSize, Repeated(part, v)))]
      <3>2. through = r BY <1>9, <1>a
      <3>3. /\ \E T : IsLibrary(r, T)
            /\ Full(r) /\ Stays(r.h, w.h) /\ r.h.addr = pos \div SectorSize
            /\ \A x \in Seq(Nat) :
                  Carries(w, x) /\ ~(Flushed(w).h.dirty /\ w.h.addr # pos \div SectorSize)
                  /\ pos <= Len(x) =>
                      Carries(r, Overwritten(x, pos, Repeated(part, v)))
        <4>1. IsLibrary(w, S) /\ Full(w) /\ Straight(w.fat, w.h.start) BY <1>2, <1>5, <1>a
        <4> QED BY <1>3, <1>6, <3>1, <4>1, TopIsNat, WritesThrough
      <3> HIDE DEF through, r
      <3>4. after = through BY <2>2
      <3>5. ASSUME c # Unknown, ~lost PROVE Carries(through, s)
        <4>1. ~(flushed.h.dirty /\ h.addr # idx) BY <3>5
        <4>2. s = Overwritten(c, pos, Repeated(part, v)) BY <1>9, <2>2, <3>5
        <4> QED BY <1>2, <1>5, <1>a, <3>2, <3>3, <3>5, <4>1, <4>2
      <3> QED BY <1>2, <1>a, <2>2, <3>2, <3>3, <3>4, <3>5
    <2> QED BY <2>1, <2>2
  <1> HIDE DEF after, idx, offset, whole, done, lost, flushed
  <1>12. PICK T : IsLibrary(after, T) BY <1>11
  <1>13. to \in Nat BY <1>3, <1>8
  <1>14. Contains(f, s)
    <2>1. DOMAIN content = Files BY DEF BackInv, BackTypes
    <2> QED BY <1>1, <2>1 DEF Contains
  <1>15. ASSUME s # Unknown
         PROVE  /\ s \in Seq(Nat) /\ c # Unknown /\ Carries(after, s)
                /\ Len(s) = (IF to > h.len THEN to ELSE h.len)
                /\ after.h.dirty => after.h.addr * SectorSize < to
    <2>1. c # Unknown /\ ~lost /\ s = (IF done THEN Overwritten(c, pos, bytes) ELSE c) BY <1>15
    <2>2. c \in Seq(Nat) /\ h.len = Len(c) /\ pos <= Len(c) /\ Carries(after, s) BY <1>5, <1>11, <2>1
    <2>3. s \in Seq(Nat) /\ Len(s) = (IF to > h.len THEN to ELSE h.len)
      <3>1. CASE done
        <4>1. WrittenOver(Overwritten(c, pos, bytes), c, pos, part, v)
          BY <1>3, <1>8, <1>9, <2>2, OverwrittenIs
        <4>2. s = Overwritten(c, pos, bytes) /\ to = pos + part BY <2>1, <3>1
        <4> HIDE DEF s, to
        <4> QED BY <2>2, <4>1, <4>2 DEF WrittenOver
      <3>2. CASE ~done BY <1>3, <2>1, <2>2, <3>2
      <3> QED BY <3>1, <3>2
    <2>4. ASSUME after.h.dirty PROVE after.h.addr * SectorSize < to
      <3>1. after.h.addr = idx /\ to = pos + part BY <1>11, <2>4 DEF done
      <3>2. idx * SectorSize <= pos BY <1>4, <1>6, <1>7
      <3>3. idx * SectorSize \in Int BY <1>4, <1>6, TopIsNat
      <3> HIDE DEF to
      <3> QED BY <1>3, <1>8, <3>1, <3>2, <3>3
    <2> QED BY <2>1, <2>2, <2>3, <2>4
  <1>16. OthersAlone(f) BY WriteOK
  <1> HIDE DEF s, to, h, c
  <1> QED BY <1>1, <1>11, <1>12, <1>13, <1>14, <1>15, <1>16, BackWrites DEF h, c

\* What is carried with nothing waiting is on the card.
LEMMA StoredIs ==
    ASSUME NEW v, NEW s \in Seq(Nat), Carries(v, s), ~v.h.dirty
    PROVE  [i \in 1 .. Len(s) |-> Unit(v.fat, v.data, v.h.start, i - 1)] = s
  <1>1. ASSUME NEW i \in 1 .. Len(s) PROVE Unit(v.fat, v.data, v.h.start, i - 1) = s[i]
    <2>1. PICK p \in Nat : p = i - 1 /\ p < Len(s) /\ p + 1 = i
      <3>1. i - 1 \in Nat /\ i - 1 < Len(s) /\ (i - 1) + 1 = i OBVIOUS
      <3> QED BY <3>1
    <2>2. OnCard(v, s, p) BY <2>1 DEF Carries, Holds
    <2>3. Unit(v.fat, v.data, v.h.start, p) = s[p + 1] BY <2>2 DEF OnCard, PlaceAt, Unit
    <2> QED BY <2>1, <2>3
  <1> QED BY <1>1

\* fl_fclose,
LEMMA CloseCarries ==
    ASSUME IndInv, BackInv, ~cached, NEW f \in Files, Close(f) PROVE BackInv'
  <1> DEFINE v == Flushed(Now(f))
             w == [v EXCEPT !.h = Shut]
             h == handle[f]
             c == content[f]
             s == IF v.h.dirty THEN Unknown ELSE c
  <1>1. /\ op = Idle /\ h.open /\ Becomes(f, w) /\ cached' = cached
        /\ op' = [name |-> "purge", file |-> f] /\ GivesUp(f, v.h.dirty)
        /\ dir' = [dir EXCEPT ![f].len = IF v.h.changed THEN v.h.len ELSE dir[f].len]
    BY DEF Close
  <1>2. IsLibrary(Now(f), Own(f)) /\ Now(f).h = h /\ h.len \in Nat BY <1>1, CallBegins
  <1>3. PICK T : IsLibrary(v, T) BY <1>2, FlushedOK, TopIsNat DEF GoesOn
  <1>4. /\ Full(Now(f)) /\ Straight(Now(f).fat, Now(f).h.start)
        /\ (c # Unknown => c \in Seq(Nat)) /\ Back(Now(f), c, dir[f].len)
    BY <1>1, BackBegins
  <1>5. /\ Full(v) /\ Rests(v.h, h) /\ \A x : Carries(Now(f), x) => Carries(v, x)
    BY <1>2, <1>4, FlushedIs, TopIsNat
  <1>6. BackTypes /\ TypeOK /\ HandleOK(f) BY DEF BackInv, IndInv
  <1>7. Contains(f, s) BY <1>1, <1>6, GivesUpIs
  <1>8. OthersAlone(f) BY CloseOK
  <1> HIDE DEF v
  <1>9. w.fat = v.fat /\ w.data = v.data /\ w.h = Shut BY <1>3, HandIs
  <1> HIDE DEF w
  <1>10. fat' = v.fat /\ data' = v.data /\ handle' = [handle EXCEPT ![f] = Shut]
    BY <1>1, <1>9 DEF Becomes
  <1>11. ~handle'[f].open BY <1>6, <1>10 DEF TypeOK, Shut
  <1>12. h.start = dir[f].start
    <2>1. h # Shut BY <1>1 DEF Shut
    <2> QED BY <1>6, <2>1 DEF HandleOK
  <1>13. dir'[f].start = dir[f].start /\ dir'[f].len = IF v.h.changed THEN v.h.len ELSE dir[f].len
    BY <1>1, <1>6 DEF TypeOK, Entries
  <1>14. ASSUME s # Unknown PROVE Stored(fat, f)' = s
    <2>1. ~v.h.dirty /\ s = c /\ s \in Seq(Nat) /\ Carries(v, s) BY <1>4, <1>5, <1>14 DEF Back
    <2>2. h.len = Len(c) /\ (h.changed \/ Len(c) = dir[f].len) BY <1>2, <1>4, <1>14 DEF Back
    <2>3. dir'[f].len = Len(s) BY <1>5, <1>13, <2>1, <2>2 DEF Rests, Same
    <2>4. dir'[f].start = v.h.start BY <1>5, <1>12, <1>13 DEF Rests, Same
    <2>5. [i \in 1 .. Len(s) |-> Unit(v.fat, v.data, v.h.start, i - 1)] = s BY <2>1, StoredIs
    <2>6. Stored(fat, f)' = [i \in 1 .. dir'[f].len |-> Unit(fat', data', dir'[f].start, i - 1)]
      BY DEF Stored, Unit
    <2> HIDE DEF s
    <2> QED BY <1>10, <2>3, <2>4, <2>5, <2>6
  <1>15. content'[f] = s BY <1>7 DEF Contains
  <1>16. OpenBack(f)' BY <1>11 DEF OpenBack
  <1>17. ClosedBack(f)' BY <1>14, <1>15 DEF ClosedBack
  <1>18. content'[f] # Unknown => content'[f] \in Seq(Nat) BY <1>4, <1>15
  <1>19. \A g \in Files : g # f => content'[g] = content[g] /\ (Removing(g) => Removing(g)')
    BY <1>1, <1>7 DEF Contains, Removing, Idle
  <1>20. data' \in [Clusters -> FullSectors] /\ DOMAIN content' = Files
    BY <1>5, <1>7, <1>10 DEF Full, Contains
  <1> QED BY <1>1, <1>8, <1>11, <1>16, <1>17, <1>18, <1>19, <1>20, OthersBack

\* A handle that is new carries what is on the card.
LEMMA FreshBack ==
    ASSUME NEW u, NEW first, NEW s \in Seq(Nat), NEW mode, u.h = Fresh(first, Len(s), mode),
           \A i \in 1 .. Len(s) : s[i] = Unit(u.fat, u.data, first, i - 1)
    PROVE  Back(u, s, Len(s)) /\ u.h.buf \in FullSectors /\ u.h.open
  <1>1. /\ u.h.start = first /\ u.h.len = Len(s) /\ u.h.pos = 0 /\ ~u.h.dirty /\ u.h.addr = None
        /\ u.h.at = Nowhere /\ u.h.buf = Blanks /\ u.h.open
    BY DEF Fresh
  <1>2. AtOK(u) BY <1>1 DEF AtOK, Nowhere
  <1>3. Reach(u) BY <1>1 DEF Reach
  <1>4. ASSUME NEW p \in Nat, p < Len(s) PROVE Holds(u, s, p)
    <2>1. p + 1 \in 1 .. Len(s) /\ (p + 1) - 1 = p BY <1>4
    <2>2. s[p + 1] = Unit(u.fat, u.data, first, p) BY <2>1
    <2>3. s[p + 1] \in Nat BY <2>1
    <2>4. OnCard(u, s, p) BY <1>1, <2>2, <2>3 DEF OnCard, PlaceAt, Unit, None
    <2>5. p \div SectorSize \in Nat BY FilesAssumption, Quotient
    <2>6. p \div SectorSize # None BY <2>5 DEF None
    <2> QED BY <1>1, <2>4, <2>6 DEF Holds
  <1>5. Carries(u, s) BY <1>2, <1>3, <1>4 DEF Carries
  <1> QED BY <1>1, <1>5, BlanksFull DEF Back

\* fl_fopen of a file that exists,
LEMMA OpenCarries ==
    ASSUME IndInv, BackInv, ~cached, NEW f \in Files, NEW mode, Open(f, mode) PROVE BackInv'
  <1> DEFINE h == Fresh(dir[f].start, dir[f].len, mode)
             s == content[f]
  <1>1. /\ op = Idle /\ Exists(f) /\ ~handle[f].open /\ handle' = [handle EXCEPT ![f] = h]
        /\ UNCHANGED <<cached, fat, dir, data, op, content>>
    BY DEF Open
  <1>2. BackTypes /\ ClosedBack(f) /\ TypeOK BY DEF BackInv, IndInv
  <1>3. handle'[f] = h BY <1>1, <1>2 DEF TypeOK
  <1>4. ~Removing(f) BY <1>1 DEF Removing, Idle
  <1>5. OthersAlone(f) BY OpenOK
  <1>6. h.open /\ h.buf \in FullSectors BY BlanksFull DEF Fresh
  <1>7. OpenBack(f)'
    <2>1. PICK u : u = Now(f)' OBVIOUS
    <2>2. u.fat = fat /\ u.data = data /\ u.h = h BY <1>1, <1>3, <2>1 DEF Now
    <2>3. ASSUME s # Unknown PROVE Back(u, s, dir[f].len)
      <3>1. s \in Seq(Nat) /\ Stored(fat, f) = s BY <1>1, <1>2, <1>4, <2>3 DEF BackTypes, ClosedBack
      <3>2. s = [i \in 1 .. dir[f].len |-> Unit(fat, data, dir[f].start, i - 1)]
        BY <3>1 DEF Stored
      <3>3. dir[f].len \in Nat BY <1>2 DEF TypeOK, Entries
      <3> HIDE DEF s
      <3>4. dir[f].len = Len(s)
        <4>1. DOMAIN s = 1 .. dir[f].len BY <3>2
        <4>2. DOMAIN s = 1 .. Len(s) /\ Len(s) \in Nat BY <3>1
        <4> QED BY <3>3, <4>1, <4>2
      <3>5. \A i \in 1 .. Len(s) : s[i] = Unit(u.fat, u.data, dir[f].start, i - 1)
        BY <2>2, <3>2, <3>4
      <3>6. u.h = Fresh(dir[f].start, Len(s), mode) BY <2>2, <3>4
      <3>7. Back(u, s, Len(s)) BY <3>1, <3>5, <3>6, FreshBack
      <3> QED BY <3>4, <3>7
    <2>4. Back(u, s, dir[f].len) BY <2>3 DEF Back
    <2>5. Back(Now(f)', content'[f], dir'[f].len) BY <1>1, <2>1, <2>4
    <2> QED BY <2>5
      DEF OpenBack, Back, Carries, AtOK, Reach, Reached, Holds, OnCard, PlaceAt, Follow
  <1>8. ClosedBack(f)' BY <1>3, <1>6 DEF ClosedBack
  <1>9. \A g \in Files : g # f => content'[g] = content[g] /\ (Removing(g) => Removing(g)')
    BY <1>1 DEF Removing
  <1>10. data' \in [Clusters -> FullSectors] /\ DOMAIN content' = Files
         /\ (content'[f] # Unknown => content'[f] \in Seq(Nat))
    BY <1>1, <1>2 DEF BackTypes
  <1> HIDE DEF h
  <1> QED BY <1>1, <1>3, <1>5, <1>6, <1>7, <1>8, <1>9, <1>10, OthersBack

\* A step after which one file is closed and is not there, or is on its way out.
LEMMA GoneBack ==
    ASSUME IndInv, BackInv, ~cached, NEW f \in Files, OthersAlone(f),
           \A g \in Files : g # f => content'[g] = content[g] /\ (Removing(g) => Removing(g)'),
           UNCHANGED <<cached, data>>, ~handle'[f].open, ~Exists(f)' \/ Removing(f)',
           DOMAIN content' = Files, content'[f] = content[f] \/ content'[f] = <<>>
    PROVE  BackInv'
  <1>1. BackTypes BY DEF BackInv
  <1>2. data' \in [Clusters -> FullSectors] BY <1>1 DEF BackTypes
  <1>3. content'[f] # Unknown => content'[f] \in Seq(Nat)
    <2>1. CASE content'[f] = content[f] BY <1>1, <2>1 DEF BackTypes
    <2>2. CASE content'[f] = <<>> BY <2>2
    <2> QED BY <2>1, <2>2
  <1>4. OpenBack(f)' BY DEF OpenBack
  <1>5. ClosedBack(f)' BY DEF ClosedBack
  <1> QED BY <1>2, <1>3, <1>4, <1>5, OthersBack

\* its creation in two steps,
LEMMA CreateCarries ==
    ASSUME IndInv, BackInv, ~cached, NEW f \in Files, NEW mode, Create(f, mode) PROVE BackInv'
  <1>1. /\ op = Idle /\ ~Exists(f) /\ ~handle[f].open
        /\ UNCHANGED <<cached, dir, data, handle, content>>
    BY DEF Create, cardVars
  <1>2. OthersAlone(f) BY CreateOK
  <1>3. \A g \in Files : Removing(g) => Removing(g)' BY <1>1 DEF Removing, Idle
  <1>4. DOMAIN content' = Files BY <1>1 DEF BackInv, BackTypes
  <1>5. ~Exists(f)' BY <1>1 DEF Exists
  <1> QED BY <1>1, <1>2, <1>3, <1>4, <1>5, GoneBack

\* the entry of a new file, which is empty,
LEMMA AddEntryCarries ==
    ASSUME IndInv, BackInv, ~cached, AddEntry PROVE BackInv'
  <1>0. TypeOK /\ OpOK /\ BackTypes BY DEF IndInv, BackInv
  <1>a. op.name = "create" BY DEF AddEntry
  <1>b. op.file \in Files /\ op.cluster \in Clusters BY <1>0, <1>a DEF OpOK, Idle
  <1>c. PICK f \in Files, c \in Clusters : f = op.file /\ c = op.cluster BY <1>b
  <1> DEFINE h == Fresh(c, 0, op.mode)
  <1>1. /\ dir' = [dir EXCEPT ![f] = [start |-> c, len |-> 0]]
        /\ handle' = [handle EXCEPT ![f] = h]
        /\ content' = [content EXCEPT ![f] = <<>>]
        /\ UNCHANGED <<cached, fat, data>>
    BY <1>c DEF AddEntry
  <1>2. handle'[f] = h /\ dir'[f].len = 0 /\ content'[f] = <<>> /\ DOMAIN content' = Files
        /\ \A g \in Files : g # f => content'[g] = content[g]
    BY <1>0, <1>1 DEF TypeOK, BackTypes
  <1>3. OthersAlone(f) BY <1>c, AddEntryOK
  <1>4. h.open /\ h.buf \in FullSectors BY BlanksFull DEF Fresh
  <1>5. OpenBack(f)'
    <2>1. PICK u, s : u = Now(f)' /\ s = <<>> OBVIOUS
    <2>2. u.fat = fat /\ u.data = data /\ u.h = h BY <1>1, <1>2, <2>1 DEF Now
    <2>3. s \in Seq(Nat) /\ Len(s) = 0 BY <2>1
    <2>4. u.h = Fresh(c, Len(s), op.mode) BY <2>2, <2>3
    <2>5. \A i \in 1 .. Len(s) : s[i] = Unit(u.fat, u.data, c, i - 1) BY <2>3
    <2>6. Back(u, s, Len(s)) BY <2>3, <2>4, <2>5, FreshBack
    <2>7. Back(Now(f)', content'[f], dir'[f].len) BY <1>2, <2>1, <2>3, <2>6
    <2> QED BY <2>7
      DEF OpenBack, Back, Carries, AtOK, Reach, Reached, Holds, OnCard, PlaceAt, Follow
  <1>6. ClosedBack(f)' BY <1>2, <1>4 DEF ClosedBack
  <1>7. \A g \in Files : Removing(g) => Removing(g)' BY <1>a DEF Removing
  <1>8. data' \in [Clusters -> FullSectors] BY <1>0, <1>1 DEF BackTypes
  <1>9. content'[f] # Unknown => content'[f] \in Seq(Nat) BY <1>2
  <1> HIDE DEF h
  <1> QED BY <1>1, <1>2, <1>3, <1>4, <1>5, <1>6, <1>7, <1>8, <1>9, OthersBack

\* or none, and the file is not there;
LEMMA EntryFailsCarries ==
    ASSUME IndInv, BackInv, ~cached, EntryFails PROVE BackInv'
  <1>0. TypeOK /\ OpOK /\ BackTypes BY DEF IndInv, BackInv
  <1>a. op.name = "create" BY DEF EntryFails
  <1>b. op.file \in Files /\ dir[op.file] = NoEntry /\ handle[op.file] = Shut
    BY <1>0, <1>a DEF OpOK, Idle
  <1>c. PICK f \in Files : f = op.file BY <1>b
  <1>1. UNCHANGED <<cached, dir, data, handle, content>> BY DEF EntryFails, cardVars
  <1>2. OthersAlone(f) BY <1>c, EntryFailsOK
  <1>3. \A g \in Files : Removing(g) => Removing(g)' BY <1>a DEF Removing
  <1>4. DOMAIN content' = Files BY <1>0, <1>1 DEF BackTypes
  <1>5. ~Exists(f)' /\ ~handle'[f].open BY <1>b, <1>c, <1>1 DEF Exists, Shut
  <1> QED BY <1>1, <1>2, <1>3, <1>4, <1>5, GoneBack

\* fl_remove in two,
LEMMA RemoveCarries ==
    ASSUME IndInv, BackInv, ~cached, NEW f \in Files, Remove(f) PROVE BackInv'
  <1>1. /\ op = Idle /\ ~handle[f].open /\ op' = [name |-> "remove", file |-> f]
        /\ UNCHANGED <<cached, dir, data, handle, content>>
    BY DEF Remove
  <1>2. OthersAlone(f) BY RemoveOK
  <1>3. \A g \in Files : Removing(g) => Removing(g)' BY <1>1 DEF Removing, Idle
  <1>4. DOMAIN content' = Files BY <1>1 DEF BackInv, BackTypes
  <1>5. Removing(f)' BY <1>1 DEF Removing
  <1> QED BY <1>1, <1>2, <1>3, <1>4, <1>5, GoneBack

\* the second of which takes the file away,
LEMMA MarkDeletedCarries ==
    ASSUME IndInv, BackInv, ~cached, MarkDeleted PROVE BackInv'
  <1>0. TypeOK /\ OpOK /\ BackTypes BY DEF IndInv, BackInv
  <1>a. op.name = "remove" BY DEF MarkDeleted
  <1>b. op.file \in Files /\ handle[op.file] = Shut BY <1>0, <1>a DEF OpOK, Idle
  <1>c. PICK f \in Files : f = op.file BY <1>b
  <1>1. /\ dir' = [dir EXCEPT ![f] = NoEntry] /\ content' = [content EXCEPT ![f] = <<>>]
        /\ UNCHANGED <<cached, data, handle>>
    BY <1>c DEF MarkDeleted
  <1>2. OthersAlone(f) BY <1>c, MarkDeletedOK
  <1>3. \A g \in Files : g # f => content'[g] = content[g] /\ (Removing(g) => Removing(g)')
    BY <1>0, <1>1, <1>c DEF Removing, BackTypes
  <1>4. DOMAIN content' = Files /\ content'[f] = <<>> BY <1>0, <1>1 DEF BackTypes
  <1>5. ~Exists(f)' /\ ~handle'[f].open BY <1>0, <1>b, <1>c, <1>1 DEF Exists, Shut, TypeOK
  <1> QED BY <1>1, <1>2, <1>3, <1>4, <1>5, GoneBack

\* the purge that ends either, which changes no file's bytes,
LEMMA PurgeCarries ==
    ASSUME IndInv, BackInv, ~cached, Purge PROVE BackInv'
  <1>0. TypeOK /\ OpOK /\ BackTypes BY DEF IndInv, BackInv
  <1>a. op.name = "purge" /\ op' = Idle BY DEF Purge
  <1>b. op.file \in Files BY <1>0, <1>a DEF OpOK, Idle
  <1>c. PICK f \in Files : f = op.file BY <1>b
  <1>1. UNCHANGED <<cached, fat, dir, data, handle, content>> BY DEF Purge
  <1>2. OthersAlone(f) BY <1>c, PurgeOK
  <1>3. \A g \in Files : ~Removing(g) BY <1>a DEF Removing
  <1>4. OpenBack(f) /\ ClosedBack(f) BY DEF BackInv
  <1>5. OpenBack(f)'
    <2>1. PICK u : u = Now(f)' OBVIOUS
    <2>2. u.fat = Now(f).fat /\ u.data = Now(f).data /\ u.h = Now(f).h BY <1>1, <2>1 DEF Now
    <2>3. ASSUME handle[f].open PROVE Back(u, content[f], dir[f].len)
      <3>1. Back(Now(f), content[f], dir[f].len) BY <1>4, <2>3 DEF OpenBack
      <3> QED BY <2>2, <3>1, BackSame
    <2>4. handle'[f].open => Back(Now(f)', content'[f], dir'[f].len) BY <1>1, <2>1, <2>3
    <2> QED BY <2>4
      DEF OpenBack, Back, Carries, AtOK, Reach, Reached, Holds, OnCard, PlaceAt, Follow
  <1>6. ClosedBack(f)'
    <2>1. Stored(fat, f)' = Stored(fat, f) BY <1>1 DEF Stored, Unit, Follow
    <2> QED BY <1>1, <1>3, <1>4, <2>1 DEF ClosedBack, Exists
  <1>7. data' \in [Clusters -> FullSectors] /\ DOMAIN content' = Files
        /\ (content'[f] # Unknown => content'[f] \in Seq(Nat))
        /\ (handle'[f].open => handle'[f].buf \in FullSectors)
    BY <1>0, <1>1 DEF BackTypes
  <1> QED BY <1>1, <1>2, <1>3, <1>5, <1>6, <1>7, OthersBack

\* and a write-back.
LEMMA WriteBackCarries ==
    ASSUME IndInv, BackInv, ~cached, NEW s, WriteBack(s) PROVE BackInv'
  <1>1. UNCHANGED <<cached, data, op, content>> BY DEF WriteBack, ghosts
  <1>2. None \notin Files BY VolumeAssumption DEF Volume!VolumeConstants
  <1>3. OthersAlone(None) BY <1>2, WriteBackOK DEF OthersAlone
  <1>4. BackTypes BY DEF BackInv
  <1>5. data' \in [Clusters -> FullSectors] /\ DOMAIN content' = Files BY <1>1, <1>4 DEF BackTypes
  <1>6. \A g \in Files : content'[g] = content[g] /\ (Removing(g) => Removing(g)')
    BY <1>1 DEF Removing
  <1> QED BY <1>1, <1>2, <1>3, <1>5, <1>6, OthersBack

\* A step that does nothing changes nothing.
LEMMA StutterCarries ==
    ASSUME IndInv, BackInv, ~cached, UNCHANGED vars PROVE BackInv'
  <1>1. UNCHANGED vars BY DEF vars
  <1>2. UNCHANGED <<cached, fat, dir, data, card, handle, op, owner, content, kept>> BY DEF vars
  <1>3. None \notin Files BY VolumeAssumption DEF Volume!VolumeConstants
  <1>4. OthersAlone(None) BY <1>2 DEF OthersAlone, LeftAlone, Own
  <1>5. BackTypes BY DEF BackInv
  <1>6. data' \in [Clusters -> FullSectors] /\ DOMAIN content' = Files BY <1>2, <1>5 DEF BackTypes
  <1>7. \A g \in Files : content'[g] = content[g] /\ (Removing(g) => Removing(g)')
    BY <1>2 DEF Removing
  <1> QED BY <1>2, <1>3, <1>4, <1>6, <1>7, OthersBack

\* The kind of the library does not change.
LEMMA CachedStays == ASSUME [Next]_vars PROVE cached' = cached
  <1>1. CASE UNCHANGED vars BY <1>1 DEF vars
  <1>2. ASSUME NEW f \in Files, NEW mode, Open(f, mode) \/ Create(f, mode) PROVE cached' = cached
    BY <1>2 DEF Open, Create
  <1>3. CASE AddEntry \/ EntryFails \/ Purge \/ MarkDeleted
    BY <1>3 DEF AddEntry, EntryFails, Purge, MarkDeleted
  <1>4. ASSUME NEW s, WriteBack(s) PROVE cached' = cached BY <1>4 DEF WriteBack
  <1>5. ASSUME NEW f, NEW left, NEW v, Write(f, left, v) PROVE cached' = cached BY <1>5 DEF Write
  <1>6. ASSUME NEW f, NEW left, Read(f, left) PROVE cached' = cached BY <1>6 DEF Read
  <1>7. ASSUME NEW f, NEW pos, Seek(f, pos) PROVE cached' = cached BY <1>7 DEF Seek
  <1>8. ASSUME NEW f, Flush(f) \/ Close(f) \/ Remove(f) PROVE cached' = cached
    BY <1>8 DEF Flush, Close, Remove
  <1> QED BY <1>1, <1>2, <1>3, <1>4, <1>5, <1>6, <1>7, <1>8 DEF Next

\* Every step carries every file on,
LEMMA NextCarries == ASSUME IndInv, BackInv, [Next]_vars PROVE BackInv'
  <1>1. cached' = cached BY CachedStays
  <1>2. CASE cached BY <1>1, <1>2 DEF BackInv
  <1>3. ASSUME ~cached PROVE BackInv'
    <2>1. CASE UNCHANGED vars BY <1>3, <2>1, StutterCarries
    <2>2. ASSUME NEW f \in Files, NEW mode, Open(f, mode) \/ Create(f, mode) PROVE BackInv'
      BY <1>3, <2>2, OpenCarries, CreateCarries
    <2>3. CASE AddEntry \/ EntryFails \/ Purge \/ MarkDeleted
      BY <1>3, <2>3, AddEntryCarries, EntryFailsCarries, PurgeCarries, MarkDeletedCarries
    <2>4. ASSUME NEW s, WriteBack(s) PROVE BackInv' BY <1>3, <2>4, WriteBackCarries
    <2>5. ASSUME NEW f \in Files, NEW left \in Lengths, NEW v \in Values, Write(f, left, v)
          PROVE  BackInv'
      <3>1. left \in Nat \ {0} /\ v \in Nat BY FilesAssumption
      <3> QED BY <1>3, <2>5, <3>1, WriteCarries
    <2>6. ASSUME NEW f \in Seekers, NEW left \in Lengths, Read(f, left) PROVE BackInv'
      <3>1. f \in Files /\ left \in Nat BY FilesAssumption
      <3> QED BY <1>3, <2>6, <3>1, ReadCarries
    <2>7. ASSUME NEW f \in Seekers, NEW pos \in Positions, Seek(f, pos) PROVE BackInv'
      <3>1. f \in Files /\ pos \in Nat BY FilesAssumption
      <3> QED BY <1>3, <2>7, <3>1, SeekCarries
    <2>8. ASSUME NEW f \in Files, Flush(f) \/ Close(f) \/ Remove(f) PROVE BackInv'
      BY <1>3, <2>8, FlushCarries, CloseCarries, RemoveCarries
    <2> QED BY <2>1, <2>2, <2>3, <2>4, <2>5, <2>6, <2>7, <2>8 DEF Next
  <1> QED BY <1>2, <1>3

\* on an empty card there is none,
LEMMA InitCarries == ASSUME Init PROVE BackInv
  <1>1. /\ data = [c \in Clusters |-> Blanks] /\ dir = [f \in Files |-> NoEntry]
        /\ handle = [f \in Files |-> Shut] /\ content = [f \in Files |-> <<>>]
    BY DEF Init
  <1>2. data \in [Clusters -> FullSectors] BY <1>1, BlanksFull
  <1>3. \A f \in Files : ~Exists(f) /\ ~handle[f].open BY <1>1 DEF Exists, Shut
  <1>4. \A f \in Files : OpenBack(f) /\ ClosedBack(f) BY <1>3 DEF OpenBack, ClosedBack
  <1>5. <<>> \in Seq(Nat) OBVIOUS
  <1>6. DOMAIN content = Files /\ \A f \in Files : content[f] \in Seq(Nat) BY <1>1, <1>5
  <1> QED BY <1>2, <1>3, <1>4, <1>6 DEF BackInv, BackTypes

\* and so the invariant holds for good.
LEMMA BackInvariance == Spec => []BackInv
  <1>1. Init => BackInv BY InitCarries
  <1>2. IndInv /\ BackInv /\ [Next]_vars => BackInv' BY NextCarries
  <1> QED BY <1>1, <1>2, Invariance, PTL DEF Spec

\* What a handle carries is what a read would bring,
LEMMA CarriedIsAnswered ==
    ASSUME IndInv, BackInv, ~cached, NEW f \in Files, handle[f].open, NEW s, s = content[f],
           s # Unknown, NEW p \in Nat, p < Len(s)
    PROVE  Answer(f, p) = s[p + 1]
  <1> DEFINE h == handle[f]
             w == Now(f)
             k == [w.h EXCEPT !.buf = Blanks]
             v == [w EXCEPT !.h = k]
             idx == p \div SectorSize
             S == Own(f)
  <1>1. IsLibrary(w, S) /\ w.h = h /\ IsHandle(h, S) /\ h.len <= Room(f) /\ h.len \in Nat
    BY CallBegins
  <1>2. BackTypes /\ OpenBack(f) BY DEF BackInv
  <1>3. Back(w, s, dir[f].len) BY <1>2 DEF OpenBack
  <1>4. Carries(w, s) /\ h.len = Len(s) BY <1>1, <1>3 DEF Back
  <1>5. Holds(w, s, p) BY <1>4 DEF Carries
  <1>6. CASE h.addr = idx
    <2>1. h.buf[(p % SectorSize) + 1] = s[p + 1] BY <1>1, <1>5, <1>6 DEF Holds
    <2> QED BY <1>6, <2>1 DEF Answer
  <1>7. CASE h.addr # idx
    <2>1. OnCard(w, s, p) BY <1>1, <1>5, <1>7 DEF Holds
    <2>2. idx \in 0 .. Top
      <3>1. p < Room(f) /\ Room(f) \in Nat
        <4>1. Room(f) \in Nat BY FilesAssumption DEF Room
        <4>2. p < h.len BY <1>4
        <4> QED BY <1>1, <4>1, <4>2
      <3> QED BY <3>1, IndexOK
    <2>3. v = [Now(f) EXCEPT !.h.buf = Blanks] BY Zenon
    <2> HIDE DEF w
    <2>4. IsHandle(k, S) /\ k.start = w.h.start /\ k.at = w.h.at /\ k.buf = Blanks
      BY <1>1, Zenon DEF IsHandle, HandlesLike
    <2> HIDE DEF k
    <2>5. IsLibrary(v, S) /\ v.fat = w.fat /\ v.data = w.data /\ v.h = k
      BY ONLY <1>1, <2>4, WithHandle
    <2> HIDE DEF v
    <2>6. Full(v)
      <3>1. data \in [Clusters -> FullSectors] /\ w.data = data BY <1>2 DEF BackTypes, Now, w
      <3> QED BY <2>4, <2>5, <3>1, BlanksFull DEF Full
    <2>7. AtOK(v) /\ PlaceAt(v, idx) = PlaceAt(w, idx)
      <3>1. AtOK(w) BY <1>4 DEF Carries
      <3> QED BY <2>4, <2>5, <3>1 DEF AtOK, PlaceAt
    <2>8. PICK c : c = PlaceAt(w, idx) OBVIOUS
    <2>9. c \in Clusters /\ w.data[c][(p % SectorSize) + 1] = s[p + 1] BY <2>1, <2>8 DEF OnCard
    <2>10. ReadSector(v, idx).bytes = v.data[PlaceAt(v, idx)]
      BY <2>2, <2>5, <2>6, <2>7, <2>8, <2>9, ReadMoves, TopIsNat
    <2>11. Answer(f, p) = ReadSector(v, idx).bytes[(p % SectorSize) + 1]
      BY <1>7, <2>3 DEF Answer
    <2> QED BY <2>5, <2>7, <2>8, <2>9, <2>10, <2>11
  <1> QED BY <1>6, <1>7

\* Whatever the calls on whatever files, without the cluster cache a file gives
\* back what was written to it, through its handle and once it is closed.
THEOREM FilesReadBack == Spec => []ReadsBack
  <1>1. ASSUME IndInv, BackInv PROVE ReadsBack
    <2> SUFFICES ASSUME ~cached, NEW f \in Files, content[f] # Unknown
                 PROVE  /\ handle[f].open =>
                            /\ handle[f].len = Len(content[f])
                            /\ \A p \in 0 .. handle[f].len - 1 : Answer(f, p) = content[f][p + 1]
                            /\ handle[f].dirty => handle[f].addr * SectorSize < handle[f].pos
                        /\ Settled(f) => kept[f] = content[f]
      BY DEF ReadsBack, GivesBack
    <2>1. BackTypes /\ OpenBack(f) /\ ClosedBack(f) BY <1>1 DEF BackInv
    <2>2. ASSUME handle[f].open
          PROVE  /\ handle[f].len = Len(content[f])
                 /\ handle[f].dirty => handle[f].addr * SectorSize < handle[f].pos
      <3>1. Back(Now(f), content[f], dir[f].len) BY <2>1, <2>2 DEF OpenBack
      <3>2. Now(f).h = handle[f] BY DEF Now
      <3> QED BY <3>1, <3>2 DEF Back
    <2>3. ASSUME handle[f].open, NEW p \in 0 .. handle[f].len - 1
          PROVE  Answer(f, p) = content[f][p + 1]
      <3>1. content[f] \in Seq(Nat) BY <2>1 DEF BackTypes
      <3>2. p \in Nat /\ p < Len(content[f]) BY <2>2, <2>3, <3>1
      <3> QED BY <1>1, <2>3, <3>2, CarriedIsAnswered
    <2>4. ASSUME Settled(f) PROVE kept[f] = content[f]
      <3>1. Exists(f) /\ ~handle[f].open /\ ~Removing(f) BY <2>4 DEF Settled, Removing, Idle
      <3>2. Stored(fat, f) = content[f] BY <2>1, <3>1 DEF ClosedBack
      <3>3. kept[f] = Stored(fat, f) BY <1>1, <2>4 DEF IndInv, SettledOK
      <3> QED BY <3>2, <3>3
    <2> QED BY <2>2, <2>3, <2>4
  <1>2. IndInv /\ BackInv => ReadsBack BY <1>1
  <1> QED BY <1>2, Invariance, BackInvariance, PTL

(***************************************************************************)
(* Any volume.  FatVolume keeps chains apart by itself, whatever allocates *)
(* from it, extends and releases, and in whatever order.  What makes it so *)
(* is that links never cross files, that no two links lead to one cluster  *)
(* and that none leads to a file's first: so a chain that is freed takes   *)
(* along all that leads into it.                                           *)
(***************************************************************************)
VARIABLES anyFat, anyOwner, anyStart
AnyVol == INSTANCE FatVolume
            WITH fat <- anyFat, owner <- anyOwner, start <- anyStart

AnyTypeOK ==
    /\ anyFat \in [Clusters -> Clusters \union {Free, Last}]
    /\ anyOwner \in [Clusters -> Files \union {None}]
    /\ anyStart \in [Files -> Clusters \union {None}]

AnyFreeIsUnowned == \A c \in Clusters : anyFat[c] = Free <=> anyOwner[c] = None
AnyLinksStayInFile ==
    \A c \in Clusters : anyFat[c] \in Clusters => anyOwner[anyFat[c]] = anyOwner[c]
AnyLinksApart ==
    \A c, d \in Clusters : anyFat[c] \in Clusters /\ c # d => anyFat[c] # anyFat[d]
AnyFirstIsOwned == \A f \in Files : anyStart[f] # None => anyOwner[anyStart[f]] = f
AnyFirstIsUnlinked ==
    \A f \in Files, c \in Clusters : anyStart[f] # None => anyFat[c] # anyStart[f]

AnyIInv ==
    /\ AnyTypeOK /\ AnyFreeIsUnowned /\ AnyLinksStayInFile
    /\ AnyLinksApart /\ AnyFirstIsOwned /\ AnyFirstIsUnlinked

\* Every set that has the first cluster and is closed has the chain.
LEMMA AnyChainIsLeast ==
    ASSUME NEW f \in Files, NEW S \in SUBSET Clusters, anyStart[f] \in S, AnyVol!Closed(S)
    PROVE  AnyVol!Chain(f) \subseteq S
  BY DEF AnyVol!Chain

\* A chain has the first cluster and is closed itself.
LEMMA AnyChainIsClosed ==
    ASSUME AnyTypeOK, NEW f \in Files, anyStart[f] # None
    PROVE  /\ anyStart[f] \in AnyVol!Chain(f) /\ AnyVol!Closed(AnyVol!Chain(f))
           /\ AnyVol!Chain(f) \subseteq Clusters
  <1>1. anyStart[f] \in Clusters BY DEF AnyTypeOK
  <1>2. anyStart[f] \in AnyVol!Chain(f) BY <1>1 DEF AnyVol!Chain
  <1>3. ASSUME NEW c \in AnyVol!Chain(f), anyFat[c] \in Clusters PROVE anyFat[c] \in AnyVol!Chain(f)
    <2>1. ASSUME NEW S \in SUBSET Clusters, anyStart[f] \in S, AnyVol!Closed(S)
          PROVE  anyFat[c] \in S
      <3>1. c \in S BY <2>1 DEF AnyVol!Chain
      <3> QED BY <3>1, <2>1, <1>3 DEF AnyVol!Closed
    <2> QED BY <2>1, <1>3 DEF AnyVol!Chain
  <1> QED BY <1>2, <1>3 DEF AnyVol!Closed, AnyVol!Chain

\* A file has all the clusters of its chain.
LEMMA AnyChainIsOwned ==
    ASSUME AnyIInv, NEW f \in Files, anyStart[f] # None
    PROVE  \A c \in AnyVol!Chain(f) : anyOwner[c] = f
  <1> DEFINE Mine == {c \in Clusters : anyOwner[c] = f}
  <1>1. anyStart[f] \in Mine BY DEF AnyIInv, AnyTypeOK, AnyFirstIsOwned
  <1>2. AnyVol!Closed(Mine) BY DEF AnyVol!Closed, AnyIInv, AnyLinksStayInFile
  <1> QED BY <1>1, <1>2, AnyChainIsLeast

\* A cluster outside a chain has no link into it: without the cluster it
\* leads to, the chain would be smaller and closed all the same.
LEMMA AnyChainHasNoWayIn ==
    ASSUME AnyIInv, NEW f \in Files, anyStart[f] # None,
           NEW c \in Clusters, c \notin AnyVol!Chain(f)
    PROVE  anyFat[c] \notin AnyVol!Chain(f)
  <1> SUFFICES ASSUME anyFat[c] \in AnyVol!Chain(f) PROVE FALSE
    OBVIOUS
  <1> DEFINE Rest == AnyVol!Chain(f) \ {anyFat[c]}
  <1>1. /\ anyStart[f] \in AnyVol!Chain(f) /\ AnyVol!Closed(AnyVol!Chain(f))
        /\ AnyVol!Chain(f) \subseteq Clusters
    BY AnyChainIsClosed DEF AnyIInv
  <1>2. anyStart[f] \in Rest BY <1>1 DEF AnyIInv, AnyFirstIsUnlinked
  <1>3. AnyVol!Closed(Rest)
    <2> SUFFICES ASSUME NEW d \in Rest, anyFat[d] \in Clusters PROVE anyFat[d] \in Rest
      BY DEF AnyVol!Closed
    <2>1. anyFat[d] \in AnyVol!Chain(f) BY <1>1 DEF AnyVol!Closed
    <2>2. anyFat[d] # anyFat[c] BY <1>1 DEF AnyIInv, AnyLinksApart
    <2> QED BY <2>1, <2>2
  <1>4. AnyVol!Chain(f) \subseteq Rest
    <2> HIDE DEF Rest
    <2>1. Rest \in SUBSET Clusters BY <1>1 DEF Rest
    <2> QED BY <2>1, <1>2, <1>3, AnyChainIsLeast
  <1> QED BY <1>4

USE VolumeAssumption DEF Volume!VolumeConstants

\* An empty volume has the invariant.
LEMMA AnyInitIInv == AnyVol!Init => AnyIInv
  BY DEF AnyVol!Init, AnyIInv, AnyTypeOK, AnyFreeIsUnowned, AnyLinksStayInFile, AnyLinksApart,
         AnyFirstIsOwned, AnyFirstIsUnlinked

\* No link leads to a free cluster.
LEMMA AnyNoLinkToFree ==
    ASSUME AnyIInv, NEW c \in Clusters, NEW d \in Clusters, anyFat[d] = Free
    PROVE  anyFat[c] # d
  BY DEF AnyIInv, AnyFreeIsUnowned, AnyLinksStayInFile, AnyTypeOK

\* It is kept by a file's first cluster,
LEMMA AnyAllocateIInv ==
    ASSUME AnyIInv, NEW f \in Files, NEW c \in Clusters, AnyVol!Allocate(f, c)
    PROVE  AnyIInv'
  <1> USE DEF AnyIInv
  <1>1. anyFat[c] = Free /\ anyOwner[c] = None
    BY DEF AnyVol!Allocate, AnyVol!Blank, AnyFreeIsUnowned
  <1>2. \A d \in Clusters : anyFat[d] # c BY <1>1, AnyNoLinkToFree
  <1>3. \A d \in Clusters : anyFat'[d] = IF d = c THEN Last ELSE anyFat[d]
    BY DEF AnyVol!Allocate, AnyTypeOK
  <1>4. \A d \in Clusters : anyOwner'[d] = IF d = c THEN f ELSE anyOwner[d]
    BY DEF AnyVol!Allocate, AnyTypeOK
  <1>5. \A g \in Files : anyStart'[g] = IF g = f THEN c ELSE anyStart[g]
    BY DEF AnyVol!Allocate, AnyTypeOK
  <1>6. AnyTypeOK' BY DEF AnyVol!Allocate, AnyTypeOK
  <1>7. AnyFreeIsUnowned' BY <1>3, <1>4 DEF AnyFreeIsUnowned
  <1>8. AnyLinksStayInFile' BY <1>2, <1>3, <1>4 DEF AnyLinksStayInFile
  <1>9. AnyLinksApart' BY <1>3 DEF AnyLinksApart
  <1>10. AnyFirstIsOwned' BY <1>1, <1>4, <1>5 DEF AnyFirstIsOwned, AnyTypeOK
  <1>11. AnyFirstIsUnlinked' BY <1>2, <1>3, <1>5 DEF AnyFirstIsUnlinked, AnyTypeOK
  <1> QED BY <1>6, <1>7, <1>8, <1>9, <1>10, <1>11

\* by clusters linked behind others,
LEMMA AnyExtendIInv ==
    ASSUME AnyIInv, NEW f \in Files, NEW C \in SUBSET Clusters, NEW N \in SUBSET Clusters,
           AnyVol!Extend(f, C, N)
    PROVE  AnyIInv'
  <1> USE DEF AnyIInv
  <1> DEFINE M == N \union C
  <1>1. PICK link \in [M -> N \union {Last}] :
            /\ \A d, e \in M : d # e /\ link[d] # Last => link[d] # link[e]
            /\ anyFat' = [d \in Clusters |-> IF d \in M THEN link[d] ELSE anyFat[d]]
    BY DEF AnyVol!Extend
  <1>2. /\ \A c \in C : anyOwner[c] = f
        /\ anyOwner' = [d \in Clusters |-> IF d \in N THEN f ELSE anyOwner[d]]
        /\ anyStart' = anyStart
    BY DEF AnyVol!Extend
  <1>3. \A d \in N : anyFat[d] = Free /\ anyOwner[d] = None
    BY DEF AnyVol!Extend, AnyVol!Blank, AnyFreeIsUnowned
  <1>4. \A d \in Clusters, e \in N : anyFat[d] # e BY <1>3, AnyNoLinkToFree
  <1>5. \A d \in Clusters : anyFat'[d] = IF d \in M THEN link[d] ELSE anyFat[d] BY <1>1
  <1>6. \A d \in M : link[d] \in N \union {Last} BY <1>1
  <1>7. \A d \in M : anyOwner'[d] = f BY <1>2
  <1>8. AnyTypeOK'
    BY <1>1, <1>2 DEF AnyTypeOK
  <1>9. AnyFreeIsUnowned'
    BY <1>2, <1>3, <1>5, <1>6, <1>7 DEF AnyFreeIsUnowned, AnyTypeOK
  <1>10. AnyLinksStayInFile'
    <2> SUFFICES ASSUME NEW d \in Clusters, anyFat'[d] \in Clusters
                 PROVE  anyOwner'[anyFat'[d]] = anyOwner'[d]
      BY DEF AnyLinksStayInFile
    <2>1. CASE d \in M BY <2>1, <1>5, <1>6, <1>7
    <2>2. CASE d \notin M BY <2>2, <1>2, <1>4, <1>5 DEF AnyLinksStayInFile
    <2> QED BY <2>1, <2>2
  <1>11. AnyLinksApart'
    <2> SUFFICES ASSUME NEW d \in Clusters, NEW e \in Clusters,
                        anyFat'[d] \in Clusters, d # e
                 PROVE  anyFat'[d] # anyFat'[e]
      BY DEF AnyLinksApart
    <2>1. CASE d \in M /\ e \in M BY <2>1, <1>1, <1>5
    <2>2. CASE d \in M /\ e \notin M BY <2>2, <1>4, <1>5, <1>6
    <2>3. CASE d \notin M /\ e \in M BY <2>3, <1>4, <1>5, <1>6
    <2>4. CASE d \notin M /\ e \notin M BY <2>4, <1>5 DEF AnyLinksApart
    <2> QED BY <2>1, <2>2, <2>3, <2>4
  <1>12. AnyFirstIsOwned' BY <1>2, <1>3 DEF AnyFirstIsOwned, AnyTypeOK
  <1>13. AnyFirstIsUnlinked'
    <2> SUFFICES ASSUME NEW g \in Files, NEW d \in Clusters, anyStart[g] # None
                 PROVE  anyFat'[d] # anyStart[g]
      BY <1>2 DEF AnyFirstIsUnlinked
    <2>1. anyStart[g] \in Clusters /\ anyStart[g] \notin N
      BY <1>3 DEF AnyFirstIsOwned, AnyTypeOK
    <2> QED BY <2>1, <1>5, <1>6 DEF AnyFirstIsUnlinked
  <1> QED BY <1>8, <1>9, <1>10, <1>11, <1>12, <1>13

\* by a chain that is freed,
LEMMA AnyReleaseIInv ==
    ASSUME AnyIInv, NEW f \in Files, AnyVol!Release(f)
    PROVE  AnyIInv'
  <1> DEFINE Gone == AnyVol!Chain(f)
  <1>1. \A c \in Clusters : anyFat'[c] = IF c \in Gone THEN Free ELSE anyFat[c]
    BY DEF AnyVol!Release
  <1>2. \A c \in Clusters : anyOwner'[c] = IF c \in Gone THEN None ELSE anyOwner[c]
    BY DEF AnyVol!Release
  <1>3. \A g \in Files : anyStart'[g] = IF g = f THEN None ELSE anyStart[g]
    BY DEF AnyVol!Release, AnyIInv, AnyTypeOK
  <1>4. \A c \in Gone : anyOwner[c] = f BY AnyChainIsOwned DEF AnyVol!Release
  <1>5. \A c \in Clusters \ Gone : anyFat[c] \notin Gone
    BY AnyChainHasNoWayIn DEF AnyVol!Release
  <1>6. AnyTypeOK' BY DEF AnyVol!Release, AnyIInv, AnyTypeOK
  <1> HIDE DEF Gone
  <1> USE DEF AnyIInv
  <1>7. AnyFreeIsUnowned' BY <1>1, <1>2 DEF AnyFreeIsUnowned
  <1>8. AnyLinksStayInFile' BY <1>1, <1>2, <1>5 DEF AnyLinksStayInFile
  <1>9. AnyLinksApart' BY <1>1 DEF AnyLinksApart
  <1>10. AnyFirstIsOwned' BY <1>2, <1>3, <1>4 DEF AnyFirstIsOwned, AnyTypeOK
  <1>11. AnyFirstIsUnlinked' BY <1>1, <1>3 DEF AnyFirstIsUnlinked, AnyTypeOK
  <1> QED BY <1>6, <1>7, <1>8, <1>9, <1>10, <1>11

\* and so by every step.
LEMMA AnyNextIInv == AnyIInv /\ [AnyVol!Next]_AnyVol!vars => AnyIInv'
  <1> SUFFICES ASSUME AnyIInv, [AnyVol!Next]_AnyVol!vars PROVE AnyIInv'
    OBVIOUS
  <1>1. CASE UNCHANGED AnyVol!vars
    BY <1>1 DEF AnyVol!vars, AnyIInv, AnyTypeOK, AnyFreeIsUnowned, AnyLinksStayInFile,
                AnyLinksApart, AnyFirstIsOwned, AnyFirstIsUnlinked
  <1>2. CASE AnyVol!Next
    BY <1>2, AnyAllocateIInv, AnyExtendIInv, AnyReleaseIInv DEF AnyVol!Next
  <1> QED BY <1>1, <1>2

\* The invariant keeps chains apart.
LEMMA AnyIInvChainsDisjoint == AnyIInv => AnyVol!ChainsDisjoint
  <1> SUFFICES ASSUME AnyIInv PROVE AnyVol!ChainsDisjoint
    OBVIOUS
  <1>1. \A f \in AnyVol!Present : \A c \in AnyVol!Chain(f) : anyOwner[c] = f /\ c \in Clusters
    BY AnyChainIsOwned DEF AnyVol!Present, AnyVol!Chain
  <1>2. ASSUME NEW f \in AnyVol!Present, NEW c \in AnyVol!Chain(f) PROVE anyFat[c] # Free
    <2>1. anyOwner[c] = f /\ c \in Clusters BY <1>1
    <2>2. f # None BY DEF AnyVol!Present, AnyIInv
    <2> QED BY <2>1, <2>2 DEF AnyIInv, AnyFreeIsUnowned
  <1> QED BY <1>1, <1>2 DEF AnyVol!ChainsDisjoint

\* However many files a volume has and however they are created, extended and
\* removed, no cluster is in two chains and no chain leads into a free cluster.
THEOREM ChainsStayDisjoint == AnyVol!Spec => []AnyVol!ChainsDisjoint
  BY AnyInitIInv, AnyNextIInv, AnyIInvChainsDisjoint, PTL DEF AnyVol!Spec

(***************************************************************************)
(* The FAT's buffers: the inductive invariant                              *)
(***************************************************************************)
\* What is read of the FAT, or behind it.
Words == SectorValues \union {Beyond}

Buffer == [address : Sectors \union {Invalid}, dirty : BOOLEAN,
           sector : [Offsets -> Words]]

TableTypeOK ==
    /\ onCard \in [Sectors -> Words] /\ intended \in [Sectors -> SectorValues]
    /\ list \in [Places -> Buffer]
    /\ overlapped \in BOOLEAN

NoOverlap == ~Overlap(list)

\* A buffer has of its sectors what was set.
BuffersTrue ==
    \A i \in Places, s \in Sectors :
        Has(list[i], s) => list[i].sector[s - list[i].address] = intended[s]

\* A sector that no buffer has changes of is on the card.
CardTrue ==
    \A s \in Sectors :
        (\A i \in Places : Has(list[i], s) => ~list[i].dirty) => onCard[s] = intended[s]

TableApart == ~overlapped => NoOverlap /\ BuffersTrue /\ CardTrue
IInv == TableTypeOK /\ TableApart

USE TableAssumption DEF Sectors, Places, Offsets, Invalid

(***************************************************************************)
(* Buffers                                                                 *)
(***************************************************************************)
LEMMA PlacesEnds == 1 \in Places /\ FatBuffers \in Places
  OBVIOUS

LEMMA HasOffset ==
    ASSUME NEW b \in Buffer, NEW s \in Sectors, Has(b, s)
    PROVE  s - b.address \in Offsets
  BY DEF Has, Buffer

LEMMA UnusedBuffer == Unused \in Buffer /\ \A s \in Sectors : ~Has(Unused, s)
  BY DEF Unused, Buffer, Has, Words

LEMMA FilledBuffer ==
    ASSUME NEW from \in [Sectors -> Words], NEW s \in Sectors
    PROVE  /\ Filled(from, s) \in Buffer
           /\ ~Filled(from, s).dirty
           /\ Filled(from, s).address = s
           /\ Has(Filled(from, s), s)
           /\ \A t \in Sectors : Has(Filled(from, s), t) =>
                Filled(from, s).sector[t - s] = from[t]
  <1>1. Filled(from, s) \in Buffer BY DEF Filled, Buffer, Words
  <1>2. Filled(from, s).address = s /\ ~Filled(from, s).dirty BY DEF Filled
  <1>3. ASSUME NEW t \in Sectors, Has(Filled(from, s), t)
        PROVE  Filled(from, s).sector[t - s] = from[t]
    <2>1. t - s \in Offsets BY <1>1, <1>2, <1>3, HasOffset
    <2>2. s + (t - s) = t OBVIOUS
    <2> QED BY <2>1, <2>2 DEF Filled
  <1>4. Has(Filled(from, s), s) BY <1>2 DEF Has
  <1> QED BY <1>1, <1>2, <1>3, <1>4

LEMMA ChangedBuffer ==
    ASSUME NEW b \in Buffer, NEW s \in Sectors, Has(b, s), NEW v \in SectorValues
    PROVE  /\ Changed(b, s, v) \in Buffer
           /\ Changed(b, s, v).dirty
           /\ Changed(b, s, v).address = b.address
           /\ Changed(b, s, v).sector[s - b.address] = v
           /\ \A t \in Sectors : Has(b, t) /\ t # s =>
                Changed(b, s, v).sector[t - b.address] = b.sector[t - b.address]
           /\ \A t \in Sectors : Has(Changed(b, s, v), t) <=> Has(b, t)
  <1>1. s - b.address \in Offsets BY HasOffset
  <1>2. Changed(b, s, v) \in Buffer BY DEF Changed, Buffer, Words
  <1>3. Changed(b, s, v).sector = [b.sector EXCEPT ![s - b.address] = v]
    BY DEF Changed, Buffer
  <1>4. Changed(b, s, v).dirty /\ Changed(b, s, v).address = b.address
    BY DEF Changed, Buffer
  <1>5. b.sector \in [Offsets -> Words] BY DEF Buffer
  <1>6. ASSUME NEW t \in Sectors, Has(b, t), t # s
        PROVE  Changed(b, s, v).sector[t - b.address] = b.sector[t - b.address]
    <2>0. b.address \in Int /\ s \in Int /\ t \in Int BY DEF Buffer
    <2>1. t - b.address # s - b.address BY <2>0, <1>6
    <2>2. t - b.address \in Offsets BY <1>6, HasOffset
    <2> QED BY <2>1, <2>2, <1>3, <1>5
  <1>7. \A t \in Sectors : Has(Changed(b, s, v), t) <=> Has(b, t)
    BY <1>4 DEF Has
  <1> QED BY <1>1, <1>2, <1>3, <1>4, <1>5, <1>6, <1>7

LEMMA WrittenCard ==
    ASSUME NEW from \in [Sectors -> Words], NEW b \in Buffer,
           \A t \in Sectors : Has(b, t) => b.sector[t - b.address] = intended[t],
           intended \in [Sectors -> SectorValues]
    PROVE  /\ Written(from, b) \in [Sectors -> Words]
           /\ \A t \in Sectors :
                Written(from, b)[t] = IF Has(b, t) THEN intended[t] ELSE from[t]
  BY DEF Written, Words

LEMMA HeadOfList ==
    ASSUME NEW b
    PROVE  /\ ToHead(b)[1] = b
           /\ \A i \in Places : i # 1 => ToHead(b)[i] = list[i - 1] /\ i - 1 \in Places
           /\ \A i \in Places : i # FatBuffers => ToHead(b)[i + 1] = list[i] /\ i + 1 \in Places
  BY DEF ToHead

LEMMA HeadType ==
    ASSUME TableTypeOK, NEW b \in Buffer
    PROVE  ToHead(b) \in [Places -> Buffer]
  <1>1. \A i \in Places : ToHead(b)[i] \in Buffer BY HeadOfList DEF TableTypeOK
  <1> QED BY <1>1 DEF ToHead

\* With the spare buffer saved, the card has every sector that none of the
\* other buffers has changes of.
LEMMA SavedSectors ==
    ASSUME IInv, ~overlapped
    PROVE  /\ SpareSaved \in [Sectors -> Words]
           /\ \A t \in Sectors :
                (\A i \in Places : i # FatBuffers /\ Has(list[i], t) => ~list[i].dirty)
                    => SpareSaved[t] = intended[t]
  <1>1. Spare \in Buffer /\ Spare = list[FatBuffers]
    BY PlacesEnds DEF Spare, IInv, TableTypeOK
  <1>2. \A t \in Sectors : Has(Spare, t) => Spare.sector[t - Spare.address] = intended[t]
    BY <1>1, PlacesEnds DEF IInv, TableApart, BuffersTrue
  <1>3. CASE Spare.dirty
    <2>1. SpareSaved = Written(onCard, Spare) BY <1>3 DEF SpareSaved
    <2>2. /\ SpareSaved \in [Sectors -> Words]
          /\ \A t \in Sectors : SpareSaved[t] = IF Has(Spare, t) THEN intended[t] ELSE onCard[t]
      BY <2>1, <1>1, <1>2, WrittenCard DEF IInv, TableTypeOK
    <2> QED BY <2>2, <1>1 DEF IInv, TableApart, CardTrue
  <1>4. CASE ~Spare.dirty
    <2>1. SpareSaved = onCard BY <1>4 DEF SpareSaved
    <2> QED BY <2>1, <1>1, <1>4 DEF IInv, TableTypeOK, TableApart, CardTrue
  <1> QED BY <1>3, <1>4

\* The card's type does not depend on the buffers being apart.
LEMMA WrittenType ==
    ASSUME TableTypeOK, NEW b \in Buffer
    PROVE  Written(onCard, b) \in [Sectors -> Words]
  <1>1. ASSUME NEW t \in Sectors, Has(b, t) PROVE b.sector[t - b.address] \in Words
    <2>1. t - b.address \in Offsets BY <1>1, HasOffset
    <2> QED BY <2>1 DEF Buffer
  <1> QED BY <1>1 DEF Written, TableTypeOK

LEMMA SpareType == ASSUME TableTypeOK PROVE SpareSaved \in [Sectors -> Words]
  <1>1. Spare \in Buffer BY PlacesEnds DEF Spare, TableTypeOK
  <1> QED BY <1>1, WrittenType DEF SpareSaved, TableTypeOK

(***************************************************************************)
(* The invariant                                                           *)
(***************************************************************************)
LEMMA InitIInv == TableInit => IInv
  <1> SUFFICES ASSUME TableInit PROVE IInv
    OBVIOUS
  <1>1. TableTypeOK BY UnusedBuffer DEF TableInit, TableTypeOK, Words
  <1>2. \A i \in Places, s \in Sectors : ~Has(list[i], s) BY UnusedBuffer DEF TableInit
  <1> QED BY <1>1, <1>2 DEF TableInit, IInv, TableApart, NoOverlap, Overlap, BuffersTrue, CardTrue

\* What the new head of the list needs to be for the list to stay true.
LEMMA HeadApart ==
    ASSUME IInv, ~overlapped, NEW b \in Buffer, list' = ToHead(b),
           NEW s \in Sectors, ~Overlap(list'),
           \A t \in Sectors : t # s => intended'[t] = intended[t],
           intended'[s] = intended[s] \/ Hits(list, s) = {},
           \A t \in Sectors : Has(b, t) => b.sector[t - b.address] = intended'[t]
    PROVE  NoOverlap' /\ BuffersTrue'
  <1>1. NoOverlap' BY DEF NoOverlap
  <1>2. BuffersTrue'
    <2> SUFFICES ASSUME NEW i \in Places, NEW t \in Sectors, Has(list'[i], t)
                 PROVE  list'[i].sector[t - list'[i].address] = intended'[t]
      BY DEF BuffersTrue
    <2>1. CASE i = 1 BY <2>1, HeadOfList
    <2>2. CASE i # 1
      <3>1. list'[i] = list[i - 1] /\ i - 1 \in Places BY <2>2, HeadOfList
      <3>2. list'[i].sector[t - list'[i].address] = intended[t]
        BY <3>1 DEF IInv, TableApart, BuffersTrue
      <3>3. t # s \/ intended'[s] = intended[s] BY <3>1 DEF Hits
      <3> QED BY <3>2, <3>3
    <2> QED BY <2>1, <2>2
  <1> QED BY <1>1, <1>2

LEMMA LookIInv == ASSUME IInv, NEW s \in Sectors, Look(s) PROVE IInv'
  <1> DEFINE b == Filled(SpareSaved, s)
  <1>1. SpareSaved \in [Sectors -> Words] BY SpareType DEF IInv
  <1>2. b \in Buffer BY <1>1, FilledBuffer
  <1>3. list' = ToHead(b) BY DEF Look, Moves
  <1>4. onCard' = SpareSaved /\ intended' = intended BY DEF Look
  <1>5. overlapped' = (overlapped \/ Overlap(list')) BY DEF Look, Moves
  <1>6. TableTypeOK' BY <1>1, <1>2, <1>3, <1>4, <1>5, HeadType DEF IInv, TableTypeOK
  <1>7. ASSUME ~overlapped' PROVE (NoOverlap /\ BuffersTrue /\ CardTrue)'
    <2>1. ~overlapped /\ ~Overlap(list') BY <1>5, <1>7 DEF IInv, TableTypeOK
    <2>2. \A t \in Sectors :
            (\A i \in Places : i # FatBuffers /\ Has(list[i], t) => ~list[i].dirty)
                => SpareSaved[t] = intended[t]
      BY <2>1, SavedSectors
    <2>3. \A i \in Places : i # FatBuffers => list'[i + 1] = list[i] /\ i + 1 \in Places
      BY <1>3, HeadOfList
    <2>4. list'[1] = b BY <1>3, HeadOfList
    <2>5. ASSUME NEW t \in Sectors, Has(b, t) PROVE b.sector[t - b.address] = intended'[t]
      <3>1. \A i \in Places : i # FatBuffers => ~Has(list[i], t)
        <4> SUFFICES ASSUME NEW i \in Places, i # FatBuffers, Has(list[i], t) PROVE FALSE
          OBVIOUS
        <4>1. Has(list'[1], t) /\ Has(list'[i + 1], t) /\ 1 # i + 1 /\ i + 1 \in Places
          BY <2>3, <2>4, <2>5
        <4> QED BY <4>1, <2>1, PlacesEnds DEF Overlap
      <3>2. SpareSaved[t] = intended[t] BY <3>1, <2>2
      <3> QED BY <3>2, <2>5, <1>1, <1>4, FilledBuffer
    <2>6. NoOverlap' /\ BuffersTrue'
      BY <1>2, <1>3, <1>4, <2>1, <2>5, HeadApart
    <2>7. CardTrue'
      <3> SUFFICES ASSUME NEW t \in Sectors,
                          \A i \in Places : Has(list'[i], t) => ~list'[i].dirty
                   PROVE  onCard'[t] = intended'[t]
        BY DEF CardTrue
      <3>1. \A i \in Places : i # FatBuffers /\ Has(list[i], t) => ~list[i].dirty BY <2>3
      <3> QED BY <3>1, <2>2, <1>4
    <2> QED BY <2>6, <2>7
  <1> QED BY <1>6, <1>7 DEF IInv, TableApart

LEMMA SetMissIInv ==
    ASSUME IInv, NEW s \in Sectors, NEW v \in SectorValues, SetMiss(s, v) PROVE IInv'
  <1> DEFINE b == Filled(SpareSaved, s)
             c == Changed(b, s, v)
  <1>1. SpareSaved \in [Sectors -> Words] BY SpareType DEF IInv
  <1>2. b \in Buffer /\ Has(b, s) /\ b.address = s BY <1>1, FilledBuffer
  <1>3. /\ c \in Buffer /\ c.dirty /\ c.address = s /\ c.sector[s - s] = v
        /\ \A t \in Sectors : Has(b, t) /\ t # s => c.sector[t - s] = b.sector[t - s]
        /\ \A t \in Sectors : Has(c, t) <=> Has(b, t)
    <2> HIDE DEF b
    <2> QED BY <1>2, ChangedBuffer
  <1> HIDE DEF c
  <1>4. list' = ToHead(c) BY DEF SetMiss, Moves, c
  <1>5. onCard' = SpareSaved /\ intended' = [intended EXCEPT ![s] = v] /\ Hits(list, s) = {}
    BY DEF SetMiss
  <1>6. overlapped' = (overlapped \/ Overlap(list')) BY DEF SetMiss, Moves
  <1>7. intended' \in [Sectors -> SectorValues] /\ intended'[s] = v
        /\ \A t \in Sectors : t # s => intended'[t] = intended[t]
    BY <1>5 DEF IInv, TableTypeOK
  <1>8. TableTypeOK' BY <1>1, <1>3, <1>4, <1>5, <1>6, <1>7, HeadType DEF IInv, TableTypeOK
  <1>9. ASSUME ~overlapped' PROVE (NoOverlap /\ BuffersTrue /\ CardTrue)'
    <2>1. ~overlapped /\ ~Overlap(list') BY <1>6, <1>9 DEF IInv, TableTypeOK
    <2>2. \A t \in Sectors :
            (\A i \in Places : i # FatBuffers /\ Has(list[i], t) => ~list[i].dirty)
                => SpareSaved[t] = intended[t]
      BY <2>1, SavedSectors
    <2>3. \A i \in Places : i # FatBuffers => list'[i + 1] = list[i] /\ i + 1 \in Places
      BY <1>4, HeadOfList
    <2>4. list'[1] = c BY <1>4, HeadOfList
    <2>5. ASSUME NEW t \in Sectors, Has(c, t) PROVE c.sector[t - c.address] = intended'[t]
      <3>1. \A i \in Places : i # FatBuffers => ~Has(list[i], t)
        <4> SUFFICES ASSUME NEW i \in Places, i # FatBuffers, Has(list[i], t) PROVE FALSE
          OBVIOUS
        <4>1. Has(list'[1], t) /\ Has(list'[i + 1], t) /\ 1 # i + 1 /\ i + 1 \in Places
          BY <2>3, <2>4, <2>5
        <4> QED BY <4>1, <2>1, PlacesEnds DEF Overlap
      <3>2. SpareSaved[t] = intended[t] BY <3>1, <2>2
      <3>3. CASE t = s BY <3>3, <1>3, <1>7
      <3>4. CASE t # s
        <4>1. b.sector[t - s] = SpareSaved[t] BY <2>5, <1>1, <1>3, FilledBuffer
        <4> QED BY <3>4, <4>1, <3>2, <2>5, <1>3, <1>7
      <3> QED BY <3>3, <3>4
    <2>6. NoOverlap' /\ BuffersTrue'
      BY <1>3, <1>4, <1>5, <1>7, <2>1, <2>5, HeadApart
    <2>7. CardTrue'
      <3> SUFFICES ASSUME NEW t \in Sectors,
                          \A i \in Places : Has(list'[i], t) => ~list'[i].dirty
                   PROVE  onCard'[t] = intended'[t]
        BY DEF CardTrue
      <3>1. \A i \in Places : i # FatBuffers /\ Has(list[i], t) => ~list[i].dirty BY <2>3
      <3>2. t # s BY <1>2, <1>3, <2>4, PlacesEnds
      <3> QED BY <3>1, <3>2, <2>2, <1>5, <1>7
    <2> QED BY <2>6, <2>7
  <1> QED BY <1>8, <1>9 DEF IInv, TableApart

LEMMA SetHitIInv ==
    ASSUME IInv, NEW s \in Sectors, NEW v \in SectorValues, SetHit(s, v) PROVE IInv'
  <1>1. PICK i \in Places : /\ Has(list[i], s)
                            /\ Moves([list EXCEPT ![i] = Changed(@, s, v)])
    BY DEF SetHit, IsFirst, Hits
  <1> DEFINE c == Changed(list[i], s, v)
  <1>2. list[i] \in Buffer BY DEF IInv, TableTypeOK
  <1>3. /\ c \in Buffer /\ c.dirty /\ c.address = list[i].address
        /\ c.sector[s - list[i].address] = v
        /\ \A t \in Sectors : Has(list[i], t) /\ t # s =>
             c.sector[t - list[i].address] = list[i].sector[t - list[i].address]
        /\ \A t \in Sectors : Has(c, t) <=> Has(list[i], t)
    BY <1>1, <1>2, ChangedBuffer
  <1>4. list' = [list EXCEPT ![i] = c] BY <1>1 DEF Moves
  <1> HIDE DEF c
  <1>5. \A j \in Places : list'[j] = IF j = i THEN c ELSE list[j]
    BY <1>4 DEF IInv, TableTypeOK
  <1>6. onCard' = onCard /\ intended' = [intended EXCEPT ![s] = v] BY DEF SetHit
  <1>7. overlapped' = (overlapped \/ Overlap(list')) BY <1>1, <1>4 DEF Moves, c
  <1>8. TableTypeOK' BY <1>3, <1>4, <1>6, <1>7 DEF IInv, TableTypeOK
  <1>9. ASSUME ~overlapped' PROVE (NoOverlap /\ BuffersTrue /\ CardTrue)'
    <2>1. ~overlapped /\ ~Overlap(list') BY <1>7, <1>9 DEF IInv, TableTypeOK
    <2>2. \A j \in Places : j # i => ~Has(list[j], s)
      BY <1>1, <2>1 DEF IInv, TableApart, NoOverlap, Overlap
    <2>3. intended'[s] = v /\ \A t \in Sectors : t # s => intended'[t] = intended[t]
      BY <1>6 DEF IInv, TableTypeOK
    <2>4. BuffersTrue'
      <3> SUFFICES ASSUME NEW j \in Places, NEW t \in Sectors, Has(list'[j], t)
                   PROVE  list'[j].sector[t - list'[j].address] = intended'[t]
        BY DEF BuffersTrue
      <3>1. CASE j = i /\ t = s BY <3>1, <1>3, <1>5, <2>3
      <3>2. CASE j = i /\ t # s
        BY <3>2, <1>3, <1>5, <2>1, <2>3 DEF IInv, TableApart, BuffersTrue
      <3>3. CASE j # i BY <3>3, <1>5, <2>1, <2>2, <2>3 DEF IInv, TableApart, BuffersTrue
      <3> QED BY <3>1, <3>2, <3>3
    <2>5. CardTrue'
      <3> SUFFICES ASSUME NEW t \in Sectors,
                          \A j \in Places : Has(list'[j], t) => ~list'[j].dirty
                   PROVE  onCard'[t] = intended'[t]
        BY DEF CardTrue
      <3>1. ~Has(list[i], t) BY <1>3, <1>5
      <3>2. \A j \in Places : Has(list[j], t) => ~list[j].dirty BY <1>5, <3>1
      <3>3. t # s BY <1>1, <3>1
      <3> QED BY <3>2, <3>3, <1>6, <2>1, <2>3 DEF IInv, TableApart, CardTrue
    <2> QED BY <2>1, <2>4, <2>5 DEF NoOverlap
  <1> QED BY <1>8, <1>9 DEF IInv, TableApart

LEMMA PurgeOneIInv == ASSUME IInv, NEW i \in Places, PurgeOne(i) PROVE IInv'
  <1> DEFINE c == Clean(list[i])
  <1>1. list[i] \in Buffer BY DEF IInv, TableTypeOK
  <1>2. /\ c \in Buffer /\ ~c.dirty /\ c.address = list[i].address
        /\ c.sector = list[i].sector /\ \A t \in Sectors : Has(c, t) <=> Has(list[i], t)
    BY <1>1 DEF Clean, Buffer, Has
  <1>3. list' = [list EXCEPT ![i] = c] BY DEF PurgeOne, Moves
  <1> HIDE DEF c
  <1>4. \A j \in Places : list'[j] = IF j = i THEN c ELSE list[j]
    BY <1>3 DEF IInv, TableTypeOK
  <1>5. onCard' = Written(onCard, list[i]) /\ intended' = intended BY DEF PurgeOne
  <1>6. overlapped' = (overlapped \/ Overlap(list')) BY <1>3 DEF PurgeOne, Moves
  <1>7. onCard' \in [Sectors -> Words] BY <1>1, <1>5, WrittenType DEF IInv
  <1>8. TableTypeOK' BY <1>2, <1>3, <1>5, <1>6, <1>7 DEF IInv, TableTypeOK
  <1>9. ASSUME ~overlapped' PROVE (NoOverlap /\ BuffersTrue /\ CardTrue)'
    <2>1. ~overlapped /\ ~Overlap(list') BY <1>6, <1>9 DEF IInv, TableTypeOK
    <2>2. BuffersTrue' BY <1>2, <1>4, <1>5, <2>1 DEF IInv, TableApart, BuffersTrue
    <2>3. \A t \in Sectors : onCard'[t] = IF Has(list[i], t) THEN intended[t] ELSE onCard[t]
      BY <1>1, <1>5, <2>1, WrittenCard DEF IInv, TableTypeOK, TableApart, BuffersTrue
    <2>4. CardTrue'
      <3> SUFFICES ASSUME NEW t \in Sectors,
                          \A j \in Places : Has(list'[j], t) => ~list'[j].dirty
                   PROVE  onCard'[t] = intended'[t]
        BY DEF CardTrue
      <3>1. CASE Has(list[i], t) BY <3>1, <2>3, <1>5
      <3>2. CASE ~Has(list[i], t)
        <4>1. \A j \in Places : Has(list[j], t) => ~list[j].dirty BY <1>4, <3>2
        <4> QED BY <4>1, <3>2, <2>3, <1>5, <2>1 DEF IInv, TableApart, CardTrue
      <3> QED BY <3>1, <3>2
    <2> QED BY <2>1, <2>2, <2>4 DEF NoOverlap
  <1> QED BY <1>8, <1>9 DEF IInv, TableApart

LEMMA WritebackFailsIInv ==
    ASSUME IInv, NEW s \in Sectors, WritebackFails(s) PROVE IInv'
  <1>1. list' = ToHead(Spare) /\ onCard' = onCard /\ intended' = intended
        /\ overlapped' = (overlapped \/ Overlap(list'))
    BY DEF WritebackFails, Moves
  <1>2. Spare \in Buffer /\ Spare = list[FatBuffers] BY PlacesEnds DEF Spare, IInv, TableTypeOK
  <1>3. TableTypeOK' BY <1>1, <1>2, HeadType DEF IInv, TableTypeOK
  <1>4. ASSUME ~overlapped' PROVE (NoOverlap /\ BuffersTrue /\ CardTrue)'
    <2>1. ~overlapped /\ ~Overlap(list') BY <1>1, <1>4 DEF IInv, TableTypeOK
    <2>2. \A t \in Sectors : Has(Spare, t) => Spare.sector[t - Spare.address] = intended'[t]
      BY <1>1, <1>2, <2>1, PlacesEnds DEF IInv, TableApart, BuffersTrue
    <2>3. NoOverlap' /\ BuffersTrue'
      BY <1>1, <1>2, <2>1, <2>2, HeadApart
    <2>4. \A i \in Places : \E j \in Places : list'[j] = list[i]
      <3> SUFFICES ASSUME NEW i \in Places PROVE \E j \in Places : list'[j] = list[i]
        OBVIOUS
      <3>1. CASE i = FatBuffers BY <3>1, <1>1, <1>2, HeadOfList, PlacesEnds
      <3>2. CASE i # FatBuffers BY <3>2, <1>1, HeadOfList
      <3> QED BY <3>1, <3>2
    <2>5. CardTrue'
      <3> SUFFICES ASSUME NEW t \in Sectors,
                          \A j \in Places : Has(list'[j], t) => ~list'[j].dirty
                   PROVE  onCard'[t] = intended'[t]
        BY DEF CardTrue
      <3>1. \A i \in Places : Has(list[i], t) => ~list[i].dirty BY <2>4
      <3> QED BY <3>1, <1>1, <2>1 DEF IInv, TableApart, CardTrue
    <2> QED BY <2>3, <2>5
  <1> QED BY <1>3, <1>4 DEF IInv, TableApart

LEMMA ReadFailsIInv ==
    ASSUME IInv, NEW s \in Sectors, ReadFails(s) PROVE IInv'
  <1>1. list' = ToHead(Unused) /\ onCard' = SpareSaved /\ intended' = intended
        /\ overlapped' = (overlapped \/ Overlap(list'))
    BY DEF ReadFails, Moves
  <1>2. Unused \in Buffer /\ \A t \in Sectors : ~Has(Unused, t) BY UnusedBuffer
  <1>3. SpareSaved \in [Sectors -> Words] BY SpareType DEF IInv
  <1>4. TableTypeOK' BY <1>1, <1>2, <1>3, HeadType DEF IInv, TableTypeOK
  <1>5. ASSUME ~overlapped' PROVE (NoOverlap /\ BuffersTrue /\ CardTrue)'
    <2>1. ~overlapped /\ ~Overlap(list') BY <1>1, <1>5 DEF IInv, TableTypeOK
    <2>2. NoOverlap' /\ BuffersTrue'
      BY <1>1, <1>2, <2>1, HeadApart
    <2>3. \A i \in Places : i # FatBuffers => list'[i + 1] = list[i] /\ i + 1 \in Places
      BY <1>1, HeadOfList
    <2>4. CardTrue'
      <3> SUFFICES ASSUME NEW t \in Sectors,
                          \A j \in Places : Has(list'[j], t) => ~list'[j].dirty
                   PROVE  onCard'[t] = intended'[t]
        BY DEF CardTrue
      <3>1. \A i \in Places : i # FatBuffers /\ Has(list[i], t) => ~list[i].dirty BY <2>3
      <3> QED BY <3>1, <1>1, <2>1, SavedSectors
    <2> QED BY <2>2, <2>4
  <1> QED BY <1>4, <1>5 DEF IInv, TableApart

LEMMA NextIInv == IInv /\ [TableNext]_tableVars => IInv'
  <1> SUFFICES ASSUME IInv, [TableNext]_tableVars PROVE IInv'
    OBVIOUS
  <1>1. CASE UNCHANGED tableVars
    BY <1>1 DEF tableVars, IInv, TableTypeOK, TableApart, NoOverlap, Overlap, BuffersTrue, CardTrue
  <1>2. CASE TableNext
    BY <1>2, LookIInv, WritebackFailsIInv, ReadFailsIInv, SetHitIInv, SetMissIInv,
       PurgeOneIInv DEF TableNext
  <1> QED BY <1>1, <1>2

(***************************************************************************)
(* What it gives                                                           *)
(***************************************************************************)
LEMMA IInvCoherent == IInv => CoherentApart
  <1> SUFFICES ASSUME IInv, ~overlapped, NEW s \in Sectors PROVE Sees(s, intended[s])
    BY DEF CoherentApart, Coherent
  <1>1. CASE Hits(list, s) = {}
    <2>1. onCard[s] = intended[s] BY <1>1 DEF Hits, IInv, TableApart, CardTrue
    <2> QED BY <1>1, <2>1 DEF Sees
  <1>2. CASE Hits(list, s) # {}
    <2>1. PICK i \in Places : Has(list[i], s) BY <1>2 DEF Hits
    <2>2. \A j \in Places : Has(list[j], s) => j = i
      BY <2>1 DEF IInv, TableApart, NoOverlap, Overlap
    <2>3. IsFirst(i, Hits(list, s)) BY <2>1, <2>2 DEF IsFirst, Hits
    <2>4. intended[s] = list[i].sector[s - list[i].address]
      BY <2>1 DEF IInv, TableApart, BuffersTrue
    <2> QED BY <1>2, <2>3, <2>4 DEF Sees
  <1> QED BY <1>1, <1>2

LEMMA IInvSaved == IInv => SavedApart
  BY DEF IInv, TableTypeOK, TableApart, CardTrue, SavedApart

(***************************************************************************)
(* While no two buffers have had a sector in common, every read of the FAT *)
(* gives what was last written there.                                      *)
(***************************************************************************)
THEOREM TableCoherent == TableSpec => []CoherentApart
  BY InitIInv, NextIInv, IInvCoherent, PTL DEF TableSpec

(***************************************************************************)
(* And the purge that ends every operation leaves the card complete.       *)
(***************************************************************************)
THEOREM TableSaved == TableSpec => []SavedApart
  BY InitIInv, NextIInv, IInvSaved, PTL DEF TableSpec

(***************************************************************************)
(* Buffers of one sector, the default of fat_table.c:41-43: none overlap,  *)
(* since only a sector that no buffer has is read into one.                *)
(***************************************************************************)
LEMMA SingleApart ==
    ASSUME BufferSectors = 1, IInv, NoOverlap, ~overlapped, [TableNext]_tableVars
    PROVE  NoOverlap' /\ ~overlapped'
  <1>1. ASSUME NEW b \in Buffer, NEW s \in Sectors, Hits(list, s) = {},
               b.address = s \/ b = Unused
        PROVE  ~Overlap(ToHead(b))
    <2> SUFFICES ASSUME NEW i \in Places, NEW j \in Places, NEW t \in Sectors, i # j,
                        Has(ToHead(b)[i], t), Has(ToHead(b)[j], t)
                 PROVE  FALSE
      BY DEF Overlap
    <2>1. Has(b, t) => t = s BY <1>1, UnusedBuffer DEF Has, Buffer
    <2>2. \A k \in Places : ~Has(list[k], s) BY <1>1 DEF Hits
    <2>3. CASE i = 1 BY <2>3, <2>1, <2>2, HeadOfList
    <2>4. CASE j = 1 BY <2>4, <2>1, <2>2, HeadOfList
    <2>5. CASE i # 1 /\ j # 1
      <3>1. /\ i - 1 \in Places /\ j - 1 \in Places /\ i - 1 # j - 1
            /\ Has(list[i - 1], t) /\ Has(list[j - 1], t)
        BY <2>5, HeadOfList
      <3> QED BY <3>1 DEF NoOverlap, Overlap
    <2> QED BY <2>3, <2>4, <2>5
  <1>2. ASSUME NEW s \in Sectors, Look(s) PROVE ~Overlap(list') /\ ~overlapped'
    <2>1. Filled(SpareSaved, s) \in Buffer /\ Filled(SpareSaved, s).address = s
      BY SpareType, FilledBuffer DEF IInv
    <2> QED BY <2>1, <1>1, <1>2 DEF Look, Moves
  <1>3. ASSUME NEW s \in Sectors, NEW v \in SectorValues, SetMiss(s, v)
        PROVE  ~Overlap(list') /\ ~overlapped'
    <2>1. /\ Filled(SpareSaved, s) \in Buffer /\ Filled(SpareSaved, s).address = s
          /\ Has(Filled(SpareSaved, s), s)
      BY SpareType, FilledBuffer DEF IInv
    <2> DEFINE b == Filled(SpareSaved, s)
    <2> HIDE DEF b
    <2>2. Changed(b, s, v) \in Buffer /\ Changed(b, s, v).address = s
      BY <2>1, ChangedBuffer DEF b
    <2> QED BY <2>2, <1>1, <1>3 DEF SetMiss, Moves, b
  <1>4. ASSUME NEW s \in Sectors, ReadFails(s) PROVE ~Overlap(list') /\ ~overlapped'
    BY <1>1, <1>4, UnusedBuffer DEF ReadFails, Moves
  <1>5. ASSUME NEW s \in Sectors, WritebackFails(s) PROVE ~Overlap(list') /\ ~overlapped'
    <2>1. list' = ToHead(Spare) /\ overlapped' = (overlapped \/ Overlap(list'))
      BY <1>5 DEF WritebackFails, Moves
    <2>2. ~Overlap(list')
      <3> SUFFICES ASSUME NEW i \in Places, NEW j \in Places, NEW t \in Sectors, i # j,
                          Has(list'[i], t), Has(list'[j], t)
                   PROVE  FALSE
        BY DEF Overlap
      <3> DEFINE from(k) == IF k = 1 THEN FatBuffers ELSE k - 1
      <3>1. \A k \in Places : from(k) \in Places /\ list'[k] = list[from(k)]
        BY <2>1, HeadOfList, PlacesEnds DEF Spare
      <3>2. from(i) # from(j) OBVIOUS
      <3> QED BY <3>1, <3>2 DEF NoOverlap, Overlap
    <2> QED BY <2>1, <2>2
  <1>6. ASSUME NEW s \in Sectors, NEW v \in SectorValues, SetHit(s, v)
        PROVE  ~Overlap(list') /\ ~overlapped'
    <2>1. PICK i \in Places : Has(list[i], s) /\ Moves([list EXCEPT ![i] = Changed(@, s, v)])
      BY <1>6 DEF SetHit, IsFirst, Hits
    <2>2. \A t \in Sectors : Has(Changed(list[i], s, v), t) <=> Has(list[i], t)
      BY <2>1, ChangedBuffer DEF IInv, TableTypeOK
    <2>3. \A j \in Places, t \in Sectors : Has(list'[j], t) <=> Has(list[j], t)
      BY <2>1, <2>2 DEF Moves, IInv, TableTypeOK
    <2> QED BY <2>1, <2>3 DEF Moves, NoOverlap, Overlap
  <1>7. ASSUME NEW i \in Places, PurgeOne(i) PROVE ~Overlap(list') /\ ~overlapped'
    <2>1. \A j \in Places, t \in Sectors : Has(list'[j], t) <=> Has(list[j], t)
      BY <1>7 DEF PurgeOne, Moves, IInv, TableTypeOK, Clean, Buffer, Has
    <2> QED BY <1>7, <2>1 DEF PurgeOne, Moves, NoOverlap, Overlap
  <1>8. ASSUME UNCHANGED tableVars PROVE ~Overlap(list') /\ ~overlapped'
    BY <1>8 DEF tableVars, NoOverlap, Overlap
  <1> QED BY <1>2, <1>3, <1>4, <1>5, <1>6, <1>7, <1>8 DEF TableNext, NoOverlap

(***************************************************************************)
(* So with FAT_BUFFER_SECTORS 1 reads give what was written, whatever the  *)
(* card refuses on the way.                                                *)
(***************************************************************************)
THEOREM SingleCoherent == ASSUME BufferSectors = 1 PROVE TableSpec => []Coherent
  <1> DEFINE Inv == IInv /\ NoOverlap /\ ~overlapped
  <1>1. TableInit => Inv
    <2> SUFFICES ASSUME TableInit PROVE Inv
      OBVIOUS
    <2>1. \A i \in Places, s \in Sectors : ~Has(list[i], s) BY UnusedBuffer DEF TableInit
    <2> QED BY <2>1, InitIInv DEF TableInit, NoOverlap, Overlap
  <1>2. Inv /\ [TableNext]_tableVars => Inv' BY NextIInv, SingleApart
  <1>3. Inv => Coherent BY IInvCoherent DEF CoherentApart
  <1> QED BY <1>1, <1>2, <1>3, PTL DEF TableSpec
====
