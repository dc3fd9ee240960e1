--------------------------- MODULE CdmaSwDbProofs ---------------------------
(***************************************************************************)
(* Proofs about the allocator of software doorbells, for any number of     *)
(* pages, cells and JFCs: DbInv of CdmaSwDb is inductive.                  *)
(***************************************************************************)
EXTENDS CdmaSwDb, CdmaRingLemmas, FiniteSetTheorems, SequenceTheorems

\* Unlinking a page shifts the ones behind it.
LEMMA RemoveAtFacts ==
  ASSUME NEW S, NEW s \in Seq(S), NEW i \in 1..Len(s)
  PROVE  /\ RemoveAt(s, i) \in Seq(S)
         /\ Len(RemoveAt(s, i)) = Len(s) - 1
         /\ \A k \in 1..(Len(s) - 1) :
              RemoveAt(s, i)[k] = IF k < i THEN s[k] ELSE s[k + 1]
<1> DEFINE a == SubSeq(s, 1, i - 1)
           b == SubSeq(s, i + 1, Len(s))
<1>0. Len(s) \in Nat /\ i \in Nat /\ i >= 1 /\ i <= Len(s)
  OBVIOUS
<1>1. a \in Seq(S) /\ Len(a) = i - 1 /\ \A k \in 1..(i - 1) : a[k] = s[k]
  OBVIOUS
<1>2. b \in Seq(S) /\ Len(b) = Len(s) - i /\ \A k \in 1..(Len(s) - i) : b[k] = s[i + k]
  OBVIOUS
<1> HIDE DEF a, b
<1>3. RemoveAt(s, i) = a \o b
  BY DEF RemoveAt, a, b
<1>4. /\ a \o b \in Seq(S) /\ Len(a \o b) = Len(a) + Len(b)
      /\ \A k \in 1..(Len(a) + Len(b)) :
           (a \o b)[k] = IF k <= Len(a) THEN a[k] ELSE b[k - Len(a)]
  BY <1>1, <1>2, ConcatProperties
<1>5. Len(a) + Len(b) = Len(s) - 1
  BY <1>0, <1>1, <1>2
<1>6. ASSUME NEW k \in 1..(Len(s) - 1)
      PROVE  (a \o b)[k] = IF k < i THEN s[k] ELSE s[k + 1]
  <2>1. (a \o b)[k] = IF k <= i - 1 THEN a[k] ELSE b[k - (i - 1)]
    BY <1>1, <1>4, <1>5
  <2>2. CASE k < i
    BY <2>1, <2>2, <1>0, <1>1
  <2>3. CASE ~(k < i)
    <3>1. k - (i - 1) \in 1..(Len(s) - i) /\ i + (k - (i - 1)) = k + 1 /\ ~(k <= i - 1)
      BY <2>3, <1>0
    <3>2. b[k - (i - 1)] = s[i + (k - (i - 1))]
      BY <3>1, <1>2
    <3> QED
      BY <2>1, <2>3, <3>1, <3>2
  <2> QED
    BY <2>2, <2>3
<1> QED
  BY <1>3, <1>4, <1>5, <1>6
----------------------------------------------------------------------------
(* Cells *)

\* The search finds the lowest free cell of a page that has one.
LEMMA UseIdxFacts ==
  ASSUME NEW bits \in SUBSET Bits, NEW c \in bits, c < NumDb
  PROVE  /\ UseIdx(bits) \in bits
         /\ UseIdx(bits) < NumDb
         /\ ClearIdx(bits) = bits \ {UseIdx(bits)}
<1>1. bits \in SUBSET Nat /\ bits # {} /\ NumDb \in Nat /\ c \in Nat
  BY SwDbAssumption DEF Bits
<1>2. \E b \in bits : \A d \in bits : b <= d
  BY <1>1, NatMin
<1>3. UseIdx(bits) \in bits /\ \A d \in bits : UseIdx(bits) <= d
  BY <1>1, <1>2 DEF UseIdx
<1>4. UseIdx(bits) < NumDb
  <2>1. UseIdx(bits) \in Nat /\ UseIdx(bits) <= c
    BY <1>1, <1>3
  <2> QED
    BY <2>1, <1>1
<1> QED
  BY <1>3, <1>4 DEF ClearIdx

\* A page whose use_cnt is below num_db has a free cell: use_cnt counts the
\* holders, and fewer holders than cells cannot hold every cell.
LEMMA RoomLeft ==
  ASSUME DbInv, NEW i \in DOMAIN list, HasRoom(list[i])
  PROVE  \E c \in bitmap[list[i]] : c < NumDb
<1> DEFINE pg == list[i]
           C  == 0..(NumDb - 1)
           H  == Holders(pg)
<1>1. pg \in PageIds /\ IsFiniteSet(H) /\ useCnt[pg] = Cardinality(H) /\ useCnt[pg] < NumDb
  BY DEF DbInv, TypeOK, UseCntExact, HasRoom
<1>2. NumDb \in Nat /\ NumDb >= 1 /\ C \subseteq Bits
  BY SwDbAssumption DEF Bits
<1>3. IsFiniteSet(C) /\ Cardinality(C) = NumDb
  BY <1>2, FS_Interval
<1>4. bitmap[pg] = Bits \ Used(pg)
  BY DEF DbInv, BitmapExact
<1> SUFFICES ASSUME \A c \in C : c \notin bitmap[pg]
             PROVE  FALSE
  BY <1>2
<1>5. \A c \in C : \E j \in H : swDb[j].pos = c
  BY <1>2, <1>4 DEF Used
<1> DEFINE f == [c \in C |-> CHOOSE j \in H : swDb[j].pos = c]
<1>6. f \in [C -> H] /\ \A c \in C : swDb[f[c]].pos = c
  BY <1>5
<1>7. Cardinality(H) < Cardinality(C)
  BY <1>1, <1>3
<1> HIDE DEF f, C, H, pg
<1>8. \E x, y \in C : x # y /\ f[x] = f[y]
  BY <1>1, <1>3, <1>6, <1>7, FS_PigeonHole
<1> QED
  BY <1>6, <1>8

\* A cell is its page and its position.
LEMMA CellFacts ==
  ASSUME TypeOK, NEW j \in Jfcs, swDb[j] # NoDb
  PROVE  /\ swDb[j] \in Cell
         /\ swDb[j].page \in PageIds /\ swDb[j].pos \in Bits
         /\ swDb[j] = [page |-> swDb[j].page, pos |-> swDb[j].pos]
         /\ j \in Holders(swDb[j].page)
BY DEF TypeOK, Cell, Holders

\* A page that is not linked has no holder.
LEMMA UnlinkedFree ==
  ASSUME HeldIsMapped, NEW pg, ~Linked(pg)
  PROVE  Holders(pg) = {}
BY DEF HeldIsMapped, Holders

\* A JFC that gets a cell joins the holders of its page.
LEMMA HoldersGain ==
  ASSUME TypeOK, NEW j \in Jfcs, swDb[j] = NoDb, NEW pg \in PageIds, NEW b \in Bits,
         swDb' = [swDb EXCEPT ![j] = [page |-> pg, pos |-> b]]
  PROVE  /\ swDb'[j] = [page |-> pg, pos |-> b] /\ swDb'[j] # NoDb
         /\ \A k \in Jfcs : k # j => swDb'[k] = swDb[k]
         /\ j \notin Holders(pg)
         /\ Holders(pg)' = Holders(pg) \cup {j}
         /\ \A q : q # pg => Holders(q)' = Holders(q)
<1>1. [page |-> pg, pos |-> b] \in Cell
  BY DEF Cell
<1>2. [page |-> pg, pos |-> b] # NoDb
  BY <1>1, SwDbAssumption
<1>3. swDb'[j] = [page |-> pg, pos |-> b] /\ \A k \in Jfcs : k # j => swDb'[k] = swDb[k]
  BY DEF TypeOK
<1>4. swDb'[j].page = pg
  BY <1>3
<1> QED
  BY <1>2, <1>3, <1>4 DEF Holders

\* A JFC that gives its cell back leaves the holders of its page.
LEMMA HoldersLose ==
  ASSUME TypeOK, NEW j \in Jfcs, NEW pg, swDb[j] # NoDb, swDb[j].page = pg,
         swDb' = [swDb EXCEPT ![j] = NoDb]
  PROVE  /\ swDb'[j] = NoDb
         /\ \A k \in Jfcs : k # j => swDb'[k] = swDb[k]
         /\ j \in Holders(pg)
         /\ Holders(pg)' = Holders(pg) \ {j}
         /\ \A q : q # pg => Holders(q)' = Holders(q)
<1>1. swDb'[j] = NoDb /\ \A k \in Jfcs : k # j => swDb'[k] = swDb[k]
  BY DEF TypeOK
<1> QED
  BY <1>1 DEF Holders
----------------------------------------------------------------------------
(* Steps *)

\* The conjuncts that concern a cell handed out, on an old page or a new one.
LEMMA GainCell ==
  ASSUME DbInv, NEW j \in Jfcs, swDb[j] = NoDb, NEW pg \in PageIds, NEW b \in Bits,
         b < NumDb, b \notin Used(pg),
         swDb' = [swDb EXCEPT ![j] = [page |-> pg, pos |-> b]],
         \A q \in PageIds : Linked(q) => Linked(q)',
         Linked(pg)'
  PROVE  /\ swDb' \in [Jfcs -> Cell \cup {NoDb}]
         /\ NoAlias' /\ HeldIsMapped'
         /\ \A q \in PageIds : IsFiniteSet(Holders(q)')
         /\ Cardinality(Holders(pg)') = Cardinality(Holders(pg)) + 1
         /\ Used(pg)' = Used(pg) \cup {b}
         /\ \A q \in PageIds : q # pg => Used(q)' = Used(q)
<1>t. TypeOK
  BY DEF DbInv
<1>g. /\ swDb'[j] = [page |-> pg, pos |-> b] /\ swDb'[j] # NoDb
      /\ \A k \in Jfcs : k # j => swDb'[k] = swDb[k]
      /\ j \notin Holders(pg)
      /\ Holders(pg)' = Holders(pg) \cup {j}
      /\ \A q : q # pg => Holders(q)' = Holders(q)
  BY <1>t, HoldersGain
<1>1. swDb' \in [Jfcs -> Cell \cup {NoDb}]
  <2>1. [page |-> pg, pos |-> b] \in Cell
    BY DEF Cell
  <2> QED
    BY <2>1, <1>t DEF TypeOK
<1>2. ASSUME NEW k \in Jfcs, k # j
      PROVE  swDb[k] # [page |-> pg, pos |-> b]
  <2> SUFFICES ASSUME swDb[k] = [page |-> pg, pos |-> b]
               PROVE  FALSE
    OBVIOUS
  <2>1. swDb[k] # NoDb /\ swDb[k].page = pg /\ swDb[k].pos = b
    BY <1>2, <1>g
  <2> QED
    BY <2>1 DEF Holders, Used
<1>3. NoAlias'
  BY <1>2, <1>g DEF DbInv, NoAlias
<1>4. HeldIsMapped'
  <2> SUFFICES ASSUME NEW k \in Jfcs, swDb'[k] # NoDb
               PROVE  Linked(swDb[k].page)' /\ swDb'[k].pos < NumDb
    BY DEF HeldIsMapped
  <2>1. CASE k = j
    <3>1. swDb'[k].page = pg /\ swDb'[k].pos = b
      BY <2>1, <1>g
    <3> QED
      BY <3>1 DEF Linked
  <2>2. CASE k # j
    <3>1. swDb'[k] = swDb[k] /\ swDb[k] # NoDb
      BY <2>2, <1>g
    <3>2. PICK q \in PageIds : q = swDb[k].page
      BY <3>1, <1>t, CellFacts
    <3>3. Linked(q) /\ swDb[k].pos < NumDb
      BY <3>1, <3>2 DEF DbInv, HeldIsMapped
    <3>4. Linked(q)'
      BY <3>3
    <3> QED
      BY <3>1, <3>2, <3>3, <3>4 DEF Linked
  <2> QED
    BY <2>1, <2>2
<1>5. IsFiniteSet(Holders(pg))
  BY DEF DbInv
<1>6. IsFiniteSet(Holders(pg)') /\ Cardinality(Holders(pg)') = Cardinality(Holders(pg)) + 1
  BY <1>5, <1>g, FS_AddElement
<1>7. \A q \in PageIds : IsFiniteSet(Holders(q)')
  BY <1>6, <1>g DEF DbInv
<1>8. ASSUME NEW q
      PROVE  \A k \in Holders(q) : k \in Jfcs /\ k # j /\ swDb'[k] = swDb[k]
  BY <1>g DEF Holders
<1>9. Used(pg)' = Used(pg) \cup {b}
  <2>1. \A k \in Holders(pg) : swDb'[k].pos = swDb[k].pos
    BY <1>8
  <2>2. swDb'[j].pos = b
    BY <1>g
  <2> QED
    BY <2>1, <2>2, <1>g DEF Used
<1>10. \A q \in PageIds : q # pg => Used(q)' = Used(q)
  BY <1>8, <1>g DEF Used
<1> QED
  BY <1>1, <1>3, <1>4, <1>6, <1>7, <1>9, <1>10

\* A cell of a page with room.
LEMMA AllocFoundInv ==
  ASSUME DbInv, NEW j \in Jfcs, NEW i \in DOMAIN list, AllocFound(j, i)
  PROVE  DbInv'
<1>t. /\ TypeOK /\ list \in Seq(PageIds) /\ list[i] \in PageIds /\ UNCHANGED list
      /\ bitmap[list[i]] \in SUBSET Bits /\ HasRoom(list[i])
  BY DEF DbInv, TypeOK, AllocFound, FirstWithRoom
<1>p. PICK pg \in PageIds : pg = list[i]
  BY <1>t
<1>c. PICK c \in bitmap[pg] : c < NumDb
  BY <1>t, <1>p, RoomLeft
<1>b. PICK b \in bitmap[pg] : /\ b = UseIdx(bitmap[pg]) /\ b < NumDb /\ b \in Bits
                              /\ ClearIdx(bitmap[pg]) = bitmap[pg] \ {b}
  BY <1>t, <1>p, <1>c, UseIdxFacts
<1>u. bitmap[pg] = Bits \ Used(pg)
  BY <1>p DEF DbInv, BitmapExact
<1>a. /\ swDb[j] = NoDb
      /\ swDb' = [swDb EXCEPT ![j] = [page |-> pg, pos |-> b]]
      /\ bitmap' = [bitmap EXCEPT ![pg] = bitmap[pg] \ {b}]
      /\ useCnt' = [useCnt EXCEPT ![pg] = useCnt[pg] + 1]
  BY <1>b, <1>p DEF AllocFound
<1>l. Linked(pg)' /\ \A q \in PageIds : Linked(q) => Linked(q)'
  BY <1>t, <1>p DEF Linked
<1>g. /\ swDb' \in [Jfcs -> Cell \cup {NoDb}]
      /\ NoAlias' /\ HeldIsMapped'
      /\ \A q \in PageIds : IsFiniteSet(Holders(q)')
      /\ Cardinality(Holders(pg)') = Cardinality(Holders(pg)) + 1
      /\ Used(pg)' = Used(pg) \cup {b}
      /\ \A q \in PageIds : q # pg => Used(q)' = Used(q)
  <2>1. b \notin Used(pg)
    BY <1>b, <1>u
  <2> QED
    BY <2>1, <1>a, <1>b, <1>l, GainCell
<1>h. \A q \in PageIds : q # pg => Holders(q)' = Holders(q)
  BY <1>a, <1>b, <1>t, HoldersGain
<1>1. TypeOK'
  <2>1. bitmap' \in [PageIds -> SUBSET Bits]
    BY <1>a, <1>t DEF TypeOK
  <2>2. useCnt' \in [PageIds -> 0..NumDb]
    <3>1. useCnt[pg] \in 0..NumDb /\ useCnt[pg] < NumDb /\ NumDb \in Nat
      BY <1>t, <1>p, SwDbAssumption DEF TypeOK, HasRoom
    <3>2. useCnt[pg] + 1 \in 0..NumDb
      BY <3>1
    <3> QED
      BY <3>2, <1>a, <1>t DEF TypeOK
  <2> QED
    BY <2>1, <2>2, <1>g, <1>t DEF TypeOK
<1>2. BitmapExact'
  <2>1. ASSUME NEW k \in DOMAIN list
        PROVE  bitmap'[list[k]] = Bits \ Used(list[k])'
    <3>0. PICK q \in PageIds : q = list[k]
      BY <1>t
    <3>1. CASE q = pg
      <4>1. bitmap'[q] = Bits \ Used(q)'
        BY <3>1, <1>a, <1>g, <1>u, <1>t DEF TypeOK
      <4> QED
        BY <3>0, <4>1, <1>t DEF Used, Holders
    <3>2. CASE q # pg
      <4>1. bitmap'[q] = bitmap[q]
        BY <3>2, <1>a, <1>t DEF TypeOK
      <4>2. bitmap[q] = Bits \ Used(q)
        BY <3>0 DEF DbInv, BitmapExact
      <4>3. bitmap'[q] = Bits \ Used(q)'
        BY <3>2, <4>1, <4>2, <1>g
      <4> QED
        BY <3>0, <4>3, <1>t DEF Used, Holders
    <3> QED
      BY <3>1, <3>2
  <2> QED
    BY <2>1, <1>t DEF BitmapExact, DbInv
<1>3. UseCntExact'
  <2>1. ASSUME NEW k \in DOMAIN list
        PROVE  useCnt'[list[k]] = Cardinality(Holders(list[k])') /\ useCnt'[list[k]] > 0
    <3>0. PICK q \in PageIds : q = list[k]
      BY <1>t
    <3>c. useCnt[q] = Cardinality(Holders(q)) /\ useCnt[q] > 0 /\ useCnt[q] \in Nat
      BY <3>0, <1>t DEF DbInv, UseCntExact, TypeOK
    <3>1. CASE q = pg
      <4>1. useCnt'[q] = useCnt[q] + 1
        BY <3>1, <1>a, <1>t DEF TypeOK
      <4>2. useCnt'[q] = Cardinality(Holders(q)') /\ useCnt'[q] > 0
        BY <3>1, <3>c, <4>1, <1>g
      <4> QED
        BY <3>0, <4>2, <1>t DEF Holders
    <3>2. CASE q # pg
      <4>1. useCnt'[q] = useCnt[q] /\ Holders(q)' = Holders(q)
        BY <3>2, <1>a, <1>h, <1>t DEF TypeOK
      <4> QED
        BY <3>0, <3>c, <4>1, <1>t DEF Holders
    <3> QED
      BY <3>1, <3>2
  <2> QED
    BY <2>1, <1>t DEF UseCntExact
<1> QED
  BY <1>1, <1>2, <1>3, <1>g DEF DbInv

\* A cell of a page that is added at the head of the list.
LEMMA AllocNewPageInv ==
  ASSUME DbInv, NEW j \in Jfcs, NEW pg \in PageIds, AllocNewPage(j, pg)
  PROVE  DbInv'
<1>t. TypeOK /\ list \in Seq(PageIds) /\ Len(list) \in Nat /\ DOMAIN list = 1..Len(list)
  BY DEF DbInv, TypeOK
<1>b. PICK b \in Bits : b = UseIdx(Bits) /\ b < NumDb /\ ClearIdx(Bits) = Bits \ {b}
  <2>1. 0 \in Bits /\ 0 < NumDb
    BY SwDbAssumption DEF Bits
  <2> QED
    BY <2>1, UseIdxFacts
<1>a. /\ swDb[j] = NoDb
      /\ swDb' = [swDb EXCEPT ![j] = [page |-> pg, pos |-> b]]
      /\ bitmap' = [bitmap EXCEPT ![pg] = Bits \ {b}]
      /\ useCnt' = [useCnt EXCEPT ![pg] = 1]
      /\ list' = <<pg>> \o list
      /\ ~Linked(pg)
  BY <1>b DEF AllocNewPage
<1>s. /\ list' \in Seq(PageIds) /\ DOMAIN list' = 1..(Len(list) + 1)
      /\ list'[1] = pg
      /\ \A k \in 1..Len(list) : list'[k + 1] = list[k]
  <2>1. <<pg>> \in Seq(PageIds) /\ Len(<<pg>>) = 1 /\ <<pg>>[1] = pg
    OBVIOUS
  <2>2. /\ <<pg>> \o list \in Seq(PageIds) /\ Len(<<pg>> \o list) = Len(<<pg>>) + Len(list)
        /\ \A i \in 1..(Len(<<pg>>) + Len(list)) :
             (<<pg>> \o list)[i] = IF i <= Len(<<pg>>) THEN <<pg>>[i] ELSE list[i - Len(<<pg>>)]
    BY <2>1, <1>t, ConcatProperties
  <2>3. /\ list' \in Seq(PageIds) /\ Len(list') = 1 + Len(list)
        /\ \A i \in 1..(1 + Len(list)) : list'[i] = IF i <= 1 THEN pg ELSE list[i - 1]
    BY <2>1, <2>2, <1>a
  <2> QED
    BY <2>3, <1>t
<1>k. ASSUME NEW i \in DOMAIN list'
      PROVE  i = 1 \/ \E k \in DOMAIN list : i = k + 1 /\ list'[i] = list[k]
  <2>1. i # 1 => i - 1 \in 1..Len(list) /\ i = (i - 1) + 1
    BY <1>s, <1>t
  <2> QED
    BY <2>1, <1>s, <1>t
<1>n. \A k \in DOMAIN list : list[k] \in PageIds /\ list[k] # pg
  BY <1>t, <1>a DEF Linked
<1>l. Linked(pg)' /\ \A q \in PageIds : Linked(q) => Linked(q)'
  <2>1. 1 \in DOMAIN list' /\ \A k \in DOMAIN list : k + 1 \in DOMAIN list'
    BY <1>s, <1>t
  <2> QED
    BY <2>1, <1>s, <1>t DEF Linked
<1>e. Holders(pg) = {} /\ Used(pg) = {} /\ Cardinality(Holders(pg)) = 0
  <2>1. Holders(pg) = {}
    BY <1>a, UnlinkedFree DEF DbInv
  <2> QED
    BY <2>1, FS_EmptySet DEF Used
<1>g. /\ swDb' \in [Jfcs -> Cell \cup {NoDb}]
      /\ NoAlias' /\ HeldIsMapped'
      /\ \A q \in PageIds : IsFiniteSet(Holders(q)')
      /\ Cardinality(Holders(pg)') = Cardinality(Holders(pg)) + 1
      /\ Used(pg)' = Used(pg) \cup {b}
      /\ \A q \in PageIds : q # pg => Used(q)' = Used(q)
  BY <1>a, <1>b, <1>e, <1>l, GainCell
<1>h. \A q \in PageIds : q # pg => Holders(q)' = Holders(q)
  BY <1>a, <1>b, <1>t, HoldersGain
<1>1. TypeOK'
  <2>1. 1 \in 0..NumDb
    BY SwDbAssumption
  <2>2. bitmap' \in [PageIds -> SUBSET Bits] /\ useCnt' \in [PageIds -> 0..NumDb]
    BY <2>1, <1>a, <1>t DEF TypeOK
  <2> QED
    BY <2>2, <1>g, <1>s DEF TypeOK
<1>2. ASSUME NEW i \in DOMAIN list'
      PROVE  /\ bitmap'[list'[i]] = Bits \ Used(list[i])'
             /\ useCnt'[list'[i]] = Cardinality(Holders(list[i])') /\ useCnt'[list'[i]] > 0
  <2>0. PICK q \in PageIds : q = list'[i]
    BY <1>s, ElementOfSeq
  <2>1. CASE i = 1
    <3>1. q = pg /\ bitmap'[q] = Bits \ {b} /\ useCnt'[q] = 1
      BY <2>0, <2>1, <1>s, <1>a, <1>t DEF TypeOK
    <3>2. Used(q)' = {b} /\ Cardinality(Holders(q)') = 1
      BY <3>1, <1>g, <1>e
    <3> QED
      BY <2>0, <3>1, <3>2 DEF Used, Holders
  <2>2. CASE i # 1
    <3>1. PICK k \in DOMAIN list : i = k + 1 /\ q = list[k] /\ q # pg
      BY <2>0, <2>2, <1>k, <1>n
    <3>2. bitmap'[q] = bitmap[q] /\ useCnt'[q] = useCnt[q] /\ Holders(q)' = Holders(q)
          /\ Used(q)' = Used(q)
      BY <3>1, <1>a, <1>g, <1>h, <1>t DEF TypeOK
    <3>3. /\ bitmap[q] = Bits \ Used(q)
          /\ useCnt[q] = Cardinality(Holders(q)) /\ useCnt[q] > 0
      BY <3>1 DEF DbInv, BitmapExact, UseCntExact
    <3> QED
      BY <2>0, <3>2, <3>3 DEF Used, Holders
  <2> QED
    BY <2>1, <2>2
<1>3. BitmapExact'
  <2>1. ASSUME NEW i \in DOMAIN list', NEW m \in DOMAIN list', list'[i] = list'[m]
        PROVE  i = m
    <3>1. CASE i = 1 \/ m = 1
      BY <2>1, <3>1, <1>k, <1>n, <1>s
    <3>2. CASE i # 1 /\ m # 1
      <4>1. PICK k \in DOMAIN list, n \in DOMAIN list : i = k + 1 /\ m = n + 1 /\ list[k] = list[n]
        BY <2>1, <3>2, <1>k
      <4>2. k = n
        BY <4>1 DEF DbInv, BitmapExact
      <4> QED
        BY <4>1, <4>2
    <3> QED
      BY <3>1, <3>2
  <2> QED
    BY <2>1, <1>2 DEF BitmapExact
<1>4. UseCntExact'
  BY <1>2 DEF UseCntExact
<1> QED
  BY <1>1, <1>3, <1>4, <1>g DEF DbInv

\* A cell given back; its page goes with the last one.
LEMMA FreeCellInv ==
  ASSUME DbInv, NEW j \in Jfcs, NEW i \in DOMAIN list, FreeCell(j, i)
  PROVE  DbInv'
<1>t. /\ TypeOK /\ list \in Seq(PageIds) /\ Len(list) \in Nat /\ DOMAIN list = 1..Len(list)
      /\ \A k \in DOMAIN list : list[k] \in PageIds
  BY ElementOfSeq DEF DbInv, TypeOK
<1>p. PICK pg \in PageIds, b \in Bits :
        /\ pg = list[i] /\ swDb[j] = [page |-> pg, pos |-> b] /\ swDb[j].page = pg
        /\ swDb[j].pos = b /\ swDb[j] # NoDb
  BY <1>t, CellFacts DEF FreeCell
<1>a. /\ swDb' = [swDb EXCEPT ![j] = NoDb]
      /\ useCnt' = [useCnt EXCEPT ![pg] = useCnt[pg] - 1]
      /\ \/ useCnt[pg] = 1 /\ list' = RemoveAt(list, i) /\ UNCHANGED bitmap
         \/ /\ useCnt[pg] # 1 /\ UNCHANGED list
            /\ bitmap' = [bitmap EXCEPT ![pg] = bitmap[pg] \cup {b}]
  BY <1>p DEF FreeCell
<1>h. /\ swDb'[j] = NoDb
      /\ \A k \in Jfcs : k # j => swDb'[k] = swDb[k]
      /\ j \in Holders(pg)
      /\ Holders(pg)' = Holders(pg) \ {j}
      /\ \A q : q # pg => Holders(q)' = Holders(q)
  <2>1. TypeOK /\ swDb[j] # NoDb /\ swDb[j].page = pg /\ swDb' = [swDb EXCEPT ![j] = NoDb]
    BY <1>a, <1>p, <1>t
  <2> QED
    BY <2>1, HoldersLose
<1>c. /\ useCnt[pg] \in Nat /\ useCnt[pg] >= 1 /\ useCnt[pg] <= NumDb /\ NumDb \in Nat
      /\ useCnt[pg] = Cardinality(Holders(pg)) /\ IsFiniteSet(Holders(pg))
      /\ bitmap[pg] = Bits \ Used(pg)
  BY <1>p, SwDbAssumption DEF DbInv, TypeOK, UseCntExact, BitmapExact
<1>f. IsFiniteSet(Holders(pg)') /\ Cardinality(Holders(pg)') = useCnt[pg] - 1
  BY <1>c, <1>h, FS_RemoveElement
<1>u. Used(pg)' = Used(pg) \ {b}
  <2>1. ASSUME NEW k \in Holders(pg), k # j
        PROVE  swDb[k].pos # b /\ swDb'[k] = swDb[k]
    <3>1. k \in Jfcs /\ swDb[k] # NoDb /\ swDb[k].page = pg
      BY DEF Holders
    <3>2. swDb[k] = [page |-> pg, pos |-> swDb[k].pos]
      BY <3>1, <1>t, CellFacts
    <3>3. swDb[k] # swDb[j]
      BY <2>1, <3>1 DEF DbInv, NoAlias
    <3> QED
      BY <2>1, <3>1, <3>2, <3>3, <1>p, <1>h
  <2> QED
    BY <2>1, <1>h, <1>p DEF Used
<1>o. ASSUME NEW q \in PageIds, q # pg
      PROVE  Used(q)' = Used(q)
  <2>1. ASSUME NEW k \in Holders(q)
        PROVE  swDb'[k] = swDb[k]
    BY <1>o, <1>h, <1>p DEF Holders
  <2> QED
    BY <2>1, <1>o, <1>h DEF Used
<1>1. NoAlias'
  BY <1>h DEF DbInv, NoAlias
<1>2. \A q \in PageIds : IsFiniteSet(Holders(q)')
  BY <1>f, <1>h DEF DbInv
<1>3. swDb' \in [Jfcs -> Cell \cup {NoDb}] /\ useCnt' \in [PageIds -> 0..NumDb]
  <2>1. useCnt[pg] - 1 \in 0..NumDb
    BY <1>c
  <2> QED
    BY <2>1, <1>a, <1>t DEF TypeOK
<1>s. /\ list' \in Seq(PageIds) /\ bitmap' \in [PageIds -> SUBSET Bits]
      /\ \A m \in DOMAIN list' : \E k \in DOMAIN list :
           /\ list'[m] = list[k]
           /\ useCnt[pg] = 1 => list[k] # pg
      /\ \A m, n \in DOMAIN list' : list'[m] = list'[n] => m = n
      /\ \A q \in PageIds : Linked(q) => Linked(q)' \/ (q = pg /\ useCnt[pg] = 1)
  <2>d. \A k, n \in DOMAIN list : list[k] = list[n] => k = n
    BY DEF DbInv, BitmapExact
  <2>1. CASE useCnt[pg] # 1
    <3>1. list' = list
      BY <2>1, <1>a
    <3>2. bitmap' \in [PageIds -> SUBSET Bits]
      BY <2>1, <1>a, <1>t DEF TypeOK
    <3> QED
      BY <2>1, <2>d, <3>1, <3>2, <1>t DEF Linked
  <2>2. CASE useCnt[pg] = 1
    <3>1. /\ list' \in Seq(PageIds) /\ Len(list') = Len(list) - 1
          /\ \A k \in 1..(Len(list) - 1) : list'[k] = IF k < i THEN list[k] ELSE list[k + 1]
      <4>1. i \in 1..Len(list) /\ list' = RemoveAt(list, i)
        BY <2>2, <1>a, <1>t
      <4> QED
        BY <4>1, <1>t, RemoveAtFacts
    <3>2. DOMAIN list' = 1..(Len(list) - 1)
      BY <3>1
    <3> DEFINE old(m) == IF m < i THEN m ELSE m + 1
    <3>3. ASSUME NEW m \in DOMAIN list'
          PROVE  old(m) \in DOMAIN list /\ old(m) # i /\ list'[m] = list[old(m)]
      BY <3>1, <3>2, <1>t
    <3>4. \A m, n \in DOMAIN list' : old(m) = old(n) => m = n
      BY <3>2, <1>t
    <3>5. ASSUME NEW k \in DOMAIN list, k # i
          PROVE  \E m \in DOMAIN list' : old(m) = k
      <4> DEFINE m == IF k < i THEN k ELSE k - 1
      <4>1. m \in DOMAIN list' /\ old(m) = k
        BY <3>5, <3>2, <1>t
      <4> QED
        BY <4>1
    <3> HIDE DEF old
    <3>6. \A m \in DOMAIN list' : list[old(m)] # pg
      BY <3>3, <2>d, <1>p
    <3>7. \A q \in PageIds : Linked(q) /\ q # pg => Linked(q)'
      <4> SUFFICES ASSUME NEW q \in PageIds, NEW k \in DOMAIN list, list[k] = q, q # pg
                   PROVE  \E m \in DOMAIN list' : list'[m] = q
        BY DEF Linked
      <4>1. k # i
        BY <1>p
      <4> QED
        BY <4>1, <3>3, <3>5
    <3>8. bitmap' \in [PageIds -> SUBSET Bits]
      BY <2>2, <1>a, <1>t DEF TypeOK
    <3>9. \A m \in DOMAIN list' : \E k \in DOMAIN list : list'[m] = list[k] /\ list[k] # pg
      BY <3>3, <3>6
    <3>10. \A m, n \in DOMAIN list' : list'[m] = list'[n] => m = n
      BY <3>3, <3>4, <2>d
    <3> QED
      BY <3>1, <3>7, <3>8, <3>9, <3>10, <2>2
  <2> QED
    BY <2>1, <2>2
<1>4. HeldIsMapped'
  <2> SUFFICES ASSUME NEW k \in Jfcs, swDb'[k] # NoDb
               PROVE  Linked(swDb[k].page)' /\ swDb'[k].pos < NumDb
    BY DEF HeldIsMapped
  <2>1. k # j /\ swDb'[k] = swDb[k] /\ swDb[k] # NoDb
    BY <1>h
  <2>2. PICK q \in PageIds : q = swDb[k].page /\ k \in Holders(q)
    BY <2>1, <1>t, CellFacts
  <2>3. Linked(q) /\ swDb[k].pos < NumDb
    BY <2>1, <2>2 DEF DbInv, HeldIsMapped
  <2>4. ~(q = pg /\ useCnt[pg] = 1)
    <3> SUFFICES ASSUME q = pg, useCnt[pg] = 1 PROVE FALSE
      OBVIOUS
    <3>1. Cardinality(Holders(pg)') = 0
      BY <1>f
    <3>2. Holders(pg)' = {}
      BY <3>1, <1>f, FS_EmptySet
    <3> QED
      BY <3>2, <2>1, <2>2, <1>h
  <2>5. Linked(q)'
    BY <2>3, <2>4, <1>s
  <2> QED
    BY <2>1, <2>2, <2>3, <2>5 DEF Linked
<1>5. ASSUME NEW m \in DOMAIN list'
      PROVE  /\ bitmap'[list'[m]] = Bits \ Used(list[m])'
             /\ useCnt'[list'[m]] = Cardinality(Holders(list[m])') /\ useCnt'[list'[m]] > 0
  <2>1. PICK k \in DOMAIN list, q \in PageIds :
          q = list'[m] /\ q = list[k] /\ (useCnt[pg] = 1 => q # pg)
    BY <1>s, <1>t
  <2>2. CASE q = pg
    <3>1. useCnt[pg] # 1 /\ bitmap'[q] = bitmap[pg] \cup {b} /\ useCnt'[q] = useCnt[pg] - 1
      BY <2>1, <2>2, <1>a, <1>t DEF TypeOK
    <3>2. bitmap'[q] = Bits \ Used(q)'
      BY <3>1, <2>2, <1>c, <1>u
    <3>3. useCnt'[q] = Cardinality(Holders(q)') /\ useCnt'[q] > 0
      BY <3>1, <2>2, <1>c, <1>f
    <3> QED
      BY <2>1, <3>2, <3>3 DEF Used, Holders
  <2>3. CASE q # pg
    <3>1. bitmap'[q] = bitmap[q] /\ useCnt'[q] = useCnt[q]
      BY <2>3, <1>a, <1>t DEF TypeOK
    <3>2. Used(q)' = Used(q) /\ Holders(q)' = Holders(q)
      BY <2>3, <1>o, <1>h
    <3>3. /\ bitmap[q] = Bits \ Used(q)
          /\ useCnt[q] = Cardinality(Holders(q)) /\ useCnt[q] > 0
      BY <2>1 DEF DbInv, BitmapExact, UseCntExact
    <3> QED
      BY <2>1, <3>1, <3>2, <3>3 DEF Used, Holders
  <2> QED
    BY <2>2, <2>3
<1>6. BitmapExact' /\ UseCntExact'
  BY <1>5, <1>s DEF BitmapExact, UseCntExact
<1>7. TypeOK'
  BY <1>3, <1>s DEF TypeOK
<1> QED
  BY <1>1, <1>2, <1>4, <1>6, <1>7 DEF DbInv
----------------------------------------------------------------------------
(* What follows *)

\* A context starts without doorbell pages.
LEMMA InitDb == Init => DbInv
<1> SUFFICES ASSUME Init PROVE DbInv
  OBVIOUS
<1>1. list = <<>> /\ list \in Seq(PageIds) /\ DOMAIN list = {}
  BY EmptySeq DEF Init
<1>2. TypeOK
  <2>1. 0 \in 0..NumDb
    BY SwDbAssumption
  <2> QED
    BY <2>1, <1>1 DEF Init, TypeOK
<1>3. \A j \in Jfcs : swDb[j] = NoDb
  BY DEF Init
<1>4. \A pg : Holders(pg) = {}
  BY <1>3 DEF Holders
<1> QED
  BY <1>1, <1>2, <1>3, <1>4, FS_EmptySet
     DEF DbInv, BitmapExact, NoAlias, HeldIsMapped, UseCntExact

\* Every operation preserves the invariant.
LEMMA NextDb == DbInv /\ [Next]_vars => DbInv'
<1> SUFFICES ASSUME DbInv, [Next]_vars PROVE DbInv'
  OBVIOUS
<1>1. CASE Next
  BY <1>1, AllocFoundInv, AllocNewPageInv, FreeCellInv DEF Next
<1>2. CASE UNCHANGED vars
  <2>1. UNCHANGED <<list, bitmap, useCnt, swDb>>
    BY <1>2 DEF vars
  <2>2. \A pg : Holders(pg)' = Holders(pg) /\ Used(pg)' = Used(pg)
    BY <2>1 DEF Holders, Used
  <2>3. TypeOK' /\ NoAlias' /\ HeldIsMapped'
    BY <2>1 DEF DbInv, TypeOK, NoAlias, HeldIsMapped, Linked
  <2>4. BitmapExact' /\ UseCntExact'
    BY <2>1, <2>2 DEF DbInv, BitmapExact, UseCntExact, Used, Holders
  <2> QED
    BY <2>2, <2>3, <2>4 DEF DbInv
<1> QED
  BY <1>1, <1>2

\* The invariant of the allocator holds in every reachable state.
THEOREM DbInvariance == Spec => []DbInv
<1>1. Init => DbInv
  BY InitDb
<1>2. DbInv /\ [Next]_vars => DbInv'
  BY NextDb
<1> QED
  BY <1>1, <1>2, PTL DEF Spec

\* No counter of a page leaves its range, no bit lies outside the bitmap.
THEOREM DbTypes == Spec => []TypeOK
<1>1. DbInv => TypeOK
  BY DEF DbInv
<1> QED
  BY <1>1, DbInvariance, PTL

\* Two JFCs never share a cell, although the result of cdma_bitmap_use_idx is
\* not checked: a page the search settles on always has a free cell.
THEOREM CellsDistinct == Spec => []NoAlias
<1>1. DbInv => NoAlias
  BY DEF DbInv
<1> QED
  BY <1>1, DbInvariance, PTL

\* A JFC's doorbell lies in a page that is still mapped.
THEOREM CellsMapped == Spec => []HeldIsMapped
<1>1. DbInv => HeldIsMapped
  BY DEF DbInv
<1> QED
  BY <1>1, DbInvariance, PTL

\* use_cnt counts the holders, so a page goes exactly with its last one.
THEOREM PagesCounted == Spec => []UseCntExact
<1>1. DbInv => UseCntExact
  BY DEF DbInv
<1> QED
  BY <1>1, DbInvariance, PTL

\* The bitmap of a page says exactly which of its cells are held.
THEOREM BitmapsExact == Spec => []BitmapExact
<1>1. DbInv => BitmapExact
  BY DEF DbInv
<1> QED
  BY <1>1, DbInvariance, PTL
============================================================================
