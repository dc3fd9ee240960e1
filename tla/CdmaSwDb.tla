------------------------------ MODULE CdmaSwDb ------------------------------
(***************************************************************************)
(* The allocator of software doorbells (cdma_u_db.c).  A JFC publishes its *)
(* consumer index in a 4-byte cell of a page the context shares with the   *)
(* device; the cells of a page are handed out by a bitmap, pages are added *)
(* at the head of a list when all are full and released when their last    *)
(* cell is.  Every operation runs under ctx->page_mutex, so it is one step.*)
(***************************************************************************)
EXTENDS Integers, Sequences, FiniteSets, SequencesExt

CONSTANTS
  PageIds,      \* addresses mmap can return for a doorbell page
  NumDb,        \* db_page->num_db, cells in a page
  BitmapBits,   \* bits in the bitmap: NumDb rounded up to whole words
  Jfcs,         \* the JFCs that may be created and deleted
  NoDb          \* a JFC without a doorbell

Bits == 0..(BitmapBits - 1)
Cell == [page : PageIds, pos : Bits]

ASSUME SwDbAssumption ==
  /\ NumDb \in Nat \ {0}
  /\ BitmapBits \in Nat
  /\ BitmapBits >= NumDb
  /\ NoDb \notin Cell

VARIABLES
  list,         \* the pages from ctx->page on, as a sequence of addresses
  bitmap,       \* per page, the set bits: cells not handed out
  useCnt,       \* per page, db_page->use_cnt
  swDb          \* per JFC, the cell it holds: jfc->sw_db

vars == <<list, bitmap, useCnt, swDb>>

Linked(pg) == \E i \in DOMAIN list : list[i] = pg

\* Mutant of HasRoom: one cell too many.
HasRoomLax(pg) == useCnt[pg] <= NumDb

HasRoom(pg) == useCnt[pg] < NumDb

\* The first page of the list with room, as the search loop finds it.
FirstWithRoom(i) ==
  /\ HasRoom(list[i])
  /\ \A k \in 1..(i - 1) : ~HasRoom(list[k])

\* cdma_bitmap_use_idx: the lowest set bit; no set bit leaves npos at 0, and
\* the caller ignores the error.
UseIdx(bits) == IF bits = {} THEN 0 ELSE CHOOSE b \in bits : \A c \in bits : b <= c

\* The bit is cleared only if it is within the page.
ClearIdx(bits) == IF UseIdx(bits) < NumDb THEN bits \ {UseIdx(bits)} ELSE bits

\* cdma_u_alloc_sw_db with room in page list[i].
AllocFound(j, i) ==
  /\ swDb[j] = NoDb
  /\ FirstWithRoom(i)
  /\ swDb' = [swDb EXCEPT ![j] = [page |-> list[i], pos |-> UseIdx(bitmap[list[i]])]]
  /\ bitmap' = [bitmap EXCEPT ![list[i]] = ClearIdx(@)]
  /\ useCnt' = [useCnt EXCEPT ![list[i]] = @ + 1]
  /\ UNCHANGED list

\* cdma_u_alloc_sw_db when cdma_add_db_page adds page pg at the head.
AllocNewPage(j, pg) ==
  /\ swDb[j] = NoDb
  /\ \A i \in DOMAIN list : ~HasRoom(list[i])
  /\ ~Linked(pg)
  /\ list' = <<pg>> \o list
  /\ swDb' = [swDb EXCEPT ![j] = [page |-> pg, pos |-> UseIdx(Bits)]]
  /\ bitmap' = [bitmap EXCEPT ![pg] = ClearIdx(Bits)]
  /\ useCnt' = [useCnt EXCEPT ![pg] = 1]

\* Mutant of FreeCell: the page is released while one cell is still in use.
FreeCellEarly(j, i) ==
  /\ swDb[j] # NoDb
  /\ swDb[j].page = list[i]
  /\ useCnt' = [useCnt EXCEPT ![list[i]] = @ - 1]
  /\ IF useCnt[list[i]] <= 2
     THEN list' = RemoveAt(list, i) /\ UNCHANGED bitmap
     ELSE bitmap' = [bitmap EXCEPT ![list[i]] = @ \cup {swDb[j].pos}] /\ UNCHANGED list
  /\ swDb' = [swDb EXCEPT ![j] = NoDb]

\* Mutant of FreeCell: an empty page is kept.
FreeCellKeep(j, i) ==
  /\ swDb[j] # NoDb
  /\ swDb[j].page = list[i]
  /\ useCnt' = [useCnt EXCEPT ![list[i]] = @ - 1]
  /\ bitmap' = [bitmap EXCEPT ![list[i]] = @ \cup {swDb[j].pos}]
  /\ swDb' = [swDb EXCEPT ![j] = NoDb]
  /\ UNCHANGED list

\* Mutant of FreeCell: the bit of the cell is not set again.
FreeCellNoBit(j, i) ==
  /\ swDb[j] # NoDb
  /\ swDb[j].page = list[i]
  /\ useCnt' = [useCnt EXCEPT ![list[i]] = @ - 1]
  /\ list' = IF useCnt[list[i]] = 1 THEN RemoveAt(list, i) ELSE list
  /\ swDb' = [swDb EXCEPT ![j] = NoDb]
  /\ UNCHANGED bitmap

\* cdma_u_free_sw_db finds the page list[i] by the page address of the cell,
\* releases the page with its last cell, else sets the cell's bit again.
FreeCell(j, i) ==
  /\ swDb[j] # NoDb
  /\ swDb[j].page = list[i]
  /\ useCnt' = [useCnt EXCEPT ![list[i]] = @ - 1]
  /\ IF useCnt[list[i]] = 1
     THEN list' = RemoveAt(list, i) /\ UNCHANGED bitmap
     ELSE bitmap' = [bitmap EXCEPT ![list[i]] = @ \cup {swDb[j].pos}] /\ UNCHANGED list
  /\ swDb' = [swDb EXCEPT ![j] = NoDb]

Init ==
  /\ list = <<>>
  /\ bitmap = [pg \in PageIds |-> {}]
  /\ useCnt = [pg \in PageIds |-> 0]
  /\ swDb = [j \in Jfcs |-> NoDb]

Next == \E j \in Jfcs :
  \/ \E i \in DOMAIN list : AllocFound(j, i) \/ FreeCell(j, i)
  \/ \E pg \in PageIds : AllocNewPage(j, pg)

Spec == Init /\ [][Next]_vars
----------------------------------------------------------------------------
\* Every variable has its type; a page never counts more users than cells.
TypeOK ==
  /\ list \in Seq(PageIds)
  /\ bitmap \in [PageIds -> SUBSET Bits]
  /\ useCnt \in [PageIds -> 0..NumDb]
  /\ swDb \in [Jfcs -> Cell \cup {NoDb}]

\* The JFCs whose doorbell lies in page pg.
Holders(pg) == {j \in Jfcs : swDb[j] # NoDb /\ swDb[j].page = pg}

\* The cells of page pg that they hold.
Used(pg) == {swDb[j].pos : j \in Holders(pg)}

\* Two JFCs never publish their consumer index in the same cell, although the
\* error of cdma_bitmap_use_idx is ignored and would hand out cell 0 again.
NoAlias ==
  \A j, k \in Jfcs : j # k /\ swDb[j] # NoDb => swDb[j] # swDb[k]

\* A doorbell a JFC holds lies in a page that is still mapped, within the page.
HeldIsMapped ==
  \A j \in Jfcs : swDb[j] # NoDb => Linked(swDb[j].page) /\ swDb[j].pos < NumDb

\* use_cnt counts the holders of each page, and no page is kept without one.
UseCntExact ==
  \A i \in DOMAIN list :
    useCnt[list[i]] = Cardinality(Holders(list[i])) /\ useCnt[list[i]] > 0

\* A page is linked once, and a bit of its bitmap is clear exactly when a JFC
\* holds that cell: what the search for a set bit and the mask that finds the
\* page of a cell rely on.
BitmapExact ==
  /\ \A i, k \in DOMAIN list : list[i] = list[k] => i = k
  /\ \A i \in DOMAIN list : bitmap[list[i]] = Bits \ Used(list[i])

\* The conjunction is inductive.
DbInv ==
  /\ TypeOK
  /\ BitmapExact
  /\ NoAlias
  /\ HeldIsMapped
  /\ UseCntExact
  /\ \A pg \in PageIds : IsFiniteSet(Holders(pg))
============================================================================
