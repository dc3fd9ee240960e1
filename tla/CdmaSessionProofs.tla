------------------------- MODULE CdmaSessionProofs -------------------------
(***************************************************************************)
(* Proofs about finding devices, and about creating and deleting contexts, *)
(* queues and segments on them, for any number of threads, devices,        *)
(* descriptors and objects.                                                *)
(***************************************************************************)
EXTENDS CdmaSession, CdmaRingLemmas, FiniteSetTheorems, SequenceTheorems

----------------------------------------------------------------------------
(* Descriptors and their slots *)

Table == [Fds -> Devs \cup {NoDev}]

\* A slot of a sequence of slots.
LEMMA SlotFacts ==
  ASSUME NEW q \in Seq(Slot), NEW i \in 1..Len(q)
  PROVE  q[i] \in Slot /\ q[i].fd \in Fds /\ q[i].dev \in Devs
<1>1. q[i] \in Slot
  OBVIOUS
<1> QED
  BY <1>1 DEF Slot

\* Two lists, one after the other.
LEMMA ConcatFacts ==
  ASSUME NEW a \in Seq(Slot), NEW b \in Seq(Slot)
  PROVE  /\ a \o b \in Seq(Slot) /\ Len(a \o b) = Len(a) + Len(b)
         /\ Len(a) \in Nat /\ Len(b) \in Nat /\ Len(a \o b) \in Nat
         /\ \A i \in 1..Len(a) : (a \o b)[i] = a[i]
         /\ \A i \in 1..Len(b) : (a \o b)[Len(a) + i] = b[i]
OBVIOUS

\* The slots of a thread have different descriptors.
LEMMA DistinctFds ==
  ASSUME NEW tab, NEW owned, Exact(tab, owned), NEW t \in Threads,
         NEW i \in 1..Len(owned[t]), NEW j \in 1..Len(owned[t]),
         owned[t][i].fd = owned[t][j].fd
  PROVE  i = j
BY DEF Exact

\* A descriptor that is opened gets a slot at the end of a thread's slots.
LEMMA ExactAdd ==
  ASSUME NEW tab \in Table, NEW owned \in [Threads -> Seq(Slot)], Exact(tab, owned),
         NEW t \in Threads, NEW f \in Fds, tab[f] = NoDev, NEW e \in Devs,
         NEW s, s = [fd |-> f, dev |-> e]
  PROVE  Exact([tab EXCEPT ![f] = e], [owned EXCEPT ![t] = Append(owned[t], s)])
<1> DEFINE tab2 == [tab EXCEPT ![f] = e]
           own2 == [owned EXCEPT ![t] = Append(owned[t], s)]
           n    == Len(owned[t])
<1>0. NoDev \notin Devs
  BY DeviceAssumption
<1>1. n \in Nat /\ s.fd = f /\ s.dev = e /\ s \in Slot
  BY DEF Slot
<1>2. /\ \A u \in Threads : u # t => own2[u] = owned[u]
      /\ own2[t] = Append(owned[t], s)
  OBVIOUS
<1>3. /\ Len(own2[t]) = n + 1 /\ own2[t][n + 1] = s
      /\ \A i \in 1..n : own2[t][i] = owned[t][i]
  BY <1>1, <1>2
<1>4. \A u \in Threads : \A i \in 1..Len(owned[u]) :
        owned[u][i] \in Slot /\ owned[u][i].fd \in Fds /\ owned[u][i].dev \in Devs
  BY SlotFacts
<1>5. \A u \in Threads : \A i \in 1..Len(owned[u]) : owned[u][i].fd # f
  BY <1>0, <1>4 DEF Exact
<1>6. \A u \in Threads : \A i \in 1..Len(own2[u]) :
        \/ i \in 1..Len(owned[u]) /\ own2[u][i] = owned[u][i]
        \/ u = t /\ i = n + 1 /\ own2[u][i] = s
  BY <1>1, <1>2, <1>3
<1> HIDE DEF own2
<1>7. ASSUME NEW u \in Threads, NEW i \in 1..Len(own2[u])
      PROVE  tab2[own2[u][i].fd] = own2[u][i].dev
  <2>1. CASE i \in 1..Len(owned[u]) /\ own2[u][i] = owned[u][i]
    BY <2>1, <1>4, <1>5 DEF Exact, Table
  <2>2. CASE own2[u][i] = s
    BY <2>2, <1>1 DEF Table
  <2> QED
    BY <1>6, <1>7, <2>1, <2>2
<1>8. ASSUME NEW u \in Threads, NEW i \in 1..Len(own2[u]),
             NEW v \in Threads, NEW j \in 1..Len(own2[v]),
             own2[v][j].fd = own2[u][i].fd
      PROVE  v = u /\ i = j
  <2>1. CASE /\ i \in 1..Len(owned[u]) /\ own2[u][i] = owned[u][i]
             /\ j \in 1..Len(owned[v]) /\ own2[v][j] = owned[v][j]
    BY <1>8, <2>1 DEF Exact
  <2>2. CASE u = t /\ i = n + 1 /\ own2[u][i] = s
    BY <1>1, <1>5, <1>6, <1>8, <2>2
  <2>3. CASE v = t /\ j = n + 1 /\ own2[v][j] = s
    <3>1. own2[u][i].fd = f
      BY <1>1, <1>8, <2>3
    <3>2. ~(i \in 1..Len(owned[u]) /\ own2[u][i] = owned[u][i])
      BY <1>5, <3>1
    <3>3. u = t /\ i = n + 1
      BY <1>6, <3>2
    <3> QED
      BY <2>3, <3>3
  <2> QED
    BY <1>6, <1>8, <2>1, <2>2, <2>3
<1>9. ASSUME NEW g \in Fds, tab2[g] # NoDev
      PROVE  \E u \in Threads : g \in FdsOf(own2[u])
  <2>1. CASE g = f
    <3>1. n + 1 \in 1..Len(own2[t]) /\ own2[t][n + 1].fd = f
      BY <1>1, <1>3
    <3> QED
      BY <2>1, <3>1 DEF FdsOf
  <2>2. CASE g # f
    <3>1. tab[g] # NoDev
      BY <1>9, <2>2 DEF Table
    <3>2. PICK u \in Threads : g \in FdsOf(owned[u])
      BY <3>1 DEF Exact
    <3>3. PICK i \in 1..Len(owned[u]) : owned[u][i].fd = g
      BY <3>2 DEF FdsOf
    <3>4. i \in 1..Len(own2[u]) /\ own2[u][i] = owned[u][i]
      BY <1>1, <1>2, <1>3, <3>3 DEF own2
    <3> QED
      BY <3>3, <3>4 DEF FdsOf
  <2> QED
    BY <2>1, <2>2
<1> HIDE DEF tab2
<1>10. Exact(tab2, own2)
  BY <1>7, <1>8, <1>9 DEF Exact
<1> QED
  BY <1>10 DEF tab2, own2

\* The slots s are those at the places m of the slots q.
KeptAt(s, m, q) ==
  /\ m \in [1..Len(s) -> 1..Len(q)]
  /\ \A i, j \in 1..Len(s) : m[i] = m[j] => i = j
  /\ \A i \in 1..Len(s) : s[i] = q[m[i]]

\* The descriptor table without the descriptors gone.
Closed(tab, gone) == [f \in Fds |-> IF f \in gone THEN NoDev ELSE tab[f]]

\* A thread keeps some of its slots, and the other descriptors are closed.
LEMMA ExactKeep ==
  ASSUME NEW tab \in Table, NEW owned \in [Threads -> Seq(Slot)], Exact(tab, owned),
         NEW t \in Threads, NEW s \in Seq(Slot), NEW m, KeptAt(s, m, owned[t]),
         NEW gone, gone = FdsOf(owned[t]) \ FdsOf(s)
  PROVE  Exact(Closed(tab, gone), [owned EXCEPT ![t] = s])
<1> DEFINE tab2 == Closed(tab, gone)
           own2 == [owned EXCEPT ![t] = s]
           Old(u, i) == IF u = t THEN m[i] ELSE i
<1>1. \A u \in Threads : \A i \in 1..Len(owned[u]) :
        owned[u][i] \in Slot /\ owned[u][i].fd \in Fds /\ owned[u][i].dev \in Devs
  BY SlotFacts
<1>2. \A u \in Threads : own2[u] = IF u = t THEN s ELSE owned[u]
  OBVIOUS
<1>3. \A u \in Threads : \A i \in 1..Len(own2[u]) :
        Old(u, i) \in 1..Len(owned[u]) /\ own2[u][i] = owned[u][Old(u, i)]
  BY <1>2 DEF KeptAt
<1>4. \A u \in Threads : \A i, j \in 1..Len(own2[u]) : Old(u, i) = Old(u, j) => i = j
  BY <1>2 DEF KeptAt
<1>5. \A u \in Threads : \A i \in 1..Len(own2[u]) : own2[u][i].fd \notin gone
  <2> SUFFICES ASSUME NEW u \in Threads, NEW i \in 1..Len(own2[u]), own2[u][i].fd \in gone
               PROVE  FALSE
    OBVIOUS
  <2>1. PICK k \in 1..Len(owned[t]) : owned[t][k].fd = own2[u][i].fd
    BY DEF FdsOf
  <2>2. u = t
    BY <1>3, <2>1 DEF Exact
  <2>3. own2[u][i].fd \in FdsOf(s)
    BY <1>2, <2>2 DEF FdsOf
  <2> QED
    BY <2>3
<1> HIDE DEF own2, Old
<1>6. ASSUME NEW u \in Threads, NEW i \in 1..Len(own2[u])
      PROVE  tab2[own2[u][i].fd] = own2[u][i].dev
  <2>1. PICK a \in 1..Len(owned[u]) : own2[u][i] = owned[u][a]
    BY <1>3
  <2>2. owned[u][a].fd \in Fds /\ tab[owned[u][a].fd] = owned[u][a].dev
    BY <1>1 DEF Exact
  <2> QED
    BY <1>5, <2>1, <2>2 DEF Closed
<1>7. ASSUME NEW u \in Threads, NEW i \in 1..Len(own2[u]),
             NEW v \in Threads, NEW j \in 1..Len(own2[v]),
             own2[v][j].fd = own2[u][i].fd
      PROVE  v = u /\ i = j
  <2>0. PICK a \in 1..Len(owned[u]), b \in 1..Len(owned[v]) : a = Old(u, i) /\ b = Old(v, j)
    BY <1>3
  <2>1. owned[v][b].fd = owned[u][a].fd
    BY <1>3, <1>7, <2>0
  <2>2. v = u /\ a = b
    BY <2>1 DEF Exact
  <2> QED
    BY <1>4, <2>0, <2>2
<1>8. ASSUME NEW g \in Fds, tab2[g] # NoDev
      PROVE  \E u \in Threads : g \in FdsOf(own2[u])
  <2>1. g \notin gone /\ tab[g] # NoDev
    BY <1>8 DEF Closed
  <2>2. PICK u \in Threads : g \in FdsOf(owned[u])
    BY <2>1 DEF Exact
  <2>3. CASE u = t
    BY <1>2, <2>1, <2>2, <2>3
  <2>4. CASE u # t
    BY <1>2, <2>2, <2>4
  <2> QED
    BY <2>3, <2>4
<1> HIDE DEF tab2
<1>9. Exact(tab2, own2)
  BY <1>6, <1>7, <1>8 DEF Exact
<1> QED
  BY <1>9 DEF tab2, own2
----------------------------------------------------------------------------
(* Finding devices *)

\* The slots of each thread.
AllOwned == [t \in Threads |-> OwnedBy(t)]

\* The slots of a thread, by where it stands.
LEMMA OwnedFacts ==
  ASSUME NEW e \in Call, NEW l \in List
  PROVE  /\ Owned(e, l) \in Seq(Slot)
         /\ l = NoList => Owned(e, l) = e.slots \o e.cur
         /\ l = NoList /\ e.cur = <<>> => Owned(e, l) = e.slots
         /\ e.slots = <<>> /\ e.cur = <<>> /\ l # NoList => Owned(e, l) = l
<1>1. e.slots \in Seq(Slot) /\ e.cur \in Seq(Slot) /\ <<>> \in Seq(Slot)
  BY DEF Call
<1>2. e.slots \o e.cur \in Seq(Slot)
  BY <1>1
<1>3. CASE l = NoList
  <2>1. Owned(e, l) = (e.slots \o e.cur) \o <<>>
    BY <1>3 DEF Owned
  <2>2. Owned(e, l) = e.slots \o e.cur
    BY <1>2, <2>1, ConcatEmptySeq
  <2>3. e.cur = <<>> => e.slots \o e.cur = e.slots
    BY <1>1, ConcatEmptySeq
  <2> QED
    BY <1>2, <1>3, <2>2, <2>3
<1>4. CASE l # NoList
  <2>1. l \in Seq(Slot) /\ Owned(e, l) = (e.slots \o e.cur) \o l
    BY <1>4 DEF Owned, List
  <2>2. Owned(e, l) \in Seq(Slot)
    BY <1>2, <2>1
  <2>3. <<>> \o <<>> = <<>> /\ <<>> \o l = l
    BY <1>1, <2>1, ConcatEmptySeq
  <2> QED
    BY <1>4, <2>1, <2>2, <2>3
<1> QED
  BY <1>3, <1>4

\* What DevInv says of one thread.
LEMMA ThreadFacts ==
  ASSUME DevInv, NEW t \in Threads
  PROVE  /\ enum[t] \in Call /\ list[t] \in List /\ CallOK(enum[t], list[t])
         /\ AllOwned \in [Threads -> Seq(Slot)] /\ AllOwned[t] = OwnedBy(t)
         /\ open \in Table /\ Exact(open, AllOwned)
<1>1. \A u \in Threads : enum[u] \in Call /\ list[u] \in List
  BY DEF DevInv, DevTypeOK
<1>2. \A u \in Threads : OwnedBy(u) \in Seq(Slot)
  BY <1>1, OwnedFacts DEF OwnedBy
<1> QED
  BY <1>1, <1>2 DEF DevInv, DevTypeOK, CallInv, AllOwned, FdsExact, Table

\* A step of thread t that leaves it with call r and list l.
LEMMA ThreadStep ==
  ASSUME DevInv, NEW t \in Threads, NEW r \in Call, NEW l \in List, CallOK(r, l),
         enum' = [enum EXCEPT ![t] = r], list' = [list EXCEPT ![t] = l],
         open' \in Table, Exact(open', [AllOwned EXCEPT ![t] = Owned(r, l)])
  PROVE  DevInv'
<1>1. enum \in [Threads -> Call] /\ list \in [Threads -> List]
  BY DEF DevInv, DevTypeOK
<1>2. enum' \in [Threads -> Call] /\ list' \in [Threads -> List]
  BY <1>1
<1>3. \A u \in Threads : /\ enum'[u] = IF u = t THEN r ELSE enum[u]
                         /\ list'[u] = IF u = t THEN l ELSE list[u]
  BY <1>1
<1>4. CallInv'
  BY <1>3 DEF DevInv, CallInv
<1>5. AllOwned' = [u \in Threads |-> Owned(enum'[u], list'[u])]
  BY DEF AllOwned, OwnedBy, Owned
<1>6. AllOwned' = [AllOwned EXCEPT ![t] = Owned(r, l)]
  <2>1. \A u \in Threads :
          Owned(enum'[u], list'[u]) = IF u = t THEN Owned(r, l) ELSE OwnedBy(u)
    BY <1>3 DEF OwnedBy
  <2>2. [AllOwned EXCEPT ![t] = Owned(r, l)]
          = [u \in Threads |-> IF u = t THEN Owned(r, l) ELSE OwnedBy(u)]
    BY DEF AllOwned
  <2> QED
    BY <1>5, <2>1, <2>2
<1>7. Exact(open', AllOwned')
  BY <1>6
<1>8. FdsExact'
  BY <1>7 DEF FdsExact, AllOwned
<1> QED
  BY <1>2, <1>4, <1>8 DEF DevInv, DevTypeOK, Table

\* A step of thread t that moves no descriptor and no slot.
LEMMA QuietStep ==
  ASSUME DevInv, NEW t \in Threads, NEW r \in Call, NEW l \in List, CallOK(r, l),
         enum' = [enum EXCEPT ![t] = r], list' = [list EXCEPT ![t] = l],
         open' = open, Owned(r, l) = OwnedBy(t)
  PROVE  DevInv'
<1>1. AllOwned = [AllOwned EXCEPT ![t] = Owned(r, l)]
  BY DEF AllOwned
<1>2. open' \in Table /\ Exact(open', [AllOwned EXCEPT ![t] = Owned(r, l)])
  BY <1>1, ThreadFacts
<1> QED
  BY <1>2, ThreadStep

\* A list that is left as it is.
LEMMA SameList ==
  ASSUME DevInv, NEW t \in Threads, UNCHANGED list
  PROVE  list' = [list EXCEPT ![t] = list[t]]
BY DEF DevInv, DevTypeOK

\* The call that is no call.
LEMMA NoCallFacts ==
  /\ NoCall \in Call
  /\ \A l \in List : CallOK(NoCall, l)
  /\ Owned(NoCall, NoList) = <<>>
  /\ \A l \in Seq(Slot) : l # NoList /\ Owned(NoCall, l) = l
  /\ Cardinality(Devs) \in Nat
<1>1. Cardinality(Devs) \in Nat
  BY DeviceAssumption, FS_CardinalityType
<1>2. NoCall \in Call /\ NoCall.pc = "idle" /\ NoCall.slots = <<>> /\ NoCall.cur = <<>>
  BY <1>1 DEF NoCall, Call, CallPc
<1>3. \A l \in List : CallOK(NoCall, l)
  BY <1>2 DEF CallOK
<1>4. NoList \in List
  BY DEF List
<1>5. Owned(NoCall, NoList) = <<>>
  BY <1>2, <1>4, OwnedFacts
<1>6. \A l \in Seq(Slot) : l # NoList /\ l \in List
  BY DeviceAssumption DEF List
<1>7. \A l \in Seq(Slot) : Owned(NoCall, l) = l
  BY <1>2, <1>6, OwnedFacts
<1> QED
  BY <1>1, <1>2, <1>3, <1>5, <1>6, <1>7

\* cdma_get_devs_num.
LEMMA CountDevsInv ==
  ASSUME DevInv, NEW t \in Threads, NEW want \in Eids \cup {AnyEid}, CountDevs(t, want)
  PROVE  DevInv'
<1>1. PICK n \in 0..Cardinality(Devs) :
        enum' = [enum EXCEPT ![t] = IF n = 0 THEN NoCall
                                    ELSE [NoCall EXCEPT !.pc = "alloc", !.want = want,
                                                        !.num = n]]
  BY DEF CountDevs
<1>2. list[t] = NoList /\ list' = [list EXCEPT ![t] = NoList] /\ open' = open
  BY SameList DEF CountDevs
<1>3. enum[t].pc = "idle" /\ enum[t] \in Call /\ CallOK(enum[t], list[t])
  BY ThreadFacts DEF CountDevs
<1>4. OwnedBy(t) = <<>> /\ NoList \in List
  <2>1. enum[t].slots = <<>> /\ enum[t].cur = <<>>
    BY <1>3 DEF CallOK
  <2> QED
    BY <1>2, <1>3, <2>1, OwnedFacts DEF OwnedBy, List
<1>5. CASE n = 0
  BY <1>1, <1>2, <1>4, <1>5, NoCallFacts, QuietStep
<1>6. CASE n # 0
  <2> DEFINE r == [NoCall EXCEPT !.pc = "alloc", !.want = want, !.num = n]
  <2>1. r \in Call /\ r.pc = "alloc" /\ r.slots = <<>> /\ r.cur = <<>> /\ r.num = n
    BY NoCallFacts DEF NoCall, Call, CallPc
  <2>2. enum' = [enum EXCEPT ![t] = r]
    BY <1>1, <1>6
  <2> HIDE DEF r
  <2>3. 0 < n
    BY <1>6, NoCallFacts
  <2>4. CallOK(r, NoList)
    BY <2>1, <2>3 DEF CallOK
  <2>5. Owned(r, NoList) = <<>>
    BY <1>4, <2>1, OwnedFacts
  <2> QED
    BY <1>2, <1>4, <2>1, <2>2, <2>4, <2>5, QuietStep
<1> QED
  BY <1>5, <1>6

\* The array or the directory cannot be had.
LEMMA ListFailsInv ==
  ASSUME DevInv, NEW t \in Threads, ListFails(t)
  PROVE  DevInv'
<1>1. /\ enum[t] \in Call /\ CallOK(enum[t], list[t]) /\ enum[t].pc = "alloc"
      /\ enum' = [enum EXCEPT ![t] = NoCall] /\ open' = open /\ list' = list
  BY ThreadFacts DEF ListFails
<1>2. list[t] = NoList /\ enum[t].slots = <<>> /\ enum[t].cur = <<>> /\ NoList \in List
  BY <1>1 DEF CallOK, List
<1>3. OwnedBy(t) = <<>>
  BY <1>1, <1>2, OwnedFacts DEF OwnedBy
<1>4. list' = [list EXCEPT ![t] = NoList]
  BY <1>1, <1>2, SameList
<1> QED
  BY <1>1, <1>2, <1>3, <1>4, NoCallFacts, QuietStep

\* The second look at the directory.
LEMMA ListBeginInv ==
  ASSUME DevInv, NEW t \in Threads, ListBegin(t)
  PROVE  DevInv'
<1>1. /\ enum[t] \in Call /\ list[t] \in List /\ CallOK(enum[t], list[t]) /\ enum[t].pc = "alloc"
      /\ open' = open /\ list' = list
  BY ThreadFacts DEF ListBegin
<1>2. PICK entries \in SUBSET Devs :
        enum' = [enum EXCEPT ![t].pc = "scan", ![t].todo = entries]
  BY DEF ListBegin
<1> DEFINE r == [enum[t] EXCEPT !.pc = "scan", !.todo = entries]
<1>3. enum' = [enum EXCEPT ![t] = r]
  BY <1>2
<1>4. /\ r \in Call /\ r.pc = "scan"
      /\ r.slots = enum[t].slots /\ r.cur = enum[t].cur /\ r.num = enum[t].num
  BY <1>1 DEF Call, CallPc
<1> HIDE DEF r
<1>5. CallOK(r, list[t])
  BY <1>1, <1>4 DEF CallOK
<1>6. Owned(r, list[t]) = OwnedBy(t)
  BY <1>4 DEF Owned, OwnedBy
<1>7. list' = [list EXCEPT ![t] = list[t]]
  BY <1>1, SameList
<1> QED
  BY <1>1, <1>3, <1>4, <1>5, <1>6, <1>7, QuietStep

\* An entry cannot be opened.
LEMMA OpenFailsInv ==
  ASSUME DevInv, NEW t \in Threads, NEW e, OpenFails(t, e)
  PROVE  DevInv'
<1>1. /\ enum[t] \in Call /\ list[t] \in List /\ CallOK(enum[t], list[t])
      /\ open' = open /\ list' = list
      /\ enum' = [enum EXCEPT ![t].todo = @ \ {e}]
  BY ThreadFacts DEF OpenFails
<1> DEFINE r == [enum[t] EXCEPT !.todo = @ \ {e}]
<1>3. enum' = [enum EXCEPT ![t] = r]
  BY <1>1
<1>4. /\ r \in Call /\ r.pc = enum[t].pc
      /\ r.slots = enum[t].slots /\ r.cur = enum[t].cur /\ r.num = enum[t].num
  BY <1>1 DEF Call
<1> HIDE DEF r
<1>5. CallOK(r, list[t])
  BY <1>1, <1>4 DEF CallOK
<1>6. Owned(r, list[t]) = OwnedBy(t)
  BY <1>4 DEF Owned, OwnedBy
<1>7. list' = [list EXCEPT ![t] = list[t]]
  BY <1>1, SameList
<1> QED
  BY <1>1, <1>3, <1>4, <1>5, <1>6, <1>7, QuietStep

\* No entry is left.
LEMMA ScanEndInv ==
  ASSUME DevInv, NEW t \in Threads, ScanEnd(t)
  PROVE  DevInv'
<1>1. /\ enum[t] \in Call /\ list[t] \in List /\ CallOK(enum[t], list[t])
      /\ enum[t].pc = "scan" /\ open' = open /\ list' = list
      /\ enum' = [enum EXCEPT ![t].pc = "done"]
  BY ThreadFacts DEF ScanEnd, To
<1> DEFINE r == [enum[t] EXCEPT !.pc = "done"]
<1>3. enum' = [enum EXCEPT ![t] = r]
  BY <1>1
<1>4. /\ r \in Call /\ r.pc = "done"
      /\ r.slots = enum[t].slots /\ r.cur = enum[t].cur /\ r.num = enum[t].num
  BY <1>1 DEF Call, CallPc
<1> HIDE DEF r
<1>5. CallOK(r, list[t])
  BY <1>1, <1>4 DEF CallOK
<1>6. Owned(r, list[t]) = OwnedBy(t)
  BY <1>4 DEF Owned, OwnedBy
<1>7. list' = [list EXCEPT ![t] = list[t]]
  BY <1>1, SameList
<1> QED
  BY <1>1, <1>3, <1>4, <1>5, <1>6, <1>7, QuietStep

\* A device answers: the slot in hand joins the others.
LEMMA QueryDevInv ==
  ASSUME DevInv, NEW t \in Threads, QueryDev(t)
  PROVE  DevInv'
<1> DEFINE slots == enum[t].slots \o enum[t].cur
           pc    == IF SlotsFull(Len(slots), enum[t].num) THEN "done" ELSE "scan"
           r     == [enum[t] EXCEPT !.slots = slots, !.cur = <<>>, !.pc = pc]
<1>1. /\ enum[t] \in Call /\ list[t] \in List /\ CallOK(enum[t], list[t])
      /\ enum[t].pc = "query" /\ open' = open /\ list' = list
      /\ enum' = [enum EXCEPT ![t].slots = slots, ![t].cur = <<>>, ![t].pc = pc]
  BY ThreadFacts DEF QueryDev
<1>2. enum' = [enum EXCEPT ![t] = r]
  BY <1>1
<1>3. /\ slots \in Seq(Slot) /\ Len(slots) \in Nat /\ <<>> \in Seq(Slot)
      /\ pc \in {"done", "scan"}
      /\ enum[t].num \in Nat
  <2>1. /\ enum[t].slots \in Seq(Slot) /\ enum[t].cur \in Seq(Slot) /\ <<>> \in Seq(Slot)
        /\ enum[t].num \in 0..Cardinality(Devs)
    BY ThreadFacts DEF Call
  <2>2. slots \in Seq(Slot) /\ Len(slots) \in Nat
    BY <2>1, ConcatFacts
  <2>3. enum[t].num \in Nat
    BY <2>1, NoCallFacts
  <2> QED
    BY <2>1, <2>2, <2>3
<1>4. pc = "scan" => Len(slots) < enum[t].num
  <2> HIDE DEF slots
  <2>1. ~SlotsFull(Len(slots), enum[t].num) => Len(slots) < enum[t].num
    BY <1>3 DEF SlotsFull
  <2> QED
    BY <2>1
<1>5. list[t] = NoList /\ NoList \in List
  BY <1>1 DEF CallOK, List
<1>6. OwnedBy(t) = slots
  BY <1>1, <1>5, OwnedFacts DEF OwnedBy
<1> HIDE DEF slots, pc
<1>7. /\ r \in Call /\ r.pc = pc /\ r.slots = slots /\ r.cur = <<>> /\ r.num = enum[t].num
  BY <1>1, <1>3 DEF Call, CallPc
<1> HIDE DEF r
<1>8. CallOK(r, NoList)
  BY <1>3, <1>4, <1>7 DEF CallOK
<1>9. Owned(r, NoList) = slots
  BY <1>5, <1>7, OwnedFacts
<1>10. list' = [list EXCEPT ![t] = NoList]
  BY <1>1, <1>5, SameList
<1> QED
  BY <1>1, <1>2, <1>5, <1>6, <1>7, <1>8, <1>9, <1>10, QuietStep

\* dma_get_device_list returns.
LEMMA ReturnListInv ==
  ASSUME DevInv, NEW t \in Threads, ReturnList(t)
  PROVE  DevInv'
<1>1. /\ enum[t] \in Call /\ list[t] \in List /\ CallOK(enum[t], list[t])
      /\ enum[t].pc = "done" /\ open' = open
      /\ list' = [list EXCEPT ![t] = enum[t].slots]
      /\ enum' = [enum EXCEPT ![t] = NoCall]
  BY ThreadFacts DEF ReturnList
<1>2. list[t] = NoList /\ enum[t].cur = <<>> /\ enum[t].slots \in Seq(Slot)
  BY <1>1 DEF CallOK, Call
<1>3. OwnedBy(t) = enum[t].slots
  BY <1>1, <1>2, OwnedFacts DEF OwnedBy
<1>4. enum[t].slots \in List
  BY <1>2 DEF List
<1> QED
  BY <1>1, <1>2, <1>3, <1>4, NoCallFacts, QuietStep

\* The lowest free descriptor.
LEMMA LowestFree ==
  ASSUME FreeFds # {}
  PROVE  Min(FreeFds) \in Fds /\ open[Min(FreeFds)] = NoDev
<1>1. FreeFds \in SUBSET Nat /\ FreeFds \subseteq Fds
  BY DeviceAssumption DEF FreeFds, Fds
<1>2. \E b \in FreeFds : \A c \in FreeFds : b <= c
  BY <1>1, NatMin
<1>3. Min(FreeFds) \in FreeFds
  BY <1>2 DEF Min
<1> QED
  BY <1>3 DEF FreeFds

\* An entry is opened: its descriptor is in hand.
LEMMA OpenDevInv ==
  ASSUME DevInv, NEW t \in Threads, NEW e \in Devs, OpenDev(t, e)
  PROVE  DevInv'
<1>0. PICK f : f = Min(FreeFds)
  OBVIOUS
<1> DEFINE s == [fd |-> f, dev |-> e]
           r == [enum[t] EXCEPT !.todo = @ \ {e}, !.pc = "query", !.cur = <<s>>]
<1>1. f \in Fds /\ open[f] = NoDev
  BY <1>0, LowestFree DEF OpenDev
<1>2. /\ enum[t] \in Call /\ list[t] \in List /\ CallOK(enum[t], list[t])
      /\ enum[t].pc = "scan" /\ list' = list
      /\ open' = [open EXCEPT ![f] = e]
      /\ enum' = [enum EXCEPT ![t].todo = @ \ {e}, ![t].pc = "query", ![t].cur = <<s>>]
  BY <1>0, ThreadFacts DEF OpenDev
<1>3. enum' = [enum EXCEPT ![t] = r]
  BY <1>2
<1>4. s \in Slot /\ <<s>> \in Seq(Slot) /\ Len(<<s>>) = 1
  BY <1>1 DEF Slot
<1>5. PICK x \in Slot : x = s
  BY <1>4
<1>6. /\ r \in Call /\ r.pc = "query" /\ r.cur = <<s>>
      /\ r.slots = enum[t].slots /\ r.num = enum[t].num
  <2> HIDE DEF s
  <2> QED
    BY <1>2, <1>4 DEF Call, CallPc
<1> HIDE DEF r
<1>7. list[t] = NoList /\ enum[t].cur = <<>> /\ NoList \in List /\ enum[t].slots \in Seq(Slot)
  BY <1>2 DEF CallOK, List, Call
<1>8. CallOK(r, NoList)
  BY <1>2, <1>4, <1>6 DEF CallOK
<1>9. OwnedBy(t) = enum[t].slots
  BY <1>2, <1>7, OwnedFacts DEF OwnedBy
<1>10. Owned(r, NoList) = Append(AllOwned[t], s)
  <2>1. Owned(r, NoList) = enum[t].slots \o <<s>>
    BY <1>6, <1>7, OwnedFacts
  <2>2. enum[t].slots \o <<x>> = Append(enum[t].slots, x)
    BY <1>7, AppendIsConcat
  <2> QED
    BY <1>5, <1>9, <2>1, <2>2, ThreadFacts
<1>11. Exact(open', [AllOwned EXCEPT ![t] = Owned(r, NoList)])
  <2>1. open \in Table /\ AllOwned \in [Threads -> Seq(Slot)] /\ Exact(open, AllOwned)
    BY ThreadFacts
  <2> HIDE DEF s
  <2>2. s = [fd |-> f, dev |-> e]
    BY DEF s
  <2>3. Exact([open EXCEPT ![f] = e], [AllOwned EXCEPT ![t] = Append(AllOwned[t], s)])
    BY <1>1, <2>1, <2>2, ExactAdd
  <2> QED
    BY <1>2, <1>10, <2>3
<1>12. open' \in Table
  BY <1>1, <1>2, ThreadFacts DEF Table
<1>13. list' = [list EXCEPT ![t] = NoList]
  BY <1>2, <1>7, SameList
<1> QED
  BY <1>3, <1>6, <1>7, <1>8, <1>11, <1>12, <1>13, ThreadStep

\* A step of thread t that keeps some of its slots and closes the other
\* descriptors.
LEMMA ClosingStep ==
  ASSUME DevInv, NEW t \in Threads, NEW r \in Call, NEW l \in List, CallOK(r, l),
         enum' = [enum EXCEPT ![t] = r], list' = [list EXCEPT ![t] = l],
         NEW m, KeptAt(Owned(r, l), m, OwnedBy(t)),
         open' = Close(FdsOf(OwnedBy(t)) \ FdsOf(Owned(r, l)))
  PROVE  DevInv'
<1> DEFINE gone == FdsOf(OwnedBy(t)) \ FdsOf(Owned(r, l))
<1>1. /\ open \in Table /\ AllOwned \in [Threads -> Seq(Slot)] /\ Exact(open, AllOwned)
      /\ AllOwned[t] = OwnedBy(t) /\ Owned(r, l) \in Seq(Slot)
  BY ThreadFacts, OwnedFacts
<1>2. open' = Closed(open, gone)
  BY DEF Close, Closed
<1>3. open' \in Table
  BY <1>1, <1>2 DEF Table, Closed
<1> HIDE DEF gone
<1>4. gone = FdsOf(AllOwned[t]) \ FdsOf(Owned(r, l))
  BY <1>1 DEF gone
<1>5. Exact(open', [AllOwned EXCEPT ![t] = Owned(r, l)])
  <2>1. KeptAt(Owned(r, l), m, AllOwned[t])
    BY <1>1
  <2>2. Exact(Closed(open, gone), [AllOwned EXCEPT ![t] = Owned(r, l)])
    BY <1>1, <1>4, <2>1, ExactKeep
  <2> QED
    BY <1>2, <2>2
<1> QED
  BY <1>3, <1>5, ThreadStep

\* The query fails: the descriptor in hand is closed.
LEMMA QueryFailsInv ==
  ASSUME DevInv, NEW t \in Threads, QueryFails(t)
  PROVE  DevInv'
<1> DEFINE r == [enum[t] EXCEPT !.pc = "scan", !.cur = <<>>]
           a == enum[t].slots
           b == enum[t].cur
           m == [i \in 1..Len(a) |-> i]
<1>1. /\ enum[t] \in Call /\ list[t] \in List /\ CallOK(enum[t], list[t])
      /\ enum[t].pc = "query" /\ list' = list
      /\ open' = Close(FdsOf(b))
      /\ enum' = [enum EXCEPT ![t].pc = "scan", ![t].cur = <<>>]
  BY ThreadFacts DEF QueryFails
<1>2. enum' = [enum EXCEPT ![t] = r]
  BY <1>1
<1>3. a \in Seq(Slot) /\ b \in Seq(Slot) /\ <<>> \in Seq(Slot) /\ enum[t].num \in Nat
  BY <1>1, NoCallFacts DEF Call
<1>4. r \in Call /\ r.pc = "scan" /\ r.cur = <<>> /\ r.slots = a /\ r.num = enum[t].num
  BY <1>1, <1>3 DEF Call, CallPc
<1>5. list[t] = NoList /\ NoList \in List /\ Len(b) = 1 /\ Len(a) < enum[t].num
  BY <1>1 DEF CallOK, List
<1> HIDE DEF r
<1>6. CallOK(r, NoList) /\ list' = [list EXCEPT ![t] = NoList]
  BY <1>1, <1>4, <1>5, SameList DEF CallOK
<1>7. OwnedBy(t) = a \o b /\ Owned(r, NoList) = a
  BY <1>1, <1>4, <1>5, OwnedFacts DEF OwnedBy
<1> HIDE DEF a, b
<1>8. /\ Len(a) \in Nat /\ Len(a \o b) = Len(a) + 1
      /\ \A i \in 1..Len(a) : (a \o b)[i] = a[i]
      /\ (a \o b)[Len(a) + 1] = b[1]
  <2>1. 1 \in 1..Len(b)
    BY <1>5
  <2>2. (a \o b)[Len(a) + 1] = b[1]
    BY <1>3, <2>1, ConcatFacts
  <2>3. Len(a) \in Nat /\ Len(a \o b) = Len(a) + Len(b)
    BY <1>3, ConcatFacts
  <2>4. \A i \in 1..Len(a) : (a \o b)[i] = a[i]
    BY <1>3, ConcatFacts
  <2> QED
    BY <1>5, <2>2, <2>3, <2>4
<1>9. a \o b \in Seq(Slot)
  BY <1>3
<1>10. FdsOf(b) = FdsOf(a \o b) \ FdsOf(a)
  <2>1. FdsOf(b) = {b[1].fd}
    BY <1>5 DEF FdsOf
  <2>2. FdsOf(a \o b) = FdsOf(a) \cup {b[1].fd}
    <3>1. ASSUME NEW g \in FdsOf(a \o b) PROVE g \in FdsOf(a) \cup {b[1].fd}
      <4>1. PICK i \in 1..Len(a \o b) : g = (a \o b)[i].fd
        BY <3>1 DEF FdsOf
      <4>2. i \in 1..Len(a) \/ i = Len(a) + 1
        BY <1>8
      <4> QED
        BY <1>8, <4>1, <4>2 DEF FdsOf
    <3>2. ASSUME NEW g \in FdsOf(a) PROVE g \in FdsOf(a \o b)
      <4>1. PICK i \in 1..Len(a) : g = a[i].fd
        BY <3>2 DEF FdsOf
      <4>2. i \in 1..Len(a \o b)
        BY <1>8
      <4> QED
        BY <1>8, <4>1, <4>2 DEF FdsOf
    <3>3. b[1].fd \in FdsOf(a \o b)
      <4>1. Len(a) + 1 \in 1..Len(a \o b)
        BY <1>8
      <4> QED
        BY <1>8, <4>1 DEF FdsOf
    <3> QED
      BY <3>1, <3>2, <3>3
  <2>3. b[1].fd \notin FdsOf(a)
    <3> SUFFICES ASSUME b[1].fd \in FdsOf(a) PROVE FALSE
      OBVIOUS
    <3>1. PICK i \in 1..Len(a) : b[1].fd = a[i].fd
      BY DEF FdsOf
    <3>2. i \in 1..Len(a \o b) /\ Len(a) + 1 \in 1..Len(a \o b) /\ i # Len(a) + 1
      BY <1>8
    <3>3. (a \o b)[i].fd = (a \o b)[Len(a) + 1].fd
      BY <1>8, <3>1
    <3>4. AllOwned[t] = a \o b /\ Exact(open, AllOwned)
      BY <1>7, ThreadFacts
    <3>5. i = Len(a) + 1
      BY <3>2, <3>3, <3>4, DistinctFds
    <3> QED
      BY <3>2, <3>5
  <2> QED
    BY <2>1, <2>2, <2>3
<1>11. KeptAt(a, m, a \o b)
  BY <1>8 DEF KeptAt
<1> HIDE DEF m
<1>12. open' = Close(FdsOf(OwnedBy(t)) \ FdsOf(Owned(r, NoList)))
  BY <1>1, <1>7, <1>10
<1>13. KeptAt(Owned(r, NoList), m, OwnedBy(t))
  BY <1>7, <1>11
<1> QED
  BY <1>2, <1>4, <1>5, <1>6, <1>12, <1>13, ClosingStep

\* A thread keeps none of its slots.
LEMMA KeepNone ==
  ASSUME NEW q \in Seq(Slot)
  PROVE  KeptAt(<<>>, <<>>, q) /\ FdsOf(q) = FdsOf(q) \ FdsOf(<<>>)
<1>1. KeptAt(<<>>, <<>>, q)
  BY DEF KeptAt
<1>2. FdsOf(<<>>) = {}
  BY DEF FdsOf
<1> QED
  BY <1>1, <1>2

\* A thread keeps one of its slots.
LEMMA KeepOne ==
  ASSUME NEW q \in Seq(Slot), NEW i \in 1..Len(q)
  PROVE  /\ <<q[i]>> \in Seq(Slot)
         /\ KeptAt(<<q[i]>>, <<i>>, q)
         /\ ExceptOne(q, i) = FdsOf(q) \ FdsOf(<<q[i]>>)
<1>1. q[i] \in Slot
  BY SlotFacts
<1>2. PICK s \in Slot : s = q[i]
  BY <1>1
<1>3. <<s>> \in Seq(Slot) /\ Len(<<s>>) = 1 /\ <<s>>[1] = s
  OBVIOUS
<1>4. KeptAt(<<s>>, <<i>>, q)
  <2>1. Len(<<i>>) = 1 /\ <<i>>[1] = i /\ <<i>> \in [1..1 -> 1..Len(q)]
    OBVIOUS
  <2> QED
    BY <1>2, <1>3, <2>1 DEF KeptAt
<1>5. FdsOf(<<s>>) = {s.fd}
  BY <1>3 DEF FdsOf
<1> QED
  BY <1>2, <1>3, <1>4, <1>5 DEF ExceptOne

\* cdma_get_device_by_eid keeps the first match.
LEMMA ReturnDevInv ==
  ASSUME DevInv, NEW t \in Threads, ReturnDev(t)
  PROVE  DevInv'
<1> DEFINE q == enum[t].slots
<1>1. /\ enum[t] \in Call /\ list[t] \in List /\ CallOK(enum[t], list[t])
      /\ enum[t].pc = "done"
  BY ThreadFacts DEF ReturnDev
<1>2. list[t] = NoList /\ enum[t].cur = <<>> /\ q \in Seq(Slot)
  BY <1>1 DEF CallOK, Call
<1>3. OwnedBy(t) = q
  BY <1>1, <1>2, OwnedFacts DEF OwnedBy
<1>4. PICK i \in 1..Len(q) : i = Min(Matches(t))
  <2>1. Matches(t) \in SUBSET (1..Len(q)) /\ Matches(t) # {} /\ Len(q) \in Nat
    BY <1>2 DEF Matches, ReturnDev
  <2>2. Matches(t) \in SUBSET Nat
    BY <2>1
  <2>3. \E b \in Matches(t) : \A c \in Matches(t) : b <= c
    BY <2>1, <2>2, NatMin
  <2>4. Min(Matches(t)) \in Matches(t)
    BY <2>3 DEF Min
  <2> QED
    BY <2>1, <2>4
<1>5. /\ list' = [list EXCEPT ![t] = <<q[i]>>]
      /\ open' = Close(ExceptOne(q, i))
      /\ enum' = [enum EXCEPT ![t] = NoCall]
  BY <1>4 DEF ReturnDev
<1> HIDE DEF q
<1>6. /\ <<q[i]>> \in Seq(Slot) /\ KeptAt(<<q[i]>>, <<i>>, q)
      /\ ExceptOne(q, i) = FdsOf(q) \ FdsOf(<<q[i]>>)
  BY <1>2, KeepOne
<1>7. Owned(NoCall, <<q[i]>>) = <<q[i]>>
  BY <1>6, NoCallFacts
<1>8. <<q[i]>> \in List
  BY <1>6 DEF List
<1>9. KeptAt(Owned(NoCall, <<q[i]>>), <<i>>, OwnedBy(t))
  BY <1>3, <1>6, <1>7
<1>10. open' = Close(FdsOf(OwnedBy(t)) \ FdsOf(Owned(NoCall, <<q[i]>>)))
  BY <1>3, <1>5, <1>6, <1>7
<1> QED
  BY <1>5, <1>8, <1>9, <1>10, NoCallFacts, ClosingStep

\* cdma_get_device_by_eid finds no match, or no memory.
LEMMA ReturnNoDevInv ==
  ASSUME DevInv, NEW t \in Threads, ReturnNoDev(t)
  PROVE  DevInv'
<1> DEFINE q == enum[t].slots
<1>1. /\ enum[t] \in Call /\ list[t] \in List /\ CallOK(enum[t], list[t])
      /\ enum[t].pc = "done" /\ list' = list /\ open' = Close(FdsOf(q))
      /\ enum' = [enum EXCEPT ![t] = NoCall]
  BY ThreadFacts DEF ReturnNoDev
<1>2. list[t] = NoList /\ enum[t].cur = <<>> /\ q \in Seq(Slot) /\ NoList \in List
  BY <1>1 DEF CallOK, Call, List
<1>3. OwnedBy(t) = q
  BY <1>1, <1>2, OwnedFacts DEF OwnedBy
<1>4. list' = [list EXCEPT ![t] = NoList]
  BY <1>1, <1>2, SameList
<1> HIDE DEF q
<1>5. KeptAt(Owned(NoCall, NoList), <<>>, OwnedBy(t))
  BY <1>2, <1>3, NoCallFacts, KeepNone
<1>6. open' = Close(FdsOf(OwnedBy(t)) \ FdsOf(Owned(NoCall, NoList)))
  BY <1>1, <1>2, <1>3, NoCallFacts, KeepNone
<1> QED
  BY <1>1, <1>2, <1>4, <1>5, <1>6, NoCallFacts, ClosingStep

\* A list is given back.
LEMMA FreeListInv ==
  ASSUME DevInv, NEW t \in Threads, FreeList(t)
  PROVE  DevInv'
<1>1. /\ enum[t] \in Call /\ list[t] \in List /\ CallOK(enum[t], list[t])
      /\ list[t] # NoList /\ open' = Close(FdsOf(list[t]))
      /\ list' = [list EXCEPT ![t] = NoList] /\ enum' = enum
  BY ThreadFacts DEF FreeList
<1>2. /\ enum[t].pc = "idle" /\ enum[t].slots = <<>> /\ enum[t].cur = <<>>
      /\ list[t] \in Seq(Slot) /\ NoList \in List
  BY <1>1 DEF CallOK, List
<1>3. OwnedBy(t) = list[t] /\ Owned(enum[t], NoList) = <<>>
  BY <1>1, <1>2, OwnedFacts DEF OwnedBy
<1>4. CallOK(enum[t], NoList)
  BY <1>1 DEF CallOK
<1>5. enum' = [enum EXCEPT ![t] = enum[t]]
  BY <1>1 DEF DevInv, DevTypeOK
<1>6. KeptAt(Owned(enum[t], NoList), <<>>, OwnedBy(t))
  BY <1>2, <1>3, KeepNone
<1>7. open' = Close(FdsOf(OwnedBy(t)) \ FdsOf(Owned(enum[t], NoList)))
  BY <1>1, <1>2, <1>3, KeepNone
<1> QED
  BY <1>1, <1>2, <1>4, <1>5, <1>6, <1>7, ClosingStep

\* The steps of the calls that look for devices.
LEMMA DevStepInv ==
  ASSUME DevInv, NEW t \in Threads, DevStep(t)
  PROVE  DevInv'
BY ListFailsInv, ListBeginInv, OpenFailsInv, OpenDevInv, QueryFailsInv, QueryDevInv,
   ScanEndInv, ReturnListInv, ReturnDevInv, ReturnNoDevInv DEF DevStep

\* A step elsewhere.
LEMMA DevFrame ==
  ASSUME DevInv, UNCHANGED devVars
  PROVE  DevInv'
<1>1. open' = open /\ enum' = enum /\ list' = list
  BY DEF devVars
<1>2. DevTypeOK' /\ CallInv'
  BY <1>1 DEF DevInv, DevTypeOK, CallInv
<1>3. FdsExact'
  BY <1>1 DEF DevInv, FdsExact, OwnedBy, Exact
<1> QED
  BY <1>2, <1>3 DEF DevInv

\* Initially nothing is open.
LEMMA DevInitInv == DevInit => DevInv
<1> SUFFICES ASSUME DevInit PROVE DevInv
  OBVIOUS
<1>1. \A t \in Threads : enum[t] = NoCall /\ list[t] = NoList
  BY DEF DevInit
<1>2. DevTypeOK
  BY NoCallFacts DEF DevInit, DevTypeOK, List
<1>3. CallInv
  BY <1>1, NoCallFacts DEF CallInv, List
<1>4. \A t \in Threads : OwnedBy(t) = <<>>
  BY <1>1, NoCallFacts DEF OwnedBy
<1>5. AllOwned = [t \in Threads |-> <<>>]
  BY <1>4 DEF AllOwned
<1>6. \A f \in Fds : open[f] = NoDev
  BY DEF DevInit
<1>7. Exact(open, AllOwned)
  BY <1>5, <1>6 DEF Exact
<1>8. FdsExact
  BY <1>7 DEF FdsExact, AllOwned
<1> QED
  BY <1>2, <1>3, <1>8 DEF DevInv

----------------------------------------------------------------------------
(* Sequences of steps: what a create call acquires, and what a call that fails *)
(* or deletes releases again *)

\* The sequences of steps are made of kinds.
LEMMA StepTypes ==
  /\ CtxCreate \in Seq(Kind) /\ CtxDelete \in Seq(Kind) /\ CtxLabels \in Seq(Kind)
  /\ SegCreate \in Seq(Kind) /\ SegDelete \in Seq(Kind) /\ SegLabels \in Seq(Kind)
  /\ ImportCreate \in Seq(Kind) /\ ImportDelete \in Seq(Kind)
  /\ JfceCreate \in Seq(Kind) /\ JfceDelete \in Seq(Kind)
  /\ JfcCreate \in Seq(Kind) /\ JfcDelete \in Seq(Kind) /\ JfcLabels \in Seq(Kind)
  /\ TpCreate \in Seq(Kind) /\ TpDelete \in Seq(Kind)
  /\ JfsCreate \in Seq(Kind) /\ JfsDelete \in Seq(Kind) /\ JfsLabels \in Seq(Kind)
  /\ <<"queue", "k_queue">> \in Seq(Kind) /\ <<"k_queue", "queue">> \in Seq(Kind)
<1>1. CtxCreate \in Seq(Kind) /\ CtxDelete \in Seq(Kind) /\ CtxLabels \in Seq(Kind)
  BY DEF CtxCreate, CtxDelete, CtxLabels, Kind
<1>2. SegCreate \in Seq(Kind) /\ SegDelete \in Seq(Kind) /\ SegLabels \in Seq(Kind)
  BY DEF SegCreate, SegDelete, SegLabels, Kind
<1>3. ImportCreate \in Seq(Kind) /\ ImportDelete \in Seq(Kind)
  BY DEF ImportCreate, ImportDelete, Kind
<1>4. JfceCreate \in Seq(Kind) /\ JfceDelete \in Seq(Kind)
  BY DEF JfceCreate, JfceDelete, Kind
<1>5. JfcCreate \in Seq(Kind) /\ JfcDelete \in Seq(Kind) /\ JfcLabels \in Seq(Kind)
  BY DEF JfcCreate, JfcDelete, JfcLabels, Kind
<1>6. TpCreate \in Seq(Kind) /\ TpDelete \in Seq(Kind)
  BY DEF TpCreate, TpDelete, Kind
<1>7. JfsCreate \in Seq(Kind) /\ JfsDelete \in Seq(Kind) /\ JfsLabels \in Seq(Kind)
  BY DEF JfsCreate, JfsDelete, JfsLabels, Kind
<1>8. <<"queue", "k_queue">> \in Seq(Kind) /\ <<"k_queue", "queue">> \in Seq(Kind)
  BY DEF Kind
<1> QED
  BY <1>1, <1>2, <1>3, <1>4, <1>5, <1>6, <1>7, <1>8

\* What the sequences hold.
LEMMA StepSets ==
  /\ ToSet(CtxCreate) = {"u_ctx", "page_mutex", "tid", "k_ctx", "jfc_db"}
  /\ ToSet(CtxDelete) = {"u_ctx", "page_mutex", "tid", "k_ctx", "jfc_db"}
  /\ ToSet(SegCreate) = {"seg", "grant", "k_seg"}
  /\ ToSet(SegDelete) = {"seg", "grant", "k_seg"}
  /\ ToSet(ImportCreate) = {"seg"} /\ ToSet(ImportDelete) = {"seg"}
  /\ ToSet(JfceCreate) = {"jfce", "jfce_fd"} /\ ToSet(JfceDelete) = {"jfce", "jfce_fd"}
  /\ ToSet(JfcCreate) = {"jfc", "cq_lock", "cq_buf", "sw_db", "k_jfc"}
  /\ ToSet(JfcDelete) = {"jfc", "cq_lock", "cq_buf", "sw_db", "k_jfc"}
  /\ ToSet(TpCreate) = {"tp", "k_tp"} /\ ToSet(TpDelete) = {"tp", "k_tp"}
  /\ ToSet(JfsCreate) = {"jfs", "sq_lock", "sq_wrid", "sq_buf", "k_jfs", "sq_db"}
  /\ ToSet(JfsDelete) = {"jfs", "sq_lock", "sq_wrid", "sq_buf", "k_jfs", "sq_db", "clean_jfc"}
  /\ ToSet(<<"queue", "k_queue">>) = {"queue", "k_queue"}
  /\ ToSet(<<"k_queue", "queue">>) = {"queue", "k_queue"}
  /\ ToSet(<<>>) = {}
<1>1. /\ ToSet(CtxCreate) = {"u_ctx", "page_mutex", "tid", "k_ctx", "jfc_db"}
      /\ ToSet(CtxDelete) = {"u_ctx", "page_mutex", "tid", "k_ctx", "jfc_db"}
  BY DEF CtxCreate, CtxDelete, ToSet
<1>2. /\ ToSet(SegCreate) = {"seg", "grant", "k_seg"}
      /\ ToSet(SegDelete) = {"seg", "grant", "k_seg"}
  BY DEF SegCreate, SegDelete, ToSet
<1>3. ToSet(ImportCreate) = {"seg"} /\ ToSet(ImportDelete) = {"seg"}
  BY DEF ImportCreate, ImportDelete, ToSet
<1>4. ToSet(JfceCreate) = {"jfce", "jfce_fd"} /\ ToSet(JfceDelete) = {"jfce", "jfce_fd"}
  BY DEF JfceCreate, JfceDelete, ToSet
<1>5. /\ ToSet(JfcCreate) = {"jfc", "cq_lock", "cq_buf", "sw_db", "k_jfc"}
      /\ ToSet(JfcDelete) = {"jfc", "cq_lock", "cq_buf", "sw_db", "k_jfc"}
  BY DEF JfcCreate, JfcDelete, ToSet
<1>6. ToSet(TpCreate) = {"tp", "k_tp"} /\ ToSet(TpDelete) = {"tp", "k_tp"}
  BY DEF TpCreate, TpDelete, ToSet
<1>7. /\ ToSet(JfsCreate) = {"jfs", "sq_lock", "sq_wrid", "sq_buf", "k_jfs", "sq_db"}
      /\ ToSet(JfsDelete) = {"jfs", "sq_lock", "sq_wrid", "sq_buf", "k_jfs", "sq_db", "clean_jfc"}
  BY DEF JfsCreate, JfsDelete, ToSet
<1>8. /\ ToSet(<<"queue", "k_queue">>) = {"queue", "k_queue"}
      /\ ToSet(<<"k_queue", "queue">>) = {"queue", "k_queue"}
      /\ ToSet(<<>>) = {}
  BY DEF ToSet
<1> QED
  BY <1>1, <1>2, <1>3, <1>4, <1>5, <1>6, <1>7, <1>8

\* Elements of sequences of kinds.
LEMMA ToSetFacts ==
  ASSUME NEW s \in Seq(Kind)
  PROVE  /\ ToSet(s) \subseteq Kind
         /\ \A x : x \in ToSet(s) <=> \E i \in 1..Len(s) : s[i] = x
         /\ Len(s) \in Nat
         /\ \A n \in 1..(Len(s) + 1) : Before(s, n) \subseteq ToSet(s)
BY DEF ToSet, Before

\* The steps of one list after another.
LEMMA ToSetConcat ==
  ASSUME NEW a \in Seq(Kind), NEW b \in Seq(Kind)
  PROVE  a \o b \in Seq(Kind) /\ ToSet(a \o b) = ToSet(a) \cup ToSet(b)
<1>1. /\ a \o b \in Seq(Kind) /\ Len(a \o b) = Len(a) + Len(b)
      /\ Len(a) \in Nat /\ Len(b) \in Nat
      /\ \A i \in 1..Len(a) : (a \o b)[i] = a[i]
      /\ \A i \in 1..Len(b) : (a \o b)[Len(a) + i] = b[i]
  OBVIOUS
<1>2. PICK c \in Seq(Kind) : c = a \o b
  BY <1>1
<1>3. ASSUME NEW x \in ToSet(c) PROVE x \in ToSet(a) \cup ToSet(b)
  <2>1. PICK i \in 1..Len(c) : c[i] = x
    BY <1>3, ToSetFacts
  <2>2. CASE i <= Len(a)
    <3>1. i \in 1..Len(a)
      BY <2>2, <1>1
    <3> QED
      BY <1>1, <1>2, <2>1, <3>1, ToSetFacts
  <2>3. CASE i > Len(a)
    <3>1. i - Len(a) \in 1..Len(b) /\ i = Len(a) + (i - Len(a))
      BY <1>1, <1>2, <2>3
    <3>2. c[i] = b[i - Len(a)]
      BY <1>1, <1>2, <3>1
    <3> QED
      BY <2>1, <3>1, <3>2, ToSetFacts
  <2> QED
    BY <1>1, <1>2, <2>2, <2>3
<1>4. ASSUME NEW x \in ToSet(a) PROVE x \in ToSet(c)
  <2>1. PICK i \in 1..Len(a) : a[i] = x
    BY <1>4, ToSetFacts
  <2>2. i \in 1..Len(c) /\ c[i] = x
    BY <1>1, <1>2, <2>1
  <2> QED
    BY <2>2, ToSetFacts
<1>5. ASSUME NEW x \in ToSet(b) PROVE x \in ToSet(c)
  <2>1. PICK i \in 1..Len(b) : b[i] = x
    BY <1>5, ToSetFacts
  <2>2. Len(a) + i \in 1..Len(c) /\ c[Len(a) + i] = x
    BY <1>1, <1>2, <2>1
  <2> QED
    BY <2>2, ToSetFacts
<1> QED
  BY <1>1, <1>2, <1>3, <1>4, <1>5

\* The sequence s releases S, in an order that takes nothing from those behind.
Releases(s, S) == s \in Seq(Kind) /\ ToSet(s) = S /\ InOrder(s)

\* One part is released after another.
LEMMA ReleasesConcat ==
  ASSUME NEW a, NEW A, NEW b, NEW B, Releases(a, A), Releases(b, B),
         \A x \in A, y \in B : MayPrecede(x, y)
  PROVE  Releases(a \o b, A \cup B)
<1>0. /\ a \in Seq(Kind) /\ b \in Seq(Kind) /\ InOrder(a) /\ InOrder(b)
      /\ ToSet(a) = A /\ ToSet(b) = B
  BY DEF Releases
<1>1. /\ Len(a \o b) = Len(a) + Len(b) /\ Len(a) \in Nat /\ Len(b) \in Nat
      /\ \A i \in 1..Len(a) : (a \o b)[i] = a[i]
      /\ \A i \in 1..Len(b) : (a \o b)[Len(a) + i] = b[i]
  BY <1>0
<1>2. a \o b \in Seq(Kind) /\ ToSet(a \o b) = A \cup B
  BY <1>0, ToSetConcat
<1>3. PICK c \in Seq(Kind) : c = a \o b
  BY <1>2
<1>4. \A i \in 1..Len(c) : \/ i \in 1..Len(a) /\ c[i] = a[i]
                           \/ i - Len(a) \in 1..Len(b) /\ c[i] = b[i - Len(a)]
  <2> SUFFICES ASSUME NEW i \in 1..Len(c), ~(i <= Len(a))
               PROVE  i - Len(a) \in 1..Len(b) /\ c[i] = b[i - Len(a)]
    BY <1>1, <1>3
  <2>1. i - Len(a) \in 1..Len(b) /\ i = Len(a) + (i - Len(a))
    BY <1>1, <1>3
  <2>2. (a \o b)[Len(a) + (i - Len(a))] = b[i - Len(a)]
    BY <1>1, <2>1
  <2> QED
    BY <1>3, <2>1, <2>2
<1>5. ASSUME NEW i \in 1..Len(c), NEW j \in 1..Len(c), i < j
      PROVE  MayPrecede(c[i], c[j])
  <2>1. CASE i \in 1..Len(a) /\ c[i] = a[i] /\ j \in 1..Len(a) /\ c[j] = a[j]
    BY <1>0, <1>5, <2>1 DEF InOrder
  <2>2. CASE /\ i - Len(a) \in 1..Len(b) /\ c[i] = b[i - Len(a)]
             /\ j - Len(a) \in 1..Len(b) /\ c[j] = b[j - Len(a)]
    <3>1. i - Len(a) < j - Len(a)
      BY <1>1, <1>3, <1>5
    <3> QED
      BY <1>0, <2>2, <3>1 DEF InOrder
  <2>3. CASE /\ i \in 1..Len(a) /\ c[i] = a[i]
             /\ j - Len(a) \in 1..Len(b) /\ c[j] = b[j - Len(a)]
    <3>1. a[i] \in A /\ b[j - Len(a)] \in B
      BY <1>0, <2>3, ToSetFacts
    <3> QED
      BY <2>3, <3>1
  <2>4. CASE i - Len(a) \in 1..Len(b) /\ j \in 1..Len(a)
    BY <1>1, <1>3, <1>5, <2>4
  <2> QED
    BY <1>4, <2>1, <2>2, <2>3, <2>4
<1> QED
  BY <1>2, <1>3, <1>5 DEF Releases, InOrder

\* The steps from a label on.
LEMMA FromFacts ==
  ASSUME NEW s \in Seq(Kind), NEW n \in 1..(Len(s) + 1)
  PROVE  /\ From(s, n) \in Seq(Kind) /\ Len(From(s, n)) = Len(s) - n + 1
         /\ \A i \in 1..Len(From(s, n)) :
              (n - 1) + i \in 1..Len(s) /\ From(s, n)[i] = s[(n - 1) + i]
BY DEF From

\* What is left of an ordered list is ordered.
LEMMA FromInOrder ==
  ASSUME NEW s \in Seq(Kind), InOrder(s), NEW n \in 1..(Len(s) + 1)
  PROVE  InOrder(From(s, n))
<1> SUFFICES ASSUME NEW i \in 1..Len(From(s, n)), NEW j \in 1..Len(From(s, n)), i < j
             PROVE  MayPrecede(From(s, n)[i], From(s, n)[j])
  BY DEF InOrder
<1>1. PICK a \in 1..Len(s), b \in 1..Len(s) : a = (n - 1) + i /\ b = (n - 1) + j
  BY FromFacts
<1>2. a < b
  BY <1>1
<1>3. From(s, n)[i] = s[a] /\ From(s, n)[j] = s[b]
  BY <1>1, FromFacts
<1> QED
  BY <1>2, <1>3 DEF InOrder

\* Within a part, and across the parts of a queue, nothing is released before what
\* needs it.
LEMMA PartsInOrder ==
  /\ InOrder(CtxDelete) /\ InOrder(CtxLabels) /\ InOrder(SegDelete) /\ InOrder(SegLabels)
  /\ InOrder(ImportDelete) /\ InOrder(JfceDelete) /\ InOrder(JfcDelete) /\ InOrder(JfcLabels)
  /\ InOrder(TpDelete) /\ InOrder(JfsDelete) /\ InOrder(JfsLabels)
  /\ InOrder(<<"k_queue", "queue">>)
<1>1. InOrder(CtxDelete) /\ InOrder(CtxLabels)
  BY DEF CtxDelete, CtxLabels, InOrder, MayPrecede, Wants, Needs
<1>2. InOrder(SegDelete) /\ InOrder(SegLabels) /\ InOrder(ImportDelete)
  BY DEF SegDelete, SegLabels, ImportDelete, InOrder, MayPrecede, Wants, Needs
<1>3. InOrder(JfceDelete) /\ InOrder(TpDelete) /\ InOrder(<<"k_queue", "queue">>)
  BY DEF JfceDelete, TpDelete, InOrder, MayPrecede, Wants, Needs
<1>4. InOrder(JfcDelete) /\ InOrder(JfcLabels)
  BY DEF JfcDelete, JfcLabels, InOrder, MayPrecede, Wants, Needs
<1>5. InOrder(JfsDelete) /\ InOrder(JfsLabels)
  BY DEF JfsDelete, JfsLabels, InOrder, MayPrecede, Wants, Needs
<1> QED
  BY <1>1, <1>2, <1>3, <1>4, <1>5

JfsKinds  == {"jfs", "sq_lock", "sq_wrid", "sq_buf", "k_jfs", "sq_db"}
TpKinds   == {"tp", "k_tp"}
JfcKinds  == {"jfc", "cq_lock", "cq_buf", "sw_db", "k_jfc"}
JfceKinds == {"jfce", "jfce_fd"}
BaseKinds == {"queue", "k_queue"}

\* The parts of a queue may be released in the order send queue, TP, completion
\* queue, event channel, queue.
LEMMA AcrossParts ==
  /\ \A x \in JfsKinds \cup {"clean_jfc"}, y \in TpKinds : MayPrecede(x, y)
  /\ \A x \in JfsKinds \cup TpKinds \cup {"clean_jfc"}, y \in JfcKinds : MayPrecede(x, y)
  /\ \A x \in JfsKinds \cup TpKinds \cup JfcKinds \cup {"clean_jfc"}, y \in JfceKinds :
       MayPrecede(x, y)
  /\ \A x \in JfsKinds \cup TpKinds \cup JfcKinds \cup JfceKinds \cup {"clean_jfc"},
        y \in BaseKinds : MayPrecede(x, y)
<1>1. \A x \in JfsKinds \cup {"clean_jfc"}, y \in TpKinds : MayPrecede(x, y)
  BY DEF JfsKinds, TpKinds, MayPrecede, Wants, Needs
<1>2. \A x \in JfsKinds \cup TpKinds \cup {"clean_jfc"}, y \in JfcKinds : MayPrecede(x, y)
  BY DEF JfsKinds, TpKinds, JfcKinds, MayPrecede, Wants, Needs
<1>3. \A x \in JfsKinds \cup TpKinds \cup JfcKinds \cup {"clean_jfc"}, y \in JfceKinds :
        MayPrecede(x, y)
  BY DEF JfsKinds, TpKinds, JfcKinds, JfceKinds, MayPrecede, Wants, Needs
<1>4. \A x \in JfsKinds \cup TpKinds \cup JfcKinds \cup JfceKinds \cup {"clean_jfc"},
         y \in BaseKinds : MayPrecede(x, y)
  BY DEF JfsKinds, TpKinds, JfcKinds, JfceKinds, BaseKinds, MayPrecede, Wants, Needs
<1> QED
  BY <1>1, <1>2, <1>3, <1>4

\* What is released from a label on.
LEMMA LabelReleases ==
  ASSUME NEW s \in Seq(Kind), InOrder(s), NEW m \in Nat, Len(s) = m
  PROVE  \A k \in 1..(m + 1) : Releases(From(s, k), ToSet(From(s, k)))
BY FromFacts, FromInOrder DEF Releases

\* What a failing step of each part releases: just what the part has acquired.
LEMMA JfsUndo ==
  \A n \in 1..Len(JfsCreate) : Releases(JfsUnwind(JfsCreate[n]), Before(JfsCreate, n))
<1>1. /\ Len(JfsCreate) = 6 /\ Len(JfsLabels) = 5
      /\ JfsCreate[1] = "jfs" /\ Before(JfsCreate, 1) = {}
      /\ JfsCreate[2] = "sq_lock" /\ Before(JfsCreate, 2) = {"jfs"}
      /\ JfsCreate[3] = "sq_wrid" /\ Before(JfsCreate, 3) = {"jfs", "sq_lock"}
      /\ JfsCreate[4] = "sq_buf" /\ Before(JfsCreate, 4) = {"jfs", "sq_lock", "sq_wrid"}
      /\ JfsCreate[5] = "k_jfs" /\ Before(JfsCreate, 5) = {"jfs", "sq_lock", "sq_wrid", "sq_buf"}
      /\ JfsCreate[6] = "sq_db" /\ Before(JfsCreate, 6) = {"jfs", "sq_lock", "sq_wrid", "sq_buf", "k_jfs"}
  BY DEF JfsCreate, JfsLabels, Before
<1>2. /\ JfsUnwind("jfs") = From(JfsLabels, 6)
      /\ JfsUnwind("sq_lock") = From(JfsLabels, 5)
      /\ JfsUnwind("sq_wrid") = From(JfsLabels, 4)
      /\ JfsUnwind("sq_buf") = From(JfsLabels, 3)
      /\ JfsUnwind("k_jfs") = From(JfsLabels, 2)
      /\ JfsUnwind("sq_db") = From(JfsLabels, 1)
  BY DEF JfsUnwind
<1>3. /\ ToSet(From(JfsLabels, 6)) = {}
      /\ ToSet(From(JfsLabels, 5)) = {"jfs"}
      /\ ToSet(From(JfsLabels, 4)) = {"jfs", "sq_lock"}
      /\ ToSet(From(JfsLabels, 3)) = {"jfs", "sq_lock", "sq_wrid"}
      /\ ToSet(From(JfsLabels, 2)) = {"jfs", "sq_lock", "sq_wrid", "sq_buf"}
      /\ ToSet(From(JfsLabels, 1)) = {"jfs", "sq_lock", "sq_wrid", "sq_buf", "k_jfs"}
  BY DEF From, JfsLabels, ToSet
<1>4. \A k \in 1..6 : Releases(From(JfsLabels, k), ToSet(From(JfsLabels, k)))
  <2>1. JfsLabels \in Seq(Kind) /\ InOrder(JfsLabels) /\ Len(JfsLabels) = 5
    BY <1>1, StepTypes, PartsInOrder
  <2>2. \A k \in 1..(5 + 1) : Releases(From(JfsLabels, k), ToSet(From(JfsLabels, k)))
    BY <2>1, LabelReleases
  <2> QED
    BY <2>2
<1>5. /\ Releases(JfsUnwind("jfs"), {})
      /\ Releases(JfsUnwind("sq_lock"), {"jfs"})
      /\ Releases(JfsUnwind("sq_wrid"), {"jfs", "sq_lock"})
      /\ Releases(JfsUnwind("sq_buf"), {"jfs", "sq_lock", "sq_wrid"})
      /\ Releases(JfsUnwind("k_jfs"), {"jfs", "sq_lock", "sq_wrid", "sq_buf"})
      /\ Releases(JfsUnwind("sq_db"), {"jfs", "sq_lock", "sq_wrid", "sq_buf", "k_jfs"})
  BY <1>2, <1>3, <1>4
<1> QED
  BY <1>1, <1>5

\* Unwinding a JFC releases what was acquired before the step that failed.
LEMMA JfcUndo ==
  \A n \in 1..Len(JfcCreate) : Releases(JfcUnwind(JfcCreate[n]), Before(JfcCreate, n))
<1>1. /\ Len(JfcCreate) = 5 /\ Len(JfcLabels) = 4
      /\ JfcCreate[1] = "jfc" /\ Before(JfcCreate, 1) = {}
      /\ JfcCreate[2] = "cq_lock" /\ Before(JfcCreate, 2) = {"jfc"}
      /\ JfcCreate[3] = "cq_buf" /\ Before(JfcCreate, 3) = {"jfc", "cq_lock"}
      /\ JfcCreate[4] = "sw_db" /\ Before(JfcCreate, 4) = {"jfc", "cq_lock", "cq_buf"}
      /\ JfcCreate[5] = "k_jfc" /\ Before(JfcCreate, 5) = {"jfc", "cq_lock", "cq_buf", "sw_db"}
  BY DEF JfcCreate, JfcLabels, Before
<1>2. /\ JfcUnwind("jfc") = From(JfcLabels, 5)
      /\ JfcUnwind("cq_lock") = From(JfcLabels, 4)
      /\ JfcUnwind("cq_buf") = From(JfcLabels, 3)
      /\ JfcUnwind("sw_db") = From(JfcLabels, 2)
      /\ JfcUnwind("k_jfc") = From(JfcLabels, 1)
  BY DEF JfcUnwind
<1>3. /\ ToSet(From(JfcLabels, 5)) = {}
      /\ ToSet(From(JfcLabels, 4)) = {"jfc"}
      /\ ToSet(From(JfcLabels, 3)) = {"jfc", "cq_lock"}
      /\ ToSet(From(JfcLabels, 2)) = {"jfc", "cq_lock", "cq_buf"}
      /\ ToSet(From(JfcLabels, 1)) = {"jfc", "cq_lock", "cq_buf", "sw_db"}
  BY DEF From, JfcLabels, ToSet
<1>4. \A k \in 1..5 : Releases(From(JfcLabels, k), ToSet(From(JfcLabels, k)))
  <2>1. JfcLabels \in Seq(Kind) /\ InOrder(JfcLabels) /\ Len(JfcLabels) = 4
    BY <1>1, StepTypes, PartsInOrder
  <2>2. \A k \in 1..(4 + 1) : Releases(From(JfcLabels, k), ToSet(From(JfcLabels, k)))
    BY <2>1, LabelReleases
  <2> QED
    BY <2>2
<1>5. /\ Releases(JfcUnwind("jfc"), {})
      /\ Releases(JfcUnwind("cq_lock"), {"jfc"})
      /\ Releases(JfcUnwind("cq_buf"), {"jfc", "cq_lock"})
      /\ Releases(JfcUnwind("sw_db"), {"jfc", "cq_lock", "cq_buf"})
      /\ Releases(JfcUnwind("k_jfc"), {"jfc", "cq_lock", "cq_buf", "sw_db"})
  BY <1>2, <1>3, <1>4
<1> QED
  BY <1>1, <1>5

\* The same for a context.
LEMMA CtxUndo ==
  \A n \in 1..Len(CtxCreate) : Releases(CtxUnwind(CtxCreate[n]), Before(CtxCreate, n))
<1>1. /\ Len(CtxCreate) = 5 /\ Len(CtxLabels) = 4
      /\ CtxCreate[1] = "u_ctx" /\ Before(CtxCreate, 1) = {}
      /\ CtxCreate[2] = "page_mutex" /\ Before(CtxCreate, 2) = {"u_ctx"}
      /\ CtxCreate[3] = "tid" /\ Before(CtxCreate, 3) = {"u_ctx", "page_mutex"}
      /\ CtxCreate[4] = "k_ctx" /\ Before(CtxCreate, 4) = {"u_ctx", "page_mutex", "tid"}
      /\ CtxCreate[5] = "jfc_db" /\ Before(CtxCreate, 5) = {"u_ctx", "page_mutex", "tid", "k_ctx"}
  BY DEF CtxCreate, CtxLabels, Before
<1>2. /\ CtxUnwind("u_ctx") = From(CtxLabels, 5)
      /\ CtxUnwind("page_mutex") = From(CtxLabels, 4)
      /\ CtxUnwind("tid") = From(CtxLabels, 3)
      /\ CtxUnwind("k_ctx") = From(CtxLabels, 2)
      /\ CtxUnwind("jfc_db") = From(CtxLabels, 1)
  BY DEF CtxUnwind
<1>3. /\ ToSet(From(CtxLabels, 5)) = {}
      /\ ToSet(From(CtxLabels, 4)) = {"u_ctx"}
      /\ ToSet(From(CtxLabels, 3)) = {"u_ctx", "page_mutex"}
      /\ ToSet(From(CtxLabels, 2)) = {"u_ctx", "page_mutex", "tid"}
      /\ ToSet(From(CtxLabels, 1)) = {"u_ctx", "page_mutex", "tid", "k_ctx"}
  BY DEF From, CtxLabels, ToSet
<1>4. \A k \in 1..5 : Releases(From(CtxLabels, k), ToSet(From(CtxLabels, k)))
  <2>1. CtxLabels \in Seq(Kind) /\ InOrder(CtxLabels) /\ Len(CtxLabels) = 4
    BY <1>1, StepTypes, PartsInOrder
  <2>2. \A k \in 1..(4 + 1) : Releases(From(CtxLabels, k), ToSet(From(CtxLabels, k)))
    BY <2>1, LabelReleases
  <2> QED
    BY <2>2
<1>5. /\ Releases(CtxUnwind("u_ctx"), {})
      /\ Releases(CtxUnwind("page_mutex"), {"u_ctx"})
      /\ Releases(CtxUnwind("tid"), {"u_ctx", "page_mutex"})
      /\ Releases(CtxUnwind("k_ctx"), {"u_ctx", "page_mutex", "tid"})
      /\ Releases(CtxUnwind("jfc_db"), {"u_ctx", "page_mutex", "tid", "k_ctx"})
  BY <1>2, <1>3, <1>4
<1> QED
  BY <1>1, <1>5

\* The same for a segment.
LEMMA SegUndo ==
  \A n \in 1..Len(SegCreate) : Releases(SegUnwind(SegCreate[n]), Before(SegCreate, n))
<1>1. /\ Len(SegCreate) = 3 /\ Len(SegLabels) = 2
      /\ SegCreate[1] = "seg" /\ Before(SegCreate, 1) = {}
      /\ SegCreate[2] = "grant" /\ Before(SegCreate, 2) = {"seg"}
      /\ SegCreate[3] = "k_seg" /\ Before(SegCreate, 3) = {"seg", "grant"}
  BY DEF SegCreate, SegLabels, Before
<1>2. /\ SegUnwind("seg") = From(SegLabels, 3)
      /\ SegUnwind("grant") = From(SegLabels, 2)
      /\ SegUnwind("k_seg") = From(SegLabels, 1)
  BY DEF SegUnwind
<1>3. /\ ToSet(From(SegLabels, 3)) = {}
      /\ ToSet(From(SegLabels, 2)) = {"seg"}
      /\ ToSet(From(SegLabels, 1)) = {"seg", "grant"}
  BY DEF From, SegLabels, ToSet
<1>4. \A k \in 1..3 : Releases(From(SegLabels, k), ToSet(From(SegLabels, k)))
  <2>1. SegLabels \in Seq(Kind) /\ InOrder(SegLabels) /\ Len(SegLabels) = 2
    BY <1>1, StepTypes, PartsInOrder
  <2>2. \A k \in 1..(2 + 1) : Releases(From(SegLabels, k), ToSet(From(SegLabels, k)))
    BY <2>1, LabelReleases
  <2> QED
    BY <2>2
<1>5. /\ Releases(SegUnwind("seg"), {})
      /\ Releases(SegUnwind("grant"), {"seg"})
      /\ Releases(SegUnwind("k_seg"), {"seg", "grant"})
  BY <1>2, <1>3, <1>4
<1> QED
  BY <1>1, <1>5

\* The same for a TP.
LEMMA TpUndo ==
  \A n \in 1..Len(TpCreate) : Releases(TpUnwind(TpCreate[n]), Before(TpCreate, n))
<1>1. /\ Len(TpCreate) = 2
      /\ TpCreate[1] = "tp" /\ Before(TpCreate, 1) = {}
      /\ TpCreate[2] = "k_tp" /\ Before(TpCreate, 2) = {"tp"}
  BY DEF TpCreate, Before
<1>2. Releases(TpUnwind("tp"), {})
  BY DEF TpUnwind, Releases, ToSet, InOrder
<1>3. Releases(TpUnwind("k_tp"), {"tp"})
  BY DEF TpUnwind, Releases, ToSet, InOrder, Kind
<1> QED
  BY <1>1, <1>2, <1>3

\* The same for an event channel.
LEMMA JfceUndo ==
  \A n \in 1..Len(JfceCreate) : Releases(JfceUnwind(JfceCreate[n]), Before(JfceCreate, n))
<1>1. /\ Len(JfceCreate) = 2
      /\ JfceCreate[1] = "jfce" /\ Before(JfceCreate, 1) = {}
      /\ JfceCreate[2] = "jfce_fd" /\ Before(JfceCreate, 2) = {"jfce"}
  BY DEF JfceCreate, Before
<1>2. Releases(JfceUnwind("jfce"), {})
  BY DEF JfceUnwind, Releases, ToSet, InOrder
<1>3. Releases(JfceUnwind("jfce_fd"), {"jfce"})
  BY DEF JfceUnwind, Releases, ToSet, InOrder, Kind
<1> QED
  BY <1>1, <1>2, <1>3

\* The steps s of a queue, acquired after base: when one fails, the call releases
\* base and the steps before it, and each needs only those.
Undoes(base, s) ==
  \A n \in 1..Len(s) :
    /\ Releases(QueueUnwind(s[n]), base \cup Before(s, n))
    /\ Needs(s[n]) \subseteq base \cup Before(s, n)

\* Two lists of steps, the second after the first, can be undone together.
LEMMA UndoesConcat ==
  ASSUME NEW base, NEW a \in Seq(Kind), NEW b \in Seq(Kind),
         Undoes(base, a), Undoes(base \cup ToSet(a), b)
  PROVE  Undoes(base, a \o b)
<1>1. /\ a \o b \in Seq(Kind) /\ Len(a \o b) = Len(a) + Len(b)
      /\ Len(a) \in Nat /\ Len(b) \in Nat
      /\ \A i \in 1..Len(a) : (a \o b)[i] = a[i]
      /\ \A i \in 1..Len(b) : (a \o b)[Len(a) + i] = b[i]
  OBVIOUS
<1>2. PICK c \in Seq(Kind) : c = a \o b
  BY <1>1
<1> SUFFICES ASSUME NEW n \in 1..Len(c)
             PROVE  /\ Releases(QueueUnwind(c[n]), base \cup Before(c, n))
                    /\ Needs(c[n]) \subseteq base \cup Before(c, n)
  BY <1>2 DEF Undoes
<1>3. CASE n <= Len(a)
  <2>1. n \in 1..Len(a) /\ c[n] = a[n]
    BY <1>1, <1>2, <1>3
  <2>2. Before(c, n) = Before(a, n)
    <3>1. \A i \in 1..(n - 1) : c[i] = a[i]
      BY <1>1, <1>2, <2>1
    <3> QED
      BY <3>1 DEF Before
  <2> QED
    BY <2>1, <2>2 DEF Undoes
<1>4. CASE n > Len(a)
  <2>1. PICK m \in 1..Len(b) : m = n - Len(a) /\ n = Len(a) + m
    BY <1>1, <1>2, <1>4
  <2>2. c[n] = b[m]
    BY <1>1, <1>2, <2>1
  <2>3. Before(c, n) = ToSet(a) \cup Before(b, m)
    <3>1. ASSUME NEW x \in Before(c, n) PROVE x \in ToSet(a) \cup Before(b, m)
      <4>1. PICK i \in 1..(n - 1) : x = c[i]
        BY <3>1 DEF Before
      <4>2. CASE i <= Len(a)
        <5>1. i \in 1..Len(a) /\ c[i] = a[i]
          BY <1>1, <1>2, <4>2
        <5> QED
          BY <4>1, <5>1, ToSetFacts
      <4>3. CASE i > Len(a)
        <5>1. i - Len(a) \in 1..Len(b) /\ i - Len(a) \in 1..(m - 1) /\ i = Len(a) + (i - Len(a))
          BY <1>1, <2>1, <4>3
        <5>2. c[i] = b[i - Len(a)]
          BY <1>1, <1>2, <5>1
        <5> QED
          BY <4>1, <5>1, <5>2 DEF Before
      <4> QED
        BY <1>1, <4>2, <4>3
    <3>2. ASSUME NEW x \in ToSet(a) PROVE x \in Before(c, n)
      <4>1. PICK i \in 1..Len(a) : x = a[i]
        BY <3>2, ToSetFacts
      <4>2. i \in 1..(n - 1) /\ c[i] = x
        BY <1>1, <1>2, <2>1, <4>1
      <4> QED
        BY <4>2 DEF Before
    <3>3. ASSUME NEW x \in Before(b, m) PROVE x \in Before(c, n)
      <4>1. PICK i \in 1..(m - 1) : x = b[i]
        BY <3>3 DEF Before
      <4>2. i \in 1..Len(b) /\ Len(a) + i \in 1..(n - 1)
        BY <1>1, <2>1
      <4>3. c[Len(a) + i] = x
        BY <1>1, <1>2, <4>1, <4>2
      <4> QED
        BY <4>2, <4>3 DEF Before
    <3> QED
      BY <3>1, <3>2, <3>3
  <2>4. base \cup Before(c, n) = (base \cup ToSet(a)) \cup Before(b, m)
    BY <2>3
  <2> QED
    BY <2>2, <2>4 DEF Undoes
<1> QED
  BY <1>1, <1>2, <1>3, <1>4

\* The parts of a queue that are complete, released.
LEMMA PartReleases ==
  /\ Releases(JfsDelete, JfsKinds \cup {"clean_jfc"}) /\ Releases(TpDelete, TpKinds)
  /\ Releases(JfcDelete, JfcKinds) /\ Releases(JfceDelete, JfceKinds)
  /\ Releases(<<"k_queue", "queue">>, BaseKinds)
BY StepTypes, StepSets, PartsInOrder
   DEF Releases, JfsKinds, TpKinds, JfcKinds, JfceKinds, BaseKinds

\* A part that fails, then the earlier parts.
LEMMA ChainReleases ==
  ASSUME NEW u, NEW U
  PROVE  /\ Releases(u, U) /\ U \subseteq JfceKinds =>
              Releases(u \o <<"k_queue", "queue">>, U \cup BaseKinds)
         /\ Releases(u, U) /\ U \subseteq JfcKinds =>
              Releases(u \o JfceDelete \o <<"k_queue", "queue">>,
                       U \cup JfceKinds \cup BaseKinds)
         /\ Releases(u, U) /\ U \subseteq TpKinds =>
              Releases(u \o JfcDelete \o JfceDelete \o <<"k_queue", "queue">>,
                       U \cup JfcKinds \cup JfceKinds \cup BaseKinds)
         /\ Releases(u, U) /\ U \subseteq JfsKinds \cup {"clean_jfc"} =>
              Releases(u \o TpDelete \o JfcDelete \o JfceDelete \o <<"k_queue", "queue">>,
                       U \cup TpKinds \cup JfcKinds \cup JfceKinds \cup BaseKinds)
<1> DEFINE J == JfsKinds \cup {"clean_jfc"}
<1> USE AcrossParts
<1>4. ASSUME NEW v, NEW V, Releases(v, V), V \subseteq J \cup TpKinds \cup JfcKinds \cup JfceKinds
      PROVE  Releases(v \o <<"k_queue", "queue">>, V \cup BaseKinds)
  <2>1. \A x \in V, y \in BaseKinds : MayPrecede(x, y)
    BY <1>4
  <2> QED
    BY <1>4, <2>1, PartReleases, ReleasesConcat
<1>3. ASSUME NEW v, NEW V, Releases(v, V), V \subseteq J \cup TpKinds \cup JfcKinds
      PROVE  Releases(v \o JfceDelete \o <<"k_queue", "queue">>, V \cup JfceKinds \cup BaseKinds)
  <2>1. \A x \in V, y \in JfceKinds : MayPrecede(x, y)
    BY <1>3
  <2>2. Releases(v \o JfceDelete, V \cup JfceKinds)
    BY <1>3, <2>1, PartReleases, ReleasesConcat
  <2>3. V \cup JfceKinds \subseteq J \cup TpKinds \cup JfcKinds \cup JfceKinds
    BY <1>3
  <2> QED
    BY <1>4, <2>2, <2>3
<1>2. ASSUME NEW v, NEW V, Releases(v, V), V \subseteq J \cup TpKinds
      PROVE  Releases(v \o JfcDelete \o JfceDelete \o <<"k_queue", "queue">>,
                      V \cup JfcKinds \cup JfceKinds \cup BaseKinds)
  <2>1. \A x \in V, y \in JfcKinds : MayPrecede(x, y)
    BY <1>2
  <2>2. Releases(v \o JfcDelete, V \cup JfcKinds)
    BY <1>2, <2>1, PartReleases, ReleasesConcat
  <2>3. V \cup JfcKinds \subseteq J \cup TpKinds \cup JfcKinds
    BY <1>2
  <2> QED
    BY <1>3, <2>2, <2>3
<1>1. ASSUME NEW v, NEW V, Releases(v, V), V \subseteq J
      PROVE  Releases(v \o TpDelete \o JfcDelete \o JfceDelete \o <<"k_queue", "queue">>,
                      V \cup TpKinds \cup JfcKinds \cup JfceKinds \cup BaseKinds)
  <2>1. \A x \in V, y \in TpKinds : MayPrecede(x, y)
    BY <1>1
  <2>2. Releases(v \o TpDelete, V \cup TpKinds)
    BY <1>1, <2>1, PartReleases, ReleasesConcat
  <2>3. V \cup TpKinds \subseteq J \cup TpKinds
    BY <1>1
  <2> QED
    BY <1>2, <2>2, <2>3
<1> HIDE DEF J
<1>5. /\ JfceKinds \subseteq J \cup TpKinds \cup JfcKinds \cup JfceKinds
      /\ JfcKinds \subseteq J \cup TpKinds \cup JfcKinds
      /\ TpKinds \subseteq J \cup TpKinds
      /\ J = JfsKinds \cup {"clean_jfc"}
  BY DEF J
<1>6. ASSUME Releases(u, U), U \subseteq JfceKinds
      PROVE  Releases(u \o <<"k_queue", "queue">>, U \cup BaseKinds)
  <2>1. U \subseteq J \cup TpKinds \cup JfcKinds \cup JfceKinds
    BY <1>5, <1>6
  <2> QED
    BY <1>4, <1>6, <2>1
<1>7. ASSUME Releases(u, U), U \subseteq JfcKinds
      PROVE  Releases(u \o JfceDelete \o <<"k_queue", "queue">>, U \cup JfceKinds \cup BaseKinds)
  <2>1. U \subseteq J \cup TpKinds \cup JfcKinds
    BY <1>5, <1>7
  <2> QED
    BY <1>3, <1>7, <2>1
<1>8. ASSUME Releases(u, U), U \subseteq TpKinds
      PROVE  Releases(u \o JfcDelete \o JfceDelete \o <<"k_queue", "queue">>,
                       U \cup JfcKinds \cup JfceKinds \cup BaseKinds)
  <2>1. U \subseteq J \cup TpKinds
    BY <1>5, <1>8
  <2> QED
    BY <1>2, <1>8, <2>1
<1>9. ASSUME Releases(u, U), U \subseteq JfsKinds \cup {"clean_jfc"}
      PROVE  Releases(u \o TpDelete \o JfcDelete \o JfceDelete \o <<"k_queue", "queue">>,
                       U \cup TpKinds \cup JfcKinds \cup JfceKinds \cup BaseKinds)
  BY <1>1, <1>5, <1>9
<1> QED
  BY <1>6, <1>7, <1>8, <1>9

\* What a queue releases when a step of each part fails.
LEMMA QueueUnwindCases ==
  /\ \A kind \in JfsKinds :
       QueueUnwind(kind) = JfsUnwind(kind) \o TpDelete \o JfcDelete \o JfceDelete \o <<"k_queue", "queue">>
  /\ \A kind \in TpKinds :
       QueueUnwind(kind) = TpUnwind(kind) \o JfcDelete \o JfceDelete \o <<"k_queue", "queue">>
  /\ \A kind \in JfcKinds : QueueUnwind(kind) = JfcUnwind(kind) \o JfceDelete \o <<"k_queue", "queue">>
  /\ \A kind \in JfceKinds : QueueUnwind(kind) = JfceUnwind(kind) \o <<"k_queue", "queue">>
  /\ QueueUnwind("k_queue") = <<"queue">> /\ QueueUnwind("queue") = <<>>
<1>0. /\ ToSet(JfsCreate) = JfsKinds /\ ToSet(TpCreate) = TpKinds
      /\ ToSet(JfcCreate) = JfcKinds /\ ToSet(JfceCreate) = JfceKinds
  BY StepSets DEF JfsKinds, TpKinds, JfcKinds, JfceKinds
<1>1. ASSUME NEW kind \in JfsKinds
      PROVE  QueueUnwind(kind) = JfsUnwind(kind) \o TpDelete \o JfcDelete \o JfceDelete \o <<"k_queue", "queue">>
  <2>1. kind \notin TpKinds \cup JfcKinds \cup JfceKinds /\ kind # "k_queue" /\ kind # "queue"
    BY <1>1 DEF JfsKinds, TpKinds, JfcKinds, JfceKinds
  <2> QED
    BY <1>0, <1>1, <2>1 DEF QueueUnwind
<1>2. ASSUME NEW kind \in TpKinds
      PROVE  QueueUnwind(kind) = TpUnwind(kind) \o JfcDelete \o JfceDelete \o <<"k_queue", "queue">>
  <2>1. kind \notin JfsKinds \cup JfcKinds \cup JfceKinds /\ kind # "k_queue" /\ kind # "queue"
    BY <1>2 DEF JfsKinds, TpKinds, JfcKinds, JfceKinds
  <2> QED
    BY <1>0, <1>2, <2>1 DEF QueueUnwind
<1>3. ASSUME NEW kind \in JfcKinds
      PROVE  QueueUnwind(kind) = JfcUnwind(kind) \o JfceDelete \o <<"k_queue", "queue">>
  <2>1. kind \notin JfsKinds \cup TpKinds \cup JfceKinds /\ kind # "k_queue" /\ kind # "queue"
    BY <1>3 DEF JfsKinds, TpKinds, JfcKinds, JfceKinds
  <2> QED
    BY <1>0, <1>3, <2>1 DEF QueueUnwind
<1>4. ASSUME NEW kind \in JfceKinds
      PROVE  QueueUnwind(kind) = JfceUnwind(kind) \o <<"k_queue", "queue">>
  <2>1. kind \notin JfsKinds \cup TpKinds \cup JfcKinds /\ kind # "k_queue" /\ kind # "queue"
    BY <1>4 DEF JfsKinds, TpKinds, JfcKinds, JfceKinds
  <2> QED
    BY <1>0, <1>4, <2>1 DEF QueueUnwind
<1>5. QueueUnwind("k_queue") = <<"queue">> /\ QueueUnwind("queue") = <<>>
  <2>1. /\ "k_queue" \notin JfsKinds \cup TpKinds \cup JfcKinds \cup JfceKinds
        /\ "queue" \notin JfsKinds \cup TpKinds \cup JfcKinds \cup JfceKinds
    BY DEF JfsKinds, TpKinds, JfcKinds, JfceKinds
  <2> QED
    BY <1>0, <2>1 DEF QueueUnwind
<1> QED
  BY <1>1, <1>2, <1>3, <1>4, <1>5

\* Each part, acquired after the earlier ones.
LEMMA BaseUndoes == Undoes({}, <<"queue", "k_queue">>)
<1>1. /\ Releases(<<>>, {}) /\ Releases(<<"queue">>, {"queue"})
  BY DEF Releases, ToSet, InOrder, Kind
<1>2. PICK s \in Seq(Kind) : s = <<"queue", "k_queue">>
  BY StepTypes
<1>3. /\ Len(s) = 2 /\ s[1] = "queue" /\ s[2] = "k_queue"
      /\ Before(s, 1) = {} /\ Before(s, 2) = {"queue"}
  BY <1>2 DEF Before
<1>4. Needs("queue") = {} /\ Needs("k_queue") = {}
  BY DEF Needs
<1>5. \A n \in 1..Len(s) : /\ Releases(QueueUnwind(s[n]), Before(s, n))
                            /\ Needs(s[n]) \subseteq Before(s, n)
  <2>1. ASSUME NEW n \in 1..Len(s) PROVE n = 1 \/ n = 2
    BY <1>3
  <2> QED
    BY <2>1, <1>1, <1>3, <1>4, QueueUnwindCases
<1>6. \A n \in 1..Len(s) : {} \cup Before(s, n) = Before(s, n)
  OBVIOUS
<1> QED
  BY <1>2, <1>5, <1>6 DEF Undoes

\* Within a queue: the event channel, after the queue itself.
LEMMA JfceUndoes == Undoes(BaseKinds, JfceCreate)
<1> SUFFICES ASSUME NEW n \in 1..Len(JfceCreate)
             PROVE  /\ Releases(QueueUnwind(JfceCreate[n]), BaseKinds \cup Before(JfceCreate, n))
                    /\ Needs(JfceCreate[n]) \subseteq BaseKinds \cup Before(JfceCreate, n)
  BY DEF Undoes
<1>1. JfceCreate[n] \in JfceKinds /\ Before(JfceCreate, n) \subseteq JfceKinds
  BY DEF JfceCreate, JfceKinds, Before
<1>2. Releases(JfceUnwind(JfceCreate[n]) \o <<"k_queue", "queue">>,
               Before(JfceCreate, n) \cup BaseKinds)
  BY <1>1, JfceUndo, ChainReleases
<1>3. Needs(JfceCreate[n]) = {}
  BY DEF JfceCreate, Needs
<1>4. Before(JfceCreate, n) \cup BaseKinds = BaseKinds \cup Before(JfceCreate, n)
  OBVIOUS
<1> QED
  BY <1>1, <1>2, <1>3, <1>4, QueueUnwindCases

\* The completion queue, after the event channel.
LEMMA JfcUndoes == Undoes(BaseKinds \cup JfceKinds, JfcCreate)
<1> SUFFICES ASSUME NEW n \in 1..Len(JfcCreate)
             PROVE  /\ Releases(QueueUnwind(JfcCreate[n]), BaseKinds \cup JfceKinds \cup Before(JfcCreate, n))
                    /\ Needs(JfcCreate[n]) \subseteq BaseKinds \cup JfceKinds \cup Before(JfcCreate, n)
  BY DEF Undoes
<1>1. JfcCreate[n] \in JfcKinds /\ Before(JfcCreate, n) \subseteq JfcKinds
  BY DEF JfcCreate, JfcKinds, Before
<1>2. Releases(JfcUnwind(JfcCreate[n]) \o JfceDelete \o <<"k_queue", "queue">>,
               Before(JfcCreate, n) \cup JfceKinds \cup BaseKinds)
  BY <1>1, JfcUndo, ChainReleases
<1>3. Needs(JfcCreate[n]) \subseteq BaseKinds \cup JfceKinds \cup Before(JfcCreate, n)
  BY DEF JfcCreate, Needs, BaseKinds, JfceKinds, Before
<1>4. Before(JfcCreate, n) \cup JfceKinds \cup BaseKinds = BaseKinds \cup JfceKinds \cup Before(JfcCreate, n)
  OBVIOUS
<1> QED
  BY <1>1, <1>2, <1>3, <1>4, QueueUnwindCases

\* The TP, after the completion queue.
LEMMA TpUndoes == Undoes(BaseKinds \cup JfceKinds \cup JfcKinds, TpCreate)
<1> DEFINE base == BaseKinds \cup JfceKinds \cup JfcKinds
<1> SUFFICES ASSUME NEW n \in 1..Len(TpCreate)
             PROVE  /\ Releases(QueueUnwind(TpCreate[n]), base \cup Before(TpCreate, n))
                    /\ Needs(TpCreate[n]) \subseteq base \cup Before(TpCreate, n)
  BY DEF Undoes
<1>1. TpCreate[n] \in TpKinds /\ Before(TpCreate, n) \subseteq TpKinds
  BY DEF TpCreate, TpKinds, Before
<1>2. Releases(TpUnwind(TpCreate[n]) \o JfcDelete \o JfceDelete \o <<"k_queue", "queue">>,
               Before(TpCreate, n) \cup JfcKinds \cup JfceKinds \cup BaseKinds)
  BY <1>1, TpUndo, ChainReleases
<1>3. Needs(TpCreate[n]) \subseteq base \cup Before(TpCreate, n)
  BY DEF TpCreate, Needs, BaseKinds, Before
<1>4. Before(TpCreate, n) \cup JfcKinds \cup JfceKinds \cup BaseKinds = base \cup Before(TpCreate, n)
  OBVIOUS
<1> QED
  BY <1>1, <1>2, <1>3, <1>4, QueueUnwindCases

\* The send queue, after the TP.
LEMMA JfsUndoes == Undoes(BaseKinds \cup JfceKinds \cup JfcKinds \cup TpKinds, JfsCreate)
<1> DEFINE base == BaseKinds \cup JfceKinds \cup JfcKinds \cup TpKinds
<1> SUFFICES ASSUME NEW n \in 1..Len(JfsCreate)
             PROVE  /\ Releases(QueueUnwind(JfsCreate[n]), base \cup Before(JfsCreate, n))
                    /\ Needs(JfsCreate[n]) \subseteq base \cup Before(JfsCreate, n)
  BY DEF Undoes
<1>1. JfsCreate[n] \in JfsKinds /\ Before(JfsCreate, n) \subseteq JfsKinds
  BY DEF JfsCreate, JfsKinds, Before
<1>2. Releases(JfsUnwind(JfsCreate[n]) \o TpDelete \o JfcDelete \o JfceDelete \o <<"k_queue", "queue">>,
               Before(JfsCreate, n) \cup TpKinds \cup JfcKinds \cup JfceKinds \cup BaseKinds)
  BY <1>1, JfsUndo, ChainReleases
<1>3. Needs(JfsCreate[n]) \subseteq base \cup Before(JfsCreate, n)
  BY DEF JfsCreate, Needs, BaseKinds, JfcKinds, TpKinds, Before
<1>4. Before(JfsCreate, n) \cup TpKinds \cup JfcKinds \cup JfceKinds \cup BaseKinds
        = base \cup Before(JfsCreate, n)
  OBVIOUS
<1> QED
  BY <1>1, <1>2, <1>3, <1>4, QueueUnwindCases

QueueKinds == BaseKinds \cup JfceKinds \cup JfcKinds \cup TpKinds \cup JfsKinds

\* Every step of creating a queue, with all its parts, can be undone.
LEMMA QueueUndoes ==
  /\ QueueCreate \in Seq(Kind) /\ ToSet(QueueCreate) = QueueKinds
  /\ Undoes({}, QueueCreate)
<1> DEFINE a == <<"queue", "k_queue">>
<1>0. /\ a \in Seq(Kind) /\ ToSet(a) = BaseKinds /\ ToSet(JfceCreate) = JfceKinds
      /\ ToSet(JfcCreate) = JfcKinds /\ ToSet(TpCreate) = TpKinds /\ ToSet(JfsCreate) = JfsKinds
  BY StepTypes, StepSets DEF BaseKinds, JfceKinds, JfcKinds, TpKinds, JfsKinds
<1>a. {} \cup BaseKinds = BaseKinds
  OBVIOUS
<1> HIDE DEF a
<1>u. Undoes({}, a)
  BY BaseUndoes DEF a
<1>1. /\ a \o JfceCreate \in Seq(Kind) /\ ToSet(a \o JfceCreate) = BaseKinds \cup JfceKinds
  BY <1>0, StepTypes, ToSetConcat
<1>2. Undoes({}, a \o JfceCreate)
  BY <1>0, <1>a, <1>u, StepTypes, JfceUndoes, UndoesConcat
<1>3. PICK b : b = a \o JfceCreate
  OBVIOUS
<1>b. {} \cup (BaseKinds \cup JfceKinds) = BaseKinds \cup JfceKinds
  OBVIOUS
<1>4. b \o JfcCreate \in Seq(Kind) /\ ToSet(b \o JfcCreate) = BaseKinds \cup JfceKinds \cup JfcKinds
  BY <1>0, <1>1, <1>3, StepTypes, ToSetConcat
<1>5. Undoes({}, b \o JfcCreate)
  BY <1>0, <1>1, <1>2, <1>3, <1>b, StepTypes, JfcUndoes, UndoesConcat
<1>6. PICK c : c = b \o JfcCreate
  OBVIOUS
<1>c. {} \cup (BaseKinds \cup JfceKinds \cup JfcKinds) = BaseKinds \cup JfceKinds \cup JfcKinds
  OBVIOUS
<1>7. c \o TpCreate \in Seq(Kind) /\ ToSet(c \o TpCreate) = BaseKinds \cup JfceKinds \cup JfcKinds \cup TpKinds
  BY <1>0, <1>4, <1>6, StepTypes, ToSetConcat
<1>8. Undoes({}, c \o TpCreate)
  BY <1>0, <1>4, <1>5, <1>6, <1>c, StepTypes, TpUndoes, UndoesConcat
<1>9. PICK d : d = c \o TpCreate
  OBVIOUS
<1>d. {} \cup (BaseKinds \cup JfceKinds \cup JfcKinds \cup TpKinds) = BaseKinds \cup JfceKinds \cup JfcKinds \cup TpKinds
  OBVIOUS
<1>10. d \o JfsCreate \in Seq(Kind) /\ ToSet(d \o JfsCreate) = QueueKinds
  <2>1. QueueKinds = (BaseKinds \cup JfceKinds \cup JfcKinds \cup TpKinds) \cup JfsKinds
    BY DEF QueueKinds
  <2>2. d \in Seq(Kind) /\ ToSet(d) = BaseKinds \cup JfceKinds \cup JfcKinds \cup TpKinds
    BY <1>7, <1>9
  <2>3. ToSet(d \o JfsCreate) = ToSet(d) \cup ToSet(JfsCreate) /\ d \o JfsCreate \in Seq(Kind)
    BY <2>2, StepTypes, ToSetConcat
  <2> QED
    BY <1>0, <2>1, <2>2, <2>3
<1>11. Undoes({}, d \o JfsCreate)
  BY <1>0, <1>7, <1>8, <1>9, <1>d, StepTypes, JfsUndoes, UndoesConcat
<1>12. QueueCreate = d \o JfsCreate
  BY <1>3, <1>6, <1>9 DEF QueueCreate, a
<1> QED
  BY <1>10, <1>11, <1>12

\* Deleting a queue releases all its parts in an order the kernel allows.
LEMMA QueueReleases == Releases(QueueDelete, QueueKinds \cup {"clean_jfc"})
<1>1. Releases(QueueDelete, JfsKinds \cup {"clean_jfc"} \cup TpKinds \cup JfcKinds \cup JfceKinds \cup BaseKinds)
  BY PartReleases, ChainReleases DEF QueueDelete
<1>2. JfsKinds \cup {"clean_jfc"} \cup TpKinds \cup JfcKinds \cup JfceKinds \cup BaseKinds
        = QueueKinds \cup {"clean_jfc"}
  BY DEF QueueKinds
<1> QED
  BY <1>1, <1>2

\* What makes the sequences of an object sound, and the calls on it leave nothing.
Sound(o) ==
  LET C == CreateSteps(o)
      D == DeleteSteps(o)
  IN  /\ C \in Seq(Kind) /\ Len(C) > 0 /\ "clean_jfc" \notin ToSet(C)
      /\ \A n \in 1..Len(C) : /\ Releases(Unwind(o, C[n]), Before(C, n))
                              /\ Needs(C[n]) \subseteq Before(C, n)
      /\ Releases(D, ToSet(D)) /\ D # <<>>
      /\ ToSet(D) \ {"clean_jfc"} = ToSet(C)
      /\ Complete(ToSet(D))

\* A context is created, undone and deleted completely.
LEMMA CtxSound == Sound(Ctx)
<1>1. CreateSteps(Ctx) = CtxCreate /\ DeleteSteps(Ctx) = CtxDelete
      /\ \A k : Unwind(Ctx, k) = CtxUnwind(k)
  BY DEF CreateSteps, DeleteSteps, Unwind
<1>2. Len(CtxCreate) > 0 /\ CtxDelete # <<>>
  BY DEF CtxCreate, CtxDelete
<1>3. \A n \in 1..Len(CtxCreate) : Needs(CtxCreate[n]) = {}
  BY DEF CtxCreate, Needs
<1>4. "clean_jfc" \notin ToSet(CtxCreate) /\ ToSet(CtxDelete) \ {"clean_jfc"} = ToSet(CtxCreate)
  BY StepSets
<1>5. Complete(ToSet(CtxDelete))
  BY StepSets DEF Complete, Wants, Needs
<1>6. Releases(CtxDelete, ToSet(CtxDelete))
  BY StepTypes, PartsInOrder DEF Releases
<1> QED
  BY <1>1, <1>2, <1>3, <1>4, <1>5, <1>6, StepTypes, CtxUndo DEF Sound

\* So is a segment.
LEMMA SegSound == ASSUME NEW o \in Segs PROVE Sound(o)
<1>1. CreateSteps(o) = SegCreate /\ DeleteSteps(o) = SegDelete
      /\ \A k : Unwind(o, k) = SegUnwind(k)
  BY LifecycleAssumption DEF CreateSteps, DeleteSteps, Unwind
<1>2. Len(SegCreate) > 0 /\ SegDelete # <<>>
  BY DEF SegCreate, SegDelete
<1>3. \A n \in 1..Len(SegCreate) : Needs(SegCreate[n]) \subseteq Before(SegCreate, n)
  BY DEF SegCreate, Needs, Before
<1>4. "clean_jfc" \notin ToSet(SegCreate) /\ ToSet(SegDelete) \ {"clean_jfc"} = ToSet(SegCreate)
  BY StepSets
<1>5. Complete(ToSet(SegDelete))
  BY StepSets DEF Complete, Wants, Needs
<1>6. Releases(SegDelete, ToSet(SegDelete))
  BY StepTypes, PartsInOrder DEF Releases
<1> QED
  BY <1>1, <1>2, <1>3, <1>4, <1>5, <1>6, StepTypes, SegUndo DEF Sound

\* So is an imported segment.
LEMMA ImportSound == ASSUME NEW o \in Imports PROVE Sound(o)
<1>1. CreateSteps(o) = ImportCreate /\ DeleteSteps(o) = ImportDelete
      /\ \A k : Unwind(o, k) = <<>>
  BY LifecycleAssumption DEF CreateSteps, DeleteSteps, Unwind
<1>2. Len(ImportCreate) > 0 /\ ImportDelete # <<>>
  BY DEF ImportCreate, ImportDelete
<1>3. \A n \in 1..Len(ImportCreate) : Needs(ImportCreate[n]) = {} /\ Before(ImportCreate, n) = {}
  BY DEF ImportCreate, Needs, Before
<1>4. "clean_jfc" \notin ToSet(ImportCreate) /\ ToSet(ImportDelete) \ {"clean_jfc"} = ToSet(ImportCreate)
  BY StepSets
<1>5. Complete(ToSet(ImportDelete))
  BY StepSets DEF Complete, Wants, Needs
<1>6. Releases(ImportDelete, ToSet(ImportDelete)) /\ Releases(<<>>, {})
  BY StepTypes, StepSets, PartsInOrder DEF Releases, InOrder
<1> QED
  BY <1>1, <1>2, <1>3, <1>4, <1>5, <1>6, StepTypes DEF Sound

\* So is a queue.
LEMMA QueueSound == ASSUME NEW o \in Queues PROVE Sound(o)
<1>1. CreateSteps(o) = QueueCreate /\ DeleteSteps(o) = QueueDelete
      /\ \A k : Unwind(o, k) = QueueUnwind(k)
  BY LifecycleAssumption DEF CreateSteps, DeleteSteps, Unwind
<1>2. /\ QueueCreate \in Seq(Kind) /\ ToSet(QueueCreate) = QueueKinds
      /\ QueueDelete \in Seq(Kind) /\ ToSet(QueueDelete) = QueueKinds \cup {"clean_jfc"}
      /\ Releases(QueueDelete, ToSet(QueueDelete))
  BY QueueUndoes, QueueReleases DEF Releases
<1>3. /\ "queue" \in QueueKinds /\ "clean_jfc" \notin QueueKinds
      /\ (QueueKinds \cup {"clean_jfc"}) \ {"clean_jfc"} = QueueKinds
  BY DEF QueueKinds, BaseKinds, JfceKinds, JfcKinds, TpKinds, JfsKinds
<1>4. Len(QueueCreate) > 0 /\ QueueDelete # <<>>
  BY <1>2, <1>3, ToSetFacts
<1>5. \A n \in 1..Len(QueueCreate) : /\ Releases(QueueUnwind(QueueCreate[n]), Before(QueueCreate, n))
                                     /\ Needs(QueueCreate[n]) \subseteq Before(QueueCreate, n)
  <2>1. \A n \in 1..Len(QueueCreate) : {} \cup Before(QueueCreate, n) = Before(QueueCreate, n)
    OBVIOUS
  <2> QED
    BY <2>1, QueueUndoes DEF Undoes
<1>6. Complete(ToSet(QueueDelete))
  BY <1>2 DEF Complete, Wants, Needs, QueueKinds, BaseKinds, JfceKinds, JfcKinds, TpKinds, JfsKinds
<1> QED
  BY <1>1, <1>2, <1>3, <1>4, <1>5, <1>6 DEF Sound

\* So is every object.
LEMMA ObjectSound == \A o \in Objects : Sound(o)
BY CtxSound, SegSound, ImportSound, QueueSound DEF Objects

\* What a create call has left, and what it holds.
LEMMA CreateProgress ==
  ASSUME NEW s \in Seq(Kind), NEW n \in 1..Len(s)
  PROVE  /\ From(s, n) # <<>> /\ Head(From(s, n)) = s[n]
         /\ Before(s, n) \cup {s[n]} = Before(s, n + 1)
         /\ n < Len(s) => Tail(From(s, n)) = From(s, n + 1) /\ From(s, n + 1) # <<>>
         /\ n = Len(s) => Tail(From(s, n)) = <<>> /\ Before(s, n + 1) = ToSet(s)
<1>0. Len(s) \in Nat /\ s[n] \in Kind
  OBVIOUS
<1>1. From(s, n) # <<>> /\ Head(From(s, n)) = s[n] /\ Tail(From(s, n)) = From(s, n + 1)
  <2>1. Len(From(s, n)) # 0 /\ Len(s) \in n..Len(s)
    BY <1>0, FromFacts
  <2>2. Head(From(s, n)) = s[n] /\ Tail(From(s, n)) = From(s, n + 1)
    BY <2>1, HeadTailOfSubSeq DEF From
  <2> QED
    BY <2>1, <2>2
<1>2. Before(s, n) \cup {s[n]} = Before(s, n + 1)
  BY DEF Before
<1>3. ASSUME n < Len(s) PROVE From(s, n + 1) # <<>>
  <2>1. n + 1 \in 1..Len(s) /\ n + 1 \in 1..(Len(s) + 1)
    BY <1>0, <1>3
  <2>2. Len(From(s, n + 1)) # 0
    BY <1>0, <2>1, FromFacts
  <2> QED
    BY <2>2
<1>4. ASSUME n = Len(s) PROVE Tail(From(s, n)) = <<>>
  BY <1>4 DEF From
<1>5. ASSUME n = Len(s) PROVE Before(s, n + 1) = ToSet(s)
  BY <1>5 DEF Before, ToSet
<1> QED
  BY <1>1, <1>2, <1>3, <1>4, <1>5

\* What is left to release after a step is still in order and complete.
LEMMA ReleaseProgress ==
  ASSUME NEW s \in Seq(Kind), s # <<>>, InOrder(s), Complete(ToSet(s))
  PROVE  /\ Tail(s) \in Seq(Kind) /\ InOrder(Tail(s)) /\ Complete(ToSet(Tail(s)))
         /\ ToSet(Tail(s)) = ToSet(s) \ {Head(s)} /\ Head(s) \in ToSet(s)
<1>0. Len(s) \in Nat \ {0} /\ Head(s) = s[1] /\ Tail(s) \in Seq(Kind) /\ Len(Tail(s)) = Len(s) - 1
      /\ \A i \in 1..Len(Tail(s)) : Tail(s)[i] = s[i + 1]
  OBVIOUS
<1>1. InOrder(Tail(s))
  BY <1>0 DEF InOrder
<1>2. ASSUME NEW x \in ToSet(Tail(s)) PROVE x \in ToSet(s) /\ MayPrecede(Head(s), x)
  <2>1. PICK i \in 1..Len(Tail(s)) : Tail(s)[i] = x
    BY <1>0, <1>2, ToSetFacts
  <2>2. i + 1 \in 1..Len(s) /\ s[i + 1] = x /\ 1 \in 1..Len(s) /\ 1 < i + 1
    BY <1>0, <2>1
  <2> QED
    BY <1>0, <2>2, ToSetFacts DEF InOrder
<1>3. ASSUME NEW x \in ToSet(s), x # Head(s) PROVE x \in ToSet(Tail(s))
  <2>1. PICK i \in 1..Len(s) : s[i] = x
    BY <1>3, ToSetFacts
  <2>2. i # 1
    BY <1>0, <1>3, <2>1
  <2>3. PICK j \in 1..Len(Tail(s)) : i = j + 1
    <3>1. i - 1 \in 1..Len(Tail(s)) /\ i = (i - 1) + 1
      BY <1>0, <2>2
    <3> QED
      BY <3>1
  <2>4. Tail(s)[j] = x
    BY <1>0, <2>1, <2>3
  <2> QED
    BY <1>0, <2>4, ToSetFacts
<1>4. ToSet(Tail(s)) = ToSet(s) \ {Head(s)}
  BY <1>2, <1>3 DEF MayPrecede
<1>5. Complete(ToSet(Tail(s)))
  BY <1>2, <1>4 DEF Complete, MayPrecede
<1>6. Head(s) \in ToSet(s)
  BY <1>0, ToSetFacts
<1> QED
  BY <1>0, <1>1, <1>4, <1>5, <1>6

\* What the call that fails at step n releases is complete.
LEMMA UnwindComplete ==
  ASSUME NEW s \in Seq(Kind), "clean_jfc" \notin ToSet(s), NEW n \in 1..Len(s),
         \A i \in 1..Len(s) : Needs(s[i]) \subseteq Before(s, i)
  PROVE  Complete(Before(s, n)) /\ "clean_jfc" \notin Before(s, n)
         /\ Before(s, n) \subseteq ToSet(s)
<1>1. Before(s, n) \subseteq ToSet(s)
  BY ToSetFacts DEF Before
<1>2. ASSUME NEW x \in Before(s, n) PROVE Wants(x) \subseteq Before(s, n)
  <2>1. PICK i \in 1..(n - 1) : x = s[i]
    BY <1>2 DEF Before
  <2>2. Needs(x) \subseteq Before(s, i)
    BY <2>1
  <2>3. Before(s, i) \subseteq Before(s, n)
    BY <2>1 DEF Before
  <2>4. Wants(x) = Needs(x)
    BY <1>1 DEF Wants
  <2> QED
    BY <2>2, <2>3, <2>4
<1> QED
  BY <1>1, <1>2 DEF Complete

Phases == {"absent", "create", "live", "unwind", "delete"}

\* ObjInv for an object in phase ph, with todo before it and holding K.
Ok(o, ph, todo, K) ==
  /\ ph \in {"absent", "live"} => todo = <<>>
  /\ ph = "absent" => K = {}
  /\ ph = "live" => K = ToSet(CreateSteps(o))
  /\ ph = "create" => \E n \in 1..Len(CreateSteps(o)) : /\ todo = From(CreateSteps(o), n)
                                                        /\ K = Before(CreateSteps(o), n)
  /\ ph \in {"unwind", "delete"} => /\ todo # <<>> /\ InOrder(todo) /\ Complete(ToSet(todo))
                                    /\ ToSet(todo) \ {"clean_jfc"} = K
  /\ K \subseteq ToSet(CreateSteps(o))

\* ObjInv is a statement about phase, steps left and resources held.
LEMMA ObjInvOk ==
  ASSUME NEW o \in Objects
  PROVE  /\ ObjInv(o) <=> Ok(o, obj[o].phase, obj[o].todo, Kinds(o))
         /\ ObjInv(o)' <=> Ok(o, obj'[o].phase, obj'[o].todo, Kinds(o)')
BY DEF ObjInv, Ok

\* The resources of one object among all that are held.
LEMMA KindsFacts ==
  ASSUME NEW o \in Objects
  PROVE  /\ held \subseteq Objects \X Kind => \A k : k \in Kinds(o) <=> <<o, k>> \in held
         /\ held' \subseteq Objects \X Kind => \A k : k \in Kinds(o)' <=> <<o, k>> \in held'
<1>1. ASSUME NEW h, h \subseteq Objects \X Kind, NEW k
      PROVE  k \in {r[2] : r \in {x \in h : x[1] = o}} <=> <<o, k>> \in h
  BY <1>1
<1> QED
  BY <1>1 DEF Kinds

\* A step of the call on o leaves the other objects alone.
LEMMA LifeStep ==
  ASSUME LifeInv, NEW o \in Objects, NEW ph \in Phases, NEW todo \in Seq(Kind), NEW K,
         obj' = [obj EXCEPT ![o] = [phase |-> ph, todo |-> todo]],
         held' \subseteq Objects \X Kind, Kinds(o)' = K,
         \A p \in Objects : p # o => Kinds(p)' = Kinds(p),
         Ok(o, ph, todo, K),
         o \in Queues \cup Segs /\ ph # "absent" => obj[Ctx].phase = "live",
         o = Ctx /\ ph # "live" => \A x \in Queues \cup Segs : obj[x].phase = "absent"
  PROVE  LifeInv'
<1>0. /\ obj \in [Objects -> [phase : Phases, todo : Seq(Kind)]]
      /\ \A p \in Objects : ObjInv(p)
      /\ \A x \in Queues \cup Segs : obj[x].phase # "absent" => obj[Ctx].phase = "live"
  BY DEF LifeInv, LifeTypeOK, Phases
<1>1. LifeTypeOK'
  <2>1. [phase |-> ph, todo |-> todo] \in [phase : Phases, todo : Seq(Kind)]
    OBVIOUS
  <2>2. obj' \in [Objects -> [phase : Phases, todo : Seq(Kind)]]
    BY <1>0, <2>1
  <2> QED
    BY <2>2 DEF LifeTypeOK, Phases
<1>2. obj'[o].phase = ph /\ obj'[o].todo = todo /\ \A p \in Objects : p # o => obj'[p] = obj[p]
  BY <1>0
<1>3. ASSUME NEW p \in Objects PROVE ObjInv(p)'
  <2>1. CASE p = o
    <3>1. Ok(o, obj'[o].phase, obj'[o].todo, Kinds(o)')
      BY <1>2
    <3>2. ObjInv(o)'
      BY <3>1, ObjInvOk
    <3> QED
      BY <2>1, <3>2
  <2>2. CASE p # o
    <3>1. obj'[p] = obj[p] /\ Kinds(p)' = Kinds(p)
      BY <1>2, <2>2
    <3>2. Ok(p, obj'[p].phase, obj'[p].todo, Kinds(p)')
      BY <1>0, <3>1, ObjInvOk
    <3> QED
      BY <3>2, ObjInvOk
  <2> QED
    BY <2>1, <2>2
<1>4. ASSUME NEW x \in Queues \cup Segs, obj'[x].phase # "absent" PROVE obj'[Ctx].phase = "live"
  <2>0. x \in Objects /\ Ctx \in Objects /\ x # Ctx
    BY LifecycleAssumption DEF Objects
  <2>1. CASE o = x
    BY <1>2, <1>4, <2>0, <2>1
  <2>2. CASE o = Ctx
    BY <1>0, <1>2, <1>4, <2>0, <2>2
  <2>3. CASE o # x /\ o # Ctx
    BY <1>0, <1>2, <1>4, <2>0, <2>3
  <2> QED
    BY <2>1, <2>2, <2>3
<1> QED
  BY <1>1, <1>3, <1>4 DEF LifeInv

\* The resources of an object, acquired and released.
LEMMA KindsAdd ==
  ASSUME held \subseteq Objects \X Kind, NEW o \in Objects, NEW k \in Kind,
         held' = held \cup {<<o, k>>}
  PROVE  /\ held' \subseteq Objects \X Kind /\ Kinds(o)' = Kinds(o) \cup {k}
         /\ \A p \in Objects : p # o => Kinds(p)' = Kinds(p)
<1>1. held' \subseteq Objects \X Kind
  OBVIOUS
<1>2. ASSUME NEW p \in Objects, NEW j
      PROVE  j \in Kinds(p)' <=> j \in Kinds(p) \/ (p = o /\ j = k)
  <2>1. (j \in Kinds(p)' <=> <<p, j>> \in held') /\ (j \in Kinds(p) <=> <<p, j>> \in held)
    BY <1>1, KindsFacts
  <2>2. <<p, j>> = <<o, k>> <=> p = o /\ j = k
    OBVIOUS
  <2> QED
    BY <2>1, <2>2
<1> QED
  BY <1>1, <1>2

\* Giving back a resource of one object.
LEMMA KindsDrop ==
  ASSUME held \subseteq Objects \X Kind, NEW o \in Objects, NEW k \in Kind,
         held' = held \ {<<o, k>>}
  PROVE  /\ held' \subseteq Objects \X Kind /\ Kinds(o)' = Kinds(o) \ {k}
         /\ \A p \in Objects : p # o => Kinds(p)' = Kinds(p)
<1>1. held' \subseteq Objects \X Kind
  OBVIOUS
<1>2. ASSUME NEW p \in Objects, NEW j
      PROVE  j \in Kinds(p)' <=> j \in Kinds(p) /\ ~(p = o /\ j = k)
  <2>1. (j \in Kinds(p)' <=> <<p, j>> \in held') /\ (j \in Kinds(p) <=> <<p, j>> \in held)
    BY <1>1, KindsFacts
  <2>2. <<p, j>> = <<o, k>> <=> p = o /\ j = k
    OBVIOUS
  <2> QED
    BY <2>1, <2>2
<1> QED
  BY <1>1, <1>2

\* Nothing is acquired or given back.
LEMMA KindsSame ==
  ASSUME held \subseteq Objects \X Kind, UNCHANGED held
  PROVE  held' \subseteq Objects \X Kind /\ \A p \in Objects : Kinds(p)' = Kinds(p)
BY DEF Kinds

\* What LifeInv says of one object.
LEMMA LifeFacts ==
  ASSUME LifeInv, NEW o \in Objects
  PROVE  /\ held \subseteq Objects \X Kind
         /\ obj[o].phase \in Phases /\ obj[o].todo \in Seq(Kind)
         /\ Ok(o, obj[o].phase, obj[o].todo, Kinds(o))
         /\ o \in Queues \cup Segs /\ obj[o].phase # "absent" => obj[Ctx].phase = "live"
         /\ obj[Ctx].phase # "live" => \A x \in Queues \cup Segs : obj[x].phase = "absent"
BY ObjInvOk DEF LifeInv, LifeTypeOK, Phases

\* A create call starts with all its steps to do.
LEMMA CreateInv ==
  ASSUME LifeInv, NEW o \in Objects, Create(o)
  PROVE  LifeInv'
<1> DEFINE C == CreateSteps(o)
<1>1. C \in Seq(Kind) /\ Len(C) > 0
  BY ObjectSound DEF Sound
<1>2. C # <<>> /\ 1 \in 1..Len(C) /\ From(C, 1) = C /\ Before(C, 1) = {}
  <2>1. Len(C) \in Nat /\ 1 \in 1..Len(C)
    BY <1>1
  <2>2. From(C, 1) = C
    BY <1>1 DEF From
  <2> QED
    BY <1>1, <2>1, <2>2 DEF Before
<1>3. Kinds(o) = {} /\ obj[o].phase = "absent" /\ held \subseteq Objects \X Kind
  BY LifeFacts DEF Create, Ok
<1>4. /\ held' \subseteq Objects \X Kind /\ \A p \in Objects : Kinds(p)' = Kinds(p)
  BY <1>3, KindsSame DEF Create
<1>5. Ok(o, "create", C, {})
  BY <1>1, <1>2 DEF Ok
<1>6. obj' = [obj EXCEPT ![o] = [phase |-> "create", todo |-> C]]
  BY <1>2 DEF Create, Continue
<1>7. o \in Queues \cup Segs => obj[Ctx].phase = "live"
  BY DEF Create, MayCreate
<1>8. o = Ctx => \A x \in Queues \cup Segs : obj[x].phase = "absent"
  BY <1>3, LifeFacts
<1>9. "create" \in Phases /\ Kinds(o)' = {}
  BY <1>3, <1>4 DEF Phases
<1> HIDE DEF C
<1> QED
  BY <1>1, <1>4, <1>5, <1>6, <1>7, <1>8, <1>9, LifeStep

\* A step of a create call succeeds.
LEMMA AcquireInv ==
  ASSUME LifeInv, NEW o \in Objects, Acquire(o)
  PROVE  LifeInv'
<1> DEFINE C == CreateSteps(o)
<1>1. C \in Seq(Kind) /\ Len(C) > 0
  BY ObjectSound DEF Sound
<1>2. /\ held \subseteq Objects \X Kind /\ obj[o].phase = "create" /\ Ok(o, "create", obj[o].todo, Kinds(o))
      /\ o \in Queues \cup Segs => obj[Ctx].phase = "live"
      /\ o = Ctx => \A x \in Queues \cup Segs : obj[x].phase = "absent"
  BY LifeFacts DEF Acquire
<1>3. PICK n \in 1..Len(C) : obj[o].todo = From(C, n) /\ Kinds(o) = Before(C, n)
  BY <1>2 DEF Ok
<1>4. Head(obj[o].todo) = C[n] /\ C[n] \in Kind
  BY <1>1, <1>3, CreateProgress
<1>5. /\ held' \subseteq Objects \X Kind /\ Kinds(o)' = Kinds(o) \cup {C[n]}
      /\ \A p \in Objects : p # o => Kinds(p)' = Kinds(p)
  BY <1>2, <1>4, KindsAdd DEF Acquire
<1>6. Kinds(o)' = Before(C, n + 1)
  BY <1>1, <1>3, <1>5, CreateProgress
<1> HIDE DEF C
<1>7. CASE n < Len(C)
  <2>1. Tail(obj[o].todo) = From(C, n + 1) /\ From(C, n + 1) # <<>>
    BY <1>1, <1>3, <1>7, CreateProgress
  <2>2. obj' = [obj EXCEPT ![o] = [phase |-> "create", todo |-> From(C, n + 1)]]
    BY <2>1 DEF Acquire, Continue
  <2>3. n + 1 \in 1..Len(C) /\ n + 1 \in 1..(Len(C) + 1)
    BY <1>1, <1>7
  <2>4. From(C, n + 1) \in Seq(Kind) /\ Before(C, n + 1) \subseteq ToSet(C)
    BY <1>1, <2>3, FromFacts, ToSetFacts
  <2>5. Ok(o, "create", From(C, n + 1), Before(C, n + 1))
    BY <2>3, <2>4 DEF Ok, C
  <2>6. "create" \in Phases
    BY DEF Phases
  <2> QED
    BY <1>2, <1>5, <1>6, <2>2, <2>4, <2>5, <2>6, LifeStep
<1>8. CASE n = Len(C)
  <2>1. Tail(obj[o].todo) = <<>> /\ Before(C, n + 1) = ToSet(C)
    BY <1>1, <1>3, <1>8, CreateProgress
  <2>2. obj' = [obj EXCEPT ![o] = [phase |-> "live", todo |-> <<>>]]
    BY <2>1 DEF Acquire, Continue
  <2>3. Ok(o, "live", <<>>, ToSet(C))
    BY DEF Ok, C
  <2>4. "live" \in Phases /\ <<>> \in Seq(Kind) /\ Kinds(o)' = ToSet(C)
    BY <1>6, <2>1 DEF Phases
  <2> QED
    BY <1>2, <1>5, <2>2, <2>3, <2>4, LifeStep
<1> QED
  BY <1>1, <1>7, <1>8

\* What a call that releases resources leaves behind at each point.
LEMMA ReleasingOk ==
  ASSUME NEW o \in Objects, NEW ph \in {"unwind", "delete"}, NEW todo \in Seq(Kind),
         InOrder(todo), Complete(ToSet(todo)),
         ToSet(todo) \ {"clean_jfc"} \subseteq ToSet(CreateSteps(o)), NEW ph2,
         ph2 = IF todo = <<>> THEN "absent" ELSE ph
  PROVE  Ok(o, ph2, todo, ToSet(todo) \ {"clean_jfc"}) /\ ph2 \in Phases /\ ph2 # "live"
<1>1. CASE todo = <<>>
  BY <1>1, StepSets DEF Ok, Phases
<1>2. CASE todo # <<>>
  BY <1>2 DEF Ok, Phases
<1> QED
  BY <1>1, <1>2

\* A step of a create call fails: what is left to do is to undo the others.
LEMMA FailInv ==
  ASSUME LifeInv, NEW o \in Objects, Fail(o)
  PROVE  LifeInv'
<1> DEFINE C == CreateSteps(o)
<1>1. /\ C \in Seq(Kind) /\ Len(C) > 0 /\ "clean_jfc" \notin ToSet(C)
      /\ \A i \in 1..Len(C) : /\ Releases(Unwind(o, C[i]), Before(C, i))
                              /\ Needs(C[i]) \subseteq Before(C, i)
  BY ObjectSound DEF Sound
<1>2. /\ held \subseteq Objects \X Kind /\ obj[o].phase = "create" /\ Ok(o, "create", obj[o].todo, Kinds(o))
      /\ o \in Queues \cup Segs => obj[Ctx].phase = "live"
      /\ o = Ctx => \A x \in Queues \cup Segs : obj[x].phase = "absent"
  BY LifeFacts DEF Fail
<1>3. PICK n \in 1..Len(C) : obj[o].todo = From(C, n) /\ Kinds(o) = Before(C, n)
  BY <1>2 DEF Ok
<1>4. Head(obj[o].todo) = C[n]
  BY <1>1, <1>3, CreateProgress
<1> HIDE DEF C
<1>5. PICK todo : todo = Unwind(o, C[n])
  OBVIOUS
<1>6. todo \in Seq(Kind) /\ ToSet(todo) = Before(C, n) /\ InOrder(todo)
  BY <1>1, <1>5 DEF Releases
<1>7. Complete(ToSet(todo)) /\ "clean_jfc" \notin ToSet(todo) /\ ToSet(todo) \subseteq ToSet(C)
  BY <1>1, <1>6, UnwindComplete
<1>8. PICK ph2 : ph2 = IF todo = <<>> THEN "absent" ELSE "unwind"
  OBVIOUS
<1>9. ToSet(todo) \ {"clean_jfc"} = Kinds(o)
  BY <1>3, <1>6, <1>7
<1>10. Ok(o, ph2, todo, ToSet(todo) \ {"clean_jfc"}) /\ ph2 \in Phases /\ ph2 # "live"
  BY <1>6, <1>7, <1>8, ReleasingOk DEF C
<1>11. obj' = [obj EXCEPT ![o] = [phase |-> ph2, todo |-> todo]]
  BY <1>4, <1>5, <1>8 DEF Fail, Continue
<1>12. /\ held' \subseteq Objects \X Kind /\ \A p \in Objects : Kinds(p)' = Kinds(p)
  BY <1>2, KindsSame DEF Fail
<1>13. Kinds(o)' = ToSet(todo) \ {"clean_jfc"}
  BY <1>9, <1>12
<1> QED
  BY <1>2, <1>6, <1>10, <1>11, <1>12, <1>13, LifeStep

\* A delete call starts with all its steps to do.
LEMMA DeleteInv ==
  ASSUME LifeInv, NEW o \in Objects, Delete(o)
  PROVE  LifeInv'
<1>1. PICK todo : todo = DeleteSteps(o)
  OBVIOUS
<1>2. /\ todo \in Seq(Kind) /\ InOrder(todo) /\ todo # <<>> /\ Complete(ToSet(todo))
      /\ ToSet(todo) \ {"clean_jfc"} = ToSet(CreateSteps(o))
  BY <1>1, ObjectSound DEF Sound, Releases
<1>3. /\ held \subseteq Objects \X Kind /\ obj[o].phase = "live" /\ Kinds(o) = ToSet(CreateSteps(o))
      /\ o \in Queues \cup Segs => obj[Ctx].phase = "live"
      /\ o = Ctx => \A x \in Queues \cup Segs : obj[x].phase = "absent"
  BY LifeFacts DEF Delete, MayDelete, Ok
<1>4. obj' = [obj EXCEPT ![o] = [phase |-> "delete", todo |-> todo]]
  BY <1>1, <1>2 DEF Delete, Continue
<1>5. /\ held' \subseteq Objects \X Kind /\ \A p \in Objects : Kinds(p)' = Kinds(p)
  BY <1>3, KindsSame DEF Delete
<1>6. Ok(o, "delete", todo, ToSet(todo) \ {"clean_jfc"}) /\ "delete" \in Phases
  BY <1>2 DEF Ok, Phases
<1>7. Kinds(o)' = ToSet(todo) \ {"clean_jfc"}
  BY <1>2, <1>3, <1>5
<1> QED
  BY <1>2, <1>3, <1>4, <1>5, <1>6, <1>7, LifeStep

\* A step of an unwind or of a delete, refused by the kernel or not.
LEMMA ReleaseInv ==
  ASSUME LifeInv, NEW o \in Objects, Release(o) \/ ReleaseFails(o)
  PROVE  LifeInv'
<1>1. PICK todo, ph : todo = obj[o].todo /\ ph = obj[o].phase
  OBVIOUS
<1>2. /\ ph \in {"unwind", "delete"}
      /\ held' = held \ {<<o, Head(todo)>>}
      /\ Continue(o, ph, Tail(todo), "absent")
  BY <1>1 DEF Release, ReleaseFails
<1>3. /\ held \subseteq Objects \X Kind /\ todo \in Seq(Kind) /\ Ok(o, ph, todo, Kinds(o))
      /\ o \in Queues \cup Segs => obj[Ctx].phase = "live"
      /\ o = Ctx => \A x \in Queues \cup Segs : obj[x].phase = "absent"
  BY <1>1, <1>2, LifeFacts
<1>4. /\ todo # <<>> /\ InOrder(todo) /\ Complete(ToSet(todo))
      /\ ToSet(todo) \ {"clean_jfc"} = Kinds(o) /\ Kinds(o) \subseteq ToSet(CreateSteps(o))
  BY <1>2, <1>3 DEF Ok
<1>5. PICK rest : rest = Tail(todo)
  OBVIOUS
<1>6. /\ rest \in Seq(Kind) /\ InOrder(rest) /\ Complete(ToSet(rest))
      /\ ToSet(rest) = ToSet(todo) \ {Head(todo)} /\ Head(todo) \in ToSet(todo)
  BY <1>3, <1>4, <1>5, ReleaseProgress
<1>7. Head(todo) \in Kind
  BY <1>3, <1>6, ToSetFacts
<1>8. /\ held' \subseteq Objects \X Kind /\ Kinds(o)' = Kinds(o) \ {Head(todo)}
      /\ \A p \in Objects : p # o => Kinds(p)' = Kinds(p)
  BY <1>2, <1>3, <1>7, KindsDrop
<1>9. Kinds(o)' = ToSet(rest) \ {"clean_jfc"} /\ ToSet(rest) \ {"clean_jfc"} \subseteq ToSet(CreateSteps(o))
  BY <1>4, <1>6, <1>8
<1>10. PICK ph2 : ph2 = IF rest = <<>> THEN "absent" ELSE ph
  OBVIOUS
<1>11. Ok(o, ph2, rest, ToSet(rest) \ {"clean_jfc"}) /\ ph2 \in Phases /\ ph2 # "live"
  BY <1>2, <1>6, <1>9, <1>10, ReleasingOk
<1>12. obj' = [obj EXCEPT ![o] = [phase |-> ph2, todo |-> rest]]
  BY <1>2, <1>5, <1>10 DEF Continue
<1> QED
  BY <1>3, <1>6, <1>8, <1>9, <1>11, <1>12, LifeStep

\* LifeInv depends on the objects and their resources alone.
LEMMA LifeFrame == ASSUME LifeInv, UNCHANGED lifeVars PROVE LifeInv'
<1>1. obj' = obj /\ held' = held
  BY DEF lifeVars
<1>2. \A o \in Objects : Kinds(o)' = Kinds(o)
  BY <1>1 DEF Kinds
<1>3. ASSUME NEW o \in Objects PROVE ObjInv(o)'
  <2>1. Ok(o, obj'[o].phase, obj'[o].todo, Kinds(o)')
    BY <1>1, <1>2, ObjInvOk DEF LifeInv
  <2> QED
    BY <2>1, ObjInvOk
<1> QED
  BY <1>1, <1>3 DEF LifeInv, LifeTypeOK

\* No object exists and nothing is held.
LEMMA LifeInitInv == LifeInit => LifeInv
<1> SUFFICES ASSUME LifeInit PROVE LifeInv
  OBVIOUS
<1>1. LifeTypeOK
  BY DEF LifeInit, LifeTypeOK
<1>2. \A o \in Objects : Kinds(o) = {}
  BY DEF LifeInit, Kinds
<1>3. ASSUME NEW o \in Objects PROVE ObjInv(o)
  <2>1. Ok(o, "absent", <<>>, {})
    BY DEF Ok
  <2> QED
    BY <1>2, <2>1, ObjInvOk DEF LifeInit
<1>4. \A o \in Queues \cup Segs : obj[o].phase = "absent"
  BY DEF LifeInit, Objects
<1> QED
  BY <1>1, <1>3, <1>4 DEF LifeInv

----------------------------------------------------------------------------
(* The session *)

\* No step of the session disturbs the descriptors and their slots.
LEMMA SessionDevInv ==
  ASSUME DevInv, [Next]_sessVars
  PROVE  DevInv'
<1>1. ASSUME NEW t \in Threads, NEW want \in Eids \cup {AnyEid}, GetDevices(t, want)
      PROVE  DevInv'
  BY <1>1, CountDevsInv DEF GetDevices
<1>2. ASSUME NEW t \in Threads, FreeDeviceList(t)
      PROVE  DevInv'
  BY <1>2, FreeListInv DEF FreeDeviceList
<1>3. ASSUME NEW t \in Threads, NEW i, CreateContext(t, i)
      PROVE  DevInv'
  BY <1>3, DevFrame DEF CreateContext
<1>4. ASSUME NEW t \in Threads, DevStep(t)
      PROVE  DevInv'
  BY <1>4, DevStepInv
<1>5. ASSUME NEW o \in Objects, CreateObject(o) \/ DeleteObject(o) \/ ObjectStep(o)
      PROVE  DevInv'
  BY <1>5, DevFrame DEF CreateObject, DeleteObject, ObjectStep
<1>6. CASE UNCHANGED sessVars
  BY <1>6, DevFrame DEF sessVars, devVars
<1> QED
  BY <1>1, <1>2, <1>3, <1>4, <1>5, <1>6 DEF Next

\* No step of the session disturbs the calls on objects.
LEMMA SessionLifeInv ==
  ASSUME LifeInv, [Next]_sessVars
  PROVE  LifeInv'
<1>1. ASSUME NEW t \in Threads, NEW want \in Eids \cup {AnyEid}, GetDevices(t, want)
      PROVE  LifeInv'
  BY <1>1, LifeFrame DEF GetDevices
<1>2. ASSUME NEW t \in Threads, FreeDeviceList(t)
      PROVE  LifeInv'
  BY <1>2, LifeFrame DEF FreeDeviceList
<1>3. ASSUME NEW t \in Threads, NEW i, CreateContext(t, i)
      PROVE  LifeInv'
  BY <1>3, CreateInv DEF CreateContext, Objects
<1>4. ASSUME UNCHANGED <<lifeVars, dmaDev>>
      PROVE  LifeInv'
  BY <1>4, LifeFrame
<1>5. ASSUME NEW o \in Objects, CreateObject(o)
      PROVE  LifeInv'
  BY <1>5, CreateInv DEF CreateObject
<1>6. ASSUME NEW o \in Objects, DeleteObject(o)
      PROVE  LifeInv'
  BY <1>6, DeleteInv DEF DeleteObject
<1>7. ASSUME NEW o \in Objects, ObjectStep(o)
      PROVE  LifeInv'
  BY <1>7, AcquireInv, FailInv, ReleaseInv DEF ObjectStep, Step
<1>8. CASE UNCHANGED sessVars
  BY <1>8, LifeFrame DEF sessVars
<1> QED
  BY <1>1, <1>2, <1>3, <1>4, <1>5, <1>6, <1>7, <1>8 DEF Next

\* The list that holds the context's device stays as it is.
LEMMA DmaKept ==
  ASSUME DmaInv, UNCHANGED dmaDev, obj'[Ctx].phase # "absent" => obj[Ctx].phase # "absent",
         \A t \in Threads : list[t] # NoList /\ (\A i \in 1..Len(dmaDev) : dmaDev[i].thread = t)
                              => list'[t] = list[t]
  PROVE  DmaInv'
<1>1. CASE dmaDev = <<>>
  BY <1>1 DEF DmaInv
<1>2. CASE dmaDev # <<>>
  <2>1. PICK t \in Threads :
          /\ list[t] # NoList
          /\ \E i \in 1..Len(list[t]) : dmaDev = <<[thread |-> t, slot |-> list[t][i]]>>
    BY <1>2 DEF DmaInv
  <2>2. PICK i \in 1..Len(list[t]) : dmaDev = <<[thread |-> t, slot |-> list[t][i]]>>
    BY <2>1
  <2>3. \A j \in 1..Len(dmaDev) : dmaDev[j].thread = t
    BY <2>2
  <2>4. list'[t] = list[t]
    BY <2>1, <2>3
  <2> QED
    BY <1>2, <2>1, <2>2, <2>4 DEF DmaInv
<1> QED
  BY <1>1, <1>2

\* A context keeps the device it was created on, whatever the threads do.
LEMMA SessionDmaInv ==
  ASSUME SessInv, [Next]_sessVars
  PROVE  DmaInv'
<1>0. DevInv /\ LifeInv /\ DmaInv /\ list \in [Threads -> List]
  BY DEF SessInv, DevInv, DevTypeOK
<1>8. DOMAIN obj = Objects /\ Ctx \in Objects
      /\ obj = [o \in Objects |-> obj[o]]
  BY <1>0 DEF LifeInv, LifeTypeOK, Objects
<1>1. ASSUME NEW t \in Threads, NEW want \in Eids \cup {AnyEid}, GetDevices(t, want)
      PROVE  DmaInv'
  BY <1>0, <1>1, DmaKept DEF GetDevices, CountDevs, lifeVars
<1>2. ASSUME NEW t \in Threads, FreeDeviceList(t)
      PROVE  DmaInv'
  <2>1. /\ list' = [list EXCEPT ![t] = NoList] /\ dmaDev' = dmaDev /\ obj' = obj
        /\ \A i \in 1..Len(dmaDev) : dmaDev[i].thread # t
    BY <1>2 DEF FreeDeviceList, FreeList, lifeVars
  <2>2. CASE dmaDev = <<>>
    BY <1>0, <2>1, <2>2 DEF DmaInv
  <2>3. CASE dmaDev # <<>>
    <3>1. 1 \in 1..Len(dmaDev)
      <4>1. PICK r : dmaDev = <<r>>
        BY <1>0, <2>3 DEF DmaInv
      <4> QED
        BY <4>1
    <3>2. \A u \in Threads : (\A i \in 1..Len(dmaDev) : dmaDev[i].thread = u) => u # t
      BY <2>1, <3>1
    <3>3. \A u \in Threads : u # t => list'[u] = list[u]
      BY <1>0, <2>1
    <3> QED
      BY <1>0, <2>1, <3>2, <3>3, DmaKept
  <2> QED
    BY <2>2, <2>3
<1>3. ASSUME NEW t \in Threads, NEW i \in 1..Cardinality(Devs), CreateContext(t, i)
      PROVE  DmaInv'
  <2>1. /\ list[t] # NoList /\ i \in 1..Len(list[t]) /\ list' = list
        /\ dmaDev' = <<[thread |-> t, slot |-> list[t][i]]>>
    BY <1>3 DEF CreateContext, devVars
  <2>2. dmaDev' # <<>>
    BY <2>1
  <2> QED
    BY <2>1, <2>2 DEF DmaInv
<1>4. ASSUME NEW t \in Threads, DevStep(t), UNCHANGED <<lifeVars, dmaDev>>
      PROVE  DmaInv'
  <2>1. \A u \in Threads : list[u] # NoList => list'[u] = list[u]
    <3>1. CASE list' = list
      BY <3>1
    <3>2. CASE ReturnList(t) \/ ReturnDev(t)
      <4>1. enum[t].pc = "done" /\ list[t] = NoList
        BY <1>0, <3>2, ThreadFacts DEF ReturnList, ReturnDev, CallOK
      <4>2. \E l : list' = [list EXCEPT ![t] = l]
        BY <3>2 DEF ReturnList, ReturnDev
      <4> QED
        BY <1>0, <4>1, <4>2
    <3> QED
      BY <1>4, <3>1, <3>2 DEF DevStep, ListFails, ListBegin, OpenFails, OpenDev, QueryFails,
         QueryDev, ScanEnd, ReturnNoDev
  <2> QED
    BY <1>0, <1>4, <2>1, DmaKept DEF lifeVars
<1>5. ASSUME NEW o \in Objects, CreateObject(o) \/ DeleteObject(o)
      PROVE  DmaInv'
  <2>1. list' = list /\ dmaDev' = dmaDev
    BY <1>5 DEF CreateObject, DeleteObject, devVars
  <2>2. obj'[Ctx].phase # "absent" => obj[Ctx].phase # "absent"
    <3>1. CASE o = Ctx
      BY <1>5, <3>1 DEF CreateObject, DeleteObject, Delete
    <3>2. CASE o # Ctx
      <4>1. \E r : obj' = [obj EXCEPT ![o] = r]
        BY <1>5 DEF CreateObject, DeleteObject, Create, Delete, Continue
      <4> QED
        BY <1>8, <3>2, <4>1
    <3> QED
      BY <3>1, <3>2
  <2> QED
    BY <1>0, <2>1, <2>2, DmaKept
<1>6. ASSUME NEW o \in Objects, ObjectStep(o)
      PROVE  DmaInv'
  <2>1. /\ list' = list
        /\ dmaDev' = IF obj'[Ctx].phase = "absent" THEN <<>> ELSE dmaDev
    BY <1>6 DEF ObjectStep, devVars
  <2>2. CASE obj'[Ctx].phase = "absent"
    BY <2>1, <2>2 DEF DmaInv
  <2>3. CASE obj'[Ctx].phase # "absent"
    <3>1. obj[Ctx].phase # "absent"
      <4>1. CASE o = Ctx
        BY <1>6, <4>1 DEF ObjectStep, Step, Acquire, Fail, Release, ReleaseFails
      <4>2. CASE o # Ctx
        <5>1. \E r : obj' = [obj EXCEPT ![o] = r]
          BY <1>6 DEF ObjectStep, Step, Acquire, Fail, Release, ReleaseFails, Continue
        <5> QED
          BY <1>8, <2>3, <4>2, <5>1
      <4> QED
        BY <4>1, <4>2
    <3> QED
      BY <1>0, <2>1, <2>3, <3>1, DmaKept
  <2> QED
    BY <2>2, <2>3
<1>7. CASE UNCHANGED sessVars
  BY <1>0, <1>7, DmaKept DEF sessVars, lifeVars, devVars
<1> QED
  BY <1>1, <1>2, <1>3, <1>4, <1>5, <1>6, <1>7 DEF Next

\* SessInv is an invariant of the session: what threads looking for devices rely
\* on between two steps (cdma_u_device.c), what calls that create and delete
\* objects rely on (their error labels), and the device of the context.
THEOREM SessionInvariance == Spec => []SessInv
<1>1. Init => SessInv
  <2> SUFFICES ASSUME Init PROVE SessInv
    OBVIOUS
  <2>1. DevInv /\ LifeInv
    BY DevInitInv, LifeInitInv DEF Init
  <2>2. DmaInv
    BY DEF Init, LifeInit, DmaInv, Objects
  <2> QED
    BY <2>1, <2>2 DEF SessInv
<1>2. SessInv /\ [Next]_sessVars => SessInv'
  BY SessionDevInv, SessionLifeInv, SessionDmaInv DEF SessInv
<1> QED
  BY <1>1, <1>2, PTL DEF Spec

\* Every open descriptor belongs to one slot of one thread, and every slot's
\* descriptor is open and leads to its device, whatever fails and whichever
\* calls overlap (cdma_get_device_list, cdma_free_device_list_except_one).
THEOREM DescriptorsExact == Spec => []FdsExact
<1>1. SessInv => FdsExact
  BY DEF SessInv, DevInv
<1> QED
  BY <1>1, SessionInvariance, PTL

\* The array of slots is never overrun, although the directory may have grown
\* between the look that sized the array and the one that fills it.
THEOREM ArrayBounded == Spec => []SlotsInBounds
<1>1. SessInv => SlotsInBounds
  BY DEF SessInv, DevInv, CallInv, CallOK, SlotsInBounds
<1> QED
  BY <1>1, SessionInvariance, PTL

\* However a create call fails, and although releases may fail, the call ends with
\* nothing of the object left; one that succeeds ends with all of it there
\* (the labels of cdma_alloc_queue, cdma_u_create_queue, cdma_u_create_jfs, ...).
THEOREM NothingLeaks == Spec => []NoLeak
<1>1. SessInv => NoLeak
  BY DEF SessInv, LifeInv, ObjInv, NoLeak
<1> QED
  BY <1>1, SessionInvariance, PTL

\* What a call has still to release is held, and to be released once.
THEOREM NoDoubleRelease == Spec => []ReleasedOnce
<1>1. ASSUME SessInv PROVE ReleasedOnce
  <2> SUFFICES ASSUME NEW o \in Objects, obj[o].phase \in {"unwind", "delete"}
               PROVE  /\ ToSet(obj[o].todo) \ {"clean_jfc"} = Kinds(o)
                      /\ IsInjective(obj[o].todo)
    BY DEF ReleasedOnce
  <2>1. PICK todo \in Seq(Kind) : todo = obj[o].todo
    BY <1>1, LifeFacts DEF SessInv
  <2>2. InOrder(todo) /\ ToSet(todo) \ {"clean_jfc"} = Kinds(o)
    BY <1>1, <2>1 DEF SessInv, LifeInv, ObjInv
  <2>3. ASSUME NEW i \in 1..Len(todo), NEW j \in 1..Len(todo), todo[i] = todo[j]
        PROVE  i = j
    <3>1. ~(i < j) /\ ~(j < i)
      BY <2>2, <2>3 DEF InOrder, MayPrecede
    <3> QED
      BY <3>1
  <2>4. DOMAIN todo = 1..Len(todo)
    OBVIOUS
  <2>5. IsInjective(todo)
    BY <2>3, <2>4 DEF IsInjective
  <2> QED
    BY <2>1, <2>2, <2>5
<1> QED
  BY <1>1, SessionInvariance, PTL

\* At every point of every call an object holds what its steps want.
LEMMA HeldComplete ==
  ASSUME LifeInv, NEW o \in Objects, NEW kind \in Kinds(o)
  PROVE  Needs(kind) \subseteq Kinds(o)
<1>1. PICK C : C = CreateSteps(o)
  OBVIOUS
<1>2. /\ C \in Seq(Kind) /\ "clean_jfc" \notin ToSet(C)
      /\ \A n \in 1..Len(C) : Needs(C[n]) \subseteq Before(C, n)
  BY <1>1, ObjectSound DEF Sound
<1>3. /\ obj[o].phase \in Phases /\ obj[o].todo \in Seq(Kind)
      /\ Ok(o, obj[o].phase, obj[o].todo, Kinds(o)) /\ Kinds(o) \subseteq ToSet(C)
  BY <1>1, LifeFacts DEF Ok
<1>4. Wants(kind) = Needs(kind) /\ "clean_jfc" \notin Needs(kind)
  <2>1. kind # "clean_jfc"
    BY <1>2, <1>3
  <2> QED
    BY <2>1 DEF Wants, Needs
<1>5. CASE obj[o].phase = "live"
  <2>1. PICK n \in 1..Len(C) : C[n] = kind
    BY <1>2, <1>3, ToSetFacts
  <2>2. n \in 1..(Len(C) + 1) /\ Kinds(o) = ToSet(C)
    BY <1>1, <1>2, <1>3, <1>5 DEF Ok
  <2> QED
    BY <1>2, <2>1, <2>2, ToSetFacts
<1>6. CASE obj[o].phase = "create"
  <2>1. PICK n \in 1..Len(C) : Kinds(o) = Before(C, n)
    BY <1>1, <1>3, <1>6 DEF Ok
  <2>2. Complete(Before(C, n))
    BY <1>2, UnwindComplete
  <2> QED
    BY <1>4, <2>1, <2>2 DEF Complete
<1>7. CASE obj[o].phase \in {"unwind", "delete"}
  <2>1. /\ Complete(ToSet(obj[o].todo)) /\ ToSet(obj[o].todo) \ {"clean_jfc"} = Kinds(o)
    BY <1>3, <1>7 DEF Ok
  <2> QED
    BY <1>4, <2>1 DEF Complete
<1>8. CASE obj[o].phase = "absent"
  BY <1>3, <1>8 DEF Ok
<1> QED
  BY <1>3, <1>5, <1>6, <1>7, <1>8 DEF Phases

\* An object that holds something of the kernel has its context.
LEMMA KernelHasContext ==
  ASSUME LifeInv, NEW o \in Objects, Kinds(o) \cap KernelKinds # {}
  PROVE  /\ o \notin Imports
         /\ obj[Ctx].phase # "absent"
         /\ o # Ctx => {"k_ctx", "tid"} \subseteq Kinds(Ctx)
<1>0. /\ Ok(o, obj[o].phase, obj[o].todo, Kinds(o)) /\ obj[o].phase # "absent"
      /\ Kinds(o) \subseteq ToSet(CreateSteps(o))
  BY LifeFacts DEF Ok
<1>1. o \notin Imports
  <2> SUFFICES ASSUME o \in Imports PROVE FALSE
    OBVIOUS
  <2>1. CreateSteps(o) = ImportCreate
    BY LifecycleAssumption DEF CreateSteps
  <2>2. Kinds(o) \subseteq {"seg"}
    BY <1>0, <2>1, StepSets
  <2>3. "seg" \notin KernelKinds
    BY DEF KernelKinds
  <2> QED
    BY <2>2, <2>3
<1>2. CASE o = Ctx
  BY <1>0, <1>1, <1>2
<1>3. CASE o # Ctx
  <2>1. o \in Queues \cup Segs /\ Ctx \in Objects
    BY <1>1, <1>3 DEF Objects
  <2>2. obj[Ctx].phase = "live"
    BY <1>0, <2>1, LifeFacts
  <2>3. Kinds(Ctx) = ToSet(CtxCreate)
    BY <2>1, <2>2, LifeFacts DEF Ok, CreateSteps
  <2> QED
    BY <1>1, <2>2, <2>3, StepSets
<1> QED
  BY <1>2, <1>3

\* While a kernel object exists, so does what its create ioctl handed to the kernel,
\* in every order of creation, unwinding and deletion.
THEOREM DeviceNeverDangles == Spec => []DeviceMemoryHeld
<1>1. SessInv => DeviceMemoryHeld
  BY HeldComplete, KernelHasContext DEF SessInv, DeviceMemoryHeld
<1> QED
  BY <1>1, SessionInvariance, PTL

\* cdma_u_clean_jfc runs on a completion queue that is there, after the JFS left it.
THEOREM CleanInPlace == Spec => []CleanFindsJfc
<1>1. ASSUME SessInv PROVE CleanFindsJfc
  <2> SUFFICES ASSUME NEW o \in Queues, obj[o].todo # <<>>, Head(obj[o].todo) = "clean_jfc"
               PROVE  /\ {"cq_buf", "cq_lock", "sw_db"} \subseteq Kinds(o)
                      /\ "k_jfs" \notin Kinds(o)
    BY DEF CleanFindsJfc
  <2>0. o \in Objects /\ LifeInv
    BY <1>1 DEF Objects, SessInv
  <2>1. PICK todo \in Seq(Kind) : todo = obj[o].todo
    BY <2>0, LifeFacts
  <2>2. /\ obj[o].phase \in Phases /\ Ok(o, obj[o].phase, todo, Kinds(o))
        /\ CreateSteps(o) \in Seq(Kind) /\ "clean_jfc" \notin ToSet(CreateSteps(o))
        /\ todo # <<>> /\ Head(todo) = "clean_jfc"
    BY <2>0, <2>1, LifeFacts, ObjectSound DEF Sound
  <2>3. obj[o].phase # "create"
    <3> SUFFICES ASSUME obj[o].phase = "create" PROVE FALSE
      OBVIOUS
    <3>1. PICK n \in 1..Len(CreateSteps(o)) : todo = From(CreateSteps(o), n)
      BY <2>2 DEF Ok
    <3>2. CreateSteps(o)[n] = "clean_jfc"
      BY <2>2, <3>1, CreateProgress
    <3> QED
      BY <2>2, <3>2, ToSetFacts
  <2>4. /\ InOrder(todo) /\ Complete(ToSet(todo)) /\ ToSet(todo) \ {"clean_jfc"} = Kinds(o)
    BY <2>2, <2>3 DEF Ok, Phases
  <2>5. Len(todo) \in Nat /\ 1 \in 1..Len(todo) /\ todo[1] = "clean_jfc"
    BY <2>2
  <2>6. "clean_jfc" \in ToSet(todo) /\ Wants("clean_jfc") = {"cq_buf", "cq_lock", "sw_db"}
    BY <2>5, ToSetFacts DEF Wants
  <2>7. {"cq_buf", "cq_lock", "sw_db"} \subseteq Kinds(o)
    BY <2>4, <2>6 DEF Complete
  <2>8. "k_jfs" \notin Kinds(o)
    <3> SUFFICES ASSUME "k_jfs" \in ToSet(todo) PROVE FALSE
      BY <2>4
    <3>1. PICK j \in 1..Len(todo) : todo[j] = "k_jfs"
      BY ToSetFacts
    <3>2. j # 1
      BY <2>5, <3>1
    <3>3. 1 < j
      BY <2>5, <3>2
    <3>4. MayPrecede("clean_jfc", "k_jfs")
      BY <2>4, <2>5, <3>1, <3>3 DEF InOrder
    <3> QED
      BY <3>4 DEF MayPrecede
  <2> QED
    BY <2>7, <2>8
<1> QED
  BY <1>1, SessionInvariance, PTL

\* While anything of the kernel exists, the descriptor of the context's device is
\* open and leads to it, although other threads open and close descriptors.
THEOREM DeviceStaysOpen == Spec => []ContextDeviceOpen
<1>1. ASSUME SessInv PROVE ContextDeviceOpen
  <2> SUFFICES ASSUME NEW o \in Objects, Kinds(o) \cap KernelKinds # {}
               PROVE  dmaDev # <<>> /\ open[dmaDev[1].slot.fd] = dmaDev[1].slot.dev
    BY DEF ContextDeviceOpen
  <2>0. DevInv /\ LifeInv /\ DmaInv
    BY <1>1 DEF SessInv
  <2>1. dmaDev # <<>>
    BY <2>0, KernelHasContext DEF DmaInv
  <2>2. PICK t \in Threads :
          /\ list[t] # NoList
          /\ \E i \in 1..Len(list[t]) : dmaDev = <<[thread |-> t, slot |-> list[t][i]]>>
    BY <2>0, <2>1 DEF DmaInv
  <2>3. PICK i \in 1..Len(list[t]) : dmaDev = <<[thread |-> t, slot |-> list[t][i]]>>
    BY <2>2
  <2>4. dmaDev[1].slot = list[t][i]
    BY <2>3
  <2>5. /\ enum[t] \in Call /\ list[t] \in List /\ CallOK(enum[t], list[t])
        /\ AllOwned[t] = OwnedBy(t) /\ Exact(open, AllOwned)
    BY <2>0, ThreadFacts
  <2>6. enum[t].slots = <<>> /\ enum[t].cur = <<>> /\ list[t] \in Seq(Slot)
    BY <2>2, <2>5 DEF CallOK, List
  <2>7. AllOwned[t] = list[t]
    BY <2>2, <2>5, <2>6, OwnedFacts DEF OwnedBy
  <2>8. open[list[t][i].fd] = list[t][i].dev
    BY <2>5, <2>7 DEF Exact
  <2> QED
    BY <2>1, <2>4, <2>8
<1> QED
  BY <1>1, SessionInvariance, PTL
============================================================================
