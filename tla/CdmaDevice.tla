----------------------------- MODULE CdmaDevice -----------------------------
(***************************************************************************)
(* Finding devices (cdma_u_device.c): a call counts the entries of         *)
(* /dev/cdma, allocates that many slots, then reads the directory again,   *)
(* opens each entry and asks the kernel for its attributes.  Devices come  *)
(* and go, so each look at the directory finds any set of them; an entry   *)
(* may fail to open (a path that leaves /dev/cdma, a device that is gone,  *)
(* no descriptor left) or to answer.  Threads run their calls              *)
(* concurrently; what they share is the process's descriptor table, which  *)
(* hands out the lowest free number.                                       *)
(*                                                                         *)
(* Descriptor 0 is taken: the code closes only descriptors above 0.        *)
(***************************************************************************)
EXTENDS Naturals, Sequences, FiniteSets, FiniteSetsExt

CONSTANTS
  Threads,      \* threads that look for devices
  Devs,         \* device nodes that may be in /dev/cdma
  Eids,         \* entity ids
  EusOf,        \* the entity ids of the units of a device
  MaxFd,        \* bound: descriptors are 1..MaxFd
  NoDev,        \* a descriptor that is not open
  NoList,       \* a thread that holds no list
  AnyEid        \* what dma_get_device_list asks for

Fds == 1..MaxFd

\* A slot of a list: its descriptor and the device it was opened for.
Slot == [fd : Fds, dev : Devs]

ASSUME DeviceAssumption ==
  /\ IsFiniteSet(Devs)
  /\ EusOf \in [Devs -> SUBSET Eids]
  /\ MaxFd \in Nat
  /\ NoDev \notin Devs
  /\ NoList \notin Seq(Slot)
  /\ AnyEid \notin Eids

VARIABLES
  open,         \* the descriptor table: the device behind each descriptor
  enum,         \* per thread: the call in progress
  list          \* per thread: the list it holds, or NoList

devVars == <<open, enum, list>>

\* The descriptors of a list.
FdsOf(slots) == {slots[i].fd : i \in 1..Len(slots)}

NoCall == [pc |-> "idle", want |-> AnyEid, num |-> 0, todo |-> {}, slots |-> <<>>,
           cur |-> <<>>]

FreeFds == {f \in Fds : open[f] = NoDev}
Close(fds) == [f \in Fds |-> IF f \in fds THEN NoDev ELSE open[f]]

To(t, pc) == enum' = [enum EXCEPT ![t].pc = pc]
----------------------------------------------------------------------------
\* cdma_get_devs_num, the first look at the directory, finds n entries; 0, an
\* empty directory or a failing opendir, ends the call.
CountDevs(t, want) ==
  /\ enum[t].pc = "idle"
  /\ list[t] = NoList
  /\ \E n \in 0..Cardinality(Devs) :
       enum' = [enum EXCEPT ![t] = IF n = 0 THEN NoCall
                                   ELSE [NoCall EXCEPT !.pc = "alloc", !.want = want,
                                                       !.num = n]]
  /\ UNCHANGED <<open, list>>

\* The second opendir or calloc fails: NULL, with *num_devices left at the count.
ListFails(t) ==
  /\ enum[t].pc = "alloc"
  /\ enum' = [enum EXCEPT ![t] = NoCall]
  /\ UNCHANGED <<open, list>>

\* The second look.
ListBegin(t) ==
  /\ enum[t].pc = "alloc"
  /\ \E entries \in SUBSET Devs :
       enum' = [enum EXCEPT ![t].pc = "scan", ![t].todo = entries]
  /\ UNCHANGED <<open, list>>

\* cdma_open_cdev fails: the slot is used for the next entry.
OpenFails(t, e) ==
  /\ enum[t].pc = "scan"
  /\ e \in enum[t].todo
  /\ enum' = [enum EXCEPT ![t].todo = @ \ {e}]
  /\ UNCHANGED <<open, list>>

OpenDev(t, e) ==
  /\ enum[t].pc = "scan"
  /\ e \in enum[t].todo
  /\ FreeFds # {}
  /\ open' = [open EXCEPT ![Min(FreeFds)] = e]
  /\ enum' = [enum EXCEPT ![t].todo = @ \ {e}, ![t].pc = "query",
                          ![t].cur = <<[fd |-> Min(FreeFds), dev |-> e]>>]
  /\ UNCHANGED list

\* Mutant of QueryFails: the descriptor stays open.
QueryFailsOpen(t) ==
  /\ enum[t].pc = "query"
  /\ enum' = [enum EXCEPT ![t].pc = "scan", ![t].cur = <<>>]
  /\ UNCHANGED <<open, list>>

\* The query ioctl fails or reports no unit.
QueryFails(t) ==
  /\ enum[t].pc = "query"
  /\ open' = Close(FdsOf(enum[t].cur))
  /\ enum' = [enum EXCEPT ![t].pc = "scan", ![t].cur = <<>>]
  /\ UNCHANGED list

\* Mutant of SlotsFull: the slot after the last is used too.
SlotsFullLax(n, num) == n > num

\* ++i >= *num_devices.
SlotsFull(n, num) == n >= num

QueryDev(t) ==
  /\ enum[t].pc = "query"
  /\ LET slots == enum[t].slots \o enum[t].cur
     IN  enum' = [enum EXCEPT
           ![t].slots = slots, ![t].cur = <<>>,
           ![t].pc = IF SlotsFull(Len(slots), enum[t].num) THEN "done" ELSE "scan"]
  /\ UNCHANGED <<open, list>>

ScanEnd(t) ==
  /\ enum[t].pc = "scan"
  /\ enum[t].todo = {}
  /\ To(t, "done")
  /\ UNCHANGED <<open, list>>

\* dma_get_device_list returns the slots that are ready, perhaps none of them.
ReturnList(t) ==
  /\ enum[t].pc = "done"
  /\ enum[t].want = AnyEid
  /\ list' = [list EXCEPT ![t] = enum[t].slots]
  /\ enum' = [enum EXCEPT ![t] = NoCall]
  /\ UNCHANGED open

\* cdma_find_seid_in_eus over the list: the slots of devices with the eid.
Matches(t) ==
  {i \in 1..Len(enum[t].slots) : enum[t].want \in EusOf[enum[t].slots[i].dev]}

\* Mutant of ExceptOne: the entry to keep is closed as well.
ExceptOneNone(slots, i) == FdsOf(slots)

\* cdma_free_device_list_except_one: the descriptors it closes.
ExceptOne(slots, i) == FdsOf(slots) \ {slots[i].fd}

\* cdma_get_device_by_eid, found: the first match is copied and kept.
ReturnDev(t) ==
  /\ enum[t].pc = "done"
  /\ enum[t].want # AnyEid
  /\ Matches(t) # {}
  /\ LET i == Min(Matches(t))
     IN  /\ list' = [list EXCEPT ![t] = <<enum[t].slots[i]>>]
         /\ open' = Close(ExceptOne(enum[t].slots, i))
  /\ enum' = [enum EXCEPT ![t] = NoCall]

\* No match, or no memory for the copy: the list is freed, NULL returned.
ReturnNoDev(t) ==
  /\ enum[t].pc = "done"
  /\ enum[t].want # AnyEid
  /\ open' = Close(FdsOf(enum[t].slots))
  /\ enum' = [enum EXCEPT ![t] = NoCall]
  /\ UNCHANGED list

\* cdma_free_device_list.
FreeList(t) ==
  /\ list[t] # NoList
  /\ open' = Close(FdsOf(list[t]))
  /\ list' = [list EXCEPT ![t] = NoList]
  /\ UNCHANGED enum

DevInit ==
  /\ open = [f \in Fds |-> NoDev]
  /\ enum = [t \in Threads |-> NoCall]
  /\ list = [t \in Threads |-> NoList]

\* The steps of a call after its entry.
DevStep(t) ==
  \/ ListFails(t)
  \/ ListBegin(t)
  \/ \E e \in Devs : OpenFails(t, e) \/ OpenDev(t, e)
  \/ QueryFails(t)
  \/ QueryDev(t)
  \/ ScanEnd(t)
  \/ ReturnList(t)
  \/ ReturnDev(t)
  \/ ReturnNoDev(t)
----------------------------------------------------------------------------
\* The slots a thread with call e and list l is responsible for.
Owned(e, l) == e.slots \o e.cur \o (IF l = NoList THEN <<>> ELSE l)
OwnedBy(t)  == Owned(enum[t], list[t])

\* With the descriptor table tab and the slots owned[t] of each thread, every open
\* descriptor belongs to one slot of one thread, and every slot's descriptor is
\* open and leads to the slot's device.
Exact(tab, owned) ==
  /\ \A t \in Threads : \A i \in 1..Len(owned[t]) :
       /\ tab[owned[t][i].fd] = owned[t][i].dev
       /\ \A u \in Threads : \A j \in 1..Len(owned[u]) :
            owned[u][j].fd = owned[t][i].fd => u = t /\ i = j
  /\ \A f \in Fds : tab[f] # NoDev => \E t \in Threads : f \in FdsOf(owned[t])

\* Descriptors and slots match: nothing leaks when an entry fails, a list is given
\* back or one device is kept of many, and no close hits the descriptor another
\* call got in the meantime.
FdsExact == Exact(open, [t \in Threads |-> OwnedBy(t)])

\* A slot is written only within the array, which has room for the entries of
\* the first look, whatever the second one finds.
SlotsInBounds ==
  \A t \in Threads : enum[t].pc = "query" => Len(enum[t].slots) < enum[t].num

\* What a thread between two steps relies on: outside a call it has no slots, in a
\* call no list, one descriptor is in hand only between opening and query, and
\* until the array is full there is a slot for the next one.
CallOK(e, l) ==
  /\ e.pc \in {"idle", "alloc"} => e.slots = <<>>
  /\ e.pc # "idle" => l = NoList
  /\ e.pc # "query" => e.cur = <<>>
  /\ e.pc = "query" => Len(e.cur) = 1
  /\ e.pc \in {"alloc", "scan", "query"} => Len(e.slots) < e.num

CallInv == \A t \in Threads : CallOK(enum[t], list[t])

\* Every variable has its type.
CallPc == {"idle", "alloc", "scan", "query", "done"}
Call   == [pc : CallPc, want : Eids \cup {AnyEid}, num : 0..Cardinality(Devs),
           todo : SUBSET Devs, slots : Seq(Slot), cur : Seq(Slot)]
List   == Seq(Slot) \cup {NoList}

DevTypeOK ==
  /\ open \in [Fds -> Devs \cup {NoDev}]
  /\ enum \in [Threads -> Call]
  /\ list \in [Threads -> List]

DevInv == DevTypeOK /\ CallInv /\ FdsExact
=============================================================================
