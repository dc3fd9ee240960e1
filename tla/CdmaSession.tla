---------------------------- MODULE CdmaSession ----------------------------
(***************************************************************************)
(* The API as an application uses it: threads find devices (CdmaDevice),   *)
(* one device gets a context, the context queues and segments              *)
(* (CdmaLifecycle).  Each action is an entry point of cdma_u_lib.c, guarded *)
(* by the order the API asks of its callers; the steps of the calls        *)
(* interleave.                                                             *)
(***************************************************************************)
EXTENDS CdmaLifecycle, CdmaDevice

CONSTANT MaxObjects     \* bound: objects besides the context at a time

VARIABLES
  dmaDev        \* ctx->dma_dev: the slot of the context and its thread, or <<>>

sessVars == <<lifeVars, devVars, dmaDev>>

\* dma_get_device_list and dma_get_device_by_eid.
GetDevices(t, want) ==
  /\ CountDevs(t, want)
  /\ UNCHANGED <<lifeVars, dmaDev>>

\* dma_free_device_list, after the contexts of its devices are gone.
FreeDeviceList(t) ==
  /\ \A i \in 1..Len(dmaDev) : dmaDev[i].thread # t
  /\ FreeList(t)
  /\ UNCHANGED <<lifeVars, dmaDev>>

\* dma_create_context on a device of a list.
CreateContext(t, i) ==
  /\ list[t] # NoList
  /\ i \in 1..Len(list[t])
  /\ Create(Ctx)
  /\ dmaDev' = <<[thread |-> t, slot |-> list[t][i]]>>
  /\ UNCHANGED devVars

\* dma_alloc_queue, dma_register_seg and dma_import_seg.
CreateObject(o) ==
  /\ o # Ctx
  /\ Cardinality({x \in Objects \ {Ctx} : obj[x].phase # "absent"}) < MaxObjects
  /\ Create(o)
  /\ UNCHANGED <<devVars, dmaDev>>

\* dma_delete_context, dma_free_queue, dma_unregister_seg and dma_unimport_seg.
DeleteObject(o) ==
  /\ Delete(o)
  /\ UNCHANGED <<devVars, dmaDev>>

\* A call goes on; with its last step a context lets go of its device.
ObjectStep(o) ==
  /\ Step(o)
  /\ dmaDev' = IF obj'[Ctx].phase = "absent" THEN <<>> ELSE dmaDev
  /\ UNCHANGED devVars

Init == LifeInit /\ DevInit /\ dmaDev = <<>>

Next ==
  \/ \E t \in Threads :
       \/ \E want \in Eids \cup {AnyEid} : GetDevices(t, want)
       \/ FreeDeviceList(t)
       \/ \E i \in 1..Cardinality(Devs) : CreateContext(t, i)
       \/ DevStep(t) /\ UNCHANGED <<lifeVars, dmaDev>>
  \/ \E o \in Objects : CreateObject(o) \/ DeleteObject(o) \/ ObjectStep(o)

Spec == Init /\ [][Next]_sessVars
----------------------------------------------------------------------------
\* The ioctls and mappings of a context, its queues and segments go through a
\* descriptor that is open and leads to the device it was created on, for as
\* long as any kernel object of it exists, while other threads look for
\* devices, keep one of many or give lists back.
ContextDeviceOpen ==
  (\E o \in Objects \ Imports : Kinds(o) \cap KernelKinds # {})
    => /\ dmaDev # <<>>
       /\ open[dmaDev[1].slot.fd] = dmaDev[1].slot.dev

\* The context's device is a slot of a list that its thread still holds, from the
\* call that creates the context to the end of the one that deletes it.
DmaInv ==
  /\ obj[Ctx].phase # "absent" => dmaDev # <<>>
  /\ dmaDev # <<>> =>
       \E t \in Threads :
         /\ list[t] # NoList
         /\ \E i \in 1..Len(list[t]) : dmaDev = <<[thread |-> t, slot |-> list[t][i]]>>

\* Why the properties of the session hold: an inductive invariant.
SessInv == DevInv /\ LifeInv /\ DmaInv
============================================================================
