--------------------------- MODULE CdmaLifecycle ---------------------------
(***************************************************************************)
(* Creating and destroying what an application uses: the context, queues   *)
(* (a JFCE, a JFC, a TP and a JFS each), registered and imported segments. *)
(* A create call acquires resources one by one; any acquisition can fail,  *)
(* and the call then releases what it has by the fall-through of its error *)
(* labels.  A delete ioctl that fails is logged, and the call goes on.     *)
(* Calls for different objects run concurrently.                           *)
(*                                                                         *)
(* Resources are user memory, locks, mappings, descriptors and the kernel  *)
(* objects behind the ioctls.  A kernel object refers to user memory the   *)
(* device works on, and to other kernel objects.                           *)
(***************************************************************************)
EXTENDS Naturals, Sequences, FiniteSets, SequencesExt

CONSTANTS
  Queues,       \* queues the application may allocate
  Segs,         \* segments it may register
  Imports,      \* segments of others it may import
  Ctx,          \* the context
  MaxOrphans    \* bound: releases that fail

ASSUME LifecycleAssumption ==
  /\ Queues \cap Segs = {} /\ Queues \cap Imports = {} /\ Segs \cap Imports = {}
  /\ Ctx \notin Queues \cup Segs \cup Imports
  /\ MaxOrphans \in Nat

VARIABLES
  obj,          \* per object: phase of the call on it, and what it has to do
  held,         \* the resources the library holds, as <<object, kind>>
  orphans       \* how many resources were given up although releasing them failed

lifeVars == <<obj, held, orphans>>

Objects == {Ctx} \cup Queues \cup Segs \cup Imports
----------------------------------------------------------------------------
(* What each function acquires, in order, and releases again.  From(seq, i)   *)
(* is what runs from the i-th error label on: the labels fall through.        *)

From(labels, i) == SubSeq(labels, i, Len(labels))

\* cdma_create_context, its labels, and cdma_delete_context; "k_ctx" is the
\* kernel context together with the async_fd that its ioctl opens.
CtxCreate == <<"u_ctx", "page_mutex", "tid", "k_ctx", "jfc_db">>
CtxDelete == <<"jfc_db", "k_ctx", "tid", "page_mutex", "u_ctx">>
CtxLabels == <<"k_ctx", "tid", "page_mutex", "u_ctx">>

CtxUnwind(kind) ==
  From(CtxLabels, CASE kind = "jfc_db"     -> 1     \* del_kernel_ctx
                    [] kind = "k_ctx"      -> 2     \* free_tid
                    [] kind = "tid"        -> 3     \* mutex_destroy
                    [] kind = "page_mutex" -> 4     \* free_u_ctx
                    [] kind = "u_ctx"      -> 5)

\* cdma_register_seg, its labels, and cdma_unregister_seg.
SegCreate == <<"seg", "grant", "k_seg">>
SegDelete == <<"k_seg", "grant", "seg">>
SegLabels == <<"grant", "seg">>

SegUnwind(kind) ==
  From(SegLabels, CASE kind = "k_seg" -> 1          \* ungrant
                    [] kind = "grant" -> 2          \* free_seg
                    [] kind = "seg"   -> 3)

\* cdma_import_seg and cdma_unimport_seg: a local descriptor only.
ImportCreate == <<"seg">>
ImportDelete == <<"seg">>

\* cdma_u_create_jfce and cdma_u_delete_jfce.
JfceCreate == <<"jfce", "jfce_fd">>
JfceDelete == <<"jfce_fd", "jfce">>
JfceUnwind(kind) == IF kind = "jfce_fd" THEN <<"jfce">> ELSE <<>>

\* cdma_u_create_jfc with cdma_u_alloc_jfc_buf, and cdma_u_delete_jfc.
JfcCreate == <<"jfc", "cq_lock", "cq_buf", "sw_db", "k_jfc">>
JfcDelete == <<"k_jfc", "sw_db", "cq_buf", "cq_lock", "jfc">>
JfcLabels == <<"sw_db", "cq_buf", "cq_lock", "jfc">>

\* Mutant of JfcUnwind: a failing kernel JFC is deleted all the same.
JfcUnwindDelete(kind) ==
  IF kind = "k_jfc" THEN JfcDelete
  ELSE From(JfcLabels, 6 - CHOOSE i \in 1..5 : JfcCreate[i] = kind)

JfcUnwind(kind) ==
  From(JfcLabels, CASE kind = "k_jfc"   -> 1        \* err_create_jfc
                    [] kind = "sw_db"   -> 2        \* in cdma_u_alloc_jfc_buf
                    [] kind = "cq_buf"  -> 3        \* err_alloc_jfc
                    [] kind = "cq_lock" -> 4        \* err_init_lock
                    [] kind = "jfc"     -> 5)

\* cdma_u_create_ctp and cdma_u_delete_ctp.
TpCreate == <<"tp", "k_tp">>
TpDelete == <<"k_tp", "tp">>
TpUnwind(kind) == IF kind = "k_tp" THEN <<"tp">> ELSE <<>>

\* cdma_u_create_jfs with cdma_u_create_sq, and cdma_u_delete_jfs, which cleans
\* the JFC between deleting the kernel JFS and unmapping its doorbell.
JfsCreate == <<"jfs", "sq_lock", "sq_wrid", "sq_buf", "k_jfs", "sq_db">>
JfsDelete == <<"k_jfs", "clean_jfc", "sq_db", "sq_buf", "sq_wrid", "sq_lock", "jfs">>
JfsLabels == <<"k_jfs", "sq_buf", "sq_wrid", "sq_lock", "jfs">>

JfsUnwind(kind) ==
  From(JfsLabels, CASE kind = "sq_db"   -> 1        \* err_alloc_db
                    [] kind = "k_jfs"   -> 2        \* err_exec_cmd
                    [] kind = "sq_buf"  -> 3        \* in cdma_u_alloc_queue_buf
                    [] kind = "sq_wrid" -> 4        \* in cdma_u_create_sq
                    [] kind = "sq_lock" -> 5        \* err_create_sq
                    [] kind = "jfs"     -> 6)

\* cdma_alloc_queue, with cdma_u_create_queue and cdma_u_alloc_jfc_res.
QueueCreate ==
  <<"queue", "k_queue">> \o JfceCreate \o JfcCreate \o TpCreate \o JfsCreate

\* Mutant of QueueDelete: the JFC goes before the JFS that completes into it.
QueueDeleteJfcFirst ==
  JfcDelete \o JfsDelete \o TpDelete \o JfceDelete \o <<"k_queue", "queue">>

\* cdma_free_queue, with cdma_u_delete_queue and cdma_u_free_jfc_res.
QueueDelete ==
  JfsDelete \o TpDelete \o JfcDelete \o JfceDelete \o <<"k_queue", "queue">>

\* A part that fails undoes its own steps; the labels of cdma_u_create_queue,
\* cdma_u_alloc_jfc_res and cdma_alloc_queue then delete the earlier parts.
QueueUnwind(kind) ==
  LET Is(create) == kind \in ToSet(create)
      fail == <<"k_queue", "queue">>
  IN  CASE Is(JfsCreate)    -> JfsUnwind(kind) \o TpDelete \o JfcDelete \o JfceDelete \o fail
        [] Is(TpCreate)     -> TpUnwind(kind) \o JfcDelete \o JfceDelete \o fail
        [] Is(JfcCreate)    -> JfcUnwind(kind) \o JfceDelete \o fail
        [] Is(JfceCreate)   -> JfceUnwind(kind) \o fail
        [] kind = "k_queue" -> <<"queue">>
        [] kind = "queue"   -> <<>>
----------------------------------------------------------------------------
CreateSteps(o) == IF o = Ctx THEN CtxCreate
                  ELSE IF o \in Queues THEN QueueCreate
                  ELSE IF o \in Segs THEN SegCreate ELSE ImportCreate
DeleteSteps(o) == IF o = Ctx THEN CtxDelete
                  ELSE IF o \in Queues THEN QueueDelete
                  ELSE IF o \in Segs THEN SegDelete ELSE ImportDelete

\* What a create call releases when acquiring kind fails.
Unwind(o, kind) == IF o = Ctx THEN CtxUnwind(kind)
                   ELSE IF o \in Queues THEN QueueUnwind(kind)
                   ELSE IF o \in Segs THEN SegUnwind(kind) ELSE <<>>

KernelKinds == {"k_ctx", "k_queue", "k_jfc", "k_tp", "k_jfs", "k_seg"}

\* What the create ioctl of a kernel object hands to the kernel: the resources
\* of the same object, and of the context, that it goes on using.
Needs(kind) ==
  CASE kind = "k_jfs" -> {"jfs", "sq_buf", "k_jfc", "k_tp", "k_queue"}
    [] kind = "k_jfc" -> {"cq_buf", "sw_db", "jfce_fd", "k_queue"}
    [] kind = "k_tp"  -> {"tp", "k_queue"}
    [] kind = "k_seg" -> {"grant"}
    [] OTHER          -> {}

\* The application deletes the context only without queues and segments, and
\* uses it only once it exists; one call at a time works on an object.
MayCreate(o) == o \in Queues \cup Segs => obj[Ctx].phase = "live"
MayDelete(o) == o = Ctx => \A x \in Queues \cup Segs : obj[x].phase = "absent"

\* The phase of an object and what the call on it has still to do.
Continue(o, phase, todo, end) ==
  obj' = [obj EXCEPT ![o] = [phase |-> IF todo = <<>> THEN end ELSE phase,
                             todo |-> todo]]

Create(o) ==
  /\ obj[o].phase = "absent"
  /\ MayCreate(o)
  /\ Continue(o, "create", CreateSteps(o), "live")
  /\ UNCHANGED <<held, orphans>>

Acquire(o) ==
  /\ obj[o].phase = "create"
  /\ held' = held \cup {<<o, Head(obj[o].todo)>>}
  /\ Continue(o, "create", Tail(obj[o].todo), "live")
  /\ UNCHANGED orphans

\* An allocation, mapping or ioctl fails: the call jumps to its label.
Fail(o) ==
  /\ obj[o].phase = "create"
  /\ Continue(o, "unwind", Unwind(o, Head(obj[o].todo)), "absent")
  /\ UNCHANGED <<held, orphans>>

Delete(o) ==
  /\ obj[o].phase = "live"
  /\ MayDelete(o)
  /\ Continue(o, "delete", DeleteSteps(o), "absent")
  /\ UNCHANGED <<held, orphans>>

\* What the kernel or the UMMU library may refuse to release.
Refusable == KernelKinds \cup {"grant", "tid"}

Release(o) ==
  /\ obj[o].phase \in {"unwind", "delete"}
  /\ held' = held \ {<<o, Head(obj[o].todo)>>}
  /\ Continue(o, obj[o].phase, Tail(obj[o].todo), "absent")
  /\ UNCHANGED orphans

\* Mutant of ReleaseFails: the call returns and leaves the rest as it is.
ReleaseFailsReturns(o) ==
  /\ obj[o].phase \in {"unwind", "delete"}
  /\ LET kind == Head(obj[o].todo)
     IN  /\ kind \in Refusable
         /\ held' = held \ {<<o, kind>>}
  /\ orphans < MaxOrphans
  /\ orphans' = orphans + 1
  /\ Continue(o, obj[o].phase, <<>>, "absent")

\* A delete ioctl, ummu_ungrant or ummu_free_tid fails: logged or ignored, and
\* the memory behind a kernel object that lives on is freed all the same.
ReleaseFails(o) ==
  /\ obj[o].phase \in {"unwind", "delete"}
  /\ LET kind == Head(obj[o].todo)
     IN  /\ kind \in Refusable
         /\ held' = held \ {<<o, kind>>}
  /\ orphans < MaxOrphans
  /\ orphans' = orphans + 1
  /\ Continue(o, obj[o].phase, Tail(obj[o].todo), "absent")

\* One step of the call that works on an object.
Step(o) == Acquire(o) \/ Fail(o) \/ Release(o) \/ ReleaseFails(o)

LifeInit ==
  /\ obj = [o \in Objects |-> [phase |-> "absent", todo |-> <<>>]]
  /\ held = {}
  /\ orphans = 0

LifeNext == \E o \in Objects : Create(o) \/ Delete(o) \/ Step(o)

LifeSpec == LifeInit /\ [][LifeNext]_lifeVars
----------------------------------------------------------------------------
Kinds(o) == {r[2] : r \in {x \in held : x[1] = o}}

\* Nothing is leaked: after a failed create or a delete no resource of the
\* object is left, after a successful create all are there (the label each
\* failing step jumps to, through five nested functions for a queue), and a
\* release that fails does not keep the call from the ones after it.
NoLeak ==
  \A o \in Objects :
    /\ obj[o].phase = "absent" => Kinds(o) = {}
    /\ obj[o].phase = "live" => Kinds(o) = ToSet(CreateSteps(o))

\* Nothing is released that was not acquired, or released twice.
ReleasedOnce ==
  \A o \in Objects :
    obj[o].phase \in {"unwind", "delete"}
      => /\ ToSet(obj[o].todo) \ {"clean_jfc"} = Kinds(o)
         /\ IsInjective(obj[o].todo)

\* The device never works on memory that was given back: while a kernel object
\* exists, what its create ioctl handed to the kernel does too, in every order
\* of creation, unwinding and deletion.  Excepted are the kernel objects whose
\* delete ioctl failed: their memory is freed under them.
DeviceMemoryHeld ==
  \A o \in Objects :
    /\ \A kind \in Kinds(o) \cap KernelKinds : Needs(kind) \subseteq Kinds(o)
    /\ o # Ctx /\ Kinds(o) \cap KernelKinds # {} => {"k_ctx", "tid"} \subseteq Kinds(Ctx)

\* cdma_u_clean_jfc, called by cdma_u_delete_jfs, finds the completion queue and
\* its doorbell still there, and the JFS no longer completing into it unless its
\* delete ioctl failed.
CleanFindsJfc ==
  \A o \in Queues :
    obj[o].todo # <<>> /\ Head(obj[o].todo) = "clean_jfc"
      => /\ {"cq_buf", "cq_lock", "sw_db"} \subseteq Kinds(o)
         /\ "k_jfs" \notin Kinds(o)
----------------------------------------------------------------------------
(* Why the above hold: an inductive invariant *)

\* Every resource, and the cleaning of the JFC.
Kind == {"u_ctx", "page_mutex", "tid", "k_ctx", "jfc_db", "seg", "grant", "k_seg",
         "queue", "k_queue", "jfce", "jfce_fd", "jfc", "cq_lock", "cq_buf", "sw_db",
         "k_jfc", "tp", "k_tp", "jfs", "sq_lock", "sq_wrid", "sq_buf", "k_jfs", "sq_db",
         "clean_jfc"}

\* The first n - 1 elements of a sequence: what a create call holds at step n.
Before(seq, n) == {seq[i] : i \in 1..(n - 1)}

\* What must be there when a step is released, cleaning the JFC included.
Wants(kind) == IF kind = "clean_jfc" THEN {"cq_buf", "cq_lock", "sw_db"} ELSE Needs(kind)

\* Step x may be released while y is still to be.
MayPrecede(x, y) ==
  /\ x # y
  /\ x \notin Wants(y)
  /\ ~(x = "clean_jfc" /\ y = "k_jfs")

\* A sequence of releases that takes nothing from the ones behind.
InOrder(todo) == \A i, j \in 1..Len(todo) : i < j => MayPrecede(todo[i], todo[j])
Complete(S) == \A kind \in S : Wants(kind) \subseteq S

\* What a call relies on between two steps.
ObjInv(o) ==
  /\ obj[o].phase \in {"absent", "live"} => obj[o].todo = <<>>
  /\ obj[o].phase = "absent" => Kinds(o) = {}
  /\ obj[o].phase = "live" => Kinds(o) = ToSet(CreateSteps(o))
  /\ obj[o].phase = "create" =>
       \E n \in 1..Len(CreateSteps(o)) : /\ obj[o].todo = From(CreateSteps(o), n)
                                         /\ Kinds(o) = Before(CreateSteps(o), n)
  /\ obj[o].phase \in {"unwind", "delete"} =>
       /\ obj[o].todo # <<>>
       /\ InOrder(obj[o].todo)
       /\ Complete(ToSet(obj[o].todo))
       /\ ToSet(obj[o].todo) \ {"clean_jfc"} = Kinds(o)
  /\ Kinds(o) \subseteq ToSet(CreateSteps(o))

LifeTypeOK ==
  /\ obj \in [Objects -> [phase : {"absent", "create", "live", "unwind", "delete"},
                          todo : Seq(Kind)]]
  /\ held \subseteq Objects \X Kind

LifeInv ==
  /\ LifeTypeOK
  /\ \A o \in Objects : ObjInv(o)
  /\ \A o \in Queues \cup Segs : obj[o].phase # "absent" => obj[Ctx].phase = "live"
============================================================================
