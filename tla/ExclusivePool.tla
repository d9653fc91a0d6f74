---------------------------- MODULE ExclusivePool ----------------------------
(***************************************************************************)
(* The exclusive-page memory pool of cubecl-runtime                        *)
(* (memory_pool/exclusive_pool.rs) together with the parties that decide   *)
(* when its pages are free: tensors holding clones of a page's SliceHandle,*)
(* kernel launches whose binding keeps a clone until the device retires    *)
(* them, and the memory-management facade that counts reservations and    *)
(* calls cleanup.  The SliceHandle reference count, calculate_padding and  *)
(* the facade are not in the source tree; they are modelled from the      *)
(* design (spec sections 4.3, 5 and 9).                                    *)
(*                                                                         *)
(* A page is one record of the Vec `pages`; its slice id and its storage   *)
(* id are both `id` (each is fresh per page).  A reference to a page is    *)
(* [page |-> id, alloc |-> n], n being the reservation that produced it:   *)
(* clones of one reservation share n, two reservations never do.           *)
(***************************************************************************)
EXTENDS Naturals, Sequences, SequencesExt, FiniteSets

CONSTANTS
  Tensors,        \* callers that own SliceHandle clones
  Sizes,          \* request sizes in bytes
  Alignment,      \* ExclusiveMemoryPool.alignment
  MinAllocSize,   \* ExclusiveMemoryPool.min_alloc_size
  DeallocPeriod,  \* ExclusiveMemoryPool.dealloc_period
  MaxPageIds,     \* bound: coarse device allocations over a whole run
  MaxAllocNr,     \* bound: reservations counted by the facade
  MaxLaunches,    \* bound: kernels in flight on the device queue
  NoHandle        \* a tensor slot that holds no handle

ASSUME MinAllocSize % Alignment = 0          \* asserted by ExclusiveMemoryPool::new
ASSUME \A s \in Sizes : s >= MinAllocSize     \* requests are routed by handles_alloc

\* const ALLOC_AFTER_FREE: u32 = 5
ALLOC_AFTER_FREE == 5

VARIABLES
  pages,             \* Seq of [id, allocSize, size, padding, freeCount]
  biggestAlloc,      \* biggest_alloc
  lastDeallocCheck,  \* last_dealloc_check
  allocNr,           \* the facade's reservation counter, passed to cleanup
  nextId,            \* next fresh slice/storage id
  held,              \* [Tensors -> reference or NoHandle]
  inflight,          \* FIFO of references bound by launched, unretired kernels
  freeStreak         \* history: consecutive cleanup checks that found a page free

vars == <<pages, biggestAlloc, lastDeallocCheck, allocNr, nextId, held,
          inflight, freeStreak>>

PageIds == 1..MaxPageIds
Ref == [page : PageIds, alloc : 1..MaxAllocNr]

LiveIds(ps) == {ps[i].id : i \in DOMAIN ps}

(***************************************************************************)
(* SliceHandle reference counting: a slice is free when the pool's own     *)
(* clone is the only one left, i.e. no tensor and no in-flight binding     *)
(* holds a clone of it.                                                    *)
(***************************************************************************)
\* Fault variant: a launched kernel's binding holds no clone of the handle.
IsFreeIgnoringBindings(id) ==
  \A t \in Tensors : held[t] = NoHandle \/ held[t].page # id

IsFree(id) ==
  /\ \A t \in Tensors : held[t] = NoHandle \/ held[t].page # id
  /\ \A i \in DOMAIN inflight : inflight[i].page # id

\* Bytes past `size` up to the next multiple of the alignment.
CalculatePadding(size) == (Alignment - (size % Alignment)) % Alignment

NextMultipleOf(x, a) == IF x % a = 0 THEN x ELSE x + (a - (x % a))

\* ((size as f64 * 1.35).round() as u64).next_multiple_of(alignment):
\* f64::round rounds halves away from zero.
\* Fault variant: the over-allocated size is not rounded up to the alignment.
OverAllocSizeUnaligned(size) == (size * 135 + 50) \div 100

OverAllocSize(size) == NextMultipleOf((size * 135 + 50) \div 100, Alignment)

(***************************************************************************)
(* get_free_page: the smallest free page whose allocation fits; on ties    *)
(* min_by_key keeps the first in Vec order.  0 when there is none.        *)
(***************************************************************************)
GetFreePage(size) ==
  LET fits == {i \in DOMAIN pages : pages[i].allocSize >= size /\ IsFree(pages[i].id)}
  IN IF fits = {} THEN 0
     ELSE CHOOSE i \in fits :
            \A j \in fits : \/ pages[i].allocSize < pages[j].allocSize
                            \/ pages[i].allocSize = pages[j].allocSize /\ i <= j

\* try_reserve's choice of page: the fast reject on biggest_alloc, then get_free_page.
TryReservePage(size) == IF size > biggestAlloc THEN 0 ELSE GetFreePage(size)

\* try_reserve on page i: narrow the slice to size, recompute padding,
\* saturating-decrement free_count.
\* Fault variant: padding without the final modulo, a full alignment for
\* aligned sizes.
TryReservePaddingOffByOne(i, size) ==
  [pages EXCEPT ![i].size = size,
                ![i].padding = Alignment - (size % Alignment),
                ![i].freeCount = IF @ = 0 THEN 0 ELSE @ - 1]

TryReserve(i, size) ==
  [pages EXCEPT ![i].size = size,
                ![i].padding = CalculatePadding(size),
                ![i].freeCount = IF @ = 0 THEN 0 ELSE @ - 1]

\* alloc_page + alloc: a fresh page of the over-allocated size, its slice
\* narrowed to size, pushed at the end, free_count = ALLOC_AFTER_FREE - 1.
AllocPage(size) ==
  Append(pages, [id |-> nextId, allocSize |-> OverAllocSize(size), size |-> size,
                 padding |-> CalculatePadding(size),
                 freeCount |-> ALLOC_AFTER_FREE - 1])

\* Fault variant: biggest_alloc tracks the requested size, not the page size.
AllocTrackingRequest(size) ==
  /\ nextId <= MaxPageIds
  /\ pages' = AllocPage(size)
  /\ biggestAlloc' = IF size > biggestAlloc THEN size ELSE biggestAlloc
  /\ nextId' = nextId + 1

Alloc(size) ==
  /\ nextId <= MaxPageIds
  /\ pages' = AllocPage(size)
  /\ biggestAlloc' = IF OverAllocSize(size) > biggestAlloc THEN OverAllocSize(size)
                     ELSE biggestAlloc
  /\ nextId' = nextId + 1

(***************************************************************************)
(* The facade's reserve: count the reservation, try_reserve, and alloc a   *)
(* new page when try_reserve returns None.  The tensor receives the clone. *)
(***************************************************************************)
Reserve(t, size) ==
  LET i == TryReservePage(size)
      id == IF i # 0 THEN pages[i].id ELSE nextId
  IN /\ held[t] = NoHandle
     /\ allocNr < MaxAllocNr
     /\ allocNr' = allocNr + 1
     /\ \/ /\ i # 0
           /\ pages' = TryReserve(i, size)
           /\ UNCHANGED <<biggestAlloc, nextId>>
        \/ /\ i = 0
           /\ Alloc(size)
     /\ held' = [held EXCEPT ![t] = [page |-> id, alloc |-> allocNr + 1]]
     /\ UNCHANGED <<lastDeallocCheck, inflight, freeStreak>>

\* Cloning a tensor's handle: another owner of the same allocation.
CloneHandle(t, u) ==
  /\ held[t] # NoHandle
  /\ held[u] = NoHandle
  /\ held' = [held EXCEPT ![u] = held[t]]
  /\ UNCHANGED <<pages, biggestAlloc, lastDeallocCheck, allocNr, nextId, inflight, freeStreak>>

\* Dropping a tensor's clone.
DropHandle(t) ==
  /\ held[t] # NoHandle
  /\ held' = [held EXCEPT ![t] = NoHandle]
  /\ UNCHANGED <<pages, biggestAlloc, lastDeallocCheck, allocNr, nextId, inflight, freeStreak>>

\* get: the storage of the page whose slice id is the binding's id.
Get(ref) == SelectInSeq(pages, LAMBDA pg : pg.id = ref.page)

(***************************************************************************)
(* A kernel launch binds the tensor's slice: the dispatch boundary keeps a *)
(* clone until the device retires the kernel, which it does in issue       *)
(* order.                                                                  *)
(***************************************************************************)
Launch(t) ==
  /\ held[t] # NoHandle
  /\ Len(inflight) < MaxLaunches
  /\ inflight' = Append(inflight, held[t])
  /\ UNCHANGED <<pages, biggestAlloc, lastDeallocCheck, allocNr, nextId, held, freeStreak>>

Retire ==
  /\ inflight # <<>>
  /\ inflight' = Tail(inflight)
  /\ UNCHANGED <<pages, biggestAlloc, lastDeallocCheck, allocNr, nextId, held, freeStreak>>

(***************************************************************************)
(* cleanup(storage, alloc_nr): rate-limited by dealloc_period / 5; every   *)
(* free page gets free_count + 1 and is deallocated and dropped from the   *)
(* Vec once that reaches ALLOC_AFTER_FREE; pages in use are kept as they   *)
(* are.  freeStreak records how many checks in a row found a page free.   *)
(***************************************************************************)
Bumped(pg) == IF IsFree(pg.id) THEN [pg EXCEPT !.freeCount = @ + 1] ELSE pg

\* Fault variant: the free_count threshold alone decides, in use or not.
RetainedIgnoringUse(pg) == ~(pg.freeCount + 1 >= ALLOC_AFTER_FREE)

Retained(pg) == ~(IsFree(pg.id) /\ pg.freeCount + 1 >= ALLOC_AFTER_FREE)

Cleanup ==
  LET checkPeriod == DeallocPeriod \div ALLOC_AFTER_FREE
      kept == SelectSeq(pages, Retained)
  IN /\ allocNr - lastDeallocCheck >= checkPeriod
     /\ lastDeallocCheck' = allocNr
     /\ pages' = [k \in DOMAIN kept |-> Bumped(kept[k])]
     /\ freeStreak' = [p \in PageIds |->
                         IF p \notin LiveIds(pages) THEN freeStreak[p]
                         ELSE IF IsFree(p)
                              THEN IF freeStreak[p] < ALLOC_AFTER_FREE
                                   THEN freeStreak[p] + 1 ELSE freeStreak[p]
                              ELSE 0]
     /\ UNCHANGED <<biggestAlloc, allocNr, nextId, held, inflight>>

Init ==
  /\ pages = <<>>
  /\ biggestAlloc = MinAllocSize
  /\ lastDeallocCheck = 0
  /\ allocNr = 0
  /\ nextId = 1
  /\ held = [t \in Tensors |-> NoHandle]
  /\ inflight = <<>>
  /\ freeStreak = [p \in PageIds |-> 0]

Next ==
  \/ \E t \in Tensors, s \in Sizes : Reserve(t, s)
  \/ \E t, u \in Tensors : CloneHandle(t, u)
  \/ \E t \in Tensors : DropHandle(t)
  \/ \E t \in Tensors : Launch(t)
  \/ Retire
  \/ Cleanup

Spec == Init /\ [][Next]_vars

-----------------------------------------------------------------------------
(* Properties *)

TypeOK ==
  /\ pages \in Seq([id : PageIds, allocSize : Nat, size : Sizes,
                    padding : 0..(Alignment - 1), freeCount : 0..ALLOC_AFTER_FREE])
  /\ biggestAlloc \in Nat
  /\ allocNr \in 0..MaxAllocNr
  /\ lastDeallocCheck \in 0..allocNr
  /\ nextId \in 1..(MaxPageIds + 1)
  /\ held \in [Tensors -> Ref \cup {NoHandle}]
  /\ inflight \in Seq(Ref)
  /\ freeStreak \in [PageIds -> 0..ALLOC_AFTER_FREE]

HeldRefs == {held[t] : t \in {u \in Tensors : held[u] # NoHandle}}
AllRefs == HeldRefs \cup Range(inflight)

NoUseAfterFree ==
  \A r \in AllRefs : Get(r) # 0

\* Every slice fits its page: the utilization window plus its alignment
\* padding stays within the page's allocation, both for the page alloc
\* creates (1.35x over-allocation, rounded, aligned) and for every later
\* reuse of it by try_reserve.
SliceFitsPage ==
  \A i \in DOMAIN pages : pages[i].size + pages[i].padding <= pages[i].allocSize

\* Reuse before allocation: the facade allocates a new device page only when
\* no free page in the pool could hold the request, so the fast reject on
\* biggest_alloc in try_reserve never turns away a request a free page fits.
NoAllocWhileFreeFits ==
  [][nextId' # nextId =>
       ~\E i \in DOMAIN pages :
           /\ IsFree(pages[i].id)
           /\ pages[i].allocSize >= pages'[Len(pages')].size]_vars

\* Cleanup hysteresis (spec 4.2 and 8): cleanup deallocates a page only once
\* ALLOC_AFTER_FREE consecutive cleanup checks, this one included, found it
\* free.
CleanupHysteresis ==
  [][\A i \in DOMAIN pages :
       pages[i].id \notin LiveIds(pages') =>
           freeStreak[pages[i].id] + 1 >= ALLOC_AFTER_FREE]_vars


(***************************************************************************)
(* Refinement: the pool, with the facade, tensors and in-flight bindings,  *)
(* implements Allocator.  A page's storage is owned by the reservation of  *)
(* the references that point at it, and the reservations granted are the  *)
(* facade's counter values so far.                                        *)
(***************************************************************************)
Owner(p) ==
  IF \E r \in AllRefs : r.page = p THEN (CHOOSE r \in AllRefs : r.page = p).alloc ELSE 0

AbstractAllocator ==
  INSTANCE Allocator WITH Ids <- PageIds, Allocs <- 1..MaxAllocNr, Unowned <- 0,
    storage <- LiveIds(pages), owner <- [p \in PageIds |-> Owner(p)],
    granted <- 1..allocNr

\* The pool refines Allocator: every reservation, clone, drop, launch,
\* retirement and cleanup of the code is a step of Allocator or leaves its
\* state alone.  So try_reserve only hands out a page no earlier
\* reservation still references, a reservation's page never changes or
\* passes to another reservation while referenced, and cleanup only
\* deallocates pages nobody references.
RefinesAllocator == AbstractAllocator!Spec

=============================================================================
