------------------------------ MODULE KernelId ------------------------------
(***************************************************************************)
(* Kernel identity (cubecl-common id.rs) and the compiled-kernel caches    *)
(* keyed by it (spec 4.4, 4.6, 6): the server's in-memory cache, a hash    *)
(* map looked up by KernelId's Hash and PartialEq, and the persistent      *)
(* cache of a collaborator keyed by stable_format, which survives a        *)
(* restart of the process.  The caches are not under src/ and are          *)
(* modelled from the spec.                                                 *)
(*                                                                         *)
(* An id is [type, info, mode]: info is None or a payload of one concrete  *)
(* type with a value, mode is None or an ExecutionMode.  A compiled kernel *)
(* is represented by the id it was compiled for.                           *)
(***************************************************************************)
EXTENDS FiniteSets

CONSTANTS
  KernelTypes,    \* the static types T of KernelId::new::<T>()
  TypeName,       \* [KernelTypes -> names]: core::any::type_name::<T>()
  PayloadTypes,   \* concrete types of info payloads
  PayloadValues,  \* payload values; Debug renders a value without its type
  Modes,          \* ExecutionMode variants
  None,           \* Option::None
  Persistent      \* whether a persistent cache keyed by stable_format is used

Payloads == [ptype : PayloadTypes, value : PayloadValues]
Infos == {None} \cup Payloads

\* KernelId::new::<T>(): no info and no mode.
New(t) == [type |-> t, info |-> None, mode |-> None]

\* KernelId::info: the payload becomes Some(Info::new(payload)).
WithInfo(id, payload) == [id EXCEPT !.info = payload]

\* KernelId::mode: the mode becomes Some(mode).
WithMode(id, mode) == [id EXCEPT !.mode = mode]

\* The ids a kernel can build: new, then info and mode if it calls them.
Ids ==
  LET built == {New(t) : t \in KernelTypes} \cup
               {WithInfo(New(t), i) : t \in KernelTypes, i \in Payloads}
  IN built \cup {WithMode(id, m) : id \in built, m \in Modes}

\* dyn_eq: equal only with the same concrete type and equal values.
DynEq(i1, i2) == i1.ptype = i2.ptype /\ i1.value = i2.value

\* Option<Info> equality, Info::eq delegating to dyn_eq.
InfoEq(i1, i2) ==
  IF i1 = None \/ i2 = None THEN i1 = i2 ELSE DynEq(i1, i2)

\* PartialEq for KernelId.
KernelEq(a, b) == a.type = b.type /\ a.mode = b.mode /\ InfoEq(a.info, b.info)

\* Hash for KernelId: type_id, then info (dyn_type_id and the value's own
\* hash), then mode.  The hash is kept as the tuple it is computed from.
KernelHash(a) ==
  <<a.type, IF a.info = None THEN None ELSE <<a.info.ptype, a.info.value>>, a.mode>>

\* Fault variant: the rendering leaves out the execution mode.
StableFormatWithoutMode(a) ==
  <<TypeName[a.type], IF a.info = None THEN None ELSE a.info.value, None>>

\* stable_format: "{type_name}-{info:?}-{mode:?}".  Info's Debug prints the
\* payload value alone.  The separators keep the three parts apart, so the
\* string is the tuple of the parts.
StableFormat(a) ==
  <<TypeName[a.type], IF a.info = None THEN None ELSE a.info.value, a.mode>>

VARIABLES
  memCache,   \* set of [key, binary]: the server's in-memory cache
  diskCache,  \* set of [key, binary] with a stable_format key: the persistent cache
  served      \* the last launch: [request, binary], or None

vars == <<memCache, diskCache, served>>

Init ==
  /\ memCache = {}
  /\ diskCache = {}
  /\ served = None

MemHit(id) == {e \in memCache : KernelHash(e.key) = KernelHash(id) /\ KernelEq(e.key, id)}
DiskHit(id) == {e \in diskCache : e.key = StableFormat(id)}

\* Launching a kernel: the in-memory cache first, then the persistent one,
\* and compiling only when neither has it.
Launch(id) ==
  \/ /\ MemHit(id) # {}
     /\ served' = [request |-> id, binary |-> (CHOOSE e \in MemHit(id) : TRUE).binary]
     /\ UNCHANGED <<memCache, diskCache>>
  \/ /\ MemHit(id) = {}
     /\ Persistent /\ DiskHit(id) # {}
     /\ LET bin == (CHOOSE e \in DiskHit(id) : TRUE).binary
        IN /\ served' = [request |-> id, binary |-> bin]
           /\ memCache' = memCache \cup {[key |-> id, binary |-> bin]}
     /\ UNCHANGED diskCache
  \/ /\ MemHit(id) = {}
     /\ ~(Persistent /\ DiskHit(id) # {})
     /\ served' = [request |-> id, binary |-> id]
     /\ memCache' = memCache \cup {[key |-> id, binary |-> id]}
     /\ diskCache' = IF Persistent
                     THEN diskCache \cup {[key |-> StableFormat(id), binary |-> id]}
                     ELSE diskCache

\* The process ends and starts again: only the persistent cache survives.
Restart ==
  /\ memCache' = {}
  /\ served' = None
  /\ UNCHANGED diskCache

Next == (\E id \in Ids : Launch(id)) \/ Restart

Spec == Init /\ [][Next]_vars

-----------------------------------------------------------------------------

TypeOK ==
  /\ memCache \subseteq [key : Ids, binary : Ids]
  /\ \A e \in diskCache : e.binary \in Ids
  /\ served \in {None} \cup [request : Ids, binary : Ids]

\* Every launch runs a kernel compiled for the same kernel type, payload
\* type, payload value and mode as requested (spec 4.4: the cache key
\* differentiates kernel variants), whether it comes from the in-memory
\* cache, the persistent cache keyed by stable_format, or a fresh
\* compilation.
ServedKernelMatches ==
  served # None => served.binary = served.request

=============================================================================
