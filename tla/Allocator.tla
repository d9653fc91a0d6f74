------------------------------ MODULE Allocator ------------------------------
(***************************************************************************)
(* What the memory-management facade with an exclusive pool promises its   *)
(* callers (spec 4.2, 4.3 and 8): every reservation gets a storage of its  *)
(* own, which it keeps, unshared, until no handle or binding of it is      *)
(* left; only storage nobody owns is reused for a new reservation or       *)
(* deallocated.  Reservations are numbered and a number is granted once.   *)
(***************************************************************************)
EXTENDS FiniteSets

CONSTANTS
  Ids,       \* storage ids
  Allocs,    \* reservation numbers
  Unowned    \* the owner of a storage no reservation holds

VARIABLES
  storage,   \* the allocated storage ids
  owner,     \* [Ids -> Allocs \cup {Unowned}]
  granted    \* the reservations made so far

vars == <<storage, owner, granted>>

Init ==
  /\ storage = {}
  /\ owner = [s \in Ids |-> Unowned]
  /\ granted = {}

\* A new reservation r takes storage s that nobody owns, allocating it if
\* it does not exist yet.
Acquire(s, r) ==
  /\ r \notin granted
  /\ owner[s] = Unowned
  /\ storage' = storage \cup {s}
  /\ owner' = [owner EXCEPT ![s] = r]
  /\ granted' = granted \cup {r}

\* The last handle or binding of the reservation owning s is gone.
Release(s) ==
  /\ owner[s] # Unowned
  /\ owner' = [owner EXCEPT ![s] = Unowned]
  /\ UNCHANGED <<storage, granted>>

\* Storage nobody owns is given back to the device, several at once.
Free ==
  /\ \E s \in storage : owner[s] = Unowned
  /\ storage' \in SUBSET storage \ {storage}
  /\ \A s \in storage \ storage' : owner[s] = Unowned
  /\ UNCHANGED <<owner, granted>>

Next ==
  \/ \E s \in Ids, r \in Allocs : Acquire(s, r)
  \/ \E s \in Ids : Release(s)
  \/ Free

Spec == Init /\ [][Next]_vars

=============================================================================
