-------------------------- MODULE LRUBufferProofs --------------------------
(***************************************************************************)
(* Proofs about LRUBuffer for every set of pages, capacity and bound on    *)
(* pins.                                                                   *)
(***************************************************************************)
EXTENDS LRUBuffer, FiniteSetTheorems, TLAPS

\* The cache: what is dirty, held or pinned is in it, and a clean page equals
\* the engine's copy
CacheOK ==
    /\ dirty \subseteq cached
    /\ WritableIsCached
    /\ CleanMatchesDisk

\* The call in progress: a make_room takes out unpinned pages other than the
\* one it loads, exactly as many as bring the cache back to its capacity; a
\* flush has still to write every dirty page of its files
JobOK ==
    /\ pc = "idle" => victims = {} /\ todo = {}
    /\ pc = "evict" =>
          /\ held = NoKey
          /\ target \in cached \ victims
          /\ victims \subseteq cached
          /\ \A v \in victims : pins[v] = 0
          /\ todo = victims \cap dirty
          /\ Cardinality(cached) - Cardinality(victims) = Capacity
    /\ pc = "flush" =>
          /\ victims = {}
          /\ todo = { k \in dirty : k[1] \in scope }

IInv == TypeOK /\ CacheOK /\ JobOK

-----------------------------------------------------------------------------
(* Cardinalities *)

\* The cache holds finitely many pages, one more after a load
LEMMA CachedFinite ==
  ASSUME TypeOK
  PROVE  /\ IsFiniteSet(cached)
         /\ Cardinality(cached) \in Nat
         /\ \A k \in Key \ cached : Cardinality(cached \cup {k}) = Cardinality(cached) + 1
<1>1. IsFiniteSet(cached)
  BY KeyAssumption, FS_Subset DEF TypeOK
<1>2. QED
  BY <1>1, FS_CardinalityType, FS_AddElement

\* What _make_room may choose from, and what it chooses
LEMMA VictimsFacts ==
  ASSUME TypeOK, NEW k \in Key \ cached, NEW V \in Victims(k)
  PROVE  /\ V \subseteq cached
         /\ k \notin V
         /\ \A v \in V : pins[v] = 0
         /\ Cardinality(V) = Cardinality(cached) + 1 - Capacity
<1>1. Cardinality(cached \cup {k}) = Cardinality(cached) + 1
  BY CachedFinite
<1>2. V \subseteq Evictable(k) /\ Cardinality(V) = Overflow(k)
  BY DEF Victims
<1>3. Cardinality(V) = Cardinality(cached) + 1 - Capacity
  BY <1>1, <1>2, CachedFinite, CapacityAssumption DEF Overflow
<1>4. QED
  BY <1>2, <1>3 DEF Evictable

-----------------------------------------------------------------------------
(* The inductive invariant *)

LEMMA InitIInv == Init => IInv
<1> SUFFICES ASSUME Init PROVE IInv
  OBVIOUS
<1>1. TypeOK
  BY ContentsAssumption DEF Init, TypeOK
<1>2. CacheOK
  BY DEF Init, CacheOK, WritableIsCached, CleanMatchesDisk
<1>3. JobOK
  BY DEF Init, JobOK
<1>4. QED
  BY <1>1, <1>2, <1>3 DEF IInv

\* Every action, and a step that changes nothing, keeps the invariant
LEMMA NextIInv == IInv /\ [Next]_vars => IInv'
<1> SUFFICES ASSUME IInv, [Next]_vars PROVE IInv'
  OBVIOUS
<1> USE DEF IInv, TypeOK, CacheOK, JobOK, WritableIsCached, CleanMatchesDisk
<1>1. ASSUME NEW k \in Key, Hit(k) PROVE IInv'
  BY <1>1 DEF Hit, MoveToEnd, job
<1>2. ASSUME NEW k \in Key, MissWithRoom(k) PROVE IInv'
  BY <1>2 DEF MissWithRoom, Load, job
<1>3. ASSUME NEW k \in Key, MissEvicting(k) PROVE IInv'
  <2>1. PICK V \in Victims(k) : victims' = V /\ todo' = V \cap dirty
    BY <1>3 DEF MissEvicting
  <2>2. /\ V \subseteq cached
        /\ k \notin V
        /\ \A v \in V : pins[v] = 0
        /\ Cardinality(V) = Cardinality(cached) + 1 - Capacity
    BY <1>3, <2>1, VictimsFacts DEF MissEvicting
  <2>3. Cardinality(cached') = Cardinality(cached) + 1 /\ Cardinality(cached) \in Nat
    BY <1>3, CachedFinite DEF MissEvicting, Load
  <2>4. TypeOK' /\ CacheOK'
    BY <1>3, <2>1, <2>2, Zenon DEF MissEvicting, Load
  <2>5. JobOK'
    BY <1>3, <2>1, <2>2, <2>3, CapacityAssumption DEF MissEvicting, Load
  <2>6. QED
    BY <2>4, <2>5
<1>4. ASSUME NEW k \in Key, MissAllPinned(k) PROVE IInv'
  BY <1>4 DEF MissAllPinned, Load, job
<1>5. ASSUME Evicted PROVE IInv'
  <2>1. TypeOK'
    BY <1>5, ContentsAssumption DEF Evicted, Forget
  <2>2. CacheOK' /\ JobOK'
    BY <1>5, NoKeyAssumption DEF Evicted
  <2>3. QED
    BY <2>1, <2>2
<1>6. ASSUME WriteNext PROVE IInv'
  <2>1. PICK k \in todo :
           /\ disk' = [disk EXCEPT ![k] = data[k]]
           /\ dirty' = dirty \ {k}
           /\ todo' = todo \ {k}
    BY <1>6 DEF WriteNext
  <2>2. k \in dirty /\ k \in Key
    BY <1>6, <2>1 DEF WriteNext
  <2>3. QED
    BY <1>6, <2>1, <2>2 DEF WriteNext
<1>7. ASSUME WriteFails PROVE IInv'
  BY <1>7 DEF WriteFails, cache
<1>8. ASSUME NEW F \in {Files} \cup {{f} : f \in Files}, Flush(F) PROVE IInv'
  <2>1. F \subseteq Files
    OBVIOUS
  <2>2. QED
    BY <1>8, <2>1 DEF Flush, cache
<1>9. ASSUME Flushed PROVE IInv'
  BY <1>9 DEF Flushed, cache
<1>10. ASSUME NEW k \in Key, NEW c \in Contents, Modify(k, c) PROVE IInv'
  <2>1. k \in cached
    BY <1>10, NoKeyAssumption DEF Modify
  <2>2. QED
    BY <1>10, <2>1 DEF Modify, job
<1>11. ASSUME Pin PROVE IInv'
  BY <1>11 DEF Pin, job
<1>12. ASSUME NEW k \in Key, Unpin(k) PROVE IInv'
  BY <1>12 DEF Unpin, job
<1>13. ASSUME Crash PROVE IInv'
  BY <1>13, ContentsAssumption DEF Crash
<1>14. ASSUME UNCHANGED vars PROVE IInv'
  BY <1>14 DEF vars
<1>15. QED
  BY <1>1, <1>2, <1>3, <1>4, <1>5, <1>6, <1>7, <1>8, <1>9, <1>10, <1>11, <1>12, <1>13, <1>14
  DEF Next, Get

\* The invariant holds in every state
LEMMA Invariance == Spec => []IInv
  BY InitIInv, NextIInv, PTL DEF Spec

-----------------------------------------------------------------------------
(* The theorems *)

\* Every variable keeps its type: in particular pin counts never go below
\* zero, and pages only hold contents that were written
THEOREM TypeCorrect == Spec => []TypeOK
  BY Invariance, PTL DEF IInv

\* A cached page that is not marked dirty equals the engine's copy
THEOREM CleanPagesMatchDisk == Spec => []CleanMatchesDisk
  BY Invariance, PTL DEF IInv, CacheOK

\* The page a get returned and the pinned pages stay in the cache
THEOREM WritablePagesStayCached == Spec => []WritableIsCached
  BY Invariance, PTL DEF IInv, CacheOK

\* A get that loads a page returns only with the cache within its capacity
THEOREM CapacityRestored == Spec => GetRestoresCapacity
<1>1. IInv /\ [Next]_vars => [MissReturnsInBounds]_vars
  <2> SUFFICES ASSUME IInv, Next PROVE MissReturnsInBounds
    BY DEF vars
  <2> USE DEF MissReturnsInBounds
  <2>1. ASSUME NEW k \in Key, MissWithRoom(k) PROVE MissReturnsInBounds
    <3>1. Cardinality(cached \cup {k}) <= Capacity
      BY <2>1, CachedFinite, CapacityAssumption DEF MissWithRoom, Overflow, IInv
    <3>2. QED
      BY <2>1, <3>1 DEF MissWithRoom, Load
  <2>2. ASSUME Evicted PROVE MissReturnsInBounds
    <3>1. victims \subseteq cached /\ Cardinality(cached) - Cardinality(victims) = Capacity
      BY <2>2 DEF Evicted, IInv, JobOK
    <3>2. IsFiniteSet(cached) /\ IsFiniteSet(victims)
      BY <3>1, CachedFinite, FS_Subset DEF IInv
    <3>3. cached \cap victims = victims
      BY <3>1
    <3>4. Cardinality(cached \ victims) = Cardinality(cached) - Cardinality(victims)
      BY <3>2, <3>3, FS_Difference
    <3>5. QED
      BY <2>2, <3>1, <3>4, CapacityAssumption DEF Evicted
  <2>3. ASSUME NEW k \in Key, Hit(k) \/ MissEvicting(k) \/ MissAllPinned(k)
        PROVE  MissReturnsInBounds
    BY <2>3, NoKeyAssumption DEF Hit, MissEvicting, MissAllPinned, Load, IInv, TypeOK
  <2>4. ASSUME WriteNext \/ WriteFails \/ Flushed \/ Pin \/ Crash
        PROVE  MissReturnsInBounds
    BY <2>4 DEF WriteNext, WriteFails, Flushed, Pin, Crash, cache
  <2>5. ASSUME NEW F, Flush(F) PROVE MissReturnsInBounds
    BY <2>5 DEF Flush, cache
  <2>6. ASSUME NEW k \in Key, NEW c \in Contents, Modify(k, c) \/ Unpin(k)
        PROVE  MissReturnsInBounds
    BY <2>6 DEF Modify, Unpin, job
  <2>7. QED
    BY <2>1, <2>2, <2>3, <2>4, <2>5, <2>6, ContentsAssumption DEF Next, Get
<1>2. QED
  BY <1>1, Invariance, PTL DEF Spec, GetRestoresCapacity

\* A flush that returns leaves nothing of its files only in memory
THEOREM FlushDurable == Spec => FlushMakesDurable
<1>1. IInv /\ [Next]_vars => [FlushReturnsDurable]_vars
  <2> SUFFICES ASSUME IInv, Next, pc = "flush", pc' = "idle", ~raised',
                      NEW k \in Key, k[1] \in scope
               PROVE  View[k] = disk[k]
    BY DEF FlushReturnsDurable, vars
  <2>1. Flushed
    BY DEF Next, Get, Hit, MissWithRoom, MissEvicting, MissAllPinned, Evicted, WriteNext,
           WriteFails, Flush, Modify, Pin, Unpin, Crash, job
  <2>2. k \notin dirty
    BY <2>1 DEF Flushed, IInv, JobOK
  <2>3. QED
    BY <2>2 DEF IInv, CacheOK, CleanMatchesDisk, View
<1>2. QED
  BY <1>1, Invariance, PTL DEF Spec, FlushMakesDurable

-----------------------------------------------------------------------------
(* The buffer implements the page store *)

\* Only a Modify, a write-back and a crash are visible in the page store:
\* loading a page, evicting it, pinning and failing are not
LEMMA StepRefinement == IInv /\ [Next]_vars => [Store!Next]_(Store!vars)
<1> SUFFICES ASSUME IInv, [Next]_vars PROVE [Store!Next]_(Store!vars)
  OBVIOUS
<1> USE DEF Store!vars, View, IInv, TypeOK
<1>1. ASSUME NEW k \in Key, Hit(k) PROVE UNCHANGED Store!vars
  BY <1>1 DEF Hit
<1>2. ASSUME NEW k \in Key, MissWithRoom(k) \/ MissEvicting(k) \/ MissAllPinned(k)
      PROVE UNCHANGED Store!vars
  <2>1. k \notin cached /\ Load(k)
    BY <1>2 DEF MissWithRoom, MissEvicting, MissAllPinned
  <2>2. QED
    BY <2>1 DEF Load
<1>3. ASSUME Evicted PROVE UNCHANGED Store!vars
  <2>1. \A k \in victims : k \in cached \ dirty /\ data[k] = disk[k]
    BY <1>3 DEF Evicted, CacheOK, JobOK, CleanMatchesDisk
  <2>2. QED
    BY <1>3, <2>1 DEF Evicted
<1>4. ASSUME WriteNext PROVE Store!Next
  <2>1. PICK k \in todo : disk' = [disk EXCEPT ![k] = data[k]]
    BY <1>4 DEF WriteNext
  <2>2. k \in Key /\ k \in cached
    BY <1>4, <2>1 DEF WriteNext, JobOK, CacheOK
  <2>3. Store!Harden(k)
    BY <1>4, <2>1, <2>2, ZenonT(30) DEF WriteNext, Store!Harden
  <2>4. QED
    BY <2>2, <2>3 DEF Store!Next
<1>5. ASSUME NEW k \in Key, NEW c \in Contents, Modify(k, c) PROVE Store!Next
  <2>1. k \in cached
    BY <1>5, NoKeyAssumption DEF Modify, CacheOK, WritableIsCached
  <2>2. Store!Write(k, c)
    BY <1>5, <2>1 DEF Modify, Store!Write
  <2>3. QED
    BY <2>2 DEF Store!Next
<1>6. ASSUME Crash PROVE Store!Next
  <2>1. Store!Restart
    BY <1>6 DEF Crash, Store!Restart
  <2>2. QED
    BY <2>1 DEF Store!Next
<1>7. ASSUME WriteFails \/ Flushed \/ Pin PROVE UNCHANGED Store!vars
  BY <1>7 DEF WriteFails, Flushed, Pin, cache
<1>8. ASSUME NEW F, Flush(F) PROVE UNCHANGED Store!vars
  BY <1>8 DEF Flush, cache
<1>9. ASSUME NEW k \in Key, Unpin(k) PROVE UNCHANGED Store!vars
  BY <1>9 DEF Unpin
<1>10. ASSUME UNCHANGED vars PROVE UNCHANGED Store!vars
  BY <1>10 DEF vars
<1>11. QED
  BY <1>1, <1>2, <1>3, <1>4, <1>5, <1>6, <1>7, <1>8, <1>9, <1>10 DEF Next, Get

\* The buffer loses no write and invents no content, whatever it evicts,
\* fails on or forgets in a crash
THEOREM Refinement == Spec => ImplementsPageStore
<1>1. Init => Store!Init
  BY DEF Init, Store!Init, View
<1>2. QED
  BY <1>1, StepRefinement, Invariance, PTL DEF Spec, ImplementsPageStore, Store!Spec
=============================================================================
