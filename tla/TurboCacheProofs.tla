-------------------------- MODULE TurboCacheProofs --------------------------
(***************************************************************************)
(* The allocator never hands a live slot out twice and never loses a slab,  *)
(* for every number of buckets and slabs, every slab size and every window. *)
(* Inv is inductive; each of its conjuncts is needed by another: a pop is   *)
(* safe because the stack is sound, the stack is sound after a reclaim      *)
(* because a slab has one user, and a slab that is taken over has room      *)
(* because its place matches its bitmap and its counter.                    *)
(***************************************************************************)
EXTENDS TurboCache, FiniteSetTheorems, TLAPS

\* A slab not made yet has nothing in it.
UnmadeEmpty == \A s \in Slabs : s >= all_slabs => occupied[s] = {}

Inv ==
  /\ TypeOK /\ NoPanic /\ LocalSound /\ SlabPlacedOnce
  /\ PlaceMatchesRoom /\ CountMatches /\ UnmadeEmpty

USE TurboAssumption

-----------------------------------------------------------------------------
(* Facts about sets of slots *)

\* Every set of slots is finite, and its size tells whether it is empty.
LEMMA SlotSets ==
  ASSUME NEW S \in SUBSET Slots
  PROVE  /\ IsFiniteSet(S) /\ Cardinality(S) \in Nat
         /\ Cardinality(S) = 0 <=> S = {}
<1>1. IsFiniteSet(Slots)
  BY FS_Interval DEF Slots
<1>2. IsFiniteSet(S)
  BY <1>1, FS_Subset
<1> QED
  BY <1>2, FS_CardinalityType, FS_EmptySet

\* A slot more in use is a free slot less.
LEMMA OneLess ==
  ASSUME NEW U \in SUBSET Slots, NEW i \in Slots, i \notin U
  PROVE  Cardinality(Slots \ (U \cup {i})) = Cardinality(Slots \ U) - 1
<1>1. Slots \ (U \cup {i}) = (Slots \ U) \ {i}
  OBVIOUS
<1>2. IsFiniteSet(Slots \ U) /\ i \in Slots \ U
  BY SlotSets
<1>3. Cardinality((Slots \ U) \ {i}) = Cardinality(Slots \ U) - 1
  BY <1>2, FS_RemoveElement, Zenon
<1> QED
  BY <1>1, <1>3

\* The slots a reclaim takes back add up with those that were free.
LEMMA SumOfFree ==
  ASSUME NEW U \in SUBSET Slots, NEW O \in SUBSET U
  PROVE  Cardinality(Slots \ (U \ O)) = Cardinality(Slots \ U) + Cardinality(O)
<1>1. Slots \ (U \ O) = (Slots \ U) \cup O /\ (Slots \ U) \cap O = {}
  OBVIOUS
<1>2. IsFiniteSet(Slots \ U) /\ IsFiniteSet(O)
  BY SlotSets
<1>3. Cardinality(Slots \ U) \in Nat /\ Cardinality(O) \in Nat /\ Cardinality({}) = 0
  BY SlotSets, FS_EmptySet
<1> QED
  BY <1>1, <1>2, <1>3, FS_Union

\* The number of free slots of a new slab.
LEMMA AllFree == Cardinality(Slots \ {}) = PerSlab
<1>1. Cardinality(0 .. PerSlab - 1) = PerSlab
  BY FS_Interval
<1> QED
  BY <1>1 DEF Slots

LEMMA InitInv == Init => Inv
<1> SUFFICES ASSUME Init PROVE Inv
  OBVIOUS
<1>1. TypeOK
  <2>1. EmptyBagOf(Slots) \in [Slots -> Nat] /\ EmptyBagOf(Slabs) \in [Slabs -> Nat]
    BY DEF EmptyBagOf
  <2>2. /\ remote \in [Slabs -> [Slots -> Nat]]
        /\ local_stack \in [Cpus -> [Slots -> Nat]]
    BY <2>1 DEF Init
  <2>3. /\ occupied \in [Slabs -> SUBSET Slots] /\ free_count \in [Slabs -> Int]
        /\ owner_cpu \in [Slabs -> Cpus \cup {Nobody}]
        /\ partial \in [Cpus -> Slabs \cup {NoSlab}]
    BY DEF Init
  <2>4. /\ all_slabs \in 0 .. MaxSlabs /\ held \subseteq Indices
        /\ shared_partial \in [Slabs -> Nat] /\ full_slabs \in [Slabs -> Nat]
        /\ lock \in Cpus \cup {Nobody}
    BY <2>1 DEF Init
  <2>5. panicked \in BOOLEAN
    BY DEF Init
  <2> QED
    BY <2>2, <2>3, <2>4, <2>5 DEF TypeOK
<1>2. NoPanic /\ LocalSound /\ UnmadeEmpty
  BY DEF Init, NoPanic, LocalSound, UnmadeEmpty, EmptyBagOf
<1>3. SlabPlacedOnce /\ PlaceMatchesRoom
  <2>1. \A s \in Slabs : s \in Nat /\ s # NoSlab
    BY DEF Slabs
  <2>2. \A s \in Slabs : Users(s) = {}
    BY <2>1 DEF Init, Users
  <2> QED
    BY <2>1, <2>2 DEF Init, SlabPlacedOnce, PlaceMatchesRoom, EmptyBagOf, Slabs
<1>4. CountMatches
  BY AllFree DEF Init, CountMatches, FreeSlots
<1> QED
  BY <1>1, <1>2, <1>3, <1>4 DEF Inv

-----------------------------------------------------------------------------
(* alloc *)

\* What holds when a slot i of slab s is about to be marked for bucket c.
Ready(c, s, i, stack) ==
  /\ i \notin occupied[s]
  /\ stack \in [Slots -> {0, 1}] /\ stack[i] = 1
  /\ \A j \in Slots : stack[j] = 1 => j \notin occupied[s]
  /\ partial[c] \in {s, NoSlab}
  /\ \A d \in Cpus \ {c} : partial[d] # s
  /\ full_slabs[s] = 0

\* What the step that surrounds AllocInSlab does: s is made, leaves the shared
\* list, and no other slab changes place.
Surroundings(s) ==
  /\ all_slabs' \in 0 .. MaxSlabs /\ all_slabs' >= all_slabs /\ s < all_slabs'
  /\ \A x \in Slabs \ {s} : x < all_slabs' <=> x < all_slabs
  /\ shared_partial' \in [Slabs -> Nat] /\ shared_partial'[s] = 0
  /\ \A x \in Slabs \ {s} : shared_partial'[x] = shared_partial[x]
  /\ owner_cpu' \in [Slabs -> Cpus \cup {Nobody}]
  /\ remote' \in [Slabs -> [Slots -> Nat]]

\* Marking a slot that is ready keeps the invariant.
LEMMA MarkInv ==
  ASSUME Inv, NEW c \in Cpus, NEW s \in Slabs, NEW i \in Slots, NEW stack,
         Ready(c, s, i, stack), Surroundings(s), AllocInSlab(c, s, i, stack)
  PROVE  Inv'
<1> USE DEF Inv
<1>0. /\ s \in Nat /\ s # NoSlab /\ i \notin occupied[s]
      /\ \A x \in Slabs : x \in Nat /\ x # NoSlab
  BY DEF Slabs, Ready
<1>1. /\ occupied' = [occupied EXCEPT ![s] = @ \cup {i}]
      /\ free_count' = [free_count EXCEPT ![s] = @ - 1]
      /\ local_stack' = [local_stack EXCEPT ![c] = Pop(stack, i)]
      /\ lock' = Nobody /\ held' = held /\ panicked' = panicked
  BY <1>0 DEF AllocInSlab
<1>2. \/ /\ free_count[s] - 1 = 0
         /\ partial' = [partial EXCEPT ![c] = NoSlab]
         /\ full_slabs' = Put(full_slabs, s)
      \/ /\ free_count[s] - 1 # 0
         /\ partial' = [partial EXCEPT ![c] = s]
         /\ full_slabs' = full_slabs
  BY <1>0 DEF AllocInSlab
<1>3. /\ Pop(stack, i) \in [Slots -> {0, 1}] /\ Pop(stack, i)[i] = 0
      /\ \A j \in Slots : Pop(stack, i)[j] = 1 => j # i /\ j \notin occupied[s]
  BY DEF Pop, Ready
<1>4. Put(full_slabs, s) \in [Slabs -> Nat]
  BY DEF Put, TypeOK
<1>5. TypeOK'
  <2>1. /\ occupied' \in [Slabs -> SUBSET Slots]
        /\ free_count' \in [Slabs -> Int]
        /\ held' \subseteq Indices /\ lock' \in Cpus \cup {Nobody} /\ panicked' \in BOOLEAN
    BY <1>1 DEF TypeOK
  <2>2. local_stack' \in [Cpus -> [Slots -> Nat]]
    BY <1>1, <1>3 DEF TypeOK
  <2>3. partial' \in [Cpus -> Slabs \cup {NoSlab}] /\ full_slabs' \in [Slabs -> Nat]
    BY <1>2, <1>4 DEF TypeOK
  <2> QED
    BY <2>1, <2>2, <2>3 DEF TypeOK, Surroundings
<1>6. NoPanic'
  BY <1>1 DEF NoPanic
<1>7. /\ \A x \in Slabs \ {s} : FreeSlots(x)' = FreeSlots(x)
      /\ FreeSlots(s)' = FreeSlots(s) \ {i}
      /\ Cardinality(FreeSlots(s)') = free_count[s] - 1
      /\ free_count'[s] = free_count[s] - 1
      /\ \A x \in Slabs \ {s} : free_count'[x] = free_count[x]
  <2>1. occupied[s] \in SUBSET Slots /\ occupied'[s] = occupied[s] \cup {i}
    BY <1>1 DEF TypeOK
  <2>2. \A x \in Slabs \ {s} : occupied'[x] = occupied[x]
    BY <1>1 DEF TypeOK
  <2>3. Cardinality(Slots \ (occupied[s] \cup {i})) = Cardinality(FreeSlots(s)) - 1
    BY <2>1, <1>0, OneLess DEF FreeSlots
  <2>4. Cardinality(FreeSlots(s)) = free_count[s]
    BY DEF CountMatches
  <2> QED
    BY <2>1, <2>2, <2>3, <2>4, <1>1 DEF FreeSlots, TypeOK
<1>8. CountMatches'
  BY <1>7 DEF CountMatches
<1>9. free_count[s] - 1 = 0 <=> FreeSlots(s)' = {}
  <2>1. FreeSlots(s)' \in SUBSET Slots
    BY DEF FreeSlots
  <2> QED
    BY <2>1, <1>7, SlotSets
<1>10. \A d \in Cpus \ {c} : partial'[d] = partial[d] /\ local_stack'[d] = local_stack[d]
  BY <1>1, <1>2 DEF TypeOK
<1>11. partial'[c] = (IF free_count[s] - 1 = 0 THEN NoSlab ELSE s)
  BY <1>2 DEF TypeOK
<1>12. LocalSound'
  <2> SUFFICES ASSUME NEW d \in Cpus, NEW j \in Slots
               PROVE  /\ local_stack'[d][j] \in {0, 1}
                      /\ local_stack'[d][j] = 1 =>
                           partial'[d] # NoSlab /\ j \notin occupied'[partial'[d]]
    BY DEF LocalSound
  <2>1. CASE d = c
    <3>1. local_stack'[c] = Pop(stack, i)
      BY <1>1 DEF TypeOK
    <3>2. ASSUME Pop(stack, i)[j] = 1
          PROVE  j \in FreeSlots(s)'
      BY <3>2, <1>3, <1>7 DEF FreeSlots
    <3>3. ASSUME Pop(stack, i)[j] = 1
          PROVE  partial'[c] = s
      BY <3>2, <3>3, <1>9, <1>11
    <3> QED
      BY <2>1, <3>1, <3>2, <3>3, <1>0, <1>3 DEF FreeSlots
  <2>2. CASE d # c
    <3>1. local_stack'[d] = local_stack[d] /\ partial'[d] = partial[d]
      BY <2>2, <1>10
    <3>2. local_stack[d][j] = 1 => partial[d] \in Slabs \ {s}
      BY <2>2 DEF LocalSound, TypeOK, Ready
    <3>3. local_stack[d][j] = 1 => j \in FreeSlots(partial[d])
      BY DEF LocalSound, FreeSlots
    <3> QED
      BY <3>1, <3>2, <3>3, <1>7 DEF FreeSlots, LocalSound
  <2> QED
    BY <2>1, <2>2
<1>13. \A x \in Slabs \ {s} : (Users(x)' # {} <=> Users(x) # {}) /\ full_slabs'[x] = full_slabs[x]
  <2> SUFFICES ASSUME NEW x \in Slabs, x # s
               PROVE  (Users(x)' # {} <=> Users(x) # {}) /\ full_slabs'[x] = full_slabs[x]
    OBVIOUS
  <2>1. full_slabs'[x] = full_slabs[x]
    BY <1>2 DEF Put, TypeOK
  <2>2. partial'[c] # x /\ partial[c] # x
    BY <1>0, <1>11 DEF Ready
  <2>3. Users(x)' = Users(x)
    BY <2>2, <1>10 DEF Users
  <2> QED
    BY <2>1, <2>3
<1>14. /\ free_count[s] - 1 = 0 => Users(s)' = {} /\ full_slabs'[s] = 1
       /\ free_count[s] - 1 # 0 => Users(s)' # {} /\ full_slabs'[s] = 0
  <2>1. CASE free_count[s] - 1 = 0
    <3>1. \A d \in Cpus : partial'[d] # s
      BY <2>1, <1>0, <1>10, <1>11 DEF Ready
    <3> QED
      BY <3>1, <2>1, <1>2 DEF Users, Put, Ready, TypeOK
  <2>2. CASE free_count[s] - 1 # 0
    BY <2>2, <1>2, <1>11 DEF Users, Ready
  <2> QED
    BY <2>1, <2>2
<1>15. SlabPlacedOnce'
  <2>1. \A d, e \in Cpus : d # e /\ partial'[d] # NoSlab => partial'[d] # partial'[e]
    BY <1>10, <1>11 DEF SlabPlacedOnce, Ready
  <2>2. \A x \in Slabs \ {s} :
          shared_partial'[x] + full_slabs'[x] + (IF Users(x)' # {} THEN 1 ELSE 0)
            = (IF x < all_slabs' THEN 1 ELSE 0)
    BY <1>13 DEF SlabPlacedOnce, Surroundings
  <2>3. shared_partial'[s] + full_slabs'[s] + (IF Users(s)' # {} THEN 1 ELSE 0)
            = (IF s < all_slabs' THEN 1 ELSE 0)
    BY <1>14 DEF Surroundings
  <2> QED
    BY <2>1, <2>2, <2>3 DEF SlabPlacedOnce
<1>16. PlaceMatchesRoom'
  <2>1. /\ full_slabs'[s] > 0 => FreeSlots(s)' = {}
        /\ shared_partial'[s] > 0 \/ Users(s)' # {} => FreeSlots(s)' # {}
    BY <1>9, <1>14 DEF Surroundings
  <2>2. \A x \in Slabs \ {s} :
          /\ full_slabs'[x] > 0 => FreeSlots(x)' = {}
          /\ shared_partial'[x] > 0 \/ Users(x)' # {} => FreeSlots(x)' # {}
    BY <1>7, <1>13 DEF PlaceMatchesRoom, Surroundings
  <2> QED
    BY <2>1, <2>2 DEF PlaceMatchesRoom
<1>17. UnmadeEmpty'
  <2>1. \A x \in Slabs \ {s} : occupied'[x] = occupied[x]
    BY <1>1 DEF TypeOK
  <2>2. all_slabs \in Int /\ all_slabs' \in Int
    BY DEF TypeOK, Surroundings
  <2>3. \A x \in Slabs : x >= all_slabs' => x # s /\ x >= all_slabs
    BY <1>0, <2>2 DEF Surroundings
  <2> QED
    BY <2>1, <2>3 DEF UnmadeEmpty
<1> QED
  BY <1>5, <1>6, <1>8, <1>12, <1>15, <1>16, <1>17

\* What a reader of the invariant knows of a slab somebody uses or that waits.
LEMMA PlaceFacts ==
  ASSUME Inv, NEW s \in Slabs
  PROVE  /\ s \in Nat /\ s # NoSlab
         /\ occupied[s] \in SUBSET Slots
         /\ shared_partial[s] \in Nat /\ full_slabs[s] \in Nat /\ all_slabs \in Nat
         /\ Users(s) # {} => shared_partial[s] = 0 /\ full_slabs[s] = 0 /\ s < all_slabs
         /\ shared_partial[s] > 0 =>
              shared_partial[s] = 1 /\ full_slabs[s] = 0 /\ s < all_slabs /\ Users(s) = {}
<1>1. s \in Nat /\ s # NoSlab
  BY DEF Slabs
<1>2. /\ shared_partial[s] \in Nat /\ full_slabs[s] \in Nat /\ all_slabs \in Nat
      /\ occupied[s] \in SUBSET Slots
  BY DEF Inv, TypeOK
<1>3. shared_partial[s] + full_slabs[s] + (IF Users(s) # {} THEN 1 ELSE 0)
        = (IF s < all_slabs THEN 1 ELSE 0)
  BY DEF Inv, SlabPlacedOnce
<1> QED
  BY <1>1, <1>2, <1>3

\* The free bits of a slab, read as a stack.
LEMMA FilledFacts ==
  ASSUME NEW s \in Slabs
  PROVE  /\ Filled(s) \in [Slots -> {0, 1}]
         /\ \A j \in Slots : Filled(s)[j] = 1 <=> j \in FreeSlots(s)
         /\ IsEmptyBag(Filled(s)) <=> FreeSlots(s) = {}
  BY DEF Filled, FreeSlots, IsEmptyBag

\* A bucket with nothing left has no partial slab: it would have room.
LEMMA NothingLeft ==
  ASSUME Inv, NEW c \in Cpus, NothingLocal(c)
  PROVE  partial[c] = NoSlab
<1> SUFFICES ASSUME partial[c] # NoSlab PROVE FALSE
  OBVIOUS
<1>1. partial[c] \in Slabs /\ Users(partial[c]) # {}
  BY DEF Inv, TypeOK, Users
<1>2. FreeSlots(partial[c]) # {}
  BY <1>1 DEF Inv, PlaceMatchesRoom
<1> QED
  BY <1>1, <1>2, FilledFacts DEF NothingLocal, Refill

LEMMA AllocLocalInv ==
  ASSUME Inv, NEW c \in Cpus, AllocLocal(c)
  PROVE  Inv'
<1>1. PICK j \in Slots : local_stack[c][j] # 0
  BY DEF AllocLocal, IsEmptyBag, Inv, TypeOK
<1>2. partial[c] # NoSlab /\ partial[c] \in Slabs
  BY <1>1 DEF Inv, LocalSound, TypeOK
<1> DEFINE s == partial[c]
<1>3. Users(s) # {} /\ s \in Slabs
  BY <1>2 DEF Users
<1>4. PICK i \in Slots : local_stack[c][i] > 0 /\ AllocInSlab(c, s, i, local_stack[c])
  BY <1>2 DEF AllocLocal
<1>5. UNCHANGED <<all_slabs, owner_cpu, remote, shared_partial>>
  BY <1>2 DEF AllocLocal
<1>6. local_stack[c] \in [Slots -> {0, 1}] /\ local_stack[c][i] = 1
  BY <1>4 DEF Inv, LocalSound, TypeOK
<1>7. Ready(c, s, i, local_stack[c])
  <2>1. \A d \in Cpus \ {c} : partial[d] # s
    BY <1>2 DEF Inv, SlabPlacedOnce
  <2>2. full_slabs[s] = 0
    BY <1>3, PlaceFacts
  <2> QED
    BY <1>6, <2>1, <2>2 DEF Ready, Inv, LocalSound
<1>8. Surroundings(s)
  BY <1>3, <1>5, PlaceFacts DEF Surroundings, Inv, TypeOK
<1> QED
  BY <1>3, <1>4, <1>7, <1>8, MarkInv

LEMMA AllocRefillInv ==
  ASSUME Inv, NEW c \in Cpus, AllocRefill(c)
  PROVE  Inv'
<1> DEFINE s == partial[c]
<1>1. s \in Slabs /\ s # NoSlab /\ Users(s) # {}
  BY DEF AllocRefill, Inv, TypeOK, Users
<1>2. FreeSlots(s) # {}
  BY <1>1 DEF Inv, PlaceMatchesRoom
<1>3. PICK i \in Slots : Filled(s)[i] > 0 /\ AllocInSlab(c, s, i, Filled(s))
  BY <1>2 DEF AllocRefill, Refill
<1>4. UNCHANGED <<all_slabs, owner_cpu, remote, shared_partial>>
  BY <1>2 DEF AllocRefill
<1>5. Ready(c, s, i, Filled(s))
  <2>1. \A d \in Cpus \ {c} : partial[d] # s
    BY <1>1 DEF Inv, SlabPlacedOnce
  <2>2. full_slabs[s] = 0
    BY <1>1, PlaceFacts
  <2>3. Filled(s)[i] = 1
    BY <1>1, <1>3, FilledFacts
  <2> QED
    BY <1>1, <2>1, <2>2, <2>3, FilledFacts DEF Ready, FreeSlots
<1>6. Surroundings(s)
  BY <1>1, <1>4, PlaceFacts DEF Surroundings, Inv, TypeOK
<1> QED
  BY <1>1, <1>3, <1>5, <1>6, MarkInv

LEMMA AllocSharedInv ==
  ASSUME Inv, NEW c \in Cpus, AllocShared(c)
  PROVE  Inv'
<1>1. PICK s \in Slabs :
        /\ shared_partial[s] > 0
        /\ shared_partial' = Taken(s)
        /\ \E i \in FreeSlots(s) : AllocInSlab(c, s, i, Filled(s))
  BY DEF AllocShared
<1>2. PICK i \in Slots : i \in FreeSlots(s) /\ AllocInSlab(c, s, i, Filled(s))
  BY <1>1 DEF FreeSlots
<1>3. UNCHANGED <<all_slabs, owner_cpu, remote>>
  BY DEF AllocShared
<1>4. partial[c] = NoSlab
  BY NothingLeft DEF AllocShared
<1>5. /\ shared_partial[s] = 1 /\ full_slabs[s] = 0 /\ s < all_slabs /\ Users(s) = {}
  BY <1>1, PlaceFacts
<1>6. Ready(c, s, i, Filled(s))
  BY <1>2, <1>4, <1>5, FilledFacts DEF Ready, FreeSlots, Users
<1>7. Surroundings(s)
  BY <1>1, <1>3, <1>5 DEF Surroundings, Taken, Inv, TypeOK
<1> QED
  BY <1>2, <1>6, <1>7, MarkInv

LEMMA AllocNewInv ==
  ASSUME Inv, NEW c \in Cpus, AllocNew(c)
  PROVE  Inv'
<1> DEFINE s == all_slabs
<1>1. s \in Slabs /\ s \in Nat /\ all_slabs' = s + 1
  BY DEF AllocNew, Inv, TypeOK, Slabs
<1>2. PICK i \in Slots : AllocInSlab(c, s, i, Filled(s))
  BY DEF AllocNew
<1>3. UNCHANGED shared_partial
  <2>1. \A x \in Slabs : shared_partial[x] > 0 => FreeSlots(x) # {}
    BY DEF Inv, PlaceMatchesRoom
  <2> QED
    BY <2>1 DEF AllocNew
<1>4. owner_cpu' \in [Slabs -> Cpus \cup {Nobody}] /\ remote' = remote
  BY DEF AllocNew, Inv, TypeOK
<1>5. partial[c] = NoSlab
  BY NothingLeft DEF AllocNew
<1>6. occupied[s] = {}
  BY <1>1 DEF Inv, UnmadeEmpty
<1>7. shared_partial[s] = 0 /\ full_slabs[s] = 0 /\ Users(s) = {}
  BY <1>1, PlaceFacts DEF Inv, SlabPlacedOnce
<1>8. Ready(c, s, i, Filled(s))
  BY <1>1, <1>5, <1>6, <1>7, FilledFacts DEF Ready, FreeSlots, Users
<1>9. Surroundings(s)
  <2>1. all_slabs' \in 0 .. MaxSlabs /\ all_slabs' >= all_slabs /\ s < all_slabs'
    BY <1>1 DEF AllocNew
  <2>2. \A x \in Slabs \ {s} : x < all_slabs' <=> x < all_slabs
    BY <1>1 DEF Slabs
  <2> QED
    BY <2>1, <2>2, <1>1, <1>3, <1>4, <1>7 DEF Surroundings, Inv, TypeOK
<1> QED
  BY <1>1, <1>2, <1>8, <1>9, MarkInv

-----------------------------------------------------------------------------
(* reclaim *)

LEMMA ReclaimInv ==
  ASSUME Inv, Reclaim, lock' \in Cpus \cup {Nobody}
  PROVE  Inv'
<1> USE DEF Inv
<1>1. \A s \in Slabs :
        /\ occupied[s] \in SUBSET Slots /\ Orphans(s) \in SUBSET occupied[s]
        /\ Orphans(s) \in SUBSET Slots
  BY DEF TypeOK, Orphans
<1>2. \A s \in Slabs :
        /\ Regained(s) \in Nat /\ Regained(s) = Cardinality(Orphans(s))
        /\ Cardinality(Slots \ (occupied[s] \ Orphans(s)))
             = Cardinality(FreeSlots(s)) + Cardinality(Orphans(s))
  BY <1>1, SlotSets, SumOfFree DEF Regained, FreeSlots
<1>3. \A s \in Slabs :
        /\ occupied'[s] = occupied[s] \ Orphans(s)
        /\ FreeSlots(s)' = FreeSlots(s) \cup Orphans(s)
        /\ FreeSlots(s)' \in SUBSET Slots
        /\ free_count'[s] = free_count[s] + Regained(s)
  BY <1>1 DEF Reclaim, FreeSlots
<1>4. CountMatches'
  <2> SUFFICES ASSUME NEW s \in Slabs PROVE free_count'[s] = Cardinality(FreeSlots(s)')
    BY DEF CountMatches
  <2>1. Cardinality(FreeSlots(s)') = Cardinality(FreeSlots(s)) + Regained(s)
    BY <1>2, <1>3 DEF FreeSlots
  <2> QED
    BY <2>1, <1>3 DEF CountMatches
<1>5. \A s \in Slabs : HasRoomAgain(s) <=> FreeSlots(s)' # {}
  <2> SUFFICES ASSUME NEW s \in Slabs PROVE HasRoomAgain(s) <=> FreeSlots(s)' # {}
    OBVIOUS
  <2>1. free_count'[s] = Cardinality(FreeSlots(s)')
    BY <1>4 DEF CountMatches
  <2>2. /\ Cardinality(FreeSlots(s)') \in Nat
        /\ Cardinality(FreeSlots(s)') = 0 <=> FreeSlots(s)' = {}
    BY <1>3, SlotSets
  <2> QED
    BY <2>1, <2>2, <1>3 DEF HasRoomAgain
<1>6. UNCHANGED <<all_slabs, owner_cpu, remote, partial, held, panicked>>
  BY DEF Reclaim
<1>7. \A s \in Slabs :
        /\ shared_partial[s] \in Nat /\ full_slabs[s] \in Nat
        /\ FreeSlots(s)' # {} => /\ shared_partial'[s] = shared_partial[s] + full_slabs[s]
                                /\ full_slabs'[s] = 0
        /\ FreeSlots(s)' = {} => /\ shared_partial'[s] = shared_partial[s]
                                /\ full_slabs'[s] = full_slabs[s]
  BY <1>5 DEF Reclaim, TypeOK
<1>8. \A c \in Cpus, i \in Slots :
        /\ local_stack'[c][i] \in {0, 1}
        /\ local_stack'[c][i] = 1 => partial[c] # NoSlab /\ i \notin occupied'[partial[c]]
  <2> SUFFICES ASSUME NEW c \in Cpus, NEW i \in Slots
               PROVE  /\ local_stack'[c][i] \in {0, 1}
                      /\ local_stack'[c][i] = 1 =>
                           partial[c] # NoSlab /\ i \notin occupied'[partial[c]]
    OBVIOUS
  <2>1. /\ local_stack[c][i] \in {0, 1}
        /\ local_stack[c][i] = 1 => partial[c] # NoSlab /\ i \notin occupied[partial[c]]
    BY DEF LocalSound
  <2>2. partial[c] \in Slabs \cup {NoSlab} /\ \A s \in Slabs : s # NoSlab
    BY SMTT(30) DEF TypeOK, Slabs
  <2>3. CASE \E s \in Slabs : ReturnsTo(s, c) /\ i \in Orphans(s)
    <3>1. partial[c] \in Slabs /\ i \in Orphans(partial[c])
      BY <2>3 DEF ReturnsTo
    <3>2. local_stack[c][i] = 0
      BY <2>1, <3>1, <1>1
    <3>3. local_stack'[c][i] = 1
      BY <2>3, <3>2 DEF Reclaim
    <3> QED
      BY <3>1, <3>3, <2>2, <1>3
  <2>4. CASE ~(\E s \in Slabs : ReturnsTo(s, c) /\ i \in Orphans(s))
    <3>1. local_stack'[c][i] = local_stack[c][i]
      BY <2>1, <2>4 DEF Reclaim
    <3> QED
      BY <2>1, <2>2, <3>1, <1>3
  <2> QED
    BY <2>3, <2>4
<1>9. TypeOK'
  <2>1. /\ occupied' \in [Slabs -> SUBSET Slots] /\ free_count' \in [Slabs -> Int]
    <3>1. \A s \in Slabs : occupied[s] \ Orphans(s) \in SUBSET Slots
      BY <1>1
    <3>2. \A s \in Slabs : free_count[s] + Regained(s) \in Int
      <4>1. \A s \in Slabs : free_count[s] \in Int
        BY DEF TypeOK
      <4>2. \A s \in Slabs : Regained(s) \in Nat
        BY <1>2
      <4> QED
        BY <4>1, <4>2
    <3>3. /\ occupied' = [s \in Slabs |-> occupied[s] \ Orphans(s)]
          /\ free_count' = [s \in Slabs |-> free_count[s] + Regained(s)]
      BY DEF Reclaim
    <3>4. occupied' \in [Slabs -> SUBSET Slots]
      BY <3>1, <3>3
    <3>5. free_count' \in [Slabs -> Int]
      BY <3>2, <3>3
    <3> QED
      BY <3>4, <3>5
  <2>2. shared_partial' \in [Slabs -> Nat] /\ full_slabs' \in [Slabs -> Nat]
    BY DEF Reclaim, TypeOK
  <2>3. local_stack' \in [Cpus -> [Slots -> Nat]]
    BY DEF Reclaim, TypeOK
  <2> QED
    BY <2>1, <2>2, <2>3, <1>6 DEF TypeOK
<1>10. LocalSound'
  BY <1>6, <1>8 DEF LocalSound
<1>11. \A s \in Slabs : Users(s)' = Users(s)
  BY <1>6 DEF Users
<1>12. SlabPlacedOnce'
  BY <1>6, <1>7, <1>11 DEF SlabPlacedOnce
<1>13. PlaceMatchesRoom'
  BY <1>3, <1>7, <1>11 DEF PlaceMatchesRoom
<1>14. UnmadeEmpty'
  BY <1>3, <1>6 DEF UnmadeEmpty
<1> QED
  BY <1>4, <1>6, <1>9, <1>10, <1>12, <1>13, <1>14 DEF NoPanic

\* A step that only touches clones, the window or nothing keeps the invariant.
LEMMA OthersInv ==
  ASSUME Inv, held' \subseteq Indices,
         UNCHANGED <<all_slabs, occupied, free_count, owner_cpu, remote, local_stack,
                     partial, shared_partial, full_slabs, lock, panicked>>
  PROVE  Inv'
BY DEF Inv, TypeOK, NoPanic, LocalSound, SlabPlacedOnce, PlaceMatchesRoom, CountMatches,
       UnmadeEmpty, Users, FreeSlots

\* A flat index is within the indices of the slabs that may exist.
LEMMA FlatInRange ==
  ASSUME NEW s \in Slabs, NEW i \in Slots
  PROVE  FlatIndex(s, i) \in Indices
<1>1. s \in Nat /\ i \in Nat /\ PerSlab \in Nat /\ MaxSlabs \in Nat
  BY DEF Slabs, Slots
<1>2. s + 1 <= MaxSlabs /\ i < PerSlab
  BY DEF Slabs, Slots
<1>3. (s + 1) * PerSlab <= MaxSlabs * PerSlab
  BY <1>1, <1>2
<1>4. s * PerSlab + PerSlab = (s + 1) * PerSlab /\ s * PerSlab \in Nat
  BY <1>1
<1>5. s * PerSlab + i >= 0 /\ s * PerSlab + i <= MaxSlabs * PerSlab - 1
  BY <1>1, <1>2, <1>3, <1>4
<1>6. MaxSlabs * PerSlab \in Nat
  BY <1>1
<1> QED
  BY <1>1, <1>4, <1>5, <1>6 DEF FlatIndex, Indices

LEMMA NextInv == Inv /\ [Next]_vars => Inv'
<1> SUFFICES ASSUME Inv, [Next]_vars PROVE Inv'
  OBVIOUS
<1>0. held \subseteq Indices /\ lock \in Cpus \cup {Nobody}
  BY DEF Inv, TypeOK
<1>1. ASSUME NEW c \in Cpus, HeapReclaimFirst(c) PROVE Inv'
  BY <1>1, ReclaimInv DEF HeapReclaimFirst
<1>2. ASSUME NEW c \in Cpus, HeapAlloc(c) PROVE Inv'
  BY <1>2, AllocLocalInv, AllocRefillInv, AllocSharedInv, AllocNewInv DEF HeapAlloc, Alloc
<1>3. ASSUME HeapReclaim PROVE Inv'
  BY <1>0, <1>3, ReclaimInv DEF HeapReclaim
<1>4. ASSUME NEW s \in Slabs, NEW i \in Slots, GetArc(s, i) PROVE Inv'
  BY <1>0, <1>4, FlatInRange, OthersInv DEF GetArc
<1>5. ASSUME NEW f \in Indices, DropArc(f) PROVE Inv'
  BY <1>0, <1>5, OthersInv DEF DropArc
<1>6. CASE UNCHANGED vars
  BY <1>0, <1>6, OthersInv DEF vars
<1> QED
  BY <1>1, <1>2, <1>3, <1>4, <1>5, <1>6 DEF Next

\* The invariant holds in every state of every behaviour.
LEMMA Invariance == Spec => []Inv
BY InitInv, NextInv, PTL DEF Spec

-----------------------------------------------------------------------------
(* The window of recent allocations *)

\* What the allocator remembers is what it has handed out last: nothing that
\* the window spares is ever forgotten.
Windowed == recent = handed /\ recent \in Seq(Indices) /\ WindowAlive

\* An index names one slot of one slab.
LEMMA FlatInjective ==
  ASSUME NEW s \in Slabs, NEW t \in Slabs, NEW i \in Slots, NEW j \in Slots,
         FlatIndex(s, i) = FlatIndex(t, j)
  PROVE  s = t /\ i = j
<1>1. /\ s \in Nat /\ t \in Nat /\ i \in Nat /\ j \in Nat
      /\ i < PerSlab /\ j < PerSlab /\ PerSlab \in Nat
  BY DEF Slabs, Slots
<1>2. s * PerSlab + i = t * PerSlab + j
  BY DEF FlatIndex
<1>3. ASSUME NEW u \in Nat, NEW v \in Nat, u < v
      PROVE  u * PerSlab + PerSlab <= v * PerSlab
  <2>1. (u + 1) * PerSlab <= v * PerSlab
    BY <1>1, <1>3
  <2> QED BY <1>1, <2>1
<1>4. ~ (s < t) /\ ~ (t < s)
  <2>1. s * PerSlab \in Nat /\ t * PerSlab \in Nat
    BY <1>1
  <2> QED BY <1>1, <1>2, <1>3, <2>1
<1> QED BY <1>1, <1>2, <1>4

\* What is not in the window yet can be pushed onto it.
LEMMA PushedOnce ==
  ASSUME NEW r \in Seq(Indices), NEW f \in Indices,
         \A j, k \in DOMAIN r : j # k => r[j] # r[k],
         \A k \in DOMAIN r : r[k] # f
  PROVE  LET p == Pushed(r, f) IN
         /\ p \in Seq(Indices)
         /\ \A j, k \in DOMAIN p : j # k => p[j] # p[k]
         /\ \A k \in DOMAIN p : p[k] = f \/ \E j \in DOMAIN r : p[k] = r[j]
<1> DEFINE a == Append(r, f)
<1>1. /\ a \in Seq(Indices) /\ Len(a) = Len(r) + 1 /\ DOMAIN a = 1 .. Len(r) + 1
      /\ \A k \in 1 .. Len(r) : a[k] = r[k]
      /\ a[Len(r) + 1] = f
  OBVIOUS
<1>2. \A j, k \in DOMAIN a : j # k => a[j] # a[k]
  BY <1>1
<1>3. \A k \in DOMAIN a : a[k] = f \/ \E j \in DOMAIN r : a[k] = r[j]
  BY <1>1
<1> DEFINE b == Tail(a)
<1>4. /\ b \in Seq(Indices) /\ DOMAIN b = 1 .. Len(r)
      /\ \A k \in 1 .. Len(r) : b[k] = a[k + 1] /\ k + 1 \in DOMAIN a
  BY <1>1
<1>5. \A j, k \in DOMAIN b : j # k => b[j] # b[k]
  BY <1>2, <1>4
<1>6. \A k \in DOMAIN b : b[k] = f \/ \E j \in DOMAIN r : b[k] = r[j]
  BY <1>3, <1>4
<1> HIDE DEF a, b
<1>7. Pushed(r, f) = a \/ Pushed(r, f) = b
  BY DEF Pushed, a, b
<1>8. CASE Pushed(r, f) = a
  <2>1. a \in Seq(Indices)
    BY <1>1
  <2> QED BY <2>1, <1>2, <1>3, <1>8, Zenon
<1>9. CASE Pushed(r, f) = b
  BY <1>4, <1>5, <1>6, <1>9, Zenon
<1> QED BY <1>7, <1>8, <1>9

\* The slot marked was free, so its index is not in the window.
LEMMA MarkWindow ==
  ASSUME Inv, Windowed, ~panicked', NEW c \in Cpus, NEW s \in Slabs, NEW i \in Slots,
         NEW stack, AllocInSlab(c, s, i, stack)
  PROVE  Windowed'
<1> DEFINE f == FlatIndex(s, i)
<1>1. /\ i \notin occupied[s] /\ recent' = Pushed(recent, f) /\ handed' = Pushed(handed, f)
      /\ occupied' = [occupied EXCEPT ![s] = @ \cup {i}]
  BY DEF AllocInSlab, Panic, Remember
<1>2. occupied \in [Slabs -> SUBSET Slots]
  BY DEF Inv, TypeOK
<1>3. f \in Indices
  BY FlatInRange
<1>4. ASSUME NEW k \in DOMAIN recent PROVE recent[k] # f
  <2>1. PICK t \in Slabs : \E j \in occupied[t] : recent[k] = FlatIndex(t, j)
    BY DEF Windowed, WindowAlive
  <2>2. PICK j \in occupied[t] : recent[k] = FlatIndex(t, j)
    BY <2>1
  <2>3. j \in Slots /\ <<t, j>> # <<s, i>>
    BY <1>1, <1>2, <2>2
  <2> QED BY <2>2, <2>3, FlatInjective
<1>5. /\ recent' \in Seq(Indices)
      /\ \A j, k \in DOMAIN recent' : j # k => recent'[j] # recent'[k]
      /\ \A k \in DOMAIN recent' : recent'[k] = f \/ \E j \in DOMAIN recent : recent'[k] = recent[j]
  BY <1>1, <1>3, <1>4, PushedOnce DEF Windowed, WindowAlive
<1>6. \A t \in Slabs : occupied[t] \subseteq occupied'[t]
  BY <1>1, <1>2
<1>7. i \in occupied'[s]
  BY <1>1, <1>2
<1>8. \A k \in DOMAIN recent' : \E t \in Slabs : \E j \in occupied'[t] : recent'[k] = FlatIndex(t, j)
  BY <1>5, <1>6, <1>7 DEF Windowed, WindowAlive
<1> QED BY <1>1, <1>5, <1>8 DEF Windowed, WindowAlive

LEMMA AllocWindow ==
  ASSUME Inv, Windowed, ~panicked', NEW c \in Cpus, Alloc(c)
  PROVE  Windowed'
<1>1. /\ partial \in [Cpus -> Slabs \cup {NoSlab}] /\ all_slabs \in 0 .. MaxSlabs
      /\ \A s \in Slabs : FreeSlots(s) \subseteq Slots
  BY DEF Inv, TypeOK, FreeSlots
<1>2. CASE AllocLocal(c)
  BY <1>1, <1>2, MarkWindow DEF AllocLocal, Panic
<1>3. CASE AllocRefill(c)
  BY <1>1, <1>3, MarkWindow DEF AllocRefill
<1>4. CASE AllocShared(c)
  BY <1>1, <1>4, MarkWindow DEF AllocShared
<1>5. CASE AllocNew(c)
  <2>1. all_slabs \in Slabs
    BY <1>1, <1>5 DEF AllocNew, Slabs
  <2> QED BY <1>5, <2>1, MarkWindow DEF AllocNew
<1> QED BY <1>2, <1>3, <1>4, <1>5 DEF Alloc

\* A reclaim spares the window, and then forgets none of it.
LEMMA ReclaimWindow ==
  ASSUME Inv, Windowed, Reclaim, ForgetReclaimed
  PROVE  Windowed'
<1>1. /\ occupied \in [Slabs -> SUBSET Slots]
      /\ \A s \in Slabs : occupied'[s] = occupied[s] \ Orphans(s)
      /\ handed' = handed
  BY DEF Inv, TypeOK, Reclaim
<1>2. ASSUME NEW k \in DOMAIN recent
      PROVE  \E s \in Slabs : \E i \in occupied'[s] : recent[k] = FlatIndex(s, i)
  <2>1. PICK s \in Slabs : \E i \in occupied[s] : recent[k] = FlatIndex(s, i)
    BY DEF Windowed, WindowAlive
  <2>2. PICK i \in occupied[s] : recent[k] = FlatIndex(s, i)
    BY <2>1
  <2>3. i \notin Orphans(s)
    BY <2>2 DEF Orphans, Recent
  <2> QED BY <1>1, <2>2, <2>3
<1>3. recent' = recent
  <2> DEFINE alive == {FlatIndex(p[1], p[2]) : p \in {q \in Slabs \X Slots : q[2] \in occupied'[q[1]]}}
  <2>1. ASSUME NEW k \in DOMAIN recent PROVE recent[k] \in alive
    <3>1. PICK s \in Slabs : \E i \in occupied'[s] : recent[k] = FlatIndex(s, i)
      BY <1>2
    <3>2. PICK i \in occupied'[s] : recent[k] = FlatIndex(s, i)
      BY <3>1
    <3>3. <<s, i>> \in {q \in Slabs \X Slots : q[2] \in occupied'[q[1]]}
      BY <1>1
    <3> QED BY <3>2, <3>3
  <2>2. Recent \subseteq alive
    BY <2>1 DEF Recent
  <2> QED BY <2>2 DEF ForgetReclaimed
<1> QED BY <1>1, <1>2, <1>3 DEF Windowed, WindowAlive

LEMMA WindowedAlways == Spec => []Windowed
<1>1. Init => Windowed
  BY DEF Init, Windowed, WindowAlive
<1>2. Inv /\ Inv' /\ Windowed /\ [Next]_vars => Windowed'
  <2> SUFFICES ASSUME Inv, Inv', Windowed, [Next]_vars PROVE Windowed'
    OBVIOUS
  <2>1. ~panicked'
    BY DEF Inv, NoPanic
  <2>2. ASSUME NEW c \in Cpus, HeapReclaimFirst(c) PROVE Windowed'
    BY <2>2, ReclaimWindow DEF HeapReclaimFirst
  <2>3. ASSUME NEW c \in Cpus, HeapAlloc(c) PROVE Windowed'
    BY <2>1, <2>3, AllocWindow DEF HeapAlloc
  <2>4. ASSUME HeapReclaim PROVE Windowed'
    BY <2>4, ReclaimWindow DEF HeapReclaim
  <2>5. ASSUME UNCHANGED <<recent, handed, occupied>> PROVE Windowed'
    BY <2>5 DEF Windowed, WindowAlive
  <2> QED BY <2>2, <2>3, <2>4, <2>5 DEF Next, GetArc, DropArc, vars
<1> QED BY <1>1, <1>2, Invariance, PTL DEF Spec

-----------------------------------------------------------------------------
(* Theorems *)

\* Type correctness of the allocator's state.
THEOREM TurboTypes == Spec => []TypeOK
<1>1. Inv => TypeOK
  BY DEF Inv
<1> QED
  BY <1>1, Invariance, PTL

\* alloc never fails its unwrap or its assert: it never marks a slot in use.
THEOREM TurboNoPanic == Spec => []NoPanic
<1>1. Inv => NoPanic
  BY DEF Inv
<1> QED
  BY <1>1, Invariance, PTL

\* Every slab made stays in exactly one place.
THEOREM TurboSlabPlacedOnce == Spec => []SlabPlacedOnce
<1>1. Inv => SlabPlacedOnce
  BY DEF Inv
<1> QED
  BY <1>1, Invariance, PTL

\* The place of a slab and the counter beside its bitmap agree with the bitmap.
THEOREM TurboCounts == Spec => [](PlaceMatchesRoom /\ CountMatches)
<1>1. Inv => PlaceMatchesRoom /\ CountMatches
  BY DEF Inv
<1> QED
  BY <1>1, Invariance, PTL

\* An index handed out lately is out of reach of every reclaim and of every
\* allocation, for a window of any size.
THEOREM TurboWindowAlive == Spec => []WindowAlive
<1>1. Windowed => WindowAlive
  BY DEF Windowed
<1> QED
  BY <1>1, WindowedAlways, PTL

=============================================================================
