----------------------------- MODULE TurboCache -----------------------------
(***************************************************************************)
(* The slab allocator behind heap values (crates/nuzo-values/turboslab and  *)
(* its users in value.rs): slabs of a fixed number of slots, a local stack  *)
(* and a partial slab per CPU bucket, a shared list of partial slabs, a     *)
(* list of full slabs, and the reclaim of slots nobody references.          *)
(*                                                                         *)
(* Every call runs under the pool's write lock, so a call is one step; a    *)
(* default_heap_alloc under pressure is two, with the lock kept in between. *)
(* Stacks and lists are bags: [element -> number of occurrences]. The code  *)
(* pops the last element, the model any element.                            *)
(***************************************************************************)
EXTENDS Integers, FiniteSets, Sequences

CONSTANTS
  Cpus,      \* buckets of cpu_idx_from_thread
  Nobody,    \* no lock holder
  NoSlab,    \* partial_slab = None
  PerSlab,   \* objects_per_slab
  MaxSlabs,  \* bound: slabs made in a behaviour
  Window     \* RECLAIM_GRACE_SIZE

ASSUME TurboAssumption ==
  /\ PerSlab \in Nat \ {0} /\ MaxSlabs \in Nat /\ Window \in Nat
  /\ NoSlab \notin Nat /\ Nobody \notin Cpus

Slots == 0 .. PerSlab - 1
Slabs == 0 .. MaxSlabs - 1
Indices == 0 .. MaxSlabs * PerSlab - 1

\* slab_index * objects_per_slab + idx
FlatIndex(s, i) == s * PerSlab + i

VARIABLES
  all_slabs,   \* number of slabs made: slab s exists iff s < all_slabs
  occupied,    \* [Slabs -> slots whose bitmap bit is 0]
  free_count,  \* [Slabs -> the counter kept beside the bitmap]
  owner_cpu,   \* [Slabs -> the bucket that made the slab]
  remote,      \* [Slabs -> bag of slots in the remote free stack]
  local_stack, \* [Cpus -> bag of slots]
  partial,     \* [Cpus -> partial slab]
  shared_partial, full_slabs,  \* bags of slabs
  held,        \* flat indices whose Arc has clones outside the slab
  recent,      \* recent_allocs
  handed,      \* history: the last Window indices alloc returned
  lock,        \* who is inside default_heap_alloc
  panicked     \* an unwrap or an assert failed

vars == <<all_slabs, occupied, free_count, owner_cpu, remote, local_stack, partial,
          shared_partial, full_slabs, held, recent, handed, lock, panicked>>

EmptyBagOf(S) == [x \in S |-> 0]

Init ==
  /\ all_slabs = 0
  /\ occupied = [s \in Slabs |-> {}]
  /\ free_count = [s \in Slabs |-> PerSlab]
  /\ owner_cpu = [s \in Slabs |-> Nobody]
  /\ remote = [s \in Slabs |-> EmptyBagOf(Slots)]
  /\ local_stack = [c \in Cpus |-> EmptyBagOf(Slots)]
  /\ partial = [c \in Cpus |-> NoSlab]
  /\ shared_partial = EmptyBagOf(Slabs) /\ full_slabs = EmptyBagOf(Slabs)
  /\ held = {} /\ recent = <<>> /\ handed = <<>>
  /\ lock = Nobody /\ panicked = FALSE

FreeSlots(s) == Slots \ occupied[s]

\* fill_local_stack_from_bitmap on an empty stack.
Filled(s) == [i \in Slots |-> IF i \in FreeSlots(s) THEN 1 ELSE 0]

IsEmptyBag(b) == \A x \in DOMAIN b : b[x] = 0
Put(b, x) == [b EXCEPT ![x] = @ + 1]
Pop(b, x) == [b EXCEPT ![x] = @ - 1]

\* Mutant: the slab is read and left in the list.
MutTaken(s) == shared_partial

\* shared.pop()
Taken(s) == [shared_partial EXCEPT ![s] = @ - 1]

-----------------------------------------------------------------------------
(* TurboCache::alloc *)

Panic ==
  /\ panicked' = TRUE
  /\ UNCHANGED <<all_slabs, occupied, free_count, owner_cpu, remote, local_stack,
                 partial, shared_partial, full_slabs, held, recent, handed, lock>>

\* recent_allocs: push_back, and pop_front beyond the window.
Pushed(window, f) ==
  LET r == Append(window, f) IN IF Len(r) > Window THEN Tail(r) ELSE r

Remember(f) == recent' = Pushed(recent, f) /\ handed' = Pushed(handed, f)

\* alloc_in_slab for a slot popped from stack: mark_occupied asserts that the
\* slot is free, and a slab without free slots moves to the full list.
AllocInSlab(c, s, i, stack) ==
  IF i \in occupied[s] THEN Panic
  ELSE /\ occupied' = [occupied EXCEPT ![s] = @ \cup {i}]
       /\ free_count' = [free_count EXCEPT ![s] = @ - 1]
       /\ local_stack' = [local_stack EXCEPT ![c] = Pop(stack, i)]
       /\ IF free_count[s] - 1 = 0
          THEN /\ partial' = [partial EXCEPT ![c] = NoSlab]
               /\ full_slabs' = Put(full_slabs, s)
          ELSE /\ partial' = [partial EXCEPT ![c] = s]
               /\ UNCHANGED full_slabs
       /\ Remember(FlatIndex(s, i))
       /\ lock' = Nobody
       /\ UNCHANGED <<held, panicked>>

\* Step 1: pop from the local stack; the partial slab is unwrapped.
AllocLocal(c) ==
  /\ ~IsEmptyBag(local_stack[c])
  /\ IF partial[c] = NoSlab THEN Panic
     ELSE /\ \E i \in Slots : local_stack[c][i] > 0
                 /\ AllocInSlab(c, partial[c], i, local_stack[c])
          /\ UNCHANGED <<all_slabs, owner_cpu, remote, shared_partial>>

\* The stack steps 2 and 3 leave: the free bits of the partial slab or, when it
\* has none, its remote free stack.
Refill(s) == IF FreeSlots(s) # {} THEN Filled(s) ELSE remote[s]

AllocRefill(c) ==
  /\ IsEmptyBag(local_stack[c]) /\ partial[c] # NoSlab
  /\ \E i \in Slots : Refill(partial[c])[i] > 0
       /\ AllocInSlab(c, partial[c], i, Refill(partial[c]))
  /\ remote' = IF FreeSlots(partial[c]) # {} THEN remote
               ELSE [remote EXCEPT ![partial[c]] = EmptyBagOf(Slots)]
  /\ UNCHANGED <<all_slabs, owner_cpu, shared_partial>>

NothingLocal(c) ==
  /\ IsEmptyBag(local_stack[c])
  /\ partial[c] # NoSlab => IsEmptyBag(Refill(partial[c]))

\* Step 4: adopt a slab of the shared list.
AllocShared(c) ==
  /\ NothingLocal(c)
  /\ \E s \in Slabs :
       /\ shared_partial[s] > 0 /\ FreeSlots(s) # {}
       /\ shared_partial' = Taken(s)
       /\ \E i \in FreeSlots(s) : AllocInSlab(c, s, i, Filled(s))
  /\ UNCHANGED <<all_slabs, owner_cpu, remote>>

\* Step 5: a new slab, also when the slab taken in step 4 had no free slot:
\* that slab is then in no list.
AllocNew(c) ==
  /\ NothingLocal(c) /\ all_slabs < MaxSlabs
  /\ \/ IsEmptyBag(shared_partial) /\ UNCHANGED shared_partial
     \/ \E s \in Slabs : /\ shared_partial[s] > 0 /\ FreeSlots(s) = {}
                         /\ shared_partial' = Taken(s)
  /\ all_slabs' = all_slabs + 1
  /\ owner_cpu' = [owner_cpu EXCEPT ![all_slabs] = c]
  /\ \E i \in Slots : AllocInSlab(c, all_slabs, i, Filled(all_slabs))
  /\ UNCHANGED remote

Alloc(c) == AllocLocal(c) \/ AllocRefill(c) \/ AllocShared(c) \/ AllocNew(c)

-----------------------------------------------------------------------------
(* reclaim_orphaned_with_exclusions, over every slab, the recent window spared *)

Recent == {recent[k] : k \in DOMAIN recent}

\* Mutant: the window is not spared.
MutOrphans(s) == {i \in occupied[s] : FlatIndex(s, i) \notin held}

\* strong_count == 1 and not excluded.
Orphans(s) ==
  {i \in occupied[s] : FlatIndex(s, i) \notin held \cup Recent}

\* free_count of a slab grows by what it got back.
Regained(s) == Cardinality(Orphans(s))

\* Mutant: the partial slab of the owner is not compared.
MutReturnsTo(s, c) == owner_cpu[s] = c

\* A freed slot returns to the owner's stack only while the slab is the
\* owner's partial slab; elsewhere the bitmap alone tells it is free.
ReturnsTo(s, c) == owner_cpu[s] = c /\ partial[c] = s

\* Mutant: full slabs are left where they are.
MutHasRoomAgain(s) == FALSE

\* A full slab that got a slot back leaves the full list for the shared one.
HasRoomAgain(s) == free_count[s] + Regained(s) > 0

Reclaim ==
  /\ occupied' = [s \in Slabs |-> occupied[s] \ Orphans(s)]
  /\ free_count' = [s \in Slabs |-> free_count[s] + Regained(s)]
  /\ local_stack' = [c \in Cpus |-> [i \in Slots |->
       local_stack[c][i] +
         (IF \E s \in Slabs : ReturnsTo(s, c) /\ i \in Orphans(s) THEN 1 ELSE 0)]]
  /\ shared_partial' = [s \in Slabs |-> shared_partial[s] +
                          (IF HasRoomAgain(s) THEN full_slabs[s] ELSE 0)]
  /\ full_slabs' = [s \in Slabs |-> IF HasRoomAgain(s) THEN 0 ELSE full_slabs[s]]
  /\ UNCHANGED <<all_slabs, owner_cpu, remote, partial, held, handed, panicked>>

\* TurboSlabAllocator::reclaim_orphaned keeps the recent indices still occupied,
\* when it reclaimed anything: all of them, if all are occupied.
ForgetReclaimed ==
  LET alive == {FlatIndex(p[1], p[2]) :
                  p \in {q \in Slabs \X Slots : q[2] \in occupied'[q[1]]}} IN
    recent' = IF (\A s \in Slabs : Orphans(s) = {}) \/ Recent \subseteq alive THEN recent
              ELSE SelectSeq(recent, LAMBDA f : f \in alive)

-----------------------------------------------------------------------------
(* value.rs: the entry points of the pool *)

Occupied == {p \in Slabs \X Slots : p[2] \in occupied[p[1]]}

\* stats.total_slots > 0 && stats.occupied_slots * 2 >= stats.total_slots
Pressure == all_slabs > 0 /\ Cardinality(Occupied) * 2 >= all_slabs * PerSlab

\* default_heap_alloc reclaims under pressure, then allocates.
HeapReclaimFirst(c) ==
  /\ lock = Nobody /\ Pressure
  /\ Reclaim /\ ForgetReclaimed
  /\ lock' = c

HeapAlloc(c) ==
  /\ lock = c \/ (lock = Nobody /\ ~Pressure)
  /\ Alloc(c)

\* heap_reclaim_orphaned, called by hand.
HeapReclaim ==
  /\ lock = Nobody
  /\ Reclaim /\ ForgetReclaimed
  /\ UNCHANGED lock

\* get_arc clones the Arc of an occupied slot; the clone is dropped later.
GetArc(s, i) ==
  /\ lock = Nobody /\ i \in occupied[s]
  /\ held' = held \cup {FlatIndex(s, i)}
  /\ UNCHANGED <<all_slabs, occupied, free_count, owner_cpu, remote, local_stack,
                 partial, shared_partial, full_slabs, recent, handed, lock, panicked>>

DropArc(f) ==
  /\ f \in held
  /\ held' = held \ {f}
  /\ UNCHANGED <<all_slabs, occupied, free_count, owner_cpu, remote, local_stack,
                 partial, shared_partial, full_slabs, recent, handed, lock, panicked>>

\* TurboCache::free, which only tests call: the slot is freed, and its index
\* goes to the caller's stack or to the slab's remote stack.
Free(c, s, i) ==
  /\ lock = Nobody /\ i \in occupied[s] /\ FlatIndex(s, i) \notin held
  /\ occupied' = [occupied EXCEPT ![s] = @ \ {i}]
  /\ free_count' = [free_count EXCEPT ![s] = @ + 1]
  /\ IF owner_cpu[s] = c
     THEN local_stack' = [local_stack EXCEPT ![c] = Put(@, i)] /\ UNCHANGED remote
     ELSE remote' = [remote EXCEPT ![s] = Put(@, i)] /\ UNCHANGED local_stack
  /\ UNCHANGED <<all_slabs, owner_cpu, partial, shared_partial, full_slabs, held,
                 recent, handed, lock, panicked>>

Next ==
  /\ ~panicked
  /\ \/ \E c \in Cpus : HeapReclaimFirst(c) \/ HeapAlloc(c)
     \/ HeapReclaim
     \/ \E s \in Slabs, i \in Slots : GetArc(s, i)
     \/ \E f \in Indices : DropArc(f)

Spec == Init /\ [][Next]_vars

\* The same with the free of the tests.
NextWithFree ==
  \/ Next
  \/ ~panicked /\ \E c \in Cpus, s \in Slabs, i \in Slots : Free(c, s, i)

SpecWithFree == Init /\ [][NextWithFree]_vars

-----------------------------------------------------------------------------
(* Properties *)

\* Every variable has its type.
TypeOK ==
  /\ all_slabs \in 0 .. MaxSlabs
  /\ occupied \in [Slabs -> SUBSET Slots]
  /\ free_count \in [Slabs -> Int]
  /\ owner_cpu \in [Slabs -> Cpus \cup {Nobody}]
  /\ remote \in [Slabs -> [Slots -> Nat]]
  /\ local_stack \in [Cpus -> [Slots -> Nat]]
  /\ partial \in [Cpus -> Slabs \cup {NoSlab}]
  /\ shared_partial \in [Slabs -> Nat] /\ full_slabs \in [Slabs -> Nat]
  /\ held \subseteq Indices
  /\ lock \in Cpus \cup {Nobody}
  /\ panicked \in BOOLEAN

\* alloc never unwraps a missing partial slab and never marks an occupied slot:
\* no live index is handed out a second time.
NoPanic == ~panicked

\* A local stack holds slots of the bucket's partial slab, free ones, each once.
LocalSound ==
  \A c \in Cpus, i \in Slots :
    /\ local_stack[c][i] \in {0, 1}
    /\ local_stack[c][i] = 1 => partial[c] # NoSlab /\ i \notin occupied[partial[c]]

Users(s) == {c \in Cpus : partial[c] = s}

\* Every slab is in exactly one place: the partial slab of one bucket, the
\* shared list or the full list. None is lost, none is handed to two buckets.
SlabPlacedOnce ==
  /\ \A c, d \in Cpus : c # d /\ partial[c] # NoSlab => partial[c] # partial[d]
  /\ \A s \in Slabs : shared_partial[s] + full_slabs[s]
                      + (IF Users(s) # {} THEN 1 ELSE 0)
                      = (IF s < all_slabs THEN 1 ELSE 0)

\* A slab is in the full list only while it is full, and elsewhere only while
\* it has room, so that a slab taken from the shared list is never a loss.
PlaceMatchesRoom ==
  \A s \in Slabs :
    /\ full_slabs[s] > 0 => FreeSlots(s) = {}
    /\ shared_partial[s] > 0 \/ Users(s) # {} => FreeSlots(s) # {}

\* The counter kept beside the bitmap agrees with it.
CountMatches == \A s \in Slabs : free_count[s] = Cardinality(FreeSlots(s))

\* An index is out of reach of every reclaim, and is not handed out again, until
\* Window more allocations were made: a Value that no Arc holds yet stays valid.
WindowAlive ==
  /\ \A j, k \in DOMAIN handed : j # k => handed[j] # handed[k]
  /\ \A f \in {handed[k] : k \in DOMAIN handed} :
       \E s \in Slabs : \E i \in occupied[s] : f = FlatIndex(s, i)

=============================================================================
