---------------------------- MODULE GcHeapProofs ----------------------------
(***************************************************************************)
(* Whatever the collector loses, its free lists and counters stay sound:    *)
(* no allocation overwrites an object, and no chunk counts an object that   *)
(* is not there; and without one of the harms it loses nothing.  For every  *)
(* size of chunk and scratch area, every number of placeholders and every   *)
(* program.                                                                *)
(*                                                                         *)
(* Inv is inductive.  Beyond the types it says of every chunk that it is    *)
(* Good, and that what a safe point still has to promote is there.  The     *)
(* lemmas follow the code: sweep, the ageing of a chunk, filling a slot,    *)
(* the choice of a chunk.                                                  *)
(*                                                                         *)
(* Safe, given Inv, is inductive too: while no harm is done every slot is   *)
(* an object's or free, what a collection marks is there, and what the      *)
(* program reaches is what it was made to be.  Both are said with a set     *)
(* that is closed under references, since what is reached is in every such  *)
(* set (ReachFacts).                                                       *)
(***************************************************************************)
EXTENDS GcHeap, FiniteSetTheorems, SequenceTheorems, WellFoundedInduction, TLAPS

Chunk ==
    [data : [Slots -> Object \cup {Empty}], top : 0 .. K, free : SUBSET Slots, alive : Nat,
     gen : {0, 1}, dirty : SUBSET Slots]

Good(ch) ==
    /\ ch \in Chunk
    /\ \A o \in ch.free : o < ch.top /\ ch.data[o] = Empty
    /\ ch.alive <= Cardinality(Occupied(ch))

Heap(cs) == cs \in Seq(Chunk) /\ \A c \in DOMAIN cs : Good(cs[c])

Types ==
    /\ Len(chunks) <= MaxChunks /\ active \in DOMAIN chunks
    /\ scratch \in [0 .. S - 1 -> Object \cup {Empty}] /\ scratch_top \in 0 .. S
    /\ pool \in Ref /\ regs \in [Regs -> Ref]
    /\ phase \in {"run", "safe", "panicked"}
    /\ made \in 0 .. MaxMade /\ stored \in 0 .. MaxStored /\ watching \in BOOLEAN
    /\ harm \subseteq {"low", "reset", "mid", "inner", "pool", "epoch"}

\* A safe point has in left and in remap what it took objects from and where
\* it placed them; every slot below scratch_top is full before it begins.
Promoting ==
    /\ left \subseteq 0 .. S - 1
    /\ DOMAIN remap \subseteq 0 .. S - 1
    /\ \A i \in DOMAIN remap : remap[i] \in Index /\ remap[i][1] \in DOMAIN chunks
    /\ phase = "safe" => \A i \in left : scratch[i] # Empty
    /\ phase = "run" => \A i \in 0 .. S - 1 : i < scratch_top => scratch[i] # Empty

Inv == Heap(chunks) /\ Types /\ Promoting

-----------------------------------------------------------------------------
(* Naturals, slots and chunks *)

(* A set of naturals with an element has a least one.                       *)
LEMMA LeastNat ==
  ASSUME NEW T \in SUBSET Nat, T # {}
  PROVE  \E n \in T : \A m \in T : n <= m
<1>1. PICK n \in T : \A m \in T : ~ <<m, n>> \in OpToRel(<, Nat)
  BY NatLessThanWellFounded, WFMin
<1>2. \A m \in T : ~ (m < n)
  BY <1>1 DEF OpToRel
<1> QED
  BY <1>2

(* Min picks an element.                                                    *)
LEMMA MinIn ==
  ASSUME NEW T \in SUBSET Nat, T # {}
  PROVE  Min(T) \in T
<1>1. \E n \in T : \A m \in T : n <= m
  BY LeastNat
<1> QED
  BY <1>1 DEF Min

(* Sets of slots are finite, and there are K slots.                         *)
LEMMA SlotSets ==
  /\ K \in Nat \ {0} /\ IsFiniteSet(Slots) /\ Cardinality(Slots) = K
  /\ \A T \in SUBSET Slots :
       IsFiniteSet(T) /\ Cardinality(T) \in Nat /\ Cardinality(T) <= K
<1>1. K \in Nat \ {0}
  BY GcAssumption
<1>2. IsFiniteSet(Slots) /\ Cardinality(Slots) = K
  <2>1. 0 \in Int /\ K - 1 \in Int /\ ~ (0 > K - 1) /\ (K - 1) - 0 + 1 = K
    BY <1>1
  <2> QED
    BY <2>1, FS_Interval DEF Slots
<1>3. ASSUME NEW T \in SUBSET Slots
      PROVE  IsFiniteSet(T) /\ Cardinality(T) \in Nat /\ Cardinality(T) <= K
  BY <1>2, FS_Subset, FS_CardinalityType
<1> QED
  BY <1>1, <1>2, <1>3

(* A chunk that keeps its top, free list, count and which slots hold an     *)
(* object stays Good.                                                      *)
LEMMA SameSlots ==
  ASSUME NEW ch, Good(ch), NEW new \in Chunk,
         new.top = ch.top, new.free = ch.free, new.alive = ch.alive,
         \A o \in Slots : new.data[o] = Empty <=> ch.data[o] = Empty
  PROVE  Good(new)
<1>1. Occupied(new) = Occupied(ch)
  BY DEF Occupied
<1>2. \A o \in new.free : o < new.top /\ new.data[o] = Empty
  BY DEF Good, Chunk
<1> QED
  BY <1>1, <1>2 DEF Good

(* Sweeping: the count goes down by the slots found dead, at least as many  *)
(* as the objects that go.                                                 *)
LEMMA SweptGood ==
  ASSUME NEW ch, Good(ch), NEW marks
  PROVE  Good(Swept(ch, marks))
<1> DEFINE dead == Dead(ch, marks)
           new  == Swept(ch, marks)
<1>1. dead \in SUBSET Slots /\ \A o \in dead : o < ch.top
  BY DEF Dead
<1>2. ch \in Chunk
  BY DEF Good
<1>3. IsFiniteSet(dead) /\ Cardinality(dead) \in Nat
  BY <1>1, SlotSets
<1>4. AliveAfter(ch, dead) \in Nat
  BY <1>2, <1>3 DEF AliveAfter, Chunk
<1>5. Cleared(ch, dead) \in [Slots -> Object \cup {Empty}]
  BY <1>2 DEF Cleared, Chunk
<1>6. /\ new.data = Cleared(ch, dead) /\ new.alive = AliveAfter(ch, dead)
      /\ new.free = (IF Resets(ch, dead) THEN {} ELSE dead)
      /\ new.top = (IF Resets(ch, dead) THEN 0 ELSE ch.top)
  BY <1>2 DEF Swept, Listed, Chunk
<1>7. new \in Chunk
  <2>1. 0 \in 0 .. K
    BY SlotSets
  <2> QED
    BY <1>1, <1>2, <1>4, <1>5, <2>1 DEF Swept, Listed, Chunk
<1> HIDE DEF dead, new
<1>8. \A o \in new.free : o < new.top /\ new.data[o] = Empty
  BY <1>1, <1>6 DEF Cleared
<1>9. new.alive <= Cardinality(Occupied(new))
  <2>1. Occupied(new) \in SUBSET Slots /\ Occupied(ch) \in SUBSET Slots
    BY DEF Occupied
  <2>2. Cardinality(Occupied(new)) \in Nat /\ Cardinality(Occupied(ch)) \in Nat
    BY <2>1, SlotSets
  <2>3. CASE Resets(ch, dead)
    BY <2>2, <2>3, <1>6 DEF Resets
  <2>4. CASE ~ Resets(ch, dead)
    <3>1. Occupied(new) = Occupied(ch) \ dead
      BY <2>4, <1>1, <1>6 DEF Occupied, Cleared
    <3>2. Cardinality(Occupied(new)) =
            Cardinality(Occupied(ch)) - Cardinality(Occupied(ch) \cap dead)
      BY <3>1, <2>1, SlotSets, FS_Difference
    <3>3. Cardinality(Occupied(ch) \cap dead) \in Nat
          /\ Cardinality(Occupied(ch) \cap dead) <= Cardinality(dead)
      BY <1>1, <1>3, <2>1, SlotSets, FS_Subset
    <3>4. ch.alive <= Cardinality(Occupied(ch)) /\ ch.alive \in Nat
      BY <1>2 DEF Good, Chunk
    <3>5. new.alive = IF ch.alive > Cardinality(dead) THEN ch.alive - Cardinality(dead) ELSE 0
      BY <1>6 DEF AliveAfter
    <3> QED
      BY <3>2, <3>3, <3>4, <3>5, <2>2, <1>3
  <2> QED
    BY <2>3, <2>4
<1> QED
  BY <1>7, <1>8, <1>9 DEF Good, new

LEMMA AgedGood ==
  ASSUME NEW ch, Good(ch), NEW deep
  PROVE  Good(Aged(ch, deep))
<1>1. ch \in Chunk
  BY DEF Good
<1>2. [ch EXCEPT !.gen = 1] \in Chunk
  BY <1>1 DEF Chunk
<1>3. Good([ch EXCEPT !.gen = 1])
  BY <1>1, <1>2, SameSlots DEF Chunk
<1> QED
  BY <1>3 DEF Aged

(* A chunk with a slot for it takes an object.                              *)
LEMMA FilledGood ==
  ASSUME NEW ch, Good(ch), HasSlot(ch), NEW obj \in Object
  PROVE  SlotOf(ch) \in Slots /\ Good(Filled(ch, SlotOf(ch), obj))
<1> DEFINE o   == SlotOf(ch)
           new == Filled(ch, o, obj)
<1>1. ch \in Chunk /\ K \in Nat
  BY SlotSets DEF Good
<1>2. o \in Slots /\ o \notin Occupied(ch) /\ o < IF ch.free # {} THEN ch.top ELSE ch.top + 1
  <2>1. CASE ch.free # {}
    <3>1. ch.free \in SUBSET Nat
      BY <1>1 DEF Chunk, Slots
    <3>2. o \in ch.free
      BY <3>1, <2>1, MinIn DEF SlotOf
    <3> QED
      BY <3>2, <1>1, <2>1 DEF Good, Chunk, Occupied
  <2>2. CASE ch.free = {}
    <3>1. o = ch.top /\ ch.top < K /\ ch.top \in Nat
      BY <2>2, <1>1 DEF SlotOf, HasSlot, Chunk
    <3> QED
      BY <3>1, <2>2, <1>1 DEF Slots, Occupied
  <2> QED
    BY <2>1, <2>2
<1>3. /\ new.data = [ch.data EXCEPT ![o] = obj] /\ new.alive = ch.alive + 1
      /\ new.free = ch.free \ {o}
      /\ new.top = (IF ch.free # {} THEN ch.top ELSE ch.top + 1)
  BY <1>1 DEF Filled, Taken, Chunk
<1>4. obj # Empty
  BY GcAssumption
<1>5. ch.top \in Nat /\ ch.top <= K /\ (ch.free = {} => ch.top < K)
  BY <1>1 DEF Chunk, HasSlot
<1>6. new \in Chunk
  <2> HIDE DEF o
  <2>1. [ch.data EXCEPT ![o] = obj] \in [Slots -> Object \cup {Empty}]
    BY <1>1, <1>2 DEF Chunk
  <2>2. (IF ch.free # {} THEN ch.top ELSE ch.top + 1) \in 0 .. K
    BY <1>1, <1>5
  <2>3. ch.free \ {o} \in SUBSET Slots /\ ch.alive + 1 \in Nat
    BY <1>1 DEF Chunk
  <2> QED
    BY <1>1, <2>1, <2>2, <2>3 DEF Filled, Taken, Chunk
<1> HIDE DEF o, new
<1>7. \A p \in new.free : p < new.top /\ new.data[p] = Empty
  BY <1>1, <1>3, <1>5 DEF Good, Chunk
<1>8. Occupied(new) = Occupied(ch) \cup {o}
  <2>1. \A p \in Slots : (p < new.top /\ new.data[p] # Empty) <=> (p = o \/ (p < ch.top /\ ch.data[p] # Empty))
    <3> SUFFICES ASSUME NEW p \in Slots
                 PROVE  (p < new.top /\ new.data[p] # Empty) <=> (p = o \/ (p < ch.top /\ ch.data[p] # Empty))
      OBVIOUS
    <3>1. new.data[p] = IF p = o THEN obj ELSE ch.data[p]
      BY <1>1, <1>3 DEF Chunk
    <3>2. CASE p = o
      BY <3>1, <3>2, <1>2, <1>3, <1>4
    <3>3. CASE p # o
      <4>1. CASE ch.free # {}
        BY <3>1, <3>3, <4>1, <1>3
      <4>2. CASE ch.free = {}
        <5>1. o = ch.top
          BY <4>2 DEF SlotOf, o
        <5>2. p < new.top <=> p < ch.top
          BY <5>1, <4>2, <3>3, <1>3, <1>5, <1>1 DEF Slots
        <5> QED
          BY <5>2, <3>1, <3>3
      <4> QED
        BY <4>1, <4>2
    <3> QED
      BY <3>2, <3>3
  <2> QED
    BY <2>1, <1>2 DEF Occupied
<1>9. new.alive <= Cardinality(Occupied(new))
  <2>1. Occupied(ch) \in SUBSET Slots
    BY DEF Occupied
  <2>2. IsFiniteSet(Occupied(ch)) /\ Cardinality(Occupied(ch)) \in Nat
    BY <2>1, SlotSets
  <2>3. Cardinality(Occupied(new)) = Cardinality(Occupied(ch)) + 1
    BY <2>2, <1>2, <1>8, FS_AddElement
  <2> QED
    BY <2>2, <2>3, <1>1, <1>3 DEF Good, Chunk
<1> QED
  BY <1>2, <1>6, <1>7, <1>9 DEF Good, new, o

-----------------------------------------------------------------------------
(* The heap *)

LEMMA HeapFacts ==
  ASSUME NEW cs, Heap(cs)
  PROVE  /\ Len(cs) \in Nat /\ DOMAIN cs = 1 .. Len(cs)
         /\ cs \in [1 .. Len(cs) -> Chunk]
         /\ \A c \in 1 .. Len(cs) : Good(cs[c]) /\ cs[c] \in Chunk
<1>1. Len(cs) \in Nat /\ DOMAIN cs = 1 .. Len(cs) /\ cs \in [1 .. Len(cs) -> Chunk]
  BY LenProperties DEF Heap
<1> QED
  BY <1>1 DEF Heap, Good

(* A function of 1 .. n whose chunks are Good is a heap.                    *)
LEMMA HeapOf ==
  ASSUME NEW n \in Nat, NEW cs, cs = [c \in 1 .. n |-> cs[c]],
         \A c \in 1 .. n : Good(cs[c])
  PROVE  Heap(cs) /\ Len(cs) = n
<1>1. \A c \in 1 .. n : cs[c] \in Chunk
  BY DEF Good
<1>2. cs \in [1 .. n -> Chunk]
  BY <1>1
<1>3. cs \in Seq(Chunk)
  BY <1>2, SeqDef
<1>4. DOMAIN cs = 1 .. n /\ DOMAIN cs = 1 .. Len(cs) /\ Len(cs) \in Nat
  BY <1>2, <1>3, LenProperties
<1> QED
  BY <1>3, <1>4 DEF Heap

(* Collecting keeps the chunks, each of them Good.                          *)
LEMMA CollectedHeap ==
  ASSUME Heap(chunks), NEW marked, NEW deep
  PROVE  Heap(Collected(marked, deep)) /\ Len(Collected(marked, deep)) = Len(chunks)
<1> DEFINE cs == Collected(marked, deep)
<1>1. Len(chunks) \in Nat /\ DOMAIN chunks = 1 .. Len(chunks)
  BY HeapFacts
<1>2. cs = [c \in 1 .. Len(chunks) |-> cs[c]]
  BY <1>1 DEF Collected
<1>3. ASSUME NEW c \in 1 .. Len(chunks)
      PROVE  Good(cs[c])
  <2>1. Good(chunks[c])
    BY HeapFacts
  <2>2. cs[c] = Aged(Swept(chunks[c], MarksIn(marked, c)), deep)
    BY <1>1 DEF Collected
  <2> QED
    BY <2>1, <2>2, SweptGood, AgedGood
<1> HIDE DEF cs
<1> QED
  BY <1>1, <1>2, <1>3, HeapOf DEF cs

(* The chunk chosen is one with a slot, or the next number.                 *)
LEMMA ChunkForHas ==
  ASSUME NEW cs, Heap(cs), NEW a \in DOMAIN cs
  PROVE  \/ ChunkFor(cs, a) \in DOMAIN cs /\ HasSlot(cs[ChunkFor(cs, a)])
         \/ ChunkFor(cs, a) = Len(cs) + 1
<1>1. CASE HasSlot(cs[a])
  BY <1>1 DEF ChunkFor
<1>2. CASE ~ HasSlot(cs[a]) /\ Candidates(cs) = {}
  BY <1>2 DEF ChunkFor
<1>3. CASE ~ HasSlot(cs[a]) /\ Candidates(cs) # {}
  <2> DEFINE turns == {Turn(c, cs, a) : c \in Candidates(cs)}
  <2>1. Len(cs) \in Nat /\ DOMAIN cs = 1 .. Len(cs)
    BY HeapFacts
  <2>2. \A c \in Candidates(cs) : c \in 1 .. Len(cs)
    BY <2>1 DEF Candidates
  <2>3. \A c \in Candidates(cs) : Turn(c, cs, a) \in Nat
    <3> SUFFICES ASSUME NEW c \in Candidates(cs)
                 PROVE  Turn(c, cs, a) \in Nat
      OBVIOUS
    <3>1. c - a - 1 \in Int /\ Len(cs) + 1 \in Nat \ {0}
      BY <2>1, <2>2
    <3> QED
      BY <3>1 DEF Turn
  <2>4. turns \in SUBSET Nat /\ turns # {}
    BY <1>3, <2>3
  <2>5. PICK least \in turns : \A n \in turns : least <= n
    BY <2>4, LeastNat
  <2>6. \E c \in Candidates(cs) :
           \A d \in Candidates(cs) : Turn(c, cs, a) <= Turn(d, cs, a)
    BY <2>5
  <2>7. ChunkFor(cs, a) \in Candidates(cs)
    BY <2>6, <1>3 DEF ChunkFor
  <2> QED
    BY <2>7 DEF Candidates
<1> QED
  BY <1>1, <1>2, <1>3

LEMMA NewGood == Good(NewChunk) /\ HasSlot(NewChunk)
<1>1. K \in Nat \ {0} /\ Cardinality(Occupied(NewChunk)) \in Nat
  BY SlotSets DEF Occupied
<1>2. NewChunk \in Chunk
  BY <1>1 DEF NewChunk, Chunk
<1> QED
  BY <1>1, <1>2 DEF NewChunk, Good, HasSlot

(* Placing an object: the heap it leaves, and where the object is.          *)
LEMMA PlacedHeap ==
  ASSUME NEW cs, Heap(cs), NEW a \in DOMAIN cs, NEW obj \in Object,
         NEW p, p = Placed(cs, a, obj)
  PROVE  /\ Heap(p.chunks)
         /\ p.at = <<p.at[1], p.at[2]>> /\ p.at[1] \in DOMAIN p.chunks /\ p.at[2] \in Slots
         /\ DOMAIN cs \subseteq DOMAIN p.chunks
         /\ Len(p.chunks) = Len(cs) \/ Len(p.chunks) = p.at[1]
<1> DEFINE c     == ChunkFor(cs, a)
           grown == [d \in DOMAIN cs \cup {c} |-> IF d \in DOMAIN cs THEN cs[d] ELSE NewChunk]
           n     == IF c > Len(cs) THEN Len(cs) + 1 ELSE Len(cs)
           new   == Filled(grown[c], SlotOf(grown[c]), obj)
<1>1. Len(cs) \in Nat /\ DOMAIN cs = 1 .. Len(cs)
      /\ \A d \in 1 .. Len(cs) : Good(cs[d])
  BY HeapFacts
<1>2. (c \in 1 .. Len(cs) /\ HasSlot(cs[c])) \/ c = Len(cs) + 1
  BY <1>1, ChunkForHas
<1>3. p.chunks = [grown EXCEPT ![c] = new] /\ p.at = <<c, SlotOf(grown[c])>>
  BY DEF Placed
<1> HIDE DEF c
<1>4. n \in Nat /\ c \in 1 .. n
  BY <1>1, <1>2
<1>5. grown = [d \in 1 .. n |-> IF d \in 1 .. Len(cs) THEN cs[d] ELSE NewChunk]
  <2>1. DOMAIN cs \cup {c} = 1 .. n
    BY <1>1, <1>2
  <2> QED
    BY <2>1, <1>1
<1> HIDE DEF grown
<1>6. \A d \in 1 .. n : Good(grown[d])
  BY <1>1, <1>4, <1>5, NewGood
<1>7. HasSlot(grown[c])
  BY <1>1, <1>2, <1>4, <1>5, NewGood
<1>8. SlotOf(grown[c]) \in Slots /\ Good(new)
  BY <1>4, <1>6, <1>7, FilledGood
<1> HIDE DEF new, n
<1>9. p.chunks = [d \in 1 .. n |-> IF d = c THEN new ELSE grown[d]]
  BY <1>3, <1>4, <1>5
<1>10. \A d \in 1 .. n : Good(p.chunks[d])
  BY <1>6, <1>8, <1>9
<1>11. p.chunks = [d \in 1 .. n |-> p.chunks[d]]
  BY <1>9
<1>12. Heap(p.chunks) /\ Len(p.chunks) = n /\ DOMAIN p.chunks = 1 .. n
  BY <1>4, <1>9, <1>10, <1>11, HeapOf
<1>13. n = Len(cs) \/ n = c
  <2>1. CASE c \in 1 .. Len(cs)
    <3>1. ~ (c > Len(cs))
      BY <2>1, <1>1
    <3> QED
      BY <3>1 DEF n
  <2>2. CASE c = Len(cs) + 1
    <3>1. c > Len(cs)
      BY <2>2, <1>1
    <3> QED
      BY <3>1, <2>2 DEF n
  <2> QED
    BY <2>1, <2>2, <1>2
<1>14. Len(cs) <= n
  BY <1>1 DEF n
<1> QED
  BY <1>1, <1>3, <1>4, <1>8, <1>12, <1>13, <1>14

-----------------------------------------------------------------------------
(* The steps *)

(* What an allocation leaves, with or without a collection first.           *)
LEMMA AllocationKeeps ==
  ASSUME Heap(chunks), Types, NEW obj \in Object, NEW scr, NEW loses,
         NEW out \in Outcomes(obj, scr, loses), Allocates(out)
  PROVE  /\ Heap(chunks') /\ Len(chunks') <= MaxChunks
         /\ active' \in DOMAIN chunks' /\ DOMAIN chunks \subseteq DOMAIN chunks'
         /\ out.at \in Index /\ out.at[1] \in DOMAIN chunks'
         /\ harm' \subseteq {"low", "reset", "mid", "inner", "pool", "epoch"}
<1>1. PICK cycle \in Cycles : out = Outcome(obj, scr, loses, cycle) /\ out.at[1] <= MaxChunks
  BY DEF Outcomes
<1> DEFINE marked == Marked(scr, cycle[2], cycle[1] = "deep")
           cs     == IF cycle[1] # "none" THEN Collected(marked, cycle[1] = "deep") ELSE chunks
           p      == Placed(cs, active, obj)
<1>2. Heap(cs) /\ Len(cs) = Len(chunks)
  BY CollectedHeap
<1>3. out.chunks = p.chunks /\ out.at = p.at
      /\ out.harm \subseteq harm \cup {"low", "reset", "mid", "epoch"}
  BY <1>1 DEF Outcome
<1> HIDE DEF cs
<1>4. DOMAIN cs = DOMAIN chunks /\ Len(chunks) \in Nat
  BY <1>2, HeapFacts
<1>5. active \in DOMAIN cs
  BY <1>4 DEF Types
<1>6. /\ Heap(p.chunks)
      /\ p.at = <<p.at[1], p.at[2]>> /\ p.at[1] \in DOMAIN p.chunks /\ p.at[2] \in Slots
      /\ DOMAIN cs \subseteq DOMAIN p.chunks
      /\ Len(p.chunks) = Len(cs) \/ Len(p.chunks) = p.at[1]
  BY <1>2, <1>5, PlacedHeap
<1> HIDE DEF p
<1>7. chunks' = p.chunks /\ active' = p.at[1] /\ harm' = out.harm
  BY <1>3 DEF Allocates
<1>8. Len(p.chunks) <= MaxChunks
  BY <1>1, <1>2, <1>3, <1>6 DEF Types
<1>9. p.at[1] \in 0 .. MaxChunks
  <2>1. Len(p.chunks) \in Nat /\ DOMAIN p.chunks = 1 .. Len(p.chunks) /\ MaxChunks \in Nat
    BY <1>6, HeapFacts, GcAssumption
  <2> QED
    BY <2>1, <1>6, <1>8
<1>10. p.at \in Index
  BY <1>6, <1>9 DEF Index
<1> QED
  BY <1>3, <1>4, <1>6, <1>7, <1>8, <1>10 DEF Types

(* A reference into the scratch area, or to a chunk.                        *)
LEMMA IndexParts ==
  ASSUME NEW at \in Index
  PROVE  /\ IsScratch(at) => at[2] \in 0 .. S - 1
         /\ ~ IsScratch(at) => at[1] \in 0 .. MaxChunks /\ at[2] \in Slots
<1>1. MaxChunks \in Nat /\ Scratch \notin 0 .. MaxChunks
  BY GcAssumption DEF Scratch
<1> QED
  BY <1>1 DEF Index, IsScratch

LEMMA NilAndEmpty == Empty \notin Object /\ Nil \notin Reference /\ Nil \in Ref
  BY GcAssumption DEF Ref

(* What a register's reference finds is an object or nothing.               *)
LEMMA FoundType ==
  ASSUME Heap(chunks), Types, NEW r \in Regs, regs[r] # Nil
  PROVE  /\ Found(r) \in Object \cup {Empty}
         /\ IsScratch(regs[r].at) => Found(r) = scratch[regs[r].at[2]]
         /\ regs[r].at[1] \in DOMAIN chunks
              => regs[r].at[2] \in Slots
                 /\ Found(r) = chunks[regs[r].at[1]].data[regs[r].at[2]]
<1> DEFINE at == regs[r].at
<1>1. at \in Index
  BY DEF Types, Ref, Reference
<1>2. DOMAIN chunks = 1 .. Len(chunks) /\ \A c \in 1 .. Len(chunks) : chunks[c] \in Chunk
  BY HeapFacts
<1>3. Found(r) = CASE IsScratch(at) -> scratch[at[2]]
                   [] at[1] = 0 -> [watched |-> FALSE, ref |-> pool]
                   [] at[1] \in DOMAIN chunks -> chunks[at[1]].data[at[2]]
                   [] OTHER -> Empty
  BY DEF Found, ObjectAt
<1> HIDE DEF at
<1>4. CASE IsScratch(at)
  <2>1. Len(chunks) \in Nat /\ Len(chunks) <= MaxChunks /\ MaxChunks \in Nat
    BY HeapFacts, GcAssumption DEF Types
  <2>2. at[1] # 0 /\ at[1] \notin DOMAIN chunks
    BY <1>2, <1>4, <2>1 DEF IsScratch, Scratch
  <2>3. Found(r) = scratch[at[2]]
    BY <1>3, <1>4, <2>2
  <2>4. at[2] \in 0 .. S - 1
    BY <1>1, <1>4, IndexParts
  <2> QED
    BY <2>2, <2>3, <2>4, <1>4 DEF Types, at
<1>5. CASE ~ IsScratch(at) /\ at[1] = 0
  <2>1. at[1] \notin DOMAIN chunks
    BY <1>2, <1>5, HeapFacts
  <2>2. Found(r) = [watched |-> FALSE, ref |-> pool]
    BY <1>3, <1>5, <2>1
  <2> QED
    BY <2>1, <2>2, <1>5 DEF Types, Object, at
<1>6. CASE ~ IsScratch(at) /\ at[1] # 0 /\ at[1] \in DOMAIN chunks
  <2>1. at[2] \in Slots /\ Found(r) = chunks[at[1]].data[at[2]]
    BY <1>1, <1>3, <1>6, IndexParts
  <2> QED
    BY <2>1, <1>2, <1>6 DEF Chunk, at
<1>7. CASE ~ IsScratch(at) /\ at[1] # 0 /\ at[1] \notin DOMAIN chunks
  BY <1>3, <1>7 DEF at
<1> QED
  BY <1>4, <1>5, <1>6, <1>7

LEMMA RemappedRef ==
  ASSUME NEW v \in Ref, \A i \in DOMAIN remap : remap[i] \in Index
  PROVE  Remapped(v) \in Ref
  BY DEF Remapped, Ref, Reference

LEMMA RewrittenGood ==
  ASSUME NEW ch, Good(ch), NEW os \in SUBSET Slots,
         \A i \in DOMAIN remap : remap[i] \in Index
  PROVE  Good(Rewritten(ch, os))
<1> DEFINE new  == Rewritten(ch, os)
           data == [o \in Slots |-> IF o \in os /\ ch.data[o] # Empty
                                    THEN [ch.data[o] EXCEPT !.ref = Remapped(@)] ELSE ch.data[o]]
<1>1. ch \in Chunk
  BY DEF Good
<1>2. ASSUME NEW o \in Slots
      PROVE  data[o] \in Object \cup {Empty} /\ (data[o] = Empty <=> ch.data[o] = Empty)
  <2>1. CASE o \in os /\ ch.data[o] # Empty
    <3>1. ch.data[o] \in Object
      BY <1>1, <2>1 DEF Chunk
    <3>2. Remapped(ch.data[o].ref) \in Ref
      BY <3>1, RemappedRef DEF Object
    <3>3. [ch.data[o] EXCEPT !.ref = Remapped(@)] \in Object
      BY <3>1, <3>2 DEF Object
    <3> QED
      BY <3>3, <2>1, NilAndEmpty
  <2>2. CASE ~ (o \in os /\ ch.data[o] # Empty)
    BY <2>2, <1>1 DEF Chunk
  <2> QED
    BY <2>1, <2>2
<1>3. data \in [Slots -> Object \cup {Empty}]
  BY <1>2
<1>4. (IF ch.gen >= 1 THEN ch.dirty \cup os ELSE ch.dirty) \in SUBSET Slots
  BY <1>1 DEF Chunk
<1>5. new = [ch EXCEPT !.data = data, !.dirty = IF ch.gen >= 1 THEN ch.dirty \cup os ELSE ch.dirty]
  BY DEF Rewritten
<1> HIDE DEF data, new
<1>6. new \in Chunk /\ new.data = data
      /\ new.top = ch.top /\ new.free = ch.free /\ new.alive = ch.alive
  BY <1>1, <1>3, <1>4, <1>5 DEF Chunk
<1>7. Good(new)
  BY <1>2, <1>6, SameSlots
<1> QED
  BY <1>7 DEF new

LEMMA HeldRef ==
  ASSUME Types, NEW v \in Held
  PROVE  v \in Ref
  BY NilAndEmpty DEF Held, Types

(* A step that leaves the heap, the scratch area and the safe point alone.  *)
LEMMA RegistersKeep ==
  ASSUME Inv, NEW r \in Regs, NEW v \in Ref,
         regs' = [regs EXCEPT ![r] = v], UNCHANGED <<heapVars, phase>>
  PROVE  Inv'
<1>1. regs' \in [Regs -> Ref]
  BY DEF Inv, Types
<1>2. Types'
  BY <1>1 DEF Inv, Types, heapVars, safeVars, madeVars
<1>3. Heap(chunks)' /\ Promoting'
  BY DEF Inv, Heap, Good, Occupied, Promoting, heapVars, safeVars, madeVars
<1> QED
  BY <1>2, <1>3 DEF Inv

LEMMA AllocKeeps ==
  ASSUME Inv, NEW r \in Regs, NEW v \in Held, Alloc(r, v)
  PROVE  Inv'
<1>1. PICK w \in BOOLEAN :
        /\ Makes(w)
        /\ \E out \in Outcomes([watched |-> w, ref |-> v], scratch, FALSE) :
              /\ Allocates(out)
              /\ regs' = [regs EXCEPT ![r] = [at |-> out.at, watched |-> w]]
  BY DEF Alloc
<1>2. PICK out \in Outcomes([watched |-> w, ref |-> v], scratch, FALSE) :
        Allocates(out) /\ regs' = [regs EXCEPT ![r] = [at |-> out.at, watched |-> w]]
  BY <1>1
<1>3. [watched |-> w, ref |-> v] \in Object
  BY HeldRef DEF Inv, Object
<1>4. /\ Heap(chunks') /\ Len(chunks') <= MaxChunks
      /\ active' \in DOMAIN chunks' /\ DOMAIN chunks \subseteq DOMAIN chunks'
      /\ out.at \in Index /\ out.at[1] \in DOMAIN chunks'
      /\ harm' \subseteq {"low", "reset", "mid", "inner", "pool", "epoch"}
  BY <1>2, <1>3, AllocationKeeps DEF Inv
<1>5. regs' \in [Regs -> Ref]
  BY <1>2, <1>4 DEF Inv, Types, Ref, Reference
<1>6. made' \in 0 .. MaxMade /\ stored' \in 0 .. MaxStored /\ watching' \in BOOLEAN
  BY <1>1, GcAssumption DEF Inv, Types, Makes, Watch
<1>7. UNCHANGED <<scratch, scratch_top, pool, phase, left, remap>>
  BY DEF Alloc, safeVars
<1>8. Types'
  BY <1>4, <1>5, <1>6, <1>7 DEF Inv, Types
<1>9. Promoting'
  BY <1>4, <1>7 DEF Inv, Promoting
<1> QED
  BY <1>4, <1>8, <1>9 DEF Inv

LEMMA AllocScratchKeeps ==
  ASSUME Inv, NEW r \in Regs, NEW v \in Held, AllocScratch(r, v)
  PROVE  Inv'
<1>1. PICK w \in BOOLEAN :
        /\ Makes(w)
        /\ scratch' = [scratch EXCEPT ![scratch_top] = [watched |-> w, ref |-> v]]
        /\ regs' = [regs EXCEPT ![r] = [at |-> <<Scratch, scratch_top>>, watched |-> w]]
  BY DEF AllocScratch
<1>2. [watched |-> w, ref |-> v] \in Object
  BY HeldRef DEF Inv, Object
<1>3. /\ UNCHANGED <<chunks, active, pool, phase, left, remap, harm>>
      /\ phase = "run" /\ scratch_top < S /\ scratch_top' = scratch_top + 1
  BY DEF AllocScratch, Running, safeVars
<1>4. S \in Nat /\ scratch_top \in 0 .. S - 1 /\ scratch_top' \in 0 .. S
  BY <1>3, GcAssumption DEF Inv, Types
<1>5. scratch' \in [0 .. S - 1 -> Object \cup {Empty}]
  BY <1>1, <1>2, <1>4 DEF Inv, Types
<1>6. regs' \in [Regs -> Ref]
  <2>1. <<Scratch, scratch_top>> \in Index
    BY <1>4 DEF Index
  <2> QED
    BY <2>1, <1>1 DEF Inv, Types, Ref, Reference
<1>7. made' \in 0 .. MaxMade /\ stored' \in 0 .. MaxStored /\ watching' \in BOOLEAN
  BY <1>1, GcAssumption DEF Inv, Types, Makes, Watch
<1>8. Types'
  BY <1>3, <1>4, <1>5, <1>6, <1>7 DEF Inv, Types
<1>9. \A i \in 0 .. S - 1 : i < scratch_top' => scratch'[i] # Empty
  <2> SUFFICES ASSUME NEW i \in 0 .. S - 1, i < scratch_top'
               PROVE  scratch'[i] # Empty
    OBVIOUS
  <2>1. CASE i = scratch_top
    BY <2>1, <1>1, <1>2, NilAndEmpty DEF Inv, Types
  <2>2. CASE i # scratch_top
    <3>1. i < scratch_top
      BY <2>2, <1>3, <1>4
    <3> QED
      BY <3>1, <2>2, <1>1, <1>3 DEF Inv, Types, Promoting
  <2> QED
    BY <2>1, <2>2
<1>10. Heap(chunks)' /\ Promoting'
  BY <1>3, <1>9 DEF Inv, Heap, Good, Occupied, Promoting
<1> QED
  BY <1>8, <1>10 DEF Inv

LEMMA ScratchFullKeeps ==
  ASSUME Inv, NEW v \in Held, ScratchFull(v)
  PROVE  Inv'
<1>1. PICK w \in BOOLEAN :
        /\ Makes(w)
        /\ \E out \in Outcomes([watched |-> w, ref |-> v], scratch, FALSE) : Allocates(out)
  BY DEF ScratchFull
<1>2. PICK out \in Outcomes([watched |-> w, ref |-> v], scratch, FALSE) : Allocates(out)
  BY <1>1
<1>3. [watched |-> w, ref |-> v] \in Object
  BY HeldRef DEF Inv, Object
<1>4. /\ Heap(chunks') /\ Len(chunks') <= MaxChunks
      /\ active' \in DOMAIN chunks' /\ DOMAIN chunks \subseteq DOMAIN chunks'
      /\ harm' \subseteq {"low", "reset", "mid", "inner", "pool", "epoch"}
  BY <1>2, <1>3, AllocationKeeps DEF Inv
<1>5. made' \in 0 .. MaxMade /\ stored' \in 0 .. MaxStored /\ watching' \in BOOLEAN
  BY <1>1, GcAssumption DEF Inv, Types, Makes, Watch
<1>6. phase' = "panicked" /\ UNCHANGED <<scratch, scratch_top, pool, regs, left, remap>>
  BY DEF ScratchFull, safeVars
<1>7. Types'
  BY <1>4, <1>5, <1>6 DEF Inv, Types
<1>8. Promoting'
  BY <1>4, <1>6 DEF Inv, Promoting
<1> QED
  BY <1>4, <1>7, <1>8 DEF Inv

(* A chunk with a new reference in one of its objects, or a dirty slot more. *)
LEMMA StoredGood ==
  ASSUME NEW ch, Good(ch), NEW o \in Slots, ch.data[o] # Empty, NEW v \in Ref
  PROVE  Good([ch EXCEPT !.data[o].ref = v])
<1> DEFINE new == [ch EXCEPT !.data[o].ref = v]
           data == [ch.data EXCEPT ![o] = [ch.data[o] EXCEPT !.ref = v]]
<1>1. ch \in Chunk
  BY DEF Good
<1>2. ch.data[o] \in Object /\ [ch.data[o] EXCEPT !.ref = v] \in Object
  BY <1>1 DEF Chunk, Object
<1>3. data \in [Slots -> Object \cup {Empty}]
  BY <1>1, <1>2 DEF Chunk
<1>4. \A p \in Slots : data[p] = Empty <=> ch.data[p] = Empty
  <2>1. \A p \in Slots : data[p] = IF p = o THEN [ch.data[o] EXCEPT !.ref = v] ELSE ch.data[p]
    BY <1>1 DEF Chunk
  <2> QED
    BY <2>1, <1>2, NilAndEmpty
<1>5. new = [ch EXCEPT !.data = data]
  OBVIOUS
<1> HIDE DEF data, new
<1>6. new \in Chunk /\ new.data = data
      /\ new.top = ch.top /\ new.free = ch.free /\ new.alive = ch.alive
  BY <1>1, <1>3, <1>5 DEF Chunk
<1>7. Good(new)
  BY <1>4, <1>6, SameSlots
<1> QED
  BY <1>7 DEF new

LEMMA SoiledGood ==
  ASSUME NEW ch, Good(ch), NEW o \in Slots
  PROVE  Good([ch EXCEPT !.dirty = @ \cup {o}])
<1>1. ch \in Chunk
  BY DEF Good
<1>2. [ch EXCEPT !.dirty = @ \cup {o}] \in Chunk
  BY <1>1 DEF Chunk
<1> QED
  BY <1>1, <1>2, SameSlots DEF Chunk

(* The heap with one chunk replaced by a Good one.                          *)
LEMMA ReplacedHeap ==
  ASSUME NEW cs, Heap(cs), NEW c \in DOMAIN cs, NEW new, Good(new)
  PROVE  /\ Heap([cs EXCEPT ![c] = new])
         /\ Len([cs EXCEPT ![c] = new]) = Len(cs)
         /\ DOMAIN [cs EXCEPT ![c] = new] = DOMAIN cs
<1> DEFINE to == [cs EXCEPT ![c] = new]
<1>1. Len(cs) \in Nat /\ DOMAIN cs = 1 .. Len(cs)
      /\ \A d \in 1 .. Len(cs) : Good(cs[d])
  BY HeapFacts
<1>2. DOMAIN to = 1 .. Len(cs) /\ to = [d \in 1 .. Len(cs) |-> to[d]]
  BY <1>1
<1>3. \A d \in 1 .. Len(cs) : Good(to[d])
  BY <1>1
<1> HIDE DEF to
<1>4. Heap(to) /\ Len(to) = Len(cs)
  BY <1>1, <1>2, <1>3, HeapOf
<1> QED
  BY <1>1, <1>2, <1>4 DEF to

LEMMA StoreKeeps ==
  ASSUME Inv, NEW r \in Regs, NEW v \in Held, Store(r, v)
  PROVE  Inv'
<1> DEFINE at == regs[r].at
<1>1. /\ phase = "run" /\ regs[r] # Nil /\ Found(r) # Empty /\ Stores
      /\ UNCHANGED <<active, scratch_top, regs, phase, left, remap>>
  BY DEF Store, Running, safeVars
<1>2. v \in Ref /\ at \in Index
  BY <1>1, HeldRef DEF Inv, Types, Ref, Reference
<1>3. Found(r) \in Object
  BY <1>1, FoundType DEF Inv
<1>4. made' \in 0 .. MaxMade /\ stored' \in 0 .. MaxStored /\ watching' \in BOOLEAN
  BY <1>1, GcAssumption DEF Inv, Types, Stores
<1>5. CASE /\ IsScratch(at)
           /\ scratch' = [scratch EXCEPT ![at[2]].ref = v] /\ UNCHANGED <<chunks, pool, harm>>
  <2>1. scratch' = [scratch EXCEPT ![at[2]].ref = v] /\ UNCHANGED <<chunks, pool, harm>>
    BY <1>5
  <2>2. at[2] \in 0 .. S - 1 /\ Found(r) = scratch[at[2]]
    BY <1>1, <1>2, <1>5, IndexParts, FoundType DEF Inv
  <2>3. [scratch[at[2]] EXCEPT !.ref = v] \in Object
    BY <1>2, <1>3, <2>2 DEF Object
  <2>4. scratch' \in [0 .. S - 1 -> Object \cup {Empty}]
        /\ \A i \in 0 .. S - 1 : scratch[i] # Empty => scratch'[i] # Empty
    BY <2>1, <2>2, <2>3, NilAndEmpty DEF Inv, Types
  <2>5. Types'
    BY <1>1, <1>4, <2>1, <2>4 DEF Inv, Types
  <2>6. Heap(chunks)' /\ Promoting'
    BY <1>1, <2>1, <2>4 DEF Inv, Heap, Good, Occupied, Promoting
  <2> QED
    BY <2>5, <2>6 DEF Inv
<1>6. CASE /\ pool' = v /\ UNCHANGED <<chunks, scratch>>
           /\ harm' = harm \cup (IF v = Nil \/ v.at[1] = 0 THEN {} ELSE {"pool"})
  <2>2. Types'
    BY <1>1, <1>2, <1>4, <1>6 DEF Inv, Types
  <2>3. Heap(chunks)' /\ Promoting'
    BY <1>1, <1>6 DEF Inv, Heap, Good, Occupied, Promoting
  <2> QED
    BY <2>2, <2>3 DEF Inv
<1>7. CASE /\ at[1] \in DOMAIN chunks
           /\ chunks' = [chunks EXCEPT ![at[1]].data[at[2]].ref = v]
           /\ UNCHANGED <<scratch, pool, harm>>
  <2>1. chunks' = [chunks EXCEPT ![at[1]].data[at[2]].ref = v]
        /\ UNCHANGED <<scratch, pool, harm>>
    BY <1>7
  <2>2. at[1] \in DOMAIN chunks /\ at[2] \in Slots
        /\ chunks[at[1]].data[at[2]] # Empty
    BY <1>1, <1>7, FoundType DEF Inv
  <2>3. Good(chunks[at[1]])
    BY <2>2, HeapFacts DEF Inv
  <2> DEFINE new == [chunks[at[1]] EXCEPT !.data[at[2]].ref = v]
  <2>4. Good(new)
    BY <1>2, <2>2, <2>3, StoredGood
  <2>5. chunks' = [chunks EXCEPT ![at[1]] = new]
    BY <2>1
  <2> HIDE DEF new
  <2>6. Heap(chunks') /\ Len(chunks') = Len(chunks) /\ DOMAIN chunks' = DOMAIN chunks
    BY <2>2, <2>4, <2>5, ReplacedHeap DEF Inv
  <2>7. Types'
    BY <1>1, <1>4, <2>1, <2>6 DEF Inv, Types
  <2>8. Promoting'
    BY <1>1, <2>1, <2>6 DEF Inv, Promoting
  <2> QED
    BY <2>6, <2>7, <2>8 DEF Inv
<1> QED
  BY <1>5, <1>6, <1>7 DEF Store

LEMMA TouchKeeps ==
  ASSUME Inv, NEW r \in Regs, Touch(r)
  PROVE  Inv'
<1> DEFINE at == regs[r].at
<1>1. /\ regs[r] # Nil /\ Found(r) # Empty /\ Stores /\ at[1] \in DOMAIN chunks
      /\ chunks' = Soiled(chunks, at)
      /\ UNCHANGED <<active, scratch, scratch_top, pool, regs, phase, left, remap, harm>>
  BY DEF Touch, safeVars
<1>2. at \in Index
  BY <1>1 DEF Inv, Types, Ref, Reference
<1>3. at[2] \in Slots
  <2>1. Len(chunks) \in Nat /\ DOMAIN chunks = 1 .. Len(chunks)
        /\ Len(chunks) <= MaxChunks /\ MaxChunks \in Nat
    BY HeapFacts, GcAssumption DEF Inv, Types
  <2>2. ~ IsScratch(at)
    BY <1>1, <2>1 DEF IsScratch, Scratch
  <2> QED
    BY <1>2, <2>2, IndexParts
<1>4. Good(chunks[at[1]])
  BY <1>1, HeapFacts DEF Inv
<1> DEFINE new == [chunks[at[1]] EXCEPT !.dirty = @ \cup {at[2]}]
<1>5. Good(new)
  BY <1>3, <1>4, SoiledGood
<1>6. chunks' = [chunks EXCEPT ![at[1]] = new] \/ chunks' = chunks
  BY <1>1 DEF Soiled
<1> HIDE DEF new
<1>7. Heap(chunks') /\ Len(chunks') = Len(chunks) /\ DOMAIN chunks' = DOMAIN chunks
  BY <1>1, <1>5, <1>6, ReplacedHeap DEF Inv
<1>8. made' \in 0 .. MaxMade /\ stored' \in 0 .. MaxStored /\ watching' \in BOOLEAN
  BY <1>1, GcAssumption DEF Inv, Types, Stores
<1>9. Types'
  BY <1>1, <1>7, <1>8 DEF Inv, Types
<1>10. Promoting'
  BY <1>1, <1>7 DEF Inv, Promoting
<1> QED
  BY <1>7, <1>9, <1>10 DEF Inv

LEMMA SafePointKeeps ==
  ASSUME Inv, SafePoint
  PROVE  Inv'
<1>1. /\ left' = {v.at[2] : v \in {w \in Rooted(regs) : IsScratch(w.at) /\ w.at[2] < scratch_top}}
      /\ remap' = <<>> /\ phase = "run" /\ phase' = "safe"
      /\ UNCHANGED <<chunks, active, scratch, scratch_top, pool, regs, made, stored, watching, harm>>
  BY DEF SafePoint, Running, madeVars
<1>2. \A i \in left' : i \in 0 .. S - 1 /\ i < scratch_top
  <2> SUFFICES ASSUME NEW v \in Rooted(regs), IsScratch(v.at), v.at[2] < scratch_top
               PROVE  v.at[2] \in 0 .. S - 1 /\ v.at[2] < scratch_top
    BY <1>1
  <2>1. v.at \in Index
    BY DEF Rooted, Inv, Types, Ref, Reference
  <2> QED
    BY <2>1, IndexParts
<1>3. \A i \in left' : scratch[i] # Empty
  BY <1>1, <1>2 DEF Inv, Promoting
<1>4. DOMAIN remap' = {}
  BY <1>1
<1>5. Promoting'
  BY <1>1, <1>2, <1>3, <1>4 DEF Promoting
<1>6. Heap(chunks)' /\ Types'
  BY <1>1 DEF Inv, Heap, Good, Occupied, Types
<1> QED
  BY <1>5, <1>6 DEF Inv

LEMMA PromoteKeeps ==
  ASSUME Inv, NEW i \in left, Promote(i)
  PROVE  Inv'
<1>1. /\ phase = "safe" /\ left' = left \ {i}
      /\ scratch' = [scratch EXCEPT ![i] = Empty]
      /\ UNCHANGED <<scratch_top, pool, regs, phase, made, stored, watching>>
  BY DEF Promote, madeVars
<1>2. PICK out \in Outcomes(scratch[i], [scratch EXCEPT ![i] = Empty],
                           remap # <<>> \/ scratch[i].ref # Nil) :
        /\ Allocates(out)
        /\ remap' = [j \in DOMAIN remap \cup {i} |-> IF j = i THEN out.at ELSE remap[j]]
  BY DEF Promote
<1>3. i \in 0 .. S - 1 /\ scratch[i] \in Object
  BY <1>1 DEF Inv, Types, Promoting
<1>4. /\ Heap(chunks') /\ Len(chunks') <= MaxChunks
      /\ active' \in DOMAIN chunks' /\ DOMAIN chunks \subseteq DOMAIN chunks'
      /\ out.at \in Index /\ out.at[1] \in DOMAIN chunks'
      /\ harm' \subseteq {"low", "reset", "mid", "inner", "pool", "epoch"}
  BY <1>2, <1>3, AllocationKeeps DEF Inv
<1>5. scratch' \in [0 .. S - 1 -> Object \cup {Empty}]
  BY <1>1 DEF Inv, Types
<1>6. Types'
  BY <1>1, <1>4, <1>5 DEF Inv, Types
<1>7. DOMAIN remap' = {i} \cup DOMAIN remap
      /\ \A j \in DOMAIN remap' : remap'[j] = out.at \/ (j \in DOMAIN remap /\ remap'[j] = remap[j])
  BY <1>2
<1>8. \A j \in DOMAIN remap' : remap'[j] \in Index /\ remap'[j][1] \in DOMAIN chunks'
  BY <1>4, <1>7 DEF Inv, Promoting
<1>9. \A j \in left' : scratch'[j] # Empty
  BY <1>1 DEF Inv, Types, Promoting
<1>10. Promoting'
  BY <1>1, <1>3, <1>7, <1>8, <1>9 DEF Inv, Promoting
<1> QED
  BY <1>4, <1>6, <1>10 DEF Inv

LEMMA SafePointEndsKeeps ==
  ASSUME Inv, SafePointEnds
  PROVE  Inv'
<1>1. /\ chunks' = [c \in DOMAIN chunks |-> Rewritten(chunks[c], Targets(c))]
      /\ regs' = [r \in Regs |-> Remapped(regs[r])]
      /\ scratch_top' = 0 /\ phase' = "run" /\ remap' = <<>>
      /\ UNCHANGED <<active, scratch, pool, left, made, stored, watching>>
  BY DEF SafePointEnds, madeVars
<1>2. harm' \subseteq harm \cup {"inner"}
  BY DEF SafePointEnds
<1>3. \A j \in DOMAIN remap : remap[j] \in Index
  BY DEF Inv, Promoting
<1>4. Len(chunks) \in Nat /\ DOMAIN chunks = 1 .. Len(chunks)
      /\ \A c \in 1 .. Len(chunks) : Good(chunks[c])
  BY HeapFacts DEF Inv
<1>5. ASSUME NEW c \in 1 .. Len(chunks)
      PROVE  Good(chunks'[c])
  <2>1. Targets(c) \in SUBSET Slots
    BY DEF Targets
  <2>2. Good(Rewritten(chunks[c], Targets(c)))
    BY <1>3, <1>4, <2>1, RewrittenGood
  <2> QED
    BY <1>1, <1>4, <2>2
<1>6. chunks' = [c \in 1 .. Len(chunks) |-> chunks'[c]]
  BY <1>1, <1>4
<1>7. Heap(chunks') /\ Len(chunks') = Len(chunks)
  BY <1>4, <1>5, <1>6, HeapOf
<1>8. DOMAIN chunks' = DOMAIN chunks
  BY <1>1
<1>9. regs' \in [Regs -> Ref]
  BY <1>1, <1>3, RemappedRef DEF Inv, Types
<1>10. 0 \in 0 .. S
  BY GcAssumption
<1>11. Types'
  BY <1>1, <1>2, <1>7, <1>8, <1>9, <1>10 DEF Inv, Types
<1>12. Promoting'
  <2>1. DOMAIN remap' = {} /\ \A j \in 0 .. S - 1 : ~ (j < scratch_top')
    BY <1>1
  <2> QED
    BY <1>1, <2>1 DEF Inv, Promoting
<1> QED
  BY <1>7, <1>11, <1>12 DEF Inv

LEMMA InitInv == Init => Inv
<1> SUFFICES ASSUME Init
             PROVE  Inv
  OBVIOUS
<1>1. /\ FirstActive \in Nat \ {0} /\ MaxChunks \in Nat /\ FirstActive <= MaxChunks
      /\ S \in Nat /\ MaxMade \in Nat /\ MaxStored \in Nat
  BY GcAssumption
<1>2. chunks = [c \in 1 .. FirstActive |-> chunks[c]] /\ \A c \in 1 .. FirstActive : chunks[c] = NewChunk
  BY DEF Init
<1>3. Heap(chunks) /\ Len(chunks) = FirstActive
  BY <1>1, <1>2, NewGood, HeapOf
<1>4. DOMAIN chunks = 1 .. FirstActive
  BY DEF Init
<1>5. Types
  <2>1. Len(chunks) <= MaxChunks /\ active \in DOMAIN chunks
    BY <1>1, <1>3, <1>4 DEF Init
  <2>2. scratch \in [0 .. S - 1 -> Object \cup {Empty}] /\ scratch_top \in 0 .. S
    BY <1>1 DEF Init
  <2>3. pool \in Ref /\ regs \in [Regs -> Ref]
    BY NilAndEmpty DEF Init
  <2>4. made \in 0 .. MaxMade /\ stored \in 0 .. MaxStored
    BY <1>1 DEF Init
  <2>5. watching \in BOOLEAN /\ phase \in {"run", "safe", "panicked"} /\ harm = {}
    BY DEF Init
  <2> QED
    BY <2>1, <2>2, <2>3, <2>4, <2>5 DEF Types
<1>6. Promoting
  <2>1. DOMAIN remap = {} /\ left = {} /\ phase = "run" /\ scratch_top = 0
    BY DEF Init
  <2> QED
    BY <2>1 DEF Promoting
<1> QED
  BY <1>3, <1>5, <1>6 DEF Inv

LEMMA StepInv == Inv /\ [Next]_vars => Inv'
<1> SUFFICES ASSUME Inv, [Next]_vars
             PROVE  Inv'
  OBVIOUS
<1>1. ASSUME NEW r \in Regs, NEW v \in Held, Alloc(r, v)
      PROVE  Inv'
  BY <1>1, AllocKeeps
<1>2. ASSUME NEW r \in Regs, NEW v \in Held, AllocScratch(r, v)
      PROVE  Inv'
  BY <1>2, AllocScratchKeeps
<1>3. ASSUME NEW v \in Held, ScratchFull(v)
      PROVE  Inv'
  BY <1>3, ScratchFullKeeps
<1>4. ASSUME NEW r \in Regs, NEW v \in Held, Move(r, v)
      PROVE  Inv'
  <2>1. v \in Ref
    BY HeldRef DEF Inv
  <2> QED
    BY <1>4, <2>1, RegistersKeep DEF Move
<1>5. ASSUME NEW r \in Regs, NEW v \in Held, Store(r, v)
      PROVE  Inv'
  BY <1>5, StoreKeeps
<1>6. ASSUME NEW r \in Regs, LoadConst(r)
      PROVE  Inv'
  <2>1. <<0, 0>> \in Index
    BY SlotSets, GcAssumption DEF Index, Slots
  <2>2. [at |-> <<0, 0>>, watched |-> FALSE] \in Ref
    BY <2>1 DEF Ref, Reference
  <2> QED
    BY <1>6, <2>2, RegistersKeep DEF LoadConst
<1>7. ASSUME NEW r \in Regs, Touch(r)
      PROVE  Inv'
  BY <1>7, TouchKeeps
<1>8. ASSUME NEW r \in Regs, NEW q \in Regs, Load(r, q)
      PROVE  Inv'
  <2>1. regs[q] # Nil /\ Found(q) # Empty
    BY <1>8 DEF Load
  <2>2. Found(q) \in Object
    BY <2>1, FoundType DEF Inv
  <2>3. Found(q).ref \in Ref
    BY <2>2 DEF Object
  <2> QED
    BY <1>8, <2>3, RegistersKeep DEF Load
<1>9. CASE SafePoint
  BY <1>9, SafePointKeeps
<1>10. ASSUME NEW i \in left, Promote(i)
       PROVE  Inv'
  BY <1>10, PromoteKeeps
<1>11. CASE SafePointEnds
  BY <1>11, SafePointEndsKeeps
<1>12. CASE UNCHANGED vars
  BY <1>12 DEF Inv, Heap, Good, Occupied, Types, Promoting, vars
<1> QED
  BY <1>1, <1>2, <1>3, <1>4, <1>5, <1>6, <1>7, <1>8, <1>9, <1>10, <1>11, <1>12 DEF Next

LEMMA SpecInv == Spec => []Inv
<1> QED
  BY InitInv, StepInv, PTL DEF Spec

-----------------------------------------------------------------------------
(* What the invariant gives *)

(* No allocation from a free list overwrites an object: a free slot is      *)
(* below top and empty, after any sequence of allocations, collections and  *)
(* safe points, whatever these lose (Gc::sweep, pop_free).                  *)
THEOREM GcFreeLists == Spec => []FreeListSound
<1>1. Inv => FreeListSound
  BY DEF Inv, Heap, Good, FreeListSound
<1> QED
  BY <1>1, SpecInv, PTL

(* alive_count, on which promotion and the reuse of a chunk depend, never   *)
(* counts an object that is not there (Gc::sweep, alloc_with_size).         *)
THEOREM GcCounts == Spec => []AliveAtMost
<1>1. Inv => AliveAtMost
  BY DEF Inv, Heap, Good, AliveAtMost
<1> QED
  BY <1>1, SpecInv, PTL

(* The types; among them that alive_count stays within the chunk, which     *)
(* follows from the count of the objects, and that the active chunk and the  *)
(* targets of a safe point are chunks that exist.                          *)
THEOREM GcTypes == Spec => []TypeOK
<1>1. ASSUME Inv
      PROVE  TypeOK
  <2>1. Len(chunks) \in Nat /\ DOMAIN chunks = 1 .. Len(chunks)
        /\ chunks \in [1 .. Len(chunks) -> Chunk]
        /\ \A c \in 1 .. Len(chunks) : Good(chunks[c])
    BY <1>1, HeapFacts DEF Inv
  <2>2. ASSUME NEW c \in 1 .. Len(chunks)
        PROVE  chunks[c] \in ChunkType
    <3>1. Good(chunks[c]) /\ chunks[c] \in Chunk
      BY <2>1
    <3>2. Cardinality(Occupied(chunks[c])) \in Nat /\ Cardinality(Occupied(chunks[c])) <= K
          /\ K \in Nat
      <4>1. Occupied(chunks[c]) \in SUBSET Slots
        BY DEF Occupied
      <4> QED
        BY <4>1, SlotSets
    <3>3. chunks[c].alive \in 0 .. K
      BY <3>1, <3>2 DEF Good, Chunk
    <3> QED
      BY <3>1, <3>3 DEF Chunk, ChunkType
  <2>3. chunks \in [1 .. Len(chunks) -> ChunkType]
    BY <2>1, <2>2
  <2>4. chunks \in Seq(ChunkType)
    BY <2>1, <2>3, SeqDef
  <2> QED
    BY <1>1, <2>4 DEF Inv, Types, Promoting, TypeOK
<1> QED
  BY <1>1, SpecInv, PTL
-----------------------------------------------------------------------------
(* What is reached.  The recursion of Reach ends because the indices are    *)
(* finitely many; it computes the least set that has the indices it starts  *)
(* from and every index that next names of one it has.                     *)

LEMMA IndexFinite == IsFiniteSet(Index)
<1>1. IsFiniteSet(0 .. MaxChunks) /\ IsFiniteSet(0 .. S - 1) /\ IsFiniteSet({Scratch})
  <2>1. 0 \in Int /\ MaxChunks \in Int /\ S - 1 \in Int
    BY GcAssumption
  <2> QED
    BY <2>1, FS_Interval, FS_Singleton
<1>2. IsFiniteSet((0 .. MaxChunks) \X Slots) /\ IsFiniteSet({Scratch} \X (0 .. S - 1))
  BY <1>1, SlotSets, FS_Product
<1> QED
  BY <1>2, FS_Union DEF Index

Closed(t, next) == \A at \in t : next[at] \subseteq t

Least(s, next) ==
    {at \in Index : \A t \in SUBSET Index : s \subseteq t /\ Closed(t, next) => at \in t}

Grown(s, next) == s \cup UNION {next[at] : at \in s}

LEMMA GrownFacts ==
  ASSUME NEW next \in [Index -> SUBSET Index], NEW s \in SUBSET Index
  PROVE  /\ Grown(s, next) \in SUBSET Index /\ s \subseteq Grown(s, next)
         /\ Grown(s, next) = s => Least(s, next) = s
         /\ Least(Grown(s, next), next) = Least(s, next)
<1>1. Grown(s, next) \in SUBSET Index /\ s \subseteq Grown(s, next)
  BY DEF Grown
<1>2. ASSUME Grown(s, next) = s
      PROVE  Least(s, next) = s
  <2>1. Closed(s, next)
    BY <1>2 DEF Grown, Closed
  <2> QED
    BY <2>1 DEF Least
<1>3. ASSUME NEW t \in SUBSET Index, Closed(t, next)
      PROVE  s \subseteq t <=> Grown(s, next) \subseteq t
  BY <1>3 DEF Closed, Grown
<1>4. Least(Grown(s, next), next) = Least(s, next)
  BY <1>3 DEF Least
<1> QED
  BY <1>1, <1>2, <1>4

LEMMA ReachIsLeast ==
  ASSUME NEW next \in [Index -> SUBSET Index], NEW from \in SUBSET Index
  PROVE  Reach(from, next) = Least(from, next)
<1> DEFINE Step(r) == [s \in SUBSET Index |->
                         IF Grown(s, next) = s THEN s ELSE r[Grown(s, next)]]
           reach   == CHOOSE r : r = Step(r)
           least   == [s \in SUBSET Index |-> Least(s, next)]
<1>1. Reach(from, next) = reach[from]
  BY DEF Reach, Grown
<1>2. least = Step(least)
  BY GrownFacts
<1>3. reach = Step(reach)
  BY <1>2
<1> HIDE DEF reach
<1> DEFINE wrong == {s \in SUBSET Index : reach[s] # Least(s, next)}
           Missing(s) == Cardinality(Index \ s)
           counts == {Missing(s) : s \in wrong}
<1>4. \A s \in SUBSET Index : Missing(s) \in Nat
  BY IndexFinite, FS_Subset, FS_CardinalityType
<1>5. wrong = {}
  <2> SUFFICES ASSUME wrong # {}
               PROVE  FALSE
    OBVIOUS
  <2>1. counts \in SUBSET Nat /\ counts # {}
    BY <1>4
  <2>2. PICK n \in counts : \A m \in counts : n <= m
    BY <2>1, LeastNat
  <2>3. PICK s \in wrong : n = Missing(s)
    BY <2>2
  <2> DEFINE more == Grown(s, next)
  <2>4. more \in SUBSET Index /\ s \in SUBSET Index /\ s \subseteq more
    BY GrownFacts
  <2>5. reach[s] = IF more = s THEN s ELSE reach[more]
    BY <1>3, <2>4
  <2>6. more # s
    BY <2>4, <2>5, GrownFacts
  <2>7. reach[more] # Least(more, next)
    BY <2>4, <2>5, <2>6, GrownFacts
  <2> HIDE DEF more
  <2>8. Missing(more) \in counts
    BY <2>4, <2>7
  <2>9. Missing(more) < Missing(s)
    <3>1. Index \ more \subseteq Index \ s /\ Index \ more # Index \ s
      BY <2>4, <2>6
    <3>2. IsFiniteSet(Index \ s) /\ Index \ more \in SUBSET (Index \ s)
      <4>1. Index \ s \in SUBSET Index
        OBVIOUS
      <4> QED
        BY <3>1, <4>1, IndexFinite, FS_Subset
    <3>3. Cardinality(Index \ more) <= Cardinality(Index \ s)
          /\ (Cardinality(Index \ more) = Cardinality(Index \ s) => Index \ more = Index \ s)
      BY <3>1, <3>2, FS_Subset
    <3>4. Missing(more) \in Nat /\ Missing(s) \in Nat
      BY <1>4, <2>4
    <3>5. Missing(more) <= Missing(s) /\ Missing(more) # Missing(s)
      BY <3>1, <3>3
    <3> HIDE DEF Missing
    <3> QED
      BY <3>4, <3>5
  <2>10. n <= Missing(more) /\ n = Missing(s) /\ n \in Nat /\ Missing(more) \in Nat
    BY <1>4, <2>2, <2>3, <2>4, <2>8
  <2> HIDE DEF Missing
  <2> QED
    BY <2>9, <2>10
<1> QED
  BY <1>1, <1>5

(* It has what it starts from, it is closed, and it is the least such set.  *)
LEMMA ReachFacts ==
  ASSUME NEW next \in [Index -> SUBSET Index], NEW from \in SUBSET Index
  PROVE  /\ Reach(from, next) \in SUBSET Index /\ from \subseteq Reach(from, next)
         /\ \A at \in Reach(from, next) : next[at] \subseteq Reach(from, next)
         /\ \A t \in SUBSET Index :
              from \subseteq t /\ (\A at \in t : next[at] \subseteq t) => Reach(from, next) \subseteq t
<1>1. Reach(from, next) = Least(from, next)
  BY ReachIsLeast
<1>2. \A at \in Least(from, next) : next[at] \subseteq Least(from, next)
  <2> SUFFICES ASSUME NEW at \in Least(from, next), NEW to \in next[at], NEW t \in SUBSET Index,
                      from \subseteq t, Closed(t, next)
               PROVE  to \in Index /\ to \in t
    BY DEF Least
  <2>1. at \in t /\ at \in Index
    BY DEF Least
  <2> QED
    BY <2>1 DEF Closed
<1> QED
  BY <1>1, <1>2 DEF Least, Closed

-----------------------------------------------------------------------------
(* No slot of a chunk is lost.  That needs more than the free lists: a      *)
(* marked slot without an object would neither be freed nor used, so that   *)
(* what is marked has to be there.                                         *)

(* The slots without an object are the free ones and those never used.      *)
Whole(ch) == \A o \in Slots : ch.data[o] = Empty <=> (o \in ch.free \/ o >= ch.top)

Wholes(cs) == \A c \in DOMAIN cs : Whole(cs[c])

LEMMA SweptWhole ==
  ASSUME NEW ch, Good(ch), Whole(ch), NEW marks,
         \A o \in Slots : o \in marks => ch.data[o] # Empty,
         Resets(ch, Dead(ch, marks)) => \A o \in Slots \ Dead(ch, marks) : ch.data[o] = Empty
  PROVE  /\ Whole(Swept(ch, marks))
         /\ \A o \in Slots :
              Swept(ch, marks).data[o] = IF o \in marks THEN ch.data[o] ELSE Empty
<1> DEFINE dead == Dead(ch, marks)
           new  == Swept(ch, marks)
<1>1. ch \in Chunk
  BY DEF Good
<1>2. \A o \in Slots : o \in dead <=> (o < ch.top /\ o \notin marks)
  BY DEF Dead
<1>3. /\ new.data = Cleared(ch, dead)
      /\ new.free = (IF Resets(ch, dead) THEN {} ELSE dead)
      /\ new.top = (IF Resets(ch, dead) THEN 0 ELSE ch.top)
  BY <1>1 DEF Swept, Listed, Chunk
<1> HIDE DEF dead, new
<1>4. ch.top \in Nat /\ \A o \in Slots : o \in Nat
  BY <1>1, SlotSets DEF Chunk, Slots
<1>5. ASSUME NEW o \in Slots
      PROVE  new.data[o] = IF o \in marks THEN ch.data[o] ELSE Empty
  <2>1. new.data[o] = IF o \in dead THEN Empty ELSE ch.data[o]
    BY <1>3 DEF Cleared
  <2>2. CASE o \in marks
    BY <2>1, <2>2, <1>2
  <2>3. CASE o \notin marks /\ o < ch.top
    BY <2>1, <2>3, <1>2
  <2>4. CASE o \notin marks /\ o >= ch.top
    BY <2>1, <2>4 DEF Whole
  <2> QED
    BY <2>2, <2>3, <2>4, <1>4
<1>6. CASE Resets(ch, dead)
  <2>1. \A o \in Slots : new.data[o] = Empty /\ o >= new.top
    BY <1>2, <1>3, <1>4, <1>5, <1>6 DEF dead
  <2> QED
    BY <2>1, <1>5 DEF Whole, new
<1>7. CASE ~ Resets(ch, dead)
  <2>1. \A o \in Slots : o \in marks => o < ch.top
    BY <1>4 DEF Whole
  <2>2. \A o \in Slots : new.data[o] = Empty <=> (o \in new.free \/ o >= new.top)
    BY <2>1, <1>2, <1>3, <1>4, <1>5, <1>7
  <2> QED
    BY <2>2, <1>5 DEF Whole, new
<1> QED
  BY <1>6, <1>7

LEMMA AgedWhole ==
  ASSUME NEW ch, Good(ch), NEW deep
  PROVE  /\ Whole(Aged(ch, deep)) <=> Whole(ch)
         /\ Aged(ch, deep).data = ch.data
<1>1. ch \in Chunk
  BY DEF Good
<1>2. Aged(ch, deep) = ch \/ Aged(ch, deep) = [ch EXCEPT !.gen = 1]
  BY DEF Aged
<1>3. Aged(ch, deep).data = ch.data /\ Aged(ch, deep).top = ch.top /\ Aged(ch, deep).free = ch.free
  BY <1>1, <1>2 DEF Chunk
<1> QED
  BY <1>3 DEF Whole

LEMMA FilledWhole ==
  ASSUME NEW ch, Good(ch), Whole(ch), HasSlot(ch), NEW obj \in Object
  PROVE  /\ Whole(Filled(ch, SlotOf(ch), obj))
         /\ ch.data[SlotOf(ch)] = Empty
         /\ \A o \in Slots :
              Filled(ch, SlotOf(ch), obj).data[o] = IF o = SlotOf(ch) THEN obj ELSE ch.data[o]
<1> DEFINE o   == SlotOf(ch)
           new == Filled(ch, o, obj)
<1>1. ch \in Chunk /\ o \in Slots /\ obj # Empty
  BY FilledGood, GcAssumption DEF Good
<1>2. /\ new.data = [ch.data EXCEPT ![o] = obj]
      /\ new.free = ch.free \ {o}
      /\ new.top = (IF ch.free # {} THEN ch.top ELSE ch.top + 1)
  BY <1>1 DEF Filled, Taken, Chunk
<1>3. ch.top \in Nat /\ \A p \in Slots : p \in Nat
  BY <1>1, SlotSets DEF Chunk, Slots
<1>4. IF ch.free # {} THEN o \in ch.free ELSE o = ch.top
  <2>1. ch.free \in SUBSET Nat
    BY <1>1, <1>3 DEF Chunk
  <2> QED
    BY <2>1, MinIn DEF SlotOf
<1>5. ch.data[o] = Empty /\ (o \in ch.free => o < ch.top)
  BY <1>1, <1>3, <1>4 DEF Whole, Good
<1> HIDE DEF o, new
<1>6. \A p \in Slots : new.data[p] = IF p = o THEN obj ELSE ch.data[p]
  BY <1>1, <1>2 DEF Chunk
<1>7. ASSUME NEW p \in Slots
      PROVE  new.data[p] = Empty <=> (p \in new.free \/ p >= new.top)
  <2>1. ch.data[p] = Empty <=> (p \in ch.free \/ p >= ch.top)
    BY DEF Whole
  <2>2. CASE p = o
    BY <2>2, <1>1, <1>2, <1>3, <1>4, <1>5, <1>6
  <2>3. CASE p # o
    BY <2>1, <2>3, <1>1, <1>2, <1>3, <1>4, <1>6
  <2> QED
    BY <2>2, <2>3
<1> QED
  BY <1>5, <1>6, <1>7 DEF Whole, o, new

(* An index is a pair.                                                     *)
LEMMA IndexPair ==
  ASSUME NEW at \in Index
  PROVE  at = <<at[1], at[2]>> /\ at[1] \in Nat
<1>1. MaxChunks \in Nat /\ Scratch \in Nat
  BY GcAssumption DEF Scratch
<1> QED
  BY <1>1 DEF Index

(* The object in a slot of a chunk, and the slots that have one.            *)
At(cs, at)  == cs[at[1]].data[at[2]]
Holding(cs) == {at \in Index : at[1] \in DOMAIN cs /\ At(cs, at) # Empty}

(* A collection whose marks are all objects leaves those, and whole chunks. *)
LEMMA CollectedWhole ==
  ASSUME Heap(chunks), Wholes(chunks), Len(chunks) <= MaxChunks, NEW deep,
         NEW marked \in SUBSET Index, ~ ResetsLive(marked),
         \A at \in marked : at[1] \in DOMAIN chunks => At(chunks, at) # Empty
  PROVE  /\ Wholes(Collected(marked, deep))
         /\ Holding(Collected(marked, deep)) = Holding(chunks) \cap marked
         /\ \A at \in Holding(Collected(marked, deep)) :
               At(Collected(marked, deep), at) = At(chunks, at)
<1> DEFINE cs == Collected(marked, deep)
<1>1. DOMAIN chunks = 1 .. Len(chunks) /\ \A c \in DOMAIN chunks : Good(chunks[c])
  BY HeapFacts
<1>2. ASSUME NEW c \in DOMAIN chunks
      PROVE  /\ Whole(cs[c])
             /\ \A o \in Slots : cs[c].data[o] = IF <<c, o>> \in marked THEN chunks[c].data[o] ELSE Empty
  <2> DEFINE marks == MarksIn(marked, c)
             swept == Swept(chunks[c], marks)
  <2>1. \A o \in Slots : o \in marks <=> <<c, o>> \in marked
    <3> SUFFICES ASSUME NEW o \in Slots
                 PROVE  o \in marks <=> <<c, o>> \in marked
      OBVIOUS
    <3>1. ASSUME o \in marks
          PROVE  <<c, o>> \in marked
      <4>1. PICK at \in marked : at[1] = c /\ at[2] = o
        BY <3>1 DEF MarksIn
      <4> QED
        BY <4>1, IndexPair
    <3>2. ASSUME <<c, o>> \in marked
          PROVE  o \in marks
      <4>1. <<c, o>>[1] = c /\ <<c, o>>[2] = o
        OBVIOUS
      <4> QED
        BY <3>2, <4>1 DEF MarksIn
    <3> QED
      BY <3>1, <3>2
  <2>2. \A o \in Slots : o \in marks => chunks[c].data[o] # Empty
    BY <2>1 DEF At
  <2>3. Resets(chunks[c], Dead(chunks[c], marks)) =>
            \A o \in Slots \ Dead(chunks[c], marks) : chunks[c].data[o] = Empty
    BY DEF ResetsLive
  <2> HIDE DEF marks
  <2>4. Good(chunks[c]) /\ Whole(chunks[c])
    BY <1>1 DEF Wholes
  <2>5. /\ Whole(swept) /\ Good(swept)
        /\ \A o \in Slots : swept.data[o] = IF o \in marks THEN chunks[c].data[o] ELSE Empty
    BY <2>2, <2>3, <2>4, SweptWhole, SweptGood
  <2>6. cs[c] = Aged(swept, deep)
    BY DEF Collected, marks
  <2> HIDE DEF swept, cs
  <2> QED
    BY <2>1, <2>5, <2>6, AgedWhole
<1>3. DOMAIN cs = DOMAIN chunks
  BY DEF Collected
<1> HIDE DEF cs
<1>4. Wholes(cs)
  BY <1>2, <1>3 DEF Wholes
<1>5. ASSUME NEW at \in Index, at[1] \in DOMAIN chunks
      PROVE  At(cs, at) = IF at \in marked THEN At(chunks, at) ELSE Empty
  <2>1. ~ IsScratch(at)
    BY <1>1, <1>5, HeapFacts, GcAssumption DEF IsScratch, Scratch
  <2>2. at = <<at[1], at[2]>> /\ at[2] \in Slots
    BY <2>1, IndexPair, IndexParts
  <2>3. At(cs, at) = cs[at[1]].data[at[2]] /\ At(chunks, at) = chunks[at[1]].data[at[2]]
    BY DEF At
  <2>4. cs[at[1]].data[at[2]] = IF <<at[1], at[2]>> \in marked THEN chunks[at[1]].data[at[2]] ELSE Empty
    BY <1>2, <1>5, <2>2
  <2> QED
    BY <2>2, <2>3, <2>4
<1>6. Holding(cs) = Holding(chunks) \cap marked
  BY <1>3, <1>5 DEF Holding
<1>7. \A at \in Holding(cs) : At(cs, at) = At(chunks, at)
  BY <1>3, <1>5, <1>6 DEF Holding
<1> QED
  BY <1>4, <1>6, <1>7 DEF cs

(* Placing an object in whole chunks takes a slot without one.              *)
LEMMA PlacedWhole ==
  ASSUME NEW cs, Heap(cs), Wholes(cs), NEW a \in DOMAIN cs, NEW obj \in Object,
         NEW p, p = Placed(cs, a, obj), p.at \in Index,
         Len(cs) <= MaxChunks, p.at[1] <= MaxChunks
  PROVE  /\ Wholes(p.chunks)
         /\ p.at \notin Holding(cs)
         /\ Holding(p.chunks) = Holding(cs) \cup {p.at}
         /\ \A at \in Holding(p.chunks) :
              At(p.chunks, at) = IF at = p.at THEN obj ELSE At(cs, at)
<1> DEFINE c     == ChunkFor(cs, a)
           grown == [d \in DOMAIN cs \cup {c} |-> IF d \in DOMAIN cs THEN cs[d] ELSE NewChunk]
           new   == Filled(grown[c], SlotOf(grown[c]), obj)
<1>1. DOMAIN cs = 1 .. Len(cs) /\ Len(cs) \in Nat /\ \A d \in DOMAIN cs : Good(cs[d]) /\ Whole(cs[d])
  BY HeapFacts DEF Wholes
<1>2. (c \in DOMAIN cs /\ HasSlot(cs[c])) \/ c = Len(cs) + 1
  BY ChunkForHas
<1>3. p.chunks = [grown EXCEPT ![c] = new] /\ p.at = <<c, SlotOf(grown[c])>>
  BY DEF Placed
<1> HIDE DEF c
<1>4. \A o \in Slots : NewChunk.data[o] = Empty
  BY DEF NewChunk
<1>5. Whole(NewChunk)
  BY SlotSets DEF NewChunk, Whole, Slots
<1>6. DOMAIN grown = DOMAIN cs \cup {c} /\ \A d \in DOMAIN grown : Good(grown[d]) /\ Whole(grown[d])
  BY <1>1, <1>5, NewGood
<1>7. Good(grown[c]) /\ Whole(grown[c]) /\ HasSlot(grown[c])
  BY <1>1, <1>2, <1>5, NewGood
<1>8. \A d \in DOMAIN grown : grown[d] = IF d \in DOMAIN cs THEN cs[d] ELSE NewChunk
  OBVIOUS
<1> HIDE DEF grown
<1> DEFINE o == SlotOf(grown[c])
<1>9. /\ o \in Slots /\ Whole(new) /\ grown[c].data[o] = Empty
      /\ \A q \in Slots : new.data[q] = IF q = o THEN obj ELSE grown[c].data[q]
  BY <1>7, FilledGood, FilledWhole
<1>10. DOMAIN p.chunks = DOMAIN cs \cup {c}
       /\ \A d \in DOMAIN p.chunks : p.chunks[d] = IF d = c THEN new ELSE grown[d]
  BY <1>3, <1>6
<1> HIDE DEF new, o
<1>11. p.at[1] = c /\ p.at[2] = o /\ p.at = <<c, o>>
  BY <1>3 DEF o
<1>12. Wholes(p.chunks)
  BY <1>6, <1>9, <1>10 DEF Wholes
<1>13. obj # Empty /\ 0 \notin DOMAIN cs
  BY <1>1, GcAssumption
<1>14. c \in DOMAIN cs => cs[c].data[o] = Empty
  BY <1>6, <1>8, <1>9
<1>15. p.at \notin Holding(cs)
  BY <1>11, <1>14 DEF Holding, At
<1>16. ASSUME NEW at \in Index, at[1] \in DOMAIN p.chunks, at # p.at
       PROVE  /\ at[1] \in DOMAIN cs => At(p.chunks, at) = At(cs, at)
              /\ at[1] \notin DOMAIN cs => At(p.chunks, at) = Empty
  <2>1. at[1] \in DOMAIN grown /\ At(p.chunks, at) = p.chunks[at[1]].data[at[2]]
        /\ At(cs, at) = cs[at[1]].data[at[2]]
    BY <1>6, <1>10, <1>16 DEF At
  <2>2. at = <<at[1], at[2]>>
    BY IndexPair
  <2>3. at[2] \in Slots
    <3>1. at[1] <= MaxChunks
      <4>1. \A d \in DOMAIN cs : d <= MaxChunks
        BY <1>1, GcAssumption
      <4>2. c <= MaxChunks
        BY <1>11
      <4> QED
        BY <4>1, <4>2, <1>10, <1>16
    <3>2. ~ IsScratch(at)
      BY <3>1, IndexPair, GcAssumption DEF IsScratch, Scratch
    <3> QED
      BY <3>2, IndexParts
  <2>4. p.chunks[at[1]].data[at[2]] = grown[at[1]].data[at[2]]
    <3>1. CASE at[1] = c
      BY <3>1, <2>2, <2>3, <1>9, <1>10, <1>11, <1>16
    <3>2. CASE at[1] # c
      BY <3>2, <1>10, <1>16
    <3> QED
      BY <3>1, <3>2
  <2> QED
    BY <2>1, <2>3, <2>4, <1>4, <1>8
<1>17. At(p.chunks, p.at) = obj /\ p.at[1] \in DOMAIN p.chunks
  BY <1>9, <1>10, <1>11 DEF At
<1>18. Holding(p.chunks) = Holding(cs) \cup {p.at}
  <2>1. ASSUME NEW at \in Holding(p.chunks), at # p.at
        PROVE  at \in Holding(cs)
    BY <2>1, <1>16 DEF Holding
  <2>2. ASSUME NEW at \in Holding(cs)
        PROVE  at \in Holding(p.chunks)
    BY <2>2, <1>10, <1>15, <1>16 DEF Holding
  <2>3. p.at \in Holding(p.chunks)
    BY <1>13, <1>17 DEF Holding
  <2> QED
    BY <2>1, <2>2, <2>3
<1>19. \A at \in Holding(p.chunks) : At(p.chunks, at) = IF at = p.at THEN obj ELSE At(cs, at)
  BY <1>16, <1>17, <1>18 DEF Holding
<1> QED
  BY <1>12, <1>15, <1>18, <1>19

-----------------------------------------------------------------------------
(* Nothing in use is lost, unless one of the listed harms is done.  Two     *)
(* sets of indices are kept up together.  G is firm: it has every object    *)
(* of a chunk, garbage included, every heap index of a root, and what they   *)
(* refer to as the collector follows it, and in it there is no index of a   *)
(* chunk without an object; so whatever a collection marks is there.  L is   *)
(* settled: it has what the program can reach, and every reference in it    *)
(* finds the object it was made for.  L is smaller than G, as garbage may   *)
(* refer to slots of the scratch area that were used again.  In a safe      *)
(* point an index of the scratch area means the place its object has gone   *)
(* to, although the registers and objects are rewritten only at the end.    *)

Meant(at) == IF IsScratch(at) /\ at[2] \in DOMAIN remap THEN remap[at[2]] ELSE at
Meets(at) == ObjectAt(chunks, scratch, pool, Meant(at))
Finds(v)  == Meets(v.at) # Empty /\ Meets(v.at).watched = v.watched

PoolSlots == {0} \X Slots

Firm(G) ==
    /\ G \subseteq Index /\ Holding(chunks) \subseteq G
    /\ \A at \in G : /\ at[1] >= FirstActive /\ (IsScratch(at) \/ at \in Holding(chunks))
                     /\ Followed(scratch, {}, at) \subseteq G

Sturdy(G) == Firm(G) /\ Markable(Rooted(regs)) \subseteq G

Settled(L) ==
    /\ PoolSlots \subseteq L /\ L \subseteq Index
    /\ \A at \in L : /\ IsScratch(at) => at[2] < scratch_top
                     /\ \A v \in RefsOf(Meets(at)) : v.at \in L /\ Finds(v)

Kept(L) == Settled(L) /\ \A v \in Rooted(regs) : v.at \in L /\ Finds(v)

PoolAlone == pool = Nil \/ pool.at[1] = 0

\* What a safe point has still to promote is in the registers, and nothing else
\* of the scratch area is, but what has gone to a slot that holds it.
Resting ==
    /\ phase = "run" => remap = <<>>
    /\ phase = "safe" =>
         /\ \A i \in left : /\ i \notin DOMAIN remap /\ i < scratch_top
                            /\ \E v \in Rooted(regs) : v.at = <<Scratch, i>>
         /\ \A v \in Rooted(regs) : IsScratch(v.at) => v.at[2] \in left \cup DOMAIN remap
         /\ \A i \in DOMAIN remap : remap[i] \in Holding(chunks)

Intact ==
    /\ Wholes(chunks) /\ PoolAlone /\ Resting
    /\ \E G \in SUBSET Index : Sturdy(G)
    /\ \E L \in SUBSET Index : Kept(L)

Scratches == [0 .. S - 1 -> Object \cup {Empty}]

LEMMA RefsOfFacts ==
  ASSUME NEW obj \in Object \cup {Empty}
  PROVE  /\ \A v \in RefsOf(obj) : v \in Reference /\ v.at \in Index /\ v # Nil
                                   /\ obj # Empty /\ v = obj.ref
         /\ obj \in Object /\ obj.ref # Nil => RefsOf(obj) = {obj.ref}
         /\ obj \in Object /\ obj.ref = Nil => RefsOf(obj) = {}
  BY NilAndEmpty DEF RefsOf, Object, Ref, Reference

LEMMA RootedFacts ==
  ASSUME regs \in [Regs -> Ref], NEW v \in Rooted(regs)
  PROVE  v \in Reference /\ v.at \in Index /\ v # Nil
  BY NilAndEmpty DEF Rooted, Ref, Reference

(* What an index finds.                                                    *)
LEMMA ObjectAtFacts ==
  ASSUME NEW cs, Heap(cs), Len(cs) <= MaxChunks, NEW scr, NEW pl, NEW at \in Index
  PROVE  /\ IsScratch(at) => /\ at[1] # 0 /\ at[1] \notin DOMAIN cs /\ at[1] >= FirstActive
                             /\ at[2] \in 0 .. S - 1 /\ ObjectAt(cs, scr, pl, at) = scr[at[2]]
         /\ at[1] = 0 => /\ ~ IsScratch(at) /\ at[1] \notin DOMAIN cs
                         /\ ObjectAt(cs, scr, pl, at) = [watched |-> FALSE, ref |-> pl]
         /\ at[1] \in DOMAIN cs => /\ ~ IsScratch(at) /\ at[1] # 0 /\ at[2] \in Slots
                                   /\ ObjectAt(cs, scr, pl, at) = At(cs, at)
         /\ ~ IsScratch(at) /\ at[1] # 0 /\ at[1] \notin DOMAIN cs => ObjectAt(cs, scr, pl, at) = Empty
<1>1. DOMAIN cs = 1 .. Len(cs) /\ Len(cs) \in Nat /\ MaxChunks \in Nat
      /\ FirstActive \in Nat \ {0} /\ FirstActive <= MaxChunks
  BY HeapFacts, GcAssumption
<1>2. IsScratch(at) => at[1] # 0 /\ at[1] \notin DOMAIN cs /\ at[1] >= FirstActive
  BY <1>1 DEF IsScratch, Scratch
<1>3. at[1] = 0 => ~ IsScratch(at) /\ at[1] \notin DOMAIN cs
  BY <1>1 DEF IsScratch, Scratch
<1>4. at[1] \in DOMAIN cs => ~ IsScratch(at) /\ at[1] # 0
  BY <1>1 DEF IsScratch, Scratch
<1> QED
  BY <1>2, <1>3, <1>4, IndexParts DEF ObjectAt, At

LEMMA ObjectTypes ==
  ASSUME NEW cs, Heap(cs), Len(cs) <= MaxChunks, NEW scr \in Scratches, NEW pl \in Ref,
         NEW at \in Index
  PROVE  /\ ObjectAt(cs, scr, pl, at) \in Object \cup {Empty}
         /\ at \in Holding(cs) <=>
              (~ IsScratch(at) /\ at[1] # 0 /\ ObjectAt(cs, scr, pl, at) # Empty)
         /\ at \in Holding(cs) => At(cs, at) \in Object
<1>1. at[1] \in DOMAIN cs => At(cs, at) \in Object \cup {Empty}
  <2> SUFFICES ASSUME at[1] \in DOMAIN cs
               PROVE  At(cs, at) \in Object \cup {Empty}
    OBVIOUS
  <2>1. cs[at[1]] \in Chunk /\ at[2] \in Slots
    BY HeapFacts, ObjectAtFacts
  <2> QED
    BY <2>1 DEF Chunk, At
<1>2. [watched |-> FALSE, ref |-> pl] \in Object
  BY DEF Object
<1>3. ObjectAt(cs, scr, pl, at) \in Object \cup {Empty}
  <2>1. CASE IsScratch(at)
    <3>1. at[2] \in 0 .. S - 1 /\ ObjectAt(cs, scr, pl, at) = scr[at[2]]
      BY <2>1, ObjectAtFacts
    <3> QED
      BY <3>1 DEF Scratches
  <2>2. CASE at[1] = 0
    <3>1. ObjectAt(cs, scr, pl, at) = [watched |-> FALSE, ref |-> pl]
      BY <2>2, ObjectAtFacts
    <3> QED
      BY <3>1, <1>2
  <2>3. CASE at[1] \in DOMAIN cs
    <3>1. ObjectAt(cs, scr, pl, at) = At(cs, at)
      BY <2>3, ObjectAtFacts
    <3> QED
      BY <3>1, <2>3, <1>1
  <2>4. CASE ~ IsScratch(at) /\ at[1] # 0 /\ at[1] \notin DOMAIN cs
    <3>1. ObjectAt(cs, scr, pl, at) = Empty
      BY <2>4, ObjectAtFacts
    <3> QED
      BY <3>1
  <2> QED
    BY <2>1, <2>2, <2>3, <2>4
<1>4. at \in Holding(cs) <=>
              (~ IsScratch(at) /\ at[1] # 0 /\ ObjectAt(cs, scr, pl, at) # Empty)
  BY ObjectAtFacts DEF Holding
<1> QED
  BY <1>1, <1>3, <1>4 DEF Holding

(* What the marking follows.                                               *)
LEMMA FollowedFacts ==
  ASSUME Heap(chunks), Len(chunks) <= MaxChunks, NEW scr \in Scratches, NEW at \in Index
  PROVE  /\ Followed(scr, {}, at) \subseteq Index
         /\ IsScratch(at) => Followed(scr, {}, at) =
               IF at[2] < scratch_top THEN Markable(RefsOf(scr[at[2]])) ELSE {}
         /\ at[1] \in DOMAIN chunks => Followed(scr, {}, at) = Markable(RefsOf(At(chunks, at)))
<1>1. IsScratch(at) => /\ scr[at[2]] \in Object \cup {Empty}
                       /\ Followed(scr, {}, at) =
                            IF at[2] < scratch_top THEN Markable(RefsOf(scr[at[2]])) ELSE {}
  <2> SUFFICES ASSUME IsScratch(at)
               PROVE  /\ scr[at[2]] \in Object \cup {Empty}
                      /\ Followed(scr, {}, at) =
                           IF at[2] < scratch_top THEN Markable(RefsOf(scr[at[2]])) ELSE {}
    OBVIOUS
  <2>1. at[2] \in 0 .. S - 1 /\ at[1] \notin DOMAIN chunks
    BY ObjectAtFacts
  <2>2. scr[at[2]] \in Object \cup {Empty}
    BY <2>1 DEF Scratches
  <2> QED
    BY <2>1, <2>2 DEF Followed
<1>2. at[1] \in DOMAIN chunks => /\ At(chunks, at) \in Object \cup {Empty}
                                 /\ Followed(scr, {}, at) = Markable(RefsOf(At(chunks, at)))
  <2> SUFFICES ASSUME at[1] \in DOMAIN chunks
               PROVE  /\ At(chunks, at) \in Object \cup {Empty}
                      /\ Followed(scr, {}, at) = Markable(RefsOf(At(chunks, at)))
    OBVIOUS
  <2>1. chunks[at[1]] \in Chunk /\ at[2] \in Slots /\ ~ IsScratch(at)
    BY HeapFacts, ObjectAtFacts
  <2> QED
    BY <2>1 DEF Chunk, At, Followed
<1>3. \A obj \in Object \cup {Empty} : Markable(RefsOf(obj)) \subseteq Index
  BY RefsOfFacts DEF Markable
<1>4. ~ IsScratch(at) /\ at[1] \notin DOMAIN chunks => Followed(scr, {}, at) = {}
  BY DEF Followed
<1> QED
  BY <1>1, <1>2, <1>3, <1>4

(* scr is scratch, or scratch with some slots emptied.                      *)
Emptied(scr) == \A j \in 0 .. S - 1 : scr[j] = scratch[j] \/ scr[j] = Empty

LEMMA MarkedFacts ==
  ASSUME Heap(chunks), Types, NEW scr \in Scratches, Emptied(scr), NEW deep,
         NEW G \in SUBSET Index, Sturdy(G)
  PROVE  /\ Marked(scr, {}, deep) \subseteq G
         /\ Markable(Rooted(regs)) \subseteq Marked(scr, {}, deep)
         /\ \A at \in Marked(scr, {}, deep) : Followed(scr, {}, at) \subseteq Marked(scr, {}, deep)
<1> DEFINE next == [at \in Index |-> Followed(scr, {}, at)]
           from == Markable(Rooted(regs) \cup Remembered(deep))
<1>1. Marked(scr, {}, deep) = Reach(from, next)
  BY DEF Marked
<1>2. Len(chunks) <= MaxChunks /\ scratch \in Scratches /\ regs \in [Regs -> Ref]
  BY DEF Types, Scratches
<1>3. next \in [Index -> SUBSET Index]
  BY <1>2, FollowedFacts
<1>4. Markable(Remembered(deep)) \subseteq G
  <2> SUFFICES ASSUME NEW r \in Remembered(deep), r.at[1] >= FirstActive
               PROVE  r.at \in G
    BY DEF Markable
  <2>1. PICK at \in Tenured \X Slots : r \in RefsOf(chunks[at[1]].data[at[2]])
    BY DEF Remembered
  <2>2. at[1] \in DOMAIN chunks /\ at[2] \in Slots /\ at = <<at[1], at[2]>>
    BY <2>1 DEF Tenured
  <2>3. at \in Index
    <3>1. at[1] \in 0 .. MaxChunks
      BY <2>2, <1>2, HeapFacts, GcAssumption
    <3> QED
      BY <2>2, <3>1 DEF Index
  <2>4. r \in RefsOf(At(chunks, at))
    BY <2>1 DEF At
  <2>5. at \in Holding(chunks)
    BY <2>2, <2>3, <2>4 DEF Holding, RefsOf
  <2>6. r.at \in Followed(scratch, {}, at)
    BY <2>2, <2>3, <2>4, <1>2, FollowedFacts DEF Markable
  <2> QED
    BY <2>5, <2>6 DEF Sturdy, Firm
<1>5. from \subseteq G
  BY <1>4 DEF Sturdy, Markable
<1>6. ASSUME NEW at \in G
      PROVE  next[at] \subseteq G
  <2>1. at \in Index /\ Followed(scratch, {}, at) \subseteq G
    BY DEF Sturdy, Firm
  <2>2. Followed(scr, {}, at) \subseteq Followed(scratch, {}, at)
    <3>1. CASE IsScratch(at)
      <4>1. at[2] \in 0 .. S - 1
        BY <2>1, <3>1, IndexParts
      <4>2. Followed(scr, {}, at) = (IF at[2] < scratch_top THEN Markable(RefsOf(scr[at[2]])) ELSE {})
            /\ Followed(scratch, {}, at) = (IF at[2] < scratch_top THEN Markable(RefsOf(scratch[at[2]])) ELSE {})
        BY <2>1, <3>1, <1>2, FollowedFacts
      <4>3. Markable(RefsOf(Empty)) = {}
        BY DEF Markable, RefsOf
      <4> QED
        BY <4>1, <4>2, <4>3 DEF Emptied
    <3>2. CASE ~ IsScratch(at)
      BY <3>2 DEF Followed
    <3> QED
      BY <3>1, <3>2
  <2> QED
    BY <2>1, <2>2
<1>7. G \in SUBSET Index /\ from \in SUBSET Index
  BY <1>5
<1> HIDE DEF next, from
<1>8. /\ Reach(from, next) \subseteq G /\ from \subseteq Reach(from, next)
      /\ \A at \in Reach(from, next) : next[at] \subseteq Reach(from, next)
  BY <1>3, <1>5, <1>6, <1>7, ReachFacts
<1>9. Markable(Rooted(regs)) \subseteq from
  BY DEF from, Markable
<1>10. \A at \in Index : next[at] = Followed(scr, {}, at)
  BY DEF next
<1> QED
  BY <1>1, <1>7, <1>8, <1>9, <1>10

(* An allocation may run a collection first.  M is what that spares: every  *)
(* index if there is none, else what it marks, which is in G and closed.     *)
Spares(M, G, scr, loses) ==
    \/ M = Index
    \/ /\ ~ loses /\ M \subseteq G /\ Markable(Rooted(regs)) \subseteq M
       /\ \A at \in M : Followed(scr, {}, at) \subseteq M

(* The objects of chunks are then those spared, and obj, at n.              *)
LeavesOnly(M, n, obj) ==
    /\ n \in Index /\ n[1] >= FirstActive /\ n[1] \in DOMAIN chunks'
    /\ n \notin Holding(chunks) \cap M
    /\ Holding(chunks') = (Holding(chunks) \cap M) \cup {n}
    /\ \A at \in Holding(chunks') : At(chunks', at) = IF at = n THEN obj ELSE At(chunks, at)

LEMMA AllocationSpares ==
  ASSUME Heap(chunks), Types, Wholes(chunks), NEW G \in SUBSET Index, Sturdy(G),
         NEW obj \in Object, NEW scr \in Scratches, Emptied(scr), NEW loses,
         NEW out \in Outcomes(obj, scr, loses), Allocates(out), harm' = {}
  PROVE  /\ Wholes(chunks') /\ Heap(chunks') /\ Len(chunks') <= MaxChunks
         /\ \E M \in SUBSET Index : Spares(M, G, scr, loses) /\ LeavesOnly(M, out.at, obj)
<1>1. PICK cycle \in Cycles : out = Outcome(obj, scr, loses, cycle) /\ out.at[1] <= MaxChunks
  BY DEF Outcomes
<1> DEFINE collects == cycle[1] # "none"
           deep     == cycle[1] = "deep"
           marked   == Marked(scr, cycle[2], deep)
           cs       == IF collects THEN Collected(marked, deep) ELSE chunks
           p        == Placed(cs, active, obj)
           M        == IF collects THEN Marked(scr, {}, deep) ELSE Index
<1>2. /\ out.chunks = p.chunks /\ out.at = p.at
      /\ out.harm = harm \cup (IF p.at[1] < FirstActive THEN {"low"} ELSE {})
                         \cup (IF collects /\ ResetsLive(marked) THEN {"reset"} ELSE {})
                         \cup (IF collects /\ loses THEN {"mid"} ELSE {})
                         \cup (IF cycle[2] # {} THEN {"epoch"} ELSE {})
  BY <1>1 DEF Outcome
<1> HIDE DEF p
<1>3. chunks' = p.chunks /\ out.harm = {}
  BY <1>2 DEF Allocates
<1>4. /\ ~ (p.at[1] < FirstActive) /\ cycle[2] = {}
      /\ collects => ~ ResetsLive(marked) /\ ~ loses
  BY <1>2, <1>3
<1>5. /\ Heap(chunks') /\ Len(chunks') <= MaxChunks
      /\ out.at \in Index /\ out.at[1] \in DOMAIN chunks'
  BY AllocationKeeps
<1>6. Heap(cs) /\ Len(cs) = Len(chunks) /\ Len(chunks) <= MaxChunks /\ active \in DOMAIN chunks
  BY CollectedHeap DEF Types
<1>7. active \in DOMAIN cs
  BY <1>6, HeapFacts
<1>8. marked = Marked(scr, {}, deep)
  BY <1>4
<1>9. /\ Marked(scr, {}, deep) \subseteq G
      /\ Markable(Rooted(regs)) \subseteq Marked(scr, {}, deep)
      /\ \A at \in Marked(scr, {}, deep) : Followed(scr, {}, at) \subseteq Marked(scr, {}, deep)
  BY MarkedFacts
<1>10. M \in SUBSET Index /\ Spares(M, G, scr, loses)
  BY <1>4, <1>9 DEF Spares
<1>11. /\ Wholes(cs) /\ Holding(cs) = Holding(chunks) \cap M
       /\ \A at \in Holding(cs) : At(cs, at) = At(chunks, at)
  <2>1. CASE ~ collects
    <3>1. Holding(chunks) \subseteq Index
      BY DEF Holding
    <3> QED
      BY <2>1, <3>1
  <2>2. CASE collects
    <3>1. \A at \in marked : at[1] \in DOMAIN chunks => At(chunks, at) # Empty
      <4> SUFFICES ASSUME NEW at \in marked, at[1] \in DOMAIN chunks
                   PROVE  At(chunks, at) # Empty
        OBVIOUS
      <4>1. at \in G /\ at \in Index
        BY <1>8, <1>9
      <4>2. ~ IsScratch(at)
        BY <4>1, <1>6, ObjectAtFacts
      <4> QED
        BY <4>1, <4>2 DEF Sturdy, Firm, Holding
    <3>2. marked \in SUBSET Index
      BY <1>8, <1>9
    <3>3. cs = Collected(marked, deep) /\ M = marked /\ ~ ResetsLive(marked)
      BY <2>2, <1>4, <1>8
    <3> HIDE DEF cs, M, marked, deep
    <3> QED
      BY <3>1, <3>2, <3>3, <1>6, CollectedWhole
  <2> QED
    BY <2>1, <2>2
<1> HIDE DEF cs, M
<1>12. /\ Wholes(p.chunks) /\ p.at \notin Holding(cs)
       /\ Holding(p.chunks) = Holding(cs) \cup {p.at}
       /\ \A at \in Holding(p.chunks) :
            At(p.chunks, at) = IF at = p.at THEN obj ELSE At(cs, at)
  <2>1. p = Placed(cs, active, obj)
    BY DEF p
  <2>2. p.at \in Index /\ p.at[1] <= MaxChunks /\ Len(cs) <= MaxChunks
    BY <1>1, <1>2, <1>5, <1>6
  <2> QED
    BY <2>1, <2>2, <1>6, <1>7, <1>11, PlacedWhole
<1>13. p.at[1] >= FirstActive
  BY <1>2, <1>4, <1>5, IndexPair, GcAssumption
<1>14. LeavesOnly(M, out.at, obj)
  BY <1>2, <1>3, <1>5, <1>11, <1>12, <1>13 DEF LeavesOnly
<1> QED
  BY <1>3, <1>5, <1>10, <1>12, <1>14

(* What is spared, and the new object, is firm.                             *)
LEMMA SparedFirm ==
  ASSUME Heap(chunks), Types, NEW G \in SUBSET Index, Sturdy(G),
         NEW obj \in Object, NEW scr \in Scratches, Emptied(scr), NEW loses,
         NEW M \in SUBSET Index, Spares(M, G, scr, loses), NEW n, LeavesOnly(M, n, obj),
         Heap(chunks'), Len(chunks') <= MaxChunks,
         scratch' = scr, scratch_top' = scratch_top,
         Markable(RefsOf(obj)) \subseteq G \cap M
  PROVE  Firm((G \cap M) \cup {n})' /\ Markable(Rooted(regs)) \subseteq (G \cap M) \cup {n}
<1> DEFINE G2 == (G \cap M) \cup {n}
<1>1. /\ n \in Index /\ n[1] >= FirstActive /\ n[1] \in DOMAIN chunks' /\ n \in Holding(chunks')
      /\ Holding(chunks') = (Holding(chunks) \cap M) \cup {n}
      /\ \A at \in Holding(chunks') : At(chunks', at) = IF at = n THEN obj ELSE At(chunks, at)
      /\ n \notin Holding(chunks) \cap M
  BY DEF LeavesOnly
<1>2. Holding(chunks) \subseteq G /\ G2 \subseteq Index /\ Holding(chunks') \subseteq G2
  BY <1>1 DEF Sturdy, Firm
<1>3. Len(chunks) <= MaxChunks /\ scratch \in Scratches
  BY DEF Types, Scratches
<1>4. \A at \in M : Followed(scr, {}, at) \subseteq M
  BY <1>3, FollowedFacts DEF Spares
<1>5. ASSUME NEW at \in G2
      PROVE  /\ at[1] >= FirstActive /\ (IsScratch(at) \/ at \in Holding(chunks'))
             /\ Followed(scratch, {}, at)' \subseteq G2
  <2>1. CASE at = n
    <3>1. Followed(scratch, {}, at)' = Markable(RefsOf(At(chunks', at)))
      <4>1. ~ IsScratch(at)
        BY <2>1, <1>1, ObjectAtFacts
      <4> QED
        BY <4>1, <2>1, <1>1 DEF Followed, At
    <3> QED
      BY <2>1, <3>1, <1>1
  <2>2. CASE at # n /\ IsScratch(at)
    <3>1. at \in G /\ at \in M /\ at \in Index
      BY <2>2
    <3>2. at[2] \in 0 .. S - 1 /\ at[1] \notin DOMAIN chunks /\ at[1] \notin DOMAIN chunks'
          /\ at[1] >= FirstActive
      BY <3>1, <2>2, <1>3, ObjectAtFacts
    <3>3. Followed(scratch, {}, at)' = (IF at[2] < scratch_top THEN Markable(RefsOf(scr[at[2]])) ELSE {})
      BY <2>2, <3>2 DEF Followed
    <3>4. /\ Followed(scratch, {}, at) = (IF at[2] < scratch_top THEN Markable(RefsOf(scratch[at[2]])) ELSE {})
          /\ Followed(scr, {}, at) = (IF at[2] < scratch_top THEN Markable(RefsOf(scr[at[2]])) ELSE {})
      BY <2>2, <3>2 DEF Followed
    <3>5. scr[at[2]] = scratch[at[2]] \/ scr[at[2]] = Empty
      BY <3>2 DEF Emptied
    <3>6. Markable(RefsOf(Empty)) = {}
      BY DEF Markable, RefsOf
    <3>7. Followed(scratch, {}, at) \subseteq G /\ Followed(scr, {}, at) \subseteq M
      BY <3>1, <1>4 DEF Sturdy, Firm
    <3> QED
      BY <2>2, <3>2, <3>3, <3>4, <3>5, <3>6, <3>7
  <2>3. CASE at # n /\ ~ IsScratch(at)
    <3>1. at \in G /\ at \in M /\ at \in Index
      BY <2>3
    <3>2. at \in Holding(chunks) /\ at[1] >= FirstActive /\ at \in Holding(chunks')
      BY <2>3, <3>1, <1>1 DEF Sturdy, Firm
    <3>3. at[1] \in DOMAIN chunks /\ at[1] \in DOMAIN chunks' /\ At(chunks', at) = At(chunks, at)
      BY <2>3, <3>2, <1>1 DEF Holding
    <3>4. /\ Followed(scratch, {}, at)' = Markable(RefsOf(At(chunks', at)))
          /\ Followed(scratch, {}, at) = Markable(RefsOf(At(chunks, at)))
          /\ Followed(scr, {}, at) = Markable(RefsOf(At(chunks, at)))
      BY <2>3, <3>3 DEF Followed, At
    <3>5. Followed(scratch, {}, at) \subseteq G /\ Followed(scr, {}, at) \subseteq M
      BY <3>1, <1>4 DEF Sturdy, Firm
    <3> QED
      BY <3>2, <3>3, <3>4, <3>5
  <2> QED
    BY <2>1, <2>2, <2>3
<1>6. Firm(G2)'
  BY <1>2, <1>5 DEF Firm
<1>7. Markable(Rooted(regs)) \subseteq G2
  <2>1. Markable(Rooted(regs)) \subseteq Index
    BY RootedFacts DEF Types, Markable
  <2> QED
    BY <2>1 DEF Sturdy, Spares
<1> QED
  BY <1>6, <1>7

LEMMA HeldFacts == ASSUME NEW v \in Held PROVE v = Nil \/ v \in Rooted(regs)
  BY DEF Held, Rooted

Spared(L, M) == {at \in L : at \in M \/ at[1] < FirstActive}

(* What obj refers to is spared and found; what is spared stays what it was. *)
Carries(L, M, obj) == \A v \in RefsOf(obj) : v.at \in Spared(L, M) /\ Finds(v)
Unmoved(L, M, n)   == \A at \in Spared(L, M) : at # n => Meets(at)' = Meets(at)

(* An object of a chunk that is spared, and an object of the pool, is found *)
(* where it was.                                                           *)
LEMMA SparedObject ==
  ASSUME Heap(chunks), Types, Heap(chunks'), Len(chunks') <= MaxChunks,
         scratch' \in Scratches, pool' = pool,
         NEW G \in SUBSET Index, Sturdy(G), NEW M \in SUBSET Index,
         NEW n, NEW obj, LeavesOnly(M, n, obj),
         NEW at \in Index, ~ IsScratch(at), at \in M \/ at[1] < FirstActive, at # n
  PROVE  ObjectAt(chunks, scratch, pool, at)' = ObjectAt(chunks, scratch, pool, at)
<1>1. Len(chunks) <= MaxChunks /\ scratch \in Scratches /\ pool \in Ref
  BY DEF Types, Scratches
<1>2. CASE at[1] = 0
  <2>1. ObjectAt(chunks', scratch', pool', at) = [watched |-> FALSE, ref |-> pool']
    BY <1>2, ObjectAtFacts
  <2>2. ObjectAt(chunks, scratch, pool, at) = [watched |-> FALSE, ref |-> pool]
    BY <1>1, <1>2, ObjectAtFacts
  <2> QED
    BY <2>1, <2>2
<1>3. CASE at[1] # 0 /\ at \in Holding(chunks)
  <2>1. at[1] >= FirstActive /\ at[1] \in Nat /\ FirstActive \in Nat
    BY <1>3, IndexPair, GcAssumption DEF Sturdy, Firm
  <2>2. at \in M
    BY <2>1
  <2>3. at \in Holding(chunks') /\ At(chunks', at) = At(chunks, at)
    BY <2>2, <1>3 DEF LeavesOnly
  <2>4. at[1] \in DOMAIN chunks /\ at[1] \in DOMAIN chunks'
    BY <2>3, <1>3 DEF Holding
  <2>5. ObjectAt(chunks', scratch', pool', at) = At(chunks', at)
    BY <2>4, ObjectAtFacts
  <2>6. ObjectAt(chunks, scratch, pool, at) = At(chunks, at)
    BY <2>4, <1>1, ObjectAtFacts
  <2> QED
    BY <2>3, <2>5, <2>6
<1>4. CASE at[1] # 0 /\ at \notin Holding(chunks)
  <2>1. at \notin Holding(chunks')
    BY <1>4 DEF LeavesOnly
  <2>2. ObjectAt(chunks', scratch', pool', at) = Empty
    BY <2>1, <1>1, <1>4, ObjectTypes
  <2>3. ObjectAt(chunks, scratch, pool, at) = Empty
    BY <1>1, <1>4, ObjectTypes
  <2> QED
    BY <2>2, <2>3
<1> QED
  BY <1>2, <1>3, <1>4

(* What is spared of L, and the new object, is settled.                     *)
LEMMA SparedSettled ==
  ASSUME Heap(chunks), Types, Heap(chunks'), Len(chunks') <= MaxChunks, PoolAlone,
         NEW G \in SUBSET Index, Sturdy(G), NEW L \in SUBSET Index, Kept(L),
         NEW scr \in Scratches, NEW loses, NEW M \in SUBSET Index, Spares(M, G, scr, loses),
         M # Index => /\ remap = <<>>
                      /\ \A j \in 0 .. S - 1 : scr[j] = scratch[j] \/ scratch[j].ref = Nil,
         NEW n, NEW obj \in Object, LeavesOnly(M, n, obj),
         Carries(L, M, obj), Unmoved(L, M, n),
         scratch_top' = scratch_top, Meets(n)' = obj,
         NEW L2, L2 = Spared(L, M) \cup {n}
  PROVE  /\ Settled(L2)'
         /\ \A v \in Rooted(regs) : v.at \in Spared(L, M) /\ Finds(v)'
<1>1. Len(chunks) <= MaxChunks /\ scratch \in Scratches /\ pool \in Ref /\ regs \in [Regs -> Ref]
  BY DEF Types, Scratches
<1>2. /\ n \in Index /\ n[1] \in DOMAIN chunks' /\ n[1] >= FirstActive
      /\ n \notin Holding(chunks) \cap M
  BY DEF LeavesOnly
<1>3. FirstActive \in Nat \ {0} /\ \A at \in Index : at[1] \in Nat
  BY IndexPair, GcAssumption
<1>4. ~ IsScratch(n) /\ n[1] # 0
  BY <1>2, <1>3, ObjectAtFacts
<1>5. ASSUME NEW v, v.at \in Spared(L, M), Finds(v)
      PROVE  Finds(v)'
  <2>1. v.at # n
    <3> SUFFICES ASSUME v.at = n
                 PROVE  FALSE
      OBVIOUS
    <3>1. ObjectAt(chunks, scratch, pool, n) # Empty
      BY <1>4, <1>5 DEF Finds, Meets, Meant
    <3>2. n \in Holding(chunks)
      BY <3>1, <1>1, <1>2, <1>4, ObjectTypes
    <3> QED
      BY <3>2, <1>2, <1>3, <1>5 DEF Spared
  <2>2. Meets(v.at)' = Meets(v.at)
    BY <2>1, <1>5 DEF Unmoved
  <2> QED
    BY <2>2, <1>5 DEF Finds
<1>6. ASSUME NEW v \in Rooted(regs)
      PROVE  v.at \in Spared(L, M) /\ Finds(v)'
  <2>1. v.at \in L /\ Finds(v) /\ v.at \in Index
    BY <1>1, RootedFacts DEF Kept
  <2>2. v.at[1] >= FirstActive => v.at \in M
    BY <2>1 DEF Spares, Markable
  <2>3. v.at \in Spared(L, M)
    BY <2>1, <2>2, <1>3 DEF Spared
  <2> QED
    BY <2>1, <2>3, <1>5
<1>7. ASSUME NEW at \in Spared(L, M), NEW v \in RefsOf(Meets(at))
      PROVE  v.at \in Spared(L, M) /\ Finds(v)
  <2>1. at \in L /\ at \in Index /\ v.at \in L /\ v.at \in Index /\ Finds(v)
    BY DEF Kept, Settled, Spared
  <2>2. at \in M \/ at[1] < FirstActive
    BY DEF Spared
  <2>3. CASE M = Index
    BY <2>1, <2>3 DEF Spared
  <2>4. CASE M # Index
    <3>1. Meets(at) = ObjectAt(chunks, scratch, pool, at)
      BY <2>4 DEF Meets, Meant
    <3>2. /\ \A t \in M : Followed(scr, {}, t) \subseteq M
          /\ \A j \in 0 .. S - 1 : scr[j] = scratch[j] \/ scratch[j].ref = Nil
      BY <2>4 DEF Spares
    <3>3. ObjectAt(chunks, scratch, pool, at) \in Object \cup {Empty}
      BY <2>1, <1>1, ObjectTypes
    <3>4. v = Meets(at).ref /\ v # Nil /\ Meets(at) # Empty
      BY <3>1, <3>3, RefsOfFacts
    <3>5. CASE at[1] = 0
      <4>1. Meets(at).ref = pool
        BY <3>1, <3>5, <2>1, <1>1, ObjectAtFacts
      <4>2. v.at[1] < FirstActive
        BY <4>1, <3>4, <1>3 DEF PoolAlone
      <4> QED
        BY <4>2, <2>1 DEF Spared
    <3>6. CASE at[1] # 0 /\ ~ IsScratch(at)
      <4>1. at \in Holding(chunks) /\ at[1] \in DOMAIN chunks
        BY <3>1, <3>4, <3>6, <2>1, <1>1, ObjectTypes DEF Holding
      <4>2. at \in M
        BY <4>1, <2>1, <2>2, <1>3 DEF Sturdy, Firm
      <4>3. Meets(at) = At(chunks, at)
        BY <3>1, <4>1, <2>1, <1>1, ObjectAtFacts
      <4>4. Followed(scr, {}, at) = Markable(RefsOf(At(chunks, at)))
        BY <4>1, <2>1, <1>1, FollowedFacts
      <4>5. v.at[1] >= FirstActive => v.at \in M
        BY <4>2, <4>3, <4>4, <3>2 DEF Markable
      <4> QED
        BY <4>5, <2>1, <1>3 DEF Spared
    <3>7. CASE IsScratch(at)
      <4>1. at[2] \in 0 .. S - 1 /\ at[1] >= FirstActive /\ Meets(at) = scratch[at[2]]
        BY <3>1, <3>7, <2>1, <1>1, ObjectAtFacts
      <4>2. at \in M
        BY <4>1, <2>1, <2>2, <1>3
      <4>3. at[2] < scratch_top
        BY <2>1, <3>7 DEF Kept, Settled
      <4>4. scr[at[2]] = scratch[at[2]]
        BY <4>1, <3>2, <3>4
      <4>5. Followed(scr, {}, at) = Markable(RefsOf(scratch[at[2]]))
        BY <4>3, <4>4, <3>7, <2>1, <1>1, FollowedFacts
      <4>6. v.at[1] >= FirstActive => v.at \in M
        BY <4>1, <4>2, <4>5, <3>2 DEF Markable
      <4> QED
        BY <4>6, <2>1, <1>3 DEF Spared
    <3> QED
      BY <3>5, <3>6, <3>7
  <2> QED
    BY <2>3, <2>4
<1>8. L2 \subseteq Index /\ PoolSlots \subseteq L2
  <2>1. \A at \in PoolSlots : at[1] = 0 /\ at \in L
    BY DEF Kept, Settled, PoolSlots
  <2> QED
    BY <2>1, <1>2, <1>3 DEF Spared
<1>9. ASSUME NEW at \in L2
      PROVE  /\ IsScratch(at) => at[2] < scratch_top
             /\ \A v \in RefsOf(Meets(at)') : v.at \in L2 /\ Finds(v)'
  <2>1. CASE at = n
    BY <2>1, <1>4, <1>5 DEF Carries
  <2>2. CASE at # n
    <3>1. at \in Spared(L, M) /\ at \in L /\ Meets(at)' = Meets(at)
      BY <2>2 DEF Spared, Unmoved
    <3> QED
      BY <3>1, <1>5, <1>7 DEF Kept, Settled
  <2> QED
    BY <2>1, <2>2
<1>10. Settled(L2)'
  <2>1. \A at \in L2 : RefsOf(Meets(at)') = RefsOf(Meets(at))'
    BY DEF RefsOf
  <2> QED
    BY <2>1, <1>8, <1>9 DEF Settled, IsScratch
<1> QED
  BY <1>6, <1>10

(* An allocation by an instruction: with or without a collection, what the  *)
(* registers refer to stays, and the new object is found where it was put.  *)
LEMMA AllocatedIntact ==
  ASSUME Inv, Intact, remap = <<>>, NEW v \in Held, NEW w \in BOOLEAN,
         NEW out \in Outcomes([watched |-> w, ref |-> v], scratch, FALSE), Allocates(out),
         harm' = {}, UNCHANGED <<scratch, scratch_top, pool, remap>>
  PROVE  /\ Wholes(chunks)' /\ PoolAlone'
         /\ \E G \in SUBSET Index :
              Firm(G)' /\ Markable(Rooted(regs)) \subseteq G /\ out.at \in G
         /\ \E L \in SUBSET Index :
              /\ Settled(L)' /\ out.at \in L /\ \A q \in Rooted(regs) : q.at \in L /\ Finds(q)'
              /\ Finds([at |-> out.at, watched |-> w])'
<1>0. PICK obj, n : obj = [watched |-> w, ref |-> v] /\ n = out.at
  OBVIOUS
<1>1. obj \in Object /\ scratch \in Scratches /\ regs \in [Regs -> Ref] /\ pool \in Ref
  BY <1>0, HeldRef DEF Inv, Types, Scratches, Object
<1>2. Heap(chunks) /\ Types /\ Len(chunks) <= MaxChunks /\ Wholes(chunks) /\ PoolAlone
  BY DEF Inv, Types, Intact
<1>3. PICK G \in SUBSET Index : Sturdy(G)
  BY DEF Intact
<1>4. PICK L \in SUBSET Index : Kept(L)
  BY DEF Intact
<1>5. Emptied(scratch)
  BY DEF Emptied
<1>6. /\ Wholes(chunks') /\ Heap(chunks') /\ Len(chunks') <= MaxChunks
      /\ \E M \in SUBSET Index : Spares(M, G, scratch, FALSE) /\ LeavesOnly(M, n, obj)
  BY <1>0, <1>1, <1>2, <1>3, <1>5, AllocationSpares
<1>7. PICK M \in SUBSET Index : Spares(M, G, scratch, FALSE) /\ LeavesOnly(M, n, obj)
  BY <1>6
<1>8. \A q \in RefsOf(obj) : q \in Rooted(regs)
  <2> SUFFICES ASSUME NEW q \in RefsOf(obj)
               PROVE  q \in Rooted(regs)
    OBVIOUS
  <2>1. q = obj.ref /\ q # Nil
    BY <1>1, RefsOfFacts
  <2> QED
    BY <1>0, <2>1, HeldFacts
<1>9. Markable(RefsOf(obj)) \subseteq G \cap M
  <2>1. Markable(RefsOf(obj)) \subseteq Markable(Rooted(regs))
    BY <1>8 DEF Markable
  <2>2. Markable(Rooted(regs)) \subseteq G /\ Markable(Rooted(regs)) \subseteq Index
    BY <1>3 DEF Sturdy
  <2> QED
    BY <2>1, <2>2, <1>7 DEF Spares
<1>10. Firm((G \cap M) \cup {n})' /\ Markable(Rooted(regs)) \subseteq (G \cap M) \cup {n}
  BY <1>1, <1>2, <1>3, <1>5, <1>6, <1>7, <1>9, SparedFirm
<1>11. n \in Index /\ n[1] \in DOMAIN chunks' /\ n \in Holding(chunks') /\ At(chunks', n) = obj
  BY <1>7 DEF LeavesOnly
<1>12. Meets(n)' = obj
  <2>1. ~ IsScratch(n) /\ ObjectAt(chunks', scratch', pool', n) = At(chunks', n)
    BY <1>6, <1>11, ObjectAtFacts
  <2> QED
    BY <2>1, <1>11 DEF Meets, Meant
<1>13. ASSUME NEW at \in Spared(L, M), at # n
       PROVE  Meets(at)' = Meets(at)
  <2>1. at \in Index /\ (at \in M \/ at[1] < FirstActive)
    BY DEF Spared
  <2>2. Meets(at)' = ObjectAt(chunks, scratch, pool, at)'
        /\ Meets(at) = ObjectAt(chunks, scratch, pool, at)
    BY DEF Meets, Meant
  <2>3. CASE IsScratch(at)
    <3>1. ObjectAt(chunks', scratch', pool', at) = scratch'[at[2]]
      BY <2>1, <2>3, <1>6, ObjectAtFacts
    <3>2. ObjectAt(chunks, scratch, pool, at) = scratch[at[2]]
      BY <2>1, <2>3, <1>2, ObjectAtFacts
    <3> QED
      BY <2>2, <3>1, <3>2
  <2>4. CASE ~ IsScratch(at)
    <3>1. scratch' \in Scratches /\ pool' = pool
      BY <1>1
    <3>2. ObjectAt(chunks, scratch, pool, at)' = ObjectAt(chunks, scratch, pool, at)
      BY <2>1, <2>4, <3>1, <1>2, <1>3, <1>6, <1>7, <1>13, SparedObject
    <3> QED
      BY <2>2, <3>2
  <2> QED
    BY <2>3, <2>4
<1>14. Carries(L, M, obj)
  <2> SUFFICES ASSUME NEW q \in RefsOf(obj)
               PROVE  q.at \in Spared(L, M) /\ Finds(q)
    BY DEF Carries
  <2>1. q \in Rooted(regs) /\ q.at \in L /\ Finds(q) /\ q.at \in Index
    BY <1>1, <1>4, <1>8, RootedFacts DEF Kept
  <2>2. q.at[1] >= FirstActive => q.at \in M
    BY <2>1, <1>7 DEF Spares, Markable
  <2> QED
    BY <2>1, <2>2, IndexPair, GcAssumption DEF Spared
<1>15. PICK L2 : L2 = Spared(L, M) \cup {n}
  OBVIOUS
<1>16. /\ Settled(L2)'
       /\ \A q \in Rooted(regs) : q.at \in Spared(L, M) /\ Finds(q)'
  <2>1. M # Index => /\ remap = <<>>
                     /\ \A j \in 0 .. S - 1 : scratch[j] = scratch[j] \/ scratch[j].ref = Nil
    OBVIOUS
  <2>2. scratch_top' = scratch_top
    OBVIOUS
  <2>3. Unmoved(L, M, n)
    BY <1>13 DEF Unmoved
  <2>4. /\ Heap(chunks) /\ Types /\ Heap(chunks') /\ Len(chunks') <= MaxChunks /\ PoolAlone
        /\ Sturdy(G) /\ Kept(L) /\ Spares(M, G, scratch, FALSE) /\ LeavesOnly(M, n, obj)
        /\ scratch \in Scratches /\ obj \in Object /\ Meets(n)' = obj
    BY <1>1, <1>2, <1>3, <1>4, <1>6, <1>7, <1>12
  <2> QED
    BY <2>1, <2>2, <2>3, <2>4, <1>14, <1>15, SparedSettled
<1>17. Finds([at |-> n, watched |-> w])'
  <2>1. obj # Empty /\ obj.watched = w
    BY <1>0, <1>1, NilAndEmpty
  <2> QED
    BY <2>1, <1>12 DEF Finds
<1>18. L2 \in SUBSET Index /\ n \in L2 /\ Spared(L, M) \subseteq L2 /\ (G \cap M) \cup {n} \in SUBSET Index
  BY <1>11, <1>15 DEF Spared
<1>19. Wholes(chunks)' /\ PoolAlone'
  BY <1>2, <1>6 DEF PoolAlone, Wholes
<1> QED
  BY <1>0, <1>10, <1>16, <1>17, <1>18, <1>19

(* The roots, with a register set.                                          *)
LEMMA RootedOne ==
  ASSUME regs \in [Regs -> Ref], NEW r \in Regs, NEW v, regs' = [regs EXCEPT ![r] = v]
  PROVE  \A q \in Rooted(regs') : q \in Rooted(regs) \/ (q = v /\ q # Nil)
  BY DEF Rooted

LEMMA AllocIntact ==
  ASSUME Inv, Intact, NEW r \in Regs, NEW v \in Held, Alloc(r, v), harm' = {}
  PROVE  Intact'
<1>1. PICK w \in BOOLEAN :
        \E out \in Outcomes([watched |-> w, ref |-> v], scratch, FALSE) :
           /\ Allocates(out)
           /\ regs' = [regs EXCEPT ![r] = [at |-> out.at, watched |-> w]]
  BY DEF Alloc
<1>2. PICK out \in Outcomes([watched |-> w, ref |-> v], scratch, FALSE) :
        Allocates(out) /\ regs' = [regs EXCEPT ![r] = [at |-> out.at, watched |-> w]]
  BY <1>1
<1> DEFINE new == [at |-> out.at, watched |-> w]
<1>3. phase = "run" /\ phase' = "run" /\ remap = <<>> /\ UNCHANGED <<scratch, scratch_top, pool, remap>>
  BY DEF Alloc, Running, safeVars, Intact, Resting
<1>4. /\ Wholes(chunks)' /\ PoolAlone'
      /\ \E G \in SUBSET Index :
           Firm(G)' /\ Markable(Rooted(regs)) \subseteq G /\ out.at \in G
      /\ \E L \in SUBSET Index :
           /\ Settled(L)' /\ out.at \in L /\ \A q \in Rooted(regs) : q.at \in L /\ Finds(q)'
           /\ Finds(new)'
  BY <1>2, <1>3, AllocatedIntact
<1>5. \A q \in Rooted(regs') : q \in Rooted(regs) \/ q = new
  <2>1. regs \in [Regs -> Ref]
    BY DEF Inv, Types
  <2>2. regs' = [regs EXCEPT ![r] = new]
    BY <1>2
  <2> HIDE DEF new
  <2> QED
    BY <2>1, <2>2, RootedOne
<1>6. \E G \in SUBSET Index : Sturdy(G)'
  <2>1. PICK G \in SUBSET Index : Firm(G)' /\ Markable(Rooted(regs)) \subseteq G /\ out.at \in G
    BY <1>4
  <2>2. Markable(Rooted(regs')) \subseteq G
    BY <2>1, <1>5 DEF Markable
  <2> QED
    BY <2>1, <2>2 DEF Sturdy, Markable, Rooted
<1>7. \E L \in SUBSET Index : Kept(L)'
  <2>1. PICK L \in SUBSET Index :
           /\ Settled(L)' /\ out.at \in L /\ \A q \in Rooted(regs) : q.at \in L /\ Finds(q)'
           /\ Finds(new)'
    BY <1>4
  <2>2. \A q \in Rooted(regs') : q.at \in L /\ Finds(q)'
    BY <2>1, <1>5
  <2> QED
    BY <2>1, <2>2 DEF Kept, Finds, Rooted
<1>8. Resting'
  BY <1>3 DEF Resting
<1> QED
  BY <1>4, <1>6, <1>7, <1>8 DEF Intact

LEMMA ScratchFullIntact ==
  ASSUME Inv, Intact, NEW v \in Held, ScratchFull(v), harm' = {}
  PROVE  Intact'
<1>1. PICK w \in BOOLEAN :
        \E out \in Outcomes([watched |-> w, ref |-> v], scratch, FALSE) : Allocates(out)
  BY DEF ScratchFull
<1>2. PICK out \in Outcomes([watched |-> w, ref |-> v], scratch, FALSE) : Allocates(out)
  BY <1>1
<1>3. /\ phase = "run" /\ phase' = "panicked" /\ remap = <<>>
      /\ UNCHANGED <<scratch, scratch_top, pool, remap, regs>>
  BY DEF ScratchFull, Running, safeVars, Intact, Resting
<1>4. /\ Wholes(chunks)' /\ PoolAlone'
      /\ \E G \in SUBSET Index :
           Firm(G)' /\ Markable(Rooted(regs)) \subseteq G /\ out.at \in G
      /\ \E L \in SUBSET Index :
           /\ Settled(L)' /\ out.at \in L /\ \A q \in Rooted(regs) : q.at \in L /\ Finds(q)'
           /\ Finds([at |-> out.at, watched |-> w])'
  BY <1>2, <1>3, AllocatedIntact
<1>5. Rooted(regs)' = Rooted(regs)
  BY <1>3 DEF Rooted
<1>6. \E G \in SUBSET Index : Sturdy(G)'
  BY <1>4, <1>5 DEF Sturdy, Markable
<1>7. \E L \in SUBSET Index : Kept(L)'
  <2>1. PICK L \in SUBSET Index :
           Settled(L)' /\ \A q \in Rooted(regs) : q.at \in L /\ Finds(q)'
    BY <1>4
  <2> QED
    BY <2>1, <1>5 DEF Kept, Finds
<1>8. Resting'
  BY <1>3 DEF Resting
<1> QED
  BY <1>4, <1>6, <1>7, <1>8 DEF Intact

(* A step that only sets a register, to what is found.                      *)
LEMMA RegistersIntact ==
  ASSUME Inv, Intact, NEW r \in Regs, NEW v,
         regs' = [regs EXCEPT ![r] = v], UNCHANGED <<heapVars, phase>>, phase = "run",
         NEW G \in SUBSET Index, Sturdy(G), NEW L \in SUBSET Index, Kept(L),
         v # Nil => (v.at[1] >= FirstActive => v.at \in G) /\ v.at \in L /\ Finds(v)
  PROVE  Intact'
<1>1. /\ UNCHANGED <<chunks, scratch, scratch_top, pool, remap, left>>
      /\ phase' = phase
  BY DEF heapVars, safeVars
<1>2. \A q \in Rooted(regs') : q \in Rooted(regs) \/ (q = v /\ q # Nil)
  BY RootedOne DEF Inv, Types
<1>3. Sturdy(G)'
  <2>1. Firm(G)'
    BY <1>1 DEF Sturdy, Firm, Followed
  <2>2. Markable(Rooted(regs')) \subseteq G
    BY <1>2 DEF Sturdy, Markable
  <2> QED
    BY <2>1, <2>2 DEF Sturdy, Markable, Rooted
<1>4. Kept(L)'
  <2>1. \A at : Meets(at)' = Meets(at)
    BY <1>1 DEF Meets, Meant
  <2>2. \A q : Finds(q) => Finds(q)'
    BY <2>1 DEF Finds
  <2>3. Settled(L)'
    BY <2>1, <2>2, <1>1 DEF Kept, Settled
  <2>4. \A q \in Rooted(regs') : q.at \in L /\ Finds(q)'
    BY <1>2, <2>2 DEF Kept
  <2> QED
    BY <2>3, <2>4 DEF Kept, Rooted, Finds
<1>5. Wholes(chunks)' /\ PoolAlone' /\ Resting'
  BY <1>1 DEF Intact, Wholes, PoolAlone, Resting
<1> QED
  BY <1>3, <1>4, <1>5 DEF Intact

LEMMA MoveIntact ==
  ASSUME Inv, Intact, NEW r \in Regs, NEW v \in Held, Move(r, v)
  PROVE  Intact'
<1>1. PICK G \in SUBSET Index : Sturdy(G)
  BY DEF Intact
<1>2. PICK L \in SUBSET Index : Kept(L)
  BY DEF Intact
<1>3. v # Nil => (v.at[1] >= FirstActive => v.at \in G) /\ v.at \in L /\ Finds(v)
  BY <1>1, <1>2, HeldFacts DEF Sturdy, Markable, Kept
<1> QED
  BY <1>1, <1>2, <1>3, RegistersIntact DEF Move, Running

LEMMA LoadConstIntact ==
  ASSUME Inv, Intact, NEW r \in Regs, LoadConst(r)
  PROVE  Intact'
<1>1. PICK G \in SUBSET Index : Sturdy(G)
  BY DEF Intact
<1>2. PICK L \in SUBSET Index : Kept(L)
  BY DEF Intact
<1>0. PICK v : v = [at |-> <<0, 0>>, watched |-> FALSE]
  OBVIOUS
<1>3. v.at = <<0, 0>> /\ v.watched = FALSE /\ v.at[1] = 0
  BY <1>0
<1>4. v.at \in L /\ v.at \in Index
  BY <1>2, <1>3, SlotSets DEF Kept, Settled, PoolSlots, Slots
<1>5. Finds(v)
  <2>1. Len(chunks) <= MaxChunks /\ Heap(chunks) /\ ~ IsScratch(v.at)
    BY <1>3, GcAssumption DEF Inv, Types, IsScratch, Scratch
  <2>2. Meets(v.at) = [watched |-> FALSE, ref |-> pool]
    <3>1. Meets(v.at) = ObjectAt(chunks, scratch, pool, v.at)
      BY <2>1 DEF Meets, Meant
    <3>2. PICK at : at = v.at
      OBVIOUS
    <3>3. at \in Index /\ at[1] = 0
      BY <3>2, <1>3, <1>4
    <3>4. ObjectAt(chunks, scratch, pool, at) = [watched |-> FALSE, ref |-> pool]
      BY <3>3, <2>1, ObjectAtFacts
    <3> QED
      BY <3>1, <3>2, <3>4
  <2>3. [watched |-> FALSE, ref |-> pool] \in Object
    BY DEF Inv, Types, Object
  <2>4. [watched |-> FALSE, ref |-> pool] # Empty /\ [watched |-> FALSE, ref |-> pool].watched = FALSE
    BY <2>3, NilAndEmpty
  <2> QED
    BY <2>2, <2>4, <1>3 DEF Finds
<1>6. ~ (v.at[1] >= FirstActive)
  BY <1>3, GcAssumption
<1>7. regs' = [regs EXCEPT ![r] = v] /\ UNCHANGED <<heapVars, phase>> /\ phase = "run"
  BY <1>0 DEF LoadConst, Running
<1> QED
  BY <1>1, <1>2, <1>4, <1>5, <1>6, <1>7, RegistersIntact

(* What is read from an object in use is in use.                            *)
LEMMA LoadIntact ==
  ASSUME Inv, Intact, NEW r \in Regs, NEW q \in Regs, Load(r, q)
  PROVE  Intact'
<1>1. PICK G \in SUBSET Index : Sturdy(G)
  BY DEF Intact
<1>2. PICK L \in SUBSET Index : Kept(L)
  BY DEF Intact
<1>3. PICK v : v = Found(q).ref
  OBVIOUS
<1>4. /\ phase = "run" /\ regs[q] # Nil /\ Found(q) # Empty /\ remap = <<>>
      /\ regs' = [regs EXCEPT ![r] = v] /\ UNCHANGED <<heapVars, phase>>
  BY <1>3 DEF Load, Running, Intact, Resting
<1>5. /\ Heap(chunks) /\ Len(chunks) <= MaxChunks /\ scratch \in Scratches /\ pool \in Ref
      /\ regs \in [Regs -> Ref] /\ PoolAlone
  BY DEF Inv, Types, Scratches, Intact
<1>6. PICK at : at = regs[q].at
  OBVIOUS
<1>7. regs[q] \in Rooted(regs)
  BY <1>4 DEF Rooted
<1>8. at \in Index /\ at \in L
  BY <1>2, <1>5, <1>6, <1>7, RootedFacts DEF Kept
<1>9. Meets(at) = Found(q) /\ Found(q) = ObjectAt(chunks, scratch, pool, at)
  BY <1>4, <1>6 DEF Meets, Meant, Found
<1>10. Found(q) \in Object
  BY <1>4, <1>5, <1>8, <1>9, ObjectTypes
<1>11. ASSUME v # Nil
       PROVE  (v.at[1] >= FirstActive => v.at \in G) /\ v.at \in L /\ Finds(v)
  <2>1. RefsOf(Meets(at)) = {v}
    BY <1>3, <1>9, <1>10, <1>11, RefsOfFacts
  <2>2. v.at \in L /\ Finds(v) /\ (IsScratch(at) => at[2] < scratch_top)
    BY <2>1, <1>2, <1>8 DEF Kept, Settled
  <2>3. ASSUME v.at[1] >= FirstActive
        PROVE  v.at \in G
    <3>1. at[1] # 0
      <4> SUFFICES ASSUME at[1] = 0
                   PROVE  FALSE
        OBVIOUS
      <4>1. Found(q) = [watched |-> FALSE, ref |-> pool]
        BY <1>5, <1>8, <1>9, ObjectAtFacts
      <4>2. v = pool
        BY <4>1, <1>3
      <4> QED
        BY <4>2, <2>3, <1>5, <1>11, GcAssumption DEF PoolAlone
    <3>2. v.at \in Markable(RefsOf(Meets(at)))
      BY <2>1, <2>3 DEF Markable
    <3>3. CASE IsScratch(at)
      <4>1. at[2] < scratch_top /\ Meets(at) = scratch[at[2]] /\ at[1] >= FirstActive
        BY <2>2, <3>3, <1>5, <1>8, <1>9, ObjectAtFacts
      <4>2. at \in G
        BY <4>1, <1>1, <1>6, <1>7 DEF Sturdy, Markable
      <4>3. v.at \in Followed(scratch, {}, at)
        BY <3>2, <3>3, <4>1, <1>5, <1>8, FollowedFacts
      <4> QED
        BY <4>2, <4>3, <1>1 DEF Sturdy, Firm
    <3>4. CASE ~ IsScratch(at)
      <4>1. at \in Holding(chunks) /\ at[1] \in DOMAIN chunks
        BY <3>1, <3>4, <1>4, <1>5, <1>8, <1>9, ObjectTypes DEF Holding
      <4>2. Meets(at) = At(chunks, at)
        BY <4>1, <1>5, <1>8, <1>9, ObjectAtFacts
      <4>3. v.at \in Followed(scratch, {}, at)
        BY <3>2, <4>1, <4>2, <1>5, <1>8, FollowedFacts
      <4> QED
        BY <4>1, <4>3, <1>1 DEF Sturdy, Firm
    <3> QED
      BY <3>3, <3>4
  <2> QED
    BY <2>2, <2>3
<1> QED
  BY <1>1, <1>2, <1>4, <1>11, RegistersIntact

LEMMA AllocScratchIntact ==
  ASSUME Inv, Intact, NEW r \in Regs, NEW v \in Held, AllocScratch(r, v)
  PROVE  Intact'
<1>1. PICK G \in SUBSET Index : Sturdy(G)
  BY DEF Intact
<1>2. PICK L \in SUBSET Index : Kept(L)
  BY DEF Intact
<1>3. PICK w \in BOOLEAN :
        /\ scratch' = [scratch EXCEPT ![scratch_top] = [watched |-> w, ref |-> v]]
        /\ regs' = [regs EXCEPT ![r] = [at |-> <<Scratch, scratch_top>>, watched |-> w]]
  BY DEF AllocScratch
<1>4. PICK obj, new, s : /\ obj = [watched |-> w, ref |-> v]
                         /\ new = [at |-> <<Scratch, scratch_top>>, watched |-> w]
                         /\ s = <<Scratch, scratch_top>>
  OBVIOUS
<1>5. /\ phase = "run" /\ phase' = "run" /\ remap = <<>> /\ scratch_top < S
      /\ scratch_top' = scratch_top + 1
      /\ UNCHANGED <<chunks, pool, remap, left>>
  BY DEF AllocScratch, Running, safeVars, Intact, Resting
<1>6. /\ Heap(chunks) /\ Len(chunks) <= MaxChunks /\ scratch \in Scratches /\ pool \in Ref
      /\ regs \in [Regs -> Ref] /\ obj \in Object /\ scratch_top \in Nat /\ S \in Nat
  BY <1>4, HeldRef, GcAssumption DEF Inv, Types, Scratches, Object
<1>7. s \in Index /\ IsScratch(s) /\ s[2] = scratch_top /\ s \notin L /\ new.at = s /\ s[1] >= FirstActive
  <2>1. s \in Index /\ IsScratch(s) /\ s[2] = scratch_top /\ new.at = s
    <3>1. scratch_top \in 0 .. S - 1
      BY <1>5, <1>6
    <3> QED
      BY <3>1, <1>4 DEF Index, IsScratch
  <2>2. s \notin L
    BY <2>1, <1>2, <1>6 DEF Kept, Settled
  <2>3. s[1] >= FirstActive
    BY <2>1, <1>6, ObjectAtFacts
  <2> QED
    BY <2>1, <2>2, <2>3
<1>8. \A at \in Index : IsScratch(at) =>
         /\ at[2] \in 0 .. S - 1 /\ (at[2] = scratch_top <=> at = s)
         /\ scratch'[at[2]] = IF at = s THEN obj ELSE scratch[at[2]]
  <2> SUFFICES ASSUME NEW at \in Index, IsScratch(at)
               PROVE  /\ at[2] \in 0 .. S - 1 /\ (at[2] = scratch_top <=> at = s)
                      /\ scratch'[at[2]] = IF at = s THEN obj ELSE scratch[at[2]]
    OBVIOUS
  <2>1. at[2] \in 0 .. S - 1 /\ at = <<Scratch, at[2]>>
    BY IndexParts, IndexPair DEF IsScratch
  <2>2. at[2] = scratch_top <=> at = s
    BY <2>1, <1>4
  <2> QED
    BY <2>1, <2>2, <1>3, <1>4, <1>6 DEF Scratches
<1>9. \A q \in Rooted(regs') : q \in Rooted(regs) \/ q = new
  <2>1. regs' = [regs EXCEPT ![r] = new]
    BY <1>3, <1>4
  <2> QED
    BY <2>1, <1>6, RootedOne
<1>10. \A q \in RefsOf(obj) : q \in Rooted(regs)
  <2> SUFFICES ASSUME NEW q \in RefsOf(obj)
               PROVE  q \in Rooted(regs)
    OBVIOUS
  <2>1. q = obj.ref /\ q # Nil
    BY <1>6, RefsOfFacts
  <2> QED
    BY <1>4, <2>1, HeldFacts
<1>11. PICK G2, L2 : G2 = G \cup {s} /\ L2 = L \cup {s}
  OBVIOUS
<1>12. Firm(G2)'
  <2>1. G2 \subseteq Index /\ Holding(chunks') \subseteq G2
    BY <1>1, <1>5, <1>7, <1>11 DEF Sturdy, Firm
  <2>2. ASSUME NEW at \in G2
        PROVE  /\ at[1] >= FirstActive /\ (IsScratch(at) \/ at \in Holding(chunks'))
               /\ Followed(scratch, {}, at)' \subseteq G2
    <3>1. CASE at = s
      <4>1. Followed(scratch, {}, at)' = Markable(RefsOf(obj))
        <5>1. scratch'[s[2]] = obj /\ s[2] < scratch_top'
          BY <1>5, <1>6, <1>7, <1>8
        <5>2. s[1] \notin DOMAIN chunks
          BY <1>6, <1>7, ObjectAtFacts
        <5> QED
          BY <3>1, <5>1, <5>2, <1>5, <1>7 DEF Followed
      <4>2. Markable(RefsOf(obj)) \subseteq G
        BY <1>1, <1>10 DEF Sturdy, Markable
      <4> QED
        BY <3>1, <4>1, <4>2, <1>7, <1>11
    <3>2. CASE at # s
      <4>1. /\ at \in G /\ at \in Index /\ at[1] >= FirstActive
            /\ IsScratch(at) \/ at \in Holding(chunks)
            /\ Followed(scratch, {}, at) \subseteq G
        BY <3>2, <1>1, <1>11 DEF Sturdy, Firm
      <4>2. Followed(scratch, {}, at)' \subseteq Followed(scratch, {}, at)
        <5>1. CASE IsScratch(at)
          <6>1. at[2] \in 0 .. S - 1 /\ at[2] # scratch_top /\ scratch'[at[2]] = scratch[at[2]]
            BY <3>2, <4>1, <5>1, <1>8
          <6>2. at[2] < scratch_top' => at[2] < scratch_top
            BY <6>1, <1>5, <1>6
          <6>3. at[1] \notin DOMAIN chunks
            BY <4>1, <5>1, <1>6, ObjectAtFacts
          <6> QED
            BY <5>1, <6>1, <6>2, <6>3, <1>5 DEF Followed
        <5>2. CASE ~ IsScratch(at)
          BY <5>2, <1>5 DEF Followed
        <5> QED
          BY <5>1, <5>2
      <4> QED
        BY <4>1, <4>2, <1>5, <1>11
    <3> QED
      BY <3>1, <3>2
  <2> QED
    BY <2>1, <2>2 DEF Firm
<1>13. Sturdy(G2)'
  <2>1. Markable(Rooted(regs')) \subseteq G2
    BY <1>1, <1>7, <1>9, <1>11 DEF Sturdy, Markable
  <2> QED
    BY <2>1, <1>12 DEF Sturdy, Markable, Rooted
<1>14. Meets(s)' = obj
  <2>1. ObjectAt(chunks', scratch', pool', s) = scratch'[s[2]]
    BY <1>5, <1>6, <1>7, ObjectAtFacts
  <2> QED
    BY <2>1, <1>5, <1>7, <1>8 DEF Meets, Meant
<1>15. ASSUME NEW at \in L
       PROVE  Meets(at)' = Meets(at)
  <2>1. at \in Index /\ at # s
    BY <1>7
  <2>2. Meets(at)' = ObjectAt(chunks', scratch', pool', at)
        /\ Meets(at) = ObjectAt(chunks, scratch, pool, at)
    BY <1>5 DEF Meets, Meant
  <2>3. CASE IsScratch(at)
    <3>1. ObjectAt(chunks', scratch', pool', at) = scratch'[at[2]]
      BY <2>1, <2>3, <1>5, <1>6, ObjectAtFacts
    <3>2. ObjectAt(chunks, scratch, pool, at) = scratch[at[2]]
      BY <2>1, <2>3, <1>6, ObjectAtFacts
    <3> QED
      BY <2>1, <2>2, <2>3, <3>1, <3>2, <1>8
  <2>4. CASE ~ IsScratch(at)
    BY <2>2, <2>4, <1>5 DEF ObjectAt
  <2> QED
    BY <2>3, <2>4
<1>16. \A q : q.at \in L /\ Finds(q) => Finds(q)'
  BY <1>15 DEF Finds
<1>17. Finds(new)'
  <2>1. new.watched = w /\ obj.watched = w /\ obj # Empty
    BY <1>4, <1>6, NilAndEmpty
  <2> QED
    BY <2>1, <1>7, <1>14 DEF Finds
<1>18. Kept(L2)'
  <2>1. L2 \subseteq Index /\ PoolSlots \subseteq L2
    BY <1>2, <1>7, <1>11 DEF Kept, Settled
  <2>2. ASSUME NEW at \in L2
        PROVE  /\ IsScratch(at) => at[2] < scratch_top'
               /\ \A q \in RefsOf(Meets(at)') : q.at \in L2 /\ Finds(q)'
    <3>1. CASE at = s
      BY <3>1, <1>2, <1>5, <1>6, <1>7, <1>10, <1>11, <1>14, <1>16 DEF Kept
    <3>2. CASE at \in L
      <4>1. IsScratch(at) => at[2] < scratch_top /\ at[2] \in Nat
        BY <3>2, <1>2, IndexParts DEF Kept, Settled
      <4>2. \A q \in RefsOf(Meets(at)) : q.at \in L /\ Finds(q)
        BY <3>2, <1>2 DEF Kept, Settled
      <4> QED
        BY <3>2, <4>1, <4>2, <1>5, <1>6, <1>11, <1>15, <1>16
    <3> QED
      BY <3>1, <3>2, <1>11
  <2>3. Settled(L2)'
    BY <2>1, <2>2 DEF Settled
  <2>4. \A q \in Rooted(regs') : q.at \in L2 /\ Finds(q)'
    BY <1>2, <1>7, <1>9, <1>11, <1>16, <1>17 DEF Kept
  <2> QED
    BY <2>3, <2>4 DEF Kept, Rooted, Finds
<1>19. Wholes(chunks)' /\ PoolAlone' /\ Resting'
  BY <1>5 DEF Intact, Wholes, PoolAlone, Resting
<1>20. G2 \in SUBSET Index /\ L2 \in SUBSET Index
  BY <1>7, <1>11
<1> QED
  BY <1>13, <1>18, <1>19, <1>20 DEF Intact

(* Chunks whose slots stay what they are, objects or not.                   *)
LEMMA SameHolding ==
  ASSUME Heap(chunks), Len(chunks) <= MaxChunks, DOMAIN chunks' = DOMAIN chunks,
         \A c \in DOMAIN chunks :
            /\ chunks'[c].top = chunks[c].top /\ chunks'[c].free = chunks[c].free
            /\ \A o \in Slots : chunks'[c].data[o] = Empty <=> chunks[c].data[o] = Empty
  PROVE  /\ Wholes(chunks) => Wholes(chunks')
         /\ Holding(chunks') = Holding(chunks)
<1>1. Wholes(chunks) => Wholes(chunks')
  BY DEF Wholes, Whole
<1>2. ASSUME NEW at \in Index, at[1] \in DOMAIN chunks
      PROVE  At(chunks', at) = Empty <=> At(chunks, at) = Empty
  <2>1. at[2] \in Slots
    BY <1>2, ObjectAtFacts
  <2> QED
    BY <2>1, <1>2 DEF At
<1> QED
  BY <1>1, <1>2 DEF Holding

(* A store of a reference the registers hold: some objects are as they were  *)
(* but for their reference, which is that one.                             *)
Changed(was, is, v) ==
    \/ is = was
    \/ /\ was # Empty /\ is \in Object
       /\ is.watched = was.watched /\ is.ref = v

LEMMA StoredIntact ==
  ASSUME Inv, Intact, NEW v \in Held, phase = "run", UNCHANGED <<scratch_top, regs, phase, remap>>,
         Wholes(chunks'), Holding(chunks') = Holding(chunks), PoolAlone',
         \A at \in Index : Changed(Meets(at), Meets(at)', v),
         \A at \in Index :
            Followed(scratch, {}, at)' \subseteq
               Followed(scratch, {}, at) \cup {q.at : q \in {p \in {v} \ {Nil} : p.at[1] >= FirstActive}}
  PROVE  Intact'
<1>1. PICK G \in SUBSET Index : Sturdy(G)
  BY DEF Intact
<1>2. PICK L \in SUBSET Index : Kept(L)
  BY DEF Intact
<1>3. /\ Heap(chunks) /\ Len(chunks) <= MaxChunks /\ scratch \in Scratches /\ pool \in Ref
  BY DEF Inv, Types, Scratches
<1>4. Rooted(regs)' = Rooted(regs)
  BY DEF Rooted
<1>5. \A at \in G : Followed(scratch, {}, at)' \subseteq G
  <2> SUFFICES ASSUME NEW at \in G, NEW x \in Followed(scratch, {}, at)'
               PROVE  x \in G
    OBVIOUS
  <2>1. x \in Followed(scratch, {}, at) \/ (v # Nil /\ x = v.at /\ v.at[1] >= FirstActive)
    OBVIOUS
  <2>2. Followed(scratch, {}, at) \subseteq G
    BY <1>1 DEF Sturdy, Firm
  <2>3. v # Nil /\ v.at[1] >= FirstActive => v.at \in G
    BY <1>1, HeldFacts DEF Sturdy, Markable
  <2> QED
    BY <2>1, <2>2, <2>3
<1>6. Sturdy(G)'
  <2>1. Firm(G)'
    BY <1>1, <1>5 DEF Sturdy, Firm
  <2>2. Markable(Rooted(regs')) \subseteq G
    BY <1>1, <1>4 DEF Sturdy
  <2> QED
    BY <2>1, <2>2 DEF Sturdy, Markable, Rooted
<1>7. \A q : q.at \in L /\ Finds(q) => Finds(q)'
  <2> SUFFICES ASSUME NEW q, q.at \in L, Finds(q)
               PROVE  Finds(q)'
    OBVIOUS
  <2>1. Changed(Meets(q.at), Meets(q.at)', v)
    OBVIOUS
  <2> QED
    BY <2>1, NilAndEmpty DEF Changed, Finds
<1>8. ASSUME NEW at \in L, NEW q \in RefsOf(Meets(at)')
      PROVE  q.at \in L /\ Finds(q)
  <2>1. Changed(Meets(at), Meets(at)', v)
    OBVIOUS
  <2>2. CASE Meets(at)' = Meets(at)
    BY <2>2, <1>2, <1>8 DEF Kept, Settled
  <2>3. CASE Meets(at)' # Meets(at)
    <3>1. Meets(at)' \in Object /\ Meets(at)'.ref = v
      BY <2>1, <2>3 DEF Changed
    <3>2. q = v /\ q # Nil
      BY <3>1, <1>8, RefsOfFacts
    <3> QED
      BY <3>2, <1>2, HeldFacts DEF Kept
  <2> QED
    BY <2>2, <2>3
<1>9. Kept(L)'
  <2>1. ASSUME NEW at \in L
        PROVE  /\ IsScratch(at) => at[2] < scratch_top'
               /\ \A q \in RefsOf(Meets(at)') : q.at \in L /\ Finds(q)'
    BY <1>2, <1>7, <1>8 DEF Kept, Settled
  <2>2. Settled(L)'
    BY <2>1, <1>2 DEF Kept, Settled
  <2>3. \A q \in Rooted(regs)' : q.at \in L /\ Finds(q)'
    BY <1>2, <1>4, <1>7 DEF Kept
  <2> QED
    BY <2>2, <2>3 DEF Kept
<1>10. Wholes(chunks)' /\ Resting'
  BY DEF Intact, Wholes, Resting
<1> QED
  BY <1>6, <1>9, <1>10 DEF Intact

LEMMA TouchIntact ==
  ASSUME Inv, Intact, NEW r \in Regs, Touch(r)
  PROVE  Intact'
<1>1. /\ phase = "run" /\ remap = <<>> /\ chunks' = Soiled(chunks, regs[r].at)
      /\ regs[r].at[1] \in DOMAIN chunks
      /\ UNCHANGED <<scratch, scratch_top, pool, regs, phase, remap>>
  BY DEF Touch, Running, safeVars, Intact, Resting
<1>2. /\ Heap(chunks) /\ Len(chunks) <= MaxChunks
      /\ DOMAIN chunks = 1 .. Len(chunks)
      /\ \A c \in DOMAIN chunks : chunks[c] \in Chunk
  BY HeapFacts DEF Inv, Types
<1>3. DOMAIN chunks' = DOMAIN chunks
      /\ \A c \in DOMAIN chunks : /\ chunks'[c].data = chunks[c].data
                                  /\ chunks'[c].top = chunks[c].top
                                  /\ chunks'[c].free = chunks[c].free
  BY <1>1, <1>2 DEF Soiled, Chunk
<1>4. Wholes(chunks') /\ Holding(chunks') = Holding(chunks)
  BY <1>2, <1>3, SameHolding DEF Intact
<1>5. ASSUME NEW at \in Index
      PROVE  Meets(at)' = Meets(at) /\ Followed(scratch, {}, at)' = Followed(scratch, {}, at)
  <2>1. \A c \in DOMAIN chunks : \A o : chunks'[c].data[o] = chunks[c].data[o]
    BY <1>3
  <2>2. Followed(scratch, {}, at)' = Followed(scratch, {}, at)
    BY <2>1, <1>1, <1>3 DEF Followed
  <2>3. \A x : ObjectAt(chunks', scratch, pool, x) = ObjectAt(chunks, scratch, pool, x)
    BY <2>1, <1>3 DEF ObjectAt
  <2> QED
    BY <2>2, <2>3, <1>1 DEF Meets, Meant
<1>6. PoolAlone' /\ Nil \in Held
  BY <1>1 DEF Intact, PoolAlone, Held
<1>7. \A at \in Index : Changed(Meets(at), Meets(at)', Nil)
  BY <1>5 DEF Changed
<1> QED
  BY <1>1, <1>4, <1>5, <1>6, <1>7, StoredIntact

LEMMA StoreIntact ==
  ASSUME Inv, Intact, NEW r \in Regs, NEW v \in Held, Store(r, v), harm' = {}
  PROVE  Intact'
<1>1. PICK at : at = regs[r].at
  OBVIOUS
<1>2. /\ phase = "run" /\ regs[r] # Nil /\ Found(r) # Empty /\ remap = <<>>
      /\ UNCHANGED <<scratch_top, regs, phase, remap>>
  BY DEF Store, Running, safeVars, Intact, Resting
<1>3. /\ Heap(chunks) /\ Len(chunks) <= MaxChunks /\ scratch \in Scratches /\ pool \in Ref
      /\ regs \in [Regs -> Ref] /\ v \in Ref
  BY HeldRef DEF Inv, Types, Scratches
<1>4. at \in Index /\ Found(r) = ObjectAt(chunks, scratch, pool, at)
  BY <1>1, <1>2, <1>3 DEF Found, Ref, Reference
<1>5. Found(r) \in Object /\ [Found(r) EXCEPT !.ref = v] \in Object
      /\ [Found(r) EXCEPT !.ref = v].watched = Found(r).watched
      /\ [Found(r) EXCEPT !.ref = v].ref = v
  <2>1. Found(r) \in Object
    BY <1>2, <1>3, <1>4, ObjectTypes
  <2> QED
    BY <2>1, <1>3 DEF Object
<1>6. PICK obj : obj = [Found(r) EXCEPT !.ref = v]
  OBVIOUS
<1>7. /\ obj \in Object /\ obj # Empty
      /\ Changed(Found(r), obj, v) /\ RefsOf(obj) = {v} \ {Nil}
  BY <1>2, <1>5, <1>6, NilAndEmpty DEF Changed, RefsOf
<1>8. \A x \in Index : /\ Meets(x) = ObjectAt(chunks, scratch, pool, x)
                       /\ Meets(x)' = ObjectAt(chunks', scratch', pool', x)
  BY <1>2 DEF Meets, Meant
<1>9. CASE /\ IsScratch(at)
           /\ scratch' = [scratch EXCEPT ![at[2]].ref = v] /\ UNCHANGED <<chunks, pool, harm>>
  <2>1. UNCHANGED <<chunks, pool>> /\ scratch' = [scratch EXCEPT ![at[2]].ref = v]
    BY <1>9
  <2>2. at[2] \in 0 .. S - 1 /\ scratch[at[2]] = Found(r) /\ at = <<Scratch, at[2]>>
    BY <1>3, <1>4, <1>9, ObjectAtFacts, IndexPair DEF IsScratch
  <2>3. scratch' = [scratch EXCEPT ![at[2]] = obj]
    BY <2>1, <2>2, <1>6
  <2>4. ASSUME NEW x \in Index, IsScratch(x)
        PROVE  /\ x[2] \in 0 .. S - 1 /\ x[1] \notin DOMAIN chunks
               /\ scratch'[x[2]] = IF x = at THEN obj ELSE scratch[x[2]]
    <3>1. x = <<Scratch, x[2]>> /\ x[2] \in 0 .. S - 1 /\ x[1] \notin DOMAIN chunks
      BY <2>4, <1>3, ObjectAtFacts, IndexPair DEF IsScratch
    <3>2. x = at <=> x[2] = at[2]
      BY <3>1, <2>2
    <3> QED
      BY <3>1, <3>2, <2>2, <2>3, <1>3 DEF Scratches
  <2>5. ASSUME NEW x \in Index
        PROVE  Changed(Meets(x), Meets(x)', v)
    <3>1. CASE IsScratch(x)
      <4>1. Meets(x) = scratch[x[2]] /\ Meets(x)' = scratch'[x[2]]
        <5>1. Meets(x) = ObjectAt(chunks, scratch, pool, x)
              /\ Meets(x)' = ObjectAt(chunks', scratch', pool', x)
          BY <1>8
        <5>2. ObjectAt(chunks, scratch, pool, x) = scratch[x[2]]
          BY <3>1, <1>3, ObjectAtFacts
        <5>3. ObjectAt(chunks, scratch', pool', x) = scratch'[x[2]]
          BY <3>1, <1>3, ObjectAtFacts
        <5> QED
          BY <5>1, <5>2, <5>3, <2>1
      <4>2. scratch'[x[2]] = IF x = at THEN obj ELSE scratch[x[2]]
        BY <3>1, <2>4
      <4>3. CASE x = at
        <5>1. Meets(x) = Found(r) /\ Meets(x)' = obj
          BY <4>1, <4>2, <4>3, <2>2
        <5> QED
          BY <5>1, <1>7
      <4>4. CASE x # at
        BY <4>1, <4>2, <4>4 DEF Changed
      <4> QED
        BY <4>3, <4>4
    <3>2. CASE ~ IsScratch(x)
      <4>1. ObjectAt(chunks', scratch', pool', x) = ObjectAt(chunks, scratch, pool, x)
        BY <3>2, <2>1 DEF ObjectAt
      <4>2. Meets(x) = ObjectAt(chunks, scratch, pool, x)
            /\ Meets(x)' = ObjectAt(chunks', scratch', pool', x)
        BY <1>8
      <4> QED
        BY <4>1, <4>2 DEF Changed
    <3> QED
      BY <3>1, <3>2
  <2>6. ASSUME NEW x \in Index
        PROVE  Followed(scratch, {}, x)' \subseteq
                 Followed(scratch, {}, x) \cup {q.at : q \in {p \in {v} \ {Nil} : p.at[1] >= FirstActive}}
    <3>1. CASE x = at
      <4>1. Followed(scratch, {}, x)' \subseteq Markable(RefsOf(obj))
        BY <3>1, <2>1, <2>4, <1>2, <1>9 DEF Followed
      <4> QED
        BY <4>1, <1>7 DEF Markable
    <3>2. CASE x # at
      BY <3>2, <2>1, <2>4, <1>2 DEF Followed
    <3> QED
      BY <3>1, <3>2
  <2>7. Wholes(chunks') /\ Holding(chunks') = Holding(chunks) /\ PoolAlone'
    BY <2>1 DEF Intact, PoolAlone
  <2> QED
    BY <2>5, <2>6, <2>7, <1>2, StoredIntact
<1>10. CASE /\ at[1] = 0 /\ pool' = v /\ UNCHANGED <<chunks, scratch>>
            /\ harm' = harm \cup (IF v = Nil \/ v.at[1] = 0 THEN {} ELSE {"pool"})
  <2>1. UNCHANGED <<chunks, scratch>> /\ pool' = v /\ (v = Nil \/ v.at[1] = 0)
    BY <1>10
  <2>2. ASSUME NEW x \in Index
        PROVE  Changed(Meets(x), Meets(x)', v)
    <3>1. CASE x[1] = 0
      <4>1. Meets(x) = [watched |-> FALSE, ref |-> pool] /\ Meets(x)' = [watched |-> FALSE, ref |-> pool']
        BY <3>1, <2>1, <1>3, <1>8, ObjectAtFacts
      <4>2. [watched |-> FALSE, ref |-> pool] \in Object /\ [watched |-> FALSE, ref |-> v] \in Object
        BY <1>3 DEF Object
      <4>3. Meets(x) \in Object /\ Meets(x)' \in Object
        BY <4>1, <4>2, <2>1
      <4>4. Meets(x).watched = FALSE /\ Meets(x)'.watched = FALSE /\ Meets(x)'.ref = v
        BY <4>1, <2>1
      <4>5. Meets(x) # Empty /\ Meets(x)' # Empty
        BY <4>3, NilAndEmpty
      <4> QED
        BY <4>3, <4>4, <4>5 DEF Changed
    <3>2. CASE x[1] # 0
      <4>1. ObjectAt(chunks', scratch', pool', x) = ObjectAt(chunks, scratch, pool, x)
        BY <3>2, <2>1 DEF ObjectAt
      <4>2. Meets(x) = ObjectAt(chunks, scratch, pool, x)
            /\ Meets(x)' = ObjectAt(chunks', scratch', pool', x)
        BY <1>8
      <4> QED
        BY <4>1, <4>2 DEF Changed
    <3> QED
      BY <3>1, <3>2
  <2>3. \A x \in Index : Followed(scratch, {}, x)' = Followed(scratch, {}, x)
    BY <2>1, <1>2 DEF Followed
  <2>4. Wholes(chunks') /\ Holding(chunks') = Holding(chunks) /\ PoolAlone'
    BY <2>1 DEF Intact, PoolAlone
  <2> QED
    BY <2>2, <2>3, <2>4, <1>2, StoredIntact
<1>11. CASE /\ at[1] \in DOMAIN chunks
            /\ chunks' = [chunks EXCEPT ![at[1]].data[at[2]].ref = v]
            /\ UNCHANGED <<scratch, pool, harm>>
  <2>1. UNCHANGED <<scratch, pool>> /\ chunks' = [chunks EXCEPT ![at[1]].data[at[2]].ref = v]
    BY <1>11
  <2>2. at[2] \in Slots /\ at = <<at[1], at[2]>> /\ At(chunks, at) = Found(r)
        /\ chunks[at[1]].data[at[2]] = Found(r) /\ chunks[at[1]] \in Chunk
    BY <1>3, <1>4, <1>11, ObjectAtFacts, IndexPair, HeapFacts DEF At
  <2>3. chunks' = [chunks EXCEPT ![at[1]] = [chunks[at[1]] EXCEPT !.data =
                                                [chunks[at[1]].data EXCEPT ![at[2]] = obj]]]
    BY <2>1, <2>2, <1>6
  <2>4. DOMAIN chunks' = DOMAIN chunks
        /\ \A c \in DOMAIN chunks :
             /\ chunks'[c].top = chunks[c].top /\ chunks'[c].free = chunks[c].free
             /\ \A o \in Slots : chunks'[c].data[o] =
                    IF c = at[1] /\ o = at[2] THEN obj ELSE chunks[c].data[o]
    <3>1. \A c \in DOMAIN chunks : c # at[1] => chunks'[c] = chunks[c]
      BY <2>3
    <3>2. /\ chunks'[at[1]].top = chunks[at[1]].top /\ chunks'[at[1]].free = chunks[at[1]].free
          /\ chunks'[at[1]].data = [chunks[at[1]].data EXCEPT ![at[2]] = obj]
      BY <2>2, <2>3, <1>11 DEF Chunk
    <3>3. \A o \in Slots : chunks'[at[1]].data[o] = IF o = at[2] THEN obj ELSE chunks[at[1]].data[o]
      BY <3>2, <2>2 DEF Chunk
    <3> QED
      BY <3>1, <3>2, <3>3, <2>3
  <2>5. Wholes(chunks') /\ Holding(chunks') = Holding(chunks)
    <3>1. \A c \in DOMAIN chunks : \A o \in Slots :
             chunks'[c].data[o] = Empty <=> chunks[c].data[o] = Empty
      BY <2>2, <2>4, <1>2, <1>7
    <3> QED
      BY <3>1, <2>4, <1>3, SameHolding DEF Intact
  <2>6. ASSUME NEW x \in Index, x[1] \in DOMAIN chunks
        PROVE  At(chunks', x) = IF x = at THEN obj ELSE At(chunks, x)
    <3>1. x[2] \in Slots /\ x = <<x[1], x[2]>>
      BY <2>6, <1>3, ObjectAtFacts, IndexPair
    <3> QED
      BY <3>1, <2>2, <2>4, <2>6 DEF At
  <2>7. ASSUME NEW x \in Index
        PROVE  Changed(Meets(x), Meets(x)', v)
    <3>1. CASE x[1] \in DOMAIN chunks
      <4>1. ~ IsScratch(x) /\ x[1] # 0
        BY <3>1, <1>3, ObjectAtFacts
      <4>2. Meets(x) = At(chunks, x) /\ Meets(x)' = At(chunks', x)
        BY <4>1, <3>1, <2>4, <1>8 DEF ObjectAt, At
      <4> QED
        BY <4>2, <3>1, <2>2, <2>6, <1>7 DEF Changed
    <3>2. CASE x[1] \notin DOMAIN chunks
      <4>1. ObjectAt(chunks', scratch', pool', x) = ObjectAt(chunks, scratch, pool, x)
        BY <3>2, <2>1, <2>4 DEF ObjectAt
      <4>2. Meets(x) = ObjectAt(chunks, scratch, pool, x)
            /\ Meets(x)' = ObjectAt(chunks', scratch', pool', x)
        BY <1>8
      <4> QED
        BY <4>1, <4>2 DEF Changed
    <3> QED
      BY <3>1, <3>2
  <2>8. ASSUME NEW x \in Index
        PROVE  Followed(scratch, {}, x)' \subseteq
                 Followed(scratch, {}, x) \cup {q.at : q \in {p \in {v} \ {Nil} : p.at[1] >= FirstActive}}
    <3>1. CASE x[1] \in DOMAIN chunks
      <4>1. ~ IsScratch(x)
        BY <3>1, <1>3, ObjectAtFacts
      <4>2. Followed(scratch, {}, x)' = Markable(RefsOf(At(chunks', x)))
            /\ Followed(scratch, {}, x) = Markable(RefsOf(At(chunks, x)))
        BY <4>1, <3>1, <2>4 DEF Followed, At
      <4>3. CASE x = at
        BY <4>2, <4>3, <3>1, <2>6, <1>7 DEF Markable
      <4>4. CASE x # at
        BY <4>2, <4>4, <3>1, <2>6
      <4> QED
        BY <4>3, <4>4
    <3>2. CASE x[1] \notin DOMAIN chunks
      BY <3>2, <2>1, <2>4, <1>2 DEF Followed
    <3> QED
      BY <3>1, <3>2
  <2>9. PoolAlone'
    BY <2>1 DEF Intact, PoolAlone
  <2> QED
    BY <2>5, <2>7, <2>8, <2>9, <1>2, StoredIntact
<1> QED
  BY <1>1, <1>9, <1>10, <1>11 DEF Store

LEMMA SafePointIntact ==
  ASSUME Inv, Intact, SafePoint
  PROVE  Intact'
<1>1. PICK L \in SUBSET Index : Kept(L)
  BY DEF Intact
<1>2. /\ left' = {v.at[2] : v \in {w \in Rooted(regs) : IsScratch(w.at) /\ w.at[2] < scratch_top}}
      /\ remap' = <<>> /\ remap = <<>> /\ phase' = "safe"
      /\ UNCHANGED <<chunks, scratch, scratch_top, pool, regs>>
  BY DEF SafePoint, Running, Intact, Resting
<1>3. DOMAIN remap' = {}
  BY <1>2
<1>4. ASSUME NEW v \in Rooted(regs), IsScratch(v.at)
      PROVE  v.at[2] < scratch_top /\ v.at = <<Scratch, v.at[2]>>
  <2>1. v.at \in L /\ v.at \in Index
    BY <1>1 DEF Kept
  <2> QED
    BY <2>1, <1>1, <1>4, IndexPair DEF Kept, Settled, IsScratch
<1>5. Rooted(regs)' = Rooted(regs)
  BY <1>2 DEF Rooted
<1>6. Resting'
  <2>1. \A i \in left' : i < scratch_top /\ \E v \in Rooted(regs) : v.at = <<Scratch, i>>
    BY <1>2, <1>4
  <2>2. \A v \in Rooted(regs) : IsScratch(v.at) => v.at[2] \in left'
    BY <1>2, <1>4
  <2> QED
    BY <2>1, <2>2, <1>2, <1>3, <1>5 DEF Resting
<1>7. Wholes(chunks)' /\ PoolAlone'
  BY <1>2 DEF Intact, Wholes, PoolAlone
<1>8. \A G : Sturdy(G) => Sturdy(G)'
  BY <1>2 DEF Sturdy, Firm, Followed
<1>9. \A q : Kept(q) => Kept(q)'
  BY <1>2 DEF Kept, Settled, Finds, Meets, Meant
<1> QED
  BY <1>6, <1>7, <1>8, <1>9 DEF Intact

(* A promotion: the object leaves its slot of the scratch area for one of a  *)
(* chunk, and what meant the one means the other.                          *)
LEMMA PromoteIntact ==
  ASSUME Inv, Intact, NEW i \in left, Promote(i), harm' = {}
  PROVE  Intact'
<1>1. /\ phase = "safe" /\ phase' = "safe" /\ left' = left \ {i}
      /\ scratch' = [scratch EXCEPT ![i] = Empty] /\ UNCHANGED <<scratch_top, pool, regs>>
  BY DEF Promote
<1>2. PICK obj, scr : obj = scratch[i] /\ scr = [scratch EXCEPT ![i] = Empty]
  OBVIOUS
<1>3. PICK loses : loses = (remap # <<>> \/ scratch[i].ref # Nil)
  OBVIOUS
<1>4. \E out \in Outcomes(obj, scr, loses) :
         /\ Allocates(out)
         /\ remap' = [j \in DOMAIN remap \cup {i} |-> IF j = i THEN out.at ELSE remap[j]]
  BY <1>2, <1>3 DEF Promote
<1>5. PICK out \in Outcomes(obj, scr, loses) :
         /\ Allocates(out)
         /\ remap' = [j \in DOMAIN remap \cup {i} |-> IF j = i THEN out.at ELSE remap[j]]
  BY <1>4
<1>6. PICK n : n = out.at
  OBVIOUS
<1>7. /\ Heap(chunks) /\ Types /\ Len(chunks) <= MaxChunks /\ Wholes(chunks) /\ PoolAlone
      /\ scratch \in Scratches /\ regs \in [Regs -> Ref] /\ pool \in Ref
      /\ DOMAIN remap \subseteq 0 .. S - 1
  BY DEF Inv, Types, Promoting, Intact, Scratches
<1>8. /\ i \in 0 .. S - 1 /\ i \notin DOMAIN remap /\ i < scratch_top
      /\ \E v \in Rooted(regs) : v.at = <<Scratch, i>>
      /\ \A v \in Rooted(regs) : IsScratch(v.at) => v.at[2] \in left \cup DOMAIN remap
      /\ \A j \in DOMAIN remap : remap[j] \in Holding(chunks)
  BY <1>1, <1>7 DEF Inv, Promoting, Intact, Resting, Types
<1>9. scr \in Scratches /\ Emptied(scr) /\ scratch' = scr
  BY <1>1, <1>2, <1>7 DEF Scratches, Emptied
<1>10. PICK G \in SUBSET Index : Sturdy(G)
  BY DEF Intact
<1>11. PICK L \in SUBSET Index : Kept(L)
  BY DEF Intact
<1>12. PICK s : s = <<Scratch, i>>
  OBVIOUS
<1>13. /\ s \in Index /\ s \in L /\ IsScratch(s) /\ s[2] = i /\ s[1] = Scratch
       /\ Markable(Rooted(regs)) \subseteq G /\ s \in Markable(Rooted(regs))
       /\ Meets(s) = obj /\ Meets(s) # Empty
  <2>1. PICK v \in Rooted(regs) : v.at = s
    BY <1>8, <1>12
  <2>2. s \in Index /\ s \in L /\ Finds(v)
    BY <2>1, <1>7, <1>11, RootedFacts DEF Kept
  <2>3. IsScratch(s) /\ s[2] = i /\ s[1] = Scratch
    BY <1>12 DEF IsScratch
  <2>4. s[1] >= FirstActive
    BY <2>2, <2>3, <1>7, ObjectAtFacts
  <2>5. Meant(s) = s
    BY <2>3, <1>8 DEF Meant
  <2>6. Meets(s) = obj
    BY <2>2, <2>3, <2>5, <1>2, <1>7, ObjectAtFacts DEF Meets
  <2>7. Meets(s) # Empty
    BY <2>1, <2>2 DEF Finds
  <2> QED
    BY <2>1, <2>2, <2>3, <2>4, <2>6, <2>7, <1>10 DEF Sturdy, Markable
<1>14. obj \in Object
  BY <1>2, <1>7, <1>8, <1>13 DEF Scratches
<1>15. /\ Wholes(chunks') /\ Heap(chunks') /\ Len(chunks') <= MaxChunks
       /\ \E M \in SUBSET Index : Spares(M, G, scr, loses) /\ LeavesOnly(M, n, obj)
  BY <1>5, <1>6, <1>7, <1>9, <1>10, <1>14, AllocationSpares
<1>16. PICK M \in SUBSET Index : Spares(M, G, scr, loses) /\ LeavesOnly(M, n, obj)
  BY <1>15
<1>17. M # Index => remap = <<>> /\ scratch[i].ref = Nil
  BY <1>3, <1>16 DEF Spares
<1>18. M # Index => \A j \in 0 .. S - 1 : scr[j] = scratch[j] \/ scratch[j].ref = Nil
  BY <1>2, <1>7, <1>17 DEF Scratches
<1>19. M # Index => RefsOf(obj) = {}
  BY <1>2, <1>14, <1>17, RefsOfFacts
<1>20. Markable(RefsOf(obj)) \subseteq G \cap M
  <2>1. Markable(RefsOf(obj)) \subseteq G
    <3>1. Followed(scratch, {}, s) = Markable(RefsOf(obj))
      BY <1>2, <1>7, <1>8, <1>13, FollowedFacts
    <3>2. s \in G
      BY <1>13
    <3> QED
      BY <3>1, <3>2, <1>10 DEF Sturdy, Firm
  <2>2. M # Index => Markable(RefsOf(obj)) = {}
    BY <1>19 DEF Markable
  <2> QED
    BY <2>1, <2>2
<1>21. Firm((G \cap M) \cup {n})' /\ Markable(Rooted(regs)) \subseteq (G \cap M) \cup {n}
  BY <1>1, <1>7, <1>9, <1>10, <1>14, <1>15, <1>16, <1>20, SparedFirm
<1>22. /\ n \in Index /\ n[1] \in DOMAIN chunks' /\ n \in Holding(chunks') /\ At(chunks', n) = obj
       /\ ~ IsScratch(n)
  <2>1. /\ n \in Index /\ n[1] \in DOMAIN chunks' /\ n \in Holding(chunks') /\ At(chunks', n) = obj
    BY <1>16 DEF LeavesOnly
  <2> QED
    BY <2>1, <1>15, ObjectAtFacts
<1>23. ObjectAt(chunks', scratch', pool', n) = obj
  BY <1>15, <1>22, ObjectAtFacts
<1>24. Meets(n)' = obj
  BY <1>22, <1>23 DEF Meets, Meant, IsScratch
<1>25. DOMAIN remap' = DOMAIN remap \cup {i} /\ remap'[i] = n
       /\ \A j \in DOMAIN remap : remap'[j] = remap[j]
  BY <1>5, <1>6, <1>8
<1>26. Carries(L, M, obj)
  <2> SUFFICES ASSUME NEW q \in RefsOf(obj)
               PROVE  q.at \in Spared(L, M) /\ Finds(q)
    BY DEF Carries
  <2>1. q.at \in L /\ Finds(q)
    BY <1>11, <1>13 DEF Kept, Settled
  <2>2. M = Index
    BY <1>19
  <2> QED
    BY <2>1, <2>2 DEF Spared
<1>27. ASSUME NEW at \in Index, ~ IsScratch(at), at \in M \/ at[1] < FirstActive, at # n
       PROVE  ObjectAt(chunks', scratch', pool', at) = ObjectAt(chunks, scratch, pool, at)
  <2>1. scratch' \in Scratches /\ pool' = pool
    BY <1>1, <1>9
  <2> QED
    BY <2>1, <1>7, <1>10, <1>15, <1>16, <1>27, SparedObject
<1>28. Unmoved(L, M, n)
  <2> SUFFICES ASSUME NEW at \in Spared(L, M), at # n
               PROVE  Meets(at)' = Meets(at)
    BY DEF Unmoved
  <2>1. at \in Index /\ (at \in M \/ at[1] < FirstActive)
    BY DEF Spared
  <2>2. CASE ~ IsScratch(at)
    <3>1. Meets(at)' = ObjectAt(chunks', scratch', pool', at)
          /\ Meets(at) = ObjectAt(chunks, scratch, pool, at)
      BY <2>2 DEF Meets, Meant, IsScratch
    <3> QED
      BY <3>1, <2>1, <2>2, <1>27
  <2>3. CASE at = s
    <3>1. Meets(at)' = ObjectAt(chunks', scratch', pool', n)
      BY <2>3, <1>13, <1>25 DEF Meets, Meant, IsScratch
    <3> QED
      BY <3>1, <2>3, <1>13, <1>23
  <2>4. CASE IsScratch(at) /\ at[2] \in DOMAIN remap
    <3>1. PICK t : t = remap[at[2]]
      OBVIOUS
    <3>2. t \in Holding(chunks) /\ t \in Index
      BY <3>1, <2>4, <1>8 DEF Holding
    <3>3. ~ IsScratch(t)
      BY <3>2, <1>7, ObjectTypes
    <3>4. M = Index
      BY <2>4, <1>17
    <3>5. t # n
      BY <3>2, <3>4, <1>16 DEF LeavesOnly
    <3>6. ObjectAt(chunks', scratch', pool', t) = ObjectAt(chunks, scratch, pool, t)
      BY <3>2, <3>3, <3>4, <3>5, <1>27
    <3>7. Meets(at)' = ObjectAt(chunks', scratch', pool', t)
          /\ Meets(at) = ObjectAt(chunks, scratch, pool, t)
      BY <3>1, <2>4, <1>25 DEF Meets, Meant, IsScratch
    <3> QED
      BY <3>6, <3>7
  <2>5. CASE IsScratch(at) /\ at # s /\ at[2] \notin DOMAIN remap
    <3>1. at = <<Scratch, at[2]>> /\ at[2] \in 0 .. S - 1
      BY <2>1, <2>5, <1>7, IndexPair, ObjectAtFacts DEF IsScratch
    <3>2. at[2] # i
      BY <3>1, <2>5, <1>12
    <3>3. scratch'[at[2]] = scratch[at[2]]
      BY <3>1, <3>2, <1>1, <1>7 DEF Scratches
    <3>4. Meets(at)' = ObjectAt(chunks', scratch', pool', at)
          /\ Meets(at) = ObjectAt(chunks, scratch, pool, at)
      BY <3>2, <2>5, <1>25 DEF Meets, Meant, IsScratch
    <3>5. ObjectAt(chunks', scratch', pool', at) = scratch'[at[2]]
      BY <2>1, <2>5, <1>15, ObjectAtFacts
    <3>6. ObjectAt(chunks, scratch, pool, at) = scratch[at[2]]
      BY <2>1, <2>5, <1>7, ObjectAtFacts
    <3> QED
      BY <3>3, <3>4, <3>5, <3>6
  <2> QED
    BY <2>2, <2>3, <2>4, <2>5
<1>29. PICK L2 : L2 = Spared(L, M) \cup {n}
  OBVIOUS
<1>30. /\ Settled(L2)'
       /\ \A v \in Rooted(regs) : v.at \in Spared(L, M) /\ Finds(v)'
  <2>1. M # Index => /\ remap = <<>>
                     /\ \A j \in 0 .. S - 1 : scr[j] = scratch[j] \/ scratch[j].ref = Nil
    BY <1>17, <1>18
  <2>2. scratch_top' = scratch_top
    BY <1>1
  <2>3. /\ Heap(chunks) /\ Types /\ Heap(chunks') /\ Len(chunks') <= MaxChunks /\ PoolAlone
        /\ Sturdy(G) /\ Kept(L) /\ Spares(M, G, scr, loses) /\ LeavesOnly(M, n, obj)
        /\ scr \in Scratches /\ obj \in Object /\ Meets(n)' = obj
    BY <1>7, <1>9, <1>10, <1>11, <1>14, <1>15, <1>16, <1>24
  <2> QED
    BY <2>1, <2>2, <2>3, <1>26, <1>28, <1>29, SparedSettled
<1>31. Rooted(regs)' = Rooted(regs)
  BY <1>1 DEF Rooted
<1>32. Kept(L2)' /\ L2 \in SUBSET Index
  <2>1. L2 \in SUBSET Index /\ Spared(L, M) \subseteq L2
    BY <1>22, <1>29 DEF Spared
  <2>2. \A v \in Rooted(regs)' : v.at \in L2 /\ Finds(v)'
    BY <2>1, <1>30, <1>31
  <2> QED
    BY <2>1, <2>2, <1>30 DEF Kept
<1>33. Sturdy((G \cap M) \cup {n})' /\ (G \cap M) \cup {n} \in SUBSET Index
  <2>1. Markable(Rooted(regs))' = Markable(Rooted(regs))
    BY <1>31 DEF Markable
  <2> QED
    BY <2>1, <1>21, <1>22 DEF Sturdy
<1>34. Resting'
  <2>1. \A j \in left' : /\ j \notin DOMAIN remap' /\ j < scratch_top'
                         /\ \E v \in Rooted(regs)' : v.at = <<Scratch, j>>
    BY <1>1, <1>25, <1>31 DEF Intact, Resting
  <2>2. \A v \in Rooted(regs)' : IsScratch(v.at) => v.at[2] \in left' \cup DOMAIN remap'
    BY <1>1, <1>8, <1>25, <1>31
  <2>3. ASSUME NEW j \in DOMAIN remap'
        PROVE  remap'[j] \in Holding(chunks')
    <3>1. CASE j = i
      BY <3>1, <1>22, <1>25
    <3>2. CASE j # i
      <4>1. j \in DOMAIN remap /\ remap'[j] = remap[j] /\ remap[j] \in Holding(chunks)
        BY <3>2, <1>8, <1>25
      <4>2. M = Index /\ Holding(chunks) \subseteq Index
        BY <4>1, <1>17 DEF Holding
      <4> QED
        BY <4>1, <4>2, <1>16 DEF LeavesOnly
    <3> QED
      BY <3>1, <3>2
  <2> QED
    BY <2>1, <2>2, <2>3, <1>1 DEF Resting, IsScratch
<1>35. Wholes(chunks)' /\ PoolAlone'
  BY <1>1, <1>7, <1>15 DEF PoolAlone, Wholes
<1> QED
  BY <1>32, <1>33, <1>34, <1>35 DEF Intact

(* What the program reaches: the least set that has what the registers refer *)
(* to, and what the objects in it do.                                      *)
LEMMA ReachedFacts ==
  ASSUME NEW cs, Heap(cs), Len(cs) <= MaxChunks, NEW scr \in Scratches, NEW pl \in Ref,
         NEW rs \in [Regs -> Ref], NEW R, R = Reached(cs, scr, pl, rs)
  PROVE  /\ R \in SUBSET Index
         /\ \A v \in Rooted(rs) : v.at \in R
         /\ \A at \in R : \A v \in RefsOf(ObjectAt(cs, scr, pl, at)) : v.at \in R
         /\ \A t \in SUBSET Index :
              /\ \A v \in Rooted(rs) : v.at \in t
              /\ \A at \in t : \A v \in RefsOf(ObjectAt(cs, scr, pl, at)) : v.at \in t
              => R \subseteq t
<1> DEFINE next == [at \in Index |-> {v.at : v \in RefsOf(ObjectAt(cs, scr, pl, at))}]
           from == {v.at : v \in Rooted(rs)}
<1>1. R = Reach(from, next)
  BY DEF Reached
<1>2. next \in [Index -> SUBSET Index]
  <2> SUFFICES ASSUME NEW at \in Index, NEW v \in RefsOf(ObjectAt(cs, scr, pl, at))
               PROVE  v.at \in Index
    OBVIOUS
  <2>1. ObjectAt(cs, scr, pl, at) \in Object \cup {Empty}
    BY ObjectTypes
  <2> QED
    BY <2>1, RefsOfFacts
<1>3. from \in SUBSET Index
  <2> SUFFICES ASSUME NEW v \in Rooted(rs)
               PROVE  v.at \in Index
    OBVIOUS
  <2>1. v \in Reference
    BY DEF Rooted, Ref
  <2> QED
    BY <2>1 DEF Reference
<1>4. \A at \in Index : next[at] = {v.at : v \in RefsOf(ObjectAt(cs, scr, pl, at))}
  OBVIOUS
<1>5. /\ \A v \in Rooted(rs) : v.at \in from
      /\ \A t : (\A v \in Rooted(rs) : v.at \in t) => from \subseteq t
  OBVIOUS
<1> HIDE DEF next, from
<1>6. /\ R \in SUBSET Index /\ from \subseteq R
      /\ \A at \in R : next[at] \subseteq R
      /\ \A t \in SUBSET Index :
           from \subseteq t /\ (\A at \in t : next[at] \subseteq t) => R \subseteq t
  BY <1>1, <1>2, <1>3, ReachFacts
<1>7. \A t \in SUBSET Index :
         (\A at \in t : \A v \in RefsOf(ObjectAt(cs, scr, pl, at)) : v.at \in t)
            <=> (\A at \in t : next[at] \subseteq t)
  BY <1>4
<1> QED
  BY <1>5, <1>6, <1>7

(* The end of a safe point.  A reference is rewritten to what it meant; the  *)
(* objects stay where they are, and those that were promoted have their     *)
(* references rewritten.                                                   *)
LEMMA RemappedFacts ==
  ASSUME Inv, NEW v \in Reference
  PROVE  /\ Remapped(v) \in Reference /\ Remapped(v) # Nil /\ v # Nil
         /\ Remapped(v).watched = v.watched /\ Remapped(v).at = Meant(v.at)
<1>1. \A j \in DOMAIN remap : remap[j] \in Index
  BY DEF Inv, Promoting
<1>2. v # Nil
  BY NilAndEmpty
<1>3. CASE IsScratch(v.at) /\ v.at[2] \in DOMAIN remap
  <2>1. Remapped(v) = [v EXCEPT !.at = remap[v.at[2]]] /\ Meant(v.at) = remap[v.at[2]]
    BY <1>2, <1>3 DEF Remapped, Meant
  <2>2. Remapped(v) \in Reference /\ Remapped(v).watched = v.watched
        /\ Remapped(v).at = remap[v.at[2]]
    BY <2>1, <1>1, <1>3 DEF Reference
  <2> QED
    BY <2>1, <2>2, <1>2, NilAndEmpty
<1>4. CASE ~ (IsScratch(v.at) /\ v.at[2] \in DOMAIN remap)
  <2>1. Remapped(v) = v /\ Meant(v.at) = v.at
    BY <1>4 DEF Remapped, Meant
  <2> QED
    BY <2>1, <1>2
<1> QED
  BY <1>3, <1>4

LEMMA RewrittenFacts ==
  ASSUME Inv, SafePointEnds
  PROVE  /\ Heap(chunks') /\ Len(chunks') <= MaxChunks /\ DOMAIN chunks' = DOMAIN chunks
         /\ Wholes(chunks) => Wholes(chunks')
         /\ Holding(chunks') = Holding(chunks)
         /\ \A at \in Holding(chunks) :
              /\ At(chunks', at) \in Object
              /\ At(chunks', at).watched = At(chunks, at).watched
              /\ At(chunks', at).ref = IF at \in Range(remap) THEN Remapped(At(chunks, at).ref)
                                       ELSE At(chunks, at).ref
<1>1. chunks' = [c \in DOMAIN chunks |-> Rewritten(chunks[c], Targets(c))]
  BY DEF SafePointEnds
<1>2. /\ Heap(chunks) /\ Len(chunks) <= MaxChunks
      /\ \A c \in DOMAIN chunks : chunks[c] \in Chunk
  BY HeapFacts DEF Inv, Types
<1>3. Heap(chunks') /\ Len(chunks') <= MaxChunks
  BY SafePointEndsKeeps DEF Inv, Types
<1>4. ASSUME NEW c \in DOMAIN chunks
      PROVE  /\ chunks'[c].top = chunks[c].top /\ chunks'[c].free = chunks[c].free
             /\ \A o \in Slots : chunks'[c].data[o] =
                  IF o \in Targets(c) /\ chunks[c].data[o] # Empty
                  THEN [chunks[c].data[o] EXCEPT !.ref = Remapped(@)] ELSE chunks[c].data[o]
  <2>1. chunks'[c] = Rewritten(chunks[c], Targets(c)) /\ chunks[c] \in Chunk
    BY <1>1, <1>2
  <2> QED
    BY <2>1 DEF Rewritten, Chunk
<1>5. \A j \in DOMAIN remap : remap[j] \in Index
  BY DEF Inv, Promoting
<1>6. \A ref \in Ref : Remapped(ref) \in Ref
  BY <1>5, RemappedRef
<1>7. ASSUME NEW c \in DOMAIN chunks, NEW o \in Slots, chunks[c].data[o] # Empty
      PROVE  /\ chunks[c].data[o] \in Object /\ chunks'[c].data[o] \in Object
             /\ chunks'[c].data[o].watched = chunks[c].data[o].watched
             /\ chunks'[c].data[o].ref = IF o \in Targets(c) THEN Remapped(chunks[c].data[o].ref)
                                         ELSE chunks[c].data[o].ref
  <2>1. PICK obj : obj = chunks[c].data[o]
    OBVIOUS
  <2>2. obj \in Object
    BY <2>1, <1>2, <1>7 DEF Chunk
  <2>3. chunks'[c].data[o] = IF o \in Targets(c) THEN [obj EXCEPT !.ref = Remapped(@)] ELSE obj
    BY <2>1, <1>4, <1>7
  <2>4. obj.ref \in Ref /\ Remapped(obj.ref) \in Ref
    BY <2>2, <1>6 DEF Object
  <2> QED
    BY <2>1, <2>2, <2>3, <2>4 DEF Object
<1>8. \A c \in DOMAIN chunks : \A o \in Slots :
         chunks'[c].data[o] = Empty <=> chunks[c].data[o] = Empty
  BY <1>4, <1>7, NilAndEmpty
<1>9. DOMAIN chunks' = DOMAIN chunks
  BY <1>1
<1>10. (Wholes(chunks) => Wholes(chunks')) /\ Holding(chunks') = Holding(chunks)
  BY <1>2, <1>4, <1>8, <1>9, SameHolding
<1>11. ASSUME NEW at \in Holding(chunks)
       PROVE  /\ At(chunks', at) \in Object
              /\ At(chunks', at).watched = At(chunks, at).watched
              /\ At(chunks', at).ref = IF at \in Range(remap) THEN Remapped(At(chunks, at).ref)
                                       ELSE At(chunks, at).ref
  <2>1. at \in Index /\ at[1] \in DOMAIN chunks /\ At(chunks, at) # Empty
    BY DEF Holding
  <2>2. at[2] \in Slots /\ at = <<at[1], at[2]>>
    BY <2>1, <1>2, ObjectAtFacts, IndexPair
  <2>3. at[2] \in Targets(at[1]) <=> at \in Range(remap)
    BY <2>2 DEF Targets, Range
  <2> QED
    BY <2>1, <2>2, <2>3, <1>7 DEF At
<1> QED
  BY <1>3, <1>9, <1>10, <1>11

LEMMA SafePointEndsIntact ==
  ASSUME Inv, Intact, SafePointEnds, harm' = {}
  PROVE  Intact'
<1>1. /\ phase = "safe" /\ left = {} /\ phase' = "run" /\ remap' = <<>> /\ scratch_top' = 0
      /\ regs' = [r \in Regs |-> Remapped(regs[r])]
      /\ UNCHANGED <<scratch, pool, left>>
  BY DEF SafePointEnds
<1>2. /\ Heap(chunks) /\ Len(chunks) <= MaxChunks /\ Wholes(chunks) /\ PoolAlone
      /\ scratch \in Scratches /\ regs \in [Regs -> Ref] /\ pool \in Ref
  BY DEF Inv, Types, Intact, Scratches
<1>3. /\ Heap(chunks') /\ Len(chunks') <= MaxChunks /\ DOMAIN chunks' = DOMAIN chunks
      /\ Wholes(chunks') /\ Holding(chunks') = Holding(chunks)
      /\ \A at \in Holding(chunks) :
           /\ At(chunks', at) \in Object
           /\ At(chunks', at).watched = At(chunks, at).watched
           /\ At(chunks', at).ref = IF at \in Range(remap) THEN Remapped(At(chunks, at).ref)
                                    ELSE At(chunks, at).ref
  BY <1>2, RewrittenFacts
<1>4. regs' \in [Regs -> Ref]
  BY SafePointEndsKeeps DEF Inv, Types
<1>5. PICK G \in SUBSET Index : Sturdy(G)
  BY DEF Intact
<1>6. PICK L \in SUBSET Index : Kept(L)
  BY DEF Intact
<1>7. PICK R : R = Reached(chunks', scratch, pool, regs')
  OBVIOUS
<1>8. \A at \in R : ~ Strands(at)
  BY <1>7 DEF SafePointEnds
<1>9. /\ R \in SUBSET Index
      /\ \A v \in Rooted(regs') : v.at \in R
      /\ \A at \in R : \A v \in RefsOf(ObjectAt(chunks', scratch, pool, at)) : v.at \in R
  BY <1>2, <1>3, <1>4, <1>7, ReachedFacts
<1>10. /\ \A v \in Rooted(regs) : IsScratch(v.at) => v.at[2] \in DOMAIN remap
       /\ \A j \in DOMAIN remap : remap[j] \in Holding(chunks)
  BY <1>1 DEF Intact, Resting
<1>11. \A at \in Holding(chunks) : at \in Index /\ ~ IsScratch(at)
  BY <1>2, ObjectTypes DEF Holding
<1>12. Remapped(Nil) = Nil
  BY DEF Remapped
<1>13. ASSUME NEW v \in Rooted(regs')
       PROVE  \E q \in Rooted(regs) : /\ q \in Reference /\ v = Remapped(q)
                                      /\ v \in Reference /\ v.watched = q.watched
                                      /\ v.at = Meant(q.at) /\ ~ IsScratch(v.at)
  <2>1. PICK r \in Regs : v = regs'[r] /\ v # Nil
    BY DEF Rooted
  <2>2. PICK q : q = regs[r]
    OBVIOUS
  <2>3. v = Remapped(q) /\ q # Nil
    BY <2>1, <2>2, <1>1, <1>12
  <2>4. q \in Rooted(regs)
    BY <2>2, <2>3 DEF Rooted
  <2>5. q \in Reference
    BY <2>4, <1>2, RootedFacts
  <2>6. v \in Reference /\ v.watched = q.watched /\ v.at = Meant(q.at)
    BY <2>3, <2>5, RemappedFacts
  <2>7. ~ IsScratch(v.at)
    BY <2>4, <2>6, <1>10, <1>11 DEF Meant
  <2> QED
    BY <2>3, <2>4, <2>5, <2>6, <2>7
<1>14. Sturdy(G)'
  <2>1. /\ G \subseteq Index /\ Holding(chunks) \subseteq G
        /\ \A at \in G : /\ at[1] >= FirstActive /\ (IsScratch(at) \/ at \in Holding(chunks))
                         /\ Followed(scratch, {}, at) \subseteq G
        /\ Markable(Rooted(regs)) \subseteq G
    BY <1>5 DEF Sturdy, Firm
  <2>2. ASSUME NEW at \in G
        PROVE  Followed(scratch, {}, at)' \subseteq G
    <3>1. CASE IsScratch(at)
      <4>1. ~ (at[2] < scratch_top') /\ at[1] \notin DOMAIN chunks'
        <5>1. at[2] \in 0 .. S - 1 /\ at[1] \notin DOMAIN chunks
          BY <3>1, <1>2, ObjectAtFacts
        <5> QED
          BY <5>1, <1>1, <1>3, GcAssumption
      <4> QED
        BY <4>1, <3>1 DEF Followed, IsScratch
    <3>2. CASE at \in Holding(chunks)
      <4>1. at \in Index /\ ~ IsScratch(at) /\ at[1] \in DOMAIN chunks
            /\ At(chunks, at) \in Object
        BY <3>2, <1>2, <1>11, ObjectTypes DEF Holding
      <4>2. PICK was, is : was = At(chunks, at) /\ is = At(chunks', at)
        OBVIOUS
      <4>3. /\ is \in Object /\ was \in Object
            /\ is.ref = was.ref \/ is.ref = Remapped(was.ref)
        BY <3>2, <4>1, <4>2, <1>3
      <4>4. Followed(scratch, {}, at) = Markable(RefsOf(was))
        BY <4>1, <4>2, <1>2, FollowedFacts
      <4>5. Followed(scratch, {}, at)' = Markable(RefsOf(is))
        BY <4>1, <4>2, <1>3 DEF Followed, At, IsScratch, Markable, RefsOf
      <4>6. ASSUME NEW q \in RefsOf(is), q.at[1] >= FirstActive
            PROVE  q.at \in G
        <5>1. q = is.ref /\ q # Nil
          BY <4>3, RefsOfFacts
        <5>2. was.ref # Nil
          BY <5>1, <4>3, <1>12
        <5>3. RefsOf(was) = {was.ref} /\ was.ref \in Reference
          BY <5>2, <4>3, RefsOfFacts
        <5>4. CASE q = was.ref
          BY <5>3, <5>4, <4>4, <4>6, <2>1 DEF Markable
        <5>5. CASE q = Remapped(was.ref) /\ q # was.ref
          <6>1. q.at = remap[was.ref.at[2]] /\ was.ref.at[2] \in DOMAIN remap
            BY <5>3, <5>5 DEF Remapped, Reference
          <6> QED
            BY <6>1, <1>10, <2>1
        <5> QED
          BY <5>1, <5>4, <5>5, <4>3
      <4> QED
        BY <4>5, <4>6 DEF Markable
    <3> QED
      BY <3>1, <3>2, <2>1
  <2>3. ASSUME NEW v \in Rooted(regs'), v.at[1] >= FirstActive
        PROVE  v.at \in G
    <3>1. PICK q \in Rooted(regs) : v.at = Meant(q.at)
      BY <1>13
    <3>2. CASE IsScratch(q.at) /\ q.at[2] \in DOMAIN remap
      BY <3>1, <3>2, <1>10, <2>1 DEF Meant
    <3>3. CASE ~ (IsScratch(q.at) /\ q.at[2] \in DOMAIN remap)
      BY <3>1, <3>3, <2>1, <2>3 DEF Meant, Markable
    <3> QED
      BY <3>2, <3>3
  <2>4. Markable(Rooted(regs')) \subseteq G
    BY <2>3 DEF Markable
  <2>5. Firm(G)'
    BY <2>1, <2>2, <1>3 DEF Firm, IsScratch
  <2>6. Markable(Rooted(regs))' = Markable(Rooted(regs'))
    BY DEF Markable, Rooted
  <2> QED
    BY <2>4, <2>5, <2>6 DEF Sturdy
<1>15. \A at \in Index : Meets(at)' = ObjectAt(chunks', scratch, pool, at)
  <2>1. DOMAIN remap' = {}
    BY <1>1
  <2> QED
    BY <2>1, <1>1 DEF Meets, Meant
<1>16. ASSUME NEW at \in Index, at[1] = 0
       PROVE  /\ ObjectAt(chunks', scratch, pool, at) = [watched |-> FALSE, ref |-> pool]
              /\ ObjectAt(chunks, scratch, pool, at) = [watched |-> FALSE, ref |-> pool]
  <2>1. ObjectAt(chunks', scratch, pool, at) = [watched |-> FALSE, ref |-> pool]
    BY <1>3, <1>16, ObjectAtFacts
  <2>2. ObjectAt(chunks, scratch, pool, at) = [watched |-> FALSE, ref |-> pool]
    BY <1>2, <1>16, ObjectAtFacts
  <2> QED
    BY <2>1, <2>2
<1>17. ASSUME NEW v \in Reference, NEW q, q.at \in L, Finds(q),
              v.watched = q.watched, v.at = Meant(q.at), ~ IsScratch(v.at)
       PROVE  Finds(v)'
  <2>1. v.at \in Index /\ Meets(q.at) = ObjectAt(chunks, scratch, pool, v.at)
    BY <1>17 DEF Reference, Meets
  <2>2. Meets(v.at)' = ObjectAt(chunks', scratch, pool, v.at)
    BY <2>1, <1>15
  <2>3. Meets(q.at) # Empty /\ Meets(q.at).watched = v.watched
    BY <1>17 DEF Finds
  <2>4. CASE v.at[1] = 0
    <3>1. /\ ObjectAt(chunks', scratch, pool, v.at) = [watched |-> FALSE, ref |-> pool]
          /\ ObjectAt(chunks, scratch, pool, v.at) = [watched |-> FALSE, ref |-> pool]
      BY <2>1, <2>4, <1>16
    <3>2. Meets(v.at)' = Meets(q.at)
      BY <2>1, <2>2, <3>1
    <3> QED
      BY <2>3, <3>2 DEF Finds
  <2>5. CASE v.at[1] # 0
    <3>1. v.at \in Holding(chunks)
      BY <2>1, <2>3, <2>5, <1>2, <1>17, ObjectTypes
    <3>2. v.at[1] \in DOMAIN chunks
      BY <3>1 DEF Holding
    <3>3. ObjectAt(chunks, scratch, pool, v.at) = At(chunks, v.at)
      BY <2>1, <3>2, <1>2, ObjectAtFacts
    <3>4. ObjectAt(chunks', scratch, pool, v.at) = At(chunks', v.at)
      BY <2>1, <3>2, <1>3, ObjectAtFacts
    <3>5. At(chunks', v.at).watched = At(chunks, v.at).watched /\ At(chunks', v.at) # Empty
      BY <3>1, <1>3, NilAndEmpty
    <3> QED
      BY <2>1, <2>2, <2>3, <3>3, <3>4, <3>5 DEF Finds
  <2> QED
    BY <2>4, <2>5
<1>18. PICK L2 : L2 = {at \in R : ~ IsScratch(at) /\ \E x \in L : at = Meant(x)} \cup PoolSlots
  OBVIOUS
<1>19. PoolSlots \subseteq L /\ PoolSlots \subseteq Index
  BY <1>6 DEF Kept, Settled
<1>20. \A at \in PoolSlots : at[1] = 0 /\ ~ IsScratch(at) /\ Meant(at) = at
  <2>1. \A at \in PoolSlots : at[1] = 0
    BY DEF PoolSlots
  <2>2. \A at \in PoolSlots : ~ IsScratch(at)
    BY <2>1, <1>2, <1>19, ObjectAtFacts
  <2> QED
    BY <2>1, <2>2 DEF Meant
<1>21. L2 \in SUBSET Index /\ PoolSlots \subseteq L2
  BY <1>9, <1>18, <1>19
<1>22. ASSUME NEW at \in PoolSlots, NEW v \in RefsOf(Meets(at)')
       PROVE  v.at \in L2 /\ Finds(v)'
  <2>1. at \in Index /\ at \in L /\ at[1] = 0 /\ Meant(at) = at
    BY <1>19, <1>20
  <2>2. Meets(at)' = [watched |-> FALSE, ref |-> pool]
    BY <2>1, <1>15, <1>16
  <2>3. Meets(at) = [watched |-> FALSE, ref |-> pool]
    BY <2>1, <1>16 DEF Meets
  <2>4. v \in RefsOf(Meets(at))
    BY <2>2, <2>3
  <2>5. v.at \in L /\ Finds(v)
    BY <2>1, <2>4, <1>6 DEF Kept, Settled
  <2>6. [watched |-> FALSE, ref |-> pool] \in Object
    BY <1>2 DEF Object
  <2>7. v = pool /\ v \in Reference /\ v # Nil /\ v.at \in Index
    BY <2>3, <2>4, <2>6, RefsOfFacts
  <2>8. v.at[1] = 0
    BY <2>7, <1>2 DEF PoolAlone
  <2>9. v.at = <<v.at[1], v.at[2]>> /\ v.at[2] \in Slots
    BY <2>7, <2>8, IndexPair, IndexParts, <1>2, ObjectAtFacts
  <2>10. v.at \in PoolSlots
    BY <2>8, <2>9 DEF PoolSlots
  <2>11. Finds(v)'
    BY <2>5, <2>7, <2>10, <1>17, <1>20
  <2> QED
    BY <2>10, <2>11, <1>21
<1>23. ASSUME NEW at \in L2, at \notin PoolSlots, NEW v \in RefsOf(Meets(at)')
       PROVE  v.at \in L2 /\ Finds(v)'
  <2>1. at \in R /\ at \in Index /\ ~ IsScratch(at)
    BY <1>9, <1>18, <1>23
  <2>2. PICK x \in L : at = Meant(x)
    BY <1>18, <1>23
  <2>3. Meets(x) = ObjectAt(chunks, scratch, pool, at)
        /\ Meets(at)' = ObjectAt(chunks', scratch, pool, at)
    BY <2>1, <2>2, <1>15 DEF Meets
  <2>4. ObjectAt(chunks', scratch, pool, at) \in Object \cup {Empty}
    BY <2>1, <1>2, <1>3, ObjectTypes
  <2>5. v \in Reference /\ v # Nil /\ ObjectAt(chunks', scratch, pool, at) # Empty
        /\ v = ObjectAt(chunks', scratch, pool, at).ref
    BY <2>3, <2>4, RefsOfFacts
  <2>6. v.at \in R
    BY <2>1, <2>3, <1>9
  <2>7. at[1] # 0
    <3>1. at[1] = 0 => at \in PoolSlots
      BY <2>1, IndexPair, IndexParts, <1>2, ObjectAtFacts DEF PoolSlots
    <3> QED
      BY <3>1, <1>23
  <2>8. at \in Holding(chunks)
    BY <2>1, <2>5, <2>7, <1>2, <1>3, ObjectTypes
  <2>9. at[1] \in DOMAIN chunks /\ At(chunks, at) \in Object
    BY <2>8, <1>2, ObjectTypes DEF Holding
  <2>10. PICK was, is : was = At(chunks, at) /\ is = At(chunks', at)
    OBVIOUS
  <2>11. ObjectAt(chunks, scratch, pool, at) = was
    BY <2>1, <2>9, <2>10, <1>2, ObjectAtFacts
  <2>12. ObjectAt(chunks', scratch, pool, at) = is
    BY <2>1, <2>9, <2>10, <1>3, ObjectAtFacts
  <2>13. /\ was \in Object /\ v = is.ref /\ v # Nil
         /\ v = IF at \in Range(remap) THEN Remapped(was.ref) ELSE was.ref
    BY <2>5, <2>8, <2>9, <2>10, <2>12, <1>3
  <2>14. PICK q : q = was.ref
    OBVIOUS
  <2>15. q # Nil
    BY <2>13, <2>14, <1>12
  <2>16. RefsOf(was) = {q} /\ q \in Reference /\ q.at \in Index
    BY <2>13, <2>14, <2>15, RefsOfFacts
  <2>17. q.at \in L /\ Finds(q)
    BY <2>2, <2>3, <2>11, <2>16, <1>6 DEF Kept, Settled
  <2>18. ~ IsScratch(q.at) \/ (q.at[2] \in DOMAIN remap /\ at \in Range(remap))
    <3>1. ~ Strands(at)
      BY <2>1, <1>8
    <3> QED
      BY <3>1, <2>11, <2>16 DEF Strands
  <2>19. /\ v.watched = q.watched /\ v.at = Meant(q.at) /\ ~ IsScratch(v.at)
    <3>1. CASE IsScratch(q.at)
      <4>1. v = Remapped(q) /\ q.at[2] \in DOMAIN remap
        BY <3>1, <2>13, <2>14, <2>18
      <4>2. v.watched = q.watched /\ v.at = Meant(q.at)
        BY <4>1, <2>16, RemappedFacts
      <4>3. Meant(q.at) \in Holding(chunks)
        BY <3>1, <4>1, <1>10 DEF Meant
      <4> QED
        BY <4>2, <4>3, <1>11
    <3>2. CASE ~ IsScratch(q.at)
      <4>1. v = q
        BY <3>2, <2>13, <2>14 DEF Remapped
      <4> QED
        BY <4>1, <3>2 DEF Meant
    <3> QED
      BY <3>1, <3>2
  <2>20. v.at \in L2
    BY <2>6, <2>17, <2>19, <1>18
  <2>21. Finds(v)'
    BY <2>5, <2>17, <2>19, <1>17
  <2> QED
    BY <2>20, <2>21
<1>24. \A v \in Rooted(regs') : v.at \in L2 /\ Finds(v)'
  <2> SUFFICES ASSUME NEW v \in Rooted(regs')
               PROVE  v.at \in L2 /\ Finds(v)'
    OBVIOUS
  <2>1. PICK q \in Rooted(regs) : /\ q \in Reference /\ v = Remapped(q)
                                  /\ v \in Reference /\ v.watched = q.watched
                                  /\ v.at = Meant(q.at) /\ ~ IsScratch(v.at)
    BY <1>13
  <2>2. q.at \in L /\ Finds(q) /\ v.at \in R
    BY <1>6, <1>9 DEF Kept
  <2>3. v.at \in L2
    BY <2>1, <2>2, <1>18
  <2>4. Finds(v)'
    BY <2>1, <2>2, <1>17
  <2> QED
    BY <2>3, <2>4
<1>25. Kept(L2)'
  <2>1. \A at \in L2 : ~ IsScratch(at)
    BY <1>18, <1>20
  <2>2. \A at \in L2 : \A v \in RefsOf(Meets(at)') : v.at \in L2 /\ Finds(v)'
    BY <1>22, <1>23
  <2>3. Settled(L2)'
    BY <2>1, <2>2, <1>21 DEF Settled, IsScratch, PoolSlots, Slots, RefsOf, Index
  <2>4. \A v \in Rooted(regs)' : v.at \in L2 /\ Finds(v)'
    BY <1>24 DEF Rooted
  <2> QED
    BY <2>3, <2>4 DEF Kept
<1>26. Wholes(chunks)' /\ PoolAlone' /\ Resting'
  BY <1>1, <1>2, <1>3 DEF Wholes, PoolAlone, Resting
<1> QED
  BY <1>5, <1>14, <1>21, <1>25, <1>26 DEF Intact

LEMMA InitIntact == Init => Intact
<1> SUFFICES ASSUME Init
             PROVE  Intact
  OBVIOUS
<1>1. /\ Inv /\ Heap(chunks) /\ Len(chunks) <= MaxChunks /\ scratch_top = 0
      /\ pool = Nil /\ phase = "run" /\ remap = <<>> /\ left = {}
  BY InitInv DEF Inv, Types, Init
<1>2. \A c \in DOMAIN chunks : chunks[c] = NewChunk
  BY DEF Init
<1>3. Slots \subseteq Nat
  BY SlotSets, GcAssumption DEF Slots
<1>4. Whole(NewChunk)
  BY <1>3 DEF Whole, NewChunk
<1>5. Wholes(chunks)
  BY <1>2, <1>4 DEF Wholes
<1>6. Holding(chunks) = {}
  <2> SUFFICES ASSUME NEW at \in Index, at[1] \in DOMAIN chunks
               PROVE  At(chunks, at) = Empty
    BY DEF Holding
  <2>1. at[2] \in Slots /\ chunks[at[1]] = NewChunk
    BY <1>1, <1>2, ObjectAtFacts
  <2> QED
    BY <2>1 DEF At, NewChunk
<1>7. Rooted(regs) = {}
  BY DEF Init, Rooted
<1>8. Sturdy({})
  BY <1>6, <1>7 DEF Sturdy, Firm, Markable
<1>9. PoolSlots \subseteq Index
  <2>1. 0 \in 0 .. MaxChunks
    BY GcAssumption
  <2> QED
    BY <2>1 DEF PoolSlots, Index
<1>10. ASSUME NEW at \in PoolSlots
       PROVE  ~ IsScratch(at) /\ RefsOf(Meets(at)) = {}
  <2>1. at \in Index /\ at[1] = 0
    BY <1>9 DEF PoolSlots
  <2>2. ~ IsScratch(at) /\ ObjectAt(chunks, scratch, pool, at) = [watched |-> FALSE, ref |-> pool]
    BY <2>1, <1>1, ObjectAtFacts
  <2>3. Meets(at) = [watched |-> FALSE, ref |-> pool]
    BY <2>2 DEF Meets, Meant
  <2> QED
    BY <2>2, <2>3, <1>1 DEF RefsOf
<1>11. Kept(PoolSlots)
  BY <1>7, <1>9, <1>10 DEF Kept, Settled
<1>12. PoolAlone /\ Resting
  BY <1>1 DEF PoolAlone, Resting
<1> QED
  BY <1>5, <1>8, <1>9, <1>11, <1>12 DEF Intact

(* A harm that was done stays on record.                                    *)
LEMMA HarmStays == [Next]_vars => harm \subseteq harm'
<1> SUFFICES ASSUME [Next]_vars
             PROVE  harm \subseteq harm'
  OBVIOUS
<1>1. ASSUME NEW obj, NEW scr, NEW loses, NEW out \in Outcomes(obj, scr, loses), Allocates(out)
      PROVE  harm \subseteq harm'
  <2>1. PICK cycle \in Cycles : out = Outcome(obj, scr, loses, cycle)
    BY DEF Outcomes
  <2>2. harm \subseteq out.harm
    BY <2>1 DEF Outcome
  <2> QED
    BY <2>2, <1>1 DEF Allocates
<1>2. ASSUME NEW r \in Regs, NEW v \in Held, Alloc(r, v)
      PROVE  harm \subseteq harm'
  BY <1>1, <1>2 DEF Alloc
<1>3. ASSUME NEW v \in Held, ScratchFull(v)
      PROVE  harm \subseteq harm'
  BY <1>1, <1>3 DEF ScratchFull
<1>4. ASSUME NEW i \in left, Promote(i)
      PROVE  harm \subseteq harm'
  BY <1>1, <1>4 DEF Promote
<1>5. ASSUME NEW r \in Regs, NEW v \in Held, AllocScratch(r, v) \/ Move(r, v) \/ Store(r, v)
      PROVE  harm \subseteq harm'
  BY <1>5 DEF AllocScratch, Move, Store, heapVars
<1>6. ASSUME NEW r \in Regs, LoadConst(r) \/ Touch(r) \/ \E q \in Regs : Load(r, q)
      PROVE  harm \subseteq harm'
  BY <1>6 DEF LoadConst, Touch, Load, heapVars
<1>7. CASE SafePoint \/ SafePointEnds \/ UNCHANGED vars
  BY <1>7 DEF SafePoint, SafePointEnds, vars
<1> QED
  BY <1>2, <1>3, <1>4, <1>5, <1>6, <1>7 DEF Next

Safe == harm = {} => Intact

LEMMA StepSafe == Inv /\ Safe /\ [Next]_vars => Safe'
<1> SUFFICES ASSUME Inv, Safe, [Next]_vars, harm' = {}
             PROVE  Intact'
  BY DEF Safe
<1>0. Intact
  BY HarmStays DEF Safe
<1>1. ASSUME NEW r \in Regs, NEW v \in Held, Alloc(r, v)
      PROVE  Intact'
  BY <1>0, <1>1, AllocIntact
<1>2. ASSUME NEW r \in Regs, NEW v \in Held, AllocScratch(r, v)
      PROVE  Intact'
  BY <1>0, <1>2, AllocScratchIntact
<1>3. ASSUME NEW v \in Held, ScratchFull(v)
      PROVE  Intact'
  BY <1>0, <1>3, ScratchFullIntact
<1>4. ASSUME NEW r \in Regs, NEW v \in Held, Move(r, v)
      PROVE  Intact'
  BY <1>0, <1>4, MoveIntact
<1>5. ASSUME NEW r \in Regs, NEW v \in Held, Store(r, v)
      PROVE  Intact'
  BY <1>0, <1>5, StoreIntact
<1>6. ASSUME NEW r \in Regs, LoadConst(r)
      PROVE  Intact'
  BY <1>0, <1>6, LoadConstIntact
<1>7. ASSUME NEW r \in Regs, Touch(r)
      PROVE  Intact'
  BY <1>0, <1>7, TouchIntact
<1>8. ASSUME NEW r \in Regs, NEW q \in Regs, Load(r, q)
      PROVE  Intact'
  BY <1>0, <1>8, LoadIntact
<1>9. CASE SafePoint
  BY <1>0, <1>9, SafePointIntact
<1>10. ASSUME NEW i \in left, Promote(i)
       PROVE  Intact'
  BY <1>0, <1>10, PromoteIntact
<1>11. CASE SafePointEnds
  BY <1>0, <1>11, SafePointEndsIntact
<1>12. CASE UNCHANGED vars
  <2>1. UNCHANGED <<chunks, scratch, scratch_top, pool, regs, phase, left, remap>>
    BY <1>12 DEF vars
  <2>2. Wholes(chunks)' /\ PoolAlone' /\ Resting'
    BY <1>0, <2>1 DEF Intact, Wholes, PoolAlone, Resting
  <2>3. \A G : Sturdy(G) => Sturdy(G)'
    BY <2>1 DEF Sturdy, Firm, Followed
  <2>4. \A L : Kept(L) => Kept(L)'
    BY <2>1 DEF Kept, Settled, Finds, Meets, Meant
  <2> QED
    BY <1>0, <2>2, <2>3, <2>4 DEF Intact
<1> QED
  BY <1>1, <1>2, <1>3, <1>4, <1>5, <1>6, <1>7, <1>8, <1>9, <1>10, <1>11, <1>12 DEF Next

LEMMA SpecSafe == Spec => [](Inv /\ Safe)
<1>1. Init => Inv /\ Safe
  BY InitInv, InitIntact DEF Safe
<1>2. Inv /\ Safe /\ [Next]_vars => (Inv /\ Safe)'
  BY StepInv, StepSafe
<1> QED
  BY <1>1, <1>2, PTL DEF Spec

(* Every reference the program can reach, through the registers and any     *)
(* chain of objects, finds the object it was made for, in every run without  *)
(* one of the six harms: no collection, whenever it runs, frees a thing in   *)
(* use, no slot is used twice, and no safe point loses an object or leaves a *)
(* reference to where it was (Gc::mark, Gc::sweep, alloc_with_size,         *)
(* safe_point_check, remap_scratch_indices).                               *)
THEOREM GcKept == Spec => []KeptUnlessHarmed
<1>1. ASSUME Inv, Safe
      PROVE  KeptUnlessHarmed
  <2> SUFFICES ASSUME harm = {}, phase = "run", NEW v \in LiveRefs
               PROVE  LET obj == ObjectAt(chunks, scratch, pool, v.at)
                      IN  obj # Empty /\ obj.watched = v.watched
    BY DEF KeptUnlessHarmed, RefsTrue
  <2>1. PICK L \in SUBSET Index : Kept(L)
    BY <1>1 DEF Safe, Intact
  <2>2. DOMAIN remap = {}
    BY <1>1 DEF Safe, Intact, Resting
  <2>3. \A at : Meets(at) = ObjectAt(chunks, scratch, pool, at)
    BY <2>2 DEF Meets, Meant
  <2>4. /\ Heap(chunks) /\ Len(chunks) <= MaxChunks
        /\ scratch \in Scratches /\ regs \in [Regs -> Ref] /\ pool \in Ref
    BY <1>1 DEF Inv, Types, Scratches
  <2>5. /\ \A q \in Rooted(regs) : q.at \in L /\ Finds(q)
        /\ \A at \in L : \A q \in RefsOf(ObjectAt(chunks, scratch, pool, at)) :
             q.at \in L /\ Finds(q)
    BY <2>1, <2>3 DEF Kept, Settled
  <2>6. PICK R : R = Reached(chunks, scratch, pool, regs)
    OBVIOUS
  <2>7. R \subseteq L
    BY <2>4, <2>5, <2>6, ReachedFacts
  <2>8. v \in Rooted(regs) \/ \E at \in L : v \in RefsOf(ObjectAt(chunks, scratch, pool, at))
    BY <2>6, <2>7 DEF LiveRefs, Live
  <2>9. Finds(v)
    BY <2>5, <2>8
  <2> QED
    BY <2>3, <2>9 DEF Finds
<1> QED
  BY <1>1, SpecSafe, PTL

(* No slot of a chunk is lost: below top it holds an object or is on the     *)
(* free list, never both nor neither, in every run without one of the       *)
(* harms (Gc::sweep rebuilds the lists; alloc_with_size, pop_free).         *)
THEOREM GcNoSlotLost == Spec => []NoSlotLost
<1>1. ASSUME Inv, Safe
      PROVE  NoSlotLost
  <2> SUFFICES ASSUME harm = {}, NEW c \in DOMAIN chunks, NEW o \in Slots, o < chunks[c].top
               PROVE  chunks[c].data[o] = Empty <=> o \in chunks[c].free
    BY DEF NoSlotLost
  <2>1. Whole(chunks[c])
    BY <1>1 DEF Safe, Intact, Wholes
  <2>2. chunks[c] \in Chunk
    BY <1>1, HeapFacts DEF Inv
  <2>3. ~ (o >= chunks[c].top)
    BY <2>2, SlotSets DEF Chunk, Slots
  <2> QED
    BY <2>1, <2>3 DEF Whole
<1> QED
  BY <1>1, SpecSafe, PTL

=============================================================================
