------------------------------- MODULE NuzoDict -------------------------------
(***************************************************************************)
(* Dictionaries (nuzo-values, nuzo_dict.rs).  A small one is a list of     *)
(* entries <<key, value>>; one that would hold more than SmallCap becomes  *)
(* a table with open addressing: a key is looked for from the slot of its  *)
(* hash on, one after the other round the table, up to a free slot.  The   *)
(* marks of deleted entries are left out: no program deletes one.          *)
(***************************************************************************)
EXTENDS Integers, Sequences

CONSTANTS
  SmallCap,      \* SMALL_CAP, 8
  MinCapacity,   \* SMALL_DICT_DEFAULT_CAPACITY, 16
  LoadNum,       \* a table grows when it is fuller than LoadNum / LoadDen,
  LoadDen,       \* 7 / 8
  KeyHash        \* nuzo_mix of the index of each key in the string pool

(* Every capacity is a power of two, as & bucket_mask asks for; and a table *)
(* that does not grow before an insertion has a free slot after it.        *)
ASSUME DictAssumption ==
  /\ SmallCap \in Nat /\ MinCapacity \in Nat /\ LoadNum \in Nat /\ LoadDen \in Nat \ {0}
  /\ MinCapacity \in {2 ^ j : j \in 0..MinCapacity}
  /\ MinCapacity * LoadNum < (MinCapacity - 1) * LoadDen
  /\ \A k \in DOMAIN KeyHash : KeyHash[k] \in Nat

FreeSlot == <<>>
EmptyDict == [large |-> FALSE, entries |-> <<>>]
Table(capacity) ==
  [large |-> TRUE, capacity |-> capacity, len |-> 0, slots |-> [j \in 0..(capacity - 1) |-> FreeSlot]]
-------------------------------------------------------------------------------
(* SmallDict *)
KeysOf(entries) == {entries[j][1] : j \in DOMAIN entries}
Scanned(entries, k) == CHOOSE j \in DOMAIN entries : entries[j][1] = k
Listed(entries, k, v) ==
  IF k \in KeysOf(entries) THEN [entries EXCEPT ![Scanned(entries, k)] = <<k, v>>]
  ELSE Append(entries, <<k, v>>)

(* LargeDict: the slots a key is looked for in, and the first of them that *)
(* is free or has the key.                                                 *)
Probe(t, k, j) == (KeyHash[k] + j) % t.capacity
Stops(t, k) == {j \in 0..(t.capacity - 1) :
                  LET slot == t.slots[Probe(t, k, j)] IN slot = FreeSlot \/ slot[1] = k}
FirstStop(t, k) == CHOOSE j \in Stops(t, k) : \A other \in Stops(t, k) : j <= other
SlotOf(t, k) == Probe(t, k, FirstStop(t, k))

(* insert_entry: an entry no slot is found for is dropped. *)
Stored(t, k, v) ==
  IF Stops(t, k) = {} THEN t
  ELSE [large |-> TRUE, capacity |-> t.capacity,
        len |-> IF t.slots[SlotOf(t, k)] = FreeSlot THEN t.len + 1 ELSE t.len,
        slots |-> [t.slots EXCEPT ![SlotOf(t, k)] = <<k, v>>]]
(* One entry after the other.  (The table before is bound in a set so that *)
(* TLC computes it once.)                                                  *)
StoredAll(table, entries) ==
  LET after[n \in 0..Len(entries)] ==
        IF n = 0 THEN table
        ELSE IF entries[n] = FreeSlot THEN after[n - 1]
        ELSE CHOOSE t \in {Stored(u, entries[n][1], entries[n][2]) : u \in {after[n - 1]}} : TRUE IN
  after[Len(entries)]

(* grow: twice the slots, and every entry looked for anew. *)
(* Mutant: the entries stay where they are. *)
MutGrown(t) ==
  [t EXCEPT !.capacity = 2 * @,
            !.slots = [j \in 0..(2 * t.capacity - 1) |-> IF j < t.capacity THEN @[j] ELSE FreeSlot]]
Grown(t) == StoredAll(Table(2 * t.capacity), [j \in 1..t.capacity |-> t.slots[j - 1]])
Crowded(t) == t.len * LoadDen > t.capacity * LoadNum

(* from_entries: at least twice as many slots as entries. *)
CapacityFor(n) ==
  CHOOSE c \in {2 ^ j : j \in 0..(2 * n)} :
    c >= 2 * n /\ \A j \in 0..(2 * n) : 2 ^ j >= 2 * n => c <= 2 ^ j
Upgraded(entries) ==
  LET capacity == CapacityFor(Len(entries)) IN
  StoredAll(Table(IF capacity < MinCapacity THEN MinCapacity ELSE capacity), entries)
-------------------------------------------------------------------------------
(* NuzoDict.  Writing to a small one that is full makes it large, even if  *)
(* the key was there.                                                      *)
DictInsert(d, k, v) ==
  IF d.large THEN Stored(IF Crowded(d) THEN Grown(d) ELSE d, k, v)
  ELSE IF Len(d.entries) < SmallCap THEN [d EXCEPT !.entries = Listed(@, k, v)]
  ELSE Upgraded(Listed(d.entries, k, v))
DictHas(d, k) ==
  IF d.large THEN Stops(d, k) # {} /\ d.slots[SlotOf(d, k)] # FreeSlot ELSE k \in KeysOf(d.entries)
DictGet(d, k) ==
  IF d.large THEN d.slots[SlotOf(d, k)][2] ELSE d.entries[Scanned(d.entries, k)][2]
DictLen(d) == IF d.large THEN d.len ELSE Len(d.entries)
===============================================================================
