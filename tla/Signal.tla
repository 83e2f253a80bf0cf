------------------------------- MODULE Signal -------------------------------
(***************************************************************************)
(* One Signal of crates/nuzo-signal shared by several threads: connect,     *)
(* disconnect (handle, group, all) and the three emit paths, at the         *)
(* granularity of the code's lock sections and atomic flags.                *)
(*                                                                         *)
(* A section of code that holds a lock, acquires no other and stores no     *)
(* flag is one step.  connect and disconnect_by_group take stats while      *)
(* holding slots, and who removes several slots lowers their flags one      *)
(* after the other under that lock, so the slots writer is explicit;        *)
(* snapshot_cache is taken with try_write by three callers, so its readers  *)
(* and writer are explicit too.                                             *)
(* Callbacks run with no lock held and may themselves connect, disconnect   *)
(* or emit on the same thread.                                              *)
(***************************************************************************)
EXTENDS Naturals, Sequences, FiniteSets, SequencesExt

CONSTANTS
  Threads,       \* threads that use the signal
  NoThread,      \* a lock held by nobody
  NoSnapshot,    \* an empty snapshot_cache
  MaxId,         \* bound: connections made in a behaviour
  MaxEmits,      \* bound: emits begun in a behaviour
  Requests,      \* [priority, group, once] records given to connect
  Groups,        \* names given to disconnect_by_group
  Policies,      \* ErrorPolicy values given to emit
  MayPanic,      \* whether callbacks can panic
  OpsOf,         \* [Threads -> operations a thread performs]
  CallbackOps,   \* operations callbacks perform
  Direct,        \* DIRECT_PATH_THRESHOLD
  SnapshotMax,   \* SNAPSHOT_PATH_THRESHOLD
  StatsInterval  \* STATS_UPDATE_INTERVAL

ASSUME SignalAssumption ==
  /\ NoThread \notin Threads
  /\ MaxId \in Nat /\ MaxEmits \in Nat
  /\ Direct \in Nat /\ SnapshotMax \in Nat /\ Direct <= SnapshotMax
  /\ StatsInterval \in Nat \ {0}
  /\ \A r \in Requests : r.priority \in Nat /\ r.once \in BOOLEAN

Ids == 1 .. MaxId
NoId == 0

VARIABLES
  slots,         \* the slot vector: ids in emit order
  stats,         \* the stats vector: the id each entry was created for
  attr,          \* [Ids -> the request that made the connection]
  connected,     \* the shared AtomicBool of each connection
  next_id,       \* id counter
  emit_count,    \* emit counter
  snapshot_cache,
  slots_writer, cache_writer, cache_readers,
  pc,            \* connect / disconnect program counter of each thread
  target,        \* connection the thread works on
  removed,       \* indices whose stats the thread has yet to remove
  handles,       \* Connection handles that exist
  epc,           \* emit program counter of each thread
  emitting,      \* thread_local EMITTING
  policy, path,  \* ErrorPolicy and path of the running emit
  snapshot,      \* slots the running emit still has to visit
  total,         \* total_count of the running emit
  once_ids,      \* once slots the running emit invoked with success
  ran,           \* history: callbacks the running emit started, in order
  began,         \* history: what held when the running emit began
  fired,         \* history: once slots invoked with success so far
  missed         \* history: emits in a row that left out a live slot

opvars == <<pc, target, removed>>
emitvars == <<epc, emitting, policy, path, snapshot, total, once_ids, ran, began>>
lockvars == <<slots_writer, cache_writer, cache_readers>>
datavars == <<slots, stats, attr, connected, next_id, emit_count,
              snapshot_cache, handles, fired, missed>>
vars == <<datavars, lockvars, opvars, emitvars>>

NoRequest == [priority |-> 0, group |-> "none", once |-> FALSE]
Nothing == [live |-> {}, dead |-> {}, fired |-> {}]

Init ==
  /\ slots = <<>> /\ stats = <<>>
  /\ attr = [i \in Ids |-> NoRequest]
  /\ connected = [i \in Ids |-> FALSE]
  /\ next_id = 1 /\ emit_count = 0
  /\ snapshot_cache = NoSnapshot
  /\ slots_writer = NoThread /\ cache_writer = NoThread /\ cache_readers = {}
  /\ pc = [t \in Threads |-> "idle"]
  /\ target = [t \in Threads |-> NoId]
  /\ removed = [t \in Threads |-> <<>>]
  /\ handles = {}
  /\ epc = [t \in Threads |-> "idle"]
  /\ emitting = [t \in Threads |-> FALSE]
  /\ policy = [t \in Threads |-> "Continue"]
  /\ path = [t \in Threads |-> "none"]
  /\ snapshot = [t \in Threads |-> <<>>]
  /\ total = [t \in Threads |-> 0]
  /\ once_ids = [t \in Threads |-> {}]
  /\ ran = [t \in Threads |-> <<>>]
  /\ began = [t \in Threads |-> Nothing]
  /\ fired = {}
  /\ missed = [i \in Ids |-> 0]

-----------------------------------------------------------------------------
(* Helpers *)

\* A thread starts an operation from its top level or from a callback.
MayStart(t, op) ==
  /\ pc[t] = "idle"
  /\ \/ epc[t] = "idle" /\ op \in OpsOf[t]
     \/ epc[t] = "callback" /\ op \in CallbackOps

SlotsFree == slots_writer = NoThread
CacheFree == cache_writer = NoThread /\ cache_readers = {}

\* Mutant: the comparison the wrong way round.
MutPartitionPoint(priority) ==
  Cardinality({i \in DOMAIN slots : attr[slots[i]].priority <= priority})

\* slots.partition_point(|s| s.priority >= priority), counted from 0.
PartitionPoint(priority) ==
  Cardinality({i \in DOMAIN slots : attr[slots[i]].priority >= priority})

\* Vec::retain: one pass over the vector, which keeps the rest in its order.
Retain(s, gone) ==
  LET kept[n \in 0 .. Len(s)] ==
        IF n = 0 THEN <<>>
        ELSE IF s[n] \in gone THEN kept[n - 1] ELSE Append(kept[n - 1], s[n])
  IN  kept[Len(s)]

\* The 0-based index of each removed slot, as the enumerate() of
\* disconnect_by_group counts it: its place in the vector before the removal.
GroupIndices(gone) ==
  SelectSeq([k \in DOMAIN slots |-> k - 1], LAMBDA k : slots[k + 1] \in gone)

\* The index cleanup_once_slots pushes for each removed slot: idx grows only
\* on a kept slot, so it counts the survivors before the removed one.
CleanupIndices(gone) ==
  [k \in DOMAIN GroupIndices(gone) |->
     Cardinality({j \in 1 .. GroupIndices(gone)[k] : slots[j] \notin gone})]

\* for &idx in indices.iter().rev() { if idx < stats.len() { remove(idx) } }
RemoveRev(s, indices) ==
  FoldRight(LAMBDA k, acc : IF k < Len(acc) THEN RemoveAt(acc, k + 1) ELSE acc,
            indices, s)

\* Store false into the flag of every id of a set.
Unflag(gone) == [i \in Ids |-> connected[i] /\ i \notin gone]

\* The operation returns; a connect hands out its Connection.
Return(t) ==
  /\ pc' = [pc EXCEPT ![t] = "idle"]
  /\ target' = [target EXCEPT ![t] = NoId]
  /\ handles' = handles \cup ({target[t]} \ {NoId})

Goto(t, l) == pc' = [pc EXCEPT ![t] = l]

-----------------------------------------------------------------------------
(* connect_internal *)

\* fetch_add on next_id and the flag, before any lock is taken.
ConnectAlloc(t, r) ==
  /\ MayStart(t, "connect") /\ next_id <= MaxId
  /\ next_id' = next_id + 1
  /\ attr' = [attr EXCEPT ![next_id] = r]
  /\ connected' = [connected EXCEPT ![next_id] = TRUE]
  /\ target' = [target EXCEPT ![t] = next_id]
  /\ Goto(t, "connInsert")
  /\ UNCHANGED <<slots, stats, emit_count, snapshot_cache, handles, fired, missed,
                 lockvars, removed, emitvars>>

\* slots.write(), insert by priority; the guard is kept for the stats.
ConnectInsert(t) ==
  /\ pc[t] = "connInsert" /\ SlotsFree
  /\ LET at == PartitionPoint(attr[target[t]].priority) IN
       /\ slots' = InsertAt(slots, at + 1, target[t])
       /\ removed' = [removed EXCEPT ![t] = <<at>>]
  /\ slots_writer' = t
  /\ Goto(t, "connStats")
  /\ UNCHANGED <<stats, attr, connected, next_id, emit_count, snapshot_cache,
                 handles, fired, missed, cache_writer, cache_readers, target, emitvars>>

\* stats.write(), insert at the same index or push, then both guards go.
ConnectStats(t) ==
  /\ pc[t] = "connStats"
  /\ LET at == removed[t][1] IN
       stats' = IF at <= Len(stats) THEN InsertAt(stats, at + 1, target[t])
                                    ELSE Append(stats, target[t])
  /\ removed' = [removed EXCEPT ![t] = <<>>]
  /\ slots_writer' = NoThread
  /\ Goto(t, "invalidate")
  /\ UNCHANGED <<slots, attr, connected, next_id, emit_count, snapshot_cache,
                 handles, fired, missed, cache_writer, cache_readers, target, emitvars>>

-----------------------------------------------------------------------------
(* invalidate_snapshot_cache: a try_write that gives up on a held lock *)

InvalidateLock(t) ==
  /\ pc[t] = "invalidate" /\ CacheFree
  /\ cache_writer' = t
  /\ Goto(t, "cacheClear")
  /\ UNCHANGED <<datavars, slots_writer, cache_readers, target, removed, emitvars>>

InvalidateSkip(t) ==
  /\ pc[t] = "invalidate" /\ ~CacheFree
  /\ Return(t)
  /\ UNCHANGED <<slots, stats, attr, connected, next_id, emit_count,
                 snapshot_cache, fired, missed, lockvars, removed, emitvars>>

\* Mutant: the lock is taken and released, the snapshot stays.
MutCacheClear(t) ==
  /\ pc[t] = "cacheClear"
  /\ cache_writer' = NoThread
  /\ Return(t)
  /\ UNCHANGED <<slots, stats, attr, connected, next_id, emit_count, snapshot_cache,
                 fired, missed, slots_writer, cache_readers, removed, emitvars>>

\* *cache = None, also reached from the blocking write of disconnect_fn.
CacheClear(t) ==
  /\ pc[t] = "cacheClear"
  /\ snapshot_cache' = NoSnapshot
  /\ cache_writer' = NoThread
  /\ Return(t)
  /\ UNCHANGED <<slots, stats, attr, connected, next_id, emit_count,
                 fired, missed, slots_writer, cache_readers, removed, emitvars>>

-----------------------------------------------------------------------------
(* Connection::disconnect and Drop, then the closure disconnect_fn *)

\* Mutant: the flag goes down, disconnect_fn is not run.
MutSwapFlag(t, id) ==
  /\ connected' = [connected EXCEPT ![id] = FALSE]
  /\ UNCHANGED <<slots, stats, attr, next_id, emit_count, snapshot_cache,
                 fired, missed, lockvars, opvars, emitvars>>

\* The swap: only the caller that turns the flag runs disconnect_fn.
SwapFlag(t, id) ==
  /\ connected' = [connected EXCEPT ![id] = FALSE]
  /\ IF connected[id]
     THEN target' = [target EXCEPT ![t] = id] /\ Goto(t, "discRetain")
     ELSE UNCHANGED <<target, pc>>
  /\ UNCHANGED <<slots, stats, attr, next_id, emit_count, snapshot_cache,
                 fired, missed, lockvars, removed, emitvars>>

Disconnect(t, id) ==
  /\ MayStart(t, "disconnect") /\ id \in handles
  /\ SwapFlag(t, id)
  /\ UNCHANGED handles

\* A handle is dropped by its only owner, so nobody else is in disconnect.
DropConnection(t, id) ==
  /\ MayStart(t, "drop") /\ id \in handles
  /\ \A u \in Threads : target[u] # id
  /\ handles' = handles \ {id}
  /\ SwapFlag(t, id)

\* slots.write(), retain; stats is not touched.
DisconnectRetain(t) ==
  /\ pc[t] = "discRetain" /\ SlotsFree
  /\ connected' = Unflag({target[t]})
  /\ slots' = Retain(slots, {target[t]})
  /\ target' = [target EXCEPT ![t] = NoId]
  /\ Goto(t, "discClear")
  /\ UNCHANGED <<stats, attr, next_id, emit_count, snapshot_cache, handles,
                 fired, missed, lockvars, removed, emitvars>>

\* snapshot_cache.write(): this caller waits for the lock.
DisconnectClear(t) ==
  /\ pc[t] = "discClear" /\ CacheFree
  /\ cache_writer' = t
  /\ Goto(t, "cacheClear")
  /\ UNCHANGED <<datavars, slots_writer, cache_readers, target, removed, emitvars>>

-----------------------------------------------------------------------------
(* Slots removed together: disconnect_all, disconnect_by_group, cleanup *)

Members(g) == {i \in ToSet(slots) : attr[i].group = g}

\* The slots a thread that holds the vector is about to take out of it.
Leaving(t) ==
  IF pc[t] = "allFlags" THEN ToSet(slots)
  ELSE IF pc[t] = "groupFlags"
       THEN {slots[k] : k \in {j \in DOMAIN slots : j - 1 \in ToSet(removed[t])}}
  ELSE IF epc[t] = "cleanupFlags" THEN once_ids[t] \cap ToSet(slots) ELSE {}

\* connected.store(false), slot by slot in the order of the vector.
LowerFlag(t) ==
  /\ LET up == {k \in DOMAIN slots : slots[k] \in Leaving(t) /\ connected[slots[k]]} IN
       \E k \in up : /\ \A j \in up : k <= j
                    /\ connected' = [connected EXCEPT ![slots[k]] = FALSE]
  /\ UNCHANGED <<slots, stats, attr, next_id, emit_count, snapshot_cache, handles,
                 fired, missed, lockvars, opvars, emitvars>>

\* Mutant: the slots leave the vector, their flags stay up.
MutFlagsDown(t) == TRUE

FlagsDown(t) == \A i \in Leaving(t) : ~connected[i]

\* slots.write()
DisconnectAll(t) ==
  /\ MayStart(t, "all") /\ SlotsFree
  /\ slots_writer' = t
  /\ Goto(t, "allFlags")
  /\ UNCHANGED <<datavars, cache_writer, cache_readers, target, removed, emitvars>>

\* guard.clear(), and the guard is gone before the stats are cleared.
DisconnectAllClear(t) ==
  /\ pc[t] = "allFlags" /\ FlagsDown(t)
  /\ slots' = <<>>
  /\ slots_writer' = NoThread
  /\ Goto(t, "allStats")
  /\ UNCHANGED <<stats, attr, connected, next_id, emit_count, snapshot_cache, handles,
                 fired, missed, cache_writer, cache_readers, target, removed, emitvars>>

DisconnectAllStats(t) ==
  /\ pc[t] = "allStats"
  /\ stats' = <<>>
  /\ Goto(t, "invalidate")
  /\ UNCHANGED <<slots, attr, connected, next_id, emit_count, snapshot_cache,
                 handles, fired, missed, lockvars, target, removed, emitvars>>

\* slots.write() and the indices of what matches.
DisconnectGroup(t, g) ==
  /\ MayStart(t, "group") /\ SlotsFree
  /\ Members(g) # {}
  /\ removed' = [removed EXCEPT ![t] = GroupIndices(Members(g))]
  /\ slots_writer' = t
  /\ Goto(t, "groupFlags")
  /\ UNCHANGED <<datavars, cache_writer, cache_readers, target, emitvars>>

\* The end of retain; the guard is kept for the stats.
DisconnectGroupRetain(t) ==
  /\ pc[t] = "groupFlags" /\ FlagsDown(t)
  /\ slots' = Retain(slots, Leaving(t))
  /\ Goto(t, "groupStats")
  /\ UNCHANGED <<stats, attr, connected, next_id, emit_count, snapshot_cache, handles,
                 fired, missed, lockvars, target, removed, emitvars>>

DisconnectGroupStats(t) ==
  /\ pc[t] = "groupStats"
  /\ stats' = RemoveRev(stats, removed[t])
  /\ removed' = [removed EXCEPT ![t] = <<>>]
  /\ slots_writer' = NoThread
  /\ Goto(t, "invalidate")
  /\ UNCHANGED <<slots, attr, connected, next_id, emit_count, snapshot_cache,
                 handles, fired, missed, cache_writer, cache_readers, target, emitvars>>

-----------------------------------------------------------------------------
(* emit_with_options *)

EGoto(t, l) == epc' = [epc EXCEPT ![t] = l]

\* Mutant: the refused emit drops a guard of its own.
MutEmitRefused(t) ==
  /\ emitting[t]
  /\ emitting' = [emitting EXCEPT ![t] = FALSE]
  /\ UNCHANGED <<datavars, lockvars, opvars, epc, policy, path, snapshot, total,
                 once_ids, ran, began>>

\* EMITTING.replace(true): a nested emit of the same thread is refused and
\* leaves the flag to the outer one.
EmitRefused(t) == emitting[t] /\ UNCHANGED vars

EmitBegin(t, p) ==
  /\ MayStart(t, "emit")
  /\ \/ EmitRefused(t)
     \/ /\ ~emitting[t] /\ emit_count < MaxEmits
        /\ emitting' = [emitting EXCEPT ![t] = TRUE]
        /\ emit_count' = emit_count + 1
        /\ policy' = [policy EXCEPT ![t] = p]
        /\ began' = [began EXCEPT ![t] =
             [live |-> {i \in handles : connected[i]},
              dead |-> {i \in 1 .. next_id - 1 : ~connected[i]},
              fired |-> fired]]
        /\ EGoto(t, "readSlots")
        /\ UNCHANGED <<slots, stats, attr, connected, next_id, snapshot_cache,
                       handles, fired, missed, lockvars, opvars,
                       path, snapshot, total, once_ids, ran>>

PathOf(n) == IF n <= Direct THEN "direct"
             ELSE IF n <= SnapshotMax THEN "snapshot" ELSE "batch"

\* slots.read(): an empty list returns, a short one is copied under this
\* guard (emit_direct), the others drop it and go through the cache.
EmitRead(t) ==
  /\ epc[t] = "readSlots" /\ SlotsFree
  /\ path' = [path EXCEPT ![t] = PathOf(Len(slots))]
  /\ IF Len(slots) <= Direct
     THEN /\ snapshot' = [snapshot EXCEPT ![t] = slots]
          /\ total' = [total EXCEPT ![t] = Len(slots)]
          /\ EGoto(t, IF slots = <<>> THEN "finish" ELSE "loop")
     ELSE EGoto(t, "cacheRead") /\ UNCHANGED <<snapshot, total>>
  /\ UNCHANGED <<datavars, lockvars, opvars, emitting, policy, once_ids, ran, began>>

-----------------------------------------------------------------------------
(* get_or_build_snapshot *)

CacheRead(t) ==
  /\ epc[t] = "cacheRead" /\ cache_writer = NoThread
  /\ cache_readers' = cache_readers \cup {t}
  /\ EGoto(t, "cacheHeld")
  /\ UNCHANGED <<datavars, slots_writer, cache_writer, opvars, emitting, policy,
                 path, snapshot, total, once_ids, ran, began>>

Take(t, s) ==
  /\ snapshot' = [snapshot EXCEPT ![t] = s]
  /\ total' = [total EXCEPT ![t] = Len(s)]

\* Mutant: the read guard of the cache is never dropped.
MutCacheHeld(t) ==
  /\ epc[t] = "cacheHeld"
  /\ IF snapshot_cache # NoSnapshot
     THEN Take(t, snapshot_cache) /\ EGoto(t, "loop")
     ELSE EGoto(t, "build") /\ UNCHANGED <<snapshot, total>>
  /\ UNCHANGED <<datavars, lockvars, opvars, emitting, policy,
                 path, once_ids, ran, began>>

CacheHeld(t) ==
  /\ epc[t] = "cacheHeld"
  /\ cache_readers' = cache_readers \ {t}
  /\ IF snapshot_cache # NoSnapshot
     THEN Take(t, snapshot_cache) /\ EGoto(t, "loop")
     ELSE EGoto(t, "build") /\ UNCHANGED <<snapshot, total>>
  /\ UNCHANGED <<datavars, slots_writer, cache_writer, opvars, emitting, policy,
                 path, once_ids, ran, began>>

\* slots.read() for a new snapshot; the guard is gone before the cache is tried.
BuildSnapshot(t) ==
  /\ epc[t] = "build" /\ SlotsFree
  /\ Take(t, slots)
  /\ EGoto(t, "store")
  /\ UNCHANGED <<datavars, lockvars, opvars, emitting, policy, path, once_ids, ran, began>>

StoreLock(t) ==
  /\ epc[t] = "store" /\ CacheFree
  /\ cache_writer' = t
  /\ EGoto(t, "storing")
  /\ UNCHANGED <<datavars, slots_writer, cache_readers, opvars, emitting, policy,
                 path, snapshot, total, once_ids, ran, began>>

StoreSkip(t) ==
  /\ epc[t] = "store" /\ ~CacheFree
  /\ EGoto(t, "loop")
  /\ UNCHANGED <<datavars, lockvars, opvars, emitting, policy, path, snapshot,
                 total, once_ids, ran, began>>

Store(t) ==
  /\ epc[t] = "storing"
  /\ snapshot_cache' = snapshot[t]
  /\ cache_writer' = NoThread
  /\ EGoto(t, "loop")
  /\ UNCHANGED <<slots, stats, attr, connected, next_id, emit_count, handles, fired,
                 missed, slots_writer, cache_readers, opvars, emitting, policy, path,
                 snapshot, total, once_ids, ran, began>>

-----------------------------------------------------------------------------
(* The loop over the snapshot, the same in the three paths *)

\* Mutants: the flag is not looked at; a slot is passed over while a writer is
\* in the vector.
MutMayInvoke(id) == id \in Ids
MutMayInvokeIdle(id) == connected[id] /\ SlotsFree

\* connected.load(): a slot whose flag is down is passed over.
MayInvoke(id) == connected[id]

SkipSlot(t) ==
  /\ epc[t] = "loop" /\ snapshot[t] # <<>> /\ ~MayInvoke(Head(snapshot[t]))
  /\ snapshot' = [snapshot EXCEPT ![t] = Tail(@)]
  /\ UNCHANGED <<datavars, lockvars, opvars, epc, emitting, policy, path, total,
                 once_ids, ran, began>>

InvokeSlot(t) ==
  /\ epc[t] = "loop" /\ snapshot[t] # <<>> /\ MayInvoke(Head(snapshot[t]))
  /\ ran' = [ran EXCEPT ![t] = Append(@, Head(snapshot[t]))]
  /\ EGoto(t, "callback")
  /\ UNCHANGED <<datavars, lockvars, opvars, emitting, policy, path, snapshot, total,
                 once_ids, began>>

\* The callback returned: a once slot is noted for the cleanup.
CallbackOk(t) ==
  /\ epc[t] = "callback" /\ pc[t] = "idle"
  /\ LET id == Head(snapshot[t])
         noted == IF attr[id].once THEN {id} ELSE {} IN
       /\ once_ids' = [once_ids EXCEPT ![t] = @ \cup noted]
       /\ fired' = fired \cup noted
  /\ snapshot' = [snapshot EXCEPT ![t] = Tail(@)]
  /\ EGoto(t, "loop")
  /\ UNCHANGED <<slots, stats, attr, connected, next_id, emit_count, snapshot_cache,
                 handles, missed, lockvars, opvars, emitting, policy, path, total, ran, began>>

\* catch_unwind caught a panic: Stop leaves the loop, Continue goes on.
AfterPanic(t) == IF policy[t] = "Stop" THEN <<>> ELSE Tail(snapshot[t])

CallbackPanic(t) ==
  /\ MayPanic
  /\ epc[t] = "callback" /\ pc[t] = "idle"
  /\ snapshot' = [snapshot EXCEPT ![t] = AfterPanic(t)]
  /\ EGoto(t, "loop")
  /\ UNCHANGED <<datavars, lockvars, opvars, emitting, policy, path, total,
                 once_ids, ran, began>>

\* Mutant: the direct path forgets its cleanup.
MutLoopDone(t) ==
  /\ epc[t] = "loop" /\ snapshot[t] = <<>>
  /\ EGoto(t, IF once_ids[t] # {} /\ path[t] # "direct" THEN "cleanup" ELSE "finish")
  /\ UNCHANGED <<datavars, lockvars, opvars, emitting, policy, path, snapshot,
                 total, once_ids, ran, began>>

LoopDone(t) ==
  /\ epc[t] = "loop" /\ snapshot[t] = <<>>
  /\ EGoto(t, IF once_ids[t] # {} THEN "cleanup" ELSE "finish")
  /\ UNCHANGED <<datavars, lockvars, opvars, emitting, policy, path, snapshot,
                 total, once_ids, ran, began>>

-----------------------------------------------------------------------------
(* cleanup_once_slots and the end of the emit *)

\* slots.write(): done when none of the noted slots is in the vector.
CleanupOnceSlots(t) ==
  /\ epc[t] = "cleanup" /\ SlotsFree
  /\ IF once_ids[t] \cap ToSet(slots) = {} THEN EGoto(t, "finish") /\ UNCHANGED slots_writer
     ELSE EGoto(t, "cleanupFlags") /\ slots_writer' = t
  /\ UNCHANGED <<datavars, cache_writer, cache_readers, opvars, emitting, policy, path,
                 snapshot, total, once_ids, ran, began>>

\* The end of retain and of the guard.
CleanupRetain(t) ==
  /\ epc[t] = "cleanupFlags" /\ FlagsDown(t)
  /\ slots' = Retain(slots, Leaving(t))
  /\ removed' = [removed EXCEPT ![t] = CleanupIndices(Leaving(t))]
  /\ slots_writer' = NoThread
  /\ EGoto(t, "cleanupStats")
  /\ UNCHANGED <<stats, attr, connected, next_id, emit_count, snapshot_cache, handles, fired,
                 missed, cache_writer, cache_readers, pc, target, emitting, policy, path,
                 snapshot, total, once_ids, ran, began>>

CleanupStats(t) ==
  /\ epc[t] = "cleanupStats"
  /\ stats' = RemoveRev(stats, removed[t])
  /\ removed' = [removed EXCEPT ![t] = <<>>]
  /\ EGoto(t, "finish")
  /\ Goto(t, "invalidate")
  /\ UNCHANGED <<slots, attr, connected, next_id, emit_count, snapshot_cache, handles,
                 fired, missed, lockvars, target, emitting, policy, path, snapshot, total,
                 once_ids, ran, began>>

\* stats.try_write() of emit_batch fails when another thread is in its stats section.
StatsBusy(t) ==
  \E u \in Threads \ {t} : \/ pc[u] \in {"connStats", "groupStats", "allStats"}
                           \/ epc[u] = "cleanupStats"

\* Every StatsInterval emits the batch path cuts stats to the length it saw.
BatchStats(t) ==
  \/ /\ path[t] = "batch" /\ emit_count % StatsInterval = 0
     /\ stats' = SubSeq(stats, 1, IF Len(stats) > total[t] THEN total[t] ELSE Len(stats))
  \/ /\ path[t] = "batch" /\ emit_count % StatsInterval = 0 => StatsBusy(t)
     /\ UNCHANGED stats

\* EmitGuard drops: EMITTING is false again. missed counts, per live slot, the
\* emits in a row that ran to their end without it.
EmitFinish(t) ==
  /\ epc[t] = "finish" /\ pc[t] = "idle"
  /\ BatchStats(t)
  /\ emitting' = [emitting EXCEPT ![t] = FALSE]
  /\ once_ids' = [once_ids EXCEPT ![t] = {}]
  /\ missed' = [i \in Ids |->
       IF i \in ToSet(ran[t]) \/ policy[t] = "Stop" \/ ~connected[i] THEN 0
       ELSE IF i \in began[t].live /\ missed[i] < 2 THEN missed[i] + 1 ELSE missed[i]]
  /\ policy' = [policy EXCEPT ![t] = "Continue"]
  /\ path' = [path EXCEPT ![t] = "none"]
  /\ total' = [total EXCEPT ![t] = 0]
  /\ ran' = [ran EXCEPT ![t] = <<>>]
  /\ began' = [began EXCEPT ![t] = Nothing]
  /\ EGoto(t, "idle")
  /\ UNCHANGED <<slots, attr, connected, next_id, emit_count, snapshot_cache, handles,
                 fired, lockvars, opvars, snapshot>>

-----------------------------------------------------------------------------
(* What a thread does once an operation has begun: it ends in finitely many *)
(* of these steps, and fairness is asked of them only.                      *)
Progress(t) ==
  \/ ConnectInsert(t) \/ ConnectStats(t)
  \/ InvalidateLock(t) \/ InvalidateSkip(t) \/ CacheClear(t)
  \/ DisconnectRetain(t) \/ DisconnectClear(t)
  \/ LowerFlag(t)
  \/ DisconnectAllClear(t) \/ DisconnectAllStats(t)
  \/ DisconnectGroupRetain(t) \/ DisconnectGroupStats(t)
  \/ EmitRead(t) \/ CacheRead(t) \/ CacheHeld(t) \/ BuildSnapshot(t)
  \/ StoreLock(t) \/ StoreSkip(t) \/ Store(t)
  \/ SkipSlot(t) \/ InvokeSlot(t) \/ CallbackOk(t) \/ CallbackPanic(t) \/ LoopDone(t)
  \/ CleanupOnceSlots(t) \/ CleanupRetain(t) \/ CleanupStats(t) \/ EmitFinish(t)

Start(t) ==
  \/ \E r \in Requests : ConnectAlloc(t, r)
  \/ \E id \in Ids : Disconnect(t, id) \/ DropConnection(t, id)
  \/ DisconnectAll(t) \/ \E g \in Groups : DisconnectGroup(t, g)
  \/ \E p \in Policies : EmitBegin(t, p)

Next == \E t \in Threads : Progress(t) \/ Start(t)

Spec == Init /\ [][Next]_vars
FairSpec == Spec /\ \A t \in Threads : WF_vars(Progress(t))

-----------------------------------------------------------------------------
(* Properties *)

OpLabels == {"idle", "connInsert", "connStats", "invalidate", "cacheClear",
             "discRetain", "discClear", "allFlags", "allStats", "groupFlags", "groupStats"}
EmitLabels == {"idle", "readSlots", "cacheRead", "cacheHeld", "build", "store",
               "storing", "loop", "callback", "cleanup", "cleanupFlags", "cleanupStats", "finish"}

\* Every variable has its type.
TypeOK ==
  /\ slots \in Seq(Ids) /\ stats \in Seq(Ids)
  /\ attr \in [Ids -> Requests \cup {NoRequest}]
  /\ connected \in [Ids -> BOOLEAN]
  /\ next_id \in 1 .. MaxId + 1 /\ emit_count \in 0 .. MaxEmits
  /\ snapshot_cache = NoSnapshot \/ snapshot_cache \in Seq(Ids)
  /\ slots_writer \in Threads \cup {NoThread}
  /\ cache_writer \in Threads \cup {NoThread} /\ cache_readers \subseteq Threads
  /\ pc \in [Threads -> OpLabels] /\ epc \in [Threads -> EmitLabels]
  /\ target \in [Threads -> Ids \cup {NoId}]
  /\ removed \in [Threads -> Seq(Nat)]
  /\ handles \subseteq Ids /\ fired \subseteq Ids
  /\ emitting \in [Threads -> BOOLEAN]
  /\ policy \in [Threads -> Policies \cup {"Continue"}]
  /\ path \in [Threads -> {"none", "direct", "snapshot", "batch"}]
  /\ snapshot \in [Threads -> Seq(Ids)] /\ ran \in [Threads -> Seq(Ids)]
  /\ total \in [Threads -> Nat] /\ missed \in [Ids -> 0 .. 2]
  /\ once_ids \in [Threads -> SUBSET Ids]
  /\ \A t \in Threads : \A f \in {"live", "dead", "fired"} : began[t][f] \subseteq Ids

\* The threads whose guards a thread waits for: at these steps read() and
\* write() block.  No step is taken under the lock of the statistics.
AwaitsSlots(t) ==
  pc[t] \in {"connInsert", "discRetain"} \/ epc[t] \in {"readSlots", "build", "cleanup"}
WaitsFor(t) ==
  {u \in Threads :
     \/ AwaitsSlots(t) /\ slots_writer = u
     \/ (pc[t] = "discClear" \/ epc[t] = "cacheRead") /\ cache_writer = u
     \/ pc[t] = "discClear" /\ u \in cache_readers}

\* Whom a thread waits for waits for nobody, nor does a thread wait for itself: no
\* guard is kept over a callback or over the wait for another lock, on any path
\* through connect, disconnect and emit.
HoldersNeverWait == \A t \in Threads : \A u \in WaitsFor(t) : WaitsFor(u) = {}

\* A thread is inside connect or disconnect from its top level, from a callback,
\* or from the cleanup that ends its emit, and nowhere else.
Nesting ==
  \A t \in Threads : pc[t] # "idle" => epc[t] \in {"idle", "callback", "finish"}

\* EMITTING is up exactly while the thread's one emit runs, whatever its
\* callbacks tried: a refused nested emit does not take the flag down.
EmittingGuard == \A t \in Threads : emitting[t] <=> epc[t] # "idle"

\* The vector and the flags drift apart only while the operation that moves one
\* of the two is in flight: no slot is leaked, none is lost.
FlagsMatchSlots ==
  \A i \in 1 .. next_id - 1 :
    /\ i \in ToSet(slots) /\ ~connected[i] =>
         \E t \in Threads : (pc[t] = "discRetain" /\ target[t] = i) \/ i \in Leaving(t)
    /\ connected[i] /\ i \notin ToSet(slots) =>
         \E t \in Threads : pc[t] = "connInsert" /\ target[t] = i

\* One emit runs its callbacks in priority order and none of them twice, on a
\* fresh or a stale snapshot, whatever connects and disconnects meanwhile.
RunsInOrder ==
  \A t \in Threads : \A i, j \in DOMAIN ran[t] : i < j =>
    /\ attr[ran[t][i]].priority >= attr[ran[t][j]].priority
    /\ ran[t][i] # ran[t][j]

\* A slot whose disconnect took effect before the emit began is never run by
\* it, not even from a snapshot cached before the disconnect.
DeadNeverRuns ==
  [][\A t \in Threads : epc[t] = "loop" /\ epc'[t] = "callback" =>
       Head(snapshot[t]) \notin began[t].dead]_vars

\* When an emit is about to return, the once slots it ran with success are
\* disconnected and out of the vector.
OnceRetired ==
  \A t \in Threads : epc[t] = "finish" =>
    \A i \in once_ids[t] : ~connected[i] /\ i \notin ToSet(slots)

\* connect_once: no emit that begins after a once slot succeeded runs it again.
OnceNeverRunsAgain == \A t \in Threads : ToSet(ran[t]) \cap began[t].fired = {}

Delivered(t) ==
  epc[t] = "finish" /\ epc'[t] = "idle" /\ policy[t] = "Continue" =>
    {i \in began[t].live : connected[i]} \subseteq ToSet(ran[t])

\* emit: every slot connected before the emit began and still connected at its
\* end was called by it.
EmitDelivers == [][\A t \in Threads : Delivered(t)]_vars

\* The same promise, of the emits that took the direct path.
DirectDelivers == [][\A t \in Threads : path[t] = "direct" => Delivered(t)]_vars

\* invalidate_snapshot_cache: a new slot may miss one emit, never two in a row.
MissedAtMostOnce == \A i \in Ids : missed[i] <= 1

Quiet == \A t \in Threads : pc[t] = "idle" /\ epc[t] = "idle"

\* stats: one entry per slot and in the order of the slots, whenever no
\* operation is in flight.
StatsAligned == Quiet => stats = slots

\* connect, disconnect and emit always return, with callbacks that return.
OperationsReturn ==
  \A t \in Threads : /\ pc[t] # "idle" ~> pc[t] = "idle"
                     /\ epc[t] # "idle" ~> epc[t] = "idle"

\* What the signal promises its users, without slots, cache or locks.
Contract == INSTANCE SignalContract WITH
  live <- {i \in 1 .. next_id - 1 : connected[i]},
  spent <- {i \in 1 .. next_id - 1 : ~connected[i]},
  delivering <- {t \in Threads : emitting[t]},
  delivered <- [t \in Threads |-> ToSet(ran[t])],
  running <- [t \in Threads |-> IF epc[t] = "callback" THEN Head(snapshot[t]) ELSE NoId],
  succeeded <- once_ids

\* Every behaviour of the signal is one of the contract.
ImplementsContract == Contract!Spec

=============================================================================
