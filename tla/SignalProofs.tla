---------------------------- MODULE SignalProofs ----------------------------
(***************************************************************************)
(* Proofs about Signal for every set of threads and every bound.            *)
(*                                                                         *)
(* Inv is inductive: program counters, locks and flags.  Delivery is too,   *)
(* given Inv: the vector, the cached snapshot and what each emit visited    *)
(* and has left are lists of connections in the order of their priorities,  *)
(* none twice, and an emit owes what it noted.  From the two follow what an *)
(* emit may run and in which order, and that the code implements            *)
(* SignalContract.  Fresh speaks of programs with one thread: whatever      *)
(* callbacks do, the cached snapshot lacks nothing that is connected, so    *)
(* that no emit misses a slot.                                              *)
(***************************************************************************)
EXTENDS Signal, FiniteSetTheorems, SequenceTheorems, WellFoundedInduction, TLAPS

\* The types the proofs need: what the steps below test and update.
ControlType ==
  /\ pc \in [Threads -> OpLabels] /\ epc \in [Threads -> EmitLabels]
  /\ emitting \in [Threads -> BOOLEAN]
  /\ connected \in [Ids -> BOOLEAN]
  /\ next_id \in 1 .. MaxId + 1
  /\ target \in [Threads -> Ids \cup {NoId}]
  /\ handles \subseteq Ids
  /\ cache_readers \subseteq Threads
  /\ slots_writer \in Threads \cup {NoThread}
  /\ cache_writer \in Threads \cup {NoThread}
  /\ began = [t \in Threads |-> began[t]]
  /\ DOMAIN removed = Threads

\* Who holds a guard is at a step that drops it.
LockDiscipline ==
  /\ \A t \in Threads :
       slots_writer = t <=> \/ pc[t] \in {"connStats", "allFlags", "groupFlags", "groupStats"}
                           \/ epc[t] = "cleanupFlags"
  /\ \A t \in Threads : cache_writer = t <=> pc[t] = "cacheClear" \/ epc[t] = "storing"
  /\ \A t \in Threads : t \in cache_readers <=> epc[t] = "cacheHeld"
  /\ cache_writer # NoThread => cache_readers = {}

\* What an emit recorded as dead when it began is still dead.
DeadStaysDead ==
  \A t \in Threads : began[t].dead \subseteq {i \in 1 .. next_id - 1 : ~connected[i]}

Inv == ControlType /\ LockDiscipline /\ Nesting /\ EmittingGuard /\ DeadStaysDead

USE SignalAssumption DEF Ids, NoId

\* The invariant holds initially: no lock is held, no thread is anywhere.
LEMMA InitInv == Init => Inv
  BY DEF Init, Inv, ControlType, LockDiscipline, Nesting, EmittingGuard,
         DeadStaysDead, OpLabels, EmitLabels, Nothing

\* A step of connect, disconnect or the group operations keeps the invariant.
LEMMA OpStepInv ==
  ASSUME Inv, NEW t \in Threads,
         \/ ConnectInsert(t) \/ ConnectStats(t)
         \/ InvalidateLock(t) \/ InvalidateSkip(t) \/ CacheClear(t)
         \/ DisconnectRetain(t) \/ DisconnectClear(t)
         \/ LowerFlag(t) \/ DisconnectAllClear(t) \/ DisconnectAllStats(t)
         \/ DisconnectGroupRetain(t) \/ DisconnectGroupStats(t)
  PROVE  Inv'
<1> USE DEF Inv, ControlType, LockDiscipline, Nesting, EmittingGuard, DeadStaysDead,
            OpLabels, EmitLabels, Goto, Return, Unflag, SlotsFree, CacheFree, emitvars, lockvars, datavars
<1>1. CASE ConnectInsert(t)
  BY <1>1 DEF ConnectInsert
<1>2. CASE ConnectStats(t)
  BY <1>2 DEF ConnectStats
<1>3. CASE InvalidateLock(t)
  BY <1>3 DEF InvalidateLock
<1>4. CASE InvalidateSkip(t)
  BY <1>4 DEF InvalidateSkip
<1>5. CASE CacheClear(t)
  BY <1>5 DEF CacheClear
<1>6. CASE DisconnectRetain(t)
  BY <1>6 DEF DisconnectRetain
<1>7. CASE DisconnectClear(t)
  BY <1>7 DEF DisconnectClear
<1>8. CASE DisconnectAllStats(t)
  BY <1>8 DEF DisconnectAllStats
<1>9. CASE DisconnectGroupStats(t)
  BY <1>9 DEF DisconnectGroupStats
<1>10. CASE DisconnectAllClear(t)
  BY <1>10 DEF DisconnectAllClear
<1>11. CASE DisconnectGroupRetain(t)
  BY <1>11 DEF DisconnectGroupRetain
<1>12. CASE LowerFlag(t)
  <2>1. PICK x : connected' = [connected EXCEPT ![x] = FALSE]
    BY <1>12 DEF LowerFlag
  <2>2. UNCHANGED <<next_id, handles, lockvars, opvars, emitvars>>
    BY <1>12 DEF LowerFlag
  <2>3. connected' = [i \in Ids |-> IF i = x THEN FALSE ELSE connected[i]]
    BY <2>1
  <2>4. connected' \in [Ids -> BOOLEAN] /\ \A i \in Ids : connected'[i] => connected[i]
    BY <2>3
  <2> QED BY <2>2, <2>4 DEF opvars
<1> QED BY <1>1, <1>2, <1>3, <1>4, <1>5, <1>6, <1>7, <1>8, <1>9, <1>10, <1>11, <1>12

\* A step of a running emit keeps the invariant.
LEMMA EmitStepInv ==
  ASSUME Inv, NEW t \in Threads,
         \/ EmitRead(t) \/ CacheRead(t) \/ CacheHeld(t) \/ BuildSnapshot(t) \/ StoreLock(t)
         \/ StoreSkip(t) \/ Store(t) \/ SkipSlot(t) \/ InvokeSlot(t) \/ CallbackOk(t)
         \/ CallbackPanic(t) \/ LoopDone(t) \/ CleanupOnceSlots(t) \/ CleanupRetain(t)
         \/ CleanupStats(t) \/ EmitFinish(t)
  PROVE  Inv'
<1> USE DEF Inv, ControlType, LockDiscipline, Nesting, EmittingGuard, DeadStaysDead,
            OpLabels, EmitLabels, Goto, EGoto, Unflag, SlotsFree, CacheFree,
            opvars, lockvars, datavars
<1>1. CASE EmitRead(t)
  <2>1. epc[t] = "readSlots" /\ \E l \in {"finish", "loop", "cacheRead"} : EGoto(t, l)
    BY <1>1 DEF EmitRead
  <2>2. UNCHANGED <<datavars, lockvars, opvars, emitting, began>>
    BY <1>1 DEF EmitRead
  <2> QED BY <2>1, <2>2
<1>2. CASE CacheRead(t)
  BY <1>2 DEF CacheRead
<1>3. CASE CacheHeld(t)
  <2>1. epc[t] = "cacheHeld" /\ \E l \in {"loop", "build"} : EGoto(t, l)
    BY <1>3 DEF CacheHeld
  <2>2. /\ cache_readers' = cache_readers \ {t}
        /\ UNCHANGED <<datavars, slots_writer, cache_writer, opvars, emitting, began>>
    BY <1>3 DEF CacheHeld
  <2> QED BY <2>1, <2>2
<1>4. CASE BuildSnapshot(t)
  BY <1>4 DEF BuildSnapshot, Take
<1>5. CASE StoreLock(t)
  BY <1>5 DEF StoreLock
<1>6. CASE StoreSkip(t)
  BY <1>6 DEF StoreSkip
<1>7. CASE Store(t)
  BY <1>7 DEF Store
<1>8. CASE SkipSlot(t)
  BY <1>8 DEF SkipSlot
<1>9. CASE InvokeSlot(t)
  BY <1>9 DEF InvokeSlot
<1>10. CASE CallbackOk(t)
  BY <1>10 DEF CallbackOk
<1>11. CASE CallbackPanic(t)
  BY <1>11 DEF CallbackPanic
<1>12. CASE LoopDone(t)
  BY <1>12 DEF LoopDone
<1>13. CASE CleanupOnceSlots(t)
  BY SMTT(30), <1>13 DEF CleanupOnceSlots
<1>14. CASE CleanupStats(t)
  BY SMTT(30), <1>14 DEF CleanupStats
<1>15. CASE EmitFinish(t)
  BY ZenonT(40), <1>15 DEF EmitFinish, BatchStats, Nothing
<1>16. CASE CleanupRetain(t)
  BY SMTT(30), <1>16 DEF CleanupRetain
<1> QED BY <1>1, <1>2, <1>3, <1>4, <1>5, <1>6, <1>7, <1>8, <1>9, <1>10, <1>11, <1>12, <1>13, <1>14,
            <1>15, <1>16

\* Connection::disconnect: the swap of the flag, whether or not it wins.
LEMMA SwapStepInv ==
  ASSUME Inv, NEW t \in Threads, NEW id \in Ids,
         pc[t] = "idle", epc[t] \in {"idle", "callback"},
         SwapFlag(t, id), handles' \subseteq Ids
  PROVE  Inv'
<1> USE DEF Inv, ControlType
<1>1. /\ connected' \in [Ids -> BOOLEAN]
      /\ \A i \in Ids : connected'[i] => connected[i]
  BY DEF SwapFlag
<1>2. \E l \in {"idle", "discRetain"} : pc' = [pc EXCEPT ![t] = l]
  BY DEF SwapFlag, Goto
<1>3. target' \in [Threads -> Ids \cup {NoId}]
  BY DEF SwapFlag
<1>4. UNCHANGED <<next_id, removed, lockvars, emitvars>>
  BY DEF SwapFlag
<1>5. ControlType'
  <2>1. pc' \in [Threads -> OpLabels]
    BY <1>2 DEF OpLabels
  <2>2. UNCHANGED <<epc, emitting, began, next_id, removed, cache_readers, slots_writer, cache_writer>>
    BY <1>4 DEF lockvars, emitvars
  <2> QED BY <1>1, <1>3, <2>1, <2>2
<1>6. DeadStaysDead'
  BY <1>1, <1>4 DEF DeadStaysDead, lockvars, emitvars
<1>7. LockDiscipline' /\ Nesting' /\ EmittingGuard'
  BY <1>2, <1>4 DEF LockDiscipline, Nesting, EmittingGuard, lockvars, emitvars
<1> QED BY <1>5, <1>6, <1>7

\* The first step of an operation keeps the invariant.
LEMMA StartInv ==
  ASSUME Inv, NEW t \in Threads, Start(t)
  PROVE  Inv'
<1> USE DEF Inv, ControlType, LockDiscipline, Nesting, EmittingGuard, DeadStaysDead,
            OpLabels, EmitLabels, MayStart, Goto, Unflag, SlotsFree,
            opvars, emitvars, lockvars, datavars
<1>1. ASSUME NEW r \in Requests, ConnectAlloc(t, r)
      PROVE  Inv'
  <2>1. /\ next_id \in Ids /\ next_id' = next_id + 1
        /\ connected' = [connected EXCEPT ![next_id] = TRUE]
    BY <1>1 DEF ConnectAlloc
  <2>2. /\ pc[t] = "idle" /\ epc[t] \in {"idle", "callback"}
        /\ pc' = [pc EXCEPT ![t] = "connInsert"]
        /\ target' = [target EXCEPT ![t] = next_id]
        /\ UNCHANGED <<removed, lockvars, handles, emitvars>>
    BY <1>1 DEF ConnectAlloc
  <2>3. ControlType'
    BY <2>1, <2>2
  <2>4. DeadStaysDead'
    <3> SUFFICES ASSUME NEW u \in Threads, NEW i \in began[u].dead
                 PROVE  i \in 1 .. next_id' - 1 /\ ~connected'[i]
      BY <2>2
    <3> QED BY <2>1
  <2>5. LockDiscipline' /\ Nesting' /\ EmittingGuard'
    BY <2>2
  <2> QED BY <2>3, <2>4, <2>5
<1>2. ASSUME NEW id \in Ids, Disconnect(t, id)
      PROVE  Inv'
  BY <1>2, SwapStepInv DEF Disconnect
<1>3. ASSUME NEW id \in Ids, DropConnection(t, id)
      PROVE  Inv'
  BY <1>3, SwapStepInv DEF DropConnection
<1>4. CASE DisconnectAll(t)
  BY <1>4 DEF DisconnectAll
<1>5. ASSUME NEW g \in Groups, DisconnectGroup(t, g)
      PROVE  Inv'
  <2>1. /\ pc[t] = "idle" /\ epc[t] \in {"idle", "callback"}
        /\ slots_writer = NoThread /\ slots_writer' = t
        /\ pc' = [pc EXCEPT ![t] = "groupFlags"]
        /\ \E x : removed' = [removed EXCEPT ![t] = x]
        /\ UNCHANGED <<connected, next_id, handles, target, cache_writer, cache_readers, emitvars>>
    BY <1>5 DEF DisconnectGroup
  <2> QED BY <2>1
<1>6. ASSUME NEW p \in Policies, EmitBegin(t, p)
      PROVE  Inv'
  <2>1. CASE EmitRefused(t)
    BY <2>1 DEF EmitRefused, vars
  <2>2. CASE ~emitting[t]
    <3>1. /\ pc[t] = "idle" /\ epc[t] = "idle"
          /\ emitting' = [emitting EXCEPT ![t] = TRUE]
          /\ epc' = [epc EXCEPT ![t] = "readSlots"]
          /\ UNCHANGED <<connected, next_id, handles, lockvars, opvars>>
      BY <1>6, <2>2 DEF EmitBegin, EmitRefused, EGoto
    <3>2. \E d : began' = [began EXCEPT ![t] = d] /\
                 d.dead = {i \in 1 .. next_id - 1 : ~connected[i]}
      BY <1>6, <2>2 DEF EmitBegin, EmitRefused
    <3>3. ControlType' /\ DeadStaysDead'
      <4>1. epc' \in [Threads -> EmitLabels] /\ emitting' \in [Threads -> BOOLEAN]
        BY <3>1
      <4>2. began' = [u \in Threads |-> began'[u]]
        BY <3>2
      <4>3. UNCHANGED <<pc, target, removed, connected, next_id, handles, cache_readers,
                        slots_writer, cache_writer>>
        BY <3>1
      <4>4. \A u \in Threads : began'[u].dead \subseteq {i \in 1 .. next_id - 1 : ~connected[i]}
        BY <3>2
      <4> QED BY <4>1, <4>2, <4>3, <4>4
    <3>4. LockDiscipline' /\ Nesting' /\ EmittingGuard'
      BY <3>1
    <3> QED BY <3>3, <3>4
  <2> QED BY <1>6, <2>1, <2>2 DEF EmitBegin
<1> QED BY <1>1, <1>2, <1>3, <1>4, <1>5, <1>6 DEF Start

\* Every step of the signal keeps the invariant.
LEMMA StepInv == Inv /\ [Next]_vars => Inv'
<1> SUFFICES ASSUME Inv, [Next]_vars PROVE Inv'
  OBVIOUS
<1>1. ASSUME NEW t \in Threads, Progress(t)
      PROVE  Inv'
  BY <1>1, OpStepInv, EmitStepInv DEF Progress
<1>2. ASSUME NEW t \in Threads, Start(t)
      PROVE  Inv'
  BY <1>2, StartInv
<1>3. CASE UNCHANGED vars
  BY <1>3 DEF vars, datavars, lockvars, opvars, emitvars, Inv, ControlType,
              LockDiscipline, Nesting, EmittingGuard, DeadStaysDead
<1> QED BY <1>1, <1>2, <1>3 DEF Next

\* Inv holds throughout.
LEMMA SignalInvariant == Spec => []Inv
  BY InitInv, StepInv, PTL DEF Spec

\* No deadlock: a thread that another one waits for waits for nobody, so no guard
\* is kept over a callback or over the wait for a second lock.
THEOREM SignalHoldersNeverWait == Spec => []HoldersNeverWait
<1>1. Inv => HoldersNeverWait
  <2> SUFFICES ASSUME Inv, NEW t \in Threads, NEW u \in WaitsFor(t)
               PROVE  WaitsFor(u) = {}
    BY DEF HoldersNeverWait
  <2>1. u \in Threads /\ (slots_writer = u \/ cache_writer = u \/ u \in cache_readers)
    BY DEF WaitsFor
  <2>2. \/ /\ pc[u] \in {"connStats", "allFlags", "groupFlags", "groupStats", "cacheClear"}
           /\ epc[u] \in {"idle", "callback", "finish"}
        \/ pc[u] = "idle" /\ epc[u] \in {"cleanupFlags", "storing", "cacheHeld"}
    BY <2>1 DEF Inv, LockDiscipline, Nesting
  <2> QED BY <2>2 DEF WaitsFor, AwaitsSlots
<1> QED BY <1>1, SignalInvariant, PTL

\* The recursion guard: EMITTING is up exactly while the thread's emit runs.
THEOREM SignalEmittingGuard == Spec => []EmittingGuard
<1>1. Inv => EmittingGuard
  BY DEF Inv
<1> QED BY <1>1, SignalInvariant, PTL

\* The only step that enters a callback is InvokeSlot.
LEMMA OnlyInvokeCalls ==
  ASSUME Inv, [Next]_vars, NEW t \in Threads, epc[t] = "loop", epc'[t] = "callback"
  PROVE  InvokeSlot(t)
<1> USE DEF Inv, ControlType
<1>1. PICK u \in Threads : Progress(u) \/ Start(u)
  BY DEF Next, vars, emitvars
<1>2. epc' # epc
  OBVIOUS
<1>3. ~Start(u)
  <2>1. ASSUME NEW p \in Policies, EmitBegin(u, p), ~emitting[u]
        PROVE  FALSE
    BY <2>1, u # t \/ u = t DEF EmitBegin, EmitRefused, EGoto, vars, emitvars
  <2>2. ASSUME NEW p \in Policies, EmitBegin(u, p)
        PROVE  FALSE
    BY <1>2, <2>1, <2>2 DEF EmitBegin, EmitRefused, vars, emitvars
  <2> QED BY <1>2, <2>2 DEF Start, ConnectAlloc, Disconnect, DropConnection, SwapFlag,
             DisconnectAll, DisconnectGroup, emitvars
<1>4. ~(\/ ConnectInsert(u) \/ ConnectStats(u) \/ InvalidateLock(u) \/ InvalidateSkip(u)
        \/ CacheClear(u) \/ DisconnectRetain(u) \/ DisconnectClear(u)
        \/ LowerFlag(u) \/ DisconnectAllClear(u) \/ DisconnectAllStats(u)
        \/ DisconnectGroupRetain(u) \/ DisconnectGroupStats(u))
  BY <1>2 DEF ConnectInsert, ConnectStats, InvalidateLock, InvalidateSkip, CacheClear,
       DisconnectRetain, DisconnectClear, LowerFlag, DisconnectAllClear, DisconnectAllStats,
       DisconnectGroupRetain, DisconnectGroupStats, emitvars
<1>5. ~(\/ SkipSlot(u) \/ CallbackOk(u) \/ CallbackPanic(u) \/ LoopDone(u)
        \/ CleanupOnceSlots(u) \/ CleanupRetain(u) \/ CleanupStats(u) \/ EmitFinish(u))
  BY DEF SkipSlot, CallbackOk, CallbackPanic, LoopDone, CleanupOnceSlots, CleanupRetain,
         CleanupStats, EmitFinish, EGoto
<1>6. ~(\/ EmitRead(u) \/ CacheRead(u) \/ CacheHeld(u) \/ BuildSnapshot(u)
        \/ StoreLock(u) \/ StoreSkip(u) \/ Store(u))
  BY DEF EmitRead, CacheRead, CacheHeld, BuildSnapshot, StoreLock, StoreSkip, Store, EGoto
<1>7. InvokeSlot(u)
  BY <1>1, <1>3, <1>4, <1>5, <1>6 DEF Progress
<1> QED BY <1>7 DEF InvokeSlot, EGoto

\* No emit calls a slot that was disconnected before the emit began, however
\* stale the snapshot it works from.
THEOREM SignalDeadNeverRuns == Spec => DeadNeverRuns
<1> DEFINE Safe == \A t \in Threads : epc[t] = "loop" /\ epc'[t] = "callback" =>
                     Head(snapshot[t]) \notin began[t].dead
<1>1. Inv /\ [Next]_vars => [Safe]_vars
  <2> SUFFICES ASSUME Inv, [Next]_vars, NEW t \in Threads,
                      epc[t] = "loop", epc'[t] = "callback"
               PROVE  Head(snapshot[t]) \notin began[t].dead
    OBVIOUS
  <2>1. InvokeSlot(t)
    BY OnlyInvokeCalls
  <2>2. connected[Head(snapshot[t])]
    BY <2>1 DEF InvokeSlot, MayInvoke
  <2> QED BY <2>2 DEF Inv, DeadStaysDead
<1> QED BY <1>1, SignalInvariant, PTL DEF Spec, DeadNeverRuns

-----------------------------------------------------------------------------
(* Vectors.  Ids and the constants' assumptions are cited from here on.      *)
HIDE SignalAssumption DEF Ids, NoId

\* A set of naturals with an element has a least one.
LEMMA LeastNat ==
  ASSUME NEW T \in SUBSET Nat, T # {}
  PROVE  \E n \in T : \A m \in T : n <= m
<1>1. PICK n \in T : \A m \in T : ~ <<m, n>> \in OpToRel(<, Nat)
  BY NatLessThanWellFounded, WFMin
<1>2. \A m \in T : ~ (m < n)
  BY <1>1 DEF OpToRel
<1> QED
  BY <1>2

\* r is what one pass over the first m elements of s keeps of them: those not
\* in gone, in their order.
Keeps(r, s, m, gone) ==
  /\ \A i \in 1 .. Len(r) : \E a \in 1 .. m : r[i] = s[a] /\ s[a] \notin gone
  /\ \A a \in 1 .. m : s[a] \notin gone => \E i \in 1 .. Len(r) : r[i] = s[a]
  /\ \A i, j \in 1 .. Len(r) : i < j => \E a, b \in 1 .. m : a < b /\ r[i] = s[a] /\ r[j] = s[b]

\* One more element.
LEMMA KeepsOne ==
  ASSUME NEW S, NEW s \in Seq(S), NEW m \in 1 .. Len(s), NEW gone,
         NEW q \in Seq(S), Keeps(q, s, m - 1, gone),
         NEW r, r = IF s[m] \in gone THEN q ELSE Append(q, s[m])
  PROVE  r \in Seq(S) /\ Keeps(r, s, m, gone)
<1>1. m \in Nat /\ m > 0 /\ Len(s) \in Nat /\ s[m] \in S /\ Len(q) \in Nat
  BY LenProperties, ElementOfSeq
<1>2. CASE s[m] \in gone
  <2>1. /\ 1 .. m - 1 \subseteq 1 .. m /\ r = q
        /\ \A a \in 1 .. m : s[a] \notin gone => a \in 1 .. m - 1
    BY <1>1, <1>2
  <2>2. \A i \in 1 .. Len(r) : \E a \in 1 .. m : r[i] = s[a] /\ s[a] \notin gone
    BY <2>1 DEF Keeps
  <2>3. \A a \in 1 .. m : s[a] \notin gone => \E i \in 1 .. Len(r) : r[i] = s[a]
    BY <2>1 DEF Keeps
  <2>4. \A i, j \in 1 .. Len(r) :
          i < j => \E a, b \in 1 .. m : a < b /\ r[i] = s[a] /\ r[j] = s[b]
    <3> SUFFICES ASSUME NEW i \in 1 .. Len(r), NEW j \in 1 .. Len(r), i < j
                 PROVE  \E a, b \in 1 .. m : a < b /\ r[i] = s[a] /\ r[j] = s[b]
      OBVIOUS
    <3>1. PICK a, b \in 1 .. m - 1 : a < b /\ q[i] = s[a] /\ q[j] = s[b]
      BY <2>1 DEF Keeps
    <3>2. a \in 1 .. m /\ b \in 1 .. m
      BY <2>1
    <3> QED
      BY <2>1, <3>1, <3>2
  <2> QED
    BY <2>1, <2>2, <2>3, <2>4 DEF Keeps
<1>3. CASE s[m] \notin gone
  <2>1. /\ r \in Seq(S) /\ Len(r) = Len(q) + 1 /\ r[Len(q) + 1] = s[m]
        /\ \A i \in 1 .. Len(q) : r[i] = q[i]
    BY <1>1, <1>3, AppendProperties
  <2>2. ASSUME NEW i \in 1 .. Len(r)
        PROVE  \E a \in 1 .. m : r[i] = s[a] /\ s[a] \notin gone
    <3>1. CASE i = Len(q) + 1
      BY <3>1, <2>1, <1>1, <1>3
    <3>2. CASE i \in 1 .. Len(q)
      BY <3>2, <2>1, <1>1 DEF Keeps
    <3> QED
      BY <3>1, <3>2, <2>1, <1>1
  <2>3. ASSUME NEW a \in 1 .. m, s[a] \notin gone
        PROVE  \E i \in 1 .. Len(r) : r[i] = s[a]
    <3>1. CASE a = m
      BY <3>1, <2>1, <1>1
    <3>2. CASE a \in 1 .. m - 1
      <4>1. PICK i \in 1 .. Len(q) : q[i] = s[a]
        BY <3>2, <2>3 DEF Keeps
      <4> QED
        BY <4>1, <2>1, <1>1
    <3> QED
      BY <3>1, <3>2, <1>1
  <2>4. ASSUME NEW i \in 1 .. Len(r), NEW j \in 1 .. Len(r), i < j
        PROVE  \E a, b \in 1 .. m : a < b /\ r[i] = s[a] /\ r[j] = s[b]
    <3>1. i \in 1 .. Len(q) /\ r[i] = q[i]
      BY <2>1, <2>4, <1>1
    <3>2. CASE j = Len(q) + 1
      <4>1. PICK a \in 1 .. m - 1 : q[i] = s[a]
        BY <3>1 DEF Keeps
      <4>2. a \in 1 .. m /\ m \in 1 .. m /\ a < m
        BY <1>1
      <4> QED
        BY <4>1, <4>2, <3>1, <3>2, <2>1
    <3>3. CASE j \in 1 .. Len(q)
      <4>1. PICK a, b \in 1 .. m - 1 : a < b /\ q[i] = s[a] /\ q[j] = s[b]
        BY <3>1, <3>3, <2>4 DEF Keeps
      <4>2. a \in 1 .. m /\ b \in 1 .. m
        BY <1>1
      <4> QED
        BY <4>1, <4>2, <3>1, <3>3, <2>1
    <3> QED
      BY <3>2, <3>3, <2>1, <1>1
  <2> QED
    BY <2>1, <2>2, <2>3, <2>4 DEF Keeps
<1> QED
  BY <1>2, <1>3

\* Vec::retain
LEMMA RetainFacts ==
  ASSUME NEW S, NEW s \in Seq(S), NEW gone, NEW r, r = Retain(s, gone)
  PROVE  r \in Seq(S) /\ Keeps(r, s, Len(s), gone)
<1> DEFINE Step(f) == [n \in 0 .. Len(s) |->
                         IF n = 0 THEN <<>>
                         ELSE IF s[n] \in gone THEN f[n - 1] ELSE Append(f[n - 1], s[n])]
           kept == CHOOSE f : f = Step(f)
           Solves(f, m) ==
             /\ f \in [0 .. m -> Seq(S)] /\ f[0] = <<>>
             /\ \A n \in 1 .. m : f[n] = IF s[n] \in gone THEN f[n - 1] ELSE Append(f[n - 1], s[n])
<1>1. r = kept[Len(s)]
  BY DEF Retain
<1>2. Len(s) \in Nat /\ <<>> \in Seq(S)
  BY LenProperties, EmptySeq
<1>3. \A m \in 0 .. Len(s) : \E f : Solves(f, m)
  <2> DEFINE wrong == {m \in 0 .. Len(s) : ~ \E f : Solves(f, m)}
  <2> SUFFICES ASSUME wrong # {}
               PROVE  FALSE
    OBVIOUS
  <2>1. wrong \in SUBSET Nat
    BY <1>2
  <2>2. PICK m \in wrong : \A k \in wrong : m <= k
    BY <2>1, LeastNat
  <2>3. m \in Nat /\ m <= Len(s) /\ ~ \E f : Solves(f, m)
    BY <1>2, <2>2
  <2>4. CASE m = 0
    <3> DEFINE g == [n \in 0 .. 0 |-> <<>>]
    <3>1. Solves(g, 0)
      BY <1>2
    <3> QED
      BY <2>3, <2>4, <3>1
  <2>5. CASE m > 0
    <3>1. m - 1 \in 0 .. Len(s) /\ ~ (m <= m - 1)
      BY <1>2, <2>3, <2>5
    <3>2. m - 1 \notin wrong
      BY <2>2, <3>1
    <3>3. PICK f : Solves(f, m - 1)
      BY <3>1, <3>2
    <3>4. f[m - 1] \in Seq(S) /\ s[m] \in S
      BY <2>3, <2>5, <3>3, <1>2, ElementOfSeq
    <3>5. PICK last : last = IF s[m] \in gone THEN f[m - 1] ELSE Append(f[m - 1], s[m])
      OBVIOUS
    <3>6. last \in Seq(S)
      BY <3>4, <3>5, AppendProperties
    <3> DEFINE g == [n \in 0 .. m |-> IF n = m THEN last ELSE f[n]]
    <3>7. g \in [0 .. m -> Seq(S)]
      <4> SUFFICES ASSUME NEW n \in 0 .. m, n # m
                   PROVE  f[n] \in Seq(S)
        BY <3>6
      <4>1. n \in 0 .. m - 1
        BY <2>3
      <4> QED
        BY <4>1, <3>3
    <3>8. g[0] = <<>>
      BY <2>3, <2>5, <3>3
    <3>9. ASSUME NEW n \in 1 .. m
          PROVE  g[n] = IF s[n] \in gone THEN g[n - 1] ELSE Append(g[n - 1], s[n])
      <4>1. n - 1 \in 0 .. m /\ n - 1 # m /\ n \in 0 .. m
        BY <2>3
      <4>2. g[n - 1] = f[n - 1]
        BY <4>1
      <4>3. CASE n = m
        BY <4>1, <4>2, <4>3, <3>5
      <4>4. CASE n # m
        <5>1. n \in 1 .. m - 1
          BY <2>3, <4>4
        <5> QED
          BY <5>1, <4>1, <4>2, <4>4, <3>3
      <4> QED
        BY <4>3, <4>4
    <3>10. Solves(g, m)
      BY <3>7, <3>8, <3>9
    <3> QED
      BY <2>3, <3>10
  <2> QED
    BY <2>3, <2>4, <2>5
<1>4. PICK f : Solves(f, Len(s))
  <2>1. Len(s) \in 0 .. Len(s)
    BY <1>2
  <2> HIDE DEF Solves
  <2> QED
    BY <1>3, <2>1
<1>5. f = Step(f)
  <2>1. f \in [0 .. Len(s) -> Seq(S)] /\ f[0] = <<>>
        /\ \A n \in 1 .. Len(s) : f[n] = IF s[n] \in gone THEN f[n - 1] ELSE Append(f[n - 1], s[n])
    BY <1>4
  <2>2. \A n \in 0 .. Len(s) : n = 0 \/ n \in 1 .. Len(s)
    BY <1>2
  <2>3. \A n \in 0 .. Len(s) : f[n] = Step(f)[n]
    BY <2>1, <2>2
  <2> QED
    BY <2>1, <2>3
<1>6. kept = Step(kept)
  BY <1>5
<1> HIDE DEF kept
<1>7. kept[0] = <<>>
      /\ \A n \in 1 .. Len(s) : kept[n] = IF s[n] \in gone THEN kept[n - 1] ELSE Append(kept[n - 1], s[n])
  <2>1. 0 \in 0 .. Len(s) /\ \A n \in 1 .. Len(s) : n \in 0 .. Len(s) /\ n # 0
    BY <1>2
  <2> QED
    BY <1>6, <2>1
<1> HIDE DEF Step, Solves
<1>8. \A m \in 0 .. Len(s) : kept[m] \in Seq(S) /\ Keeps(kept[m], s, m, gone)
  <2> DEFINE wrong == {m \in 0 .. Len(s) : ~ (kept[m] \in Seq(S) /\ Keeps(kept[m], s, m, gone))}
  <2> SUFFICES ASSUME wrong # {}
               PROVE  FALSE
    OBVIOUS
  <2>1. wrong \in SUBSET Nat
    BY <1>2
  <2>2. PICK m \in wrong : \A k \in wrong : m <= k
    BY <2>1, LeastNat
  <2>3. m \in Nat /\ m <= Len(s) /\ ~ (kept[m] \in Seq(S) /\ Keeps(kept[m], s, m, gone))
    BY <1>2, <2>2
  <2>4. CASE m = 0
    <3>1. kept[m] = <<>> /\ kept[m] \in Seq(S) /\ Len(<<>>) = 0
      BY <1>2, <1>7, <2>4
    <3>2. Keeps(<<>>, s, 0, gone)
      BY <3>1 DEF Keeps
    <3> QED
      BY <2>3, <2>4, <3>1, <3>2
  <2>5. CASE m > 0
    <3>1. m - 1 \in 0 .. Len(s) /\ m \in 1 .. Len(s) /\ ~ (m <= m - 1)
      BY <1>2, <2>3, <2>5
    <3>2. kept[m - 1] \in Seq(S) /\ Keeps(kept[m - 1], s, m - 1, gone)
      BY <2>2, <3>1
    <3>3. kept[m] = IF s[m] \in gone THEN kept[m - 1] ELSE Append(kept[m - 1], s[m])
      BY <3>1, <1>7
    <3>4. kept[m] \in Seq(S) /\ Keeps(kept[m], s, m, gone)
      BY <3>1, <3>2, <3>3, KeepsOne
    <3> QED
      BY <2>3, <3>4
  <2> QED
    BY <2>3, <2>4, <2>5
<1> QED
  BY <1>1, <1>2, <1>8

\* r is s with x put in after the first n.
Spliced(r, s, n, x) ==
  /\ Len(r) = Len(s) + 1
  /\ \A k \in 1 .. Len(s) + 1 :
       r[k] = IF k <= n THEN s[k] ELSE IF k = n + 1 THEN x ELSE s[k - 1]

\* Vec::insert
LEMMA InsertFacts ==
  ASSUME NEW S, NEW s \in Seq(S), NEW n \in 0 .. Len(s), NEW x \in S,
         NEW r, r = InsertAt(s, n + 1, x)
  PROVE  r \in Seq(S) /\ Spliced(r, s, n, x)
<1>1. PICK len \in Nat : len = Len(s)
  BY LenProperties
<1>2. n \in Nat /\ n <= len /\ \A k \in 1 .. len : s[k] \in S
  BY <1>1, ElementOfSeq
<1>3. PICK a, b, c : a = SubSeq(s, 1, n) /\ b = <<x>> /\ c = SubSeq(s, n + 1, len)
  OBVIOUS
<1>4. a \in Seq(S) /\ Len(a) = n /\ \A k \in 1 .. n : a[k] = s[k]
  <2>1. \A k \in 1 .. n : s[k] \in S
    BY <1>2
  <2>2. 1 \in Int /\ n \in Int
    BY <1>2
  <2>3. SubSeq(s, 1, n) \in Seq(S)
        /\ Len(SubSeq(s, 1, n)) = (IF 1 <= n THEN n - 1 + 1 ELSE 0)
        /\ \A i \in 1 .. n - 1 + 1 : SubSeq(s, 1, n)[i] = s[1 + i - 1]
    BY <2>1, <2>2, SubSeqProperties
  <2> QED
    BY <2>3, <1>2, <1>3
<1>5. b \in Seq(S) /\ Len(b) = 1 /\ b[1] = x
  BY <1>3
<1>6. c \in Seq(S) /\ Len(c) = len - n /\ \A k \in 1 .. len - n : c[k] = s[n + k]
  <2>1. \A k \in n + 1 .. len : s[k] \in S
    BY <1>2
  <2>2. n + 1 \in Int /\ len \in Int
    BY <1>2
  <2>3. SubSeq(s, n + 1, len) \in Seq(S)
        /\ Len(SubSeq(s, n + 1, len)) = (IF n + 1 <= len THEN len - (n + 1) + 1 ELSE 0)
        /\ \A i \in 1 .. len - (n + 1) + 1 : SubSeq(s, n + 1, len)[i] = s[(n + 1) + i - 1]
    BY <2>1, <2>2, SubSeqProperties
  <2> QED
    BY <2>3, <1>2, <1>3
<1>7. r = (a \o b) \o c
  <2>1. n + 1 - 1 = n
    BY <1>2
  <2>2. InsertAt(s, n + 1, x) = (SubSeq(s, 1, (n + 1) - 1) \o <<x>>) \o SubSeq(s, n + 1, Len(s))
    BY DEF InsertAt
  <2>3. SubSeq(s, 1, (n + 1) - 1) = a /\ <<x>> = b /\ SubSeq(s, n + 1, Len(s)) = c
    BY <1>1, <1>3, <2>1
  <2> QED
    BY <2>2, <2>3
<1>8. PICK ab : ab = a \o b
  OBVIOUS
<1>9. ab \in Seq(S) /\ Len(ab) = n + 1
      /\ \A k \in 1 .. n + 1 : ab[k] = IF k <= n THEN a[k] ELSE b[k - n]
  <2>1. Len(a) + Len(b) = n + 1 /\ Len(a) = n /\ a \in Seq(S) /\ b \in Seq(S)
    BY <1>2, <1>4, <1>5
  <2>2. /\ a \o b \in Seq(S) /\ Len(a \o b) = Len(a) + Len(b)
        /\ \A k \in 1 .. Len(a) + Len(b) :
             (a \o b)[k] = IF k <= Len(a) THEN a[k] ELSE b[k - Len(a)]
    BY <2>1, ConcatProperties, Zenon
  <2> QED
    BY <2>1, <2>2, <1>8
<1>10. ab \o c \in Seq(S) /\ Len(ab \o c) = len + 1
       /\ \A k \in 1 .. len + 1 : (ab \o c)[k] = IF k <= n + 1 THEN ab[k] ELSE c[k - (n + 1)]
  <2>1. Len(ab) + Len(c) = len + 1
    BY <1>2, <1>6, <1>9
  <2> QED
    BY <2>1, <1>6, <1>9, ConcatProperties
<1>11. ASSUME NEW k \in 1 .. len + 1
       PROVE  r[k] = IF k <= n THEN s[k] ELSE IF k = n + 1 THEN x ELSE s[k - 1]
  <2>1. CASE k <= n
    <3>1. k \in 1 .. n /\ k \in 1 .. n + 1 /\ k <= n + 1
      BY <2>1, <1>2
    <3>2. r[k] = ab[k]
      BY <3>1, <1>7, <1>8, <1>10
    <3>3. ab[k] = a[k] /\ a[k] = s[k]
      BY <3>1, <2>1, <1>4, <1>9
    <3> QED
      BY <3>2, <3>3, <2>1
  <2>2. CASE k = n + 1
    <3>1. k \in 1 .. n + 1 /\ k <= n + 1 /\ ~ (k <= n) /\ k - n = 1
      BY <2>2, <1>2
    <3>2. r[k] = ab[k]
      BY <3>1, <1>7, <1>8, <1>10
    <3>3. ab[k] = b[k - n]
      BY <3>1, <1>9
    <3> QED
      BY <3>1, <3>2, <3>3, <2>2, <1>5
  <2>3. CASE k > n + 1
    <3>1. k - (n + 1) \in 1 .. len - n /\ ~ (k <= n + 1) /\ n + (k - (n + 1)) = k - 1
      BY <2>3, <1>2
    <3>2. r[k] = c[k - (n + 1)]
      BY <3>1, <1>7, <1>8, <1>10
    <3>3. c[k - (n + 1)] = s[n + (k - (n + 1))]
      BY <3>1, <1>6
    <3> QED
      BY <3>1, <3>2, <3>3, <2>3, <1>2
  <2> QED
    BY <2>1, <2>2, <2>3, <1>2
<1> QED
  BY <1>1, <1>7, <1>8, <1>10, <1>11 DEF Spliced

\* s lists ids of P by descending priority in a, no id twice.
Ordered(a, s) ==
  \A i, j \in 1 .. Len(s) : i < j => a[s[i]].priority >= a[s[j]].priority /\ s[i] # s[j]
Listed(P, a, s) == s \in Seq(Ids) /\ (\A i \in 1 .. Len(s) : s[i] \in P) /\ Ordered(a, s)

\* What s lists may run after what r lists: no higher priority, nothing again.
Follows(a, r, s) ==
  \A i \in 1 .. Len(r), j \in 1 .. Len(s) :
    a[r[i]].priority >= a[s[j]].priority /\ r[i] # s[j]

\* A map whose priorities are numbers.
Ranked(P, a) == \A i \in P : a[i].priority \in Nat

\* The elements of a sequence are what it has at its places.
LEMMA InToSet ==
  ASSUME NEW S, NEW s \in Seq(S), NEW x
  PROVE  x \in ToSet(s) <=> \E i \in 1 .. Len(s) : x = s[i]
  BY LenProperties DEF ToSet

\* The empty list is in order, and follows and is followed by any other.
LEMMA EmptyListed ==
  ASSUME NEW P, NEW a
  PROVE  /\ Listed(P, a, <<>>) /\ ToSet(<<>>) = {}
         /\ \A r : Follows(a, r, <<>>) /\ Follows(a, <<>>, r)
<1>1. <<>> \in Seq(Ids) /\ Len(<<>>) = 0 /\ 1 .. 0 = {}
  BY EmptySeq
<1>2. ToSet(<<>>) = {}
  BY <1>1, InToSet
<1> QED
  BY <1>1, <1>2 DEF Listed, Ordered, Follows

\* More ids, the same priorities on the old ones.
LEMMA ListedGrows ==
  ASSUME NEW P, NEW Q, P \subseteq Q, NEW a, NEW b, \A i \in P : b[i] = a[i],
         NEW s, Listed(P, a, s)
  PROVE  Listed(Q, b, s)
  BY DEF Listed, Ordered

\* The same for what an emit visited and has left.
LEMMA FollowsGrows ==
  ASSUME NEW P, NEW a, NEW b, \A i \in P : b[i] = a[i],
         NEW r, Listed(P, a, r), NEW s, Listed(P, a, s), Follows(a, r, s)
  PROVE  Follows(b, r, s)
  BY DEF Listed, Follows

\* Retain keeps a list in order, and takes out what it is told to.
LEMMA ListedRetain ==
  ASSUME NEW P, NEW a, NEW s, Listed(P, a, s), NEW gone, NEW r, r = Retain(s, gone)
  PROVE  /\ Listed(P, a, r)
         /\ \A x : x \in ToSet(r) <=> x \in ToSet(s) /\ x \notin gone
<1>1. r \in Seq(Ids) /\ Keeps(r, s, Len(s), gone)
  BY RetainFacts DEF Listed
<1>2. \A i \in 1 .. Len(r) : r[i] \in P
  BY <1>1 DEF Keeps, Listed
<1>3. Ordered(a, r)
  <2> SUFFICES ASSUME NEW i \in 1 .. Len(r), NEW j \in 1 .. Len(r), i < j
               PROVE  a[r[i]].priority >= a[r[j]].priority /\ r[i] # r[j]
    BY DEF Ordered
  <2>1. PICK k, l \in 1 .. Len(s) : k < l /\ r[i] = s[k] /\ r[j] = s[l]
    BY <1>1 DEF Keeps
  <2> QED
    BY <2>1 DEF Listed, Ordered
<1>4. ASSUME NEW x
      PROVE  x \in ToSet(r) <=> x \in ToSet(s) /\ x \notin gone
  <2>1. x \in ToSet(r) <=> \E i \in 1 .. Len(r) : x = r[i]
    BY <1>1, InToSet
  <2>2. x \in ToSet(s) <=> \E i \in 1 .. Len(s) : x = s[i]
    BY InToSet DEF Listed
  <2>3. ASSUME NEW i \in 1 .. Len(r)
        PROVE  \E k \in 1 .. Len(s) : r[i] = s[k] /\ s[k] \notin gone
    BY <1>1 DEF Keeps
  <2>4. ASSUME NEW k \in 1 .. Len(s), s[k] \notin gone
        PROVE  \E i \in 1 .. Len(r) : r[i] = s[k]
    BY <1>1, <2>4 DEF Keeps
  <2> QED
    BY <2>1, <2>2, <2>3, <2>4
<1> QED
  BY <1>1, <1>2, <1>3, <1>4 DEF Listed

\* The first of a list, and the rest.
LEMMA ListedTail ==
  ASSUME NEW P, NEW a, NEW s, Listed(P, a, s), s # <<>>
  PROVE  /\ Listed(P, a, Tail(s)) /\ Head(s) \in P \cap Ids
         /\ \A r : Follows(a, r, s) => Follows(a, r, Tail(s))
         /\ \A x : x \in ToSet(s) <=> x = Head(s) \/ x \in ToSet(Tail(s))
<1>1. s \in Seq(Ids) /\ Len(s) \in Nat /\ Len(s) > 0
  BY LenProperties, EmptySeq DEF Listed
<1>2. PICK q : q = Tail(s)
  OBVIOUS
<1>3. /\ q \in Seq(Ids) /\ Len(q) = Len(s) - 1 /\ Head(s) = s[1]
      /\ \A i \in 1 .. Len(q) : q[i] = s[i + 1]
  BY <1>1, <1>2, HeadTailProperties
<1>4. 1 \in 1 .. Len(s) /\ \A i \in 1 .. Len(q) : i + 1 \in 1 .. Len(s)
  BY <1>1, <1>3
<1>5. Listed(P, a, q)
  <2>1. ASSUME NEW i \in 1 .. Len(q), NEW j \in 1 .. Len(q), i < j
        PROVE  a[q[i]].priority >= a[q[j]].priority /\ q[i] # q[j]
    <3>1. i + 1 < j + 1 /\ i + 1 \in 1 .. Len(s) /\ j + 1 \in 1 .. Len(s)
      BY <2>1, <1>1, <1>3, <1>4
    <3> QED
      BY SMTT(30), <3>1, <1>3 DEF Listed, Ordered
  <2> QED
    BY <2>1, <1>3, <1>4 DEF Listed, Ordered
<1>6. Head(s) \in P \cap Ids
  BY <1>1, <1>3, <1>4, ElementOfSeq DEF Listed
<1>7. ASSUME NEW r, Follows(a, r, s)
      PROVE  Follows(a, r, q)
  BY <1>7, <1>3, <1>4 DEF Follows
<1>8. ASSUME NEW x
      PROVE  x \in ToSet(s) <=> x = Head(s) \/ x \in ToSet(q)
  <2>1. x \in ToSet(q) <=> \E i \in 1 .. Len(q) : x = q[i]
    BY <1>3, InToSet
  <2>2. x \in ToSet(s) <=> \E i \in 1 .. Len(s) : x = s[i]
    BY <1>1, InToSet
  <2>3. \A i \in 1 .. Len(s) : i = 1 \/ (i - 1 \in 1 .. Len(q) /\ q[i - 1] = s[i])
    BY <1>1, <1>3
  <2> QED
    BY <2>1, <2>2, <2>3, <1>3, <1>4
<1> QED
  BY <1>2, <1>5, <1>6, <1>7, <1>8

\* The loop starts the callback of the first slot.
LEMMA ListedVisit ==
  ASSUME NEW P, NEW a, NEW s, Listed(P, a, s), s # <<>>,
         NEW r, Listed(P, a, r), Follows(a, r, s),
         NEW v, v = Append(r, Head(s))
  PROVE  /\ Listed(P, a, v) /\ Follows(a, v, Tail(s))
         /\ Head(s) \notin ToSet(r)
         /\ \A x : x \in ToSet(v) <=> x = Head(s) \/ x \in ToSet(r)
<1>1. s \in Seq(Ids) /\ Len(s) \in Nat /\ Len(s) > 0 /\ r \in Seq(Ids) /\ Len(r) \in Nat
  BY LenProperties, EmptySeq DEF Listed
<1>2. PICK q, h : q = Tail(s) /\ h = Head(s)
  OBVIOUS
<1>3. /\ q \in Seq(Ids) /\ Len(q) = Len(s) - 1 /\ h = s[1] /\ h \in Ids /\ h \in P
      /\ \A i \in 1 .. Len(q) : q[i] = s[i + 1]
  <2>1. /\ q \in Seq(Ids) /\ Len(q) = Len(s) - 1 /\ h = s[1]
        /\ \A i \in 1 .. Len(q) : q[i] = s[i + 1]
    BY <1>1, <1>2, HeadTailProperties
  <2>2. h \in P \cap Ids
    BY <1>2, ListedTail
  <2> QED
    BY <2>1, <2>2
<1>4. 1 \in 1 .. Len(s) /\ \A i \in 1 .. Len(q) : i + 1 \in 1 .. Len(s) /\ 1 < i + 1
  BY <1>1, <1>3
<1>5. /\ v \in Seq(Ids) /\ Len(v) = Len(r) + 1 /\ v[Len(r) + 1] = h
      /\ \A i \in 1 .. Len(r) : v[i] = r[i]
  BY <1>1, <1>2, <1>3, AppendProperties
<1>6. \A i \in 1 .. Len(v) : i = Len(r) + 1 \/ i \in 1 .. Len(r)
  BY <1>1, <1>5
<1>7. \A i \in 1 .. Len(r) : a[r[i]].priority >= a[h].priority /\ r[i] # h
  BY <1>3, <1>4 DEF Follows
<1>8. Listed(P, a, v)
  <2>1. ASSUME NEW i \in 1 .. Len(v), NEW j \in 1 .. Len(v), i < j
        PROVE  a[v[i]].priority >= a[v[j]].priority /\ v[i] # v[j]
    <3>1. i \in 1 .. Len(r)
      BY <2>1, <1>1, <1>5
    <3>2. CASE j = Len(r) + 1
      BY <3>1, <3>2, <1>5, <1>7
    <3>3. CASE j \in 1 .. Len(r)
      BY <3>1, <3>3, <2>1, <1>5 DEF Listed, Ordered
    <3> QED
      BY <3>2, <3>3, <1>6
  <2>2. \A i \in 1 .. Len(v) : v[i] \in P
    BY <1>3, <1>5, <1>6 DEF Listed
  <2> QED
    BY <2>1, <2>2, <1>5 DEF Listed, Ordered
<1>9. Follows(a, v, q)
  <2> SUFFICES ASSUME NEW i \in 1 .. Len(v), NEW j \in 1 .. Len(q)
               PROVE  a[v[i]].priority >= a[q[j]].priority /\ v[i] # q[j]
    BY DEF Follows
  <2>1. CASE i = Len(r) + 1
    BY SMTT(30), <2>1, <1>3, <1>4, <1>5 DEF Listed, Ordered
  <2>2. CASE i \in 1 .. Len(r)
    BY <2>2, <1>3, <1>4, <1>5 DEF Follows
  <2> QED
    BY <2>1, <2>2, <1>6
<1>10. h \notin ToSet(r)
  <2>1. h \in ToSet(r) <=> \E i \in 1 .. Len(r) : h = r[i]
    BY <1>1, InToSet
  <2> QED
    BY <2>1, <1>7
<1>11. ASSUME NEW x
       PROVE  x \in ToSet(v) <=> x = h \/ x \in ToSet(r)
  <2>1. x \in ToSet(v) <=> \E i \in 1 .. Len(v) : x = v[i]
    BY <1>5, InToSet
  <2>2. x \in ToSet(r) <=> \E i \in 1 .. Len(r) : x = r[i]
    BY <1>1, InToSet
  <2>3. Len(r) + 1 \in 1 .. Len(v) /\ \A i \in 1 .. Len(r) : i \in 1 .. Len(v)
    BY <1>1, <1>5
  <2> QED
    BY <2>1, <2>2, <2>3, <1>5, <1>6
<1> QED
  BY <1>2, <1>8, <1>9, <1>10, <1>11

\* The first n of s are those of priority p or more.
Divides(n, a, s, p) ==
  /\ n \in 0 .. Len(s)
  /\ \A i \in 1 .. Len(s) : i <= n <=> a[s[i]].priority >= p

\* partition_point on a list in order: the slots of at least this priority come
\* first, and the answer is where they end.
LEMMA PartitionFacts ==
  ASSUME NEW P, NEW a, Ranked(P, a), NEW s, Listed(P, a, s), NEW p \in Nat,
         NEW n, n = Cardinality({i \in 1 .. Len(s) : a[s[i]].priority >= p})
  PROVE  Divides(n, a, s, p)
<1>1. Len(s) \in Nat /\ \A i \in 1 .. Len(s) : a[s[i]].priority \in Nat
  BY LenProperties DEF Listed, Ranked
<1> DEFINE high == {i \in 1 .. Len(s) : a[s[i]].priority >= p}
           low == {i \in 1 .. Len(s) : ~ (a[s[i]].priority >= p)}
<1>2. \A i, j \in 1 .. Len(s) : i < j /\ j \in high => i \in high
  BY <1>1 DEF Listed, Ordered
<1>3. \E m \in 0 .. Len(s) : high = 1 .. m
  <2>1. CASE low = {}
    <3>1. high = 1 .. Len(s)
      BY <2>1
    <3> QED
      BY <3>1, <1>1
  <2>2. CASE low # {}
    <3>1. low \in SUBSET Nat
      BY <1>1
    <3>2. PICK l \in low : \A k \in low : l <= k
      BY <2>2, <3>1, LeastNat
    <3>3. l \in 1 .. Len(s) /\ l \notin high /\ l - 1 \in 0 .. Len(s)
      BY <3>2, <1>1
    <3>4. \A i \in 1 .. Len(s) : i < l => i \in high
      BY <3>2, <3>3, <1>1
    <3>5. \A i \in high : i \in 1 .. Len(s) /\ ~ (l < i) /\ i # l
      BY <3>3, <1>2
    <3>6. high = 1 .. l - 1
      <4> HIDE DEF high
      <4>1. \A i \in high : i \in 1 .. l - 1
        BY <3>3, <3>5, <1>1
      <4>2. \A i \in 1 .. l - 1 : i \in 1 .. Len(s) /\ i < l
        BY <3>3, <1>1
      <4> QED
        BY <3>4, <4>1, <4>2
    <3> QED
      BY <3>3, <3>6
  <2> QED
    BY <2>1, <2>2
<1>4. PICK m \in 0 .. Len(s) : high = 1 .. m
  BY <1>3
<1>5. n = m
  <2>1. m \in Nat /\ 1 \in Int /\ m \in Int
    BY <1>1
  <2>2. Cardinality(1 .. m) = IF 1 > m THEN 0 ELSE m - 1 + 1
    BY <2>1, FS_Interval
  <2>3. n = Cardinality(high)
    OBVIOUS
  <2> HIDE DEF high
  <2>4. n = Cardinality(1 .. m)
    BY <1>4, <2>3
  <2> QED
    BY <2>1, <2>2, <2>4
<1>6. ASSUME NEW i \in 1 .. Len(s)
      PROVE  i <= n <=> a[s[i]].priority >= p
  <2>1. i \in high <=> i \in 1 .. m
    BY <1>4
  <2> QED
    BY <2>1, <1>1, <1>5
<1> QED
  BY <1>5, <1>6 DEF Divides

\* x between the slots of at least its priority and the others.
LEMMA ListedSplice ==
  ASSUME NEW P, NEW a, Ranked(P, a), NEW s, Listed(P, a, s),
         NEW x \in P \cap Ids, x \notin ToSet(s),
         NEW n, Divides(n, a, s, a[x].priority),
         NEW r \in Seq(Ids), Spliced(r, s, n, x)
  PROVE  /\ Listed(P, a, r)
         /\ \A y : y \in ToSet(r) <=> y = x \/ y \in ToSet(s)
<1>1. PICK len \in Nat : len = Len(s)
  BY LenProperties DEF Listed
<1>2. s \in Seq(Ids) /\ \A i \in 1 .. len : s[i] \in Ids /\ s[i] \in P /\ s[i] # x
  <2>1. s \in Seq(Ids) /\ x \in ToSet(s) <=> \E i \in 1 .. Len(s) : x = s[i]
    BY InToSet DEF Listed
  <2>2. \A i \in 1 .. len : s[i] # x
    BY <2>1, <1>1
  <2> QED
    BY <2>2, <1>1, ElementOfSeq DEF Listed
<1>3. PICK pr : pr = [i \in 1 .. len |-> a[s[i]].priority]
  OBVIOUS
<1>4. PICK p \in Nat : p = a[x].priority
  BY DEF Ranked
<1>5. \A i \in 1 .. len : pr[i] = a[s[i]].priority /\ pr[i] \in Nat
  BY <1>2, <1>3 DEF Ranked
<1>6. n \in 0 .. len /\ \A i \in 1 .. len : i <= n <=> pr[i] >= p
  BY <1>1, <1>4, <1>5 DEF Divides
<1>7. /\ r \in Seq(Ids) /\ Len(r) = len + 1
      /\ \A k \in 1 .. len + 1 :
           r[k] = IF k <= n THEN s[k] ELSE IF k = n + 1 THEN x ELSE s[k - 1]
  BY <1>1 DEF Spliced
<1>8. \A k \in 1 .. len + 1 :
        \/ k \in 1 .. len /\ k <= n /\ r[k] = s[k]
        \/ k = n + 1 /\ r[k] = x
        \/ k - 1 \in 1 .. len /\ ~ (k - 1 <= n) /\ k > n + 1 /\ r[k] = s[k - 1]
  <2> SUFFICES ASSUME NEW k \in 1 .. len + 1
               PROVE  \/ k \in 1 .. len /\ k <= n /\ r[k] = s[k]
                      \/ k = n + 1 /\ r[k] = x
                      \/ k - 1 \in 1 .. len /\ ~ (k - 1 <= n) /\ k > n + 1 /\ r[k] = s[k - 1]
    OBVIOUS
  <2>1. r[k] = IF k <= n THEN s[k] ELSE IF k = n + 1 THEN x ELSE s[k - 1]
    BY <1>7
  <2> QED
    BY <2>1, <1>6
<1>9. \A i, j \in 1 .. len : i < j => pr[i] >= pr[j] /\ s[i] # s[j]
  BY <1>1, <1>5 DEF Listed, Ordered
<1>10. ASSUME NEW i \in 1 .. len + 1, NEW j \in 1 .. len + 1, i < j
       PROVE  a[r[i]].priority >= a[r[j]].priority /\ r[i] # r[j]
  <2>1. CASE i \in 1 .. len /\ i <= n /\ r[i] = s[i]
    <3>1. CASE j \in 1 .. len /\ j <= n /\ r[j] = s[j]
      BY <2>1, <3>1, <1>10, <1>5, <1>9
    <3>2. CASE j = n + 1 /\ r[j] = x
      BY <2>1, <3>2, <1>2, <1>4, <1>5, <1>6
    <3>3. CASE j - 1 \in 1 .. len /\ ~ (j - 1 <= n) /\ j > n + 1 /\ r[j] = s[j - 1]
      <4>1. i < j - 1
        BY <2>1, <3>3, <1>6
      <4> QED
        BY <2>1, <3>3, <4>1, <1>5, <1>9
    <3> QED
      BY <3>1, <3>2, <3>3, <1>8
  <2>2. CASE i = n + 1 /\ r[i] = x
    <3>1. j > n + 1
      BY <2>2, <1>10
    <3>2. j - 1 \in 1 .. len /\ ~ (j - 1 <= n) /\ r[j] = s[j - 1]
      BY <3>1, <1>6, <1>8
    <3>3. ~ (pr[j - 1] >= p) /\ pr[j - 1] \in Nat
      BY <3>2, <1>5, <1>6
    <3>4. s[j - 1] # x /\ a[s[j - 1]].priority = pr[j - 1]
      BY <3>2, <1>2, <1>5
    <3> QED
      BY <2>2, <3>2, <3>3, <3>4, <1>4
  <2>3. CASE i - 1 \in 1 .. len /\ ~ (i - 1 <= n) /\ i > n + 1 /\ r[i] = s[i - 1]
    <3>1. j > n + 1
      BY <2>3, <1>10, <1>6
    <3>2. j - 1 \in 1 .. len /\ r[j] = s[j - 1] /\ i - 1 < j - 1
      BY <3>1, <1>6, <1>8, <1>10
    <3> QED
      BY <2>3, <3>2, <1>5, <1>9
  <2> QED
    BY <2>1, <2>2, <2>3, <1>8
<1>11. \A k \in 1 .. len + 1 : r[k] \in P
  BY <1>2, <1>8
<1>12. Listed(P, a, r)
  <2>1. r \in Seq(Ids) /\ Len(r) = len + 1
    BY <1>7
  <2>2. Ordered(a, r)
    BY <2>1, <1>10 DEF Ordered
  <2> QED
    BY <2>1, <2>2, <1>11 DEF Listed
<1>13. ASSUME NEW y
       PROVE  y \in ToSet(r) <=> y = x \/ y \in ToSet(s)
  <2>1. y \in ToSet(r) <=> \E i \in 1 .. len + 1 : y = r[i]
    <3>1. r \in Seq(Ids) /\ Len(r) = len + 1
      BY <1>7
    <3>2. y \in ToSet(r) <=> \E i \in 1 .. Len(r) : y = r[i]
      BY <3>1, InToSet
    <3> QED
      BY <3>1, <3>2
  <2>2. y \in ToSet(s) <=> \E i \in 1 .. len : y = s[i]
    BY <1>1, <1>2, InToSet
  <2>3. y \in ToSet(r) => y = x \/ y \in ToSet(s)
    BY <2>1, <2>2, <1>8
  <2>4. x = r[n + 1] /\ n + 1 \in 1 .. len + 1
    BY <1>6, <1>7
  <2>5. ASSUME NEW i \in 1 .. len
        PROVE  \E k \in 1 .. len + 1 : r[k] = s[i]
    <3>1. CASE i <= n
      <4>1. i \in 1 .. len + 1
        OBVIOUS
      <4> QED
        BY <3>1, <4>1, <1>7
    <3>2. CASE ~ (i <= n)
      <4>1. i + 1 \in 1 .. len + 1 /\ ~ (i + 1 <= n) /\ i + 1 # n + 1 /\ (i + 1) - 1 = i
        BY <3>2, <1>6
      <4>2. r[i + 1] = s[(i + 1) - 1]
        BY <4>1, <1>7
      <4> QED
        BY <4>1, <4>2
    <3> QED
      BY <3>1, <3>2
  <2> QED
    BY <2>1, <2>2, <2>3, <2>4, <2>5
<1> QED
  BY <1>12, <1>13

\* The insert of connect_internal keeps the vector in order.
LEMMA ListedInsert ==
  ASSUME NEW P, NEW a, Ranked(P, a), NEW s, Listed(P, a, s),
         NEW x \in P \cap Ids, x \notin ToSet(s)
  PROVE  LET n == Cardinality({i \in DOMAIN s : a[s[i]].priority >= a[x].priority})
             r == InsertAt(s, n + 1, x)
         IN  /\ Listed(P, a, r)
             /\ \A y : y \in ToSet(r) <=> y = x \/ y \in ToSet(s)
<1>1. s \in Seq(Ids) /\ DOMAIN s = 1 .. Len(s) /\ a[x].priority \in Nat /\ x \in Ids
  BY LenProperties DEF Listed, Ranked
<1>2. PICK n : n = Cardinality({i \in 1 .. Len(s) : a[s[i]].priority >= a[x].priority})
  OBVIOUS
<1>3. Divides(n, a, s, a[x].priority)
  BY <1>1, <1>2, PartitionFacts
<1>4. PICK r : r = InsertAt(s, n + 1, x)
  OBVIOUS
<1>5. r \in Seq(Ids) /\ Spliced(r, s, n, x)
  <2>1. n \in 0 .. Len(s)
    BY <1>3 DEF Divides
  <2> QED
    BY <2>1, <1>1, <1>4, InsertFacts
<1>6. /\ Listed(P, a, r)
      /\ \A y : y \in ToSet(r) <=> y = x \/ y \in ToSet(s)
  BY <1>1, <1>3, <1>5, ListedSplice
<1> QED
  BY <1>1, <1>2, <1>4, <1>6

-----------------------------------------------------------------------------
(* What connects, disconnects and emits leave behind                         *)

Used == 1 .. next_id - 1

\* The thread works on a connect whose Connection is not handed out yet.
Pending(u) ==
  pc[u] \in {"connInsert", "connStats", "invalidate", "cacheClear"} /\ target[u] # NoId

\* Connections that have reached the slot vector, still in it or not.
Placed == {i \in Used : \A u \in Threads : pc[u] = "connInsert" => target[u] # i}

DataType ==
  /\ attr \in [Ids -> Requests \cup {NoRequest}]
  /\ policy \in [Threads -> Policies \cup {"Continue"}]
  /\ path \in [Threads -> {"none", "direct", "snapshot", "batch"}]
  /\ snapshot \in [Threads -> Seq(Ids)] /\ ran \in [Threads -> Seq(Ids)]
  /\ once_ids \in [Threads -> SUBSET Ids]

\* The connection a thread works on: a connect has its own, nobody else's, and
\* nobody can have disconnected it before it is in the vector.
Held(u) ==
  /\ pc[u] \in {"idle", "discClear", "allFlags", "allStats", "groupFlags", "groupStats"} => target[u] = NoId
  /\ pc[u] \in {"connInsert", "connStats", "discRetain"} => target[u] # NoId
  /\ target[u] # NoId => target[u] \in Used
  /\ pc[u] = "connInsert" => connected[target[u]]
  /\ pc[u] = "discRetain" => ~connected[target[u]]
  /\ Pending(u) => target[u] \notin handles
TargetsHeld ==
  /\ handles \subseteq Used
  /\ \A u \in Threads : Held(u)
  /\ \A u, w \in Threads : u # w /\ Pending(u) /\ Pending(w) => target[u] # target[w]

\* The vector and the cached snapshot are lists of placed connections.
ListsRight ==
  /\ Listed(Placed, attr, slots)
  /\ snapshot_cache # NoSnapshot => Listed(Placed, attr, snapshot_cache)
  /\ fired \subseteq Placed

\* A once slot that succeeded is disconnected, or noted by the emit that ran it.
FiredSpent == \A i \in fired : ~connected[i] \/ \E t \in Threads : i \in once_ids[t]

Late == {"cleanup", "cleanupFlags", "cleanupStats", "finish"}
Alone == \A t, u \in Threads : t = u

\* One emit: what it visited and has still to visit, and what it owes.
Visiting(u) ==
  /\ epc[u] \in {"loop"} \cup Late => Follows(attr, ran[u], snapshot[u])
  /\ epc[u] \in Late => snapshot[u] = <<>>
  /\ epc[u] = "callback" => /\ snapshot[u] # <<>>
                            /\ Follows(attr, ran[u], Tail(snapshot[u]))
                            /\ Head(snapshot[u]) \in ToSet(ran[u])
  /\ epc[u] \notin {"loop", "callback"} \cup Late =>
       ran[u] = <<>> /\ once_ids[u] = {} /\ path[u] # "direct"
Remembers(u) ==
  /\ Listed(Placed, attr, snapshot[u]) /\ Listed(Placed, attr, ran[u])
  /\ once_ids[u] \subseteq Placed
  /\ began[u].live \subseteq Placed /\ began[u].fired \subseteq Placed
Retires(u) ==
  epc[u] \in {"cleanupStats", "finish"} =>
    \A i \in once_ids[u] : ~connected[i] /\ i \notin ToSet(slots)
Covers(u) ==
  path[u] = "direct" /\ policy[u] = "Continue" =>
    \A i \in began[u].live : connected[i] => i \in ToSet(ran[u]) \cup ToSet(snapshot[u])
Spends(u) ==
  Alone => \A i \in began[u].fired : ~connected[i] /\ i \notin ToSet(ran[u])
Emits(u) == Visiting(u) /\ Remembers(u) /\ Retires(u) /\ Covers(u) /\ Spends(u)

Delivery ==
  /\ DataType /\ TargetsHeld /\ FlagsMatchSlots /\ ListsRight /\ FiredSpent
  /\ \A u \in Threads : Emits(u)

\* At the start there are no connections and no emits.
LEMMA InitDelivery == Init => Delivery
<1> SUFFICES ASSUME Init
             PROVE  Delivery
  OBVIOUS
<1> USE DEF Init
<1>1. DataType
  BY EmptySeq DEF DataType
<1>2. Used = {} /\ Placed = {}
  BY DEF Used, Placed
<1>3. TargetsHeld
  BY DEF TargetsHeld, Held, Pending, NoId
<1>4. FlagsMatchSlots
  BY DEF FlagsMatchSlots
<1>5. ListsRight /\ FiredSpent
  BY EmptyListed DEF ListsRight, FiredSpent
<1>6. ASSUME NEW u \in Threads
      PROVE  Emits(u)
  BY EmptyListed DEF Emits, Visiting, Remembers, Retires, Covers, Spends, Late, Nothing
<1> QED
  BY <1>1, <1>3, <1>4, <1>5, <1>6 DEF Delivery

\* Every id given out is one of Ids.
LEMMA UsedIds ==
  ASSUME ControlType
  PROVE  Placed \subseteq Used /\ Used \subseteq Ids
<1>1. next_id \in Int /\ MaxId \in Nat /\ next_id <= MaxId + 1
  BY SignalAssumption DEF ControlType
<1>2. Used \subseteq Ids
  BY <1>1 DEF Used, Ids
<1> QED
  BY <1>2 DEF Placed

\* Handles name placed connections.
LEMMA HandlesPlaced ==
  ASSUME TargetsHeld
  PROVE  handles \subseteq Placed
  BY DEF TargetsHeld, Held, Pending, Placed, Used, NoId

-----------------------------------------------------------------------------
(* The slots a thread is taking out of the vector                            *)

\* The step leaves to every thread the slots it was about to take out.
Kept == \A u \in Threads : Leaving(u) \subseteq Leaving(u)'

\* Only the thread that holds the vector has slots to take out.
LEMMA LeavingHolds ==
  ASSUME Inv, NEW u \in Threads, Leaving(u) # {}
  PROVE  /\ slots_writer = u
         /\ \/ pc[u] \in {"allFlags", "groupFlags"}
            \/ pc[u] = "idle" /\ epc[u] = "cleanupFlags"
<1>1. pc[u] \in {"allFlags", "groupFlags"} \/ epc[u] = "cleanupFlags"
  BY DEF Leaving
<1> QED
  BY <1>1 DEF Inv, LockDiscipline, Nesting

\* Nobody, when the vector is free.
LEMMA FreeNobodyLeaves ==
  ASSUME Inv, SlotsFree
  PROVE  \A u \in Threads : Leaving(u) = {}
  BY LeavingHolds, SignalAssumption DEF SlotsFree

\* A step of t under which nothing leaves the vector, t having nothing to take
\* out of it, or the same as before.
LEMMA KeptWhenStill ==
  ASSUME Inv, DataType, NEW t \in Threads, slots' = slots,
         Leaving(t) = {} \/ UNCHANGED <<pc, epc, removed, once_ids>>,
         \E a : pc' \in {pc, [pc EXCEPT ![t] = a]},
         \E b : epc' \in {epc, [epc EXCEPT ![t] = b]},
         \E c : removed' \in {removed, [removed EXCEPT ![t] = c]},
         \E d : once_ids' \in {once_ids, [once_ids EXCEPT ![t] = d]}
  PROVE  Kept
<1>1. \A u \in Threads \ {t} : pc'[u] = pc[u] /\ epc'[u] = epc[u]
  BY DEF Inv, ControlType
<1>2. \A u \in Threads \ {t} : removed'[u] = removed[u]
  BY DEF Inv, ControlType
<1>3. \A u \in Threads \ {t} : once_ids'[u] = once_ids[u]
  BY DEF DataType
<1>4. ASSUME NEW u \in Threads \ {t}
      PROVE  Leaving(u)' = Leaving(u)
  <2>1. pc'[u] = pc[u] /\ epc'[u] = epc[u] /\ removed'[u] = removed[u] /\ once_ids'[u] = once_ids[u]
    BY <1>1, <1>2, <1>3
  <2> QED
    BY <2>1 DEF Leaving
<1>5. UNCHANGED <<pc, epc, removed, once_ids>> => Leaving(t)' = Leaving(t)
  BY DEF Leaving
<1> QED
  BY <1>4, <1>5 DEF Kept

\* Every step keeps to the threads what they take out, but the end of a removal.
LEMMA LeavingKept ==
  ASSUME Inv, DataType, NEW t \in Threads, Progress(t) \/ Start(t),
         ~DisconnectAllClear(t), ~DisconnectGroupRetain(t), ~CleanupRetain(t)
  PROVE  Kept
<1>1. CASE \/ ConnectStats(t) \/ InvalidateLock(t) \/ InvalidateSkip(t) \/ CacheClear(t)
           \/ DisconnectClear(t) \/ DisconnectAllStats(t) \/ DisconnectGroupStats(t)
  <2>1. /\ UNCHANGED <<slots, epc, once_ids>> /\ pc[t] \notin {"idle", "allFlags", "groupFlags"}
        /\ \E a : pc' = [pc EXCEPT ![t] = a]
        /\ \E c : removed' \in {removed, [removed EXCEPT ![t] = c]}
    BY <1>1 DEF ConnectStats, InvalidateLock, InvalidateSkip, CacheClear, DisconnectClear,
           DisconnectAllStats, DisconnectGroupStats, Goto, Return, datavars, emitvars
  <2>2. Leaving(t) = {}
    BY <2>1, LeavingHolds
  <2> QED
    BY <2>1, <2>2, KeptWhenStill
<1>2. CASE ConnectInsert(t) \/ DisconnectRetain(t)
  <2>1. SlotsFree
    BY <1>2 DEF ConnectInsert, DisconnectRetain
  <2> QED
    BY <2>1, FreeNobodyLeaves DEF Kept
<1>3. CASE LowerFlag(t)
  <2>1. UNCHANGED <<slots, pc, epc, removed, once_ids>>
    BY <1>3 DEF LowerFlag, opvars, emitvars
  <2> QED
    BY <2>1, KeptWhenStill
<1>4. CASE \/ EmitRead(t) \/ CacheRead(t) \/ CacheHeld(t) \/ BuildSnapshot(t) \/ StoreLock(t)
           \/ StoreSkip(t) \/ Store(t) \/ SkipSlot(t) \/ InvokeSlot(t) \/ CallbackPanic(t)
           \/ LoopDone(t) \/ CleanupOnceSlots(t)
  <2>1. /\ UNCHANGED <<slots, pc, removed, once_ids>>
        /\ epc[t] \notin {"idle", "finish", "cleanupFlags"}
        /\ epc[t] = "callback" => pc[t] = "idle"
        /\ \E b : epc' \in {epc, [epc EXCEPT ![t] = b]}
    BY <1>4 DEF EmitRead, CacheRead, CacheHeld, BuildSnapshot, StoreLock, StoreSkip, Store,
           SkipSlot, InvokeSlot, CallbackPanic, LoopDone, CleanupOnceSlots, EGoto, datavars, opvars
  <2>2. Leaving(t) = {}
    BY <2>1, LeavingHolds DEF Inv, Nesting
  <2> QED
    BY <2>1, <2>2, KeptWhenStill
<1>5. CASE CallbackOk(t) \/ CleanupStats(t) \/ EmitFinish(t)
  <2>1. /\ slots' = slots /\ epc[t] \in {"callback", "cleanupStats", "finish"}
        /\ epc[t] # "cleanupStats" => pc[t] = "idle"
        /\ \E a : pc' \in {pc, [pc EXCEPT ![t] = a]}
        /\ \E b : epc' = [epc EXCEPT ![t] = b]
        /\ \E c : removed' \in {removed, [removed EXCEPT ![t] = c]}
        /\ \E d : once_ids' \in {once_ids, [once_ids EXCEPT ![t] = d]}
    BY <1>5 DEF CallbackOk, CleanupStats, EmitFinish, EGoto, Goto, opvars
  <2>2. Leaving(t) = {}
    BY <2>1, LeavingHolds DEF Inv, Nesting
  <2> QED
    BY <2>1, <2>2, KeptWhenStill
<1>6. CASE Start(t)
  <2>1. /\ slots' = slots /\ (pc[t] = "idle" /\ epc[t] \in {"idle", "callback"})
        /\ \E a : pc' \in {pc, [pc EXCEPT ![t] = a]}
        /\ \E b : epc' \in {epc, [epc EXCEPT ![t] = b]}
        /\ \E c : removed' \in {removed, [removed EXCEPT ![t] = c]}
        /\ once_ids' = once_ids
    <3>1. ASSUME NEW r \in Requests, ConnectAlloc(t, r)
          PROVE  UNCHANGED <<slots, epc, removed, once_ids>> /\ \E a : pc' = [pc EXCEPT ![t] = a]
      BY <3>1 DEF ConnectAlloc, Goto, emitvars
    <3>2. ASSUME NEW id \in Ids, Disconnect(t, id) \/ DropConnection(t, id)
          PROVE  /\ UNCHANGED <<slots, epc, removed, once_ids>>
                 /\ \E a : pc' \in {pc, [pc EXCEPT ![t] = a]}
      BY <3>2 DEF Disconnect, DropConnection, SwapFlag, Goto, emitvars
    <3>3. ASSUME DisconnectAll(t) \/ \E g \in Groups : DisconnectGroup(t, g)
          PROVE  /\ UNCHANGED <<slots, epc, once_ids>> /\ \E a : pc' = [pc EXCEPT ![t] = a]
                 /\ \E c : removed' \in {removed, [removed EXCEPT ![t] = c]}
      BY <3>3 DEF DisconnectAll, DisconnectGroup, Goto, datavars, emitvars
    <3>4. ASSUME NEW p \in Policies, EmitBegin(t, p)
          PROVE  /\ UNCHANGED <<slots, pc, removed, once_ids>>
                 /\ \E b : epc' \in {epc, [epc EXCEPT ![t] = b]}
      BY <3>4 DEF EmitBegin, EmitRefused, EGoto, vars, datavars, opvars, emitvars
    <3>5. pc[t] = "idle" /\ epc[t] \in {"idle", "callback"}
      BY <1>6 DEF Start, ConnectAlloc, Disconnect, DropConnection, DisconnectAll, DisconnectGroup,
             EmitBegin, MayStart
    <3> QED
      BY <1>6, <3>1, <3>2, <3>3, <3>4, <3>5 DEF Start
  <2>2. Leaving(t) = {}
    BY <2>1, LeavingHolds
  <2> QED
    BY <2>1, <2>2, KeptWhenStill
<1> QED
  BY <1>1, <1>2, <1>3, <1>4, <1>5, <1>6 DEF Progress

-----------------------------------------------------------------------------
(* Steps and the placed connections                                          *)

\* Time goes on for the placed connections: nothing is forgotten, no flag goes
\* up again, nothing comes back into the vector.
Onward ==
  /\ Placed \subseteq Placed'
  /\ \A i \in Placed : /\ attr'[i] = attr[i]
                       /\ connected'[i] => connected[i]
                       /\ i \in ToSet(slots') => i \in ToSet(slots)

\* The step moves only t, which neither begins nor ends a connInsert.
Calm(t) ==
  /\ pc[t] # "connInsert" /\ pc'[t] # "connInsert"
  /\ \A u \in Threads \ {t} : pc'[u] = pc[u] /\ target'[u] = target[u]
  /\ next_id' = next_id /\ attr' = attr

\* A calm step places no connection.
LEMMA CalmPlaced ==
  ASSUME NEW t \in Threads, Calm(t)
  PROVE  Placed' = Placed
  BY DEF Calm, Placed, Used

\* Nothing moves in the vector or the flags.
LEMMA StillStep ==
  ASSUME NEW t \in Threads, Calm(t), FlagsMatchSlots, Kept,
         pc[t] # "discRetain", slots' = slots, connected' = connected
  PROVE  FlagsMatchSlots' /\ Onward
<1>1. Placed' = Placed
  BY CalmPlaced
<1>2. FlagsMatchSlots'
  BY DEF FlagsMatchSlots, Calm, Kept
<1> QED
  BY <1>1, <1>2 DEF Onward, Calm

\* Some placed slots leave the vector, and their flags go down.
LEMMA RemovalStep ==
  ASSUME NEW t \in Threads, Calm(t), FlagsMatchSlots, ControlType,
         NEW gone \in SUBSET Ids,
         pc[t] = "discRetain" => target[t] \in gone,
         \A x : x \in ToSet(slots') <=> x \in ToSet(slots) /\ x \notin gone,
         \A u \in Threads : Leaving(u) \subseteq gone,
         \A i \in Ids : connected'[i] = (connected[i] /\ i \notin gone)
  PROVE  FlagsMatchSlots' /\ Onward
<1>1. Placed' = Placed /\ Placed \subseteq Ids
  BY CalmPlaced, UsedIds
<1>2. FlagsMatchSlots'
  <2> SUFFICES ASSUME NEW i \in 1 .. next_id - 1
               PROVE  /\ i \in ToSet(slots') /\ ~connected'[i] =>
                           \E u \in Threads : \/ pc'[u] = "discRetain" /\ target'[u] = i
                                              \/ i \in Leaving(u)'
                      /\ connected'[i] /\ i \notin ToSet(slots') =>
                           \E u \in Threads : pc'[u] = "connInsert" /\ target'[u] = i
    BY DEF FlagsMatchSlots, Calm
  <2>1. i \in Ids /\ connected'[i] = (connected[i] /\ i \notin gone)
    BY UsedIds DEF Used
  <2>2. ASSUME i \in ToSet(slots'), ~connected'[i]
        PROVE  \E u \in Threads : pc'[u] = "discRetain" /\ target'[u] = i
    <3>1. i \in ToSet(slots) /\ i \notin gone /\ ~connected[i]
      BY <2>1, <2>2
    <3>2. PICK u \in Threads : pc[u] = "discRetain" /\ target[u] = i
      BY <3>1, Zenon DEF FlagsMatchSlots
    <3>3. u # t
      BY <3>1, <3>2
    <3> QED
      BY <3>2, <3>3 DEF Calm
  <2>3. ASSUME connected'[i], i \notin ToSet(slots')
        PROVE  \E u \in Threads : pc'[u] = "connInsert" /\ target'[u] = i
    <3>1. i \notin ToSet(slots) /\ connected[i]
      BY <2>1, <2>3
    <3>2. PICK u \in Threads : pc[u] = "connInsert" /\ target[u] = i
      BY <3>1 DEF FlagsMatchSlots
    <3>3. u # t
      BY <3>2 DEF Calm
    <3> QED
      BY <3>2, <3>3 DEF Calm
  <2> QED
    BY <2>2, <2>3
<1>3. \A i \in Placed : connected'[i] => connected[i]
  BY <1>1
<1> QED
  BY <1>1, <1>2, <1>3 DEF Onward, Calm

\* The flag of a connection with a handle is swapped.
LEMMA SwapStep ==
  ASSUME NEW t \in Threads, Calm(t), FlagsMatchSlots, Kept, ControlType, TargetsHeld,
         NEW id \in handles, pc[t] = "idle", slots' = slots,
         connected' = [connected EXCEPT ![id] = FALSE],
         connected[id] => pc'[t] = "discRetain" /\ target'[t] = id
  PROVE  FlagsMatchSlots' /\ Onward
<1>1. Placed' = Placed /\ Placed \subseteq Ids /\ id \in Ids
  BY CalmPlaced, UsedIds DEF TargetsHeld
<1>2. \A i \in Ids : connected'[i] = (connected[i] /\ i # id)
  BY <1>1 DEF ControlType
<1>3. FlagsMatchSlots'
  <2> SUFFICES ASSUME NEW i \in 1 .. next_id - 1
               PROVE  /\ i \in ToSet(slots) /\ ~connected'[i] =>
                           \E u \in Threads : \/ pc'[u] = "discRetain" /\ target'[u] = i
                                              \/ i \in Leaving(u)'
                      /\ connected'[i] /\ i \notin ToSet(slots) =>
                           \E u \in Threads : pc'[u] = "connInsert" /\ target'[u] = i
    BY DEF FlagsMatchSlots, Calm
  <2>1. i \in Ids /\ connected'[i] = (connected[i] /\ i # id)
    BY <1>2, UsedIds DEF Used
  <2>2. ASSUME i \in ToSet(slots), ~connected'[i]
        PROVE  \E u \in Threads : (pc'[u] = "discRetain" /\ target'[u] = i) \/ i \in Leaving(u)'
    <3>1. CASE connected[i]
      BY <2>1, <2>2, <3>1
    <3>2. CASE ~connected[i]
      <4>1. PICK u \in Threads : (pc[u] = "discRetain" /\ target[u] = i) \/ i \in Leaving(u)
        BY <2>2, <3>2 DEF FlagsMatchSlots
      <4> QED
        BY <4>1 DEF Calm, Kept
    <3> QED
      BY <3>1, <3>2
  <2>3. ASSUME connected'[i], i \notin ToSet(slots)
        PROVE  \E u \in Threads : pc'[u] = "connInsert" /\ target'[u] = i
    <3>1. PICK u \in Threads : pc[u] = "connInsert" /\ target[u] = i
      BY <2>1, <2>3 DEF FlagsMatchSlots
    <3> QED
      BY <3>1 DEF Calm
  <2> QED
    BY <2>2, <2>3
<1> QED
  BY <1>1, <1>2, <1>3 DEF Onward, Calm

\* connect_internal takes an id and sets its flag.
LEMMA AllocStep ==
  ASSUME NEW t \in Threads, NEW r \in Requests, ConnectAlloc(t, r),
         FlagsMatchSlots, Kept, ControlType, DataType
  PROVE  FlagsMatchSlots' /\ Onward /\ Placed' = Placed /\ next_id \notin Placed
<1>1. /\ next_id \in Ids /\ next_id' = next_id + 1 /\ next_id \in Nat
      /\ attr' = [attr EXCEPT ![next_id] = r]
      /\ connected' = [connected EXCEPT ![next_id] = TRUE]
      /\ pc[t] = "idle" /\ pc'[t] = "connInsert" /\ target'[t] = next_id
      /\ \A u \in Threads \ {t} : pc'[u] = pc[u] /\ target'[u] = target[u]
      /\ slots' = slots
  BY SignalAssumption DEF ConnectAlloc, Goto, MayStart, ControlType, Ids
<1>2. Used' = Used \cup {next_id} /\ next_id \notin Used /\ Placed \subseteq Used /\ Used \subseteq Ids
  <2>1. next_id >= 1 /\ next_id' - 1 = next_id
    BY <1>1 DEF ControlType
  <2>2. 1 .. next_id = (1 .. next_id - 1) \cup {next_id} /\ next_id \notin 1 .. next_id - 1
    BY <1>1, <2>1
  <2> QED
    BY <2>1, <2>2, UsedIds DEF Used
<1>3. Placed' = Placed
  <2>1. \A i \in Used : i # next_id
    BY <1>2
  <2>2. ASSUME NEW i \in Placed'
        PROVE  i \in Placed
    <3>1. i \in Used' /\ \A u \in Threads : pc'[u] = "connInsert" => target'[u] # i
      BY <2>2 DEF Placed
    <3>2. i # next_id
      BY <3>1, <1>1
    <3> QED
      BY <3>1, <3>2, <1>1, <1>2 DEF Placed
  <2>3. ASSUME NEW i \in Placed
        PROVE  i \in Placed'
    <3>1. i \in Used /\ i # next_id /\ \A u \in Threads : pc[u] = "connInsert" => target[u] # i
      BY <2>1 DEF Placed
    <3>2. \A u \in Threads : pc'[u] = "connInsert" => target'[u] # i
      BY <3>1, <1>1
    <3> QED
      BY <3>1, <3>2, <1>2 DEF Placed
  <2> QED
    BY <2>2, <2>3
<1>4. \A i \in Ids : i # next_id => attr'[i] = attr[i] /\ connected'[i] = connected[i]
  BY <1>1 DEF ControlType, DataType
<1>5. FlagsMatchSlots'
  <2> SUFFICES ASSUME NEW i \in Used'
               PROVE  /\ i \in ToSet(slots) /\ ~connected'[i] =>
                           \E u \in Threads : \/ pc'[u] = "discRetain" /\ target'[u] = i
                                              \/ i \in Leaving(u)'
                      /\ connected'[i] /\ i \notin ToSet(slots) =>
                           \E u \in Threads : pc'[u] = "connInsert" /\ target'[u] = i
    BY <1>1 DEF FlagsMatchSlots, Used
  <2>1. CASE i = next_id
    BY <2>1, <1>1 DEF ControlType
  <2>2. CASE i \in Used
    <3>1. i \in Ids /\ i # next_id /\ connected'[i] = connected[i]
      BY <2>2, <1>2, <1>4
    <3>2. ASSUME i \in ToSet(slots), ~connected'[i]
          PROVE  \E u \in Threads : (pc'[u] = "discRetain" /\ target'[u] = i) \/ i \in Leaving(u)'
      <4>1. PICK u \in Threads : (pc[u] = "discRetain" /\ target[u] = i) \/ i \in Leaving(u)
        BY <2>2, <3>1, <3>2 DEF FlagsMatchSlots, Used
      <4> QED
        BY <4>1, <1>1 DEF Kept
    <3>3. ASSUME connected'[i], i \notin ToSet(slots)
          PROVE  \E u \in Threads : pc'[u] = "connInsert" /\ target'[u] = i
      <4>1. PICK u \in Threads : pc[u] = "connInsert" /\ target[u] = i
        BY <2>2, <3>1, <3>3 DEF FlagsMatchSlots, Used
      <4> QED
        BY <4>1, <1>1
    <3> QED
      BY <3>2, <3>3
  <2> QED
    BY <2>1, <2>2, <1>2
<1>6. Onward
  BY <1>1, <1>2, <1>3, <1>4 DEF Onward
<1> QED
  BY <1>2, <1>3, <1>5, <1>6

\* connect_internal puts its slot into the vector.
LEMMA InsertStep ==
  ASSUME NEW t \in Threads, ConnectInsert(t), Delivery, ControlType, Kept
  PROVE  /\ FlagsMatchSlots' /\ Onward
         /\ Placed' = Placed \cup {target[t]} /\ target[t] \notin Placed
         /\ Listed(Placed', attr, slots')
<1>1. PICK x : x = target[t]
  OBVIOUS
<1>2. /\ pc[t] = "connInsert" /\ pc'[t] = "connStats" /\ target' = target
      /\ \A u \in Threads \ {t} : pc'[u] = pc[u]
      /\ next_id' = next_id /\ attr' = attr /\ connected' = connected
  BY DEF ConnectInsert, Goto, ControlType
<1>3. x \in Used /\ x \in Ids /\ x \notin Placed
  BY <1>1, <1>2, UsedIds DEF Delivery, TargetsHeld, Held, Placed
<1>4. \A u \in Threads \ {t} : pc[u] = "connInsert" => target[u] # x
  <2> SUFFICES ASSUME NEW u \in Threads \ {t}, pc[u] = "connInsert", target[u] = x
               PROVE  FALSE
    OBVIOUS
  <2>1. Held(u) /\ Held(t)
    BY DEF Delivery, TargetsHeld
  <2>2. Pending(u) /\ Pending(t)
    BY <2>1, <1>2 DEF Pending, Held
  <2> QED
    BY <2>2, <1>1 DEF Delivery, TargetsHeld
<1>5. Placed' = Placed \cup {x}
  <2>1. Used' = Used
    BY <1>2 DEF Used
  <2>2. ASSUME NEW i \in Used, i # x
        PROVE  i \in Placed' <=> i \in Placed
    BY <2>1, <2>2, <1>1, <1>2 DEF Placed
  <2>3. x \in Placed'
    BY <2>1, <1>1, <1>2, <1>3, <1>4 DEF Placed
  <2>4. Placed \subseteq Used /\ Placed' \subseteq Used
    BY <2>1 DEF Placed
  <2> QED
    BY <2>2, <2>3, <2>4
<1>6. Ranked(Placed', attr)
  <2>1. \A i \in Ids : attr[i].priority \in Nat
    BY SignalAssumption DEF Delivery, DataType, NoRequest
  <2>2. Placed' \subseteq Ids
    BY <1>3, <1>5, UsedIds
  <2> QED
    BY <2>1, <2>2 DEF Ranked
<1>7. Listed(Placed', attr, slots)
  BY <1>5, ListedGrows DEF Delivery, ListsRight
<1>8. x \notin ToSet(slots)
  <2>1. slots \in Seq(Ids) /\ \A i \in 1 .. Len(slots) : slots[i] \in Placed
    BY DEF Delivery, ListsRight, Listed
  <2> QED
    BY <2>1, <1>3, InToSet
<1>9. PICK P, s, a : P = Placed' /\ s = slots /\ a = attr
  OBVIOUS
<1>10. slots' = InsertAt(s, Cardinality({i \in DOMAIN s : a[s[i]].priority >= a[x].priority}) + 1, x)
  BY <1>1, <1>9 DEF ConnectInsert, PartitionPoint
<1>11. Listed(P, a, slots') /\ \A y : y \in ToSet(slots') <=> y = x \/ y \in ToSet(s)
  <2>1. Ranked(P, a) /\ Listed(P, a, s) /\ x \in P \cap Ids /\ x \notin ToSet(s)
    BY <1>3, <1>5, <1>6, <1>7, <1>8, <1>9
  <2> QED
    BY <2>1, <1>10, ListedInsert
<1>12. FlagsMatchSlots'
  <2> SUFFICES ASSUME NEW i \in Used
               PROVE  /\ i \in ToSet(slots') /\ ~connected[i] =>
                           \E u \in Threads : \/ pc'[u] = "discRetain" /\ target[u] = i
                                              \/ i \in Leaving(u)'
                      /\ connected[i] /\ i \notin ToSet(slots') =>
                           \E u \in Threads : pc'[u] = "connInsert" /\ target[u] = i
    BY <1>2 DEF FlagsMatchSlots, Used
  <2>1. i \in ToSet(slots') <=> i = x \/ i \in ToSet(slots)
    BY <1>9, <1>11
  <2>2. connected[x]
    BY <1>1, <1>2 DEF Delivery, TargetsHeld, Held
  <2>3. ASSUME i \in ToSet(slots'), ~connected[i]
        PROVE  \E u \in Threads : (pc'[u] = "discRetain" /\ target[u] = i) \/ i \in Leaving(u)'
    <3>1. PICK u \in Threads : (pc[u] = "discRetain" /\ target[u] = i) \/ i \in Leaving(u)
      BY <2>1, <2>2, <2>3 DEF FlagsMatchSlots, Used, Delivery
    <3> QED
      BY <3>1, <1>2 DEF Kept
  <2>4. ASSUME connected[i], i \notin ToSet(slots')
        PROVE  \E u \in Threads : pc'[u] = "connInsert" /\ target[u] = i
    <3>1. PICK u \in Threads : pc[u] = "connInsert" /\ target[u] = i
      BY <2>1, <2>4 DEF FlagsMatchSlots, Used, Delivery
    <3>2. u # t
      BY <3>1, <2>1, <2>4, <1>1
    <3> QED
      BY <3>1, <3>2, <1>2
  <2> QED
    BY <2>3, <2>4
<1>13. Onward
  BY <1>2, <1>3, <1>5, <1>9, <1>11 DEF Onward
<1> QED
  BY <1>1, <1>3, <1>5, <1>9, <1>11, <1>12, <1>13

-----------------------------------------------------------------------------
(* The lists and the emits of the other threads                              *)

\* A list of placed connections stays one.
LEMMA ListStays ==
  ASSUME Onward, NEW s, Listed(Placed, attr, s)
  PROVE  Listed(Placed', attr', s)
<1>1. PICK P, Q, a, b : P = Placed /\ Q = Placed' /\ a = attr /\ b = attr'
  OBVIOUS
<1>2. P \subseteq Q /\ \A i \in P : b[i] = a[i]
  BY <1>1 DEF Onward
<1> QED
  BY <1>1, <1>2, ListedGrows

\* What an emit visited and has left stays in order in the steps of others.
LEMMA FollowsStays ==
  ASSUME Onward, NEW r, Listed(Placed, attr, r), NEW s, Listed(Placed, attr, s),
         Follows(attr, r, s)
  PROVE  Follows(attr', r, s)
<1>1. PICK P, a, b : P = Placed /\ a = attr /\ b = attr'
  OBVIOUS
<1>2. \A i \in P : b[i] = a[i]
  BY <1>1 DEF Onward
<1> QED
  BY <1>1, <1>2, FollowsGrows

\* What the emit of a thread that does not move owes, it owes as before.
Rests(u) ==
  /\ epc'[u] = epc[u] /\ snapshot'[u] = snapshot[u] /\ ran'[u] = ran[u]
  /\ once_ids'[u] = once_ids[u] /\ began'[u] = began[u]
  /\ path'[u] = path[u] /\ policy'[u] = policy[u]

\* An emit that rests keeps all it is said to know and owe.
LEMMA EmitsStay ==
  ASSUME Onward, NEW u \in Threads, Emits(u), Rests(u)
  PROVE  Emits(u)'
<1>1. PICK s, r : s = snapshot[u] /\ r = ran[u]
  OBVIOUS
<1>2. Listed(Placed, attr, s) /\ Listed(Placed, attr, r)
  BY <1>1 DEF Emits, Remembers
<1>3. Listed(Placed', attr', s) /\ Listed(Placed', attr', r)
  BY <1>2, ListStays
<1>4. Follows(attr, r, s) => Follows(attr', r, s)
  BY <1>2, FollowsStays
<1>5. s # <<>> /\ Follows(attr, r, Tail(s)) => Follows(attr', r, Tail(s))
  <2>1. CASE s # <<>>
    <3>1. Listed(Placed, attr, Tail(s))
      BY <2>1, <1>2, ListedTail
    <3> QED
      BY <3>1, <1>2, FollowsStays
  <2> QED
    BY <2>1
<1>6. snapshot'[u] = s /\ ran'[u] = r
  BY <1>1 DEF Rests
<1>7. Visiting(u)'
  <2>1. epc[u] \in {"loop"} \cup Late => Follows(attr', r, s)
    BY <1>1, <1>4 DEF Emits, Visiting
  <2>2. epc[u] = "callback" => s # <<>> /\ Follows(attr', r, Tail(s)) /\ Head(s) \in ToSet(r)
    BY <1>1, <1>5 DEF Emits, Visiting
  <2>3. /\ epc[u] \in Late => s = <<>>
        /\ epc[u] \notin {"loop", "callback"} \cup Late =>
             r = <<>> /\ once_ids[u] = {} /\ path[u] # "direct"
    BY <1>1 DEF Emits, Visiting
  <2>4. epc'[u] = epc[u] /\ once_ids'[u] = once_ids[u] /\ path'[u] = path[u]
    BY DEF Rests
  <2> QED
    BY <1>6, <2>1, <2>2, <2>3, <2>4 DEF Visiting, Late
<1>8. Remembers(u)'
  <2>1. once_ids'[u] \subseteq Placed /\ began'[u].live \subseteq Placed /\ began'[u].fired \subseteq Placed
    BY DEF Emits, Remembers, Rests
  <2>2. Placed \subseteq Placed'
    BY DEF Onward
  <2> QED
    BY <1>3, <1>6, <2>1, <2>2 DEF Remembers
<1>9. Retires(u)'
  <2>1. epc'[u] = epc[u] /\ once_ids'[u] = once_ids[u] /\ once_ids[u] \subseteq Placed
    BY DEF Rests, Emits, Remembers
  <2> QED
    BY <2>1 DEF Emits, Retires, Onward
<1>10. Covers(u)'
  <2>1. /\ path'[u] = path[u] /\ policy'[u] = policy[u] /\ began'[u] = began[u]
        /\ began[u].live \subseteq Placed
    BY DEF Rests, Emits, Remembers
  <2> QED
    BY <1>1, <1>6, <2>1 DEF Emits, Covers, Onward
<1>11. Spends(u)'
  <2>1. began'[u] = began[u] /\ began[u].fired \subseteq Placed
    BY DEF Rests, Emits, Remembers
  <2> QED
    BY <1>1, <1>6, <2>1 DEF Emits, Spends, Onward
<1> QED
  BY <1>7, <1>8, <1>9, <1>10, <1>11 DEF Emits

\* The shared lists, when the step adds nothing to the fired slots and does not
\* fill the cache.
LEMMA SharedStays ==
  ASSUME Onward, ListsRight, FiredSpent, Listed(Placed', attr', slots'),
         fired' = fired, snapshot_cache' \in {snapshot_cache, NoSnapshot},
         \A u \in Threads : once_ids'[u] = once_ids[u]
  PROVE  ListsRight' /\ FiredSpent'
<1>1. snapshot_cache' # NoSnapshot => Listed(Placed', attr', snapshot_cache')
  BY ListStays DEF ListsRight
<1>2. fired' \subseteq Placed'
  BY DEF ListsRight, Onward
<1>3. FiredSpent'
  <2>1. fired \subseteq Placed
    BY DEF ListsRight
  <2> QED
    BY <2>1 DEF FiredSpent, Onward
<1> QED
  BY <1>1, <1>2, <1>3 DEF ListsRight

-----------------------------------------------------------------------------
(* connect, disconnect and the group operations                              *)

\* A step of t: what the threads hold, checked for t alone.
LEMMA TargetsMove ==
  ASSUME NEW t \in Threads, TargetsHeld,
         \A u \in Threads \ {t} : pc'[u] = pc[u] /\ target'[u] = target[u],
         Used \subseteq Used',
         \A i \in Used : connected'[i] => connected[i],
         \A u \in Threads \ {t} : pc[u] = "connInsert" => connected'[target[u]],
         handles' \subseteq Used',
         \A i \in handles' : i \in handles \/ (Pending(t) /\ i = target[t]),
         Held(t)',
         Pending(t)' => (Pending(t) /\ target'[t] = target[t]) \/ target'[t] \notin Used
  PROVE  TargetsHeld'
<1>1. ASSUME NEW u \in Threads, u # t
      PROVE  Held(u)'
  <2>1. pc'[u] = pc[u] /\ target'[u] = target[u] /\ Held(u)
    BY <1>1 DEF TargetsHeld
  <2>2. Pending(u)' <=> Pending(u)
    BY <2>1 DEF Pending
  <2>3. ASSUME Pending(u)
        PROVE  target[u] \notin handles'
    <3>1. target[u] \notin handles
      BY <2>1, <2>3 DEF Held
    <3>2. Pending(t) => target[u] # target[t]
      BY <1>1, <2>3 DEF TargetsHeld
    <3> QED
      BY <3>1, <3>2
  <2>4. pc[u] = "discRetain" => ~connected'[target[u]]
    BY <2>1 DEF Held
  <2>5. pc[u] = "connInsert" => connected'[target[u]]
    BY <1>1
  <2>6. target[u] # NoId => target[u] \in Used'
    BY <2>1 DEF Held
  <2> QED
    BY <2>1, <2>2, <2>3, <2>4, <2>5, <2>6 DEF Held
<1>2. ASSUME NEW u \in Threads, NEW w \in Threads, u # w, Pending(u)', Pending(w)'
      PROVE  target'[u] # target'[w]
  <2>1. ASSUME NEW v \in Threads, v # t, Pending(v)'
        PROVE  Pending(v) /\ target'[v] = target[v] /\ target[v] \in Used
    <3>1. Pending(v) /\ target'[v] = target[v]
      BY <2>1 DEF Pending
    <3> QED
      BY <3>1 DEF Pending, TargetsHeld, Held
  <2>2. ASSUME NEW v \in Threads, v # t, Pending(v)', Pending(t)'
        PROVE  target'[v] # target'[t]
    <3>1. Pending(v) /\ target'[v] = target[v] /\ target[v] \in Used
      BY <2>1, <2>2
    <3>2. Pending(t) => target[v] # target[t]
      BY <2>2, <3>1 DEF TargetsHeld
    <3> QED
      BY <2>2, <3>1, <3>2
  <2>3. CASE u # t /\ w # t
    <3>1. Pending(u) /\ target'[u] = target[u] /\ Pending(w) /\ target'[w] = target[w]
      BY <1>2, <2>1, <2>3
    <3> QED
      BY <1>2, <3>1 DEF TargetsHeld
  <2>4. CASE u = t
    BY <1>2, <2>2, <2>4
  <2>5. CASE w = t
    BY <1>2, <2>2, <2>5
  <2> QED
    BY <2>3, <2>4, <2>5
<1> QED
  BY <1>1, <1>2 DEF TargetsHeld

\* Such a step leaves every emit as it is.
LEMMA OpStep ==
  ASSUME Delivery, Onward, Listed(Placed', attr', slots'), FlagsMatchSlots',
         TargetsHeld', attr' \in [Ids -> Requests \cup {NoRequest}],
         snapshot_cache' \in {snapshot_cache, NoSnapshot},
         UNCHANGED <<emitvars, fired>>
  PROVE  Delivery'
<1>1. UNCHANGED <<epc, policy, path, snapshot, once_ids, ran, began, fired>>
  BY DEF emitvars
<1>2. DataType'
  BY <1>1 DEF Delivery, DataType
<1>3. ListsRight' /\ FiredSpent'
  BY <1>1, SharedStays DEF Delivery
<1>4. ASSUME NEW u \in Threads
      PROVE  Emits(u)'
  <2>1. Emits(u) /\ Rests(u)
    BY <1>1 DEF Rests, Delivery
  <2> QED
    BY <2>1, EmitsStay
<1> QED
  BY <1>2, <1>3, <1>4 DEF Delivery

\* One that leaves the vector and the flags as they are, too.
LEMMA StillOp ==
  ASSUME Delivery, ControlType, NEW t \in Threads, Calm(t), Kept, pc[t] # "discRetain",
         UNCHANGED <<slots, connected, emitvars, fired>>,
         snapshot_cache' \in {snapshot_cache, NoSnapshot},
         handles' \subseteq Used,
         \A i \in handles' : i \in handles \/ (Pending(t) /\ i = target[t]),
         Held(t)', Pending(t)' => Pending(t) /\ target'[t] = target[t]
  PROVE  Delivery'
<1>1. FlagsMatchSlots' /\ Onward
  BY StillStep DEF Delivery
<1>2. Used' = Used
  BY DEF Used, Calm
<1>3. TargetsHeld'
  <2>1. \A u \in Threads \ {t} : pc[u] = "connInsert" => connected'[target[u]]
    BY DEF Delivery, TargetsHeld, Held
  <2>2. \A i \in Used : connected'[i] => connected[i]
    OBVIOUS
  <2> QED
    BY <1>2, <2>1, <2>2, TargetsMove DEF Calm, Delivery
<1>4. PICK s : s = slots
  OBVIOUS
<1>5. Listed(Placed', attr', s)
  BY <1>1, <1>4, ListStays DEF Delivery, ListsRight
<1>6. attr' \in [Ids -> Requests \cup {NoRequest}]
  BY DEF Calm, Delivery, DataType
<1> QED
  BY <1>1, <1>3, <1>4, <1>5, <1>6, OpStep

\* The steps of an operation that touch neither slots nor flags.
LEMMA QuietOps ==
  ASSUME Delivery, ControlType, Kept, NEW t \in Threads,
         \/ ConnectStats(t) \/ InvalidateLock(t) \/ DisconnectClear(t)
         \/ DisconnectAll(t) \/ DisconnectAllStats(t)
         \/ DisconnectGroupStats(t) \/ \E g \in Groups : DisconnectGroup(t, g)
  PROVE  Delivery'
<1>1. /\ UNCHANGED <<slots, connected, emitvars, fired, snapshot_cache, handles, target, next_id, attr>>
      /\ \/ pc[t] = "connStats" /\ Goto(t, "invalidate")
         \/ pc[t] = "invalidate" /\ Goto(t, "cacheClear")
         \/ pc[t] = "discClear" /\ Goto(t, "cacheClear")
         \/ pc[t] = "idle" /\ \E l \in {"allFlags", "groupFlags"} : Goto(t, l)
         \/ pc[t] \in {"allStats", "groupStats"} /\ Goto(t, "invalidate")
  BY DEF ConnectStats, InvalidateLock, DisconnectClear, DisconnectAll, DisconnectAllStats,
         DisconnectGroup, DisconnectGroupStats, MayStart, datavars
<1>2. /\ \A u \in Threads \ {t} : pc'[u] = pc[u]
      /\ \/ pc[t] = "connStats" /\ pc'[t] = "invalidate"
         \/ pc[t] = "invalidate" /\ pc'[t] = "cacheClear"
         \/ pc[t] = "discClear" /\ pc'[t] = "cacheClear"
         \/ pc[t] = "idle" /\ pc'[t] \in {"allFlags", "groupFlags"}
         \/ pc[t] \in {"allStats", "groupStats"} /\ pc'[t] = "invalidate"
  BY <1>1 DEF Goto, ControlType
<1>3. Calm(t)
  BY <1>1, <1>2 DEF Calm
<1>4. Held(t) /\ handles \subseteq Used
  BY DEF Delivery, TargetsHeld
<1>5. Pending(t)' => Pending(t)
  BY <1>1, <1>2, <1>4 DEF Pending, Held
<1>6. Used' = Used
  BY <1>1 DEF Used
<1>7. Held(t)'
  BY <1>1, <1>2, <1>4, <1>5, <1>6 DEF Held
<1> QED
  BY <1>1, <1>2, <1>3, <1>4, <1>5, <1>7, StillOp

\* The end of an operation: a connect hands its Connection out.
LEMMA ReturnOps ==
  ASSUME Delivery, ControlType, Kept, NEW t \in Threads, InvalidateSkip(t) \/ CacheClear(t)
  PROVE  Delivery'
<1>1. /\ UNCHANGED <<slots, connected, emitvars, fired, next_id, attr>>
      /\ snapshot_cache' \in {snapshot_cache, NoSnapshot}
      /\ pc[t] \in {"invalidate", "cacheClear"} /\ Return(t)
  BY DEF InvalidateSkip, CacheClear
<1>2. /\ \A u \in Threads \ {t} : pc'[u] = pc[u] /\ target'[u] = target[u]
      /\ pc'[t] = "idle" /\ target'[t] = NoId
      /\ handles' = handles \cup ({target[t]} \ {NoId})
  BY <1>1 DEF Return, ControlType
<1>3. Calm(t)
  BY <1>1, <1>2 DEF Calm
<1>4. Held(t) /\ handles \subseteq Used
  BY DEF Delivery, TargetsHeld
<1>5. handles' \subseteq Used
  BY <1>2, <1>4 DEF Held
<1>6. \A i \in handles' : i \in handles \/ (Pending(t) /\ i = target[t])
  BY <1>1, <1>2 DEF Pending
<1>7. Held(t)' /\ ~Pending(t)'
  BY <1>2 DEF Held, Pending
<1> QED
  BY <1>1, <1>3, <1>5, <1>6, <1>7, StillOp

\* connect, second section: the slot goes to its place in the vector.
LEMMA InsertOp ==
  ASSUME Delivery, ControlType, Kept, NEW t \in Threads, ConnectInsert(t)
  PROVE  Delivery'
<1>1. /\ FlagsMatchSlots' /\ Onward /\ Listed(Placed', attr, slots')
  BY InsertStep
<1>2. /\ pc[t] = "connInsert" /\ pc'[t] = "connStats"
      /\ \A u \in Threads \ {t} : pc'[u] = pc[u]
      /\ UNCHANGED <<attr, connected, next_id, handles, target, snapshot_cache, fired, emitvars>>
  BY DEF ConnectInsert, Goto, ControlType
<1>3. Held(t) /\ handles \subseteq Used /\ Used' = Used
  BY <1>2 DEF Delivery, TargetsHeld, Used
<1>4. Pending(t)' /\ Pending(t)
  BY <1>2, <1>3 DEF Pending, Held
<1>5. Held(t)'
  BY <1>2, <1>3, <1>4 DEF Held
<1>6. \A u \in Threads \ {t} : pc[u] = "connInsert" => connected'[target[u]]
  BY <1>2 DEF Delivery, TargetsHeld, Held
<1>7. TargetsHeld'
  BY <1>2, <1>3, <1>4, <1>5, <1>6, TargetsMove DEF Delivery
<1>8. attr' \in [Ids -> Requests \cup {NoRequest}]
  BY <1>2 DEF Delivery, DataType
<1> QED
  BY <1>1, <1>2, <1>7, <1>8, OpStep

\* connect, first section: a new id, a new flag.
LEMMA AllocOp ==
  ASSUME Delivery, ControlType, Kept, NEW t \in Threads, NEW r \in Requests, ConnectAlloc(t, r)
  PROVE  Delivery'
<1>1. FlagsMatchSlots' /\ Onward /\ Placed' = Placed /\ next_id \notin Placed
  BY AllocStep DEF Delivery
<1>2. /\ next_id \in Ids /\ next_id \in Nat /\ next_id >= 1 /\ next_id' = next_id + 1
      /\ attr' = [attr EXCEPT ![next_id] = r]
      /\ connected' = [connected EXCEPT ![next_id] = TRUE]
      /\ pc[t] = "idle" /\ pc'[t] = "connInsert" /\ target'[t] = next_id
      /\ \A u \in Threads \ {t} : pc'[u] = pc[u] /\ target'[u] = target[u]
      /\ UNCHANGED <<slots, handles, snapshot_cache, fired, emitvars>>
  BY SignalAssumption DEF ConnectAlloc, Goto, MayStart, ControlType, Ids
<1>3. Used \subseteq Used' /\ next_id \in Used' /\ next_id \notin Used /\ next_id # NoId
  <2>1. next_id' - 1 = next_id
    BY <1>2
  <2>2. 1 .. next_id - 1 \subseteq 1 .. next_id /\ next_id \in 1 .. next_id /\ next_id \notin 1 .. next_id - 1
    BY <1>2
  <2> QED
    BY <1>2, <2>1, <2>2 DEF Used, NoId
<1>4. Used \subseteq Ids /\ handles \subseteq Used
  BY UsedIds DEF Delivery, TargetsHeld
<1>5. \A i \in Used : connected'[i] = connected[i]
  BY <1>2, <1>3, <1>4 DEF ControlType
<1>6. connected'[next_id]
  BY <1>2 DEF ControlType
<1>7. Held(t)'
  BY <1>2, <1>3, <1>4, <1>6 DEF Held
<1>8. \A u \in Threads \ {t} : pc[u] = "connInsert" => connected'[target[u]]
  BY <1>5 DEF Delivery, TargetsHeld, Held
<1>9. TargetsHeld'
  <2>1. target'[t] \notin Used /\ handles' \subseteq Used' /\ \A i \in handles' : i \in handles
    BY <1>2, <1>3, <1>4
  <2> QED
    BY <2>1, <1>2, <1>3, <1>5, <1>7, <1>8, TargetsMove DEF Delivery
<1>10. attr' \in [Ids -> Requests \cup {NoRequest}]
  BY <1>2 DEF Delivery, DataType
<1>11. PICK s : s = slots
  OBVIOUS
<1>12. Listed(Placed', attr', s)
  BY <1>1, <1>11, ListStays DEF Delivery, ListsRight
<1> QED
  BY <1>1, <1>2, <1>9, <1>10, <1>11, <1>12, OpStep

\* disconnect and drop: the flag goes down, the slot is still there.
LEMMA SwapOp ==
  ASSUME Delivery, ControlType, Kept, NEW t \in Threads, pc[t] = "idle",
         NEW id \in handles, SwapFlag(t, id), handles' \subseteq handles
  PROVE  Delivery'
<1>1. /\ UNCHANGED <<slots, attr, next_id, snapshot_cache, fired, emitvars>>
      /\ connected' = [connected EXCEPT ![id] = FALSE]
      /\ \A u \in Threads \ {t} : pc'[u] = pc[u] /\ target'[u] = target[u]
      /\ \/ connected[id] /\ pc'[t] = "discRetain" /\ target'[t] = id
         \/ ~connected[id] /\ pc'[t] = pc[t] /\ target'[t] = target[t]
  BY DEF SwapFlag, Goto, ControlType
<1>2. Calm(t)
  BY <1>1 DEF Calm
<1>3. FlagsMatchSlots' /\ Onward
  BY <1>1, <1>2, SwapStep DEF Delivery
<1>4. Used' = Used /\ handles \subseteq Used /\ Used \subseteq Ids /\ Held(t) /\ id # NoId
  BY <1>1, UsedIds DEF Delivery, TargetsHeld, Used, Ids, NoId
<1>5. \A i \in Ids : connected'[i] = (connected[i] /\ i # id)
  BY <1>1, <1>4 DEF ControlType
<1>6. ~Pending(t)'
  BY <1>1, <1>4 DEF Pending, Held
<1>7. Held(t)'
  BY <1>1, <1>4, <1>5, <1>6 DEF Held
<1>8. \A u \in Threads \ {t} : pc[u] = "connInsert" => connected'[target[u]]
  <2> SUFFICES ASSUME NEW u \in Threads \ {t}, pc[u] = "connInsert"
               PROVE  connected'[target[u]]
    OBVIOUS
  <2>1. target[u] # NoId /\ target[u] \in Used /\ connected[target[u]] /\ Held(u)
    BY DEF Delivery, TargetsHeld, Held
  <2>2. target[u] # id
    BY <2>1 DEF Pending, Held
  <2> QED
    BY <2>1, <2>2, <1>4, <1>5
<1>9. TargetsHeld'
  BY <1>1, <1>4, <1>5, <1>6, <1>7, <1>8, TargetsMove DEF Delivery
<1>10. attr' \in [Ids -> Requests \cup {NoRequest}]
  BY <1>1 DEF Delivery, DataType
<1>11. PICK s : s = slots
  OBVIOUS
<1>12. Listed(Placed', attr', s)
  BY <1>3, <1>11, ListStays DEF Delivery, ListsRight
<1> QED
  BY <1>1, <1>3, <1>9, <1>10, <1>11, <1>12, OpStep

\* Placed slots leave the vector with their flags.
LEMMA RemovalOp ==
  ASSUME Delivery, ControlType, NEW t \in Threads, Calm(t),
         NEW gone \in SUBSET Placed,
         pc[t] = "discRetain" => target[t] \in gone,
         Listed(Placed, attr, slots'),
         \A x : x \in ToSet(slots') <=> x \in ToSet(slots) /\ x \notin gone,
         \A u \in Threads : Leaving(u) \subseteq gone,
         \A i \in Ids : connected'[i] = (connected[i] /\ i \notin gone),
         UNCHANGED <<snapshot_cache, handles, fired, emitvars>>,
         pc'[t] \in {"discClear", "allStats", "groupStats"}, target'[t] = NoId
  PROVE  Delivery'
<1>1. gone \in SUBSET Ids /\ Placed \subseteq Used /\ Used \subseteq Ids
  BY UsedIds
<1>2. FlagsMatchSlots' /\ Onward
  BY <1>1, RemovalStep DEF Delivery
<1>3. Used' = Used
  BY DEF Used, Calm
<1>4. \A i \in Ids : connected'[i] = (connected[i] /\ i \notin gone)
  OBVIOUS
<1>5. \A u \in Threads \ {t} : pc[u] = "connInsert" => connected'[target[u]]
  <2> SUFFICES ASSUME NEW u \in Threads \ {t}, pc[u] = "connInsert"
               PROVE  connected'[target[u]]
    OBVIOUS
  <2>1. target[u] \in Used /\ connected[target[u]] /\ target[u] \notin Placed
    BY DEF Delivery, TargetsHeld, Held, Placed
  <2> QED
    BY <2>1, <1>1, <1>4
<1>6. Held(t)' /\ ~Pending(t)'
  BY DEF Held, Pending
<1>7. handles \subseteq Used /\ \A i \in Used : connected'[i] => connected[i]
  BY <1>1, <1>4 DEF Delivery, TargetsHeld
<1>8. TargetsHeld'
  BY <1>3, <1>5, <1>6, <1>7, TargetsMove DEF Delivery, Calm
<1>9. attr' \in [Ids -> Requests \cup {NoRequest}]
  BY DEF Calm, Delivery, DataType
<1>10. Listed(Placed', attr', slots')
  BY CalmPlaced DEF Calm
<1> QED
  BY <1>2, <1>8, <1>9, <1>10, OpStep

\* A removal under way has its slots in the vector, all of them placed.
LEMMA LeavingListed ==
  ASSUME Delivery, Inv, NEW t \in Threads
  PROVE  Leaving(t) \subseteq ToSet(slots) /\ ToSet(slots) \subseteq Placed
<1>1. Listed(Placed, attr, slots)
  BY DEF Delivery, ListsRight
<1>2. ToSet(slots) \subseteq Placed
  BY <1>1, InToSet DEF Listed
<1>3. \A k \in DOMAIN slots : slots[k] \in ToSet(slots)
  BY DEF ToSet
<1>4. Leaving(t) \subseteq ToSet(slots)
  BY <1>3 DEF Leaving
<1> QED
  BY <1>2, <1>4

\* retain and clear: the end of disconnect, disconnect_all and
\* disconnect_by_group in the vector.
LEMMA RemovalOps ==
  ASSUME Inv, Delivery, ControlType, NEW t \in Threads,
         DisconnectRetain(t) \/ DisconnectAllClear(t) \/ DisconnectGroupRetain(t)
  PROVE  Delivery'
<1>1. Listed(Placed, attr, slots) /\ Placed \subseteq Ids
  BY UsedIds DEF Delivery, ListsRight
<1>2. CASE DisconnectRetain(t)
  <2>1. /\ pc[t] = "discRetain" /\ pc'[t] = "discClear" /\ target'[t] = NoId
        /\ \A u \in Threads \ {t} : pc'[u] = pc[u] /\ target'[u] = target[u]
        /\ connected' = Unflag({target[t]})
        /\ slots' = Retain(slots, {target[t]})
        /\ UNCHANGED <<next_id, attr, snapshot_cache, handles, fired, emitvars>>
    BY <1>2 DEF DisconnectRetain, Goto, ControlType
  <2>2. Calm(t)
    BY <2>1 DEF Calm
  <2>3. target[t] \in Placed
    BY <2>1 DEF Delivery, TargetsHeld, Held, Placed
  <2>4. /\ Listed(Placed, attr, slots')
        /\ \A x : x \in ToSet(slots') <=> x \in ToSet(slots) /\ x \notin {target[t]}
    BY <1>1, <2>1, ListedRetain
  <2>5. \A u \in Threads : Leaving(u) \subseteq {target[t]}
    BY <1>2, FreeNobodyLeaves DEF DisconnectRetain
  <2>6. \A i \in Ids : connected'[i] = (connected[i] /\ i \notin {target[t]})
    BY <2>1 DEF Unflag
  <2> QED
    BY <2>1, <2>2, <2>3, <2>4, <2>5, <2>6, RemovalOp
<1>3. CASE DisconnectAllClear(t) \/ DisconnectGroupRetain(t)
  <2>1. PICK gone : gone = Leaving(t)
    OBVIOUS
  <2>2. /\ pc[t] \in {"allFlags", "groupFlags"} /\ pc'[t] \in {"allStats", "groupStats"}
        /\ \A u \in Threads \ {t} : pc'[u] = pc[u]
        /\ \A i \in gone : ~connected[i]
        /\ UNCHANGED <<connected, next_id, attr, target, snapshot_cache, handles, fired, emitvars>>
    BY <1>3, <2>1 DEF DisconnectAllClear, DisconnectGroupRetain, FlagsDown, Goto, ControlType
  <2>3. Calm(t) /\ target'[t] = NoId
    BY <2>2 DEF Calm, Delivery, TargetsHeld, Held
  <2>4. gone \in SUBSET Placed
    BY <2>1, LeavingListed
  <2>5. /\ Listed(Placed, attr, slots')
        /\ \A x : x \in ToSet(slots') <=> x \in ToSet(slots) /\ x \notin gone
    <3>1. CASE DisconnectAllClear(t)
      <4>1. slots' = <<>> /\ gone = ToSet(slots)
        BY <2>1, <3>1 DEF DisconnectAllClear, Leaving
      <4> QED
        BY <4>1, EmptyListed
    <3>2. CASE DisconnectGroupRetain(t)
      <4>1. slots' = Retain(slots, gone)
        BY <2>1, <3>2 DEF DisconnectGroupRetain
      <4> QED
        BY <4>1, <1>1, ListedRetain
    <3> QED
      BY <1>3, <3>1, <3>2
  <2>6. \A u \in Threads : Leaving(u) \subseteq gone
    <3> SUFFICES ASSUME NEW u \in Threads, Leaving(u) # {}
                 PROVE  u = t
      BY <2>1
    <3>1. slots_writer = t
      BY <2>2 DEF Inv, LockDiscipline
    <3>2. slots_writer = u
      BY LeavingHolds
    <3> QED
      BY <3>1, <3>2
  <2>7. \A i \in Ids : connected'[i] = (connected[i] /\ i \notin gone)
    BY <2>2 DEF ControlType
  <2> QED
    BY <2>2, <2>3, <2>4, <2>5, <2>6, <2>7, RemovalOp
<1> QED
  BY <1>2, <1>3

\* One flag of a removal under way goes down.
LEMMA LowerOp ==
  ASSUME Inv, Delivery, ControlType, Kept, NEW t \in Threads, LowerFlag(t)
  PROVE  Delivery'
<1>1. PICK x : /\ x \in Leaving(t) /\ connected' = [connected EXCEPT ![x] = FALSE]
               /\ UNCHANGED <<slots, attr, next_id, snapshot_cache, handles, fired, pc, target, emitvars>>
  BY DEF LowerFlag, opvars
<1>2. x \in Placed /\ Placed \subseteq Used /\ Used \subseteq Ids /\ Used' = Used /\ Placed' = Placed
  BY <1>1, LeavingListed, UsedIds DEF Used, Placed
<1>3. \A i \in Ids : connected'[i] = (connected[i] /\ i # x)
  BY <1>1, <1>2 DEF ControlType
<1>4. Onward
  BY <1>1, <1>2, <1>3 DEF Onward
<1>5. FlagsMatchSlots'
  <2> SUFFICES ASSUME NEW i \in Used
               PROVE  /\ i \in ToSet(slots) /\ ~connected'[i] =>
                           \E u \in Threads : \/ pc[u] = "discRetain" /\ target[u] = i
                                              \/ i \in Leaving(u)'
                      /\ connected'[i] /\ i \notin ToSet(slots) =>
                           \E u \in Threads : pc[u] = "connInsert" /\ target[u] = i
    BY <1>1 DEF FlagsMatchSlots, Used
  <2>1. connected'[i] = (connected[i] /\ i # x)
    BY <1>2, <1>3
  <2>2. CASE i = x
    BY <2>1, <2>2, <1>1 DEF Kept
  <2>3. CASE i # x
    BY <2>1, <2>3 DEF Kept, Delivery, FlagsMatchSlots, Used
  <2> QED
    BY <2>2, <2>3
<1>6. TargetsHeld'
  <2>1. ASSUME NEW u \in Threads
        PROVE  Held(u)'
    <3>1. Held(u) /\ (pc[u] = "connInsert" => target[u] # x)
      BY <1>2 DEF Delivery, TargetsHeld, Placed
    <3>2. pc[u] \in {"connInsert", "discRetain"} => target[u] \in Ids
      BY <1>2, <3>1 DEF Held
    <3>3. /\ pc[u] = "connInsert" => connected'[target[u]]
          /\ pc[u] = "discRetain" => ~connected'[target[u]]
      BY <1>3, <3>1, <3>2 DEF Held
    <3> QED
      BY <1>1, <1>2, <3>1, <3>3 DEF Held, Pending
  <2> QED
    BY <1>1, <1>2, <2>1 DEF Delivery, TargetsHeld, Pending
<1>7. Listed(Placed', attr', slots') /\ attr' \in [Ids -> Requests \cup {NoRequest}]
  BY <1>1, <1>2 DEF Delivery, ListsRight, DataType
<1> QED
  BY <1>1, <1>4, <1>5, <1>6, <1>7, OpStep

-----------------------------------------------------------------------------
(* The emits                                                                 *)

\* A step of the emit of t that leaves connections, vector and operations alone.
LEMMA EmitStep ==
  ASSUME Delivery, Kept, NEW t \in Threads,
         UNCHANGED <<slots, connected, attr, next_id, pc, target, handles>>,
         \A u \in Threads \ {t} : Rests(u), Emits(t)', DataType',
         snapshot_cache' = snapshot_cache \/ Listed(Placed, attr, snapshot_cache'),
         fired' \subseteq Placed, FiredSpent'
  PROVE  Delivery'
<1>1. Used' = Used /\ Placed' = Placed
  BY DEF Used, Placed
<1>2. Onward
  BY <1>1 DEF Onward
<1>3. TargetsHeld'
  BY <1>1 DEF Delivery, TargetsHeld, Held, Pending
<1>4. FlagsMatchSlots'
  BY DEF Delivery, FlagsMatchSlots, Kept
<1>5. ListsRight'
  BY <1>1 DEF Delivery, ListsRight
<1>6. \A u \in Threads : Emits(u)'
  BY <1>2, EmitsStay DEF Delivery
<1> QED
  BY <1>3, <1>4, <1>5, <1>6 DEF Delivery

\* What the steps that take, store and walk the snapshot have in common: they
\* run nothing and note nothing.
LEMMA SnapshotStep ==
  ASSUME Delivery, ControlType, Kept, NEW t \in Threads,
         UNCHANGED <<slots, connected, attr, next_id, pc, target, handles,
                     fired, policy, once_ids, ran, began>>,
         NEW e, NEW s, NEW p \in {"none", "direct", "snapshot", "batch"},
         epc' = [epc EXCEPT ![t] = e], snapshot' = [snapshot EXCEPT ![t] = s],
         path' = [path EXCEPT ![t] = p],
         snapshot_cache' = snapshot_cache \/ Listed(Placed, attr, snapshot_cache'),
         Listed(Placed, attr, s), e # "callback",
         e \in {"loop"} \cup Late => Follows(attr, ran[t], s),
         e \in Late => s = <<>>,
         e \notin {"loop"} \cup Late => ran[t] = <<>> /\ once_ids[t] = {} /\ p # "direct",
         e \in {"cleanupStats", "finish"} =>
           \A i \in once_ids[t] : ~connected[i] /\ i \notin ToSet(slots),
         p = "direct" /\ policy[t] = "Continue" =>
           \A i \in began[t].live : connected[i] => i \in ToSet(ran[t]) \cup ToSet(s)
  PROVE  Delivery'
<1>1. DataType
  BY DEF Delivery
<1>2. epc'[t] = e /\ snapshot'[t] = s /\ path'[t] = p
  BY <1>1 DEF DataType, ControlType
<1>3. \A u \in Threads \ {t} : Rests(u)
  BY <1>1 DEF DataType, ControlType, Rests
<1>4. DataType'
  BY <1>1 DEF DataType, Listed
<1>5. Placed' = Placed
  BY DEF Used, Placed
<1>6. Emits(t)
  BY DEF Delivery
<1>7. Visiting(t)'
  BY <1>2 DEF Visiting
<1>8. Remembers(t)'
  BY <1>2, <1>5, <1>6 DEF Emits, Remembers
<1>9. Retires(t)'
  BY <1>2 DEF Retires
<1>10. Covers(t)'
  BY <1>2 DEF Covers
<1>11. Spends(t)'
  BY <1>6 DEF Emits, Spends
<1>12. Emits(t)'
  BY <1>7, <1>8, <1>9, <1>10, <1>11 DEF Emits
<1>13. fired' \subseteq Placed /\ FiredSpent'
  BY DEF Delivery, ListsRight, FiredSpent
<1> QED
  BY <1>3, <1>4, <1>12, <1>13, EmitStep

\* Every step that takes the snapshot and stores it.
LEMMA TakeSteps ==
  ASSUME Delivery, ControlType, Kept, NEW t \in Threads,
         \/ EmitRead(t) \/ CacheRead(t) \/ CacheHeld(t) \/ BuildSnapshot(t)
         \/ StoreLock(t) \/ StoreSkip(t) \/ Store(t)
  PROVE  Delivery'
<1>1. /\ UNCHANGED <<slots, connected, attr, next_id, pc, target, handles,
                     fired, policy, once_ids, ran, began>>
      /\ epc[t] \in {"readSlots", "cacheRead", "cacheHeld", "build", "store", "storing"}
  BY DEF EmitRead, CacheRead, CacheHeld, BuildSnapshot, Take, StoreLock, StoreSkip, Store,
         datavars, lockvars, opvars
<1>2. /\ ran[t] = <<>> /\ once_ids[t] = {} /\ path[t] # "direct"
      /\ Listed(Placed, attr, snapshot[t])
      /\ began[t].live \subseteq Placed
  BY <1>1 DEF Delivery, Emits, Visiting, Remembers, Late
<1>3. /\ Listed(Placed, attr, slots)
      /\ snapshot_cache # NoSnapshot => Listed(Placed, attr, snapshot_cache)
  BY DEF Delivery, ListsRight
<1>4. \A s : Follows(attr, ran[t], s)
  BY <1>2, EmptyListed
<1>5. path[t] \in {"none", "direct", "snapshot", "batch"} /\ path' = path =>
        path' = [path EXCEPT ![t] = path[t]]
  BY DEF Delivery, DataType
<1>6. snapshot' = snapshot => snapshot' = [snapshot EXCEPT ![t] = snapshot[t]]
  BY DEF Delivery, DataType
<1>7. path[t] \in {"none", "direct", "snapshot", "batch"}
  BY DEF Delivery, DataType
<1>8. CASE EmitRead(t) /\ Len(slots) <= Direct
  <2>1. PICK e \in {"finish", "loop"} :
          /\ epc' = [epc EXCEPT ![t] = e] /\ (e = "finish" => slots = <<>>)
          /\ snapshot' = [snapshot EXCEPT ![t] = slots]
          /\ path' = [path EXCEPT ![t] = "direct"]
          /\ snapshot_cache' = snapshot_cache
    BY <1>8 DEF EmitRead, EGoto, PathOf, datavars
  <2>2. \A i \in began[t].live : connected[i] => i \in ToSet(slots)
    <3> SUFFICES ASSUME NEW i \in Placed, connected[i]
                 PROVE  i \in ToSet(slots)
      BY <1>2
    <3>1. i \in Used /\ \A u \in Threads : ~(pc[u] = "connInsert" /\ target[u] = i)
      BY DEF Placed
    <3> QED
      BY <3>1 DEF Delivery, FlagsMatchSlots, Used
  <2> QED
    BY <1>1, <1>2, <1>3, <1>4, <2>1, <2>2, SnapshotStep DEF Late
<1>9. CASE EmitRead(t) /\ ~(Len(slots) <= Direct)
  <2>1. PICK p \in {"snapshot", "batch"} :
          /\ epc' = [epc EXCEPT ![t] = "cacheRead"] /\ snapshot' = snapshot
          /\ path' = [path EXCEPT ![t] = p] /\ snapshot_cache' = snapshot_cache
    BY <1>9 DEF EmitRead, EGoto, PathOf, datavars
  <2> QED
    BY <1>1, <1>2, <1>6, <2>1, SnapshotStep DEF Late
<1>10. ASSUME CacheRead(t) \/ StoreLock(t) \/ StoreSkip(t) \/ Store(t)
       PROVE  Delivery'
  <2>1. PICK e \in {"cacheHeld", "storing", "loop"} :
          /\ epc' = [epc EXCEPT ![t] = e] /\ snapshot' = snapshot /\ path' = path
          /\ snapshot_cache' \in {snapshot_cache, snapshot[t]}
    BY <1>10 DEF CacheRead, StoreLock, StoreSkip, Store, EGoto, datavars
  <2>2. snapshot_cache' = snapshot_cache \/ Listed(Placed, attr, snapshot_cache')
    BY <1>2, <2>1
  <2> QED
    BY <1>1, <1>2, <1>4, <1>5, <1>6, <1>7, <2>1, <2>2, SnapshotStep DEF Late
<1>11. CASE CacheHeld(t)
  <2>1. CASE snapshot_cache # NoSnapshot
    <3>1. /\ epc' = [epc EXCEPT ![t] = "loop"] /\ path' = path
          /\ snapshot' = [snapshot EXCEPT ![t] = snapshot_cache]
          /\ snapshot_cache' = snapshot_cache
      BY <1>11, <2>1 DEF CacheHeld, Take, EGoto, datavars
    <3> QED
      BY <1>1, <1>2, <1>3, <1>4, <1>5, <1>7, <2>1, <3>1, SnapshotStep DEF Late
  <2>2. CASE ~(snapshot_cache # NoSnapshot)
    <3>1. /\ epc' = [epc EXCEPT ![t] = "build"] /\ path' = path /\ snapshot' = snapshot
          /\ snapshot_cache' = snapshot_cache
      BY <1>11, <2>2 DEF CacheHeld, EGoto, datavars
    <3> QED
      BY <1>1, <1>2, <1>5, <1>6, <1>7, <3>1, SnapshotStep DEF Late
  <2> QED
    BY <2>1, <2>2
<1>12. CASE BuildSnapshot(t)
  <2>1. /\ epc' = [epc EXCEPT ![t] = "store"] /\ path' = path
        /\ snapshot' = [snapshot EXCEPT ![t] = slots] /\ snapshot_cache' = snapshot_cache
    BY <1>12 DEF BuildSnapshot, Take, EGoto, datavars
  <2> QED
    BY <1>1, <1>2, <1>3, <1>5, <1>7, <2>1, SnapshotStep DEF Late
<1> QED
  BY <1>8, <1>9, <1>10, <1>11, <1>12

\* The loop passes a slot over, leaves after a panic, or is through.
LEMMA WalkSteps ==
  ASSUME Delivery, ControlType, Kept, NEW t \in Threads,
         SkipSlot(t) \/ CallbackPanic(t) \/ LoopDone(t)
  PROVE  Delivery'
<1>1. /\ UNCHANGED <<slots, connected, attr, next_id, pc, target, handles,
                     fired, policy, once_ids, ran, began, path, snapshot_cache>>
      /\ epc[t] \in {"loop", "callback"}
  BY DEF SkipSlot, CallbackPanic, LoopDone, datavars, lockvars, opvars
<1>2. PICK s : s = snapshot[t]
  OBVIOUS
<1>3. /\ Listed(Placed, attr, s)
      /\ epc[t] = "loop" => Follows(attr, ran[t], s)
      /\ epc[t] = "callback" =>
           s # <<>> /\ Follows(attr, ran[t], Tail(s)) /\ Head(s) \in ToSet(ran[t])
      /\ path[t] = "direct" /\ policy[t] = "Continue" =>
           \A i \in began[t].live : connected[i] => i \in ToSet(ran[t]) \cup ToSet(s)
  BY <1>2 DEF Delivery, Emits, Remembers, Visiting, Covers
<1>4. path[t] \in {"none", "direct", "snapshot", "batch"} /\ path' = [path EXCEPT ![t] = path[t]]
  BY <1>1 DEF Delivery, DataType
<1>5. s # <<>> => /\ Listed(Placed, attr, Tail(s))
                  /\ \A r : Follows(attr, r, s) => Follows(attr, r, Tail(s))
                  /\ \A x : x \in ToSet(s) <=> x = Head(s) \/ x \in ToSet(Tail(s))
  BY <1>3, ListedTail
<1>6. CASE SkipSlot(t)
  <2>1. /\ epc[t] = "loop" /\ s # <<>> /\ ~connected[Head(s)]
        /\ epc' = [epc EXCEPT ![t] = "loop"]
        /\ snapshot' = [snapshot EXCEPT ![t] = Tail(s)]
    BY <1>2, <1>6 DEF SkipSlot, MayInvoke, ControlType
  <2>2. path[t] = "direct" /\ policy[t] = "Continue" =>
          \A i \in began[t].live : connected[i] => i \in ToSet(ran[t]) \cup ToSet(Tail(s))
    BY <1>3, <1>5, <2>1
  <2> QED
    BY <1>1, <1>3, <1>4, <1>5, <2>1, <2>2, SnapshotStep DEF Late
<1>7. CASE CallbackPanic(t)
  <2>1. PICK r : r = IF policy[t] = "Stop" THEN <<>> ELSE Tail(s)
    OBVIOUS
  <2>2. /\ epc[t] = "callback" /\ s # <<>>
        /\ epc' = [epc EXCEPT ![t] = "loop"]
        /\ snapshot' = [snapshot EXCEPT ![t] = r]
    BY <1>2, <1>3, <1>7, <2>1 DEF CallbackPanic, AfterPanic, EGoto
  <2>3. Listed(Placed, attr, r) /\ Follows(attr, ran[t], r)
    BY <1>3, <1>5, <2>1, <2>2, EmptyListed
  <2>4. path[t] = "direct" /\ policy[t] = "Continue" =>
          \A i \in began[t].live : connected[i] => i \in ToSet(ran[t]) \cup ToSet(r)
    BY <1>3, <1>5, <2>1, <2>2
  <2> QED
    BY <1>1, <1>4, <2>2, <2>3, <2>4, SnapshotStep DEF Late
<1>8. CASE LoopDone(t)
  <2>1. PICK e \in {"cleanup", "finish"} :
          /\ epc[t] = "loop" /\ s = <<>>
          /\ epc' = [epc EXCEPT ![t] = e] /\ (e = "finish" => once_ids[t] = {})
          /\ snapshot' = [snapshot EXCEPT ![t] = s]
    BY <1>2, <1>8 DEF LoopDone, EGoto, Delivery, DataType
  <2> QED
    BY <1>1, <1>3, <1>4, <2>1, SnapshotStep DEF Late
<1> QED
  BY <1>6, <1>7, <1>8

\* A callback begins: of a slot that this emit has not run yet.
LEMMA InvokeStep ==
  ASSUME Delivery, ControlType, Kept, NEW t \in Threads, InvokeSlot(t)
  PROVE  Delivery' /\ Head(snapshot[t]) \notin ToSet(ran[t])
<1>1. PICK s, r, v : s = snapshot[t] /\ r = ran[t] /\ v = Append(r, Head(s))
  OBVIOUS
<1>2. /\ epc[t] = "loop" /\ s # <<>> /\ connected[Head(s)]
      /\ ran' = [ran EXCEPT ![t] = v] /\ epc' = [epc EXCEPT ![t] = "callback"]
      /\ UNCHANGED <<slots, connected, attr, next_id, pc, target, handles, fired,
                     snapshot_cache, snapshot, policy, path, once_ids, began>>
  BY <1>1 DEF InvokeSlot, MayInvoke, EGoto, datavars, lockvars, opvars
<1>3. Emits(t) /\ DataType /\ Listed(Placed, attr, s) /\ Listed(Placed, attr, r) /\ Follows(attr, r, s)
  BY <1>1, <1>2 DEF Delivery, Emits, Remembers, Visiting
<1>4. /\ Listed(Placed, attr, v) /\ Follows(attr, v, Tail(s)) /\ Head(s) \notin ToSet(r)
      /\ \A x : x \in ToSet(v) <=> x = Head(s) \/ x \in ToSet(r)
  <2>1. PICK P, a : P = Placed /\ a = attr
    OBVIOUS
  <2>2. Listed(P, a, s) /\ s # <<>> /\ Listed(P, a, r) /\ Follows(a, r, s)
    BY <1>2, <1>3, <2>1
  <2>3. v = Append(r, Head(s))
    BY <1>1
  <2>4. /\ Listed(P, a, v) /\ Follows(a, v, Tail(s)) /\ Head(s) \notin ToSet(r)
        /\ \A x : x \in ToSet(v) <=> x = Head(s) \/ x \in ToSet(r)
    BY <2>2, <2>3, ListedVisit
  <2> QED
    BY <2>1, <2>4
<1>5. epc'[t] = "callback" /\ ran'[t] = v
  BY <1>2, <1>3 DEF DataType, ControlType
<1>6. \A u \in Threads \ {t} : Rests(u)
  BY <1>2, <1>3 DEF DataType, ControlType, Rests
<1>7. DataType'
  BY <1>2, <1>3, <1>4 DEF DataType, Listed
<1>8. Placed' = Placed
  BY <1>2 DEF Used, Placed
<1>9. Visiting(t)'
  BY <1>1, <1>2, <1>4, <1>5 DEF Visiting, Late
<1>10. Remembers(t)'
  BY <1>2, <1>3, <1>4, <1>5, <1>8 DEF Emits, Remembers
<1>11. Retires(t)'
  BY <1>5 DEF Retires
<1>12. Covers(t)'
  BY <1>1, <1>2, <1>3, <1>4, <1>5 DEF Emits, Covers
<1>13. Spends(t)'
  BY <1>1, <1>2, <1>3, <1>4, <1>5 DEF Emits, Spends
<1>14. Emits(t)'
  BY <1>9, <1>10, <1>11, <1>12, <1>13 DEF Emits
<1>15. fired' \subseteq Placed /\ FiredSpent'
  BY <1>2 DEF Delivery, ListsRight, FiredSpent
<1> QED
  BY <1>1, <1>2, <1>4, <1>6, <1>7, <1>14, <1>15, EmitStep

\* A callback returns: a once slot is noted.
LEMMA OkStep ==
  ASSUME Delivery, ControlType, Kept, NEW t \in Threads, CallbackOk(t)
  PROVE  Delivery'
<1>1. PICK s, noted : s = snapshot[t] /\ noted = IF attr[Head(s)].once THEN {Head(s)} ELSE {}
  OBVIOUS
<1>2. /\ epc[t] = "callback"
      /\ once_ids' = [once_ids EXCEPT ![t] = @ \cup noted] /\ fired' = fired \cup noted
      /\ snapshot' = [snapshot EXCEPT ![t] = Tail(s)] /\ epc' = [epc EXCEPT ![t] = "loop"]
      /\ UNCHANGED <<slots, connected, attr, next_id, pc, target, handles,
                     snapshot_cache, ran, policy, path, began>>
  BY <1>1 DEF CallbackOk, EGoto, opvars
<1>3. /\ Emits(t) /\ DataType /\ Listed(Placed, attr, s) /\ s # <<>>
      /\ Follows(attr, ran[t], Tail(s)) /\ Head(s) \in ToSet(ran[t])
  BY <1>1, <1>2 DEF Delivery, Emits, Remembers, Visiting
<1>4. /\ Listed(Placed, attr, Tail(s)) /\ Head(s) \in Placed \cap Ids
      /\ \A x : x \in ToSet(s) <=> x = Head(s) \/ x \in ToSet(Tail(s))
  BY <1>3, ListedTail
<1>5. noted \subseteq Placed /\ noted \subseteq Ids
  BY <1>1, <1>4
<1>6. epc'[t] = "loop" /\ snapshot'[t] = Tail(s) /\ once_ids'[t] = once_ids[t] \cup noted
  BY <1>2, <1>3 DEF DataType, ControlType
<1>7. \A u \in Threads \ {t} : Rests(u)
  BY <1>2, <1>3 DEF DataType, ControlType, Rests
<1>8. DataType'
  <2>1. once_ids' \in [Threads -> SUBSET Ids]
    BY <1>2, <1>3, <1>5 DEF DataType
  <2>2. snapshot' \in [Threads -> Seq(Ids)]
    BY <1>2, <1>3, <1>4 DEF DataType, Listed
  <2> QED
    BY <1>2, <1>3, <2>1, <2>2 DEF DataType
<1>9. Placed' = Placed
  BY <1>2 DEF Used, Placed
<1>10. Visiting(t)'
  BY <1>2, <1>3, <1>6 DEF Visiting, Late
<1>11. Remembers(t)'
  BY <1>2, <1>3, <1>4, <1>5, <1>6, <1>9 DEF Emits, Remembers
<1>12. Retires(t)'
  BY <1>6 DEF Retires
<1>13. Covers(t)'
  <2>1. ToSet(ran[t]) \cup ToSet(s) \subseteq ToSet(ran[t]) \cup ToSet(Tail(s))
    BY <1>3, <1>4
  <2>2. path[t] = "direct" /\ policy[t] = "Continue" =>
          \A i \in began[t].live : connected[i] => i \in ToSet(ran[t]) \cup ToSet(s)
    BY <1>1, <1>3 DEF Emits, Covers
  <2> QED
    BY <1>2, <1>6, <2>1, <2>2 DEF Covers
<1>14. Spends(t)'
  BY <1>2, <1>3 DEF Emits, Spends
<1>15. Emits(t)'
  BY <1>10, <1>11, <1>12, <1>13, <1>14 DEF Emits
<1>16. fired' \subseteq Placed
  BY <1>2, <1>5 DEF Delivery, ListsRight
<1>17. FiredSpent'
  <2> SUFFICES ASSUME NEW i \in fired \cup noted
               PROVE  ~connected[i] \/ \E u \in Threads : i \in once_ids'[u]
    BY <1>2 DEF FiredSpent
  <2>1. CASE i \in noted
    BY <2>1, <1>6
  <2>2. CASE i \in fired /\ connected[i]
    <3>1. PICK u \in Threads : i \in once_ids[u]
      BY <2>2 DEF Delivery, FiredSpent
    <3>2. i \in once_ids'[u]
      BY <3>1, <1>6, <1>7 DEF Rests
    <3> QED
      BY <3>2
  <2> QED
    BY <2>1, <2>2
<1> QED
  BY <1>2, <1>7, <1>8, <1>15, <1>16, <1>17, EmitStep

\* EmitGuard::drop forgets the emit.
LEMMA FinishStep ==
  ASSUME Delivery, ControlType, Kept, NEW t \in Threads, EmitFinish(t)
  PROVE  Delivery'
<1>1. /\ epc[t] = "finish"
      /\ once_ids' = [once_ids EXCEPT ![t] = {}] /\ policy' = [policy EXCEPT ![t] = "Continue"]
      /\ path' = [path EXCEPT ![t] = "none"] /\ ran' = [ran EXCEPT ![t] = <<>>]
      /\ began' = [began EXCEPT ![t] = Nothing] /\ epc' = [epc EXCEPT ![t] = "idle"]
      /\ UNCHANGED <<slots, connected, attr, next_id, pc, target, handles,
                     snapshot_cache, fired, snapshot>>
  BY DEF EmitFinish, EGoto, opvars
<1>2. Emits(t) /\ DataType
  BY DEF Delivery
<1>3. /\ epc'[t] = "idle" /\ ran'[t] = <<>> /\ once_ids'[t] = {} /\ path'[t] = "none"
      /\ began'[t] = Nothing
  <2>1. epc'[t] = "idle" /\ ran'[t] = <<>> /\ once_ids'[t] = {} /\ path'[t] = "none"
    BY <1>1, <1>2 DEF DataType, ControlType
  <2>2. began'[t] = Nothing
    BY <1>1 DEF ControlType
  <2> QED
    BY <2>1, <2>2
<1>4. \A u \in Threads \ {t} : Rests(u)
  BY <1>1, <1>2 DEF DataType, ControlType, Rests
<1>5. DataType'
  BY <1>1, <1>2, EmptySeq DEF DataType
<1>6. Placed' = Placed
  BY <1>1 DEF Used, Placed
<1>7. Visiting(t)'
  BY <1>3 DEF Visiting, Late
<1>8. Remembers(t)'
  <2>1. Listed(Placed, attr, <<>>) /\ Listed(Placed, attr, snapshot[t])
    BY <1>2, EmptyListed DEF Emits, Remembers
  <2> QED
    BY <1>1, <1>3, <1>6, <2>1 DEF Remembers, Nothing
<1>9. Retires(t)' /\ Covers(t)' /\ Spends(t)'
  BY <1>3 DEF Retires, Covers, Spends, Nothing
<1>10. Emits(t)'
  BY <1>7, <1>8, <1>9 DEF Emits
<1>11. fired' \subseteq Placed
  BY <1>1 DEF Delivery, ListsRight
<1>12. FiredSpent'
  <2> SUFFICES ASSUME NEW i \in fired, connected[i]
               PROVE  \E u \in Threads : i \in once_ids'[u]
    BY <1>1 DEF FiredSpent
  <2>1. PICK u \in Threads : i \in once_ids[u]
    BY DEF Delivery, FiredSpent
  <2>2. u # t
    BY <1>1, <1>2, <2>1 DEF Emits, Retires
  <2> QED
    BY <2>1, <2>2, <1>4 DEF Rests
<1> QED
  BY <1>1, <1>4, <1>5, <1>10, <1>11, <1>12, EmitStep

\* An emit begins with nothing visited.
LEMMA BeginStep ==
  ASSUME Delivery, ControlType, EmittingGuard, Kept, NEW t \in Threads, NEW p \in Policies,
         EmitBegin(t, p), ~emitting[t]
  PROVE  Delivery'
<1>1. PICK live, dead : live = {i \in handles : connected[i]} /\ dead = {i \in 1 .. next_id - 1 : ~connected[i]}
  OBVIOUS
<1>2. PICK b : b = [live |-> live, dead |-> dead, fired |-> fired]
  OBVIOUS
<1>3. /\ policy' = [policy EXCEPT ![t] = p] /\ epc' = [epc EXCEPT ![t] = "readSlots"]
      /\ began' = [began EXCEPT ![t] = b]
      /\ UNCHANGED <<slots, connected, attr, next_id, pc, target, handles, fired,
                     snapshot_cache, snapshot, path, once_ids, ran>>
  BY <1>1, <1>2 DEF EmitBegin, EmitRefused, EGoto, opvars
<1>4. Emits(t) /\ DataType /\ epc[t] = "idle"
  BY DEF Delivery, EmittingGuard
<1>5. epc'[t] = "readSlots" /\ began'[t] = b /\ b.live = live /\ b.fired = fired
  <2>1. epc'[t] = "readSlots"
    BY <1>3 DEF ControlType
  <2>2. began'[t] = b
    BY <1>3 DEF ControlType
  <2> QED
    BY <2>1, <2>2, <1>2
<1>6. \A u \in Threads \ {t} : Rests(u)
  <2>1. \A u \in Threads \ {t} : epc'[u] = epc[u] /\ policy'[u] = policy[u]
    BY <1>3, <1>4 DEF DataType, ControlType
  <2>2. \A u \in Threads \ {t} : began'[u] = began[u]
    BY <1>3 DEF ControlType
  <2> QED
    BY <1>3, <2>1, <2>2 DEF Rests
<1>7. DataType'
  BY <1>3, <1>4 DEF DataType
<1>8. Placed' = Placed
  BY <1>3 DEF Used, Placed
<1>9. ran[t] = <<>> /\ once_ids[t] = {} /\ path[t] # "direct"
  BY <1>4 DEF Emits, Visiting, Late
<1>10. Visiting(t)'
  BY <1>3, <1>5, <1>9 DEF Visiting, Late
<1>11. Remembers(t)'
  <2>1. live \subseteq Placed
    BY <1>1, HandlesPlaced DEF Delivery
  <2>2. fired \subseteq Placed
    BY DEF Delivery, ListsRight
  <2> QED
    BY <1>3, <1>4, <1>5, <1>8, <2>1, <2>2 DEF Emits, Remembers
<1>12. Retires(t)' /\ Covers(t)'
  BY <1>3, <1>5, <1>9 DEF Retires, Covers
<1>13. Spends(t)'
  <2> SUFFICES ASSUME Alone, NEW i \in fired
               PROVE  ~connected[i] /\ i \notin ToSet(ran[t])
    BY <1>3, <1>5 DEF Spends
  <2>1. ToSet(ran[t]) = {}
    BY <1>9, EmptyListed
  <2>2. \A u \in Threads : once_ids[u] = {}
    BY <1>9 DEF Alone
  <2> QED
    BY <2>1, <2>2 DEF Delivery, FiredSpent
<1>14. Emits(t)'
  BY <1>10, <1>11, <1>12, <1>13 DEF Emits
<1>15. fired' \subseteq Placed /\ FiredSpent'
  BY <1>3 DEF Delivery, ListsRight, FiredSpent
<1> QED
  BY <1>3, <1>6, <1>7, <1>14, <1>15, EmitStep

\* A placed slot that is not in the vector is disconnected.
LEMMA OutIsDown ==
  ASSUME Delivery, NEW i \in Placed, i \notin ToSet(slots)
  PROVE  ~connected[i]
<1>1. i \in Used /\ \A u \in Threads : ~(pc[u] = "connInsert" /\ target[u] = i)
  BY DEF Placed
<1> QED
  BY <1>1 DEF Delivery, FlagsMatchSlots, Used

\* cleanup_once_slots takes the vector, or finds nothing of what was noted in it.
LEMMA CleanupBegins ==
  ASSUME Delivery, ControlType, Kept, NEW t \in Threads, CleanupOnceSlots(t)
  PROVE  Delivery'
<1>1. PICK e \in {"cleanupFlags", "finish"} :
        /\ epc[t] = "cleanup" /\ epc' = [epc EXCEPT ![t] = e]
        /\ e = "finish" => once_ids[t] \cap ToSet(slots) = {}
        /\ UNCHANGED <<slots, connected, attr, next_id, pc, target, handles, snapshot_cache,
                       fired, snapshot, policy, path, once_ids, ran, began>>
  BY DEF CleanupOnceSlots, EGoto, datavars, opvars
<1>2. PICK s, p : s = snapshot[t] /\ p = path[t]
  OBVIOUS
<1>3. Emits(t) /\ DataType
  BY DEF Delivery
<1>4. snapshot' = [snapshot EXCEPT ![t] = s] /\ path' = [path EXCEPT ![t] = p]
  BY <1>1, <1>2, <1>3 DEF DataType
<1>5. p \in {"none", "direct", "snapshot", "batch"} /\ Listed(Placed, attr, s)
  BY <1>2, <1>3 DEF DataType, Emits, Remembers
<1>6. Follows(attr, ran[t], s) /\ s = <<>>
  BY <1>1, <1>2, <1>3 DEF Emits, Visiting, Late
<1>7. e \in {"cleanupStats", "finish"} =>
        \A i \in once_ids[t] : ~connected[i] /\ i \notin ToSet(slots)
  BY <1>1, <1>3, OutIsDown DEF Emits, Remembers
<1>8. p = "direct" /\ policy[t] = "Continue" =>
        \A i \in began[t].live : connected[i] => i \in ToSet(ran[t]) \cup ToSet(s)
  BY <1>2, <1>3 DEF Emits, Covers
<1>9. e # "callback" /\ e \in Late
  BY DEF Late
<1> QED
  BY <1>1, <1>4, <1>5, <1>6, <1>7, <1>8, <1>9, SnapshotStep

\* cleanup_once_slots takes the slots out whose flags it has taken down.
LEMMA CleanupStep ==
  ASSUME Inv, Delivery, ControlType, Nesting, NEW t \in Threads, CleanupRetain(t)
  PROVE  Delivery'
<1>1. PICK gone : gone = Leaving(t)
  OBVIOUS
<1>2. /\ epc[t] = "cleanupFlags" /\ epc' = [epc EXCEPT ![t] = "cleanupStats"]
      /\ \A i \in gone : ~connected[i]
      /\ slots' = Retain(slots, gone)
      /\ UNCHANGED <<connected, attr, next_id, pc, target, handles, snapshot_cache, fired,
                     snapshot, policy, path, once_ids, ran, began>>
  BY <1>1 DEF CleanupRetain, FlagsDown, EGoto
<1>3. Emits(t) /\ DataType /\ Held(t) /\ Listed(Placed, attr, slots)
  BY DEF Delivery, TargetsHeld, ListsRight
<1>4. pc[t] = "idle" /\ target[t] = NoId
  BY <1>2, <1>3 DEF Nesting, Held
<1>5. Calm(t)
  BY <1>2, <1>4 DEF Calm
<1>6. /\ Placed \subseteq Used /\ Used \subseteq Ids /\ gone \subseteq Placed
      /\ gone = once_ids[t] \cap ToSet(slots)
  <2>1. gone = once_ids[t] \cap ToSet(slots)
    BY <1>1, <1>2, <1>4 DEF Leaving
  <2> QED
    BY <2>1, <1>3, UsedIds DEF Emits, Remembers
<1>7. gone \in SUBSET Ids
  BY <1>6
<1>8. /\ Listed(Placed, attr, slots')
      /\ \A x : x \in ToSet(slots') <=> x \in ToSet(slots) /\ x \notin gone
  BY <1>2, <1>3, ListedRetain
<1>9. FlagsMatchSlots' /\ Onward
  <2>1. slots_writer = t
    BY <1>2 DEF Inv, LockDiscipline
  <2>2. ASSUME NEW u \in Threads, Leaving(u) # {}
        PROVE  u = t
    <3>1. slots_writer = u
      BY <2>2, LeavingHolds
    <3> QED
      BY <2>1, <3>1
  <2>3. \A i \in Ids : connected'[i] = (connected[i] /\ i \notin gone)
    BY <1>2 DEF ControlType
  <2>4. \A u \in Threads : Leaving(u) \subseteq gone
    BY <1>1, <2>2
  <2> QED
    BY <1>4, <1>5, <1>7, <1>8, <2>3, <2>4, RemovalStep DEF Delivery
<1>10. Placed' = Placed /\ Used' = Used
  BY <1>2, <1>5, CalmPlaced DEF Used
<1>11. TargetsHeld'
  <2>1. \A u \in Threads \ {t} : pc[u] = "connInsert" => connected'[target[u]]
    <3> SUFFICES ASSUME NEW u \in Threads \ {t}, pc[u] = "connInsert"
                 PROVE  connected'[target[u]]
      OBVIOUS
    <3>1. target[u] \in Used /\ connected[target[u]] /\ target[u] \notin Placed
      BY DEF Delivery, TargetsHeld, Held, Placed
    <3> QED
      BY <3>1, <1>2
  <2>2. Held(t)' /\ ~Pending(t)'
    BY <1>2, <1>4 DEF Held, Pending
  <2>3. handles \subseteq Used /\ \A i \in Used : connected'[i] => connected[i]
    BY <1>2 DEF Delivery, TargetsHeld
  <2> QED
    BY <1>2, <1>10, <2>1, <2>2, <2>3, TargetsMove DEF Delivery
<1>12. \A u \in Threads \ {t} : Rests(u)
  BY <1>2 DEF ControlType, Rests
<1>13. DataType'
  BY <1>2, <1>3 DEF DataType
<1>14. epc'[t] = "cleanupStats"
  BY <1>2 DEF ControlType
<1>15. Visiting(t)'
  <2>1. Follows(attr, ran[t], snapshot[t]) /\ snapshot[t] = <<>>
    BY <1>2, <1>3 DEF Emits, Visiting, Late
  <2> QED
    BY <2>1, <1>2, <1>14 DEF Visiting, Late
<1>16. Remembers(t)'
  BY <1>2, <1>3, <1>10 DEF Emits, Remembers
<1>17. Retires(t)'
  <2> SUFFICES ASSUME NEW i \in once_ids[t]
               PROVE  ~connected'[i] /\ i \notin ToSet(slots')
    BY <1>2 DEF Retires
  <2>1. i \in Placed
    BY <1>3 DEF Emits, Remembers
  <2>2. CASE i \in ToSet(slots)
    BY <2>2, <1>2, <1>6, <1>8
  <2>3. CASE i \notin ToSet(slots)
    BY <2>1, <2>3, <1>2, <1>8, OutIsDown
  <2> QED
    BY <2>2, <2>3
<1>18. Covers(t)'
  BY <1>2, <1>3 DEF Emits, Covers
<1>19. Spends(t)'
  BY <1>2, <1>3 DEF Emits, Spends
<1>20. ListsRight' /\ FiredSpent'
  <2>1. Listed(Placed', attr', slots')
    BY <1>2, <1>8, <1>10
  <2> QED
    BY <2>1, <1>2, <1>9, SharedStays DEF Delivery
<1>21. ASSUME NEW u \in Threads
       PROVE  Emits(u)'
  <2>1. CASE u = t
    BY <2>1, <1>15, <1>16, <1>17, <1>18, <1>19 DEF Emits
  <2>2. CASE u # t
    <3>1. Emits(u) /\ Rests(u)
      BY <2>2, <1>12 DEF Delivery
    <3> QED
      BY <3>1, <1>9, EmitsStay
  <2> QED
    BY <2>1, <2>2
<1> QED
  BY <1>9, <1>11, <1>13, <1>20, <1>21 DEF Delivery

\* The statistics after the cleanup: only the program counters move.
LEMMA CleanupStatsStep ==
  ASSUME Delivery, ControlType, Nesting, Kept, NEW t \in Threads, CleanupStats(t)
  PROVE  Delivery'
<1>1. /\ epc[t] = "cleanupStats" /\ epc' = [epc EXCEPT ![t] = "finish"]
      /\ pc' = [pc EXCEPT ![t] = "invalidate"]
      /\ UNCHANGED <<slots, connected, attr, next_id, target, handles, snapshot_cache, fired,
                     snapshot, policy, path, once_ids, ran, began>>
  BY DEF CleanupStats, EGoto, Goto
<1>2. Emits(t) /\ DataType /\ Held(t) /\ ListsRight
  BY DEF Delivery, TargetsHeld
<1>3. pc[t] = "idle" /\ target[t] = NoId /\ pc'[t] = "invalidate" /\ epc'[t] = "finish"
      /\ \A u \in Threads \ {t} : pc'[u] = pc[u]
  BY <1>1, <1>2 DEF Nesting, Held, ControlType
<1>4. Calm(t)
  BY <1>1, <1>3 DEF Calm
<1>5. FlagsMatchSlots' /\ Onward
  BY <1>1, <1>3, <1>4, StillStep DEF Delivery
<1>6. Placed' = Placed /\ Used' = Used
  BY <1>1, <1>4, CalmPlaced DEF Used
<1>7. TargetsHeld'
  <2>1. \A u \in Threads \ {t} : pc[u] = "connInsert" => connected'[target[u]]
    BY <1>1 DEF Delivery, TargetsHeld, Held
  <2>2. Held(t)' /\ ~Pending(t)'
    BY <1>1, <1>3 DEF Held, Pending
  <2>3. handles \subseteq Used
    BY DEF Delivery, TargetsHeld
  <2> QED
    BY <1>1, <1>3, <1>6, <2>1, <2>2, <2>3, TargetsMove DEF Delivery
<1>8. \A u \in Threads \ {t} : Rests(u)
  BY <1>1 DEF ControlType, Rests
<1>9. DataType'
  BY <1>1, <1>2 DEF DataType
<1>10. Emits(t)'
  <2>1. Visiting(t)' /\ Retires(t)'
    BY <1>1, <1>2, <1>3 DEF Emits, Visiting, Retires, Late
  <2>2. Remembers(t)' /\ Covers(t)' /\ Spends(t)'
    BY <1>1, <1>2, <1>6 DEF Emits, Remembers, Covers, Spends
  <2> QED
    BY <2>1, <2>2 DEF Emits
<1>11. ListsRight' /\ FiredSpent'
  BY <1>1, <1>2, <1>6 DEF ListsRight, Delivery, FiredSpent
<1>12. ASSUME NEW u \in Threads, u # t
       PROVE  Emits(u)'
  <2>1. Emits(u) /\ Rests(u)
    BY <1>12, <1>8 DEF Delivery
  <2> QED
    BY <2>1, <1>5, EmitsStay
<1> QED
  BY <1>5, <1>7, <1>9, <1>10, <1>11, <1>12 DEF Delivery

-----------------------------------------------------------------------------
(* The invariant and what follows from it                                    *)

\* Every step keeps Delivery.
LEMMA StepDelivery == Inv /\ Delivery /\ [Next]_vars => Delivery'
<1> SUFFICES ASSUME Inv, Delivery, [Next]_vars
             PROVE  Delivery'
  OBVIOUS
<1>1. ControlType /\ Nesting /\ EmittingGuard
  BY DEF Inv
<1>2. ASSUME NEW t \in Threads, Progress(t)
      PROVE  Delivery'
  <2>1. CASE DisconnectAllClear(t) \/ DisconnectGroupRetain(t) \/ CleanupRetain(t)
    BY <1>1, <2>1, RemovalOps, CleanupStep
  <2>2. CASE ~(DisconnectAllClear(t) \/ DisconnectGroupRetain(t) \/ CleanupRetain(t))
    <3>1. Kept
      BY <1>2, <2>2, LeavingKept DEF Delivery
    <3> QED
      BY <1>1, <1>2, <2>2, <3>1, InsertOp, QuietOps, ReturnOps, RemovalOps, LowerOp, TakeSteps,
         WalkSteps, InvokeStep, OkStep, CleanupBegins, CleanupStatsStep, FinishStep DEF Progress
  <2> QED
    BY <2>1, <2>2
<1>3. CASE UNCHANGED vars
  <2>1. UNCHANGED <<slots, connected, attr, next_id, pc, target, removed, handles,
                    snapshot_cache, fired, epc, snapshot, policy, path, once_ids, ran, began>>
    BY <1>3 DEF vars, datavars, opvars, emitvars
  <2>2. Used' = Used /\ Placed' = Placed
    BY <2>1 DEF Used, Placed
  <2>3. DataType' /\ TargetsHeld' /\ FlagsMatchSlots' /\ ListsRight' /\ FiredSpent'
    BY <2>1, <2>2 DEF Delivery, DataType, TargetsHeld, Held, Pending, FlagsMatchSlots,
                      Leaving, ListsRight, FiredSpent
  <2>4. ASSUME NEW u \in Threads
        PROVE  Emits(u)'
    <3>1. Emits(u)
      BY DEF Delivery
    <3> QED
      BY <2>1, <2>2, <3>1 DEF Emits, Visiting, Remembers, Retires, Covers, Spends
  <2> QED
    BY <2>3, <2>4 DEF Delivery
<1>4. ASSUME NEW t \in Threads, Start(t)
      PROVE  Delivery'
  <2> Kept
    <3>1. pc[t] = "idle" /\ epc[t] \in {"idle", "callback"}
      BY <1>4 DEF Start, ConnectAlloc, Disconnect, DropConnection, DisconnectAll, DisconnectGroup,
             EmitBegin, MayStart
    <3>2. ~DisconnectAllClear(t) /\ ~DisconnectGroupRetain(t) /\ ~CleanupRetain(t)
      BY <3>1 DEF DisconnectAllClear, DisconnectGroupRetain, CleanupRetain
    <3> QED
      BY <1>4, <3>2, LeavingKept DEF Delivery
  <2>1. ASSUME NEW r \in Requests, ConnectAlloc(t, r)
        PROVE  Delivery'
    BY <1>1, <2>1, AllocOp
  <2>2. ASSUME NEW id \in Ids, Disconnect(t, id) \/ DropConnection(t, id)
        PROVE  Delivery'
    <3>1. pc[t] = "idle" /\ id \in handles /\ SwapFlag(t, id) /\ handles' \subseteq handles
      BY <2>2 DEF Disconnect, DropConnection, MayStart
    <3> QED
      BY <1>1, <3>1, SwapOp
  <2>3. ASSUME DisconnectAll(t) \/ \E g \in Groups : DisconnectGroup(t, g)
        PROVE  Delivery'
    BY <1>1, <2>3, QuietOps
  <2>4. ASSUME NEW p \in Policies, EmitBegin(t, p)
        PROVE  Delivery'
    <3>1. CASE emitting[t]
      <4>1. UNCHANGED vars
        BY <2>4, <3>1 DEF EmitBegin, EmitRefused
      <4> QED
        BY <4>1, <1>3
    <3>2. CASE ~emitting[t]
      BY <1>1, <2>4, <3>2, BeginStep
    <3> QED
      BY <3>1, <3>2
  <2> QED
    BY <1>4, <2>1, <2>2, <2>3, <2>4 DEF Start
<1> QED
  BY <1>2, <1>3, <1>4 DEF Next

\* Inv and Delivery hold throughout.
LEMMA DeliveryInvariant == Spec => [](Inv /\ Delivery)
<1>1. Init => Inv /\ Delivery
  BY InitInv, InitDelivery
<1>2. Inv /\ Delivery /\ [Next]_vars => (Inv /\ Delivery)'
  BY StepInv, StepDelivery
<1> QED
  BY <1>1, <1>2, PTL DEF Spec

\* The vector and the flags: a connection in one and not in the other is the
\* work of a connect or a disconnect that is still running.
THEOREM SignalFlagsMatchSlots == Spec => []FlagsMatchSlots
<1>1. Inv /\ Delivery => FlagsMatchSlots
  BY DEF Delivery
<1> QED
  BY <1>1, DeliveryInvariant, PTL

\* One emit calls by descending priority and nothing twice, on whichever path
\* and however stale its snapshot.
THEOREM SignalRunsInOrder == Spec => []RunsInOrder
<1>1. Inv /\ Delivery => RunsInOrder
  <2> SUFFICES ASSUME Delivery, NEW t \in Threads,
                      NEW i \in DOMAIN ran[t], NEW j \in DOMAIN ran[t], i < j
               PROVE  /\ attr[ran[t][i]].priority >= attr[ran[t][j]].priority
                      /\ ran[t][i] # ran[t][j]
    BY DEF RunsInOrder
  <2>1. Listed(Placed, attr, ran[t])
    BY DEF Delivery, Emits, Remembers
  <2>2. DOMAIN ran[t] = 1 .. Len(ran[t])
    BY <2>1, LenProperties DEF Listed
  <2> QED
    BY <2>1, <2>2 DEF Listed, Ordered
<1> QED
  BY <1>1, DeliveryInvariant, PTL

\* An emit about to return has disconnected the once slots it ran.
THEOREM SignalOnceRetired == Spec => []OnceRetired
<1>1. Inv /\ Delivery => OnceRetired
  BY DEF Delivery, Emits, Retires, OnceRetired
<1> QED
  BY <1>1, DeliveryInvariant, PTL

\* connect_once in a program with one thread: no later emit runs the slot again.
\* Two threads can, each from a snapshot taken while the flag was up.
THEOREM SignalOnceNeverRunsAgain == Spec => [](Alone => OnceNeverRunsAgain)
<1>1. Inv /\ Delivery => (Alone => OnceNeverRunsAgain)
  BY DEF Delivery, Emits, Spends, OnceNeverRunsAgain
<1> QED
  BY <1>1, DeliveryInvariant, PTL

\* An emit of the direct path calls everything that was connected when it began
\* and still is when it ends.
THEOREM SignalDirectDelivers == Spec => DirectDelivers
<1> DEFINE Safe == \A t \in Threads : path[t] = "direct" => Delivered(t)
<1>1. Inv /\ Delivery => Safe
  <2> SUFFICES ASSUME Delivery, NEW t \in Threads, path[t] = "direct", epc[t] = "finish",
                      policy[t] = "Continue", NEW i \in began[t].live, connected[i]
               PROVE  i \in ToSet(ran[t])
    BY DEF Delivered
  <2>1. Visiting(t) /\ Covers(t)
    BY DEF Delivery, Emits
  <2>2. snapshot[t] = <<>> /\ ToSet(<<>>) = {}
    BY <2>1, EmptyListed DEF Visiting, Late
  <2> QED
    BY <2>1, <2>2 DEF Covers
<1>2. Inv /\ Delivery /\ [Next]_vars => [Safe]_vars
  BY <1>1
<1> QED
  BY <1>2, DeliveryInvariant, PTL DEF Spec, DirectDelivers

-----------------------------------------------------------------------------
(* The signal implements its contract                                        *)

Live == {i \in 1 .. next_id - 1 : connected[i]}
Spent == {i \in 1 .. next_id - 1 : ~connected[i]}
Delivering == {t \in Threads : emitting[t]}
Called == [t \in Threads |-> ToSet(ran[t])]
Running == [t \in Threads |-> IF epc[t] = "callback" THEN Head(snapshot[t]) ELSE NoId]

Mapped == <<Live, Spent, Delivering, Called, Running, once_ids>>

\* The initial state is one of the contract.
LEMMA InitContract == Init => Contract!Init
<1> SUFFICES ASSUME Init
             PROVE  Contract!Init
  OBVIOUS
<1>1. 1 .. next_id - 1 = {} /\ ToSet(<<>>) = {}
  BY EmptyListed DEF Init
<1> QED
  BY <1>1 DEF Init, Contract!Init

\* A step that the contract does not see.
LEMMA Unseen ==
  ASSUME UNCHANGED <<connected, next_id, emitting, ran, once_ids>>,
         \A u \in Threads : /\ epc'[u] = "callback" <=> epc[u] = "callback"
                            /\ epc[u] = "callback" => snapshot'[u] = snapshot[u]
  PROVE  UNCHANGED Mapped
<1>1. Live' = Live /\ Spent' = Spent /\ Delivering' = Delivering /\ Called' = Called
  BY DEF Live, Spent, Delivering, Called
<1>2. Running' = Running
  BY DEF Running
<1> QED
  BY <1>1, <1>2 DEF Mapped

\* Flags that go down: those of gone that were up.
LEMMA ClosesFlags ==
  ASSUME Delivery, ControlType, NEW gone, next_id' = next_id,
         \A i \in Ids : connected'[i] = (connected[i] /\ i \notin gone),
         UNCHANGED <<emitting, ran, once_ids>>,
         \A u \in Threads : /\ epc'[u] = "callback" <=> epc[u] = "callback"
                            /\ epc[u] = "callback" => snapshot'[u] = snapshot[u]
  PROVE  Contract!Next
<1>1. PICK S : S = gone \cap Live
  OBVIOUS
<1>2. 1 .. next_id - 1 \subseteq Ids
  BY UsedIds DEF Used
<1>3. S \subseteq Live /\ S \in SUBSET Ids
  BY <1>1, <1>2 DEF Live
<1>4. Live' = Live \ S /\ Spent' = Spent \cup S
  BY <1>1, <1>2 DEF Live, Spent
<1>5. Delivering' = Delivering /\ Called' = Called /\ Running' = Running
  BY DEF Delivering, Called, Running
<1>6. Contract!Close(S)
  BY <1>3, <1>4, <1>5 DEF Contract!Close, Live, Spent, Delivering, Called, Running
<1> QED
  BY <1>3, <1>6 DEF Contract!Next

\* connect, disconnect and the group operations.
LEMMA OpsImplement ==
  ASSUME Delivery, ControlType, NEW t \in Threads,
         \/ ConnectInsert(t) \/ ConnectStats(t) \/ InvalidateLock(t) \/ InvalidateSkip(t)
         \/ CacheClear(t) \/ DisconnectRetain(t) \/ DisconnectClear(t)
         \/ DisconnectAll(t) \/ DisconnectAllClear(t) \/ DisconnectAllStats(t)
         \/ (\E g \in Groups : DisconnectGroup(t, g)) \/ DisconnectGroupRetain(t)
         \/ DisconnectGroupStats(t)
  PROVE  UNCHANGED Mapped
<1>1. UNCHANGED <<next_id, emitvars>>
  BY DEF ConnectInsert, ConnectStats, InvalidateLock, InvalidateSkip, CacheClear,
         DisconnectRetain, DisconnectClear, DisconnectAll, DisconnectAllClear, DisconnectAllStats,
         DisconnectGroup, DisconnectGroupRetain, DisconnectGroupStats, datavars
<1>2. connected' = connected
  <2>1. CASE DisconnectRetain(t)
    <3>1. ~connected[target[t]] /\ connected' = Unflag({target[t]})
      BY <2>1 DEF DisconnectRetain, Delivery, TargetsHeld, Held
    <3>2. connected = [i \in Ids |-> connected[i]]
      BY DEF ControlType
    <3>3. \A i \in Ids : (connected[i] /\ i \notin {target[t]}) = connected[i]
      BY <3>1 DEF ControlType
    <3> QED
      BY <3>1, <3>2, <3>3 DEF Unflag
  <2>2. CASE ~DisconnectRetain(t)
    BY <2>2 DEF ConnectInsert, ConnectStats, InvalidateLock, InvalidateSkip, CacheClear,
           DisconnectClear, DisconnectAll, DisconnectAllClear, DisconnectAllStats,
           DisconnectGroup, DisconnectGroupRetain, DisconnectGroupStats, datavars
  <2> QED
    BY <2>1, <2>2
<1> QED
  BY <1>1, <1>2, Unseen DEF emitvars

\* The first section of a connect opens a connection.
LEMMA OpensImplement ==
  ASSUME Delivery, ControlType, NEW t \in Threads, NEW r \in Requests, ConnectAlloc(t, r)
  PROVE  Contract!Next
<1>1. /\ next_id \in Ids /\ next_id \in Nat /\ next_id >= 1 /\ next_id' = next_id + 1
      /\ connected' = [connected EXCEPT ![next_id] = TRUE]
      /\ UNCHANGED <<emitting, epc, snapshot, ran, once_ids>>
  BY SignalAssumption DEF ConnectAlloc, ControlType, Ids, emitvars
<1>2. 1 .. next_id' - 1 = (1 .. next_id - 1) \cup {next_id} /\ next_id \notin 1 .. next_id - 1
  <2>1. next_id' - 1 = next_id
    BY <1>1
  <2>2. 1 .. next_id = (1 .. next_id - 1) \cup {next_id} /\ next_id \notin 1 .. next_id - 1
    BY <1>1
  <2> QED
    BY <2>1, <2>2
<1>3. 1 .. next_id - 1 \subseteq Ids
  BY UsedIds DEF Used
<1>4. connected'[next_id] /\ \A i \in 1 .. next_id - 1 : connected'[i] = connected[i]
  BY <1>1, <1>2, <1>3 DEF ControlType
<1>5. Live' = Live \cup {next_id} /\ Spent' = Spent /\ next_id \notin Live \cup Spent
  <2>1. \A i \in 1 .. next_id' - 1 : i = next_id \/ i \in 1 .. next_id - 1
    BY <1>2
  <2> QED
    BY <1>2, <1>4, <2>1 DEF Live, Spent
<1>6. Delivering' = Delivering /\ Called' = Called /\ Running' = Running
  BY <1>1 DEF Delivering, Called, Running
<1>7. PICK id \in Ids : id = next_id
  BY <1>1
<1>8. Contract!Open(id)
  BY <1>1, <1>5, <1>6, <1>7 DEF Contract!Open, Live, Spent, Delivering, Called, Running
<1> QED
  BY <1>8 DEF Contract!Next

\* Flags that go down close connections; with none to take down nothing is seen.
LEMMA ClosesImplement ==
  ASSUME Delivery, ControlType, NEW t \in Threads,
         \/ \E id \in Ids : Disconnect(t, id) \/ DropConnection(t, id)
         \/ LowerFlag(t)
  PROVE  Contract!Next
<1>1. PICK id : /\ connected' = [connected EXCEPT ![id] = FALSE]
                /\ UNCHANGED <<next_id, emitting, epc, snapshot, ran, once_ids>>
  BY DEF Disconnect, DropConnection, SwapFlag, LowerFlag, emitvars
<1>2. \A i \in Ids : connected'[i] = (connected[i] /\ i \notin {id})
  BY <1>1 DEF ControlType
<1>3. \A u \in Threads : /\ epc'[u] = "callback" <=> epc[u] = "callback"
                         /\ epc[u] = "callback" => snapshot'[u] = snapshot[u]
  BY <1>1
<1>4. UNCHANGED <<emitting, ran, once_ids>> /\ next_id' = next_id
  BY <1>1
<1> QED
  BY <1>2, <1>3, <1>4, ClosesFlags

\* The emits.
LEMMA BeginImplements ==
  ASSUME Delivery, ControlType, EmittingGuard, NEW t \in Threads, NEW p \in Policies,
         EmitBegin(t, p), ~emitting[t]
  PROVE  Contract!Next
<1>1. /\ emitting' = [emitting EXCEPT ![t] = TRUE] /\ epc' = [epc EXCEPT ![t] = "readSlots"]
      /\ UNCHANGED <<connected, next_id, snapshot, ran, once_ids>>
  BY DEF EmitBegin, EmitRefused, EGoto
<1>2. epc[t] = "idle"
  BY DEF EmittingGuard
<1>3. Live' = Live /\ Spent' = Spent /\ Called' = Called
  BY <1>1 DEF Live, Spent, Called
<1>4. Delivering' = Delivering \cup {t} /\ t \notin Delivering
  BY <1>1 DEF Delivering, ControlType
<1>5. Running' = Running
  <2>1. \A u \in Threads : epc'[u] = "callback" <=> epc[u] = "callback"
    BY <1>1, <1>2 DEF ControlType
  <2> QED
    BY <1>1, <2>1 DEF Running
<1>6. Contract!Begin(t)
  BY <1>1, <1>3, <1>4, <1>5 DEF Contract!Begin, Live, Spent, Delivering, Called, Running
<1> QED
  BY <1>6 DEF Contract!Next

\* Taking a snapshot and passing over slots is not seen.
LEMMA WalkImplements ==
  ASSUME Delivery, ControlType, NEW t \in Threads,
         \/ EmitRead(t) \/ CacheRead(t) \/ CacheHeld(t) \/ BuildSnapshot(t) \/ StoreLock(t)
         \/ StoreSkip(t) \/ Store(t) \/ SkipSlot(t) \/ LoopDone(t)
         \/ CleanupOnceSlots(t) \/ CleanupRetain(t) \/ CleanupStats(t)
  PROVE  UNCHANGED Mapped
<1>1. UNCHANGED <<connected, next_id, emitting, ran, once_ids>>
  BY DEF EmitRead, CacheRead, CacheHeld, BuildSnapshot, StoreLock, StoreSkip, Store,
         SkipSlot, LoopDone, CleanupOnceSlots, CleanupRetain, CleanupStats, datavars
<1>2. epc[t] # "callback" /\ \E e : e # "callback" /\ epc' = [epc EXCEPT ![t] = e]
  <2>1. CASE EmitRead(t)
    BY <2>1 DEF EmitRead, EGoto
  <2>2. CASE CacheHeld(t)
    BY <2>2 DEF CacheHeld, EGoto
  <2>3. CASE CacheRead(t) \/ BuildSnapshot(t) \/ StoreLock(t) \/ StoreSkip(t) \/ Store(t)
    BY <2>3 DEF CacheRead, BuildSnapshot, StoreLock, StoreSkip, Store, EGoto
  <2>4. CASE SkipSlot(t)
    <3>1. epc' = [epc EXCEPT ![t] = "loop"] /\ epc[t] = "loop"
      BY <2>4 DEF SkipSlot, ControlType
    <3> QED
      BY <3>1
  <2>5. CASE LoopDone(t)
    BY <2>5 DEF LoopDone, EGoto
  <2>6. CASE CleanupOnceSlots(t) \/ CleanupRetain(t) \/ CleanupStats(t)
    BY <2>6 DEF CleanupOnceSlots, CleanupRetain, CleanupStats, EGoto
  <2> QED
    BY <2>1, <2>2, <2>3, <2>4, <2>5, <2>6
<1>3. \A u \in Threads \ {t} : epc'[u] = epc[u] /\ snapshot'[u] = snapshot[u]
  <2>1. \A u \in Threads \ {t} : epc'[u] = epc[u]
    BY <1>2 DEF ControlType
  <2>2. snapshot' = snapshot \/ \E s : snapshot' = [snapshot EXCEPT ![t] = s]
    BY DEF EmitRead, CacheRead, CacheHeld, BuildSnapshot, Take, StoreLock, StoreSkip, Store,
         SkipSlot, LoopDone, CleanupOnceSlots, CleanupRetain, CleanupStats
  <2>3. \A u \in Threads \ {t} : snapshot'[u] = snapshot[u]
    BY <2>2 DEF Delivery, DataType
  <2> QED
    BY <2>1, <2>3
<1>4. epc'[t] # "callback"
  BY <1>2 DEF ControlType
<1> QED
  BY <1>1, <1>2, <1>3, <1>4, Unseen

\* A callback that begins delivers, to a live connection and not again.
LEMMA InvokeImplements ==
  ASSUME Delivery, ControlType, EmittingGuard, Kept, NEW t \in Threads, InvokeSlot(t)
  PROVE  Contract!Next
<1>1. PICK h : h = Head(snapshot[t])
  OBVIOUS
<1>2. /\ epc[t] = "loop" /\ snapshot[t] # <<>> /\ connected[h]
      /\ ran' = [ran EXCEPT ![t] = Append(ran[t], h)]
      /\ epc' = [epc EXCEPT ![t] = "callback"]
      /\ UNCHANGED <<connected, next_id, emitting, snapshot, once_ids>>
  BY <1>1 DEF InvokeSlot, MayInvoke, EGoto, datavars
<1>3. h \notin ToSet(ran[t])
  BY <1>1, InvokeStep
<1>4. Listed(Placed, attr, snapshot[t]) /\ ran[t] \in Seq(Ids) /\ Placed \subseteq Used
  BY UsedIds DEF Delivery, Emits, Remembers, Listed
<1>5. h \in Used /\ h \in Ids
  BY <1>1, <1>2, <1>4, ListedTail
<1>6. ToSet(Append(ran[t], h)) = ToSet(ran[t]) \cup {h}
  <2>1. PICK r, v : r = ran[t] /\ v = Append(r, h)
    OBVIOUS
  <2>2. /\ v \in Seq(Ids) /\ Len(v) = Len(r) + 1 /\ v[Len(r) + 1] = h /\ Len(r) \in Nat
        /\ \A i \in 1 .. Len(r) : v[i] = r[i]
    BY <1>4, <1>5, <2>1, AppendProperties, LenProperties
  <2>3. /\ Len(r) + 1 \in 1 .. Len(v) /\ \A i \in 1 .. Len(r) : i \in 1 .. Len(v)
        /\ \A i \in 1 .. Len(v) : i = Len(r) + 1 \/ i \in 1 .. Len(r)
    BY <2>2
  <2>4. ASSUME NEW x
        PROVE  x \in ToSet(v) <=> x = h \/ x \in ToSet(r)
    <3>1. x \in ToSet(v) <=> \E i \in 1 .. Len(v) : x = v[i]
      BY <2>2, InToSet
    <3>2. x \in ToSet(r) <=> \E i \in 1 .. Len(r) : x = r[i]
      BY <1>4, <2>1, InToSet
    <3> QED
      BY <2>2, <2>3, <3>1, <3>2
  <2> QED
    BY <2>1, <2>4
<1>7. Live' = Live /\ Spent' = Spent /\ Delivering' = Delivering
  BY <1>2 DEF Live, Spent, Delivering
<1>8. h \in Live \ Called[t] /\ t \in Delivering /\ Running[t] = NoId
  BY <1>2, <1>3, <1>5 DEF Live, Used, Called, Delivering, Running, EmittingGuard
<1>9. Called' = [Called EXCEPT ![t] = @ \cup {h}]
  <2>1. ran'[t] = Append(ran[t], h) /\ \A u \in Threads \ {t} : ran'[u] = ran[u]
    BY <1>2 DEF Delivery, DataType
  <2>2. \A u \in Threads : ToSet(ran'[u]) = IF u = t THEN ToSet(ran[t]) \cup {h} ELSE ToSet(ran[u])
    BY <1>6, <2>1
  <2>3. Called' = [u \in Threads |-> IF u = t THEN ToSet(ran[t]) \cup {h} ELSE ToSet(ran[u])]
    BY <2>2 DEF Called
  <2> QED
    BY <2>3 DEF Called
<1>10. Running' = [Running EXCEPT ![t] = h]
  <2>1. epc'[t] = "callback" /\ \A u \in Threads \ {t} : epc'[u] = epc[u]
    BY <1>2 DEF ControlType
  <2>2. Running' = [u \in Threads |-> IF u = t THEN h
                                      ELSE IF epc[u] = "callback" THEN Head(snapshot[u]) ELSE NoId]
    BY <1>1, <1>2, <2>1 DEF Running
  <2> QED
    BY <2>2 DEF Running
<1>11. Contract!Deliver(t, h)
  BY <1>2, <1>7, <1>8, <1>9, <1>10 DEF Contract!Deliver, Live, Spent, Delivering, Called, Running
<1> QED
  BY <1>5, <1>11 DEF Contract!Next

\* A callback that ends, well or not, ends in the contract.
LEMMA CallbackImplements ==
  ASSUME Delivery, ControlType, NEW t \in Threads, CallbackOk(t) \/ CallbackPanic(t)
  PROVE  Contract!Next
<1>1. PICK h, rest : h = Head(snapshot[t]) /\ rest = snapshot'[t]
  OBVIOUS
<1>2. /\ epc[t] = "callback" /\ epc' = [epc EXCEPT ![t] = "loop"]
      /\ \E s : snapshot' = [snapshot EXCEPT ![t] = s]
      /\ UNCHANGED <<connected, next_id, emitting, ran>>
  BY DEF CallbackOk, CallbackPanic, EGoto, datavars
<1>3. PICK S \in SUBSET {h} : once_ids' = [once_ids EXCEPT ![t] = @ \cup S]
  <2>1. CASE CallbackOk(t)
    BY <1>1, <2>1 DEF CallbackOk
  <2>2. CASE CallbackPanic(t)
    <3>1. once_ids' = [once_ids EXCEPT ![t] = @ \cup {}]
      BY <2>2 DEF CallbackPanic, Delivery, DataType
    <3>2. {} \in SUBSET {h}
      OBVIOUS
    <3> QED
      BY <3>1, <3>2
  <2> QED
    BY <2>1, <2>2
<1>4. Emits(t)
  BY DEF Delivery
<1>5. h \in Ids /\ h # NoId
  <2>1. Listed(Placed, attr, snapshot[t]) /\ snapshot[t] # <<>>
    BY <1>2, <1>4 DEF Emits, Remembers, Visiting
  <2>2. h \in Ids
    BY <1>1, <2>1, ListedTail
  <2> QED
    BY <2>2 DEF Ids, NoId
<1>6. Live' = Live /\ Spent' = Spent /\ Delivering' = Delivering /\ Called' = Called
  BY <1>2 DEF Live, Spent, Delivering, Called
<1>7. Running[t] = h
  BY <1>1, <1>2 DEF Running
<1>8. Running' = [Running EXCEPT ![t] = NoId]
  <2>1. epc'[t] = "loop" /\ \A u \in Threads \ {t} : epc'[u] = epc[u] /\ snapshot'[u] = snapshot[u]
    BY <1>2 DEF ControlType, Delivery, DataType
  <2>2. Running' = [u \in Threads |-> IF u = t THEN NoId
                                      ELSE IF epc[u] = "callback" THEN Head(snapshot[u]) ELSE NoId]
    BY <2>1 DEF Running
  <2> QED
    BY <2>2 DEF Running
<1>9. S \in SUBSET Ids
  BY <1>5, <1>3
<1>10. Contract!CallbackEnds(t, S)
  BY <1>5, <1>6, <1>7, <1>8, <1>3 DEF Contract!CallbackEnds, Live, Spent, Delivering, Called, Running
<1> QED
  BY <1>9, <1>10 DEF Contract!Next

\* An emit ends when all its once slots that succeeded are spent.
LEMMA EndImplements ==
  ASSUME Delivery, ControlType, EmittingGuard, NEW t \in Threads, EmitFinish(t)
  PROVE  Contract!Next
<1>1. /\ epc[t] = "finish" /\ epc' = [epc EXCEPT ![t] = "idle"]
      /\ emitting' = [emitting EXCEPT ![t] = FALSE] /\ once_ids' = [once_ids EXCEPT ![t] = {}]
      /\ ran' = [ran EXCEPT ![t] = <<>>]
      /\ UNCHANGED <<connected, next_id, snapshot>>
  BY DEF EmitFinish, EGoto
<1>2. Live' = Live /\ Spent' = Spent
  BY <1>1 DEF Live, Spent
<1>3. Delivering' = Delivering \ {t} /\ t \in Delivering
  BY <1>1 DEF Delivering, ControlType, EmittingGuard
<1>4. once_ids[t] \subseteq Spent
  BY <1>1 DEF Delivery, Emits, Retires, Remembers, Placed, Used, Spent
<1>5. Called' = [Called EXCEPT ![t] = {}]
  <2>1. ran'[t] = <<>> /\ \A u \in Threads \ {t} : ran'[u] = ran[u]
    BY <1>1 DEF Delivery, DataType
  <2>2. Called' = [u \in Threads |-> IF u = t THEN {} ELSE ToSet(ran[u])]
    BY <2>1, EmptyListed DEF Called
  <2> QED
    BY <2>2 DEF Called
<1>6. Running' = Running /\ Running[t] = NoId
  <2>1. \A u \in Threads : epc'[u] = "callback" <=> epc[u] = "callback"
    BY <1>1 DEF ControlType
  <2> QED
    BY <1>1, <2>1 DEF Running
<1>7. Contract!End(t)
  BY <1>1, <1>2, <1>3, <1>4, <1>5, <1>6 DEF Contract!End, Live, Spent, Delivering, Called, Running
<1> QED
  BY <1>7 DEF Contract!Next

\* Every step is one of the contract or is not seen.
LEMMA StepContract == Inv /\ Delivery /\ [Next]_vars => [Contract!Next]_(Contract!vars)
<1> SUFFICES ASSUME Inv, Delivery, [Next]_vars
             PROVE  Contract!Next \/ UNCHANGED Mapped
  BY DEF Mapped, Live, Spent, Delivering, Called, Running, Contract!vars
<1>1. ControlType /\ EmittingGuard
  BY DEF Inv
<1>2. ASSUME UNCHANGED vars
      PROVE  UNCHANGED Mapped
  BY <1>2, Unseen DEF vars, datavars, emitvars
<1>3. ASSUME NEW t \in Threads, Progress(t)
      PROVE  Contract!Next \/ UNCHANGED Mapped
  <2>1. InvokeSlot(t) => Kept
    <3>1. InvokeSlot(t) => /\ ~DisconnectAllClear(t) /\ ~DisconnectGroupRetain(t)
                           /\ ~CleanupRetain(t)
      BY DEF InvokeSlot, DisconnectAllClear, DisconnectGroupRetain, CleanupRetain, EGoto, emitvars, Inv,
             ControlType
    <3> QED
      BY <1>3, <3>1, LeavingKept DEF Delivery
  <2> QED
    BY <1>1, <1>3, <2>1, OpsImplement, ClosesImplement, WalkImplements, InvokeImplements,
       CallbackImplements, EndImplements DEF Progress
<1>4. ASSUME NEW t \in Threads, Start(t)
      PROVE  Contract!Next \/ UNCHANGED Mapped
  <2>1. ASSUME NEW p \in Policies, EmitBegin(t, p)
        PROVE  Contract!Next \/ UNCHANGED Mapped
    <3>1. CASE emitting[t]
      <4>1. UNCHANGED vars
        BY <2>1, <3>1 DEF EmitBegin, EmitRefused
      <4> QED
        BY <4>1, <1>2
    <3>2. CASE ~emitting[t]
      BY <1>1, <2>1, <3>2, BeginImplements
    <3> QED
      BY <3>1, <3>2
  <2> QED
    BY <1>1, <1>4, <2>1, OpensImplement, ClosesImplement, OpsImplement DEF Start
<1> QED
  BY <1>2, <1>3, <1>4 DEF Next

\* A connection is live once and spent for good, an emit calls live connections
\* only and none twice, and a once connection that succeeded is spent before its
\* emit returns: the locks, the snapshot and its cache never show.
THEOREM SignalImplementsContract == Spec => ImplementsContract
<1>1. Spec => [][Contract!Next]_(Contract!vars)
  BY DeliveryInvariant, StepContract, PTL DEF Spec
<1> QED
  BY InitContract, <1>1, PTL DEF Spec, ImplementsContract, Contract!Spec

-----------------------------------------------------------------------------
(* One thread: the cached snapshot is never stale when an emit takes it      *)

CacheFull(t) ==
  snapshot_cache # NoSnapshot /\ pc[t] \notin {"connStats", "invalidate", "cacheClear"} =>
    ToSet(slots) \subseteq ToSet(snapshot_cache)
StoreFull(t) == epc[t] \in {"store", "storing"} => ToSet(slots) \subseteq ToSet(snapshot[t])
Sees(t) ==
  epc[t] \in {"store", "storing", "loop", "callback"} \cup Late /\ policy[t] = "Continue" =>
    \A i \in began[t].live : connected[i] => i \in ToSet(ran[t]) \cup ToSet(snapshot[t])
Fresh == Alone => \A t \in Threads : CacheFull(t) /\ StoreFull(t) /\ Sees(t)

\* At the start nothing is cached.
LEMMA InitFresh == Init => Fresh
  BY DEF Init, Fresh, CacheFull, StoreFull, Sees, Late

\* A connection that has reached the vector and is connected is in it.
LEMMA LiveListed ==
  ASSUME Delivery, NEW i \in Placed, connected[i]
  PROVE  i \in ToSet(slots)
<1>1. i \in Used /\ \A u \in Threads : ~(pc[u] = "connInsert" /\ target[u] = i)
  BY DEF Placed
<1> QED
  BY <1>1 DEF Delivery, FlagsMatchSlots, Used

\* An operation: only the cache has to be looked at.
LEMMA FreshOp ==
  ASSUME Delivery, Fresh, Alone, NEW t \in Threads, UNCHANGED emitvars,
         epc[t] \notin {"store", "storing"},
         \A i \in Placed : connected'[i] => connected[i], CacheFull(t)'
  PROVE  Fresh'
<1>1. UNCHANGED <<epc, policy, snapshot, ran, began>>
  BY DEF emitvars
<1>2. StoreFull(t)'
  BY <1>1 DEF StoreFull
<1>3. Sees(t)'
  <2>1. Sees(t) /\ began[t].live \subseteq Placed
    BY DEF Fresh, Delivery, Emits, Remembers
  <2> QED
    BY <1>1, <2>1 DEF Sees
<1> QED
  BY <1>2, <1>3 DEF Fresh, Alone

\* Fresh over the later sections of the operations.
LEMMA FreshOps ==
  ASSUME Inv, Delivery, Fresh, Alone, NEW t \in Threads,
         \/ ConnectInsert(t) \/ ConnectStats(t) \/ InvalidateLock(t) \/ InvalidateSkip(t)
         \/ CacheClear(t) \/ DisconnectRetain(t) \/ DisconnectClear(t)
         \/ LowerFlag(t) \/ DisconnectAllClear(t) \/ DisconnectAllStats(t)
         \/ DisconnectGroupRetain(t) \/ DisconnectGroupStats(t)
  PROVE  Fresh'
<1>1. ControlType /\ Nesting /\ LockDiscipline /\ CacheFull(t)
  BY DEF Inv, Fresh
<1>2. UNCHANGED emitvars
  BY DEF ConnectInsert, ConnectStats, InvalidateLock, InvalidateSkip, CacheClear,
         DisconnectRetain, DisconnectClear, LowerFlag, DisconnectAllClear, DisconnectAllStats,
         DisconnectGroupRetain, DisconnectGroupStats
<1>3. epc[t] \in {"idle", "callback", "finish", "cleanupFlags"}
  <2>1. CASE LowerFlag(t)
    <3>1. Leaving(t) # {}
      BY <2>1 DEF LowerFlag
    <3> QED
      BY <3>1, <1>1, LeavingHolds DEF Nesting
  <2>2. CASE ~LowerFlag(t)
    <3>1. pc[t] # "idle"
      BY <2>2 DEF ConnectInsert, ConnectStats, InvalidateLock, InvalidateSkip, CacheClear,
             DisconnectRetain, DisconnectClear, DisconnectAllClear, DisconnectAllStats,
             DisconnectGroupRetain, DisconnectGroupStats
    <3> QED
      BY <3>1, <1>1 DEF Nesting
  <2> QED
    BY <2>1, <2>2
<1>4. \A i \in Placed : connected'[i] => connected[i]
  <2>1. Placed \subseteq Ids
    BY <1>1, UsedIds
  <2>2. \/ connected' = connected \/ connected' = Unflag({target[t]})
        \/ \E x : connected' = [connected EXCEPT ![x] = FALSE]
    BY DEF ConnectInsert, ConnectStats, InvalidateLock, InvalidateSkip, CacheClear,
           DisconnectRetain, DisconnectClear, LowerFlag, DisconnectAllClear, DisconnectAllStats,
           DisconnectGroupRetain, DisconnectGroupStats, datavars
  <2> QED
    BY <1>1, <2>1, <2>2 DEF Unflag, ControlType
<1>5. ~InvalidateSkip(t)
  <2> SUFFICES ASSUME InvalidateSkip(t)
               PROVE  FALSE
    OBVIOUS
  <2>1. pc[t] = "invalidate" /\ ~(cache_writer = NoThread /\ cache_readers = {})
    BY DEF InvalidateSkip, CacheFree
  <2>2. cache_writer # t /\ t \notin cache_readers
    BY <2>1, <1>1, <1>3 DEF LockDiscipline
  <2>3. cache_writer \in Threads \cup {NoThread} /\ cache_readers \subseteq Threads
    BY <1>1 DEF ControlType
  <2> QED
    BY <2>1, <2>2, <2>3 DEF Alone
<1>6. CacheFull(t)'
  <2>1. CASE ConnectInsert(t) \/ ConnectStats(t) \/ InvalidateLock(t) \/ DisconnectClear(t)
             \/ DisconnectAllStats(t) \/ DisconnectGroupStats(t)
    <3>1. pc'[t] \in {"connStats", "invalidate", "cacheClear"}
      BY <2>1, <1>1 DEF ConnectInsert, ConnectStats, InvalidateLock, DisconnectClear,
             DisconnectAllStats, DisconnectGroupStats, Goto, ControlType
    <3> QED
      BY <3>1 DEF CacheFull
  <2>2. CASE CacheClear(t)
    BY <2>2 DEF CacheClear, CacheFull
  <2>3. CASE \/ DisconnectRetain(t) \/ LowerFlag(t)
             \/ DisconnectAllClear(t) \/ DisconnectGroupRetain(t)
    <3>1. /\ snapshot_cache' = snapshot_cache
          /\ pc' = pc \/ pc[t] \in {"discRetain", "allFlags", "groupFlags"}
          /\ \E gone : slots' \in {slots, <<>>, Retain(slots, gone)}
      BY <2>3 DEF DisconnectRetain, LowerFlag, DisconnectAllClear, DisconnectGroupRetain, opvars
    <3>2. Listed(Placed, attr, slots)
      BY DEF Delivery, ListsRight
    <3>3. ToSet(slots') \subseteq ToSet(slots)
      BY <3>1, <3>2, ListedRetain, EmptyListed
    <3> QED
      BY <1>1, <3>1, <3>3 DEF CacheFull
  <2> QED
    BY <1>5, <2>1, <2>2, <2>3
<1> QED
  BY <1>2, <1>3, <1>4, <1>6, FreshOp

\* Fresh over the steps that begin an operation or an emit.
LEMMA FreshStarts ==
  ASSUME Inv, Delivery, Fresh, Alone, NEW t \in Threads, Start(t)
  PROVE  Fresh'
<1>1. ControlType /\ EmittingGuard /\ CacheFull(t) /\ Listed(Placed, attr, slots)
  BY DEF Inv, Fresh, Delivery, ListsRight
<1>2. Placed \subseteq Used /\ Used \subseteq Ids
  BY <1>1, UsedIds
<1>3. ASSUME epc[t] \in {"idle", "callback"}, pc[t] = "idle", UNCHANGED <<emitvars, snapshot_cache>>,
             ToSet(slots') \subseteq ToSet(slots),
             \A i \in Placed : connected'[i] => connected[i]
      PROVE  Fresh'
  <2>1. CacheFull(t)'
    BY <1>1, <1>3 DEF CacheFull
  <2> QED
    BY <1>3, <2>1, FreshOp
<1>4. ASSUME NEW r \in Requests, ConnectAlloc(t, r)
      PROVE  Fresh'
  <2>1. /\ epc[t] \in {"idle", "callback"} /\ pc[t] = "idle"
        /\ UNCHANGED <<emitvars, snapshot_cache, slots>>
    BY <1>4 DEF ConnectAlloc, MayStart
  <2>2. Kept
    <3>1. ~DisconnectAllClear(t) /\ ~DisconnectGroupRetain(t) /\ ~CleanupRetain(t)
      BY <2>1 DEF DisconnectAllClear, DisconnectGroupRetain, CleanupRetain
    <3> QED
      BY <3>1, LeavingKept DEF Delivery
  <2>3. \A i \in Placed : connected'[i] => connected[i]
    BY <1>1, <1>4, <2>2, AllocStep DEF Delivery, Onward
  <2> QED
    BY <1>3, <2>1, <2>3
<1>5. ASSUME NEW id \in Ids, Disconnect(t, id) \/ DropConnection(t, id)
      PROVE  Fresh'
  <2>1. /\ epc[t] \in {"idle", "callback"} /\ pc[t] = "idle"
        /\ connected' = [connected EXCEPT ![id] = FALSE]
        /\ UNCHANGED <<emitvars, snapshot_cache, slots>>
    BY <1>5 DEF Disconnect, DropConnection, SwapFlag, MayStart
  <2>2. \A i \in Placed : connected'[i] => connected[i]
    BY <1>1, <1>2, <2>1 DEF ControlType
  <2> QED
    BY <1>3, <2>1, <2>2
<1>6. ASSUME DisconnectAll(t) \/ \E g \in Groups : DisconnectGroup(t, g)
      PROVE  Fresh'
  <2>1. /\ epc[t] \in {"idle", "callback"} /\ pc[t] = "idle"
        /\ UNCHANGED <<emitvars, snapshot_cache, slots, connected>>
    BY <1>6 DEF DisconnectAll, DisconnectGroup, MayStart, datavars
  <2> QED
    BY <1>3, <2>1
<1>7. ASSUME NEW p \in Policies, EmitBegin(t, p)
      PROVE  Fresh'
  <2>1. CASE emitting[t]
    <3>1. UNCHANGED <<pc, epc, slots, snapshot_cache, snapshot, policy, began, connected, ran>>
      BY <1>7, <2>1 DEF EmitBegin, EmitRefused, vars, datavars, opvars, emitvars
    <3> QED
      BY <3>1 DEF Fresh, CacheFull, StoreFull, Sees
  <2>2. CASE ~emitting[t]
    <3>1. epc'[t] = "readSlots" /\ UNCHANGED <<pc, slots, snapshot_cache>>
      BY <1>1, <1>7, <2>2 DEF EmitBegin, EmitRefused, EGoto, ControlType, opvars
    <3>2. CacheFull(t)' /\ StoreFull(t)' /\ Sees(t)'
      BY <1>1, <3>1 DEF CacheFull, StoreFull, Sees, Late
    <3> QED
      BY <3>2 DEF Fresh, Alone
  <2> QED
    BY <2>1, <2>2
<1> QED
  BY <1>4, <1>5, <1>6, <1>7 DEF Start

\* The steps of an emit, for what they make of the snapshot.
LEMMA FreshEmit ==
  ASSUME Delivery, ControlType, Fresh, Alone, NEW t \in Threads,
         UNCHANGED <<slots, connected, policy, began>>,
         CacheFull(t)', NEW e, NEW s, NEW r,
         epc' = [epc EXCEPT ![t] = e], snapshot'[t] = s, ran'[t] = r,
         e \in {"store", "storing"} => ToSet(slots) \subseteq ToSet(s),
         e \in {"store", "storing", "loop", "callback"} \cup Late /\ policy[t] = "Continue" =>
           \A i \in began[t].live : connected[i] => i \in ToSet(r) \cup ToSet(s)
  PROVE  Fresh'
<1>1. epc'[t] = e
  BY DEF ControlType
<1>2. StoreFull(t)' /\ Sees(t)'
  BY <1>1 DEF StoreFull, Sees
<1> QED
  BY <1>2 DEF Fresh, Alone

\* Fresh while an emit takes its snapshot.
LEMMA FreshTakes ==
  ASSUME Inv, Delivery, Fresh, Alone, NEW t \in Threads,
         \/ EmitRead(t) \/ CacheRead(t) \/ CacheHeld(t) \/ BuildSnapshot(t)
         \/ StoreLock(t) \/ StoreSkip(t) \/ Store(t)
  PROVE  Fresh'
<1>1. ControlType /\ Nesting /\ CacheFull(t) /\ StoreFull(t) /\ Sees(t) /\ DataType
  BY DEF Inv, Fresh, Delivery
<1>2. /\ UNCHANGED <<slots, connected, policy, began, pc, ran>>
      /\ epc[t] \in {"readSlots", "cacheRead", "cacheHeld", "build", "store", "storing"}
  BY DEF EmitRead, CacheRead, CacheHeld, BuildSnapshot, Take, StoreLock, StoreSkip, Store,
         datavars, lockvars, opvars
<1>3. pc[t] = "idle"
  BY <1>1, <1>2 DEF Nesting
<1>4. \A i \in began[t].live : connected[i] => i \in ToSet(slots)
  BY LiveListed DEF Delivery, Emits, Remembers
<1>5. ASSUME NEW s, NEW e, snapshot'[t] = s, epc' = [epc EXCEPT ![t] = e],
             CacheFull(t)', ToSet(slots) \subseteq ToSet(s)
      PROVE  Fresh'
  <2>1. \A i \in began[t].live : connected[i] => i \in ToSet(ran[t]) \cup ToSet(s)
    BY <1>4, <1>5
  <2>2. ran'[t] = ran[t]
    BY <1>2
  <2> QED
    BY <1>1, <1>2, <1>5, <2>1, <2>2, FreshEmit
<1>6. snapshot_cache' = snapshot_cache => CacheFull(t)'
  BY <1>1, <1>2 DEF CacheFull
<1>7. \A s : snapshot' = [snapshot EXCEPT ![t] = s] => snapshot'[t] = s
  BY <1>1 DEF DataType
<1>8. CASE EmitRead(t) /\ Len(slots) <= Direct
  <2>1. /\ snapshot' = [snapshot EXCEPT ![t] = slots] /\ snapshot_cache' = snapshot_cache
        /\ \E e : epc' = [epc EXCEPT ![t] = e]
    BY <1>8 DEF EmitRead, EGoto, datavars
  <2>2. snapshot'[t] = slots
    BY <1>7, <2>1
  <2> QED
    BY <1>5, <1>6, <2>1, <2>2
<1>9. ASSUME epc'[t] \in {"cacheRead", "cacheHeld", "build"}, snapshot_cache' = snapshot_cache
      PROVE  Fresh'
  <2>1. StoreFull(t)' /\ Sees(t)'
    BY <1>9 DEF StoreFull, Sees, Late
  <2> QED
    BY <1>6, <1>9, <2>1 DEF Fresh, Alone
<1>10. CASE EmitRead(t) /\ ~(Len(slots) <= Direct)
  <2>1. epc'[t] = "cacheRead" /\ snapshot_cache' = snapshot_cache
    BY <1>1, <1>10 DEF EmitRead, EGoto, datavars, ControlType
  <2> QED
    BY <1>9, <2>1
<1>11. CASE CacheRead(t)
  <2>1. epc'[t] = "cacheHeld" /\ snapshot_cache' = snapshot_cache
    BY <1>1, <1>11 DEF CacheRead, EGoto, datavars, ControlType
  <2> QED
    BY <1>9, <2>1
<1>12. CASE CacheHeld(t)
  <2>1. CASE snapshot_cache # NoSnapshot
    <3>1. /\ snapshot' = [snapshot EXCEPT ![t] = snapshot_cache] /\ snapshot_cache' = snapshot_cache
          /\ epc' = [epc EXCEPT ![t] = "loop"]
      BY <1>12, <2>1 DEF CacheHeld, Take, EGoto, datavars
    <3>2. snapshot'[t] = snapshot_cache
      BY <1>7, <3>1
    <3>3. ToSet(slots) \subseteq ToSet(snapshot_cache)
      BY <1>1, <1>3, <2>1 DEF CacheFull
    <3> QED
      BY <1>5, <1>6, <3>1, <3>2, <3>3
  <2>2. CASE ~(snapshot_cache # NoSnapshot)
    <3>1. epc'[t] = "build" /\ snapshot_cache' = snapshot_cache
      BY <1>1, <1>12, <2>2 DEF CacheHeld, EGoto, datavars, ControlType
    <3> QED
      BY <1>9, <3>1
  <2> QED
    BY <2>1, <2>2
<1>13. CASE BuildSnapshot(t)
  <2>1. /\ snapshot' = [snapshot EXCEPT ![t] = slots] /\ snapshot_cache' = snapshot_cache
        /\ epc' = [epc EXCEPT ![t] = "store"]
    BY <1>13 DEF BuildSnapshot, Take, EGoto, datavars
  <2>2. snapshot'[t] = slots
    BY <1>7, <2>1
  <2> QED
    BY <1>5, <1>6, <2>1, <2>2
<1>14. CASE StoreLock(t) \/ StoreSkip(t) \/ Store(t)
  <2>1. /\ epc[t] \in {"store", "storing"} /\ \E e : epc' = [epc EXCEPT ![t] = e]
        /\ snapshot' = snapshot /\ snapshot_cache' \in {snapshot_cache, snapshot[t]}
    BY <1>14 DEF StoreLock, StoreSkip, Store, EGoto, datavars
  <2>2. ToSet(slots) \subseteq ToSet(snapshot[t]) /\ snapshot'[t] = snapshot[t]
    BY <1>1, <2>1 DEF StoreFull
  <2>3. CacheFull(t)'
    BY <1>2, <1>6, <2>1, <2>2 DEF CacheFull
  <2> QED
    BY <1>5, <2>1, <2>2, <2>3
<1> QED
  BY <1>8, <1>10, <1>11, <1>12, <1>13, <1>14

\* Fresh in the loop over the slots.
LEMMA FreshWalks ==
  ASSUME Inv, Delivery, Fresh, Alone, NEW t \in Threads,
         \/ SkipSlot(t) \/ InvokeSlot(t) \/ CallbackOk(t) \/ CallbackPanic(t) \/ LoopDone(t)
  PROVE  Fresh'
<1>1. ControlType /\ CacheFull(t) /\ Sees(t) /\ DataType /\ Emits(t)
  BY DEF Inv, Fresh, Delivery
<1>2. PICK s, r : s = snapshot[t] /\ r = ran[t]
  OBVIOUS
<1>3. /\ UNCHANGED <<slots, connected, policy, began, pc, snapshot_cache>>
      /\ epc[t] \in {"loop", "callback"}
  BY DEF SkipSlot, InvokeSlot, CallbackOk, CallbackPanic, LoopDone, datavars, opvars
<1>4. CacheFull(t)'
  BY <1>1, <1>3 DEF CacheFull
<1>5. policy[t] = "Continue" =>
        \A i \in began[t].live : connected[i] => i \in ToSet(r) \cup ToSet(s)
  BY <1>1, <1>2, <1>3 DEF Sees
<1>6. /\ Listed(Placed, attr, s) /\ Listed(Placed, attr, r)
      /\ epc[t] = "loop" => Follows(attr, r, s)
      /\ epc[t] = "callback" => s # <<>> /\ Head(s) \in ToSet(r)
  BY <1>1, <1>2 DEF Emits, Remembers, Visiting
<1>7. s # <<>> => \A x : x \in ToSet(s) <=> x = Head(s) \/ x \in ToSet(Tail(s))
  BY <1>6, ListedTail
<1>8. ASSUME NEW e \in {"loop", "callback", "cleanup", "finish"}, NEW q, NEW v,
             epc' = [epc EXCEPT ![t] = e], snapshot'[t] = q, ran'[t] = v,
             policy[t] = "Continue" =>
               \A i \in began[t].live : connected[i] => i \in ToSet(v) \cup ToSet(q)
      PROVE  Fresh'
  <2>1. e \notin {"store", "storing"}
    OBVIOUS
  <2> QED
    BY <1>1, <1>3, <1>4, <1>8, <2>1, FreshEmit
<1>9. CASE SkipSlot(t)
  <2>1. /\ s # <<>> /\ ~connected[Head(s)] /\ epc' = [epc EXCEPT ![t] = "loop"]
        /\ snapshot'[t] = Tail(s) /\ ran'[t] = r
    BY <1>1, <1>2, <1>9 DEF SkipSlot, MayInvoke, ControlType, DataType
  <2>2. policy[t] = "Continue" =>
          \A i \in began[t].live : connected[i] => i \in ToSet(r) \cup ToSet(Tail(s))
    BY <1>5, <1>7, <2>1
  <2> QED
    BY <1>8, <2>1, <2>2
<1>10. CASE InvokeSlot(t)
  <2>1. /\ s # <<>> /\ epc[t] = "loop" /\ epc' = [epc EXCEPT ![t] = "callback"]
        /\ snapshot'[t] = s /\ ran'[t] = Append(r, Head(s))
    BY <1>1, <1>2, <1>10 DEF InvokeSlot, EGoto, DataType
  <2>2. PICK P, a, v : P = Placed /\ a = attr /\ v = Append(r, Head(s))
    OBVIOUS
  <2>3. Listed(P, a, s) /\ s # <<>> /\ Listed(P, a, r) /\ Follows(a, r, s)
    BY <1>6, <2>1, <2>2
  <2>4. v = Append(r, Head(s))
    BY <2>2
  <2>5. \A x : x \in ToSet(v) <=> x = Head(s) \/ x \in ToSet(r)
    BY <2>3, <2>4, ListedVisit
  <2>6. policy[t] = "Continue" =>
          \A i \in began[t].live : connected[i] => i \in ToSet(v) \cup ToSet(s)
    BY <1>5, <2>5
  <2> QED
    BY <1>8, <2>1, <2>2, <2>6
<1>11. CASE CallbackOk(t) \/ CallbackPanic(t)
  <2>1. /\ s # <<>> /\ Head(s) \in ToSet(r) /\ epc' = [epc EXCEPT ![t] = "loop"]
        /\ policy[t] = "Continue" => snapshot'[t] = Tail(s)
        /\ ran'[t] = r
    <3>1. epc[t] = "callback" /\ epc' = [epc EXCEPT ![t] = "loop"] /\ ran' = ran
      BY <1>11 DEF CallbackOk, CallbackPanic, EGoto
    <3>2. policy[t] = "Continue" => snapshot' = [snapshot EXCEPT ![t] = Tail(s)]
      BY <1>2, <1>11 DEF CallbackOk, CallbackPanic, AfterPanic, DataType
    <3>3. policy[t] = "Continue" => snapshot'[t] = Tail(s)
      BY <1>1, <3>2 DEF DataType
    <3> QED
      BY <1>2, <1>6, <3>1, <3>3
  <2>2. PICK q : q = snapshot'[t]
    OBVIOUS
  <2>3. policy[t] = "Continue" =>
          \A i \in began[t].live : connected[i] => i \in ToSet(r) \cup ToSet(q)
    BY <1>5, <1>7, <2>1, <2>2
  <2> QED
    BY <1>8, <2>1, <2>2, <2>3
<1>12. CASE LoopDone(t)
  <2>1. snapshot'[t] = s /\ ran'[t] = r
        /\ \E e \in {"cleanup", "finish"} : epc' = [epc EXCEPT ![t] = e]
    BY <1>2, <1>12 DEF LoopDone, EGoto
  <2> QED
    BY <1>5, <1>8, <2>1
<1> QED
  BY <1>9, <1>10, <1>11, <1>12

\* Fresh over the cleanup and the end of an emit.
LEMMA FreshEnds ==
  ASSUME Inv, Delivery, Fresh, Alone, NEW t \in Threads,
         CleanupOnceSlots(t) \/ CleanupRetain(t) \/ CleanupStats(t) \/ EmitFinish(t)
  PROVE  Fresh'
<1>1. ControlType /\ CacheFull(t) /\ Sees(t) /\ DataType /\ Emits(t) /\ Listed(Placed, attr, slots)
  BY DEF Inv, Fresh, Delivery, ListsRight
<1>2. began[t].live \subseteq Ids
  BY <1>1, UsedIds DEF Emits, Remembers
<1>3. CASE CleanupOnceSlots(t) \/ CleanupRetain(t)
  <2>1. /\ \E gone : slots' \in {slots, Retain(slots, gone)}
        /\ UNCHANGED <<connected, pc, snapshot_cache, policy, began, ran, snapshot>>
        /\ epc[t] \in {"cleanup", "cleanupFlags"}
        /\ \E e \in {"cleanupFlags", "cleanupStats", "finish"} : epc' = [epc EXCEPT ![t] = e]
    BY <1>3 DEF CleanupOnceSlots, CleanupRetain, EGoto, datavars, opvars
  <2>2. ToSet(slots') \subseteq ToSet(slots)
    BY <1>1, <2>1, ListedRetain
  <2>3. CacheFull(t)'
    BY <1>1, <2>1, <2>2 DEF CacheFull
  <2>4. epc'[t] \in {"cleanupFlags", "cleanupStats", "finish"}
    BY <1>1, <2>1 DEF ControlType
  <2>5. StoreFull(t)'
    BY <2>4 DEF StoreFull
  <2>6. Sees(t)'
    BY <1>1, <2>1 DEF Sees, Late
  <2> QED
    BY <2>3, <2>5, <2>6 DEF Fresh, Alone
<1>4. CASE CleanupStats(t)
  <2>1. /\ epc[t] = "cleanupStats" /\ epc' = [epc EXCEPT ![t] = "finish"]
        /\ pc' = [pc EXCEPT ![t] = "invalidate"]
        /\ UNCHANGED <<connected, policy, began, ran, snapshot>>
    BY <1>4 DEF CleanupStats, EGoto, Goto
  <2>2. epc'[t] = "finish" /\ pc'[t] = "invalidate"
    BY <1>1, <2>1 DEF ControlType
  <2>3. CacheFull(t)' /\ StoreFull(t)' /\ Sees(t)'
    BY <1>1, <2>1, <2>2 DEF CacheFull, StoreFull, Sees, Late
  <2> QED
    BY <2>3 DEF Fresh, Alone
<1>5. CASE EmitFinish(t)
  <2>1. epc'[t] = "idle" /\ UNCHANGED <<pc, snapshot_cache, slots>>
    BY <1>1, <1>5 DEF EmitFinish, EGoto, ControlType, opvars
  <2>2. CacheFull(t)' /\ StoreFull(t)' /\ Sees(t)'
    BY <1>1, <2>1 DEF CacheFull, StoreFull, Sees, Late
  <2> QED
    BY <2>2 DEF Fresh, Alone
<1> QED
  BY <1>3, <1>4, <1>5

\* Every step keeps Fresh.
LEMMA StepFresh == Inv /\ Delivery /\ Fresh /\ [Next]_vars => Fresh'
<1> SUFFICES ASSUME Inv, Delivery, Fresh, [Next]_vars, Alone
             PROVE  Fresh'
  BY DEF Fresh
<1>1. CASE UNCHANGED vars
  BY <1>1 DEF vars, datavars, opvars, emitvars, Fresh, CacheFull, StoreFull, Sees
<1>2. ASSUME NEW t \in Threads, Progress(t)
      PROVE  Fresh'
  BY <1>2, FreshOps, FreshTakes, FreshWalks, FreshEnds DEF Progress
<1>3. ASSUME NEW t \in Threads, Start(t)
      PROVE  Fresh'
  BY <1>3, FreshStarts
<1> QED
  BY <1>1, <1>2, <1>3 DEF Next

\* Inv, Delivery and Fresh hold throughout.
LEMMA FreshInvariant == Spec => [](Inv /\ Delivery /\ Fresh)
<1>1. Init => Inv /\ Delivery /\ Fresh
  BY InitInv, InitDelivery, InitFresh
<1>2. Inv /\ Delivery /\ Fresh /\ [Next]_vars => (Inv /\ Delivery /\ Fresh)'
  BY StepInv, StepDelivery, StepFresh
<1> QED
  BY <1>1, <1>2, PTL DEF Spec

\* emit in a program with one thread: on every path it calls each slot that was
\* connected when it began and still is when it ends.
THEOREM SignalEmitDelivers == ASSUME Alone PROVE Spec => EmitDelivers
<1> DEFINE Safe == \A t \in Threads : Delivered(t)
<1>1. Inv /\ Delivery /\ Fresh => Safe
  <2> SUFFICES ASSUME Delivery, Fresh, NEW t \in Threads, epc[t] = "finish",
                      policy[t] = "Continue", NEW i \in began[t].live, connected[i]
               PROVE  i \in ToSet(ran[t])
    BY DEF Delivered
  <2>1. Visiting(t) /\ Sees(t)
    BY DEF Delivery, Emits, Fresh
  <2>2. snapshot[t] = <<>> /\ ToSet(<<>>) = {}
    BY <2>1, EmptyListed DEF Visiting, Late
  <2> QED
    BY <2>1, <2>2 DEF Sees, Late
<1>2. Inv /\ Delivery /\ Fresh /\ [Next]_vars => [Safe]_vars
  BY <1>1
<1> QED
  BY <1>2, FreshInvariant, PTL DEF Spec, EmitDelivers

=============================================================================
