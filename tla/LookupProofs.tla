---------------------------- MODULE LookupProofs ----------------------------
(***************************************************************************)
(* Two ways to find what was stored.                                       *)
(*                                                                         *)
(* GlobalCache, for any names, values, chunks and operand width: the       *)
(* caches lead to the right variable, a refusal means a worn-out variable, *)
(* and the whole implements Globals.                                       *)
(*                                                                         *)
(* NuzoDict: what is put into a dictionary is found, and nothing else is   *)
(* lost: for a list of entries and for a table, whatever the hashes, and   *)
(* whoever collides with whom.  (That a table made anew from the entries   *)
(* of another has them all is an induction over the entries, left to TLC.) *)
(***************************************************************************)
EXTENDS GlobalCache, NuzoDict, WellFoundedInduction, TLAPS

-----------------------------------------------------------------------------
(* GlobalCache                                                             *)

(* No two names share a variable. *)
OneNameEach ==
  \A m, n \in Names : index[m] # 0 /\ index[m] = index[n] => m = n

Safe == TypeOK /\ EntriesLeadToTheirName /\ ReadsLeadToTheirName /\ OneNameEach

------------------------------------------------------------------------------
(* The helpers *)

LEMMA EmptyTyped == NoEntries \in [Slots -> Entry] /\ NoEntries \in [Slots -> Read]
BY CacheAssumption DEF NoEntries, Empty, Entry, Read

LEMMA FreshTyped ==
  ASSUME NEW c \in Chunks
  PROVE  Fresh(c) \in Activation
BY EmptyTyped DEF Fresh, Activation

LEMMA FreshLeads ==
  ASSUME NEW c \in Chunks
  PROVE  LeadsToItsName(Fresh(c))
BY DEF LeadsToItsName, Fresh, NoEntries

LEMMA VersionTyped ==
  ASSUME TypeOK, NEW i
  PROVE  VersionOf(i) \in Nat
BY DEF TypeOK, VersionOf

LEMMA ExtendedTyped ==
  ASSUME TypeOK, NEW i \in Nat, NEW top \in Nat, Len(values) <= top, i <= top
  PROVE  /\ Extended(i) \in Seq(Nat)
         /\ Len(Extended(i)) <= top
         /\ i # 0 => i \in 1..Len(Extended(i))
<1> DEFINE n == IF i > Len(versions) THEN i ELSE Len(versions)
<1>1. n \in Nat /\ n <= top /\ i <= n
  BY DEF TypeOK
<1>2. \A j \in 1..n : VersionOf(j) \in Nat
  BY VersionTyped
<1> HIDE DEF n
<1>3. [j \in 1..n |-> VersionOf(j)] \in Seq(Nat) /\ Len([j \in 1..n |-> VersionOf(j)]) = n
  BY <1>1, <1>2
<1> QED BY <1>1, <1>3 DEF Extended, n

LEMMA RaisedTyped ==
  ASSUME TypeOK, NEW i \in Nat, i # 0, NEW top \in Nat, Len(values) <= top, i <= top
  PROVE  Raised(i) \in Seq(Nat) /\ Len(Raised(i)) <= top
<1>1. Extended(i) \in Seq(Nat) /\ Len(Extended(i)) <= top /\ i \in 1..Len(Extended(i))
  BY ExtendedTyped
<1>2. Extended(i)[i] + 1 \in Nat
  BY <1>1
<1> QED BY <1>1, <1>2 DEF Raised

LEMMA RewrittenTyped ==
  ASSUME TypeOK, NEW s \in Slots, NEW i \in Nat, NEW ver \in Nat, Fits(i, ver)
  PROVE  Rewritten(s, i, ver) \in Activation
<1>1. [index |-> i, version |-> ver] \in Read
  BY CacheAssumption DEF Fits, Read
<1>2. current.chunk \in Chunks /\ current.reads \in [Slots -> Read]
  BY DEF TypeOK, Activation
<1>3. [current.reads EXCEPT ![s] = [index |-> i, version |-> ver]] \in [Slots -> Read]
  BY <1>1, <1>2
<1>4. Rewritten(s, i, ver) = [chunk |-> current.chunk,
          reads |-> [current.reads EXCEPT ![s] = [index |-> i, version |-> ver]]]
  BY DEF Rewritten, TypeOK, Activation
<1> QED BY <1>2, <1>3, <1>4 DEF Activation

LEMMA RewrittenLeads ==
  ASSUME TypeOK, LeadsToItsName(current), NEW s \in Slots, NEW ver, index[NameOf(s)] # 0
  PROVE  LeadsToItsName(Rewritten(s, index[NameOf(s)], ver))
BY DEF TypeOK, Activation, Rewritten, LeadsToItsName, NameOf

LEMMA NamesTyped ==
  ASSUME TypeOK, NEW s \in Slots
  PROVE  /\ NameOf(s) \in Names
         /\ index[NameOf(s)] \in 0..Len(values)
BY CacheAssumption DEF TypeOK, NameOf, Activation

(* What an entry or a rewritten read in use leads to. *)
LEMMA UsedEntry ==
  ASSUME Safe, NEW s \in Slots, Valid(entries[s])
  PROVE  /\ entries[s].index = index[NameOf(s)]
         /\ index[NameOf(s)] \in 1..Len(values)
BY NamesTyped DEF Safe, TypeOK, EntriesLeadToTheirName, Valid, Entry

LEMMA UsedRead ==
  ASSUME Safe, NEW s \in Slots, current.reads[s] # Empty
  PROVE  /\ current.reads[s].index = index[NameOf(s)]
         /\ index[NameOf(s)] \in 1..Len(values)
BY NamesTyped DEF Safe, ReadsLeadToTheirName, LeadsToItsName, NameOf

------------------------------------------------------------------------------
(* Reads *)

LEMMA KeepsOnGet ==
  ASSUME Safe, NEW s \in Slots, GetThroughEntry(s) \/ GetUndefined(s)
  PROVE  Safe'
BY DEF Safe, TypeOK, EntriesLeadToTheirName, ReadsLeadToTheirName, LeadsToItsName, OneNameEach,
       GetThroughEntry, GetUndefined, NameOf

LEMMA CurrentChanges ==
  ASSUME Safe, NEW a \in Activation, LeadsToItsName(a), a.chunk = current.chunk,
         current' = a, UNCHANGED <<index, values, callers>>,
         versions' \in Seq(Nat), Len(versions') <= Len(values),
         entries' \in [Slots -> Entry],
         \A s \in Slots : entries'[s].index # 0 => entries'[s].index = index[NameOf(s)]
  PROVE  Safe'
<1>1. TypeOK'
  BY DEF Safe, TypeOK
<1>2. EntriesLeadToTheirName'
  BY DEF EntriesLeadToTheirName, NameOf
<1>3. ReadsLeadToTheirName'
  BY DEF Safe, ReadsLeadToTheirName, LeadsToItsName
<1>4. OneNameEach'
  BY DEF Safe, OneNameEach
<1> QED BY <1>1, <1>2, <1>3, <1>4 DEF Safe

LEMMA KeepsOnGetByName ==
  ASSUME Safe, NEW s \in Slots, GetByName(s)
  PROVE  Safe'
<1> DEFINE i == index[NameOf(s)]
           ver == VersionOf(i)
           e == [index |-> i, version |-> ver]
<1>1. i \in Nat /\ i # 0 /\ i <= Len(values) /\ ver \in Nat /\ Len(values) \in Nat
  BY NamesTyped, VersionTyped DEF Safe, GetByName, TypeOK
<1>2. versions' \in Seq(Nat) /\ Len(versions') <= Len(values)
  BY <1>1, ExtendedTyped DEF Safe, GetByName
<1>3. e \in Entry
  BY <1>1 DEF Entry
<1>4. entries' = [entries EXCEPT ![s] = e]
  BY DEF GetByName
<1>5. entries' \in [Slots -> Entry]
  BY <1>3, <1>4 DEF Safe, TypeOK
<1>6. \A t \in Slots : entries'[t].index # 0 => entries'[t].index = index[NameOf(t)]
  BY <1>4 DEF Safe, TypeOK, EntriesLeadToTheirName
<1>7. UNCHANGED <<index, values, callers>>
  BY DEF GetByName
<1>8. CASE Fits(i, ver)
  <2>1. current' = Rewritten(s, i, ver)
    BY <1>8 DEF GetByName
  <2>2. Rewritten(s, i, ver) \in Activation
    BY <1>1, <1>8, RewrittenTyped DEF Safe
  <2>3. LeadsToItsName(Rewritten(s, i, ver))
    BY <1>1, RewrittenLeads DEF Safe, ReadsLeadToTheirName
  <2>4. Rewritten(s, i, ver).chunk = current.chunk
    BY DEF Rewritten, Safe, TypeOK, Activation
  <2> HIDE DEF i, ver, e
  <2> QED BY <1>2, <1>5, <1>6, <1>7, <2>1, <2>2, <2>3, <2>4, CurrentChanges
<1>9. CASE ~Fits(i, ver)
  <2>1. current' = current
    BY <1>9 DEF GetByName
  <2>2. current \in Activation /\ LeadsToItsName(current)
    BY DEF Safe, TypeOK, ReadsLeadToTheirName
  <2> HIDE DEF i, ver, e
  <2> QED BY <1>2, <1>5, <1>6, <1>7, <2>1, <2>2, CurrentChanges
<1> QED BY <1>8, <1>9

LEMMA KeepsOnGetRewritten ==
  ASSUME Safe, NEW s \in Slots, GetRewritten(s)
  PROVE  Safe'
<1> DEFINE r == current.reads[s]
           a == Rewritten(s, r.index, VersionOf(r.index))
<1>1. r.index = index[NameOf(s)] /\ index[NameOf(s)] \in 1..Len(values) /\ Len(values) \in Nat
  BY UsedRead DEF GetRewritten, Safe, TypeOK
<1>2. current \in Activation /\ LeadsToItsName(current)
  BY DEF Safe, TypeOK, ReadsLeadToTheirName
<1>3. UNCHANGED <<index, values, versions, entries, callers>>
  BY DEF GetRewritten
<1>4. versions' \in Seq(Nat) /\ Len(versions') <= Len(values) /\ entries' \in [Slots -> Entry]
  BY <1>3 DEF Safe, TypeOK
<1>5. \A t \in Slots : entries'[t].index # 0 => entries'[t].index = index[NameOf(t)]
  BY <1>3 DEF Safe, EntriesLeadToTheirName
<1>6. CASE current' = current
  BY <1>2, <1>3, <1>4, <1>5, <1>6, CurrentChanges
<1>7. CASE current' = a /\ Fits(r.index, VersionOf(r.index))
  <2>1. VersionOf(r.index) \in Nat /\ r.index \in Nat
    BY <1>1, VersionTyped DEF Safe
  <2>2. a \in Activation
    BY <1>7, <2>1, RewrittenTyped DEF Safe
  <2>3. LeadsToItsName(a)
    BY <1>1, <1>2, RewrittenLeads DEF Safe
  <2>4. a.chunk = current.chunk
    BY DEF Rewritten, Safe, TypeOK, Activation
  <2> HIDE DEF a
  <2> QED BY <1>3, <1>4, <1>5, <1>7, <2>2, <2>3, <2>4, CurrentChanges
<1> QED BY <1>6, <1>7 DEF GetRewritten

------------------------------------------------------------------------------
(* Writes *)

(* A write that leaves the running chunk and its callers alone. *)
LEMMA VariablesChange ==
  ASSUME Safe, UNCHANGED <<current, callers>>,
         index' \in [Names -> 0..Len(values')], values' \in Seq(Values),
         versions' \in Seq(Nat), Len(versions') <= Len(values'),
         entries' \in [Slots -> Entry],
         \A n \in Names : index[n] # 0 => index'[n] = index[n],
         OneNameEach',
         \A s \in Slots : entries'[s].index # 0 => entries'[s].index = index'[NameOf(s)]
  PROVE  Safe'
<1>1. TypeOK'
  BY DEF Safe, TypeOK
<1>2. EntriesLeadToTheirName'
  BY DEF EntriesLeadToTheirName, NameOf
<1>3. ReadsLeadToTheirName'
  <2>1. ASSUME NEW a \in Activation, LeadsToItsName(a)
        PROVE  LeadsToItsName(a)'
    <3> SUFFICES ASSUME NEW s \in Slots, a.reads[s] # Empty
                 PROVE  a.reads[s].index # 0 /\ a.reads[s].index = index'[NameAt[a.chunk][s]]
      BY DEF LeadsToItsName
    <3>1. NameAt[a.chunk][s] \in Names
      BY CacheAssumption DEF Activation
    <3>2. a.reads[s].index # 0 /\ a.reads[s].index = index[NameAt[a.chunk][s]]
      BY <2>1 DEF LeadsToItsName
    <3> QED BY <3>1, <3>2
  <2>2. current \in Activation /\ \A k \in DOMAIN callers : callers[k] \in Activation
    BY DEF Safe, TypeOK
  <2>3. LeadsToItsName(current)'
    BY <2>1, <2>2 DEF Safe, ReadsLeadToTheirName, LeadsToItsName
  <2>4. ASSUME NEW k \in DOMAIN callers
        PROVE  LeadsToItsName(callers[k])'
    <3>1. LeadsToItsName(callers[k]) /\ callers[k] \in Activation /\ callers'[k] = callers[k]
      BY <2>2 DEF Safe, ReadsLeadToTheirName
    <3> QED BY <3>1, <2>1 DEF LeadsToItsName
  <2> QED BY <2>3, <2>4 DEF ReadsLeadToTheirName
<1> QED BY <1>1, <1>2, <1>3 DEF Safe

LEMMA KeepsOnAssign ==
  ASSUME Safe, NEW s \in Slots, NEW v \in Values, NEW i,
         i = index[NameOf(s)], i # 0, Assign(s, i, v)
  PROVE  Safe'
<1> DEFINE e == [index |-> i, version |-> VersionOf(i) + 1]
<1>1. i \in 1..Len(values) /\ Len(values) \in Nat /\ VersionOf(i) \in Nat
  BY NamesTyped, VersionTyped DEF Safe, TypeOK
<1>2. values' \in Seq(Values) /\ Len(values') = Len(values)
  BY <1>1 DEF Assign, Safe, TypeOK
<1>3. versions' \in Seq(Nat) /\ Len(versions') <= Len(values)
  BY <1>1, RaisedTyped DEF Assign, Safe
<1>4. e \in Entry
  BY <1>1 DEF Entry
<1>5. entries' = [entries EXCEPT ![s] = e]
  BY DEF Assign
<1>6. entries' \in [Slots -> Entry]
  BY <1>4, <1>5 DEF Safe, TypeOK
<1>7. index' = index /\ UNCHANGED <<current, callers>>
  BY DEF Assign
<1>8. \A t \in Slots : entries'[t].index # 0 => entries'[t].index = index'[NameOf(t)]
  BY <1>5, <1>7 DEF Safe, TypeOK, EntriesLeadToTheirName
<1>9. index' \in [Names -> 0..Len(values')] /\ OneNameEach'
  BY <1>2, <1>7 DEF Safe, TypeOK, OneNameEach
<1> HIDE DEF e
<1> QED BY <1>2, <1>3, <1>6, <1>7, <1>8, <1>9, VariablesChange

(* A name that had no variable gets the next one. *)
LEMMA NewVariable ==
  ASSUME Safe, NEW n \in Names, NEW v \in Values, index[n] = 0,
         values' = Append(values, v), index' = [index EXCEPT ![n] = Len(values) + 1]
  PROVE  /\ index' \in [Names -> 0..Len(values')]
         /\ values' \in Seq(Values) /\ Len(values') = Len(values) + 1
         /\ OneNameEach'
         /\ \A m \in Names : index[m] # 0 => index'[m] = index[m]
<1>1. Len(values) \in Nat /\ values' \in Seq(Values) /\ Len(values') = Len(values) + 1
  BY DEF Safe, TypeOK
<1>2. index' \in [Names -> 0..Len(values')]
  BY <1>1 DEF Safe, TypeOK
<1>3. OneNameEach'
  BY <1>1 DEF Safe, TypeOK, OneNameEach
<1> QED BY <1>1, <1>2, <1>3 DEF Safe, TypeOK

LEMMA KeepsOnSetNew ==
  ASSUME Safe, NEW s \in Slots, NEW v \in Values, SetNew(s, v)
  PROVE  Safe'
<1> DEFINE n == NameOf(s)
           i == Len(values) + 1
           e == [index |-> i, version |-> VersionOf(i) + 1]
<1>1. n \in Names /\ index[n] = 0 /\ Len(values) \in Nat /\ VersionOf(i) \in Nat
  BY NamesTyped, VersionTyped DEF SetNew, Safe, TypeOK
<1>2. values' = Append(values, v) /\ index' = [index EXCEPT ![n] = Len(values) + 1]
  BY DEF SetNew, DefinedAt
<1>3. /\ index' \in [Names -> 0..Len(values')]
      /\ values' \in Seq(Values) /\ Len(values') = i
      /\ OneNameEach'
      /\ \A m \in Names : index[m] # 0 => index'[m] = index[m]
  <2> HIDE DEF n
  <2> QED BY <1>1, <1>2, NewVariable
<1>4. versions' \in Seq(Nat) /\ Len(versions') <= i
  BY <1>1, RaisedTyped DEF SetNew, DefinedAt, Safe
<1>5. e \in Entry
  BY <1>1 DEF Entry
<1>6. entries' = [entries EXCEPT ![s] = e]
  BY DEF SetNew, DefinedAt
<1>7. entries' \in [Slots -> Entry]
  BY <1>5, <1>6 DEF Safe, TypeOK
<1>8. ASSUME NEW t \in Slots, entries'[t].index # 0
      PROVE  entries'[t].index = index'[NameOf(t)]
  <2>1. CASE t = s
    <3>1. index'[n] = i
      BY <1>1, <1>2 DEF Safe, TypeOK
    <3>2. entries'[t] = e
      BY <1>6, <2>1 DEF Safe, TypeOK
    <3> QED BY <2>1, <3>1, <3>2
  <2>2. CASE t # s
    <3>1. entries'[t] = entries[t]
      BY <1>6, <2>2 DEF Safe, TypeOK
    <3>2. entries[t].index = index[NameOf(t)]
      BY <3>1, <1>8 DEF Safe, EntriesLeadToTheirName
    <3>3. NameOf(t) \in Names
      BY NamesTyped DEF Safe
    <3> QED BY <1>3, <1>8, <3>1, <3>2, <3>3
  <2> QED BY <2>1, <2>2
<1>9. UNCHANGED <<current, callers>>
  BY DEF SetNew
<1> HIDE DEF n, i, e
<1> QED BY <1>3, <1>4, <1>7, <1>8, <1>9, VariablesChange

LEMMA KeepsOnHostDefine ==
  ASSUME Safe, NEW n \in Names, NEW v \in Values, HostDefine(n, v)
  PROVE  Safe'
<1>1. /\ UNCHANGED <<versions, entries, current, callers>>
      /\ Len(values) \in Nat /\ versions \in Seq(Nat) /\ Len(versions) <= Len(values)
      /\ entries \in [Slots -> Entry]
  BY DEF HostDefine, Safe, TypeOK
<1>2. ASSUME \A m \in Names : index[m] # 0 => index'[m] = index[m], NEW s \in Slots,
             entries'[s].index # 0
      PROVE  entries'[s].index = index'[NameOf(s)]
  <2>1. entries[s].index = index[NameOf(s)] /\ NameOf(s) \in Names
    BY <1>1, <1>2, NamesTyped DEF Safe, EntriesLeadToTheirName
  <2> QED BY <1>1, <1>2, <2>1
<1>3. CASE index[n] # 0
  <2>1. values' = [values EXCEPT ![index[n]] = v] /\ index' = index
    BY <1>3 DEF HostDefine
  <2>2. values' \in Seq(Values) /\ Len(values') = Len(values)
    BY <2>1, <1>3 DEF Safe, TypeOK
  <2>3. index' \in [Names -> 0..Len(values')] /\ OneNameEach'
    BY <2>1, <2>2 DEF Safe, TypeOK, OneNameEach
  <2> QED BY <1>1, <1>2, <2>1, <2>2, <2>3, VariablesChange
<1>4. CASE index[n] = 0
  <2>1. values' = Append(values, v) /\ index' = [index EXCEPT ![n] = Len(values) + 1]
    BY <1>4 DEF HostDefine
  <2>2. /\ index' \in [Names -> 0..Len(values')]
        /\ values' \in Seq(Values) /\ Len(values') = Len(values) + 1
        /\ OneNameEach'
        /\ \A m \in Names : index[m] # 0 => index'[m] = index[m]
    BY <1>4, <2>1, NewVariable
  <2>3. versions' \in Seq(Nat) /\ Len(versions') <= Len(values')
    BY <1>1, <2>2
  <2> QED BY <1>1, <1>2, <2>2, <2>3, VariablesChange
<1> QED BY <1>3, <1>4

------------------------------------------------------------------------------
(* Changes of chunk *)

LEMMA ChunkChanges ==
  ASSUME Safe, NEW a \in Activation, LeadsToItsName(a), current' = a,
         callers' \in Seq(Activation),
         \A k \in DOMAIN callers' : LeadsToItsName(callers'[k]),
         entries' = NoEntries, UNCHANGED <<index, values, versions>>
  PROVE  Safe'
<1>1. TypeOK'
  BY EmptyTyped DEF Safe, TypeOK
<1>2. EntriesLeadToTheirName'
  BY DEF EntriesLeadToTheirName, NoEntries, Empty
<1>3. ReadsLeadToTheirName'
  BY DEF ReadsLeadToTheirName, LeadsToItsName
<1>4. OneNameEach'
  BY DEF Safe, OneNameEach
<1> QED BY <1>1, <1>2, <1>3, <1>4 DEF Safe

LEMMA CallersTyped ==
  ASSUME Safe
  PROVE  /\ callers \in Seq(Activation) /\ current \in Activation
         /\ \A k \in DOMAIN callers : LeadsToItsName(callers[k])
         /\ LeadsToItsName(current)
BY DEF Safe, TypeOK, ReadsLeadToTheirName

LEMMA KeepsOnCall ==
  ASSUME Safe, NEW c \in Functions, Call(c)
  PROVE  Safe'
<1>1. callers' = Append(callers, current) /\ callers' \in Seq(Activation)
  BY CallersTyped DEF Call
<1>2. ASSUME NEW k \in DOMAIN callers'
      PROVE  LeadsToItsName(callers'[k])
  BY <1>1, CallersTyped
<1>3. Fresh(c) \in Activation /\ LeadsToItsName(Fresh(c))
  BY FreshTyped, FreshLeads DEF Chunks
<1> QED BY <1>1, <1>2, <1>3, ChunkChanges DEF Call, Invalidated

LEMMA KeepsOnTailCall ==
  ASSUME Safe, NEW c \in Functions, TailCall(c)
  PROVE  Safe'
<1>1. Fresh(c) \in Activation /\ LeadsToItsName(Fresh(c))
  BY FreshTyped, FreshLeads DEF Chunks
<1> QED BY <1>1, CallersTyped, ChunkChanges DEF TailCall, Invalidated

LEMMA KeepsOnReturn ==
  ASSUME Safe, Return
  PROVE  Safe'
<1>1. callers \in Seq(Activation) /\ Len(callers) \in 1..Len(callers)
  BY CallersTyped DEF Return
<1>2. callers[Len(callers)] \in Activation /\ LeadsToItsName(callers[Len(callers)])
  BY <1>1, CallersTyped
<1>3. callers' = SubSeq(callers, 1, Len(callers) - 1) /\ callers' \in Seq(Activation)
  BY <1>1 DEF Return
<1>4. ASSUME NEW k \in DOMAIN callers'
      PROVE  LeadsToItsName(callers'[k])
  BY <1>1, <1>3, CallersTyped
<1> QED BY <1>2, <1>3, <1>4, ChunkChanges DEF Return, Invalidated

LEMMA KeepsOnLoad ==
  ASSUME Safe, Load
  PROVE  Safe'
<1>1. Fresh(Main) \in Activation /\ LeadsToItsName(Fresh(Main))
  BY FreshTyped, FreshLeads DEF Chunks
<1>2. callers' \in Seq(Activation) /\ \A k \in DOMAIN callers' : LeadsToItsName(callers'[k])
  BY DEF Load
<1> QED BY <1>1, <1>2, ChunkChanges DEF Load, Invalidated

------------------------------------------------------------------------------
LEMMA InitSafe == Init => Safe
<1> SUFFICES ASSUME Init PROVE Safe
  OBVIOUS
<1>1. current \in Activation /\ LeadsToItsName(current)
  BY FreshTyped, FreshLeads DEF Init, Chunks
<1> QED
  BY <1>1, EmptyTyped DEF Init, Safe, TypeOK, EntriesLeadToTheirName, ReadsLeadToTheirName,
     OneNameEach, NoEntries, Empty

LEMMA StepSafe == Safe /\ [Next]_vars => Safe'
<1> SUFFICES ASSUME Safe, [Next]_vars PROVE Safe'
  OBVIOUS
<1>1. ASSUME NEW s \in Slots, NEW v \in Values, SetThroughEntry(s, v)
      PROVE  Safe'
  <2>1. Valid(entries[s]) /\ Assign(s, entries[s].index, v)
    BY <1>1 DEF SetThroughEntry
  <2>2. entries[s].index = index[NameOf(s)] /\ entries[s].index # 0
    BY <2>1, UsedEntry DEF Safe, TypeOK
  <2> QED BY <2>1, <2>2, KeepsOnAssign
<1>2. ASSUME NEW s \in Slots, NEW v \in Values, SetByName(s, v)
      PROVE  Safe'
  BY <1>2, KeepsOnAssign DEF SetByName
<1>3. CASE UNCHANGED vars
  BY <1>3 DEF vars, Safe, TypeOK, EntriesLeadToTheirName, ReadsLeadToTheirName, LeadsToItsName,
     OneNameEach, NameOf
<1>4. CASE Next
  BY <1>1, <1>2, <1>4, KeepsOnGet, KeepsOnGetByName, KeepsOnGetRewritten, KeepsOnSetNew,
     KeepsOnHostDefine, KeepsOnCall, KeepsOnTailCall, KeepsOnReturn, KeepsOnLoad DEF Next
<1> QED BY <1>3, <1>4

THEOREM AlwaysSafe == Spec => []Safe
BY InitSafe, StepSafe, PTL DEF Spec

(* The vectors and operands keep their shape, whatever chunks run. *)
THEOREM TypeCorrect == Spec => []TypeOK
BY AlwaysSafe, PTL DEF Safe

(* global_cache, which all chunks share, never leads a chunk to the        *)
(* variable of another chunk's name.                                       *)
THEOREM EntriesRight == Spec => []EntriesLeadToTheirName
BY AlwaysSafe, PTL DEF Safe

(* Self-specialised reads keep their meaning across calls and returns.     *)
THEOREM ReadsRight == Spec => []ReadsLeadToTheirName
BY AlwaysSafe, PTL DEF Safe

------------------------------------------------------------------------------
(* The caches implement Globals *)

LEMMA ScopeAt ==
  ASSUME Safe, NEW n \in Names
  PROVE  /\ Scope[n] = IF index[n] = 0 THEN Unset ELSE values[index[n]]
         /\ index[n] # 0 => Scope[n] \in Values /\ Scope[n] # Unset
BY CacheAssumption DEF Scope, Safe, TypeOK

LEMMA InitImplements == Init => ABS!Init
BY DEF Init, ABS!Init, Scope

LEMMA ScopeKept ==
  ASSUME UNCHANGED <<index, values>>
  PROVE  Scope' = Scope
BY DEF Scope

LEMMA GetImplements ==
  ASSUME Safe, NEW s \in Slots,
         GetThroughEntry(s) \/ GetByName(s) \/ GetUndefined(s) \/ GetRewritten(s)
  PROVE  ABS!Get(NameOf(s)) \/ ABS!Refuse(NameOf(s))
<1> DEFINE n == NameOf(s)
<1>1. n \in Names
  BY NamesTyped DEF Safe
<1>2. Scope' = Scope
  BY ScopeKept DEF GetThroughEntry, GetByName, GetUndefined, GetRewritten
<1>3. CASE index[n] # 0 /\ answer' = <<"value", n, values[index[n]]>>
  <2>1. Scope[n] = values[index[n]] /\ Scope[n] # Unset
    BY <1>1, <1>3, ScopeAt
  <2> QED BY <1>2, <1>3, <2>1 DEF ABS!Get
<1>4. CASE index[n] # 0 /\ answer' = <<"refused", n, Unset>>
  <2>1. Scope[n] # Unset
    BY <1>1, <1>4, ScopeAt
  <2> QED BY <1>2, <1>4, <2>1 DEF ABS!Refuse
<1>5. CASE index[n] = 0 /\ answer' = <<"undefined", n, Unset>>
  <2>1. Scope[n] = Unset
    BY <1>1, <1>5, ScopeAt
  <2> QED BY <1>2, <1>5, <2>1 DEF ABS!Get
<1>6. CASE GetThroughEntry(s)
  <2>1. entries[s].index = index[n] /\ index[n] # 0
    BY <1>6, UsedEntry DEF GetThroughEntry, Safe, TypeOK
  <2> QED BY <1>3, <1>6, <2>1 DEF GetThroughEntry, Answered
<1>7. CASE GetByName(s)
  BY <1>3, <1>4, <1>7 DEF GetByName, Answered
<1>8. CASE GetUndefined(s)
  BY <1>5, <1>8 DEF GetUndefined, Answered
<1>9. CASE GetRewritten(s)
  <2>1. current.reads[s].index = index[n] /\ index[n] # 0
    BY <1>9, UsedRead DEF GetRewritten, Safe, TypeOK
  <2> QED BY <1>3, <1>4, <1>9, <2>1 DEF GetRewritten, Answered
<1> QED BY <1>6, <1>7, <1>8, <1>9

(* The scope after a write to one name. *)
LEMMA SetImplements ==
  ASSUME Safe, NEW n \in Names, NEW v \in Values, UNCHANGED answer,
         \/ /\ index[n] # 0 /\ UNCHANGED index
            /\ values' = [values EXCEPT ![index[n]] = v]
         \/ /\ index[n] = 0 /\ values' = Append(values, v)
            /\ index' = [index EXCEPT ![n] = Len(values) + 1]
  PROVE  ABS!Set(n, v)
<1>1. \A m \in Names : index[m] \in 0..Len(values)
  BY DEF Safe, TypeOK
<1>2. values \in Seq(Values) /\ index \in [Names -> Nat] /\ Len(values) \in Nat
  BY DEF Safe, TypeOK
<1>3. ASSUME NEW m \in Names
      PROVE  (IF index'[m] = 0 THEN Unset ELSE values'[index'[m]])
             = IF m = n THEN v ELSE Scope[m]
  <2>1. Scope[m] = IF index[m] = 0 THEN Unset ELSE values[index[m]]
    BY ScopeAt
  <2>2. CASE index[n] # 0
    <3>1. index[m] # 0 /\ index[m] = index[n] => m = n
      BY DEF Safe, OneNameEach
    <3>2. values' = [values EXCEPT ![index[n]] = v] /\ index' = index
      BY <2>2
    <3> QED BY <1>1, <1>2, <2>1, <2>2, <3>1, <3>2
  <2>3. CASE index[n] = 0
    <3>1. values' = Append(values, v) /\ index' = [index EXCEPT ![n] = Len(values) + 1]
      BY <2>3
    <3> QED BY <1>1, <1>2, <2>1, <2>3, <3>1
  <2> QED BY <2>2, <2>3
<1>4. Scope' = [m \in Names |-> IF m = n THEN v ELSE Scope[m]]
  BY <1>3 DEF Scope
<1>5. Scope = [m \in Names |-> Scope[m]]
  BY DEF Scope
<1>6. Scope' = [Scope EXCEPT ![n] = v]
  BY <1>4, <1>5
<1> QED BY <1>6 DEF ABS!Set

LEMMA StepImplements == Safe /\ [Next]_vars => [ABS!Next]_<<Scope, answer>>
<1> SUFFICES ASSUME Safe, [Next]_vars PROVE [ABS!Next]_<<Scope, answer>>
  OBVIOUS
<1>1. ASSUME NEW s \in Slots,
             GetThroughEntry(s) \/ GetByName(s) \/ GetUndefined(s) \/ GetRewritten(s)
      PROVE  ABS!Next
  BY <1>1, GetImplements, NamesTyped DEF ABS!Next, Safe
<1>2. ASSUME NEW s \in Slots, NEW v \in Values,
             SetThroughEntry(s, v) \/ SetByName(s, v) \/ SetNew(s, v)
      PROVE  ABS!Next
  <2>1. NameOf(s) \in Names
    BY NamesTyped DEF Safe
  <2>2. CASE SetThroughEntry(s, v)
    <3>1. entries[s].index = index[NameOf(s)] /\ index[NameOf(s)] # 0
      BY <2>2, UsedEntry DEF SetThroughEntry, Safe, TypeOK
    <3>2. values' = [values EXCEPT ![index[NameOf(s)]] = v] /\ UNCHANGED <<index, answer>>
      BY <2>2, <3>1 DEF SetThroughEntry, Assign
    <3> QED BY <2>1, <3>1, <3>2, SetImplements DEF ABS!Next
  <2>3. CASE SetByName(s, v)
    <3>1. index[NameOf(s)] # 0 /\ values' = [values EXCEPT ![index[NameOf(s)]] = v]
          /\ UNCHANGED <<index, answer>>
      BY <2>3 DEF SetByName, Assign
    <3> QED BY <2>1, <3>1, SetImplements DEF ABS!Next
  <2>4. CASE SetNew(s, v)
    <3>1. /\ index[NameOf(s)] = 0 /\ values' = Append(values, v) /\ UNCHANGED answer
          /\ index' = [index EXCEPT ![NameOf(s)] = Len(values) + 1]
      BY <2>4 DEF SetNew, DefinedAt
    <3> QED BY <2>1, <3>1, SetImplements DEF ABS!Next
  <2> QED BY <1>2, <2>2, <2>3, <2>4
<1>3. ASSUME NEW n \in Names, NEW v \in Values, HostDefine(n, v)
      PROVE  ABS!Next
  <2>1. ABS!Set(n, v)
    BY <1>3, SetImplements DEF HostDefine
  <2> QED BY <2>1 DEF ABS!Next
<1>4. ASSUME UNCHANGED <<index, values, answer>>
      PROVE  UNCHANGED <<Scope, answer>>
  BY <1>4, ScopeKept
<1>5. CASE UNCHANGED vars
  BY <1>4, <1>5 DEF vars
<1>6. CASE \E c \in Functions : Call(c) \/ TailCall(c)
  BY <1>4, <1>6 DEF Call, TailCall
<1>7. CASE Return \/ Load
  BY <1>4, <1>7 DEF Return, Load
<1> QED BY <1>1, <1>2, <1>3, <1>5, <1>6, <1>7 DEF Next

(* Reads and writes through the caches are reads and writes of one table   *)
(* of names, except that a read of a defined name may be refused.          *)
THEOREM Implements == Spec => ImplementsGlobals
<1>1. Spec => [][ABS!Next]_<<Scope, answer>>
  BY AlwaysSafe, StepImplements, PTL DEF Spec
<1> QED BY InitImplements, <1>1, PTL DEF Spec, ImplementsGlobals, ABS!Spec

------------------------------------------------------------------------------
(* Refusals *)

WornOut(n) == VersionOf(index[n]) > OperandMax \/ index[n] - 1 > OperandMax
Explained == answer[1] = "refused" => answer[2] \in Names /\ index[answer[2]] # 0 /\ WornOut(answer[2])

(* Versions only grow, and a name keeps its variable. *)
LEMMA VersionsGrow ==
  ASSUME Safe, NEW i \in Nat, NEW j \in Nat, j # 0, versions' = Extended(j) \/ versions' = Raised(j)
  PROVE  VersionOf(i)' >= VersionOf(i)
<1>1. \A k \in Nat : VersionOf(k) \in Nat
  BY VersionTyped DEF Safe
<1>2. Len(versions) \in Nat /\ DOMAIN versions = 1..Len(versions)
  BY DEF Safe, TypeOK
<1> DEFINE n == IF j > Len(versions) THEN j ELSE Len(versions)
<1>3. n \in Nat /\ Len(versions) <= n /\ j \in 1..n
  BY <1>2
<1>4. Extended(j) = [k \in 1..n |-> VersionOf(k)]
  BY DEF Extended
<1>5. Raised(j) = [k \in 1..n |-> IF k = j THEN VersionOf(k) + 1 ELSE VersionOf(k)]
  BY <1>3, <1>4 DEF Raised
<1> HIDE DEF n
<1>6. CASE i \in 1..n
  <2>1. CASE versions' = Extended(j)
    <3>1. i \in DOMAIN versions' /\ versions'[i] = VersionOf(i)
      BY <1>4, <1>6, <2>1
    <3> QED BY <1>1, <3>1 DEF VersionOf
  <2>2. CASE versions' = Raised(j)
    <3>1. i \in DOMAIN versions'
          /\ versions'[i] = IF i = j THEN VersionOf(i) + 1 ELSE VersionOf(i)
      BY <1>5, <1>6, <2>2
    <3>2. VersionOf(i) \in Nat
      BY <1>1
    <3>3. versions'[i] >= VersionOf(i)
      BY <3>1, <3>2
    <3> QED BY <3>1, <3>3 DEF VersionOf
  <2> QED BY <2>1, <2>2
<1>7. CASE i \notin 1..n
  <2>1. VersionOf(i) = 0 /\ i \notin DOMAIN versions'
    BY <1>2, <1>3, <1>4, <1>5, <1>7 DEF VersionOf
  <2> QED BY <2>1 DEF VersionOf
<1> QED BY <1>6, <1>7

LEMMA ExplainedKept ==
  ASSUME Safe, Explained, UNCHANGED answer,
         \A n \in Names : index[n] # 0 => index'[n] = index[n],
         \/ UNCHANGED versions
         \/ \E j \in Nat : j # 0 /\ versions' = Raised(j)
  PROVE  Explained'
<1> SUFFICES ASSUME answer[1] = "refused"
             PROVE  answer[2] \in Names /\ index'[answer[2]] # 0 /\ WornOut(answer[2])'
  BY DEF Explained
<1> DEFINE n == answer[2]
<1>1. n \in Names /\ index[n] # 0 /\ WornOut(n) /\ index'[n] = index[n] /\ index[n] \in Nat
  BY DEF Explained, Safe, TypeOK
<1>2. VersionOf(index[n]) \in Nat /\ VersionOf(index[n])' \in Nat
  <2>1. versions' \in Seq(Nat)
    <3>1. versions \in Seq(Nat)
      BY DEF Safe, TypeOK
    <3>2. ASSUME NEW j \in Nat, j # 0 PROVE Raised(j) \in Seq(Nat)
      <4>1. PICK top \in Nat : Len(values) <= top /\ j <= top
        <5>1. Len(values) \in Nat
          BY DEF Safe, TypeOK
        <5> QED BY <5>1, <3>2
      <4> QED BY <3>2, <4>1, RaisedTyped DEF Safe
    <3> QED BY <3>1, <3>2
  <2> QED BY <1>1, <2>1, VersionTyped DEF Safe, VersionOf
<1>3. VersionOf(index[n])' >= VersionOf(index[n])
  <2>1. CASE UNCHANGED versions
    <3>1. VersionOf(index[n])' = VersionOf(index[n])
      BY <1>1, <2>1 DEF VersionOf
    <3> QED BY <1>2, <3>1
  <2>2. CASE \E j \in Nat : j # 0 /\ versions' = Raised(j)
    <3>1. PICK j \in Nat : j # 0 /\ versions' = Raised(j)
      BY <2>2
    <3>2. \A i \in Nat : (IF i \in DOMAIN versions' THEN versions'[i] ELSE 0) >= VersionOf(i)
      BY <3>1, VersionsGrow DEF VersionOf
    <3>3. VersionOf(index[n])' = IF index[n] \in DOMAIN versions' THEN versions'[index[n]] ELSE 0
      BY <1>1 DEF VersionOf
    <3> QED BY <1>1, <3>2, <3>3
  <2> QED BY <2>1, <2>2
<1> QED BY <1>1, <1>2, <1>3, CacheAssumption DEF WornOut

LEMMA RefusedExplained ==
  ASSUME Safe, NEW n \in Names, NEW i \in Nat, i = index[n], i # 0, index' = index,
         answer' = <<"refused", n, Unset>>, ~Fits(i, VersionOf(i)),
         versions' = versions \/ versions' = Extended(i)
  PROVE  Explained'
<1>1. VersionOf(i) \in Nat /\ (VersionOf(i) > OperandMax \/ i - 1 > OperandMax)
  BY VersionTyped, CacheAssumption DEF Fits, Safe
<1>2. VersionOf(i)' = VersionOf(i)
  <2>1. CASE versions' = versions
    BY <2>1 DEF VersionOf
  <2>2. CASE versions' = Extended(i)
    <3>1. Len(versions) \in Nat
      BY DEF Safe, TypeOK
    <3>2. i \in DOMAIN Extended(i) /\ Extended(i)[i] = VersionOf(i)
      BY <3>1 DEF Extended
    <3> QED BY <2>2, <3>2 DEF VersionOf
  <2> QED BY <2>1, <2>2
<1>3. index'[n] = i
  OBVIOUS
<1>4. WornOut(n)'
  BY <1>1, <1>2, <1>3 DEF WornOut
<1> QED BY <1>3, <1>4 DEF Explained

LEMMA StepExplained == Safe /\ Explained /\ [Next]_vars => Explained'
<1> SUFFICES ASSUME Safe, Explained, [Next]_vars PROVE Explained'
  OBVIOUS
<1>1. ASSUME NEW s \in Slots, NEW n \in Names, n = NameOf(s), GetByName(s)
      PROVE  Explained'
  <2>1. PICK i \in Nat : i = index[n]
    BY DEF Safe, TypeOK
  <2>2. i # 0 /\ index' = index /\ versions' = Extended(i)
    BY <1>1, <2>1 DEF GetByName
  <2>3. CASE Fits(i, VersionOf(i))
    BY <1>1, <2>1, <2>3 DEF GetByName, Answered, Explained
  <2>4. CASE ~Fits(i, VersionOf(i))
    <3>1. answer' = <<"refused", n, Unset>>
      BY <1>1, <2>1, <2>4 DEF GetByName, Answered
    <3> QED BY <2>1, <2>2, <2>4, <3>1, RefusedExplained
  <2> QED BY <2>3, <2>4
<1>2. ASSUME NEW s \in Slots, NEW n \in Names, n = NameOf(s), GetRewritten(s)
      PROVE  Explained'
  <2>1. PICK i \in Nat : i = index[n]
    BY DEF Safe, TypeOK
  <2>2. i # 0 /\ current.reads[s].index = i /\ index' = index /\ versions' = versions
    BY <1>2, <2>1, UsedRead DEF GetRewritten, Safe, TypeOK
  <2>3. CASE answer' = <<"value", n, values[i]>>
    BY <2>3 DEF Explained
  <2>4. CASE answer' = <<"refused", n, Unset>> /\ ~Fits(i, VersionOf(i))
    BY <2>1, <2>2, <2>4, RefusedExplained
  <2> QED BY <1>2, <2>2, <2>3, <2>4 DEF GetRewritten, Answered
<1>3. ASSUME NEW s \in Slots, GetThroughEntry(s) \/ GetUndefined(s)
      PROVE  Explained'
  BY <1>3 DEF GetThroughEntry, GetUndefined, Answered, Explained
<1>4. ASSUME NEW s \in Slots, NEW v \in Values, NEW i \in Nat, i # 0, Assign(s, i, v)
      PROVE  Explained'
  BY <1>4, ExplainedKept DEF Assign
<1>5. ASSUME NEW s \in Slots, NEW v \in Values, SetThroughEntry(s, v) \/ SetByName(s, v)
      PROVE  Explained'
  <2>1. NameOf(s) \in Names /\ index[NameOf(s)] \in Nat
    BY NamesTyped DEF Safe, TypeOK
  <2>2. CASE SetThroughEntry(s, v)
    <3>1. entries[s].index \in Nat /\ entries[s].index # 0
      BY <2>2, UsedEntry, SMTT(30) DEF SetThroughEntry, Safe, TypeOK
    <3> QED BY <2>2, <3>1, <1>4 DEF SetThroughEntry
  <2>3. CASE SetByName(s, v)
    BY <2>1, <2>3, <1>4 DEF SetByName
  <2> QED BY <1>5, <2>2, <2>3
<1>6. ASSUME NEW s \in Slots, NEW v \in Values, SetNew(s, v)
      PROVE  Explained'
  <2>1. NameOf(s) \in Names /\ index[NameOf(s)] = 0 /\ Len(values) + 1 \in Nat
        /\ Len(values) + 1 # 0
    BY <1>6, NamesTyped DEF SetNew, Safe, TypeOK
  <2>2. UNCHANGED answer /\ versions' = Raised(Len(values) + 1)
        /\ index' = [index EXCEPT ![NameOf(s)] = Len(values) + 1]
    BY <1>6 DEF SetNew, DefinedAt
  <2>3. \A n \in Names : index[n] # 0 => index'[n] = index[n]
    BY <2>1, <2>2 DEF Safe, TypeOK
  <2> QED BY <2>1, <2>2, <2>3, ExplainedKept
<1>7. ASSUME NEW n \in Names, NEW v \in Values, HostDefine(n, v)
      PROVE  Explained'
  <2>1. \A m \in Names : index[m] # 0 => index'[m] = index[m]
    BY <1>7 DEF HostDefine, Safe, TypeOK
  <2> QED BY <1>7, <2>1, ExplainedKept DEF HostDefine
<1>8. ASSUME UNCHANGED <<index, versions, answer>>
      PROVE  Explained'
  BY <1>8, ExplainedKept
<1>9. CASE (\E c \in Functions : Call(c) \/ TailCall(c)) \/ Return \/ Load \/ UNCHANGED vars
  BY <1>8, <1>9 DEF Call, TailCall, Return, Load, vars
<1>10. \A s \in Slots : NameOf(s) \in Names
  BY NamesTyped DEF Safe
<1> QED BY <1>1, <1>2, <1>3, <1>5, <1>6, <1>7, <1>9, <1>10 DEF Next

(* Only a variable assigned more often than its 16-bit version can count,  *)
(* or one past the 16-bit index, makes a read fail although it is defined. *)
THEOREM RefusalsExplained == Spec => []RefusesOnlyWornOut
<1>1. Init => Explained
  BY DEF Init, Explained
<1>2. Explained => RefusesOnlyWornOut
  BY DEF Explained, WornOut, RefusesOnlyWornOut
<1> QED BY <1>1, <1>2, AlwaysSafe, StepExplained, PTL DEF Spec

----------------------------------------------------------------------------
(* NuzoDict                                                                *)

Keys == DOMAIN KeyHash
Positions(c) == 0..(c - 1)
Contents(V) == {FreeSlot} \cup (Keys \X V)
TablesOf(c, V) == [large : {TRUE}, capacity : {c}, len : Nat, slots : [Positions(c) -> Contents(V)]]
Tables(V) == UNION {TablesOf(c, V) : c \in Nat \ {0}}

(* Every entry is where a search for its key stops.                        *)
Sound(t) ==
  \A j \in DOMAIN t.slots :
    t.slots[j] # FreeSlot => /\ Stops(t, t.slots[j][1]) # {}
                             /\ SlotOf(t, t.slots[j][1]) = j

(* A set of naturals with an element has a least one.                      *)
LEMMA LeastOf ==
  ASSUME NEW T \in SUBSET Nat, T # {}
  PROVE  \E n \in T : \A m \in T : n <= m
<1>1. PICK n \in T : \A m \in T : ~ <<m, n>> \in OpToRel(<, Nat)
  BY NatLessThanWellFounded, WFMin
<1>2. \A m \in T : ~ (m < n)
  BY <1>1 DEF OpToRel
<1> QED BY <1>2

(* The parts of a table.                                                   *)
LEMMA TableParts ==
  ASSUME NEW V, NEW t \in Tables(V)
  PROVE  /\ t.large = TRUE /\ t.capacity \in Nat \ {0} /\ t.len \in Nat
         /\ t.slots \in [Positions(t.capacity) -> Contents(V)]
         /\ t = [large |-> TRUE, capacity |-> t.capacity, len |-> t.len, slots |-> t.slots]
<1>1. PICK c \in Nat \ {0} : t \in TablesOf(c, V)
  BY DEF Tables
<1> QED BY <1>1 DEF TablesOf

(* And what has them is a table.                                           *)
LEMMA TableMade ==
  ASSUME NEW V, NEW c \in Nat \ {0}, NEW n \in Nat, NEW s \in [Positions(c) -> Contents(V)]
  PROVE  [large |-> TRUE, capacity |-> c, len |-> n, slots |-> s] \in Tables(V)
<1>1. [large |-> TRUE, capacity |-> c, len |-> n, slots |-> s] \in TablesOf(c, V)
  BY DEF TablesOf
<1> QED BY <1>1 DEF Tables

(* A content is free, or an entry of a key.                                *)
LEMMA ContentForms ==
  ASSUME NEW V, NEW e \in Contents(V)
  PROVE  e # FreeSlot => e[1] \in Keys /\ e[2] \in V /\ e = <<e[1], e[2]>>
BY DEF Contents

(* A search looks at slots of the table only.                              *)
LEMMA ProbeInTable ==
  ASSUME NEW V, NEW t \in Tables(V), NEW k \in Keys, NEW j \in Positions(t.capacity)
  PROVE  Probe(t, k, j) \in Positions(t.capacity)
<1>0. t.capacity \in Nat \ {0}
  BY TableParts
<1>1. t.capacity \in Nat \ {0} /\ KeyHash[k] \in Nat /\ j \in Nat
  BY <1>0, DictAssumption DEF Keys, Positions
<1>2. KeyHash[k] + j \in Nat
  BY <1>1
<1>3. (KeyHash[k] + j) % t.capacity \in 0..(t.capacity - 1)
  BY <1>1, <1>2
<1> QED BY <1>3 DEF Probe, Positions

(* A search with a stop ends at the first of them.                         *)
LEMMA FirstStopLeast ==
  ASSUME NEW V, NEW t \in Tables(V), NEW k \in Keys, Stops(t, k) # {}
  PROVE  /\ FirstStop(t, k) \in Stops(t, k)
         /\ \A j \in Stops(t, k) : FirstStop(t, k) <= j
<1>1. Stops(t, k) \in SUBSET Nat
  BY TableParts DEF Stops
<1>2. \E j \in Stops(t, k) : \A other \in Stops(t, k) : j <= other
  BY <1>1, LeastOf
<1> QED BY <1>2 DEF FirstStop

(* And a stop that no stop is before is where it ends.                     *)
LEMMA FirstStopIs ==
  ASSUME NEW V, NEW t \in Tables(V), NEW k \in Keys, NEW j \in Stops(t, k),
         \A other \in Stops(t, k) : j <= other
  PROVE  FirstStop(t, k) = j
<1>1. FirstStop(t, k) \in Stops(t, k) /\ FirstStop(t, k) <= j
  BY FirstStopLeast
<1>2. FirstStop(t, k) \in Nat /\ j \in Nat
  BY <1>1, TableParts DEF Stops
<1> QED BY <1>1, <1>2

(* What SlotOf answers.                                                    *)
LEMMA SlotFound ==
  ASSUME NEW V, NEW t \in Tables(V), NEW k \in Keys, Stops(t, k) # {}
  PROVE  /\ SlotOf(t, k) \in Positions(t.capacity)
         /\ t.slots[SlotOf(t, k)] = FreeSlot \/ t.slots[SlotOf(t, k)][1] = k
<1>1. FirstStop(t, k) \in Stops(t, k)
  BY FirstStopLeast
<1>2. FirstStop(t, k) \in Positions(t.capacity)
  BY <1>1 DEF Stops, Positions
<1> QED BY <1>1, <1>2, ProbeInTable DEF Stops, SlotOf
-------------------------------------------------------------------------------
(* insert_entry of a key whose search stops.                               *)
LEMMA StoredTable ==
  ASSUME NEW V, NEW t \in Tables(V), NEW k \in Keys, NEW v \in V, Stops(t, k) # {}
  PROVE  /\ Stored(t, k, v) \in Tables(V)
         /\ Stored(t, k, v).capacity = t.capacity
         /\ Stored(t, k, v).slots = [t.slots EXCEPT ![SlotOf(t, k)] = <<k, v>>]
<1> DEFINE s == SlotOf(t, k)
           n == IF t.slots[s] = FreeSlot THEN t.len + 1 ELSE t.len
           slots == [t.slots EXCEPT ![s] = <<k, v>>]
<1>1. Stored(t, k, v) = [large |-> TRUE, capacity |-> t.capacity, len |-> n, slots |-> slots]
  <2>1. t = [large |-> TRUE, capacity |-> t.capacity, len |-> t.len, slots |-> t.slots]
    BY TableParts
  <2> QED BY <2>1 DEF Stored
<1>2. n \in Nat /\ t.capacity \in Nat \ {0}
  <2>1. t.len \in Nat /\ t.capacity \in Nat \ {0}
    BY TableParts
  <2> QED BY <2>1
<1>3. slots \in [Positions(t.capacity) -> Contents(V)]
  BY TableParts, SlotFound DEF Contents
<1>4. Stored(t, k, v) \in Tables(V)
  BY <1>1, <1>2, <1>3, TableMade
<1> QED BY <1>1, <1>4

(* The key itself is found where it was put.                               *)
LEMMA StoredFound ==
  ASSUME NEW V, NEW t \in Tables(V), NEW k \in Keys, NEW v \in V, Stops(t, k) # {}
  PROVE  /\ Stops(Stored(t, k, v), k) # {}
         /\ SlotOf(Stored(t, k, v), k) = SlotOf(t, k)
         /\ Stored(t, k, v).slots[SlotOf(t, k)] = <<k, v>>
<1> DEFINE u == Stored(t, k, v)
           s == SlotOf(t, k)
           j0 == FirstStop(t, k)
<1>1. /\ u \in Tables(V) /\ u.capacity = t.capacity
      /\ u.slots = [t.slots EXCEPT ![s] = <<k, v>>]
  BY StoredTable
<1>2. /\ t.slots \in [Positions(t.capacity) -> Contents(V)]
      /\ s \in Positions(t.capacity)
  BY TableParts, SlotFound
<1>3. u.slots[s] = <<k, v>>
  BY <1>1, <1>2
<1>4. \A j \in Positions(t.capacity) : Probe(u, k, j) = Probe(t, k, j)
  BY <1>1 DEF Probe
<1>5. j0 \in Stops(t, k) /\ (\A j \in Stops(t, k) : j0 <= j) /\ j0 \in Positions(t.capacity) /\ Probe(t, k, j0) = s
  BY FirstStopLeast DEF Stops, Positions, SlotOf
<1>6. j0 \in Stops(u, k)
  BY <1>1, <1>3, <1>4, <1>5 DEF Stops, Positions
<1>7. \A j \in Stops(u, k) : j0 <= j
  <2> TAKE j \in Stops(u, k)
  <2>1. j \in Positions(t.capacity) /\ Probe(t, k, j) \in Positions(t.capacity)
    BY <1>1, ProbeInTable DEF Stops, Positions
  <2>2. CASE Probe(t, k, j) = s
    <3>1. j \in Stops(t, k)
      BY <2>1, <2>2, SlotFound DEF Stops, Positions
    <3> QED BY <3>1, <1>5
  <2>3. CASE Probe(t, k, j) # s
    <3>1. u.slots[Probe(t, k, j)] = t.slots[Probe(t, k, j)]
      BY <1>1, <1>2, <2>1, <2>3
    <3>2. u.slots[Probe(t, k, j)] = FreeSlot \/ u.slots[Probe(t, k, j)][1] = k
      BY <1>4, <2>1 DEF Stops
    <3>3. j \in Stops(t, k)
      BY <2>1, <3>1, <3>2 DEF Stops, Positions
    <3> QED BY <3>3, <1>5
  <2> QED BY <2>2, <2>3
<1>8. FirstStop(u, k) = j0
  BY <1>1, <1>6, <1>7, FirstStopIs
<1> QED BY <1>3, <1>4, <1>5, <1>6, <1>8 DEF SlotOf

(* Every other key is found where it was, or not found as before.          *)
LEMMA StoredOthers ==
  ASSUME NEW V, NEW t \in Tables(V), NEW k \in Keys, NEW v \in V, Stops(t, k) # {}, Sound(t),
         NEW o \in Keys, o # k
  PROVE  /\ DictHas(Stored(t, k, v), o) <=> DictHas(t, o)
         /\ DictHas(t, o) => /\ Stops(Stored(t, k, v), o) # {}
                            /\ SlotOf(Stored(t, k, v), o) = SlotOf(t, o)
                            /\ DictGet(Stored(t, k, v), o) = DictGet(t, o)
<1> DEFINE u == Stored(t, k, v)
           s == SlotOf(t, k)
<1>1. /\ u \in Tables(V) /\ u.capacity = t.capacity
      /\ u.slots = [t.slots EXCEPT ![s] = <<k, v>>]
  BY StoredTable
<1>2. /\ t.slots \in [Positions(t.capacity) -> Contents(V)] /\ t.large = TRUE
      /\ s \in Positions(t.capacity)
      /\ t.slots[s] = FreeSlot \/ t.slots[s][1] = k
  BY TableParts, SlotFound
<1>3. u.large = TRUE
  BY <1>1, TableParts
<1>4. u.slots[s] # FreeSlot /\ u.slots[s][1] = k
  BY <1>1, <1>2 DEF FreeSlot
<1>5. \A j \in Positions(t.capacity) : /\ Probe(u, o, j) = Probe(t, o, j)
                                   /\ Probe(t, o, j) \in Positions(t.capacity)
  BY <1>1, ProbeInTable DEF Probe
<1>6. \A p \in Positions(t.capacity) : p # s => u.slots[p] = t.slots[p]
  BY <1>1, <1>2
<1>7. \A j \in Stops(u, o) : j \in Stops(t, o) /\ Probe(t, o, j) # s
  <2> TAKE j \in Stops(u, o)
  <2>1. j \in Positions(t.capacity)
    BY <1>1 DEF Stops, Positions
  <2>2. u.slots[Probe(t, o, j)] = FreeSlot \/ u.slots[Probe(t, o, j)][1] = o
    BY <1>5, <2>1 DEF Stops
  <2>3. Probe(t, o, j) # s
    BY <1>4, <2>2
  <2> QED BY <1>5, <1>6, <2>1, <2>2, <2>3 DEF Stops, Positions
<1>8. \A j \in Stops(t, o) : Probe(t, o, j) # s => j \in Stops(u, o)
  BY <1>1, <1>5, <1>6 DEF Stops, Positions
<1>9. ASSUME DictHas(t, o)
      PROVE  /\ DictHas(u, o)
             /\ Stops(u, o) # {} /\ SlotOf(u, o) = SlotOf(t, o) /\ DictGet(u, o) = DictGet(t, o)
  <2> DEFINE j0 == FirstStop(t, o)
  <2>1. Stops(t, o) # {} /\ t.slots[SlotOf(t, o)] # FreeSlot
    BY <1>2, <1>9 DEF DictHas
  <2>2. j0 \in Stops(t, o) /\ (\A j \in Stops(t, o) : j0 <= j) /\ SlotOf(t, o) = Probe(t, o, j0)
    BY <2>1, FirstStopLeast DEF SlotOf
  <2>3. SlotOf(t, o) \in Positions(t.capacity) /\ t.slots[SlotOf(t, o)][1] = o
    BY <2>1, SlotFound
  <2>4. SlotOf(t, o) # s
    BY <1>2, <2>1, <2>3
  <2>5. j0 \in Stops(u, o)
    BY <1>8, <2>2, <2>4
  <2>6. FirstStop(u, o) = j0
    BY <1>1, <1>7, <2>2, <2>5, FirstStopIs
  <2>7. j0 \in Positions(t.capacity)
    BY <2>2 DEF Stops, Positions
  <2>8. SlotOf(u, o) = SlotOf(t, o)
    BY <1>5, <2>2, <2>6, <2>7 DEF SlotOf
  <2>9. u.slots[SlotOf(u, o)] = t.slots[SlotOf(t, o)]
    BY <1>6, <2>3, <2>4, <2>8
  <2> QED BY <1>2, <1>3, <2>1, <2>5, <2>8, <2>9 DEF DictHas, DictGet
<1>10. ASSUME DictHas(u, o)
       PROVE  DictHas(t, o)
  <2> DEFINE p == SlotOf(u, o)
             j0 == FirstStop(u, o)
  <2>1. Stops(u, o) # {} /\ u.slots[p] # FreeSlot
    BY <1>3, <1>10 DEF DictHas
  <2>2. j0 \in Stops(u, o)
    BY <1>1, <2>1, FirstStopLeast
  <2>3. p \in Positions(t.capacity) /\ u.slots[p][1] = o
    BY <1>1, <2>1, SlotFound
  <2>4. p # s
    BY <1>4, <2>3
  <2>5. t.slots[p] # FreeSlot /\ t.slots[p][1] = o
    BY <1>6, <2>1, <2>3, <2>4
  <2>6. Stops(t, o) # {} /\ SlotOf(t, o) = p
    BY <1>2, <2>3, <2>5 DEF Sound
  <2> QED BY <1>2, <2>5, <2>6 DEF DictHas
<1> QED BY <1>9, <1>10

(* LargeDict::insert where the table need not grow: what was put is found, *)
(* every other key keeps its value or its absence, and every entry stays   *)
(* where a search for it stops.                                            *)
THEOREM TableKeeps ==
  ASSUME NEW V, NEW t \in Tables(V), Sound(t), ~Crowded(t),
         NEW k \in Keys, NEW v \in V, Stops(t, k) # {}
  PROVE  /\ DictInsert(t, k, v) \in Tables(V) /\ Sound(DictInsert(t, k, v))
         /\ DictHas(DictInsert(t, k, v), k) /\ DictGet(DictInsert(t, k, v), k) = v
         /\ \A o \in Keys \ {k} :
              /\ DictHas(DictInsert(t, k, v), o) <=> DictHas(t, o)
              /\ DictHas(t, o) => DictGet(DictInsert(t, k, v), o) = DictGet(t, o)
<1> DEFINE u == Stored(t, k, v)
           s == SlotOf(t, k)
<1>1. DictInsert(t, k, v) = u
  BY TableParts DEF DictInsert
<1>2. /\ u \in Tables(V) /\ u.capacity = t.capacity
      /\ u.slots = [t.slots EXCEPT ![s] = <<k, v>>]
  BY StoredTable
<1>3. t.slots \in [Positions(t.capacity) -> Contents(V)] /\ t.large = TRUE /\ s \in Positions(t.capacity)
  BY TableParts, SlotFound
<1>4. Stops(u, k) # {} /\ SlotOf(u, k) = s /\ u.slots[s] = <<k, v>>
  BY StoredFound
<1>5. u.large = TRUE
  BY <1>2, TableParts
<1>6. DictHas(u, k) /\ DictGet(u, k) = v
  BY <1>4, <1>5 DEF DictHas, DictGet, FreeSlot
<1>7. \A o \in Keys \ {k} : /\ DictHas(u, o) <=> DictHas(t, o)
                            /\ DictHas(t, o) => DictGet(u, o) = DictGet(t, o)
  BY StoredOthers
<1>8. Sound(u)
  <2> SUFFICES ASSUME NEW j \in DOMAIN u.slots, u.slots[j] # FreeSlot
               PROVE  Stops(u, u.slots[j][1]) # {} /\ SlotOf(u, u.slots[j][1]) = j
    BY DEF Sound
  <2>1. CASE j = s
    BY <1>4, <2>1
  <2>2. CASE j # s
    <3> DEFINE o == t.slots[j][1]
    <3>1. j \in Positions(t.capacity) /\ u.slots[j] = t.slots[j]
      BY <1>2, <1>3, <2>2
    <3>2. t.slots[j] # FreeSlot /\ o \in Keys
      BY <1>3, <3>1, ContentForms
    <3>3. Stops(t, o) # {} /\ SlotOf(t, o) = j
      BY <1>3, <3>1, <3>2 DEF Sound
    <3>4. o # k
      BY <3>3, <2>2
    <3>5. DictHas(t, o)
      BY <1>3, <3>2, <3>3 DEF DictHas
    <3>6. Stops(u, o) # {} /\ SlotOf(u, o) = SlotOf(t, o)
      BY <3>2, <3>4, <3>5, StoredOthers
    <3> QED BY <3>1, <3>3, <3>6
  <2> QED BY <2>1, <2>2
<1> QED BY <1>1, <1>2, <1>6, <1>7, <1>8

=============================================================================
