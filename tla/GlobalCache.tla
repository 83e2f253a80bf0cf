----------------------------- MODULE GlobalCache -----------------------------
(***************************************************************************)
(* Reads and writes of global variables by the VM (nuzo-vm,                *)
(* dispatch/globals.rs).  A name is an index into the constants of its     *)
(* chunk, a variable an index into the values of the GlobalScope, and two  *)
(* caches lead from one to the other without looking the name up:          *)
(*                                                                         *)
(*   - global_cache, a vector indexed by the name's constant, shared by    *)
(*     all chunks although each numbers its constants anew: it has to be   *)
(*     emptied whenever the running chunk changes (invalidate_cigc_cache); *)
(*   - the instruction itself: the first GetGlobal that looks its name up  *)
(*     rewrites itself into GetGlobalCached, which holds the variable's    *)
(*     index and version in its 16-bit operands.                           *)
(*                                                                         *)
(* Every variable has a version that assignments of the script raise.  A   *)
(* chunk held by somebody else (chunk_cache) is cloned before it is        *)
(* rewritten, so the rewritten instructions belong to an activation.       *)
(* Indices count from 1 here, 0 is the u32::MAX that marks an empty entry. *)
(***************************************************************************)
EXTENDS Integers, Sequences

CONSTANTS
  Names, Values, Unset,
  Functions,     \* the chunks of chunk_cache and module_cache
  Main,          \* the chunk the host loads
  Slots,         \* the indices of names among the constants of a chunk
  NameAt,        \* NameAt[c][s]: the name at index s of chunk c
  OperandMax,    \* u16::MAX
  MaxVersion,    \* bound: assignments to one variable
  MaxDepth       \* bound: frames

Chunks == Functions \cup {Main}

ASSUME CacheAssumption ==
  /\ Unset \notin Values
  /\ NameAt \in [Chunks -> [Slots -> Names]]
  /\ OperandMax \in Nat
  /\ MaxVersion \in Nat /\ MaxDepth \in Nat

VARIABLES
  index,      \* GlobalScope::names: the index of each name, 0 if undefined
  values,     \* GlobalScope::values
  versions,   \* global_versions, a vector that may lag behind values
  entries,    \* global_cache
  current,    \* the running activation: its chunk and its rewritten reads
  callers,    \* the activations below it
  answer      \* what the last read said: <<kind, name, value>>
vars == <<index, values, versions, entries, current, callers, answer>>

Entry == [index : Nat, version : Nat]
Empty == [index |-> 0, version |-> 0]
NoEntries == [s \in Slots |-> Empty]
Read == [index : Nat, version : 0..OperandMax]   \* the operands fit
Activation == [chunk : Chunks, reads : [Slots -> Read]]
Fresh(c) == [chunk |-> c, reads |-> NoEntries]

Init ==
  /\ index = [n \in Names |-> 0]
  /\ values = <<>>
  /\ versions = <<>>
  /\ entries = NoEntries
  /\ current = Fresh(Main)
  /\ callers = <<>>
  /\ answer = <<"none", Unset, Unset>>

NameOf(s) == NameAt[current.chunk][s]

VersionOf(i) == IF i \in DOMAIN versions THEN versions[i] ELSE 0
(* The resize of global_versions before index i is used. *)
Extended(i) ==
  [j \in 1..(IF i > Len(versions) THEN i ELSE Len(versions)) |-> VersionOf(j)]

Valid(e) == e.index \in DOMAIN versions /\ versions[e.index] = e.version

(* invalidate_cigc_cache *)
MutInvalidated == entries
Invalidated == NoEntries

Answered(kind, n, v) == answer' = <<kind, n, v>>

------------------------------------------------------------------------------
(* Reads *)

MutFitsLess(i, ver) == i - 1 <= OperandMax /\ ver < OperandMax
Fits(i, ver) == i - 1 <= OperandMax /\ ver <= OperandMax

(* patch_code: the read becomes GetGlobalCached with this index and version. *)
MutRewritten(s, i, ver) ==
  [chunk |-> current.chunk,
   reads |-> [current.reads EXCEPT ![s] = [index |-> ver + 1, version |-> i - 1]]]
Rewritten(s, i, ver) ==
  [chunk |-> current.chunk,
   reads |-> [current.reads EXCEPT ![s] = [index |-> i, version |-> ver]]]

(* op_get_global, the entry of the name is up to date. *)
GetThroughEntry(s) ==
  /\ current.reads[s] = Empty
  /\ Valid(entries[s])
  /\ Answered("value", NameOf(s), values[entries[s].index])
  /\ UNCHANGED <<index, values, versions, entries, current, callers>>

(* op_get_global, the name is looked up: the entry is filled and the       *)
(* instruction rewritten, unless its operands are too small, which is an   *)
(* error.                                                                  *)
GetByName(s) ==
  LET i == index[NameOf(s)] IN
  /\ current.reads[s] = Empty
  /\ ~Valid(entries[s])
  /\ i # 0
  /\ versions' = Extended(i)
  /\ entries' = [entries EXCEPT ![s] = [index |-> i, version |-> VersionOf(i)]]
  /\ IF Fits(i, VersionOf(i))
     THEN /\ current' = Rewritten(s, i, VersionOf(i))
          /\ Answered("value", NameOf(s), values[i])
     ELSE /\ Answered("refused", NameOf(s), Unset)
          /\ UNCHANGED current
  /\ UNCHANGED <<index, values, callers>>

GetUndefined(s) ==
  /\ current.reads[s] = Empty
  /\ ~Valid(entries[s])
  /\ index[NameOf(s)] = 0
  /\ Answered("undefined", NameOf(s), Unset)
  /\ UNCHANGED <<index, values, versions, entries, current, callers>>

(* op_get_global_cached: with the right version the value is read, with    *)
(* another it is read too and the version in the instruction renewed.      *)
GetRewritten(s) ==
  LET r == current.reads[s] IN
  /\ r # Empty
  /\ IF Valid(r) \/ Fits(r.index, VersionOf(r.index))
     THEN /\ Answered("value", NameOf(s), values[r.index])
          /\ current' = IF Valid(r) THEN current
                        ELSE Rewritten(s, r.index, VersionOf(r.index))
     ELSE /\ Answered("refused", NameOf(s), Unset)
          /\ UNCHANGED current
  /\ UNCHANGED <<index, values, versions, entries, callers>>

------------------------------------------------------------------------------
(* Writes *)

Raised(i) == [Extended(i) EXCEPT ![i] = @ + 1]

(* op_set_global to variable i: the value, the version, the entry. *)
Assign(s, i, v) ==
  /\ VersionOf(i) < MaxVersion
  /\ values' = [values EXCEPT ![i] = v]
  /\ versions' = Raised(i)
  /\ entries' = [entries EXCEPT ![s] = [index |-> i, version |-> VersionOf(i) + 1]]
  /\ UNCHANGED <<index, current, callers, answer>>

SetThroughEntry(s, v) == Valid(entries[s]) /\ Assign(s, entries[s].index, v)

SetByName(s, v) ==
  /\ ~Valid(entries[s])
  /\ index[NameOf(s)] # 0
  /\ Assign(s, index[NameOf(s)], v)

(* op_set_global of a name never defined: set_global_by_name appends it, *)
(* and the entry is filled with the index it got.                        *)
MutDefinedAt == Len(values)
DefinedAt == Len(values) + 1

SetNew(s, v) ==
  LET i == DefinedAt IN
  /\ ~Valid(entries[s])
  /\ index[NameOf(s)] = 0
  /\ VersionOf(i) < MaxVersion
  /\ index' = [index EXCEPT ![NameOf(s)] = i]
  /\ values' = Append(values, v)
  /\ versions' = Raised(i)
  /\ entries' = [entries EXCEPT ![s] = [index |-> i, version |-> VersionOf(i) + 1]]
  /\ UNCHANGED <<current, callers, answer>>

(* define_global and set_global_by_name, called by the host between runs   *)
(* and, for the flag of a lazy import, by op_init_module: no version moves.*)
HostDefine(n, v) ==
  /\ IF index[n] # 0
     THEN values' = [values EXCEPT ![index[n]] = v] /\ UNCHANGED index
     ELSE values' = Append(values, v) /\ index' = [index EXCEPT ![n] = Len(values) + 1]
  /\ UNCHANGED <<versions, entries, current, callers, answer>>

------------------------------------------------------------------------------
(* Changes of chunk *)

(* A call, the top level of an import, or a function called by the host.   *)
Call(c) ==
  /\ Len(callers) < MaxDepth
  /\ callers' = Append(callers, current)
  /\ current' = Fresh(c)
  /\ entries' = Invalidated
  /\ UNCHANGED <<index, values, versions, answer>>

(* op_tail_call: a function that calls itself keeps the code it runs, and  *)
(* the entries with it.                                                    *)
TailCall(c) ==
  /\ callers # <<>>
  /\ c # current.chunk
  /\ current' = Fresh(c)
  /\ entries' = Invalidated
  /\ UNCHANGED <<index, values, versions, callers, answer>>

(* pop_frame *)
Return ==
  /\ callers # <<>>
  /\ current' = callers[Len(callers)]
  /\ callers' = SubSeq(callers, 1, Len(callers) - 1)
  /\ entries' = Invalidated
  /\ UNCHANGED <<index, values, versions, answer>>

(* reset_and_load_chunk: a new program in the same VM, whatever the last   *)
(* one left; scope, versions and chunk_cache stay.                         *)
Load ==
  /\ current' = Fresh(Main)
  /\ callers' = <<>>
  /\ entries' = Invalidated
  /\ UNCHANGED <<index, values, versions, answer>>

Next ==
  \/ \E s \in Slots :
       \/ GetThroughEntry(s) \/ GetByName(s) \/ GetUndefined(s) \/ GetRewritten(s)
       \/ \E v \in Values : SetThroughEntry(s, v) \/ SetByName(s, v) \/ SetNew(s, v)
  \/ \E n \in Names, v \in Values : HostDefine(n, v)
  \/ \E c \in Functions : Call(c) \/ TailCall(c)
  \/ Return \/ Load

Spec == Init /\ [][Next]_vars

------------------------------------------------------------------------------
(* Properties *)

(* The state has the shape the code gives it: versions never run ahead of  *)
(* the values (op_get_global resizes them to a resolved index), and a      *)
(* version written into an instruction fits its operand.                   *)
TypeOK ==
  /\ index \in [Names -> 0..Len(values)]
  /\ values \in Seq(Values)
  /\ versions \in Seq(Nat) /\ Len(versions) <= Len(values)
  /\ entries \in [Slots -> Entry]
  /\ current \in Activation
  /\ callers \in Seq(Activation)

(* An entry of global_cache that is in use leads to the variable its       *)
(* constant names in the chunk that runs now, whichever chunks have filled *)
(* and emptied the vector before (globals.rs:35, variable_ops.rs:590).     *)
EntriesLeadToTheirName ==
  \A s \in Slots : entries[s].index # 0 => entries[s].index = index[NameOf(s)]

(* A rewritten read, in the running activation or in one that waits for a  *)
(* call to return, leads to the variable of the name it replaced           *)
(* (globals.rs:82).                                                        *)
LeadsToItsName(a) ==
  \A s \in Slots : a.reads[s] # Empty =>
     /\ a.reads[s].index # 0
     /\ a.reads[s].index = index[NameAt[a.chunk][s]]
ReadsLeadToTheirName ==
  /\ LeadsToItsName(current)
  /\ \A k \in DOMAIN callers : LeadsToItsName(callers[k])

(* Through every path a read answers the value its name has now, and fails *)
(* as undefined only if the name was never defined: the caches implement   *)
(* Globals.                                                                *)
Scope == [n \in Names |-> IF index[n] = 0 THEN Unset ELSE values[index[n]]]
ABS == INSTANCE Globals WITH scope <- Scope
ImplementsGlobals == ABS!Spec

(* A read is refused only when its variable was assigned more often than   *)
(* 16 bits can count (globals.rs:75 and 202).                              *)
RefusesOnlyWornOut ==
  answer[1] = "refused" => VersionOf(index[answer[2]]) > OperandMax
                           \/ index[answer[2]] - 1 > OperandMax

(* "B1-style loop should complete" (vm_tests.rs:2095): a loop at top level *)
(* that assigns its variable a million times and reads it each time ends   *)
(* without an error.                                                       *)
NeverRefused == answer[1] # "refused"
==============================================================================
