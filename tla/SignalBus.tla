------------------------------ MODULE SignalBus ------------------------------
(***************************************************************************)
(* The registry of named signals of nuzo-signal (bus.rs).                  *)
(*                                                                         *)
(* A map from keys (a name and a type) to signals and a list of the names  *)
(* in it, behind a readers-writer lock each.  register holds the first     *)
(* while it takes the second; get does too when it finds no signal, to     *)
(* tell an unknown name from another type; list_signals takes the second   *)
(* only, and clear one after the other.  A section that waits for nothing  *)
(* is one step.  Locks are not poisoned: nothing in a section panics.      *)
(***************************************************************************)
EXTENDS Integers, Sequences, SequencesExt, Functions

CONSTANTS
    Threads,
    Names, Types,   \* what keys are made of
    None,           \* no operation, or no signal
    MaxOps          \* bound of the model: operations begun

Keys    == Names \X Types
NameOf(k) == k[1]
Signals == 1 .. MaxOps    \* a signal has the number of the call that registered it

Locks == {"signals", "names"}

Requests == [op : {"register", "get"}, key : Keys] \cup [op : {"list", "clear"}, key : {None}]
NoCall   == [op |-> None, key |-> None, signal |-> None]

ASSUME BusAssumption == MaxOps \in Nat /\ None \notin Keys \cup Locks

VARIABLES
    signals,     \* the map, on the keys that are registered
    names,
    call,        \* what each thread is doing
    at,          \* "idle", "begun", or "first" after the first of two sections
    held,        \* the lock a thread waits with: none, or one with its mode
    begun,       \* operations begun so far
    orphaned     \* keys whose name a clear took that overtook their registration (no program state)

vars == <<signals, names, call, at, held, begun, orphaned>>

Free == [lock |-> None, mode |-> None]

(* RwLock                                                                  *)
MayRead(t, l)  == \A u \in Threads \ {t} : held[u] # [lock |-> l, mode |-> "write"]
MayWrite(t, l) == \A u \in Threads \ {t} : held[u].lock # l

----------------------------------------------------------------------------
Begin(t, r) ==
    /\ at[t] = "idle" /\ begun < MaxOps
    /\ begun' = begun + 1
    /\ call' = [call EXCEPT ![t] = [op |-> r.op, key |-> r.key, signal |-> begun']]
    /\ at'   = [at EXCEPT ![t] = "begun"]
    /\ UNCHANGED <<signals, names, held, orphaned>>

Returns(t) ==
    /\ at'   = [at EXCEPT ![t] = "idle"]
    /\ call' = [call EXCEPT ![t] = NoCall]
    /\ held' = [held EXCEPT ![t] = Free]

Waits(t, l, m) ==
    /\ at'   = [at EXCEPT ![t] = "first"]
    /\ held' = [held EXCEPT ![t] = [lock |-> l, mode |-> m]]
    /\ UNCHANGED call

Key(t) == call[t].key

(* register: the map first, under a lock that is kept.                     *)
MutOuter == "names"
Outer == "signals"
Inner == CHOOSE l \in Locks : l # Outer

MutRegistered(k) == FALSE
Registered(k) == k \in DOMAIN signals

RegisterKey(t) ==
    /\ call[t].op = "register" /\ at[t] = "begun"
    /\ MayWrite(t, Outer)
    /\ IF Registered(Key(t)) THEN Returns(t) ELSE Waits(t, Outer, "write")
    /\ UNCHANGED <<signals, names, begun, orphaned>>

MutWithName(n) == Append(names, n)
MutWithNoName(n) == names
WithName(n) == IF n \in Range(names) THEN names ELSE Append(names, n)

RegisterName(t) ==
    /\ call[t].op = "register" /\ at[t] = "first"
    /\ MayWrite(t, Inner)
    /\ signals' = [k \in DOMAIN signals \cup {Key(t)} |-> IF k = Key(t) THEN call[t].signal ELSE signals[k]]
    /\ names'   = WithName(NameOf(Key(t)))
    /\ Returns(t)
    /\ UNCHANGED <<begun, orphaned>>

(* get                                                                     *)
GetKey(t) ==
    /\ call[t].op = "get" /\ at[t] = "begun"
    /\ MayRead(t, "signals")
    /\ IF Key(t) \in DOMAIN signals THEN Returns(t) ELSE Waits(t, "signals", "read")
    /\ UNCHANGED <<signals, names, begun, orphaned>>

TypeMismatch(k) == NameOf(k) \in Range(names)    \* or else NotFound

GetName(t) ==
    /\ call[t].op = "get" /\ at[t] = "first"
    /\ MayRead(t, "names")
    /\ Returns(t)
    /\ UNCHANGED <<signals, names, begun, orphaned>>

ListSignals(t) ==
    /\ call[t].op = "list" /\ at[t] = "begun"
    /\ MayRead(t, "names")
    /\ Returns(t)
    /\ UNCHANGED <<signals, names, begun, orphaned>>

(* clear lets the first lock go before it takes the second.                *)
ClearSignals(t) ==
    /\ call[t].op = "clear" /\ at[t] = "begun"
    /\ MayWrite(t, "signals")
    /\ signals' = [k \in {} |-> None]
    /\ at' = [at EXCEPT ![t] = "first"]
    /\ orphaned' = {}
    /\ UNCHANGED <<names, call, held, begun>>

ClearNames(t) ==
    /\ call[t].op = "clear" /\ at[t] = "first"
    /\ MayWrite(t, "names")
    /\ names' = <<>>
    /\ orphaned' = DOMAIN signals
    /\ Returns(t)
    /\ UNCHANGED <<signals, begun>>

Init ==
    /\ signals = [k \in {} |-> None]
    /\ names = <<>>
    /\ call  = [t \in Threads |-> NoCall]
    /\ at    = [t \in Threads |-> "idle"]
    /\ held  = [t \in Threads |-> Free]
    /\ begun = 0
    /\ orphaned = {}

Step(t) ==
    \/ RegisterKey(t) \/ RegisterName(t)
    \/ GetKey(t) \/ GetName(t)
    \/ ListSignals(t)
    \/ ClearSignals(t) \/ ClearNames(t)

Next == \E t \in Threads : Step(t) \/ \E r \in Requests : Begin(t, r)

(* A thread that may go on does: locks are held for a few steps only.      *)
Spec == Init /\ [][Next]_vars /\ \A t \in Threads : WF_vars(Step(t))
----------------------------------------------------------------------------
(* The types of the state, and how a lock is held.                         *)
TypeOK ==
    /\ DOMAIN signals \subseteq Keys /\ Range(signals) \subseteq Signals
    /\ names \in Seq(Names)
    /\ \A t \in Threads :
         \/ at[t] = "idle" /\ call[t] = NoCall /\ held[t] = Free
         \/ at[t] \in {"begun", "first"} /\ call[t].signal \in Signals
    /\ held \in [Threads -> [lock : Locks, mode : {"read", "write"}] \cup {Free}]
    /\ begun \in 0 .. MaxOps
    /\ orphaned \subseteq DOMAIN signals

Clearing == \E t \in Threads : call[t].op = "clear" /\ at[t] = "first"

(* What a listing and the two answers of get rest on: every name is listed *)
(* once, and those listed are the names of the signals.  A clear that is   *)
(* half way through may leave names without a signal for that time, and a  *)
(* signal that it overtook without its name for good (bus.rs, register,    *)
(* get, list_signals, clear).                                              *)
InStepUnlessOvertaken ==
    /\ IsInjective(names)
    /\ ~Clearing =>
         /\ Range(names) \subseteq {NameOf(k) : k \in DOMAIN signals}
         /\ {NameOf(k) : k \in DOMAIN signals \ orphaned} \subseteq Range(names)

(* Nobody replaces a signal: observers that got it before go on hearing    *)
(* what later users of the key emit, until a clear (bus.rs, register).     *)
NeverReplaced ==
    [][\A k \in DOMAIN signals \cap DOMAIN signals' : signals'[k] = signals[k]]_vars

(* Every operation that has begun returns, whatever the others wait for    *)
(* and hold (bus.rs, "deadlock prevention").                               *)
OperationsReturn == \A t \in Threads : at[t] # "idle" ~> at[t] = "idle"

(* "names ... is kept in step with the signals map" (bus.rs): with no      *)
(* operation under way, the names are those of the signals.                *)
NamesInStep ==
    (\A t \in Threads : at[t] = "idle") =>
        Range(names) = {NameOf(k) : k \in DOMAIN signals}

(* "TypeMismatch: the name exists, with another type" (bus.rs, get).       *)
MismatchMeansOtherType ==
    [][\A t \in Threads : GetName(t) /\ TypeMismatch(Key(t)) =>
          \E k \in DOMAIN signals : NameOf(k) = NameOf(Key(t))]_vars
=============================================================================
