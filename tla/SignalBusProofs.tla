--------------------------- MODULE SignalBusProofs ---------------------------
(***************************************************************************)
(* The registry of signals for any number of threads, names and types:     *)
(* the two maps agree unless a clear overtakes, and no signal is replaced. *)
(*                                                                         *)
(* Both rest on what a registration knows when it comes to its second      *)
(* lock: it still has the first alone, so its key is still not registered. *)
(***************************************************************************)
EXTENDS SignalBus, TLAPS

Writer == [lock |-> "signals", mode |-> "write"]

Typed ==
    /\ names \in Seq(Names)
    /\ at   \in [Threads -> {"idle", "begun", "first"}]
    /\ held \in [Threads -> [lock : Locks, mode : {"read", "write"}] \cup {Free}]
    /\ DOMAIN call = Threads
    /\ \A t \in Threads : call[t].op = "register" /\ at[t] # "idle" => call[t].key \in Keys

(* Who registers a key has the map to itself, and the key is not in it.    *)
Registering ==
    \A t \in Threads :
        call[t].op = "register" /\ at[t] = "first" =>
            held[t] = Writer /\ Key(t) \notin DOMAIN signals

Exclusive ==
    \A t, u \in Threads : t # u /\ held[t] = Writer => held[u].lock # "signals"

Inv == Typed /\ Registering /\ Exclusive /\ InStepUnlessOvertaken

USE DEF Keys, Locks, Free, Key, Waits, Returns, MayRead, MayWrite, Outer

LEMMA InnerLock == Inner = "names"
BY DEF Inner

(* A name that is not listed is listed once when it is appended.           *)
LEMMA AppendedOnce ==
  ASSUME NEW n \in Names, names \in Seq(Names), IsInjective(names)
  PROVE  /\ WithName(n) \in Seq(Names)
         /\ IsInjective(WithName(n))
         /\ Range(WithName(n)) = Range(names) \cup {n}
<1>1. CASE n \in Range(names)
  BY <1>1 DEF WithName
<1>2. CASE n \notin Range(names)
  <2> DEFINE s == Append(names, n)
  <2>1. s \in Seq(Names) /\ WithName(n) = s
    BY <1>2 DEF WithName
  <2>2. /\ DOMAIN names = 1 .. Len(names) /\ DOMAIN s = 1 .. Len(names) + 1
        /\ \A i \in 1 .. Len(names) : s[i] = names[i] /\ s[i] # n
        /\ s[Len(names) + 1] = n
    BY <1>2 DEF Range
  <2>3. IsInjective(s)
    BY <2>2 DEF IsInjective
  <2>4. Range(s) = Range(names) \cup {n}
    BY <2>2 DEF Range
  <2> QED BY <2>1, <2>3, <2>4
<1> QED BY <1>1, <1>2

LEMMA Initially == Init => Inv
<1> SUFFICES ASSUME Init PROVE Inv
  OBVIOUS
<1>1. Typed
  BY DEF Init, Typed, NoCall
<1>2. Registering /\ Exclusive /\ ~ Clearing
  BY BusAssumption DEF Init, Registering, Exclusive, Clearing
<1>3. InStepUnlessOvertaken
  BY DEF Init, InStepUnlessOvertaken, IsInjective, Range
<1> QED BY <1>1, <1>2, <1>3 DEF Inv

LEMMA Preserved == Inv /\ [Next]_vars => Inv'
<1> SUFFICES ASSUME Inv, [Next]_vars PROVE Inv'
  OBVIOUS
<1> USE BusAssumption
<1>1. ASSUME NEW t \in Threads, NEW r \in Requests, Begin(t, r) PROVE Inv'
  <2>1. Typed'
    BY <1>1 DEF Inv, Typed, Begin, Requests
  <2>2. Registering'
    BY <1>1, <2>1 DEF Inv, Typed, Registering, Exclusive, Writer, Begin, Requests
  <2>3. Exclusive'
    BY <1>1 DEF Inv, Typed, Exclusive, Writer, Begin, Requests
  <2>4. InStepUnlessOvertaken'
    BY <1>1 DEF Inv, Typed, InStepUnlessOvertaken, Clearing, Begin, Requests
  <2> QED BY <2>1, <2>2, <2>3, <2>4 DEF Inv
<1>2. ASSUME NEW t \in Threads, RegisterKey(t) PROVE Inv'
  <2>1. Typed'
    BY <1>2 DEF Inv, Typed, RegisterKey, Registered
  <2>2. Registering'
    BY <1>2, <2>1 DEF Inv, Typed, Registering, Exclusive, Writer, RegisterKey, Registered
  <2>3. Exclusive'
    BY <1>2 DEF Inv, Typed, Exclusive, Writer, RegisterKey, Registered
  <2>4. InStepUnlessOvertaken'
    BY <1>2 DEF Inv, Typed, InStepUnlessOvertaken, Clearing, RegisterKey, Registered
  <2> QED BY <2>1, <2>2, <2>3, <2>4 DEF Inv
<1>3. ASSUME NEW t \in Threads, RegisterName(t) PROVE Inv'
  <2> DEFINE n == NameOf(Key(t))
  <2>1. n \in Names /\ names' = WithName(n)
    BY <1>3 DEF Inv, Typed, RegisterName, NameOf
  <2>2. /\ names' \in Seq(Names) /\ IsInjective(names)'
        /\ Range(names)' = Range(names) \cup {n}
    BY <2>1, AppendedOnce DEF Inv, Typed, InStepUnlessOvertaken
  <2>3. Typed'
    BY <1>3, <2>2 DEF Inv, Typed, RegisterName, NoCall
  <2>4. held[t] = Writer
    BY <1>3 DEF Inv, Registering, RegisterName
  <2>5. \A u \in Threads : at'[u] = "first" => u # t /\ at[u] = "first" /\ call'[u] = call[u] /\ held'[u] = held[u]
    BY <1>3 DEF Inv, Typed, RegisterName
  <2>6. \A u \in Threads \ {t} : held[u] # Writer
    BY <2>4 DEF Inv, Exclusive, Writer
  <2>7. Registering'
    BY <2>5, <2>6 DEF Inv, Registering
  <2>8. Exclusive'
    BY <1>3 DEF Inv, Typed, Exclusive, Writer, RegisterName
  <2>9. DOMAIN signals' = DOMAIN signals \cup {Key(t)} /\ orphaned' = orphaned
    BY <1>3 DEF RegisterName
  <2>10. Clearing => Clearing'
    BY <1>3 DEF Inv, Typed, Clearing, RegisterName
  <2>11. InStepUnlessOvertaken'
    BY <2>2, <2>9, <2>10 DEF Inv, InStepUnlessOvertaken
  <2> QED BY <2>3, <2>7, <2>8, <2>11 DEF Inv
<1>4. ASSUME NEW t \in Threads, GetKey(t) PROVE Inv'
  <2>1. Typed'
    BY <1>4 DEF Inv, Typed, GetKey
  <2>2. Registering'
    BY <1>4, <2>1 DEF Inv, Typed, Registering, Exclusive, Writer, GetKey
  <2>3. Exclusive'
    BY <1>4 DEF Inv, Typed, Exclusive, Writer, GetKey
  <2>4. InStepUnlessOvertaken'
    BY <1>4 DEF Inv, Typed, InStepUnlessOvertaken, Clearing, GetKey
  <2> QED BY <2>1, <2>2, <2>3, <2>4 DEF Inv
<1>5. ASSUME NEW t \in Threads, GetName(t) PROVE Inv'
  <2>1. Typed'
    BY <1>5 DEF Inv, Typed, GetName
  <2>2. Registering'
    BY <1>5, <2>1 DEF Inv, Typed, Registering, Exclusive, Writer, GetName
  <2>3. Exclusive'
    BY <1>5 DEF Inv, Typed, Exclusive, Writer, GetName
  <2>4. InStepUnlessOvertaken'
    BY <1>5 DEF Inv, Typed, InStepUnlessOvertaken, Clearing, GetName
  <2> QED BY <2>1, <2>2, <2>3, <2>4 DEF Inv
<1>6. ASSUME NEW t \in Threads, ListSignals(t) PROVE Inv'
  <2>1. Typed'
    BY <1>6 DEF Inv, Typed, ListSignals
  <2>2. Registering'
    BY <1>6, <2>1 DEF Inv, Typed, Registering, Exclusive, Writer, ListSignals
  <2>3. Exclusive'
    BY <1>6 DEF Inv, Typed, Exclusive, Writer, ListSignals
  <2>4. InStepUnlessOvertaken'
    BY <1>6 DEF Inv, Typed, InStepUnlessOvertaken, Clearing, ListSignals
  <2> QED BY <2>1, <2>2, <2>3, <2>4 DEF Inv
<1>7. ASSUME NEW t \in Threads, ClearSignals(t) PROVE Inv'
  <2>1. Typed'
    BY <1>7 DEF Inv, Typed, ClearSignals
  <2>2. Registering'
    BY <1>7, <2>1 DEF Inv, Typed, Registering, Exclusive, Writer, ClearSignals
  <2>3. Exclusive'
    BY <1>7 DEF Inv, Typed, Exclusive, Writer, ClearSignals
  <2>4. InStepUnlessOvertaken'
    BY <1>7 DEF Inv, Typed, InStepUnlessOvertaken, Clearing, ClearSignals
  <2> QED BY <2>1, <2>2, <2>3, <2>4 DEF Inv
<1>8. ASSUME NEW t \in Threads, ClearNames(t) PROVE Inv'
  <2>1. Typed'
    BY <1>8 DEF Inv, Typed, ClearNames, IsInjective, Range
  <2>2. Registering'
    BY <1>8, <2>1 DEF Inv, Typed, Registering, Exclusive, Writer, ClearNames, IsInjective, Range
  <2>3. Exclusive'
    BY <1>8 DEF Inv, Typed, Exclusive, Writer, ClearNames, IsInjective, Range
  <2>4. InStepUnlessOvertaken'
    BY <1>8 DEF Inv, Typed, InStepUnlessOvertaken, Clearing, ClearNames, IsInjective, Range
  <2> QED BY <2>1, <2>2, <2>3, <2>4 DEF Inv
<1>9. CASE UNCHANGED vars
  BY <1>9 DEF vars, Inv, Typed, Registering, Exclusive, InStepUnlessOvertaken, Clearing
<1> QED
  BY <1>1, <1>2, <1>3, <1>4, <1>5, <1>6, <1>7, <1>8, <1>9 DEF Next, Step

THEOREM SignalBusInStep == Spec => []InStepUnlessOvertaken
<1>1. Inv => InStepUnlessOvertaken
  BY DEF Inv
<1> QED BY Initially, Preserved, <1>1, PTL DEF Spec

THEOREM SignalBusNeverReplaced == Spec => NeverReplaced
<1>1. ASSUME Inv, [Next]_vars
      PROVE  [\A k \in DOMAIN signals \cap DOMAIN signals' : signals'[k] = signals[k]]_vars
  BY <1>1 DEF Next, Step, vars, Inv, Registering, Begin, RegisterKey, RegisterName, GetKey, GetName,
              ListSignals, ClearSignals, ClearNames
<1> QED BY <1>1, Initially, Preserved, PTL DEF Spec, NeverReplaced
=============================================================================
