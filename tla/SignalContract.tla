--------------------------- MODULE SignalContract ---------------------------
(***************************************************************************)
(* What a Signal promises the threads that use it: a connection is live     *)
(* once and spent for good; an emit delivers to live connections only, to   *)
(* each at most once, one callback at a time per thread; a once connection  *)
(* that succeeded is spent before its emit returns.                         *)
(***************************************************************************)
EXTENDS Naturals

CONSTANTS Threads, Ids, NoId

VARIABLES
  live,        \* connections that may be called
  spent,       \* connections that were live and are not any more
  delivering,  \* threads inside an emit
  delivered,   \* [Threads -> connections the running emit called]
  running,     \* [Threads -> connection whose callback runs, or NoId]
  succeeded    \* [Threads -> once connections the running emit ran with success]

vars == <<live, spent, delivering, delivered, running, succeeded>>

Init ==
  /\ live = {} /\ spent = {} /\ delivering = {}
  /\ delivered = [t \in Threads |-> {}]
  /\ running = [t \in Threads |-> NoId]
  /\ succeeded = [t \in Threads |-> {}]

Open(id) ==
  /\ id \notin live \cup spent
  /\ live' = live \cup {id}
  /\ UNCHANGED <<spent, delivering, delivered, running, succeeded>>

\* disconnect, disconnect_by_group, disconnect_all or the cleanup of once slots.
Close(S) ==
  /\ S \subseteq live
  /\ live' = live \ S /\ spent' = spent \cup S
  /\ UNCHANGED <<delivering, delivered, running, succeeded>>

Begin(t) ==
  /\ t \notin delivering
  /\ delivering' = delivering \cup {t}
  /\ UNCHANGED <<live, spent, delivered, running, succeeded>>

Deliver(t, id) ==
  /\ t \in delivering /\ running[t] = NoId
  /\ id \in live \ delivered[t]
  /\ running' = [running EXCEPT ![t] = id]
  /\ delivered' = [delivered EXCEPT ![t] = @ \cup {id}]
  /\ UNCHANGED <<live, spent, delivering, succeeded>>

\* The callback returns, with success or not; S is {} or the once connection.
CallbackEnds(t, S) ==
  /\ running[t] # NoId /\ S \subseteq {running[t]}
  /\ running' = [running EXCEPT ![t] = NoId]
  /\ succeeded' = [succeeded EXCEPT ![t] = @ \cup S]
  /\ UNCHANGED <<live, spent, delivering, delivered>>

End(t) ==
  /\ t \in delivering /\ running[t] = NoId
  /\ succeeded[t] \subseteq spent
  /\ delivering' = delivering \ {t}
  /\ delivered' = [delivered EXCEPT ![t] = {}]
  /\ succeeded' = [succeeded EXCEPT ![t] = {}]
  /\ UNCHANGED <<live, spent, running>>

Next ==
  \/ \E id \in Ids : Open(id)
  \/ \E S \in SUBSET Ids : Close(S)
  \/ \E t \in Threads :
       \/ Begin(t) \/ End(t)
       \/ \E id \in Ids : Deliver(t, id)
       \/ \E S \in SUBSET Ids : CallbackEnds(t, S)

Spec == Init /\ [][Next]_vars

=============================================================================
