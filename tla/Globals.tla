------------------------------- MODULE Globals -------------------------------
(***************************************************************************)
(* What the global variables of a program promise, without any cache: a    *)
(* name has the value it was last given (by an assignment of the script or *)
(* by the host), and a read answers that value, or says that the name was  *)
(* never defined.  GlobalCache implements this; the one liberty it needs   *)
(* is Refuse, a read that fails although the name is defined.              *)
(***************************************************************************)
CONSTANTS Names, Values, Unset

VARIABLES
  scope,      \* the value of each name, Unset before its definition
  answer      \* what the last read said: <<kind, name, value>>

Init ==
  /\ scope = [n \in Names |-> Unset]
  /\ answer = <<"none", Unset, Unset>>

(* A read answers the value its name has now. *)
Get(n) ==
  /\ answer' = <<IF scope[n] = Unset THEN "undefined" ELSE "value", n, scope[n]>>
  /\ UNCHANGED scope

(* A read of a defined name fails. *)
Refuse(n) ==
  /\ scope[n] # Unset
  /\ answer' = <<"refused", n, Unset>>
  /\ UNCHANGED scope

Set(n, v) ==
  /\ scope' = [scope EXCEPT ![n] = v]
  /\ UNCHANGED answer

Next == \E n \in Names : Get(n) \/ Refuse(n) \/ \E v \in Values : Set(n, v)

Spec == Init /\ [][Next]_<<scope, answer>>
==============================================================================
