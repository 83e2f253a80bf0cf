----------------------------- MODULE CallStack -----------------------------
(***************************************************************************)
(* What the frame machinery of nuzo-vm promises to the code it runs: a     *)
(* stack of activations, each with a window of registers of its own and a  *)
(* place to come back to.  Nothing here knows of the flat register file,   *)
(* the 64-slot ring, its overflow, the blocks of frames paged out to the   *)
(* heap, or the frames that a failed call leaves behind.                   *)
(***************************************************************************)
EXTENDS Integers, Sequences

CONSTANTS
    Closures, Modules, Main,  \* the bodies of code: functions, modules, script
    Argc,                     \* arguments of each, \in [Chunks -> Nat]
    Size,                     \* registers of each, \in [Chunks -> Nat]
    Vals, Nil,                \* register values, and what a fresh one holds
    MaxIp, End                \* last call site, and the place past the Halt

VARIABLES
    frames,    \* the activations, the script's first
    code,      \* where execution is: [chunk, ip]
    phase,     \* "run", "halted", "failed" or "host"
    imported   \* modules whose initialisation has been started

vars == <<frames, code, phase, imported>>

Top       == Len(frames)
Running   == phase \in {"run", "host"} /\ code.ip # End
Fresh(n)  == [i \in 1 .. n |-> Nil]
Here(ip)  == [chunk |-> code.chunk, ip |-> ip]
Start(c)  == [chunk |-> c, ip |-> 0]
AtEnd     == [chunk |-> Main, ip |-> End]

(* Registers r+1 .. r+n of a window (numbered from 0), where a caller puts  *)
(* the n arguments of the function in register r.                          *)
Args(w, r, n) == SubSeq(w, r + 2, r + 1 + n)

Script == [locals |-> Fresh(Size[Main]), back |-> AtEnd, into |-> <<1, 0>>]

Init ==
    /\ frames   = <<Script>>
    /\ code     = Start(Main)
    /\ phase    = "run"
    /\ imported = {}

----------------------------------------------------------------------------
Store(r, v) ==
    /\ Running
    /\ UNCHANGED <<code, phase, imported>>
    /\ frames' = [frames EXCEPT ![Top].locals[r] = v]

(* A new window over an untouched caller.                                  *)
Enter(c, args, back, into) ==
    /\ code'   = Start(c)
    /\ frames' = Append(frames, [locals |-> args \o Fresh(Size[c] - Len(args)),
                                 back |-> back, into |-> into])

Call(c, r) ==
    /\ Running
    /\ UNCHANGED <<phase, imported>>
    /\ Enter(c, Args(frames[Top].locals, r, Argc[c]), Here(code.ip + 1), <<Top, r>>)

(* The new function takes over the window; what it finds above its         *)
(* arguments is not promised.                                              *)
TailCall(c, r) ==
    /\ Running
    /\ code' = Start(c)
    /\ UNCHANGED <<phase, imported>>
    /\ Len(frames') = Top /\ Top > 1
    /\ LET new == frames'[Top].locals
       IN  /\ frames' = [frames EXCEPT ![Top].locals = new]
           /\ Len(new) >= Size[c]
           /\ SubSeq(new, 1, Argc[c]) = Args(frames[Top].locals, r, Argc[c])

(* The window goes, the caller resumes where it was, and of everything it  *)
(* left only the register named by the call has changed.                   *)
Return(v) ==
    /\ Running
    /\ UNCHANGED <<phase, imported>>
    /\ Top > 1
    /\ code' = frames[Top].back
    /\ LET into == frames[Top].into
       IN  frames' = SubSeq([frames EXCEPT ![into[1]].locals[into[2] + 1] = v], 1, Top - 1)

(* A module runs once, even if it fails.                                   *)
Import(m) ==
    /\ Running
    /\ imported' = imported \cup {m}
    /\ UNCHANGED phase
    /\ IF m \in imported
       THEN code' = Here(code.ip + 1) /\ UNCHANGED frames
       ELSE Enter(m, <<>>, Here(code.ip + 1), <<1, 0>>)

Halt ==
    /\ Running
    /\ code'  = AtEnd
    /\ phase' = "halted"
    /\ Top = 1
    /\ UNCHANGED <<frames, imported>>

(* The host calls a function of a finished script; a refused call may      *)
(* leave registers behind.                                                 *)
HostCall(c) ==
    /\ phase = "halted" /\ phase' = "host"
    /\ UNCHANGED imported
    /\ Len(frames') = 2
    /\ Enter(c, Args(frames'[2].locals, -1, Argc[c]), AtEnd, <<1, 0>>)

HostRefused ==
    /\ phase = "halted"
    /\ UNCHANGED <<code, phase, imported>>
    /\ Len(frames') = 1
    /\ LET new == frames'[1].locals
       IN  /\ frames' = <<[Script EXCEPT !.locals = new]>>
           /\ SubSeq(new, 1, Len(frames[1].locals)) = frames[1].locals

HostDone ==
    /\ phase = "host" /\ code = AtEnd
    /\ phase' = "halted"
    /\ Top = 1
    /\ UNCHANGED <<frames, code, imported>>

(* An error ends a script; it ends a host call with the script's own       *)
(* window as it is, and the host may call again.                           *)
Fail ==
    /\ Running
    /\ imported \subseteq imported'
    /\ \/ /\ phase = "run" /\ phase' = "failed"
          /\ UNCHANGED code
          /\ frames' = <<>>
       \/ /\ phase = "host" /\ phase' = "halted"
          /\ code'   = AtEnd
          /\ frames' = <<frames[1]>>

Restart ==
    /\ phase \in {"halted", "failed"} /\ phase' = "run"
    /\ code'    = Start(Main)
    /\ frames'  = <<Script>>
    /\ UNCHANGED imported

Next ==
    \/ Halt \/ HostRefused \/ HostDone \/ Fail \/ Restart
    \/ \E c \in Closures :
         \/ \E r \in 0 .. Size[code.chunk] - 1 - Argc[c] : Call(c, r) \/ TailCall(c, r)
         \/ HostCall(c)
    \/ \E m \in Modules : Import(m)
    \/ \E v \in Vals : Return(v)
    \/ Running /\ \E r \in DOMAIN frames[Top].locals, v \in Vals : Store(r, v)

Spec == Init /\ [][Next]_vars
=============================================================================
