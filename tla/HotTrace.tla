------------------------------- MODULE HotTrace -------------------------------
(***************************************************************************)
(* The machine and its hot traces (nuzo-vm, vm.rs: run_inner and           *)
(* execute_hot_trace_batch; vm_hot_trace.rs).  Behind every backward jump  *)
(* the place it leads to is counted; one met often enough, with enough     *)
(* instructions before the next jump or call, is hot, and from there on    *)
(* these instructions run as a batch: no counting, and some pairs of       *)
(* instructions run as one.  The table knows a place by its offset alone,  *)
(* whatever the function (an instruction counts as one here).  A batch     *)
(* is far shorter than MAX_BATCH_ITERATIONS.                               *)
(***************************************************************************)
EXTENDS Machine

CONSTANTS WarmingThreshold, MinBatchLength, MaxTraceLength, MaxTraces   \* HotTraceConfig

ASSUME TraceAssumption ==
  /\ WarmingThreshold \in Nat \ {0}
  /\ MinBatchLength \in Nat \ {0} /\ MaxTraceLength \in Nat /\ MaxTraces \in Nat

VARIABLES
  traces,   \* [offsets -> [hits, status, left, end]]
  batch     \* the batch going on: its function and where it ends

NoBatch == [fn |-> 0, end |-> 0]
hot == <<traces, batch>>

Cold == [hits |-> 0, status |-> "cold", left |-> 0, end |-> 0]

(* profile; the hits of a hot place, which nothing reads, are not counted on. *)
Counted(e) ==
  LET hits == e.hits + 1 IN
  CASE e.status = "cold" ->
         IF hits >= WarmingThreshold
         THEN [e EXCEPT !.hits = hits, !.status = "warming", !.left = WarmingThreshold]
         ELSE [e EXCEPT !.hits = hits]
    [] e.status = "warming" ->
         [e EXCEPT !.hits = hits, !.left = @ - 1, !.status = IF e.left = 1 THEN "hot" ELSE @]
    [] e.status = "hot" -> e
Profiled(ip) ==
  IF ip \in DOMAIN traces THEN [traces EXCEPT ![ip] = Counted(@)]
  ELSE IF Cardinality(DOMAIN traces) >= MaxTraces THEN traces
  ELSE With(traces, ip, Counted(Cold))

(* try_register_at_ip: a trace ends before the first jump, test or call. *)
EndsTrace(code, ip) ==
  ip \notin DOMAIN code \/ code[ip][1] \in {"Jmp", "Test", "Return", "Halt", "Call"}
TraceLength(code, ip) ==
  Max({n \in 0..MaxTraceLength : \A k \in 0..(n - 1) : ~EndsTrace(code, ip + k)})
Registered(table, code, ip) ==
  IF /\ ip \in DOMAIN table
     /\ table[ip].hits >= WarmingThreshold
     /\ table[ip].status # "hot"
     /\ TraceLength(code, ip) >= MinBatchLength
  THEN [table EXCEPT ![ip].status = "hot", ![ip].end = ip + TraceLength(code, ip)]
  ELSE table

IsHotTrace(ip) ==
  ip \in DOMAIN traces /\ traces[ip].status = "hot" /\ traces[ip].end > ip

(* The batch the next instruction belongs to. *)
Batch ==
  IF batch # NoBatch THEN batch
  ELSE IF IsHotTrace(Top.pc) THEN [fn |-> Top.fn, end |-> traces[Top.pc].end] ELSE NoBatch

(* A batch goes on in its function until it reaches its end. *)
Goes(b) ==
  IF b # NoBatch /\ status' = "running" /\ Last(frames').fn = b.fn /\ Last(frames').pc < b.end
  THEN b ELSE NoBatch

(* The pairs that run as one: two opcodes next to each other, whatever     *)
(* registers they name.                                                    *)
Fusible(first, second) ==
  /\ second[1] = "Binary"
  /\ \/ first[1] = "LoadK" /\ second[3] \in {"+", "*"}
     \/ first[1] = "Mov" /\ second[3] \in {"+", "-", "*", "/", "**"}
AtPair == Top.pc + 1 \in DOMAIN Code /\ Fusible(Current, Code[Top.pc + 1])
FusesHere == Batch # NoBatch /\ Top.pc + 1 < Batch.end /\ AtPair

(* The handlers of a pair read five operands of two bytes in a row behind  *)
(* the first opcode, and nothing skips the second opcode.  The last three  *)
(* lie one byte off: each is made of the high byte of what was meant and   *)
(* the low byte of what follows.  Registers from 256 on, which no call of  *)
(* the programs here has reached, are nil.                                 *)
Straddling(x, y) == (x \div 256) + 256 * (y % 256)
OffLeft(second) == Straddling(second[2], second[4])
OffRight(second) == Straddling(second[4], second[5])

(* _op_loadk_arith, _op_getlocal_add and _op_mov_binaryop: the first       *)
(* operand is what the first instruction loads, and its register gets the  *)
(* result.                                                                 *)
LoadFused(first, second) ==
  Apply(second[3], first[3], R(IF IsNum(first[3]) THEN OffRight(second) ELSE OffLeft(second)))
MovFused(first, second) ==
  IF second[3] = "**" /\ R(OffRight(second)) = NumValue(0) THEN ErrorValue
  ELSE Apply(second[3], R(first[3]), R(OffRight(second)))
FusedValue(first, second) ==
  IF first[1] = "LoadK" THEN LoadFused(first, second) ELSE MovFused(first, second)

(* A pair that has a value leaves the machine on the last byte of its      *)
(* second instruction, and what it takes for instructions from there on is *)
(* not modelled: the program is astray.                                    *)
FusedPair ==
  LET v == FusedValue(Current, Code[Top.pc + 1]) IN
  /\ status = "running" /\ FusesHere
  /\ IF v = ErrorValue THEN Fail
     ELSE /\ frames' = [frames EXCEPT ![Len(frames)].regs = With(@, Current[2], v)]
          /\ status' = "astray"
          /\ UNCHANGED <<fns, globals, heap, trace>>
  /\ batch' = Goes(Batch)
  /\ UNCHANGED traces

InBatch ==
  /\ status = "running" /\ Batch # NoBatch /\ ~FusesHere
  /\ Step
  /\ batch' = Goes(Batch)
  /\ UNCHANGED traces

JumpsBack ==
  \/ Current[1] = "Jmp" /\ Current[2] <= Top.pc
  \/ Current[1] = "Test" /\ Current[3] <= Top.pc
OneByOne ==
  /\ status = "running" /\ Batch = NoBatch
  /\ Step
  /\ traces' = IF JumpsBack THEN LET ip == Last(frames').pc IN Registered(Profiled(ip), Code, ip)
                ELSE traces
  /\ UNCHANGED batch

HotStep == FusedPair \/ InBatch \/ OneByOne

ColdStart == traces' = <<>> /\ batch' = NoBatch   \* snapshot_for_chunk_switch
===============================================================================
