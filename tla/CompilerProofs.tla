--------------------------- MODULE CompilerProofs ---------------------------
(***************************************************************************)
(* Two parts of the compiler.                                              *)
(*                                                                         *)
(* RegAlloc, for every set of values and every bound: the shape of its     *)
(* state, one holder per register, the persistent region, and the values   *)
(* themselves until a call reuses the free list.                           *)
(*                                                                         *)
(* IrOptimize: what the optimizer puts in place of an operation is what    *)
(* the machine would have computed: constant folding for every value, the  *)
(* neutral operands for numbers (for a string "s" + 0 is not "s").         *)
(***************************************************************************)
EXTENDS RegAlloc, IrOptimize, FiniteSetTheorems, TLAPS

-----------------------------------------------------------------------------
(* RegAlloc                                                                *)

Pools == [top : Cursor, peak : Cursor, free : Seq(Registers)]
PoolOK(p) == p \in Pools /\ p.top <= p.peak

Inv == TypeOK /\ OneHolder /\ RegionsPersist /\ KeptUntilReuse

\* Until the last parameter is loaded, the cursor stands at the next one and the
\* registers behind it still hold what the caller passed.
ParamsInPlace ==
  loaded < params =>
    /\ pool.top = loaded
    /\ \A i \in Registers : loaded <= i /\ i < params => holds[i] = Param(i)

IInv == Inv /\ ParamsInPlace

-----------------------------------------------------------------------------
(* Uses *)

LEMMA CountType ==
  ASSUME NEW vs \in Seq(Values), NEW v
  PROVE  Count(vs, v) \in Nat
<1> DEFINE S == {i \in DOMAIN vs : vs[i] = v}
<1>1. DOMAIN vs = 1 .. Len(vs) /\ Len(vs) \in Nat
  OBVIOUS
<1>2. IsFiniteSet(1 .. Len(vs))
  BY <1>1, FS_Interval
<1>3. IsFiniteSet(S)
  BY <1>1, <1>2, FS_Subset
<1>4. Cardinality(S) \in Nat
  BY <1>3, FS_CardinalityType
<1> QED BY <1>4 DEF Count

LEMMA CountUsed ==
  ASSUME NEW vs \in Seq(Values), NEW i \in DOMAIN vs
  PROVE  Count(vs, vs[i]) > 0
<1> DEFINE S == {j \in DOMAIN vs : vs[j] = vs[i]}
<1>1. DOMAIN vs = 1 .. Len(vs) /\ Len(vs) \in Nat
  OBVIOUS
<1>2. IsFiniteSet(1 .. Len(vs))
  BY <1>1, FS_Interval
<1>3. IsFiniteSet(S)
  BY <1>1, <1>2, FS_Subset
<1>4. S # {}
  OBVIOUS
<1>5. Cardinality(S) # 0 /\ Cardinality(S) \in Nat
  BY <1>3, <1>4, FS_EmptySet, FS_CardinalityType
<1> QED BY <1>5 DEF Count

LEMMA CountUnused ==
  ASSUME NEW vs \in Seq(Values), NEW v, \A i \in DOMAIN vs : vs[i] # v
  PROVE  Count(vs, v) = 0
<1>1. {i \in DOMAIN vs : vs[i] = v} = {}
  OBVIOUS
<1> QED BY <1>1, FS_EmptySet DEF Count

LEMMA OperandsAreSequences ==
  ASSUME NEW vs \in Operands
  PROVE  vs \in Seq(Values) /\ Len(vs) \in 0 .. MaxOperands
BY RegAssumption DEF Operands, RegAssumption

\* Who is alive afterwards had uses to spare, and keeps what is left of them.
LEMMA KeptValues ==
  ASSUME TypeOK, NEW vs \in Seq(Values)
  PROVE  /\ Kept(vs) \subseteq Alive
         /\ \A v \in Kept(vs) : /\ left[v] - Count(vs, v) \in Nat
                                /\ left[v] - Count(vs, v) > 0 => left[v] > 0
<1>1. \A v \in Alive : left[v] \in Nat
  BY DEF TypeOK
<1>2. \A v : Count(vs, v) \in Nat
  BY CountType
<1> QED BY <1>1, <1>2 DEF Kept

\* An operand that is ready is alive, and has a use.
LEMMA ReadyValues ==
  ASSUME TypeOK, NEW vs \in Seq(Values), Ready(vs), NEW i \in DOMAIN vs
  PROVE  vs[i] \in Alive /\ left[vs[i]] > 0
<1>1. vs[i] \in Alive /\ Count(vs, vs[i]) <= left[vs[i]]
  BY DEF Ready
<1>2. Count(vs, vs[i]) \in Nat /\ Count(vs, vs[i]) > 0 /\ left[vs[i]] \in Nat
  BY <1>1, CountUsed, CountType DEF TypeOK
<1> QED BY <1>1, <1>2

-----------------------------------------------------------------------------
(* The pool *)

LEMMA GrowPool ==
  ASSUME NEW p, PoolOK(p), NEW n \in Nat, CanGrow(p, n)
  PROVE  /\ PoolOK(Grow(p, n))
         /\ Grow(p, n).top = p.top + n
         /\ Grow(p, n).free = p.free
<1> DEFINE t == p.top + n
           q == IF p.peak < t THEN t ELSE p.peak
<1>1. p.top \in Cursor /\ p.peak \in Cursor /\ p.free \in Seq(Registers) /\ p.top <= p.peak
  BY DEF PoolOK, Pools
<1>2. t \in Cursor /\ q \in Cursor /\ t <= q
  BY <1>1, RegAssumption DEF RegAssumption, CanGrow, Cursor
<1>4. Grow(p, n) = [top |-> t, peak |-> q, free |-> p.free]
  BY DEF Grow
<1> HIDE DEF t, q
<1>5. PoolOK(Grow(p, n)) /\ Grow(p, n).top = t /\ Grow(p, n).free = p.free
  BY <1>1, <1>2, <1>4 DEF PoolOK, Pools
<1> QED BY <1>5 DEF t

\* What acquire_temp does, without the sequence: it takes the last of the free list and
\* leaves the others in place, or the cursor.
LEMMA TempPool ==
  ASSUME NEW p, PoolOK(p), CanTemp(p),
         \A i \in DOMAIN p.free : p.free[i] < p.top,
         \A i, j \in DOMAIN p.free : p.free[i] = p.free[j] => i = j
  PROVE  /\ PoolOK(AfterTemp(p))
         /\ TempOf(p) \in Registers
         /\ DOMAIN AfterTemp(p).free \subseteq DOMAIN p.free
         /\ \A i \in DOMAIN AfterTemp(p).free :
              AfterTemp(p).free[i] = p.free[i] /\ AfterTemp(p).free[i] # TempOf(p)
         /\ \/ /\ p.free = <<>>
               /\ TempOf(p) = p.top /\ AfterTemp(p).top = p.top + 1
               /\ AfterTemp(p) = Grow(p, 1) /\ CanGrow(p, 1)
            \/ /\ p.free # <<>>
               /\ \E i \in DOMAIN p.free : TempOf(p) = p.free[i]
               /\ AfterTemp(p).top = p.top
               /\ AfterTemp(p).peak = p.peak
<1>1. CASE p.free = <<>>
  <2>1. CanGrow(p, 1)
    BY <1>1 DEF CanTemp
  <2>2. AfterTemp(p) = Grow(p, 1) /\ TempOf(p) = p.top
    BY <1>1 DEF AfterTemp, TempOf
  <2>3. p.top \in Registers
    BY <2>1, RegAssumption DEF RegAssumption, CanGrow, PoolOK, Pools, Cursor, Registers
  <2>4. PoolOK(Grow(p, 1)) /\ Grow(p, 1).top = p.top + 1 /\ Grow(p, 1).free = p.free
    BY <2>1, GrowPool
  <2>5. DOMAIN p.free = {}
    BY <1>1
  <2> QED BY <1>1, <2>1, <2>2, <2>3, <2>4, <2>5
<1>2. CASE p.free # <<>>
  <2> DEFINE k == Len(p.free)
  <2>1. p.free \in Seq(Registers) /\ k \in Nat /\ k > 0 /\ DOMAIN p.free = 1 .. k
    BY <1>2 DEF PoolOK, Pools
  <2>2. TempOf(p) = p.free[k] /\ p.free[k] \in Registers
    BY <1>2, <2>1 DEF TempOf
  <2>3. AfterTemp(p) = [p EXCEPT !.free = SubSeq(p.free, 1, k - 1)]
    BY <1>2 DEF AfterTemp
  <2>4. /\ SubSeq(p.free, 1, k - 1) \in Seq(Registers)
        /\ Len(SubSeq(p.free, 1, k - 1)) = k - 1
        /\ \A i \in 1 .. k - 1 : SubSeq(p.free, 1, k - 1)[i] = p.free[i]
    BY <2>1
  <2>5. DOMAIN SubSeq(p.free, 1, k - 1) = 1 .. k - 1
    BY <2>4
  <2>6. /\ AfterTemp(p).free = SubSeq(p.free, 1, k - 1)
        /\ AfterTemp(p).top = p.top /\ AfterTemp(p).peak = p.peak
        /\ AfterTemp(p) \in Pools
    BY <2>3, <2>4 DEF PoolOK, Pools
  <2>7. \A i \in 1 .. k - 1 : p.free[i] # p.free[k]
    BY <2>1
  <2>8. k \in DOMAIN p.free
    BY <2>1
  <2> HIDE DEF k
  <2> QED BY <1>2, <2>1, <2>2, <2>4, <2>5, <2>6, <2>7, <2>8 DEF PoolOK
<1> QED BY <1>1, <1>2

\* The temporary of ArrayNew leaves no trace but the peak.
LEMMA ArrayPool ==
  ASSUME NEW p, PoolOK(p), CanTemp(p)
  PROVE  LET q == RestoreCheckpoint(ReleaseTemp(AfterTemp(p), TempOf(p)), SaveCheckpoint(p))
         IN  PoolOK(q) /\ q.top = p.top /\ q.free = p.free
<1> DEFINE k == Len(p.free)
           a == AfterTemp(p)
           r == ReleaseTemp(a, TempOf(p))
           q == RestoreCheckpoint(r, SaveCheckpoint(p))
<1>1. p.free \in Seq(Registers) /\ k \in Nat /\ DOMAIN p.free = 1 .. k
  BY DEF PoolOK, Pools
<1>2. CASE p.free = <<>>
  <2>1. CanGrow(p, 1) /\ a = Grow(p, 1) /\ TempOf(p) = p.top /\ k = 0
    BY <1>2 DEF CanTemp, AfterTemp, TempOf
  <2>2. PoolOK(a) /\ a.free = <<>>
    BY <1>2, <2>1, GrowPool
  <2>3. a.peak >= p.top
    BY <2>1, <2>2, GrowPool DEF PoolOK, Pools, Cursor
  <2>4. r = [a EXCEPT !.free = Append(<<>>, p.top)]
    BY <2>1, <2>2 DEF ReleaseTemp
  <2>5. r.free = <<p.top>> /\ r.peak = a.peak
    BY <2>2, <2>4 DEF PoolOK, Pools
  <2>6. Len(r.free) = 1 /\ SaveCheckpoint(p).len = 0 /\ SaveCheckpoint(p).top = p.top
    BY <2>1, <2>5 DEF SaveCheckpoint
  <2>7. SubSeq(r.free, 1, 0) = <<>>
    BY <2>5
  <2>9. q = [top |-> p.top, peak |-> a.peak, free |-> <<>>]
    BY <2>5, <2>6, <2>7 DEF RestoreCheckpoint
  <2> QED BY <1>2, <2>2, <2>3, <2>9 DEF PoolOK, Pools
<1>3. CASE p.free # <<>>
  <2>1. a = [p EXCEPT !.free = SubSeq(p.free, 1, k - 1)] /\ TempOf(p) = p.free[k]
    BY <1>3 DEF AfterTemp, TempOf
  <2>2. k > 0 /\ p.free[k] \in Registers
    BY <1>1, <1>3
  <2>3. Append(SubSeq(p.free, 1, k - 1), p.free[k]) = p.free
    BY <1>1, <2>2
  <2>4. a.free = SubSeq(p.free, 1, k - 1)
    BY <2>1 DEF PoolOK, Pools
  <2>5. r = [a EXCEPT !.free = p.free]
    BY <2>1, <2>3, <2>4 DEF ReleaseTemp
  <2>6. r = p
    BY <2>1, <2>5 DEF PoolOK, Pools
  <2>7. SubSeq(p.free, 1, k) = p.free
    BY <1>1
  <2>8. q = [top |-> p.top, peak |-> p.peak, free |-> p.free]
    BY <1>1, <2>6, <2>7 DEF RestoreCheckpoint, SaveCheckpoint
  <2>9. q = p
    BY <2>8 DEF PoolOK, Pools
  <2> QED BY <2>9
<1> QED BY <1>2, <1>3

-----------------------------------------------------------------------------
(* Steps *)

\* consume_use and allocate_def: the others keep register and uses, d gets home.
LEMMA Defined ==
  ASSUME TypeOK, NEW vs \in Seq(Values), NEW d \in Values, NEW n \in 0 .. MaxUses,
         NEW home \in Registers, ConsumeAndDefine(vs, d, n, home)
  PROVE  /\ Alive' = Kept(vs) \cup {d} /\ DOMAIN left' = Alive' /\ Alive' \subseteq Values
         /\ \A v \in Alive' : reg'[v] \in Registers /\ left'[v] \in Nat
         /\ \A v \in Kept(vs) : /\ v \in Alive /\ reg'[v] = reg[v]
                                /\ left'[v] > 0 => left[v] > 0
         /\ d \notin Kept(vs) => reg'[d] = home
<1>1. Kept(vs) \subseteq Alive /\ Alive \subseteq Values
  BY KeptValues DEF TypeOK
<1>2. \A v \in Kept(vs) : /\ left[v] - Count(vs, v) \in Nat
                          /\ left[v] - Count(vs, v) > 0 => left[v] > 0
  BY KeptValues
<1>3. \A v \in Alive : reg[v] \in Registers
  BY DEF TypeOK
<1>4. n \in Nat
  BY RegAssumption DEF RegAssumption
<1>5. /\ Alive' = Kept(vs) \cup {d} /\ DOMAIN left' = Kept(vs) \cup {d}
      /\ \A v \in Kept(vs) : reg'[v] = reg[v] /\ left'[v] = left[v] - Count(vs, v)
      /\ d \notin Kept(vs) => reg'[d] = home /\ left'[d] = n
  BY DEF ConsumeAndDefine, Alive
<1> QED BY <1>1, <1>2, <1>3, <1>4, <1>5

\* consume_use alone.
LEMMA Consumed ==
  ASSUME TypeOK, NEW vs \in Seq(Values), Consume(vs)
  PROVE  /\ Alive' = Kept(vs) /\ DOMAIN left' = Alive' /\ Alive' \subseteq Values
         /\ \A v \in Alive' : /\ v \in Alive /\ reg'[v] = reg[v]
                              /\ reg'[v] \in Registers /\ left'[v] \in Nat
                              /\ left'[v] > 0 => left[v] > 0
<1>1. Kept(vs) \subseteq Alive /\ Alive \subseteq Values
  BY KeptValues DEF TypeOK
<1>2. \A v \in Kept(vs) : /\ left[v] - Count(vs, v) \in Nat
                          /\ left[v] - Count(vs, v) > 0 => left[v] > 0
  BY KeptValues
<1>3. /\ Alive' = Kept(vs) /\ DOMAIN left' = Kept(vs)
      /\ \A v \in Kept(vs) : reg'[v] = reg[v] /\ left'[v] = left[v] - Count(vs, v)
  BY DEF Consume, Alive
<1> QED BY <1>1, <1>2, <1>3 DEF TypeOK

\* Operands that are ready are found where they are looked for.
LEMMA OperandsFound ==
  ASSUME TypeOK, LiveValuesKept, NEW vs \in Seq(Values), Ready(vs)
  PROVE  Right(vs)
BY ReadyValues DEF LiveValuesKept, Right

\* A free list that only loses entries, and values that keep their registers or get one
\* above the old cursor, leave one holder per register.
LEMMA Holders ==
  ASSUME TypeOK, OneHolder, NEW d,
         pool.top \in Int, pool'.top \in Int, pool.top <= pool'.top,
         DOMAIN pool'.free \subseteq DOMAIN pool.free,
         \A i \in DOMAIN pool'.free : pool'.free[i] = pool.free[i],
         \A v \in Alive' : /\ reg'[v] \in Int
                          /\ \/ v \in Alive /\ reg'[v] = reg[v]
                             \/ v = d /\ pool.top <= reg'[v] /\ reg'[v] < pool'.top,
         local' = local
  PROVE  OneHolder'
<1>1. /\ \A v \in Alive : reg[v] \in Int
      /\ \A x \in DOMAIN local : local[x] \in Int
      /\ \A i \in DOMAIN pool.free : pool.free[i] \in Int
  BY RegAssumption DEF TypeOK, Registers, RegAssumption
<1>2. \A v \in Alive' : reg'[v] < pool'.top
  BY <1>1 DEF OneHolder
<1>3. /\ \A x \in DOMAIN local' : local'[x] < pool'.top
      /\ \A i \in DOMAIN pool'.free : pool'.free[i] < pool'.top
  BY <1>1 DEF OneHolder
<1>4. \A v, w \in Alive' : reg'[v] = reg'[w] => v = w
  BY <1>1 DEF OneHolder
<1>5. \A v \in Alive', x \in DOMAIN local' : reg'[v] # local'[x]
  BY <1>1 DEF OneHolder
<1>6. \A v \in Alive', i \in DOMAIN pool'.free : reg'[v] # pool'.free[i]
  BY <1>1 DEF OneHolder
<1>7. /\ \A x, y \in DOMAIN local' : local'[x] = local'[y] => x = y
      /\ \A x \in DOMAIN local', i \in DOMAIN pool'.free : local'[x] # pool'.free[i]
      /\ \A i, j \in DOMAIN pool'.free : pool'.free[i] = pool'.free[j] => i = j
  BY DEF OneHolder
<1> QED BY <1>2, <1>3, <1>4, <1>5, <1>6, <1>7 DEF OneHolder

\* The state of the pool, for arithmetic.
LEMMA PoolState ==
  ASSUME TypeOK
  PROVE  /\ PoolOK(pool) /\ pool.top \in Nat /\ pool.free \in Seq(Registers)
         /\ CanGrow(pool, 1) => /\ pool.top \in Registers
                                /\ PoolOK(Grow(pool, 1))
                                /\ Grow(pool, 1).top = pool.top + 1
                                /\ Grow(pool, 1).free = pool.free
<1>1. PoolOK(pool) /\ pool.top \in Nat /\ pool.free \in Seq(Registers)
  BY DEF TypeOK, PoolOK, Pools, Cursor
<1>2. ASSUME CanGrow(pool, 1) PROVE pool.top \in Registers
  BY <1>1, <1>2, RegAssumption DEF RegAssumption, CanGrow, Registers
<1> QED BY <1>1, <1>2, GrowPool

\* A result in the register at the cursor: LoadArg, Compute, GetLocal.
LEMMA DefineOnTop ==
  ASSUME Inv, NEW vs \in Seq(Values), NEW d \in Values, NEW n \in 0 .. MaxUses,
         d \notin Alive, CanGrow(pool, 1), ConsumeAndDefine(vs, d, n, pool.top),
         pool' = Grow(pool, 1), region' = [region EXCEPT ![pool.top] = "persist"],
         NEW x \in Contents, holds' = [holds EXCEPT ![pool.top] = x],
         ~reused => x = d,
         local' = local, params' = params, reused' = reused, failed' = failed,
         loaded' \in 0 .. params
  PROVE  Inv'
<1> USE DEF Inv
<1>1. /\ PoolOK(pool) /\ pool.top \in Nat /\ pool.top \in Registers
      /\ PoolOK(pool') /\ pool'.top = pool.top + 1 /\ pool'.free = pool.free
  BY PoolState
<1>2. /\ Alive' = Kept(vs) \cup {d} /\ DOMAIN left' = Alive' /\ Alive' \subseteq Values
      /\ \A v \in Alive' : reg'[v] \in Registers /\ left'[v] \in Nat
      /\ \A v \in Kept(vs) : /\ v \in Alive /\ reg'[v] = reg[v]
                             /\ left'[v] > 0 => left[v] > 0
      /\ d \notin Kept(vs) => reg'[d] = pool.top
  BY <1>1, Defined
<1>3. reg'[d] = pool.top /\ d \notin Kept(vs)
  BY <1>2
<1>4. Registers \subseteq Int
  BY DEF Registers
<1>5. TypeOK'
  BY <1>1, <1>2 DEF TypeOK, PoolOK, Pools
<1>6. OneHolder'
  <2>1. pool.top \in Int /\ pool'.top \in Int /\ pool.top <= pool'.top
    BY <1>1
  <2>2. \A v \in Alive' : /\ reg'[v] \in Int
                         /\ \/ v \in Alive /\ reg'[v] = reg[v]
                            \/ v = d /\ pool.top <= reg'[v] /\ reg'[v] < pool'.top
    <3>1. \A v \in Alive' : (v \in Kept(vs) \/ v = d) /\ reg'[v] \in Int
      BY ONLY <1>2, <1>4
    <3>2. \A v \in Kept(vs) : v \in Alive /\ reg'[v] = reg[v]
      BY ONLY <1>2
    <3>3. pool.top <= reg'[d] /\ reg'[d] < pool'.top
      BY ONLY <1>1, <1>3
    <3> QED BY ONLY <3>1, <3>2, <3>3
  <2>3. /\ DOMAIN pool'.free \subseteq DOMAIN pool.free
        /\ \A i \in DOMAIN pool'.free : pool'.free[i] = pool.free[i]
    BY <1>1
  <2>4. TypeOK /\ OneHolder /\ local' = local
    OBVIOUS
  <2> HIDE DEF Inv
  <2> QED BY ONLY <2>1, <2>2, <2>3, <2>4, Holders
<1>7. \A v \in Kept(vs) : reg[v] \in Registers /\ reg[v] < pool.top /\ reg[v] # pool.top
  BY <1>1, <1>2, <1>4 DEF OneHolder, TypeOK
<1>8. RegionsPersist'
  BY <1>1, <1>2, <1>3, <1>7 DEF RegionsPersist, TypeOK
<1>9. ASSUME ~reused' PROVE LiveValuesKept'
  <2>1. \A y \in DOMAIN local : local[y] \in Registers /\ local[y] # pool.top
    BY <1>1, <1>4 DEF OneHolder, TypeOK
  <2>2. LiveValuesKept
    BY <1>9 DEF KeptUntilReuse
  <2>3. holds'[pool.top] = d
    BY <1>1, <1>9 DEF TypeOK
  <2>4. \A v \in Kept(vs) : left'[v] > 0 => holds'[reg'[v]] = v
    BY <1>1, <1>2, <1>7, <2>2 DEF LiveValuesKept, TypeOK
  <2>5. \A y \in DOMAIN local' : holds'[local'[y]] = y
    BY <1>1, <2>1, <2>2 DEF LiveValuesKept, TypeOK
  <2> QED BY <1>2, <1>3, <2>3, <2>4, <2>5 DEF LiveValuesKept
<1>10. KeptUntilReuse'
  BY <1>9 DEF KeptUntilReuse
<1> QED BY <1>5, <1>6, <1>8, <1>10

LEMMA OutcomeType ==
  ASSUME NEW ok, NEW v \in Values \cup Names
  PROVE  Outcome(ok, v) \in Contents /\ (ok => Outcome(ok, v) = v)
BY DEF Outcome, Contents

LEMMA EmptyOperands == <<>> \in Seq(Values) /\ Ready(<<>>) /\ Right(<<>>)
<1>1. DOMAIN <<>> = {} /\ <<>> \in Seq(Values)
  OBVIOUS
<1> QED BY <1>1 DEF Ready, Right

LEMMA LoadArgKeeps ==
  ASSUME IInv, NEW d \in Values, NEW n \in 0 .. MaxUses, LoadArg(d, n)
  PROVE  IInv'
<1> USE DEF IInv
<1>1. /\ loaded < params /\ loaded' = loaded + 1 /\ params' = params
      /\ loaded \in Nat /\ params \in Nat
  BY DEF LoadArg, Inv, TypeOK
<1>2. pool.top = loaded /\ pool.top \in Registers /\ Grow(pool, 1).top = pool.top + 1
  BY <1>1, PoolState DEF LoadArg, Inv, ParamsInPlace
<1>3. holds[loaded] = Param(loaded)
  BY <1>1, <1>2 DEF ParamsInPlace
<1> DEFINE x == Outcome(holds[loaded] = Param(loaded), d)
<1>4. x \in Contents /\ x = d
  BY <1>3, OutcomeType
<1>5. Inv'
  <2>1. loaded' \in 0 .. params
    BY <1>1
  <2>2. holds' = [holds EXCEPT ![pool.top] = x]
    BY DEF LoadArg
  <2> HIDE DEF x
  <2> QED BY <1>4, <2>1, <2>2, EmptyOperands, DefineOnTop DEF LoadArg
<1>6. ParamsInPlace'
  BY <1>1, <1>2 DEF ParamsInPlace, LoadArg, Inv, TypeOK, Registers
<1> QED BY <1>5, <1>6

\* Once the instructions begin, ParamsInPlace has nothing more to say.
LEMMA EmittingKeeps ==
  ASSUME Emitting, loaded' = loaded, params' = params, TypeOK
  PROVE  ParamsInPlace'
BY DEF Emitting, ParamsInPlace, TypeOK

LEMMA ComputeKeeps ==
  ASSUME Inv, NEW d \in Values, NEW n \in 0 .. MaxUses, NEW vs \in Operands,
         Compute(d, n, vs)
  PROVE  Inv'
<1> USE DEF Inv
<1>1. vs \in Seq(Values)
  BY OperandsAreSequences
<1> DEFINE x == Outcome(Right(vs), d)
<1>2. x \in Contents /\ (Right(vs) => x = d)
  BY OutcomeType
<1>3. ~reused => x = d
  BY <1>1, <1>2, OperandsFound DEF KeptUntilReuse, Compute
<1>4. loaded' \in 0 .. params
  BY DEF Compute, TypeOK
<1>5. holds' = [holds EXCEPT ![pool.top] = x]
  BY DEF Compute
<1> HIDE DEF x
<1> QED BY <1>1, <1>2, <1>3, <1>4, <1>5, DefineOnTop DEF Compute

LEMMA GetLocalKeeps ==
  ASSUME Inv, NEW d \in Values, NEW n \in 0 .. MaxUses, NEW y \in Names,
         GetLocal(d, n, y)
  PROVE  Inv'
<1> USE DEF Inv
<1> DEFINE x == Outcome(holds[local[y]] = y, d)
<1>1. x \in Contents /\ (holds[local[y]] = y => x = d)
  BY OutcomeType
<1>2. ~reused => x = d
  BY <1>1 DEF KeptUntilReuse, LiveValuesKept, GetLocal
<1>3. loaded' \in 0 .. params
  BY DEF GetLocal, TypeOK
<1>4. holds' = [holds EXCEPT ![pool.top] = x]
  BY DEF GetLocal
<1> HIDE DEF x
<1> QED BY <1>1, <1>2, <1>3, <1>4, EmptyOperands, DefineOnTop, ZenonT(60) DEF GetLocal

LEMMA EffectKeeps ==
  ASSUME Inv, NEW vs \in Operands, Effect(vs)
  PROVE  Inv'
<1> USE DEF Inv
<1>1. vs \in Seq(Values)
  BY OperandsAreSequences
<1>2. /\ Alive' = Kept(vs) /\ DOMAIN left' = Alive' /\ Alive' \subseteq Values
      /\ \A v \in Alive' : /\ v \in Alive /\ reg'[v] = reg[v]
                           /\ reg'[v] \in Registers /\ left'[v] \in Nat
                           /\ left'[v] > 0 => left[v] > 0
  BY <1>1, Consumed DEF Effect
<1>3. UNCHANGED <<pool, region, local, holds, params, loaded, reused, failed>>
  BY DEF Effect
<1>4. TypeOK'
  BY <1>2, <1>3 DEF TypeOK
<1>5. OneHolder'
  BY <1>2, <1>3 DEF OneHolder
<1>6. RegionsPersist'
  BY <1>2, <1>3 DEF RegionsPersist
<1>7. KeptUntilReuse'
  BY <1>2, <1>3 DEF KeptUntilReuse, LiveValuesKept
<1> QED BY <1>4, <1>5, <1>6, <1>7

LEMMA MovKeeps ==
  ASSUME Inv, NEW d \in Values, NEW n \in 0 .. MaxUses, NEW s \in Values, Mov(d, n, s)
  PROVE  Inv'
<1> USE DEF Inv
<1> DEFINE vs == <<s>>
           x == Outcome(Right(vs), d)
<1>1. vs \in Seq(Values) /\ Ready(vs) /\ d # s
  BY DEF Mov
<1>2. x \in Contents /\ (Right(vs) => x = d)
  BY OutcomeType
<1>3. ~reused => x = d
  BY <1>1, <1>2, OperandsFound DEF KeptUntilReuse
<1>4. Count(vs, d) = 0
  <2>1. \A i \in DOMAIN vs : vs[i] # d
    BY <1>1
  <2> HIDE DEF vs
  <2> QED BY <1>1, <2>1, CountUnused
<1>5. d \in Alive <=> d \in Kept(vs)
  BY <1>4 DEF Kept
<1>6. loaded' \in 0 .. params
  BY DEF Mov, TypeOK
<1>7. CASE d \notin Alive
  <2>1. /\ ConsumeAndDefine(vs, d, n, pool.top) /\ pool' = Grow(pool, 1)
        /\ region' = [region EXCEPT ![pool.top] = "persist"]
        /\ holds' = [holds EXCEPT ![pool.top] = x]
        /\ CanGrow(pool, 1)
        /\ UNCHANGED <<local, params, reused, failed>>
    BY <1>5, <1>7 DEF Mov, Home, AfterDef
  <2> HIDE DEF x, vs
  <2> QED BY <1>1, <1>2, <1>3, <1>6, <1>7, <2>1, DefineOnTop
<1>8. CASE d \in Alive
  <2>1. /\ ConsumeAndDefine(vs, d, n, reg[d]) /\ pool' = pool
        /\ region' = [region EXCEPT ![reg[d]] = region[reg[d]]]
        /\ holds' = [holds EXCEPT ![reg[d]] = x]
        /\ UNCHANGED <<local, params, loaded, reused, failed>>
    BY <1>5, <1>8 DEF Mov, Home, AfterDef
  <2>2. reg[d] \in Registers /\ d \in Kept(vs)
    BY <1>5, <1>8 DEF TypeOK
  <2> HIDE DEF x, vs
  <2>3. /\ Alive' = Kept(vs) /\ DOMAIN left' = Alive' /\ Alive' \subseteq Values
        /\ \A v \in Alive' : reg'[v] \in Registers /\ left'[v] \in Nat
        /\ \A v \in Alive' : /\ v \in Alive /\ reg'[v] = reg[v]
                             /\ left'[v] > 0 => left[v] > 0
    <3>1. TypeOK /\ vs \in Seq(Values) /\ ConsumeAndDefine(vs, d, n, reg[d])
      BY <1>1, <2>1
    <3> HIDE DEF Inv
    <3>2. /\ Alive' = Kept(vs) \cup {d} /\ DOMAIN left' = Alive' /\ Alive' \subseteq Values
          /\ \A v \in Alive' : reg'[v] \in Registers /\ left'[v] \in Nat
          /\ \A v \in Kept(vs) : /\ v \in Alive /\ reg'[v] = reg[v]
                                 /\ left'[v] > 0 => left[v] > 0
      BY <2>2, <3>1, Defined
    <3> QED BY <2>2, <3>2
  <2>4. region' = region
    BY <2>1, <2>2 DEF TypeOK
  <2>5. TypeOK'
    BY <1>2, <2>1, <2>2, <2>3, <2>4 DEF TypeOK
  <2>6. OneHolder'
    BY <2>1, <2>3 DEF OneHolder
  <2>7. RegionsPersist'
    BY <2>3, <2>4 DEF RegionsPersist
  <2>8. ASSUME ~reused' PROVE LiveValuesKept'
    <3>1. LiveValuesKept /\ holds'[reg[d]] = d
      BY <1>3, <2>1, <2>2, <2>8 DEF KeptUntilReuse, TypeOK
    <3>2. \A r \in Registers : r # reg[d] => holds'[r] = holds[r]
      BY <2>1 DEF TypeOK
    <3>3. \A v \in Alive : v # d => reg[v] \in Registers /\ reg[v] # reg[d]
      BY <1>8 DEF OneHolder, TypeOK
    <3>4. \A y \in DOMAIN local : local[y] \in Registers /\ local[y] # reg[d]
      BY <1>8 DEF OneHolder, TypeOK
    <3> QED BY <2>1, <2>3, <3>1, <3>2, <3>3, <3>4 DEF LiveValuesKept
  <2>9. KeptUntilReuse'
    BY <2>8 DEF KeptUntilReuse
  <2> QED BY <2>5, <2>6, <2>7, <2>9
<1> QED BY <1>7, <1>8

\* A temporary is nobody's register.
LEMMA TempIsFree ==
  ASSUME TypeOK, OneHolder, CanTemp(pool)
  PROVE  /\ PoolOK(AfterTemp(pool)) /\ AfterTemp(pool).top \in Nat
         /\ TempOf(pool) \in Registers /\ pool.top <= AfterTemp(pool).top
         /\ TempOf(pool) < AfterTemp(pool).top
         /\ \A v \in Alive : reg[v] # TempOf(pool)
         /\ \A x \in DOMAIN local : local[x] # TempOf(pool)
         /\ DOMAIN AfterTemp(pool).free \subseteq DOMAIN pool.free
         /\ \A i \in DOMAIN AfterTemp(pool).free :
              /\ AfterTemp(pool).free[i] = pool.free[i]
              /\ AfterTemp(pool).free[i] # TempOf(pool)
         /\ pool.free = <<>> => TempOf(pool) = pool.top
<1> DEFINE t == TempOf(pool)
           a == AfterTemp(pool)
<1>1. PoolOK(pool) /\ pool.top \in Nat
  BY PoolState
<1>2. /\ PoolOK(a) /\ t \in Registers
      /\ DOMAIN a.free \subseteq DOMAIN pool.free
      /\ \A i \in DOMAIN a.free : a.free[i] = pool.free[i] /\ a.free[i] # t
      /\ \/ pool.free = <<>> /\ t = pool.top /\ a.top = pool.top + 1
         \/ /\ pool.free # <<>> /\ a.top = pool.top
            /\ \E i \in DOMAIN pool.free : t = pool.free[i]
  BY <1>1, TempPool DEF OneHolder
<1> HIDE DEF t, a
<1>3. a.top \in Nat
  BY <1>2 DEF PoolOK, Pools, Cursor
<1>4. /\ \A v \in Alive : reg[v] \in Registers /\ reg[v] < pool.top
      /\ \A x \in DOMAIN local : local[x] \in Registers /\ local[x] < pool.top
      /\ \A i \in DOMAIN pool.free : pool.free[i] < pool.top
  BY DEF TypeOK, OneHolder
<1>5. CASE pool.free = <<>>
  BY <1>1, <1>2, <1>3, <1>4, <1>5 DEF Registers, t, a
<1>6. CASE pool.free # <<>>
  <2>1. PICK i \in DOMAIN pool.free : t = pool.free[i]
    BY <1>2, <1>6
  <2>2. t < pool.top /\ a.top = pool.top
    BY <1>2, <1>4, <1>6, <2>1
  <2>3. /\ \A v \in Alive : reg[v] # t
        /\ \A x \in DOMAIN local : local[x] # t
    BY <2>1 DEF OneHolder
  <2> QED BY <1>1, <1>2, <1>3, <1>6, <2>2, <2>3 DEF t, a
<1> QED BY <1>5, <1>6

LEMMA CaptureGlobalKeeps ==
  ASSUME Inv, NEW c \in Values, CaptureGlobal(c)
  PROVE  Inv'
<1> DEFINE vs == <<c>>
           t == TempOf(pool)
           a == AfterTemp(pool)
<1>1. TypeOK /\ OneHolder /\ RegionsPersist /\ KeptUntilReuse
  BY DEF Inv
<1>2. /\ CanTemp(pool) /\ Consume(vs) /\ pool' = a
      /\ region' = [region EXCEPT ![t] = "temp"]
      /\ holds' = [holds EXCEPT ![t] = Junk]
      /\ UNCHANGED <<local, params, loaded, reused, failed>>
  BY DEF CaptureGlobal
<1>3. vs \in Seq(Values)
  OBVIOUS
<1>4. /\ PoolOK(a) /\ a.top \in Nat /\ t \in Registers /\ pool.top <= a.top
      /\ \A v \in Alive : reg[v] # t
      /\ \A x \in DOMAIN local : local[x] # t
      /\ DOMAIN a.free \subseteq DOMAIN pool.free
      /\ \A i \in DOMAIN a.free : a.free[i] = pool.free[i]
  BY <1>1, <1>2, TempIsFree
<1> HIDE DEF vs, t, a
<1>5. /\ Alive' = Kept(vs) /\ DOMAIN left' = Alive' /\ Alive' \subseteq Values
      /\ \A v \in Alive' : /\ v \in Alive /\ reg'[v] = reg[v]
                           /\ reg'[v] \in Registers /\ left'[v] \in Nat
                           /\ left'[v] > 0 => left[v] > 0
  BY <1>1, <1>2, <1>3, Consumed
<1>6. Registers \subseteq Int /\ pool.top \in Int
  BY <1>1, PoolState DEF Registers
<1>7. TypeOK'
  BY <1>1, <1>2, <1>4, <1>5 DEF TypeOK, PoolOK, Pools, Contents
<1>8. OneHolder'
  <2>1. \A v \in Alive' : reg'[v] \in Int /\ v \in Alive /\ reg'[v] = reg[v]
    BY <1>5, <1>6
  <2>2. pool'.top \in Int /\ pool.top <= pool'.top
        /\ DOMAIN pool'.free \subseteq DOMAIN pool.free
        /\ (\A i \in DOMAIN pool'.free : pool'.free[i] = pool.free[i])
        /\ local' = local
    BY <1>2, <1>4
  <2> QED BY ONLY <1>1, <1>6, <2>1, <2>2, Holders
<1>9. RegionsPersist'
  BY <1>1, <1>2, <1>4, <1>5 DEF RegionsPersist, TypeOK
<1>10. KeptUntilReuse'
  BY <1>1, <1>2, <1>4, <1>5 DEF KeptUntilReuse, LiveValuesKept, TypeOK
<1> QED BY <1>7, <1>8, <1>9, <1>10 DEF Inv

LEMMA SetLocalKeeps ==
  ASSUME Inv, NEW x \in Names, NEW v \in Values, SetLocal(x, v)
  PROVE  Inv'
<1> DEFINE vs == <<v>>
           t == TempOf(pool)
           a == AfterTemp(pool)
           z == Outcome(Right(vs), x)
<1>1. TypeOK /\ OneHolder /\ RegionsPersist /\ KeptUntilReuse
  BY DEF Inv
<1>2. /\ Ready(vs) /\ Consume(vs)
      /\ UNCHANGED <<params, loaded, reused, failed>>
  BY DEF SetLocal
<1>3. vs \in Seq(Values)
  OBVIOUS
<1>4. z \in Contents /\ (Right(vs) => z = x)
  BY OutcomeType
<1>5. ~reused => z = x
  BY <1>1, <1>2, <1>3, <1>4, OperandsFound DEF KeptUntilReuse
<1>6. Registers \subseteq Int /\ pool.top \in Int
  BY <1>1, PoolState DEF Registers
<1>7. CASE x \in DOMAIN local
  <2>1. holds' = [holds EXCEPT ![local[x]] = z] /\ UNCHANGED <<pool, region, local>>
    BY <1>7 DEF SetLocal
  <2>2. local[x] \in Registers
    BY <1>1, <1>7 DEF TypeOK
  <2> HIDE DEF vs, z
  <2>3. /\ Alive' = Kept(vs) /\ DOMAIN left' = Alive' /\ Alive' \subseteq Values
        /\ \A w \in Alive' : /\ w \in Alive /\ reg'[w] = reg[w]
                             /\ reg'[w] \in Registers /\ left'[w] \in Nat
                             /\ left'[w] > 0 => left[w] > 0
    BY <1>1, <1>2, <1>3, Consumed
  <2>4. TypeOK'
    BY <1>1, <1>2, <1>4, <2>1, <2>3 DEF TypeOK
  <2>5. OneHolder'
    BY <1>1, <2>1, <2>3 DEF OneHolder
  <2>6. RegionsPersist'
    BY <1>1, <2>1, <2>3 DEF RegionsPersist
  <2>7. /\ \A w \in Alive : reg[w] \in Registers /\ reg[w] # local[x]
        /\ \A y \in DOMAIN local : local[y] \in Registers /\ (y # x => local[y] # local[x])
    BY <1>1, <1>7 DEF OneHolder, TypeOK
  <2>8. KeptUntilReuse'
    BY <1>1, <1>2, <1>5, <2>1, <2>2, <2>3, <2>7 DEF KeptUntilReuse, LiveValuesKept, TypeOK
  <2> QED BY <2>4, <2>5, <2>6, <2>8 DEF Inv
<1>8. CASE x \notin DOMAIN local
  <2>1. /\ CanTemp(pool) /\ pool' = a
        /\ local' = [y \in DOMAIN local \cup {x} |-> IF y \in DOMAIN local THEN local[y] ELSE t]
        /\ region' = [region EXCEPT ![t] = "temp"]
        /\ holds' = [holds EXCEPT ![t] = z]
    BY <1>8 DEF SetLocal
  <2>2. /\ PoolOK(a) /\ a.top \in Nat /\ t \in Registers /\ pool.top <= a.top /\ t < a.top
        /\ \A w \in Alive : reg[w] # t
        /\ \A y \in DOMAIN local : local[y] # t
        /\ DOMAIN a.free \subseteq DOMAIN pool.free
        /\ \A i \in DOMAIN a.free : a.free[i] = pool.free[i] /\ a.free[i] # t
    BY <1>1, <2>1, TempIsFree
  <2> HIDE DEF vs, z, t, a
  <2>3. /\ Alive' = Kept(vs) /\ DOMAIN left' = Alive' /\ Alive' \subseteq Values
        /\ \A w \in Alive' : /\ w \in Alive /\ reg'[w] = reg[w]
                             /\ reg'[w] \in Registers /\ left'[w] \in Nat
                             /\ left'[w] > 0 => left[w] > 0
    BY <1>1, <1>2, <1>3, Consumed
  <2>4. /\ DOMAIN local' = DOMAIN local \cup {x} /\ local'[x] = t
        /\ \A y \in DOMAIN local : y # x /\ local'[y] = local[y]
    BY <1>8, <2>1
  <2>5. TypeOK'
    BY <1>1, <1>2, <1>4, <2>1, <2>2, <2>3, <2>4 DEF TypeOK, PoolOK, Pools
  <2>6. OneHolder'
    <3>1. /\ \A w \in Alive : reg[w] \in Int /\ reg[w] < pool.top
          /\ \A y \in DOMAIN local : local[y] \in Int /\ local[y] < pool.top
          /\ \A i \in DOMAIN pool.free : pool.free[i] \in Int /\ pool.free[i] < pool.top
      <4>1. pool.free \in Seq(Registers)
        BY <1>1, PoolState
      <4>2. \A i \in DOMAIN pool.free : pool.free[i] \in Registers
        BY <4>1
      <4> QED BY <1>1, <1>6, <4>2 DEF TypeOK, OneHolder
    <3>2. /\ \A w \in Alive' : reg'[w] < pool'.top
          /\ \A y \in DOMAIN local' : local'[y] < pool'.top
          /\ \A i \in DOMAIN pool'.free : pool'.free[i] < pool'.top
      BY <1>6, <2>1, <2>2, <2>3, <2>4, <3>1
    <3>3. /\ \A w, u \in Alive' : reg'[w] = reg'[u] => w = u
          /\ \A y, u \in DOMAIN local' : local'[y] = local'[u] => y = u
          /\ \A w \in Alive', y \in DOMAIN local' : reg'[w] # local'[y]
      BY <1>1, <2>2, <2>3, <2>4 DEF OneHolder
    <3>4. /\ \A w \in Alive', i \in DOMAIN pool'.free : reg'[w] # pool'.free[i]
          /\ \A y \in DOMAIN local', i \in DOMAIN pool'.free : local'[y] # pool'.free[i]
          /\ \A i, j \in DOMAIN pool'.free : pool'.free[i] = pool'.free[j] => i = j
      BY <1>1, <2>1, <2>2, <2>3, <2>4 DEF OneHolder
    <3> QED BY <3>2, <3>3, <3>4 DEF OneHolder
  <2>7. RegionsPersist'
    BY <1>1, <2>1, <2>2, <2>3 DEF RegionsPersist, TypeOK
  <2>8. KeptUntilReuse'
    BY <1>1, <1>2, <1>5, <2>1, <2>2, <2>3, <2>4, SMTT(30) DEF KeptUntilReuse, LiveValuesKept, TypeOK
  <2> QED BY <2>5, <2>6, <2>7, <2>8 DEF Inv
<1> QED BY <1>7, <1>8

LEMMA CallOperands ==
  ASSUME NEW c \in Values, NEW args \in Operands
  PROVE  /\ <<c>> \o args \in Seq(Values)
         /\ DOMAIN (<<c>> \o args) = 1 .. Len(args) + 1
         /\ (<<c>> \o args)[1] = c
         /\ \A i \in DOMAIN args : (<<c>> \o args)[i + 1] = args[i]
         /\ DOMAIN args = 1 .. Len(args) /\ Len(args) \in 0 .. MaxOperands
BY OperandsAreSequences

LEMMA PutValue ==
  ASSUME NEW f, NEW g, NEW r \in Registers
  PROVE  /\ r \in DOMAIN g => Put(f, g)[r] = g[r]
         /\ r \notin DOMAIN g => Put(f, g)[r] = f[r]
BY DEF Put

LEMMA CallKeeps ==
  ASSUME Inv, NEW d \in Values, NEW n \in 0 .. MaxUses, NEW c \in Values,
         NEW args \in Operands, Call(d, n, c, args)
  PROVE  Inv'
<1> DEFINE vs == <<c>> \o args
           t == TempOf(pool)
           a == AfterTemp(pool)
           k == Len(args)
           callee == holds[reg[c]]
           moved(i) == Moved(args, t, callee, i)
           ok == callee = c /\ \A i \in DOMAIN args : moved(i) = args[i]
           z == Outcome(ok, d)
           window == [r \in t + 1 .. t + k |-> moved(r - t)]
<1>1. TypeOK /\ OneHolder /\ RegionsPersist /\ KeptUntilReuse
  BY DEF Inv
<1>2. /\ d \notin Alive /\ Ready(vs) /\ CanTemp(pool) /\ CanGrow(a, 1)
      /\ ConsumeAndDefine(vs, d, n, a.top) /\ pool' = Grow(a, 1)
      /\ region' = Put(Put(region, Each({t}, "temp")), Each({a.top}, "persist"))
      /\ holds' = Put(Put(holds, window), Each({t, a.top}, z))
      /\ reused' = (reused \/ (pool.free # <<>> /\ args # <<>>))
      /\ UNCHANGED <<local, params, loaded, failed>>
  BY DEF Call
<1>3. vs \in Seq(Values) /\ DOMAIN vs = 1 .. k + 1 /\ vs[1] = c
      /\ (\A i \in DOMAIN args : vs[i + 1] = args[i])
      /\ DOMAIN args = 1 .. k /\ k \in 0 .. MaxOperands
  BY CallOperands
<1>4. /\ PoolOK(a) /\ a.top \in Nat /\ t \in Registers /\ pool.top <= a.top /\ t < a.top
      /\ \A v \in Alive : reg[v] # t
      /\ \A x \in DOMAIN local : local[x] # t
      /\ DOMAIN a.free \subseteq DOMAIN pool.free
      /\ \A i \in DOMAIN a.free : a.free[i] = pool.free[i]
      /\ pool.free = <<>> => t = pool.top
  BY <1>1, <1>2, TempIsFree
<1>5. /\ PoolOK(pool') /\ pool'.top = a.top + 1 /\ pool'.free = a.free
  BY <1>2, <1>4, GrowPool
<1>6. a.top \in Registers
  BY <1>2, <1>4, RegAssumption DEF RegAssumption, CanGrow, Registers
<1>7. /\ Alive' = Kept(vs) \cup {d} /\ DOMAIN left' = Alive' /\ Alive' \subseteq Values
      /\ \A v \in Alive' : reg'[v] \in Registers /\ left'[v] \in Nat
      /\ \A v \in Kept(vs) : /\ v \in Alive /\ reg'[v] = reg[v]
                             /\ left'[v] > 0 => left[v] > 0
      /\ d \notin Kept(vs) => reg'[d] = a.top
  <2>1. TypeOK /\ vs \in Seq(Values) /\ a.top \in Registers
        /\ ConsumeAndDefine(vs, d, n, a.top)
    BY <1>1, <1>2, <1>3, <1>6
  <2> HIDE DEF vs, a
  <2> QED BY <2>1, Defined
<1>8. reg'[d] = a.top /\ d \notin Kept(vs)
  BY <1>2, <1>7
<1>9. Registers \subseteq Int /\ pool.top \in Int
  BY <1>1, PoolState DEF Registers
<1>10. /\ \A v \in Alive : reg[v] \in Registers /\ reg[v] < pool.top
       /\ \A x \in DOMAIN local : local[x] \in Registers /\ local[x] < pool.top
  BY <1>1 DEF TypeOK, OneHolder
<1>11. c \in Alive /\ left[c] > 0 /\ \A i \in DOMAIN args : args[i] \in Alive /\ left[args[i]] > 0
  <2>1. \A i \in DOMAIN vs : vs[i] \in Alive /\ left[vs[i]] > 0
    BY <1>1, <1>2, <1>3, ReadyValues
  <2>2. 1 \in DOMAIN vs /\ \A i \in DOMAIN args : i + 1 \in DOMAIN vs
    BY <1>3
  <2> QED BY <1>3, <2>1, <2>2
<1>12. holds \in [Registers -> Contents] /\ region \in [Registers -> {"none", "persist", "temp"}]
  BY <1>1 DEF TypeOK
<1>13. \A i \in DOMAIN args : moved(i) \in Contents
  <2> TAKE i \in DOMAIN args
  <2>1. reg[args[i]] \in Registers /\ reg[c] \in Registers
    BY <1>10, <1>11
  <2>2. callee \in Contents /\ holds[reg[args[i]]] \in Contents /\ Junk \in Contents
    BY <1>12, <2>1 DEF Contents
  <2> HIDE DEF callee
  <2> QED BY <2>2 DEF Moved
<1>14. z \in Contents /\ (ok => z = d)
  BY OutcomeType
<1> HIDE DEF vs, a, t, k, callee, moved, ok, z
<1>15. \A r \in Registers :
          holds'[r] = IF r \in {t, a.top} THEN z
                      ELSE IF r \in t + 1 .. t + k THEN moved(r - t) ELSE holds[r]
  BY <1>2 DEF Put, Each
<1>16. \A r \in Registers :
          region'[r] = IF r = a.top THEN "persist" ELSE IF r = t THEN "temp" ELSE region[r]
  BY <1>2 DEF Put, Each
<1>17. TypeOK'
  <2>1. \A r \in t + 1 .. t + k : moved(r - t) \in Contents
    BY <1>3, <1>4, <1>9, <1>13, SMTT(30)
  <2>2. holds' \in [Registers -> Contents]
    <3>1. holds' = [r \in Registers |-> holds'[r]]
      BY <1>2 DEF Put
    <3>2. \A r \in Registers : holds'[r] \in Contents
      BY <1>12, <1>14, <1>15, <2>1
    <3> QED BY <3>1, <3>2
  <2>3. region' \in [Registers -> {"none", "persist", "temp"}]
    BY <1>2, <1>12, <1>16 DEF Put
  <2>4. pool' \in [top : Cursor, peak : Cursor, free : Seq(Registers)] /\ pool'.top <= pool'.peak
    BY <1>5 DEF PoolOK, Pools
  <2> QED BY <1>1, <1>2, <1>7, <2>2, <2>3, <2>4 DEF TypeOK
<1>18. OneHolder'
  <2>1. \A v \in Alive' : /\ reg'[v] \in Int
                         /\ \/ v \in Alive /\ reg'[v] = reg[v]
                            \/ v = d /\ pool.top <= reg'[v] /\ reg'[v] < pool'.top
    <3>1. pool.top <= a.top /\ a.top < pool'.top /\ a.top \in Int
      BY <1>4, <1>5, <1>9
    <3>2. \A v \in Kept(vs) : v \in Alive /\ reg'[v] = reg[v] /\ reg'[v] \in Int
      BY <1>7, <1>9
    <3> QED BY <1>7, <1>8, <3>1, <3>2
  <2>2. pool'.top \in Int /\ pool.top <= pool'.top
        /\ DOMAIN pool'.free \subseteq DOMAIN pool.free
        /\ (\A i \in DOMAIN pool'.free : pool'.free[i] = pool.free[i])
        /\ local' = local
    BY <1>2, <1>4, <1>5, <1>9
  <2> QED BY ONLY <1>1, <1>9, <2>1, <2>2, Holders
<1>19. RegionsPersist'
  <2>1. \A v \in Alive : reg[v] # a.top
    BY <1>4, <1>9, <1>10
  <2> QED BY <1>1, <1>4, <1>6, <1>7, <1>8, <1>10, <1>16, <2>1 DEF RegionsPersist
<1>20. ASSUME ~reused' PROVE LiveValuesKept'
  <2>1. LiveValuesKept /\ (pool.free = <<>> \/ args = <<>>)
    BY <1>1, <1>2, <1>20 DEF KeptUntilReuse
  <2>2. \A v \in Alive : reg[v] # a.top /\ reg[v] # t /\ ~ (reg[v] \in t + 1 .. t + k)
    <3>1. CASE pool.free = <<>>
      BY <1>4, <1>9, <1>10, <3>1
    <3>2. CASE args = <<>>
      BY <1>4, <1>9, <1>10, <3>2 DEF k
    <3> QED BY <2>1, <3>1, <3>2
  <2>3. \A x \in DOMAIN local : local[x] # a.top /\ local[x] # t /\ ~ (local[x] \in t + 1 .. t + k)
    <3>1. CASE pool.free = <<>>
      BY <1>4, <1>9, <1>10, <3>1
    <3>2. CASE args = <<>>
      BY <1>4, <1>9, <1>10, <3>2 DEF k
    <3> QED BY <2>1, <3>1, <3>2
  <2>4. callee = c
    BY <1>11, <2>1 DEF LiveValuesKept, callee
  <2>5. \A i \in DOMAIN args : moved(i) = args[i]
    <3> TAKE i \in DOMAIN args
    <3>1. args[i] \in Alive /\ holds[reg[args[i]]] = args[i] /\ reg[args[i]] # t
      BY <1>4, <1>11, <2>1 DEF LiveValuesKept
    <3>2. ~ (reg[args[i]] \in t + 1 .. t + i - 1)
      <4>1. t + 1 .. t + i - 1 \subseteq t + 1 .. t + k
        BY <1>3, <1>4, <1>9
      <4> QED BY <2>2, <3>1, <4>1
    <3> QED BY <3>1, <3>2 DEF moved, Moved
  <2>6. z = d
    BY <1>14, <2>4, <2>5 DEF ok
  <2>7. holds'[reg'[d]] = d
    BY <1>6, <1>8, <1>15, <2>6
  <2>8. \A v \in Kept(vs) : left'[v] > 0 => holds'[reg'[v]] = v
    BY <1>7, <1>10, <1>15, <2>1, <2>2 DEF LiveValuesKept
  <2>9. \A x \in DOMAIN local' : holds'[local'[x]] = x
    BY <1>2, <1>10, <1>15, <2>1, <2>3 DEF LiveValuesKept
  <2> QED BY <1>7, <2>7, <2>8, <2>9 DEF LiveValuesKept
<1>21. KeptUntilReuse'
  BY <1>20 DEF KeptUntilReuse
<1> QED BY <1>17, <1>18, <1>19, <1>21 DEF Inv

LEMMA ArrayNewKeeps ==
  ASSUME Inv, NEW d \in Values, NEW n \in 0 .. MaxUses, NEW vs \in Operands,
         ArrayNew(d, n, vs)
  PROVE  Inv'
<1> DEFINE p == Grow(pool, 1)
           t == TempOf(p)
           q == RestoreCheckpoint(ReleaseTemp(AfterTemp(p), t), SaveCheckpoint(p))
           z == Outcome(Right(vs), d)
           marked == Put(Put(region, Each({t}, "temp")), Each({pool.top}, "persist"))
<1>1. TypeOK /\ OneHolder /\ RegionsPersist /\ KeptUntilReuse
  BY DEF Inv
<1>2. /\ d \notin Alive /\ Ready(vs) /\ CanGrow(pool, 1) /\ CanTemp(p)
      /\ ConsumeAndDefine(vs, d, n, pool.top) /\ pool' = q
      /\ region' = Put(marked, Each({r \in Registers : r >= q.top}, "none"))
      /\ holds' = Put(Put(holds, Each({t}, Junk)), Each({pool.top}, z))
      /\ UNCHANGED <<local, params, loaded, reused, failed>>
  BY DEF ArrayNew
<1>3. vs \in Seq(Values)
  BY OperandsAreSequences
<1>4. /\ PoolOK(pool) /\ pool.top \in Nat /\ pool.top \in Registers
      /\ PoolOK(p) /\ p.top = pool.top + 1 /\ p.free = pool.free
  BY <1>1, <1>2, PoolState
<1>5. PoolOK(q) /\ q.top = p.top /\ q.free = p.free
  BY <1>2, <1>4, ArrayPool
<1>6. \A i \in DOMAIN pool.free : pool.free[i] < pool.top /\ pool.free[i] \in Nat
  <2>1. pool.free \in Seq(Registers)
    BY <1>1, PoolState
  <2>2. \A i \in DOMAIN pool.free : pool.free[i] \in Registers
    BY <2>1
  <2> QED BY <1>1, <2>2 DEF OneHolder, Registers
<1>7. /\ t = p.top \/ \E i \in DOMAIN pool.free : t = pool.free[i]
      /\ t \in Nat
  <2>1. (\A i \in DOMAIN p.free : p.free[i] < p.top)
        /\ (\A i, j \in DOMAIN p.free : p.free[i] = p.free[j] => i = j)
    BY <1>1, <1>4, <1>6 DEF OneHolder
  <2>2. (t = p.top \/ \E i \in DOMAIN p.free : t = p.free[i]) /\ t \in Registers
    BY <1>2, <1>4, <2>1, TempPool
  <2> HIDE DEF p, t
  <2> QED BY <1>4, <2>2 DEF Registers
<1>8. z \in Contents /\ (Right(vs) => z = d)
  BY OutcomeType
<1>9. ~reused => z = d
  BY <1>1, <1>2, <1>3, <1>8, OperandsFound DEF KeptUntilReuse
<1>10. /\ Alive' = Kept(vs) \cup {d} /\ DOMAIN left' = Alive' /\ Alive' \subseteq Values
       /\ \A v \in Alive' : reg'[v] \in Registers /\ left'[v] \in Nat
       /\ \A v \in Kept(vs) : /\ v \in Alive /\ reg'[v] = reg[v]
                              /\ left'[v] > 0 => left[v] > 0
       /\ d \notin Kept(vs) => reg'[d] = pool.top
  BY <1>1, <1>2, <1>3, <1>4, Defined
<1> HIDE DEF p, t, q, z
<1>11. reg'[d] = pool.top /\ d \notin Kept(vs)
  BY <1>2, <1>10
<1>12. Registers \subseteq Int
  BY DEF Registers
<1>13. /\ \A v \in Alive : reg[v] \in Registers /\ reg[v] < pool.top /\ reg[v] # t
       /\ \A x \in DOMAIN local : local[x] \in Registers /\ local[x] < pool.top /\ local[x] # t
       /\ t # pool.top
  BY <1>1, <1>4, <1>6, <1>7, <1>12 DEF TypeOK, OneHolder
<1>14. holds \in [Registers -> Contents] /\ region \in [Registers -> {"none", "persist", "temp"}]
  BY <1>1 DEF TypeOK
<1>15. \A r \in Registers :
          holds'[r] = IF r = pool.top THEN z ELSE IF r = t THEN Junk ELSE holds[r]
  BY <1>2 DEF Put, Each
<1>16. \A r \in Registers :
          region'[r] = IF r >= q.top THEN "none" ELSE IF r = pool.top THEN "persist"
                       ELSE IF r = t THEN "temp" ELSE region[r]
  BY <1>2 DEF Put, Each
<1>17. TypeOK'
  <2>1. holds' = [r \in Registers |-> holds'[r]] /\ region' = [r \in Registers |-> region'[r]]
    BY <1>2 DEF Put
  <2>2. \A r \in Registers : holds'[r] \in Contents
    BY <1>8, <1>14, <1>15 DEF Contents
  <2>3. \A r \in Registers : region'[r] \in {"none", "persist", "temp"}
    BY <1>14, <1>16
  <2>4. pool' \in [top : Cursor, peak : Cursor, free : Seq(Registers)] /\ pool'.top <= pool'.peak
    BY <1>2, <1>5 DEF PoolOK, Pools
  <2> QED BY <1>1, <1>2, <1>10, <2>1, <2>2, <2>3, <2>4 DEF TypeOK
<1>18. OneHolder'
  <2>1. \A v \in Alive' : /\ reg'[v] \in Int
                         /\ \/ v \in Alive /\ reg'[v] = reg[v]
                            \/ v = d /\ pool.top <= reg'[v] /\ reg'[v] < pool'.top
    <3>1. pool.top < pool'.top /\ pool.top \in Int
      BY <1>2, <1>4, <1>5
    <3>2. \A v \in Kept(vs) : v \in Alive /\ reg'[v] = reg[v] /\ reg'[v] \in Int
      BY <1>10, <1>12
    <3> QED BY <1>10, <1>11, <3>1, <3>2
  <2>2. pool.top \in Int /\ pool'.top \in Int /\ pool.top <= pool'.top
        /\ DOMAIN pool'.free \subseteq DOMAIN pool.free
        /\ (\A i \in DOMAIN pool'.free : pool'.free[i] = pool.free[i])
        /\ local' = local
    BY <1>2, <1>4, <1>5
  <2> QED BY ONLY <1>1, <2>1, <2>2, Holders
<1>19. RegionsPersist'
  <2>1. pool.top < q.top /\ pool.top \in Int /\ q.top \in Int
    BY <1>4, <1>5
  <2>2. \A v \in Alive : reg[v] < q.top
    <3>1. \A v \in Alive : reg[v] \in Int /\ reg[v] < pool.top
      BY <1>12, <1>13
    <3> QED BY <2>1, <3>1
  <2>3. region'[reg'[d]] = "persist"
    BY <1>4, <1>11, <1>16, <2>1
  <2>4. \A v \in Kept(vs) : region'[reg'[v]] = "persist"
    <3> TAKE v \in Kept(vs)
    <3>1. v \in Alive /\ reg'[v] = reg[v] /\ reg[v] \in Registers /\ reg[v] # t
      BY <1>10, <1>13
    <3>2. ~ (reg[v] >= q.top)
      <4>1. reg[v] \in Int /\ reg[v] < q.top
        BY <1>12, <2>2, <3>1
      <4> QED BY ONLY <2>1, <4>1
    <3>3. region[reg[v]] = "persist"
      BY <1>1, <3>1 DEF RegionsPersist
    <3> QED BY <1>16, <3>1, <3>2, <3>3
  <2> QED BY <1>10, <2>3, <2>4 DEF RegionsPersist
<1>20. ASSUME ~reused' PROVE LiveValuesKept'
  <2>1. LiveValuesKept
    BY <1>1, <1>2, <1>20 DEF KeptUntilReuse
  <2>2. /\ \A v \in Alive : reg[v] # pool.top
        /\ \A x \in DOMAIN local : local[x] # pool.top
    BY <1>4, <1>12, <1>13
  <2>3. holds'[reg'[d]] = d
    BY <1>2, <1>4, <1>9, <1>11, <1>15, <1>20
  <2>4. \A v \in Kept(vs) : left'[v] > 0 => holds'[reg'[v]] = v
    BY <1>10, <1>13, <1>15, <2>1, <2>2 DEF LiveValuesKept
  <2>5. \A x \in DOMAIN local' : holds'[local'[x]] = x
    BY <1>2, <1>13, <1>15, <2>1, <2>2 DEF LiveValuesKept
  <2> QED BY <1>10, <2>3, <2>4, <2>5 DEF LiveValuesKept
<1>21. KeptUntilReuse'
  BY <1>20 DEF KeptUntilReuse
<1> QED BY <1>17, <1>18, <1>19, <1>21 DEF Inv

\* The freed block follows the old free list, register by register.
LEMMA ReleasedBlock ==
  ASSUME NEW p, PoolOK(p), NEW base \in Nat, NEW n \in Nat,
         base + n <= MaxFunctionLocals
  PROVE  LET q == ReleaseBlock(p, base, n)
             k == Len(p.free)
         IN  /\ PoolOK(q) /\ q.top = p.top /\ k \in Nat /\ DOMAIN p.free = 1 .. k
             /\ DOMAIN q.free = 1 .. k + n
             /\ \A i \in 1 .. k : q.free[i] = p.free[i]
             /\ \A i \in k + 1 .. k + n : q.free[i] = base + i - k - 1
<1> DEFINE k == Len(p.free)
           b == [i \in 1 .. n |-> base + i - 1]
           q == ReleaseBlock(p, base, n)
<1>1. p.free \in Seq(Registers) /\ k \in Nat /\ DOMAIN p.free = 1 .. k
  BY DEF PoolOK, Pools
<1>2. \A i \in 1 .. n : base + i - 1 \in Registers
  BY RegAssumption DEF RegAssumption, Registers
<1>3. b \in Seq(Registers) /\ Len(b) = n
  BY <1>2
<1>4. /\ p.free \o b \in Seq(Registers)
      /\ Len(p.free \o b) = k + n
      /\ \A i \in 1 .. k : (p.free \o b)[i] = p.free[i]
      /\ \A i \in k + 1 .. k + n : (p.free \o b)[i] = b[i - k]
  <2> HIDE DEF b
  <2> QED BY <1>1, <1>3
<1>5. \A i \in k + 1 .. k + n : b[i - k] = base + i - k - 1
  <2> TAKE i \in k + 1 .. k + n
  <2>1. i - k \in 1 .. n /\ base + (i - k) - 1 = base + i - k - 1
    BY <1>1
  <2> HIDE DEF k
  <2> QED BY <2>1
<1>6. q.free = p.free \o b /\ q.top = p.top /\ q.peak = p.peak /\ q \in Pools
  <2>1. q = [p EXCEPT !.free = p.free \o b]
    BY DEF ReleaseBlock
  <2> HIDE DEF b, q
  <2> QED BY <1>4, <2>1 DEF PoolOK, Pools
<1>7. DOMAIN (p.free \o b) = 1 .. k + n
  BY <1>4
<1> HIDE DEF b, q, k
<1> QED BY <1>1, <1>4, <1>5, <1>6, <1>7 DEF PoolOK, q, k

LEMMA StringBuildKeeps ==
  ASSUME Inv, NEW d \in Values, NEW n \in 0 .. MaxUses, NEW vs \in Operands,
         StringBuild(d, n, vs)
  PROVE  Inv'
<1> DEFINE p == Grow(pool, 1)
           g == Grow(p, Len(vs))
           m == Len(vs)
           k == Len(pool.free)
           start == p.top
           block == start .. start + m - 1
           moved == [r \in block |-> holds[reg[vs[r - start + 1]]]]
           z == Outcome(Right(vs), d)
<1>1. TypeOK /\ OneHolder /\ RegionsPersist /\ KeptUntilReuse
  BY DEF Inv
<1>2. /\ d \notin Alive /\ Ready(vs) /\ CanGrow(pool, 1) /\ CanGrow(p, m)
      /\ ConsumeAndDefine(vs, d, n, pool.top)
      /\ pool' = ReleaseBlock(g, start, m)
      /\ region' = Put(Put(region, Each({pool.top}, "persist")), Each(block, "none"))
      /\ holds' = Put(Put(holds, moved), Each({pool.top}, z))
      /\ UNCHANGED <<local, params, loaded, reused, failed>>
  BY DEF StringBuild
<1>3. vs \in Seq(Values) /\ m \in Nat /\ DOMAIN vs = 1 .. m
  BY OperandsAreSequences
<1>4. /\ PoolOK(pool) /\ pool.top \in Nat /\ pool.top \in Registers
      /\ PoolOK(p) /\ p.top = pool.top + 1 /\ p.free = pool.free
  BY <1>1, <1>2, PoolState
<1>5. PoolOK(g) /\ g.top = start + m /\ g.free = pool.free
  BY <1>2, <1>3, <1>4, GrowPool
<1>6. start \in Nat /\ start + m <= MaxFunctionLocals
  BY <1>2, <1>4 DEF CanGrow
<1>7. z \in Contents /\ (Right(vs) => z = d)
  BY OutcomeType
<1>8. ~reused => z = d
  BY <1>1, <1>2, <1>3, <1>7, OperandsFound DEF KeptUntilReuse
<1>9. /\ Alive' = Kept(vs) \cup {d} /\ DOMAIN left' = Alive' /\ Alive' \subseteq Values
      /\ \A v \in Alive' : reg'[v] \in Registers /\ left'[v] \in Nat
      /\ \A v \in Kept(vs) : /\ v \in Alive /\ reg'[v] = reg[v]
                             /\ left'[v] > 0 => left[v] > 0
      /\ d \notin Kept(vs) => reg'[d] = pool.top
  BY <1>1, <1>2, <1>3, <1>4, Defined
<1>10. \A r \in block : moved[r] \in Contents
  <2> TAKE r \in block
  <2>1. r - start + 1 \in DOMAIN vs
    BY <1>3, <1>6
  <2>2. vs[r - start + 1] \in Alive
    BY <1>1, <1>2, <1>3, <2>1, ReadyValues
  <2>3. holds[reg[vs[r - start + 1]]] \in Contents
    BY <1>1, <2>2 DEF TypeOK
  <2> QED BY <2>3
<1> HIDE DEF p, g, m, k, z, start, moved
<1>11. /\ PoolOK(pool') /\ pool'.top = start + m /\ k \in Nat
       /\ DOMAIN pool.free = 1 .. k /\ DOMAIN pool'.free = 1 .. k + m
       /\ \A i \in 1 .. k : pool'.free[i] = pool.free[i]
       /\ \A i \in k + 1 .. k + m : pool'.free[i] = start + i - k - 1
  <2>1. /\ PoolOK(ReleaseBlock(g, start, m)) /\ ReleaseBlock(g, start, m).top = g.top
        /\ Len(g.free) \in Nat /\ DOMAIN g.free = 1 .. Len(g.free)
        /\ DOMAIN ReleaseBlock(g, start, m).free = 1 .. Len(g.free) + m
        /\ \A i \in 1 .. Len(g.free) : ReleaseBlock(g, start, m).free[i] = g.free[i]
        /\ \A i \in Len(g.free) + 1 .. Len(g.free) + m :
             ReleaseBlock(g, start, m).free[i] = start + i - Len(g.free) - 1
    <3>1. PoolOK(g) /\ start \in Nat /\ m \in Nat /\ start + m <= MaxFunctionLocals
      BY <1>3, <1>5, <1>6
    <3> QED BY ONLY <3>1, ReleasedBlock, ZenonT(60)
  <2> QED BY <1>2, <1>5, <2>1 DEF k
<1>12. reg'[d] = pool.top /\ d \notin Kept(vs)
  BY <1>2, <1>9
<1>13. /\ \A v \in Alive : reg[v] \in Nat /\ reg[v] \in Registers /\ reg[v] < pool.top
       /\ \A x \in DOMAIN local : local[x] \in Nat /\ local[x] \in Registers /\ local[x] < pool.top
       /\ \A i \in DOMAIN pool.free : pool.free[i] < pool.top /\ pool.free[i] \in Nat
  <2>1. \A i \in DOMAIN pool.free : pool.free[i] \in Registers
    BY <1>4 DEF PoolOK, Pools
  <2> QED BY <1>1, <2>1 DEF TypeOK, OneHolder, Registers
<1>14. start = pool.top + 1
  BY <1>4 DEF start
<1>15. \A r \in Registers :
          holds'[r] = IF r = pool.top THEN z ELSE IF r \in block THEN moved[r] ELSE holds[r]
  BY <1>2 DEF Put, Each, moved
<1>16. \A r \in Registers :
          region'[r] = IF r \in block THEN "none" ELSE IF r = pool.top THEN "persist" ELSE region[r]
  BY <1>2 DEF Put, Each
<1>17. \A r : r \in block => r > pool.top /\ r < pool'.top /\ r \in Nat
  BY <1>3, <1>4, <1>6, <1>11, <1>14, SMTT(30)
<1>18. TypeOK'
  <2>1. holds' = [r \in Registers |-> holds'[r]] /\ region' = [r \in Registers |-> region'[r]]
    BY <1>2 DEF Put
  <2>2. holds \in [Registers -> Contents] /\ region \in [Registers -> {"none", "persist", "temp"}]
    BY <1>1 DEF TypeOK
  <2>3. \A r \in Registers : holds'[r] \in Contents
    BY <1>7, <1>10, <1>15, <2>2
  <2>4. \A r \in Registers : region'[r] \in {"none", "persist", "temp"}
    BY <1>16, <2>2
  <2>5. pool' \in [top : Cursor, peak : Cursor, free : Seq(Registers)] /\ pool'.top <= pool'.peak
    BY <1>11 DEF PoolOK, Pools
  <2> QED BY <1>1, <1>2, <1>9, <2>1, <2>3, <2>4, <2>5 DEF TypeOK
<1>19. \A i \in DOMAIN pool'.free :
          \/ i \in DOMAIN pool.free /\ pool'.free[i] = pool.free[i]
          \/ /\ i \notin DOMAIN pool.free /\ pool'.free[i] = start + i - k - 1
             /\ pool'.free[i] \in Nat /\ pool'.free[i] > pool.top /\ pool'.free[i] < pool'.top
  <2> TAKE i \in DOMAIN pool'.free
  <2>1. i \in 1 .. k + m /\ k \in Nat /\ m \in Nat
    BY <1>3, <1>11
  <2>2. CASE i \in 1 .. k
    BY <1>11, <2>2
  <2>3. CASE i \in k + 1 .. k + m
    <3>1. i \notin DOMAIN pool.free /\ pool'.free[i] = start + i - k - 1
      BY <1>11, <2>1, <2>3
    <3>2. start \in Nat /\ start = pool.top + 1 /\ pool.top \in Nat /\ pool'.top = start + m
      BY <1>4, <1>6, <1>11, <1>14
    <3>3. start + i - k - 1 >= start /\ start + i - k - 1 < start + m /\ start + i - k - 1 \in Nat
      BY <2>1, <2>3, <3>2
    <3> QED BY <3>1, <3>2, <3>3
  <2> QED BY <2>1, <2>2, <2>3
<1>20. OneHolder'
  <2>1. pool.top < pool'.top /\ pool'.top \in Nat
    BY <1>3, <1>4, <1>11, <1>14
  <2>2. \A v \in Alive' : \/ v = d /\ reg'[v] = pool.top
                          \/ v # d /\ v \in Alive /\ reg'[v] = reg[v]
    BY <1>9, <1>12
  <2>3. /\ \A v \in Alive' : reg'[v] < pool'.top
        /\ \A x \in DOMAIN local' : local'[x] < pool'.top
        /\ \A i \in DOMAIN pool'.free : pool'.free[i] < pool'.top
    BY <1>2, <1>4, <1>13, <1>19, <2>1, <2>2
  <2>4. /\ \A v, w \in Alive' : reg'[v] = reg'[w] => v = w
        /\ \A x, y \in DOMAIN local' : local'[x] = local'[y] => x = y
        /\ \A v \in Alive', x \in DOMAIN local' : reg'[v] # local'[x]
    BY <1>1, <1>2, <1>4, <1>13, <2>2 DEF OneHolder
  <2>5. \A v \in Alive', i \in DOMAIN pool'.free : reg'[v] # pool'.free[i]
    BY <1>1, <1>4, <1>13, <1>19, <2>2 DEF OneHolder
  <2>6. \A x \in DOMAIN local', i \in DOMAIN pool'.free : local'[x] # pool'.free[i]
    BY <1>1, <1>2, <1>4, <1>13, <1>19 DEF OneHolder
  <2>7. \A i, j \in DOMAIN pool'.free : pool'.free[i] = pool'.free[j] => i = j
    <3> TAKE i, j \in DOMAIN pool'.free
    <3>1. i \in Nat /\ j \in Nat
      BY <1>3, <1>11
    <3>2. CASE i \in DOMAIN pool.free /\ j \in DOMAIN pool.free
      BY <1>1, <1>19, <3>2 DEF OneHolder
    <3>3. CASE i \notin DOMAIN pool.free /\ j \notin DOMAIN pool.free
      BY <1>6, <1>11, <1>19, <3>1, <3>3
    <3>4. CASE i \in DOMAIN pool.free /\ j \notin DOMAIN pool.free
      BY <1>4, <1>13, <1>19, <3>4
    <3>5. CASE i \notin DOMAIN pool.free /\ j \in DOMAIN pool.free
      BY <1>4, <1>13, <1>19, <3>5
    <3> QED BY <3>2, <3>3, <3>4, <3>5
  <2> QED BY <2>3, <2>4, <2>5, <2>6, <2>7 DEF OneHolder
<1>21. /\ \A v \in Alive : reg[v] # pool.top /\ reg[v] \notin block
       /\ \A x \in DOMAIN local : local[x] # pool.top /\ local[x] \notin block
       /\ pool.top \notin block
  <2> HIDE DEF block
  <2> QED BY <1>4, <1>13, <1>17
<1> HIDE DEF block
<1>22. RegionsPersist'
  BY <1>1, <1>4, <1>9, <1>12, <1>13, <1>16, <1>21 DEF RegionsPersist
<1>23. ASSUME ~reused' PROVE LiveValuesKept'
  <2>1. LiveValuesKept /\ z = d
    BY <1>1, <1>2, <1>8, <1>23 DEF KeptUntilReuse
  <2>2. holds'[reg'[d]] = d
    BY <1>4, <1>12, <1>15, <2>1
  <2>3. \A v \in Kept(vs) : left'[v] > 0 => holds'[reg'[v]] = v
    BY <1>9, <1>13, <1>15, <1>21, <2>1 DEF LiveValuesKept
  <2>4. \A x \in DOMAIN local' : holds'[local'[x]] = x
    BY <1>2, <1>13, <1>15, <1>21, <2>1 DEF LiveValuesKept
  <2> QED BY <1>9, <2>2, <2>3, <2>4 DEF LiveValuesKept
<1>24. KeptUntilReuse'
  BY <1>23 DEF KeptUntilReuse
<1> QED BY <1>18, <1>20, <1>22, <1>24 DEF Inv

\* A function begins with nothing alive and its arguments in the first registers.
LEMMA FreshFunction ==
  ASSUME params' \in 0 .. MaxParams, pool' = Start(params').pool,
         holds' = Start(params').holds, reg' = <<>>, left' = <<>>, local' = <<>>,
         region' = [r \in Registers |-> "none"],
         loaded' = 0, reused' = FALSE, failed' = FALSE
  PROVE  IInv'
<1>1. pool'.top = 0 /\ pool'.peak = 0 /\ pool'.free = <<>>
      /\ pool' = [top |-> 0, peak |-> 0, free |-> <<>>]
  BY DEF Start, NewPool
<1>2. holds' = [r \in Registers |-> IF r < params' THEN Param(r) ELSE Junk]
  BY DEF Start
<1>3. DOMAIN reg' = {} /\ DOMAIN left' = {} /\ DOMAIN local' = {} /\ DOMAIN <<>> = {}
  OBVIOUS
<1>4. holds' \in [Registers -> Contents]
  <2>1. \A r \in Registers : r < params' => r \in 0 .. MaxParams
    BY RegAssumption DEF RegAssumption, Registers
  <2> QED BY <1>2, <2>1 DEF Contents
<1>5. 0 \in Cursor /\ <<>> \in Seq(Registers)
  BY RegAssumption DEF RegAssumption, Cursor
<1>6. TypeOK'
  <2>1. pool' \in [top : Cursor, peak : Cursor, free : Seq(Registers)] /\ pool'.top <= pool'.peak
    BY <1>1, <1>5
  <2>2. loaded' \in 0 .. params'
    BY RegAssumption DEF RegAssumption
  <2>3. region' \in [Registers -> {"none", "persist", "temp"}]
    OBVIOUS
  <2>4. reused' \in BOOLEAN /\ failed' \in BOOLEAN
    OBVIOUS
  <2> QED BY <1>3, <1>4, <2>1, <2>2, <2>3, <2>4 DEF TypeOK, Alive
<1>7. OneHolder'
  BY <1>1, <1>3 DEF OneHolder, Alive
<1>8. RegionsPersist' /\ KeptUntilReuse'
  BY <1>3 DEF RegionsPersist, KeptUntilReuse, LiveValuesKept, Alive
<1>9. ParamsInPlace'
  BY <1>1, <1>2, RegAssumption DEF ParamsInPlace, Registers, RegAssumption
<1> QED BY <1>6, <1>7, <1>8, <1>9 DEF IInv, Inv

LEMMA Initially == Init => IInv
<1> SUFFICES ASSUME Init PROVE IInv
  OBVIOUS
<1>1. params \in 0 .. MaxParams /\ loaded = 0 /\ reused = FALSE /\ failed = FALSE
  BY DEF Init
<1>2. /\ pool = [top |-> 0, peak |-> 0, free |-> <<>>]
      /\ holds = [r \in Registers |-> IF r < params THEN Param(r) ELSE Junk]
      /\ region = [r \in Registers |-> "none"]
  BY DEF Init, Start, NewPool
<1>3. DOMAIN reg = {} /\ DOMAIN left = {} /\ DOMAIN local = {} /\ DOMAIN <<>> = {}
  BY DEF Init
<1>4. holds \in [Registers -> Contents]
  <2>1. \A r \in Registers : r < params => r \in 0 .. MaxParams
    BY <1>1, RegAssumption DEF RegAssumption, Registers
  <2> QED BY <1>2, <2>1 DEF Contents
<1>5. 0 \in Cursor /\ <<>> \in Seq(Registers)
  BY RegAssumption DEF RegAssumption, Cursor
<1>6. TypeOK
  <2>1. pool \in [top : Cursor, peak : Cursor, free : Seq(Registers)] /\ pool.top <= pool.peak
    BY <1>2, <1>5
  <2>2. loaded \in 0 .. params
    BY <1>1, RegAssumption DEF RegAssumption
  <2>3. region \in [Registers -> {"none", "persist", "temp"}]
    BY <1>2
  <2> QED BY <1>1, <1>3, <1>4, <2>1, <2>2, <2>3 DEF TypeOK, Alive
<1>7. OneHolder
  BY <1>2, <1>3 DEF OneHolder, Alive
<1>8. RegionsPersist /\ KeptUntilReuse
  BY <1>3 DEF RegionsPersist, KeptUntilReuse, LiveValuesKept, Alive
<1>9. ParamsInPlace
  BY <1>1, <1>2, RegAssumption DEF ParamsInPlace, Registers, RegAssumption
<1> QED BY <1>6, <1>7, <1>8, <1>9 DEF IInv, Inv

LEMMA Step == IInv /\ [Next]_vars => IInv'
<1> SUFFICES ASSUME IInv, [Next]_vars PROVE IInv'
  OBVIOUS
<1>1. Inv /\ TypeOK
  BY DEF IInv, Inv
<1>2. ASSUME NEW d \in Values, NEW n \in 0 .. MaxUses, LoadArg(d, n) PROVE IInv'
  BY <1>2, LoadArgKeeps
<1>3. ASSUME NEW d \in Values, NEW n \in 0 .. MaxUses, NEW s \in Values, Mov(d, n, s)
      PROVE IInv'
  <2>1. Emitting /\ loaded' = loaded /\ params' = params
    BY <1>3 DEF Mov
  <2> QED BY <1>1, <1>3, <2>1, MovKeeps, EmittingKeeps DEF IInv
<1>4. ASSUME NEW d \in Values, NEW n \in 0 .. MaxUses, NEW x \in Names, GetLocal(d, n, x)
      PROVE IInv'
  <2>1. Emitting /\ loaded' = loaded /\ params' = params
    BY <1>4 DEF GetLocal
  <2> QED BY <1>1, <1>4, <2>1, GetLocalKeeps, EmittingKeeps DEF IInv
<1>5. ASSUME NEW d \in Values, NEW n \in 0 .. MaxUses, NEW vs \in Operands,
             Compute(d, n, vs)
      PROVE IInv'
  <2>1. Emitting /\ loaded' = loaded /\ params' = params
    BY <1>5 DEF Compute
  <2> QED BY <1>1, <1>5, <2>1, ComputeKeeps, EmittingKeeps DEF IInv
<1>6. ASSUME NEW d \in Values, NEW n \in 0 .. MaxUses, NEW vs \in Operands,
             ArrayNew(d, n, vs)
      PROVE IInv'
  <2>1. Emitting /\ loaded' = loaded /\ params' = params
    BY <1>6 DEF ArrayNew
  <2> QED BY <1>1, <1>6, <2>1, ArrayNewKeeps, EmittingKeeps DEF IInv
<1>7. ASSUME NEW d \in Values, NEW n \in 0 .. MaxUses, NEW vs \in Operands,
             StringBuild(d, n, vs)
      PROVE IInv'
  <2>1. Emitting /\ loaded' = loaded /\ params' = params
    BY <1>7 DEF StringBuild
  <2> QED BY <1>1, <1>7, <2>1, StringBuildKeeps, EmittingKeeps DEF IInv
<1>8. ASSUME NEW d \in Values, NEW n \in 0 .. MaxUses, NEW vs \in Operands,
             NEW c \in Values, Call(d, n, c, vs)
      PROVE IInv'
  <2>1. Emitting /\ loaded' = loaded /\ params' = params
    BY <1>8 DEF Call
  <2> QED BY <1>1, <1>8, <2>1, CallKeeps, EmittingKeeps DEF IInv
<1>9. ASSUME NEW vs \in Operands, Effect(vs) PROVE IInv'
  <2>1. Emitting /\ loaded' = loaded /\ params' = params
    BY <1>9 DEF Effect
  <2> QED BY <1>1, <1>9, <2>1, EffectKeeps, EmittingKeeps DEF IInv
<1>10. ASSUME NEW v \in Values, CaptureGlobal(v) PROVE IInv'
  <2>1. Emitting /\ loaded' = loaded /\ params' = params
    BY <1>10 DEF CaptureGlobal
  <2> QED BY <1>1, <1>10, <2>1, CaptureGlobalKeeps, EmittingKeeps DEF IInv
<1>11. ASSUME NEW v \in Values, NEW x \in Names, SetLocal(x, v) PROVE IInv'
  <2>1. Emitting /\ loaded' = loaded /\ params' = params
    BY <1>11 DEF SetLocal
  <2> QED BY <1>1, <1>11, <2>1, SetLocalKeeps, EmittingKeeps DEF IInv
<1>12. CASE Fail
  BY <1>12 DEF Fail, IInv, Inv, ParamsInPlace, TypeOK, OneHolder, RegionsPersist,
               KeptUntilReuse, LiveValuesKept, Alive
<1>13. CASE NextFunction
  <2>1. PICK k \in 0 .. MaxParams :
          params' = k /\ pool' = Start(k).pool /\ holds' = Start(k).holds
    BY <1>13 DEF NextFunction
  <2>2. /\ reg' = <<>> /\ left' = <<>> /\ local' = <<>>
        /\ region' = [r \in Registers |-> "none"]
        /\ loaded' = 0 /\ reused' = FALSE /\ failed' = FALSE
    BY <1>13 DEF NextFunction
  <2> QED BY <2>1, <2>2, FreshFunction
<1>14. CASE UNCHANGED vars
  BY <1>14 DEF vars, IInv, Inv, ParamsInPlace, TypeOK, OneHolder, RegionsPersist,
               KeptUntilReuse, LiveValuesKept, Alive
<1> QED
  BY <1>2, <1>3, <1>4, <1>5, <1>6, <1>7, <1>8, <1>9, <1>10, <1>11, <1>12, <1>13, <1>14
  DEF Next

LEMMA Invariant == Spec => []IInv
BY Initially, Step, PTL DEF Spec

-----------------------------------------------------------------------------
(* Theorems *)

\* The state keeps its shape; the cursor stays within MAX_FUNCTION_LOCALS.
THEOREM RegTypes == Spec => []TypeOK
<1>1. IInv => TypeOK
  BY DEF IInv, Inv
<1> QED BY <1>1, Invariant, PTL

\* No register ever has two holders, for any function of any size.
THEOREM RegOneHolder == Spec => []OneHolder
<1>1. IInv => OneHolder
  BY DEF IInv, Inv
<1> QED BY <1>1, Invariant, PTL

\* The branch of consume_use that gives a register back is dead code.
THEOREM RegPersist == Spec => []RegionsPersist
<1>1. IInv => RegionsPersist
  BY DEF IInv, Inv
<1> QED BY <1>1, Invariant, PTL

\* Every value and every local is found where the generator looks for it, as long as no
\* call with arguments has taken its window from the free list.
THEOREM RegKeptUntilReuse == Spec => []KeptUntilReuse
<1>1. IInv => KeptUntilReuse
  BY DEF IInv, Inv
<1> QED BY <1>1, Invariant, PTL

----------------------------------------------------------------------------
(* IrOptimize                                                              *)

Numbers == {NumValue(n) : n \in Int}
AllValues == Numbers \cup {StrValue(s) : s \in STRING} \cup {BoolValue(b) : b \in BOOLEAN} \cup {NilValue}
Operators == Arithmetic \cup Orderings \cup Equalities

(* A value is of one type, and made of what that type is made of.          *)
LEMMA ValueForms ==
  ASSUME NEW v \in AllValues
  PROVE  /\ IsNum(v) => \E n \in Int : v = NumValue(n)
         /\ IsStr(v) => \E s \in STRING : v = StrValue(s)
         /\ IsBool(v) => \E b \in BOOLEAN : v = BoolValue(b)
         /\ TypeOf(v) \in {"num", "str", "bool", "nil"}
BY DEF AllValues, Numbers, NumValue, StrValue, BoolValue, NilValue, IsNum, IsStr, IsBool, TypeOf

(* fold_binary: a result that is folded at compile time is the one the     *)
(* instruction would have given, for operands of every type.               *)
THEOREM FoldedBinary ==
  ASSUME NEW v \in AllValues, NEW w \in AllValues, NEW op \in Operators,
         FoldBinary(op, v, w) # Unfolded
  PROVE  FoldBinary(op, v, w) = Apply(op, v, w)
<1>1. CASE IsNum(v) /\ IsNum(w) /\ op \in Arithmetic
  BY <1>1 DEF FoldBinary, Apply, Calculate, Arithmetic, IsNum, IsStr, TypeOf, Unfolded
<1>2. CASE IsNum(v) /\ IsNum(w) /\ op \in Orderings
  BY <1>2 DEF FoldBinary, Apply, Arithmetic, Orderings, Equalities, IsNum, IsStr, TypeOf
<1>3. CASE IsStr(v) /\ IsStr(w) /\ op = "+"
  BY <1>3 DEF FoldBinary, Apply, Repr, IsNum, IsStr, TypeOf, Orderings
<1>4. CASE TypeOf(v) = TypeOf(w) /\ op \in Equalities
  BY <1>4 DEF FoldBinary, Apply, Arithmetic, Orderings, Equalities, IsNum, IsStr, TypeOf
<1> QED BY <1>1, <1>2, <1>3, <1>4 DEF FoldBinary

(* fold_unary. *)
THEOREM FoldedUnary ==
  ASSUME NEW v \in AllValues, NEW op \in {"-", "!"}, FoldUnary(op, v) # Unfolded
  PROVE  FoldUnary(op, v) = ApplyUnary(op, v)
<1>1. CASE op = "-"
  BY <1>1 DEF FoldUnary, ApplyUnary, Unfolded
<1>2. CASE op = "!"
  <2>1. PICK b \in BOOLEAN : v = BoolValue(b)
    BY <1>2, ValueForms DEF FoldUnary, Unfolded
  <2>2. v[2] = b /\ (Truthy(v) <=> b)
    BY <2>1 DEF Truthy, BoolValue, NilValue, NumValue
  <2> QED BY <1>2, <2>1, <2>2 DEF FoldUnary, ApplyUnary, Unfolded
<1> QED BY <1>1, <1>2
-------------------------------------------------------------------------------
(* The value an operation gives in a block whose ValueRefs hold env.       *)
Denoted(i, env) ==
  IF OpName(i) = "const" THEN Detail(i)
  ELSE IF OpName(i) = "mov" THEN env[Args(i)[1]]
  ELSE IF OpName(i) = "bin" THEN Apply(Detail(i), env[Args(i)[1]], env[Args(i)[2]])
  ELSE ApplyUnary(Detail(i), env[Args(i)[1]])

(* try_fold_binary, which does not know the types of its operands: what it *)
(* puts in place of an operation gives the same value, or hides that the   *)
(* operation fails, or drops the 0 from one end of a text.  Nothing else   *)
(* changes, whatever the operands hold.                                    *)
THEOREM NeutralOperands ==
  ASSUME NEW env, NEW known, NEW d, NEW l, NEW r, NEW op \in Arithmetic,
         env[l] \in AllValues, env[r] \in AllValues,
         \A v \in DOMAIN known : env[v] = known[v]
  PROVE  LET before == Denoted(IrOp("bin", d, <<l, r>>, op), env)
             after == Denoted(Identity(op, d, l, r, known), env)
             zero == Repr(NumValue(0)) IN
         \/ after = before
         \/ before = ErrorValue
         \/ op = "+" /\ \E s \in STRING : /\ after = StrValue(s)
                                         /\ before \in {StrValue(s \o zero), StrValue(zero \o s)}
<1> DEFINE x == env[l]
           y == env[r]
           before == Denoted(IrOp("bin", d, <<l, r>>, op), env)
           after == Denoted(Identity(op, d, l, r, known), env)
<1>1. before = Apply(op, x, y)
  BY DEF Denoted, IrOp, OpName, Detail, Args
<1>2. Denoted(Move(d, l), env) = x /\ Denoted(Move(d, r), env) = y
  BY DEF Denoted, Move, IrOp, OpName, Detail, Args
<1>3. \A v : Denoted(Load(d, v), env) = v
  BY DEF Denoted, Load, IrOp, OpName, Detail
<1>4. \A k \in Int : /\ Is(known, l, k) => x = NumValue(k)
                     /\ Is(known, r, k) => y = NumValue(k)
  BY DEF Is
<1>5. ~(IsStr(x) \/ IsStr(y)) \/ op # "+" => Apply(op, x, y) = Calculate(op, x, y)
  BY DEF Apply
<1>6. ~(IsNum(x) /\ IsNum(y)) => Calculate(op, x, y) = ErrorValue
  BY DEF Calculate
<1>7. CASE ~(IsNum(x) /\ IsNum(y)) /\ (op # "+" \/ ~(IsStr(x) \/ IsStr(y)))
  BY <1>1, <1>5, <1>6, <1>7
<1>8. CASE op = "+" /\ (IsStr(x) \/ IsStr(y))
  <2>1. before = StrValue(Repr(x) \o Repr(y))
    BY <1>1, <1>8 DEF Apply
  <2>2. ~IsStr(NumValue(0))
    BY DEF IsStr, TypeOf, NumValue
  <2>3. CASE Is(known, r, 0)
    <3>1. y = NumValue(0) /\ after = x
      BY <1>2, <1>4, <1>8, <2>3 DEF Identity
    <3>2. PICK s \in STRING : x = StrValue(s)
      BY <1>8, <2>2, <3>1, ValueForms
    <3>3. Repr(x) = s
      BY <3>2 DEF Repr, IsStr, TypeOf, StrValue
    <3> QED BY <1>8, <2>1, <3>1, <3>2, <3>3
  <2>4. CASE ~Is(known, r, 0) /\ Is(known, l, 0)
    <3>1. x = NumValue(0) /\ after = y
      BY <1>2, <1>4, <1>8, <2>4 DEF Identity
    <3>2. PICK s \in STRING : y = StrValue(s)
      BY <1>8, <2>2, <3>1, ValueForms
    <3>3. Repr(y) = s
      BY <3>2 DEF Repr, IsStr, TypeOf, StrValue
    <3> QED BY <1>8, <2>1, <3>1, <3>2, <3>3
  <2>5. CASE ~Is(known, r, 0) /\ ~Is(known, l, 0)
    BY <1>8, <2>5 DEF Identity
  <2> QED BY <2>3, <2>4, <2>5
<1>9. CASE IsNum(x) /\ IsNum(y)
  <2>1. PICK m \in Int, n \in Int : x = NumValue(m) /\ y = NumValue(n)
    BY <1>9, ValueForms
  <2>2. before = IF op \in {"/", "%"} /\ n = 0 THEN ErrorValue ELSE NumValue(Number(op, m, n))
    BY <1>1, <1>5, <2>1 DEF Calculate, NumValue, IsNum, IsStr, TypeOf
  <2>3. \A k \in Int : (Is(known, l, k) => m = k) /\ (Is(known, r, k) => n = k)
    BY <1>4, <2>1 DEF NumValue
  <2>4. CASE op = "+" /\ (Is(known, r, 0) \/ Is(known, l, 0))
    <3>1. Number(op, m, n) = m + n
      BY <2>4 DEF Number
    <3> QED BY <1>2, <2>1, <2>2, <2>3, <2>4, <3>1 DEF Identity
  <2>5. CASE op = "-" /\ Is(known, r, 0)
    <3>1. Number(op, m, n) = m - n
      BY <2>5 DEF Number
    <3> QED BY <1>2, <2>1, <2>2, <2>3, <2>5, <3>1 DEF Identity
  <2>6. CASE op = "*" /\ (Is(known, r, 0) \/ Is(known, r, 1) \/ Is(known, l, 0) \/ Is(known, l, 1))
    <3>1. Number(op, m, n) = m * n
      BY <2>6 DEF Number
    <3> QED BY <1>2, <1>3, <2>1, <2>2, <2>3, <2>6, <3>1 DEF Identity
  <2>7. CASE op = "/" /\ Is(known, r, 1)
    <3>1. n = 1 /\ Number(op, m, n) = m \div 1
      BY <2>3, <2>7 DEF Number
    <3>2. m \div 1 = m
      OBVIOUS
    <3> QED BY <1>2, <2>1, <2>2, <2>7, <3>1, <3>2 DEF Identity
  <2>8. CASE op = "**" /\ (Is(known, r, 0) \/ Is(known, r, 1))
    <3>1. Number(op, m, n) = IF n = 0 THEN 1 ELSE IF n = 1 THEN m ELSE m ^ n
      BY <2>8 DEF Number, Power
    <3> QED BY <1>2, <1>3, <2>1, <2>2, <2>3, <2>8, <3>1 DEF Identity
  <2> QED BY <2>4, <2>5, <2>6, <2>7, <2>8 DEF Identity
<1> QED BY <1>7, <1>8, <1>9
=============================================================================
