--------------------------- MODULE FrameStackProofs ---------------------------
(***************************************************************************)
(* Paging never takes the two halves of the frames apart, and no trampoline *)
(* is ever popped as if it were a frame, for every capacity, watermark,     *)
(* batch (a batch of one included), ring size and program.                  *)
(*                                                                         *)
(* Inv is inductive.  Beyond the two properties it says why a trampoline    *)
(* is never the top: a block that stands on another holds at least two      *)
(* frames (or all blocks hold one and enough frames stand above them), so   *)
(* bringing it back always leaves a frame on the next trampoline.  And it   *)
(* says why the halves can be told to be in step at all: a real frame never *)
(* looks like a trampoline, since its window starts above the script's.     *)
(*                                                                         *)
(* Windows, given Inv, is inductive: each frame stands above the window of  *)
(* the one that called it, through every block.  So what a return cuts off  *)
(* never belongs to the code it returns to.                                *)
(*                                                                         *)
(* Logical, given these, is inductive: the blocks and what is in memory are *)
(* one stack of frames, whose live part, with the register file, is the     *)
(* stack of windows of CallStack.  A spill and a restore leave that stack   *)
(* as it is; a call, a return and a tail call do to it what CallStack says. *)
(***************************************************************************)
EXTENDS FrameStack, SequenceTheorems, FiniteSetTheorems, WellFoundedInduction, TLAPS

\* An info and the meta at the same place belong together.
Half(info, meta) ==
    /\ meta.closure = Tramp <=> info = TrampInfo
    /\ info = TrampInfo \/ info.base > 0

Matched(infos, ms) ==
    /\ infos \in Seq(Info) /\ ms \in Seq(Meta) /\ Len(infos) = Len(ms)
    /\ \A i \in 1 .. Len(ms) : Half(infos[i], ms[i])

\* The frames proper: the ring is empty while a block is paged out, and the
\* frames in memory suffice to reach every block.
Frames ==
    /\ ring \in Seq(Info) /\ Len(ring) < RingSize /\ overflow \in Seq(Info)
    /\ metas \in Seq(Meta)
    /\ spilled \in Seq([infos : Seq(Info), metas : Seq(Meta)])
    /\ depth \in Nat /\ current_base \in Nat
    /\ Matched(ring \o overflow, metas)
    /\ \A b \in 1 .. Len(spilled) : Matched(spilled[b].infos, spilled[b].metas)
    /\ spilled # <<>> => ring = <<>>

Paging ==
    /\ \A i \in 1 .. Len(metas) : metas[i].closure = Tramp <=> i = 1 /\ spilled # <<>>
    /\ \A b \in 1 .. Len(spilled) :
         /\ \A i \in 1 .. Len(spilled[b].metas) :
              spilled[b].metas[i].closure = Tramp <=> i = 1 /\ b > 1
         /\ IF SpillBatch = 1 THEN Len(spilled[b].metas) = 1
                              ELSE b > 1 => Len(spilled[b].metas) >= 2
    /\ spilled # <<>> => Len(metas) >= 3
    /\ SpillBatch = 1 /\ spilled # <<>> => Len(metas) >= Len(spilled) + 2

IsSeq(s) == \E S : s \in Seq(S)

\* What the frames are made from.  (The values in the registers are no matter.)
Script ==
    /\ IsSeq(regs) /\ Len(regs) > 0
    /\ chunk \in Chunks /\ ip \in 0 .. End
    /\ saved \in Saved /\ (phase = "host" => saved.len > 0)

Inv == Frames /\ Paging /\ Script

-----------------------------------------------------------------------------
(* Sequences *)

LEMMA ConcatAppend ==
  ASSUME NEW S, NEW s \in Seq(S), NEW t \in Seq(S), NEW e \in S
  PROVE  s \o Append(t, e) = Append(s \o t, e)
<1> DEFINE u == Append(t, e)  v == s \o t
<1>1. /\ u \in Seq(S) /\ Len(u) = Len(t) + 1 /\ u[Len(t) + 1] = e
      /\ \A i \in 1 .. Len(t) : u[i] = t[i]
  BY AppendProperties
<1>2. /\ v \in Seq(S) /\ Len(v) = Len(s) + Len(t) /\ Len(s) \in Nat /\ Len(t) \in Nat
      /\ \A i \in 1 .. Len(s) + Len(t) : v[i] = IF i <= Len(s) THEN s[i] ELSE t[i - Len(s)]
  BY ConcatProperties, LenProperties
<1> HIDE DEF u, v
<1>3. /\ s \o u \in Seq(S) /\ Len(s \o u) = Len(s) + Len(u)
      /\ \A i \in 1 .. Len(s) + Len(u) : (s \o u)[i] = IF i <= Len(s) THEN s[i] ELSE u[i - Len(s)]
  BY <1>1, ConcatProperties
<1>4. /\ Append(v, e) \in Seq(S) /\ Len(Append(v, e)) = Len(v) + 1
      /\ \A i \in 1 .. Len(v) : Append(v, e)[i] = v[i]
      /\ Append(v, e)[Len(v) + 1] = e
  BY <1>2, AppendProperties
<1>5. ASSUME NEW i \in 1 .. Len(s \o u) PROVE (s \o u)[i] = Append(v, e)[i]
  <2>1. CASE i <= Len(s)
    BY <2>1, <1>1, <1>2, <1>3, <1>4
  <2>2. CASE i > Len(s) /\ i <= Len(v)
    <3>1. i - Len(s) \in 1 .. Len(t) /\ ~(i <= Len(s)) /\ i \in 1 .. Len(v)
      BY <2>2, <1>2
    <3>2. (s \o u)[i] = u[i - Len(s)]
      BY <3>1, <1>1, <1>2, <1>3
    <3>3. u[i - Len(s)] = t[i - Len(s)]
      BY <3>1, <1>1
    <3>4. v[i] = t[i - Len(s)]
      BY <3>1, <1>2
    <3>5. Append(v, e)[i] = v[i]
      BY <3>1, <1>4
    <3> QED
      BY <3>2, <3>3, <3>4, <3>5
  <2>3. CASE i = Len(v) + 1
    <3>1. i - Len(s) = Len(t) + 1 /\ ~(i <= Len(s))
      BY <2>3, <1>2
    <3> QED
      BY <3>1, <2>3, <1>1, <1>2, <1>3, <1>4
  <2> QED
    BY <2>1, <2>2, <2>3, <1>1, <1>2, <1>3
<1>6. Len(s \o u) = Len(Append(v, e))
  BY <1>1, <1>2, <1>3, <1>4
<1>7. s \o u = Append(v, e)
  BY <1>3, <1>4, <1>5, <1>6, SeqEqual
<1> QED
  BY <1>7 DEF u, v

LEMMA FrontOf ==
  ASSUME NEW S, NEW s \in Seq(S), s # <<>>
  PROVE  /\ Front(s) \in Seq(S) /\ Len(Front(s)) = Len(s) - 1 /\ Len(s) \in Nat \ {0}
         /\ \A i \in 1 .. Len(s) - 1 : Front(s)[i] = s[i]
<1>1. Len(s) \in Nat \ {0}
  BY EmptySeq
<1> DEFINE k == Len(s) - 1
<1>2. 1 \in Int /\ k \in Int /\ \A i \in 1 .. k : s[i] \in S
  BY <1>1, ElementOfSeq
<1> HIDE DEF k
<1>0. k \in Nat
  BY <1>1 DEF k
<1>3. /\ SubSeq(s, 1, k) \in Seq(S)
      /\ Len(SubSeq(s, 1, k)) = IF 1 <= k THEN k - 1 + 1 ELSE 0
      /\ \A i \in 1 .. k - 1 + 1 : SubSeq(s, 1, k)[i] = s[1 + i - 1]
  BY <1>2, SubSeqProperties
<1>4. /\ Len(SubSeq(s, 1, k)) = k
      /\ \A i \in 1 .. k : SubSeq(s, 1, k)[i] = s[i]
  BY <1>0, <1>3
<1> QED
  BY <1>1, <1>3, <1>4 DEF k, Front

-----------------------------------------------------------------------------
(* Sequences that go in step *)

LEMMA TrampTypes == TrampInfo \in Info /\ TrampMeta \in Meta /\ Half(TrampInfo, TrampMeta)
  BY ChunkAssumption, BoundAssumption DEF TrampInfo, TrampMeta, Info, Meta, Half, Chunks, End

\* Joining two, and cutting a stretch out of both.
LEMMA MatchedConcat ==
  ASSUME NEW is, NEW ms, NEW js, NEW ns, Matched(is, ms), Matched(js, ns)
  PROVE  Matched(is \o js, ms \o ns)
<1>1. /\ is \in Seq(Info) /\ js \in Seq(Info) /\ ms \in Seq(Meta) /\ ns \in Seq(Meta)
      /\ Len(is) = Len(ms) /\ Len(js) = Len(ns) /\ Len(ms) \in Nat /\ Len(ns) \in Nat
  BY DEF Matched
<1>2. /\ is \o js \in Seq(Info) /\ Len(is \o js) = Len(is) + Len(js)
      /\ \A i \in 1 .. Len(is) + Len(js) :
           (is \o js)[i] = IF i <= Len(is) THEN is[i] ELSE js[i - Len(is)]
  BY <1>1, ConcatProperties
<1>3. /\ ms \o ns \in Seq(Meta) /\ Len(ms \o ns) = Len(ms) + Len(ns)
      /\ \A i \in 1 .. Len(ms) + Len(ns) :
           (ms \o ns)[i] = IF i <= Len(ms) THEN ms[i] ELSE ns[i - Len(ms)]
  BY <1>1, ConcatProperties
<1>4. ASSUME NEW i \in 1 .. Len(ms \o ns) PROVE Half((is \o js)[i], (ms \o ns)[i])
  <2>1. CASE i <= Len(ms)
    BY <2>1, <1>1, <1>2, <1>3 DEF Matched
  <2>2. CASE i > Len(ms)
    <3>1. i - Len(ms) \in 1 .. Len(ns)
      BY <2>2, <1>1, <1>3
    <3>2. Half(js[i - Len(ms)], ns[i - Len(ms)])
      BY <3>1 DEF Matched
    <3>3. (is \o js)[i] = js[i - Len(ms)] /\ (ms \o ns)[i] = ns[i - Len(ms)]
      BY <2>2, <1>1, <1>2, <1>3
    <3> QED
      BY <3>2, <3>3
  <2> QED
    BY <2>1, <2>2, <1>1, <1>3
<1> QED
  BY <1>1, <1>2, <1>3, <1>4 DEF Matched

LEMMA MatchedSub ==
  ASSUME NEW is, NEW ms, Matched(is, ms), NEW a \in Nat \ {0}, NEW z \in 0 .. Len(ms)
  PROVE  /\ Matched(SubSeq(is, a, z), SubSeq(ms, a, z))
         /\ Len(SubSeq(ms, a, z)) = IF a <= z THEN z - a + 1 ELSE 0
         /\ \A i \in 1 .. z - a + 1 : SubSeq(ms, a, z)[i] = ms[a + i - 1]
<1>1. /\ is \in Seq(Info) /\ ms \in Seq(Meta) /\ Len(is) = Len(ms) /\ Len(ms) \in Nat
      /\ a \in Int /\ z \in Int
      /\ \A i \in a .. z : is[i] \in Info /\ ms[i] \in Meta
  BY DEF Matched
<1>2. /\ SubSeq(is, a, z) \in Seq(Info)
      /\ Len(SubSeq(is, a, z)) = IF a <= z THEN z - a + 1 ELSE 0
      /\ \A i \in 1 .. z - a + 1 : SubSeq(is, a, z)[i] = is[a + i - 1]
  BY <1>1, SubSeqProperties
<1>3. /\ SubSeq(ms, a, z) \in Seq(Meta)
      /\ Len(SubSeq(ms, a, z)) = IF a <= z THEN z - a + 1 ELSE 0
      /\ \A i \in 1 .. z - a + 1 : SubSeq(ms, a, z)[i] = ms[a + i - 1]
  BY <1>1, SubSeqProperties
<1>4. ASSUME NEW i \in 1 .. Len(SubSeq(ms, a, z))
      PROVE  Half(SubSeq(is, a, z)[i], SubSeq(ms, a, z)[i])
  <2>1. i \in 1 .. z - a + 1 /\ a + i - 1 \in 1 .. Len(ms)
    BY <1>1, <1>3
  <2> QED
    BY <2>1, <1>2, <1>3 DEF Matched
<1> QED
  BY <1>1, <1>2, <1>3, <1>4 DEF Matched

LEMMA MatchedOne ==
  ASSUME NEW info \in Info, NEW meta \in Meta, Half(info, meta)
  PROVE  Matched(<<info>>, <<meta>>)
  BY DEF Matched

LEMMA MatchedAppend ==
  ASSUME NEW is, NEW ms, Matched(is, ms), NEW info \in Info, NEW meta \in Meta, Half(info, meta)
  PROVE  Matched(Append(is, info), Append(ms, meta))
  BY DEF Matched

-----------------------------------------------------------------------------
(* Spilling *)

\* What a frame state must satisfy while one more frame is about to go on it.
Ready(p) ==
    /\ p.ring \in Seq(Info) /\ Len(p.ring) < RingSize /\ p.overflow \in Seq(Info)
    /\ p.metas \in Seq(Meta)
    /\ p.spilled \in Seq([infos : Seq(Info), metas : Seq(Meta)])
    /\ Matched(p.ring \o p.overflow, p.metas)
    /\ \A b \in 1 .. Len(p.spilled) : Matched(p.spilled[b].infos, p.spilled[b].metas)
    /\ p.spilled # <<>> => p.ring = <<>>
    /\ \A i \in 1 .. Len(p.metas) : p.metas[i].closure = Tramp <=> i = 1 /\ p.spilled # <<>>
    /\ \A b \in 1 .. Len(p.spilled) :
         /\ \A i \in 1 .. Len(p.spilled[b].metas) :
              p.spilled[b].metas[i].closure = Tramp <=> i = 1 /\ b > 1
         /\ IF SpillBatch = 1 THEN Len(p.spilled[b].metas) = 1
                              ELSE b > 1 => Len(p.spilled[b].metas) >= 2
    /\ p.spilled # <<>> => Len(p.metas) >= 2
    /\ SpillBatch = 1 /\ p.spilled # <<>> => Len(p.metas) >= Len(p.spilled) + 1

\* The batch leaves at least one frame, and takes two whenever it may take two.
LEMMA BatchSize ==
  ASSUME Frames, Paging, Batch > 0
  PROVE  /\ Batch \in 1 .. Len(metas) - 1 /\ Len(metas) \in Nat
         /\ SpillBatch = 1 => Batch = 1
         /\ SpillBatch # 1 /\ spilled # <<>> => Batch >= 2
<1>1. Len(metas) \in Nat /\ SpillBatch \in Nat /\ SpillBatch >= 1
  BY PagerAssumption DEF Frames
<1>2. spilled # <<>> => Len(metas) >= 3
  BY DEF Paging
<1>3. Batch = IF SpillBatch < Len(metas) - 1 THEN SpillBatch ELSE Len(metas) - 1
  BY DEF Batch, Least
<1>4. CASE SpillBatch < Len(metas) - 1
  <2>1. Batch = SpillBatch
    BY <1>3, <1>4
  <2> QED
    BY <2>1, <1>1, <1>2, <1>4
<1>5. CASE ~(SpillBatch < Len(metas) - 1)
  <2>1. Batch = Len(metas) - 1
    BY <1>3, <1>5
  <2> QED
    BY <2>1, <1>1, <1>2, <1>5
<1> QED
  BY <1>4, <1>5

\* Spilling keeps the halves in step and puts one trampoline at the bottom.
LEMMA SpillReady ==
  ASSUME Frames, Paging, Spills
  PROVE  Ready(Paged)
<1> DEFINE B == Batch
           n == Len(metas)
           block == [infos |-> SubSeq(AllInfos, 1, B), metas |-> SubSeq(metas, 1, B)]
           is == SubSeq(AllInfos, B + 1, Len(AllInfos))
           ms == SubSeq(metas, B + 1, n)
           sp == Append(spilled, block)
<1>0. /\ B \in 1 .. n - 1 /\ n \in Nat
      /\ SpillBatch = 1 => B = 1
      /\ SpillBatch # 1 /\ spilled # <<>> => B >= 2
  BY BatchSize DEF Spills
<1>1. Matched(AllInfos, metas) /\ Len(AllInfos) = n
  BY DEF Frames, AllInfos, Matched
<1>2. /\ Matched(block.infos, block.metas) /\ Len(block.metas) = B
      /\ \A i \in 1 .. B : block.metas[i] = metas[i]
  <2>1. 1 \in Nat \ {0} /\ B \in 0 .. Len(metas)
    BY <1>0
  <2>2. /\ Matched(SubSeq(AllInfos, 1, B), SubSeq(metas, 1, B))
        /\ Len(SubSeq(metas, 1, B)) = IF 1 <= B THEN B - 1 + 1 ELSE 0
        /\ \A i \in 1 .. B - 1 + 1 : SubSeq(metas, 1, B)[i] = metas[1 + i - 1]
    BY <1>1, <2>1, MatchedSub
  <2> QED
    BY <2>2, <1>0
<1>3. /\ Matched(is, ms) /\ Len(ms) = n - B
      /\ \A i \in 1 .. n - B : ms[i] = metas[B + i]
  <2>1. B + 1 \in Nat \ {0} /\ n \in 0 .. Len(metas)
    BY <1>0
  <2>2. /\ Matched(SubSeq(AllInfos, B + 1, n), SubSeq(metas, B + 1, n))
        /\ Len(SubSeq(metas, B + 1, n)) = IF B + 1 <= n THEN n - (B + 1) + 1 ELSE 0
        /\ \A i \in 1 .. n - (B + 1) + 1 : SubSeq(metas, B + 1, n)[i] = metas[B + 1 + i - 1]
    BY <1>1, <2>1, MatchedSub
  <2> QED
    BY <2>2, <1>0, <1>1
<1>4. /\ Matched(<<TrampInfo>> \o is, <<TrampMeta>> \o ms)
      /\ Len(<<TrampMeta>> \o ms) = n - B + 1
      /\ (<<TrampMeta>> \o ms)[1] = TrampMeta
      /\ \A i \in 2 .. n - B + 1 : (<<TrampMeta>> \o ms)[i] = metas[B + i - 1]
  <2>1. Matched(<<TrampInfo>>, <<TrampMeta>>)
    BY TrampTypes, MatchedOne
  <2>2. ms \in Seq(Meta) /\ <<TrampMeta>> \in Seq(Meta)
    BY <1>3, TrampTypes DEF Matched
  <2>3. /\ Len(<<TrampMeta>> \o ms) = 1 + Len(ms)
        /\ \A i \in 1 .. 1 + Len(ms) : (<<TrampMeta>> \o ms)[i] =
              IF i <= 1 THEN <<TrampMeta>>[i] ELSE ms[i - 1]
    BY <2>2, ConcatProperties
  <2> QED
    BY <2>1, <2>3, <1>0, <1>3, MatchedConcat
<1>5. /\ sp \in Seq([infos : Seq(Info), metas : Seq(Meta)])
      /\ Len(sp) = Len(spilled) + 1 /\ Len(spilled) \in Nat
      /\ \A b \in 1 .. Len(spilled) : sp[b] = spilled[b]
      /\ sp[Len(spilled) + 1] = block
      /\ spilled # <<>> <=> Len(spilled) > 0
      /\ sp # <<>>
  <2>1. block \in [infos : Seq(Info), metas : Seq(Meta)]
    BY <1>2 DEF Matched
  <2>2. spilled \in Seq([infos : Seq(Info), metas : Seq(Meta)])
    BY DEF Frames
  <2> DEFINE Block == [infos : Seq(Info), metas : Seq(Meta)]
  <2> HIDE DEF block, Block
  <2>3. /\ sp \in Seq(Block) /\ sp # <<>>
        /\ Len(sp) = Len(spilled) + 1
        /\ \A b \in 1 .. Len(spilled) : sp[b] = spilled[b]
        /\ sp[Len(spilled) + 1] = block
    <3>1. block \in Block /\ spilled \in Seq(Block)
      BY <2>1, <2>2 DEF Block
    <3> QED
      BY <3>1, AppendProperties
  <2>4. Len(spilled) \in Nat /\ (spilled # <<>> <=> Len(spilled) > 0)
    BY <2>2, EmptySeq
  <2> QED
    BY <2>3, <2>4 DEF Block
<1>6. Paged = [ring |-> <<>>, overflow |-> <<TrampInfo>> \o is,
               metas |-> <<TrampMeta>> \o ms, spilled |-> sp]
  BY DEF Paged
<1>7. /\ <<>> \o (<<TrampInfo>> \o is) = <<TrampInfo>> \o is
      /\ <<TrampInfo>> \o is \in Seq(Info) /\ <<TrampMeta>> \o ms \in Seq(Meta)
  BY <1>4, ConcatEmptySeq DEF Matched
<1>8. \A b \in 1 .. Len(sp) : Matched(sp[b].infos, sp[b].metas)
  BY SMTT(30), <1>2, <1>5 DEF Frames
<1>9. \A i \in 1 .. n - B + 1 : (<<TrampMeta>> \o ms)[i].closure = Tramp <=> i = 1
  <2>1. ASSUME NEW i \in 2 .. n - B + 1 PROVE metas[B + i - 1].closure # Tramp
    BY <1>0 DEF Paging
  <2>2. TrampMeta.closure = Tramp
    BY DEF TrampMeta
  <2> QED
    BY <2>1, <2>2, <1>4, <1>0
<1>10. ASSUME NEW b \in 1 .. Len(sp)
       PROVE  /\ \A i \in 1 .. Len(sp[b].metas) : sp[b].metas[i].closure = Tramp <=> i = 1 /\ b > 1
              /\ IF SpillBatch = 1 THEN Len(sp[b].metas) = 1
                                   ELSE b > 1 => Len(sp[b].metas) >= 2
  <2>0. b \in 1 .. Len(spilled) \/ b = Len(spilled) + 1
    BY <1>5
  <2>1. CASE b \in 1 .. Len(spilled)
    BY <2>1, <1>5 DEF Paging
  <2>2. CASE b = Len(spilled) + 1
    <3>1. \A i \in 1 .. B : metas[i].closure = Tramp <=> i = 1 /\ spilled # <<>>
      BY <1>0 DEF Paging
    <3>2. /\ sp[b].metas = block.metas /\ Len(sp[b].metas) = B
          /\ b > 1 <=> spilled # <<>>
      BY <2>2, <1>2, <1>5
    <3> HIDE DEF B, block, sp
    <3>3. \A i \in 1 .. B : sp[b].metas[i].closure = Tramp <=> i = 1 /\ b > 1
      BY <3>1, <3>2, <1>2
    <3> QED
      BY <3>2, <3>3, <1>0
  <2> QED
    BY <2>0, <2>1, <2>2
<1>11. /\ n - B + 1 >= 2
       /\ SpillBatch = 1 => n - B + 1 >= Len(sp) + 1
  <2>1. SpillBatch = 1 /\ spilled # <<>> => n >= Len(spilled) + 2
    BY DEF Paging
  <2> QED
    BY <2>1, <1>0, <1>5
<1>12. RingSize \in Nat /\ 0 < RingSize /\ <<>> \in Seq(Info) /\ Len(<<>>) = 0
  BY BoundAssumption
<1>13. /\ Paged.ring = <<>> /\ Paged.overflow = <<TrampInfo>> \o is
       /\ Paged.metas = <<TrampMeta>> \o ms /\ Paged.spilled = sp
  BY <1>6
<1> HIDE DEF B, n, block, is, ms, sp
<1>14. /\ Paged.ring \in Seq(Info) /\ Len(Paged.ring) < RingSize
       /\ Paged.overflow \in Seq(Info) /\ Paged.metas \in Seq(Meta)
       /\ Matched(Paged.ring \o Paged.overflow, Paged.metas)
       /\ Len(Paged.metas) = n - B + 1
  BY <1>4, <1>7, <1>12, <1>13
<1> QED
  BY <1>5, <1>8, <1>9, <1>10, <1>11, <1>13, <1>14 DEF Ready

LEMMA PagedReady ==
  ASSUME Frames, Paging
  PROVE  Ready(Paged)
<1>1. CASE Spills
  BY <1>1, SpillReady
<1>2. CASE ~Spills
  <2>1. Paged = [ring |-> ring, overflow |-> overflow, metas |-> metas, spilled |-> spilled]
    BY <1>2 DEF Paged
  <2>2. spilled # <<>> => Len(metas) >= 2
    BY DEF Paging, Frames
  <2>3. SpillBatch = 1 /\ spilled # <<>> => Len(metas) >= Len(spilled) + 1
    BY DEF Paging, Frames
  <2> QED
    BY <2>1, <2>2, <2>3 DEF Ready, Frames, Paging
<1> QED
  BY <1>1, <1>2

-----------------------------------------------------------------------------
(* Pushing and popping *)

\* A frame pushed on a state that is ready for it.
LEMMA PushKeeps ==
  ASSUME Frames, Paging, NEW info \in Info, NEW meta \in Meta,
         info.base > 0, meta.closure # Tramp, PushFrame(info, meta)
  PROVE  /\ Frames' /\ Paging'
         /\ ring' \o overflow' = Append(Paged.ring \o Paged.overflow, info)
<1> DEFINE p == Paged
<1>0. Ready(p)
  BY PagedReady
<1> HIDE DEF p
<1>1. /\ p.ring \in Seq(Info) /\ Len(p.ring) < RingSize /\ p.overflow \in Seq(Info)
      /\ p.metas \in Seq(Meta)
      /\ p.spilled \in Seq([infos : Seq(Info), metas : Seq(Meta)])
      /\ Matched(p.ring \o p.overflow, p.metas)
  BY <1>0 DEF Ready
<1>2. /\ Len(p.ring) \in Nat /\ Len(p.overflow) \in Nat
      /\ Len(p.metas) = Len(p.ring) + Len(p.overflow)
      /\ RingSize \in Nat
  <2>1. /\ Len(p.ring \o p.overflow) = Len(p.ring) + Len(p.overflow)
        /\ Len(p.ring) \in Nat /\ Len(p.overflow) \in Nat
    BY <1>1, ConcatProperties, LenProperties
  <2>2. Len(p.ring \o p.overflow) = Len(p.metas)
    BY <1>1 DEF Matched
  <2> QED
    BY <2>1, <2>2, BoundAssumption
<1>3. Half(info, meta)
  BY DEF Half, TrampInfo
<1>4. /\ metas' = Append(p.metas, meta) /\ spilled' = p.spilled
      /\ depth' = depth + 1 /\ current_base' = info.base
  BY DEF PushFrame, p
<1>5. /\ ring' \in Seq(Info) /\ Len(ring') < RingSize /\ overflow' \in Seq(Info)
      /\ ring' \o overflow' = Append(p.ring \o p.overflow, info)
      /\ spilled' # <<>> => ring' = <<>>
  <2>1. CASE RingFull(Len(p.metas) - Len(p.overflow)) \/ p.overflow # <<>>
    <3>1. ring' = p.ring /\ overflow' = Append(p.overflow, info)
      BY <2>1 DEF PushFrame, p
    <3>2. p.ring \o Append(p.overflow, info) = Append(p.ring \o p.overflow, info)
      <4>1. p.ring \in Seq(Info) /\ p.overflow \in Seq(Info)
        BY <1>1
      <4>2. \A s, u \in Seq(Info), e \in Info : s \o Append(u, e) = Append(s \o u, e)
        BY ConcatAppend
      <4> QED
        BY <4>1, <4>2
    <3>3. Append(p.overflow, info) \in Seq(Info)
      BY <1>1, AppendProperties
    <3>4. p.spilled # <<>> => p.ring = <<>>
      BY <1>0 DEF Ready
    <3> QED
      BY <3>1, <3>2, <3>3, <3>4, <1>1, <1>4
  <2>2. CASE ~(RingFull(Len(p.metas) - Len(p.overflow)) \/ p.overflow # <<>>)
    <3>1. p.overflow = <<>> /\ Len(p.ring) < RingSize - 1
      BY <2>2, <1>2 DEF RingFull
    <3>2. ring' = Append(p.ring, info) /\ overflow' = <<>>
      BY <2>2, <3>1, <1>2 DEF PushFrame, p, RingPush
    <3>3. p.spilled # <<>> => FALSE
      <4>1. p.spilled # <<>> => p.ring = <<>> /\ Len(p.metas) >= 2
        BY <1>0 DEF Ready
      <4> QED
        BY <4>1, <3>1, <1>2
    <3>4. /\ ring' \in Seq(Info) /\ Len(ring') = Len(p.ring) + 1
          /\ ring' \o <<>> = Append(p.ring, info) /\ p.ring \o <<>> = p.ring
      BY <3>2, <1>1, AppendProperties, ConcatEmptySeq
    <3> QED
      BY <3>1, <3>2, <3>3, <3>4, <1>1, <1>2, <1>4
  <2> QED
    BY <2>1, <2>2
<1>6. Matched(ring' \o overflow', metas')
  BY <1>1, <1>3, <1>4, <1>5, MatchedAppend
<1>7. /\ metas' \in Seq(Meta) /\ Len(metas') = Len(p.metas) + 1 /\ Len(p.metas) \in Nat
      /\ \A i \in 1 .. Len(p.metas) : metas'[i] = p.metas[i]
      /\ metas'[Len(p.metas) + 1] = meta
  BY <1>1, <1>4, AppendProperties
<1>8. Frames'
  <2>1. depth' \in Nat /\ current_base' \in Nat
    BY <1>4 DEF Frames, Info
  <2>2. \A b \in 1 .. Len(spilled') : Matched(spilled'[b].infos, spilled'[b].metas)
    BY <1>0, <1>4 DEF Ready
  <2> QED
    BY <2>1, <2>2, <1>1, <1>4, <1>5, <1>6, <1>7 DEF Frames
<1>9. Paging'
  <2>1. \A i \in 1 .. Len(metas') : metas'[i].closure = Tramp <=> i = 1 /\ spilled' # <<>>
    <3>1. TAKE i \in 1 .. Len(metas')
    <3>2. \A j \in 1 .. Len(p.metas) : p.metas[j].closure = Tramp <=> j = 1 /\ p.spilled # <<>>
      BY <1>0 DEF Ready
    <3>3. CASE i \in 1 .. Len(p.metas)
      BY <3>2, <3>3, <1>4, <1>7
    <3>4. CASE i = Len(p.metas) + 1
      <4>1. spilled' # <<>> => i # 1
        BY <3>4, <1>0, <1>4, <1>7 DEF Ready
      <4> QED
        BY <4>1, <3>4, <1>7
    <3> QED
      BY <3>3, <3>4, <1>7
  <2>2. /\ spilled' # <<>> => Len(metas') >= 3
        /\ SpillBatch = 1 /\ spilled' # <<>> => Len(metas') >= Len(spilled') + 2
    <3>1. /\ p.spilled # <<>> => Len(p.metas) >= 2
          /\ SpillBatch = 1 /\ p.spilled # <<>> => Len(p.metas) >= Len(p.spilled) + 1
          /\ Len(p.spilled) \in Nat
      BY <1>0, <1>1 DEF Ready
    <3> QED
      BY <3>1, <1>4, <1>7
  <2>3. \A b \in 1 .. Len(spilled') :
         /\ \A i \in 1 .. Len(spilled'[b].metas) :
              spilled'[b].metas[i].closure = Tramp <=> i = 1 /\ b > 1
         /\ IF SpillBatch = 1 THEN Len(spilled'[b].metas) = 1
                              ELSE b > 1 => Len(spilled'[b].metas) >= 2
    BY <1>0, <1>4 DEF Ready
  <2> QED
    BY <2>1, <2>2, <2>3 DEF Paging
<1> QED
  BY <1>5, <1>8, <1>9 DEF p

\* What is left of the two parts of the infos when the newest goes.
LEMMA WithoutNewest ==
  ASSUME NEW r \in Seq(Info), NEW o \in Seq(Info), r \o o # <<>>
  PROVE  LET all == r \o o
             r2 == IF o = <<>> THEN Front(r) ELSE r
             o2 == IF o = <<>> THEN o ELSE Front(o)
         IN  /\ r2 \in Seq(Info) /\ Len(r2) <= Len(r) /\ o2 \in Seq(Info)
             /\ r2 \o o2 = SubSeq(all, 1, Len(all) - 1)
             /\ TopInfo(r, o) = all[Len(all)]
<1> DEFINE all == r \o o
<1>1. /\ all \in Seq(Info) /\ Len(all) = Len(r) + Len(o) /\ Len(r) \in Nat /\ Len(o) \in Nat
      /\ \A i \in 1 .. Len(r) + Len(o) : all[i] = IF i <= Len(r) THEN r[i] ELSE o[i - Len(r)]
  BY ConcatProperties, LenProperties
<1>2. Len(all) > 0
  BY <1>1, EmptySeq
<1> HIDE DEF all
<1> DEFINE n == Len(all)  cut == SubSeq(all, 1, n - 1)
<1>3. cut \in Seq(Info) /\ Len(cut) = n - 1 /\ \A i \in 1 .. n - 1 : cut[i] = all[i]
  <2>1. 1 \in Int /\ n - 1 \in Int /\ \A i \in 1 .. n - 1 : all[i] \in Info
    BY <1>1, <1>2, ElementOfSeq
  <2>2. /\ SubSeq(all, 1, n - 1) \in Seq(Info)
        /\ Len(SubSeq(all, 1, n - 1)) = IF 1 <= n - 1 THEN n - 1 - 1 + 1 ELSE 0
        /\ \A i \in 1 .. n - 1 - 1 + 1 : SubSeq(all, 1, n - 1)[i] = all[1 + i - 1]
    BY <2>1, SubSeqProperties
  <2> QED
    BY <2>2, <1>1, <1>2
<1>4. CASE o = <<>>
  <2>1. all = r /\ n = Len(r)
    BY <1>1, <1>4, ConcatEmptySeq DEF all
  <2>2. Front(r) = cut
    BY <2>1 DEF Front
  <2>3. cut \o <<>> = cut
    BY <1>3, ConcatEmptySeq
  <2>4. TopInfo(r, o) = all[n]
    BY <2>1, <1>4 DEF TopInfo, Last
  <2> QED
    BY <1>1, <1>2, <1>3, <1>4, <2>1, <2>2, <2>3, <2>4 DEF all
<1>5. CASE o # <<>>
  <2>1. Len(o) > 0
    BY <1>5, EmptySeq
  <2>2. /\ Front(o) \in Seq(Info) /\ Len(Front(o)) = Len(o) - 1
        /\ \A i \in 1 .. Len(o) - 1 : Front(o)[i] = o[i]
    BY <1>5, FrontOf
  <2>3. /\ r \o Front(o) \in Seq(Info) /\ Len(r \o Front(o)) = Len(r) + Len(Front(o))
        /\ \A i \in 1 .. Len(r) + Len(Front(o)) :
             (r \o Front(o))[i] = IF i <= Len(r) THEN r[i] ELSE Front(o)[i - Len(r)]
    BY <2>2, ConcatProperties
  <2>4. /\ Len(r \o Front(o)) = n - 1
        /\ \A i \in 1 .. n - 1 : (r \o Front(o))[i] = cut[i]
    <3>1. Len(r \o Front(o)) = n - 1
      BY <2>2, <2>3, <1>1
    <3>2. ASSUME NEW i \in 1 .. n - 1 PROVE (r \o Front(o))[i] = cut[i]
      <4>1. CASE i <= Len(r)
        <5>1. i \in 1 .. Len(r) + Len(o) /\ i \in 1 .. Len(r) + Len(Front(o))
          BY <4>1, <2>2, <1>1
        <5>2. (r \o Front(o))[i] = r[i]
          BY <5>1, <4>1, <2>3
        <5>3. cut[i] = all[i]
          BY <1>3
        <5>4. all[i] = r[i]
          BY <5>1, <4>1, <1>1
        <5> QED
          BY <5>2, <5>3, <5>4
      <4>2. CASE i > Len(r)
        <5>1. i - Len(r) \in 1 .. Len(o) - 1 /\ ~(i <= Len(r)) /\ i \in 1 .. Len(r) + Len(o)
          BY <4>2, <1>1
        <5>2. (r \o Front(o))[i] = Front(o)[i - Len(r)]
          BY <5>1, <2>2, <2>3, <1>1
        <5>3. Front(o)[i - Len(r)] = o[i - Len(r)]
          BY <5>1, <2>2
        <5>4. cut[i] = all[i]
          BY <1>3
        <5>5. all[i] = o[i - Len(r)]
          BY <5>1, <1>1
        <5> QED
          BY <5>2, <5>3, <5>4, <5>5
      <4>3. i \in Int /\ Len(r) \in Int
        BY <1>1
      <4>4. i <= Len(r) \/ i > Len(r)
        BY <4>3
      <4> QED
        BY <4>1, <4>2, <4>4
    <3> QED
      BY <3>1, <3>2
  <2>5. r \o Front(o) = cut
    BY <2>3, <2>4, <1>3, SeqEqual
  <2>6. TopInfo(r, o) = all[n]
    <3>1. all[n] = o[Len(o)]
      BY SMTT(30), <1>1, <2>1
    <3> QED
      BY <3>1, <1>5 DEF TopInfo, Last
  <2> QED
    BY <1>1, <1>5, <2>2, <2>5, <2>6 DEF all
<1> QED
  BY <1>4, <1>5

\* pop_frame takes a real frame, and brings back the block under a trampoline
\* before the trampoline can be the top.
LEMMA PopKeeps ==
  ASSUME Frames, Paging, NEW f, PopFrame(f)
  PROVE  /\ Frames' /\ Paging'
         /\ TopInfo(ring, overflow) \in Info /\ TopInfo(ring, overflow).base > 0
         /\ Last(metas) \in Meta
         /\ LET n  == Len(metas)
                is == SubSeq(AllInfos, 1, n - 1)
                ms == SubSeq(metas, 1, n - 1)
            IN  /\ n \in Nat \ {0} /\ TopInfo(ring, overflow) = AllInfos[n]
                /\ current_base' = (IF n = 1 THEN 0 ELSE AllInfos[n - 1].base)
                /\ spilled = <<>> => /\ ring' \o overflow' = is /\ metas' = ms
                                     /\ spilled' = spilled
                /\ spilled # <<>> => /\ n >= 3 /\ spilled' = Front(spilled)
                                     /\ ring' \o overflow' = Last(spilled).infos \o Tail(is)
                                     /\ metas' = Last(spilled).metas \o Tail(ms)
<1> DEFINE all == ring \o overflow
           n == Len(metas)
           r == IF overflow = <<>> THEN Front(ring) ELSE ring
           o == IF overflow = <<>> THEN overflow ELSE Front(overflow)
           m == Front(metas)
           Block == [infos : Seq(Info), metas : Seq(Meta)]
<1>1. /\ Matched(all, metas) /\ all \in Seq(Info) /\ metas \in Seq(Meta)
      /\ Len(all) = n /\ n \in Nat /\ n >= 1
      /\ ring \in Seq(Info) /\ overflow \in Seq(Info)
  <2>1. metas # <<>>
    BY DEF PopFrame
  <2> QED
    BY <2>1, EmptySeq DEF Frames, Matched
<1>2. /\ r \in Seq(Info) /\ Len(r) <= Len(ring) /\ o \in Seq(Info)
      /\ r \o o = SubSeq(all, 1, n - 1)
      /\ TopInfo(ring, overflow) = all[n]
  <2>1. all # <<>>
    BY <1>1
  <2> QED
    BY ZenonT(40), <1>1, <2>1, WithoutNewest
<1>3. metas[n].closure # Tramp
  BY <1>1 DEF Paging
<1>4. /\ TopInfo(ring, overflow) \in Info /\ TopInfo(ring, overflow).base > 0
      /\ Last(metas) \in Meta
  <2>1. Half(all[n], metas[n]) /\ all[n] \in Info /\ metas[n] \in Meta
    BY <1>1 DEF Matched
  <2> QED
    BY <2>1, <1>2, <1>3 DEF Half, Last
<1>5. /\ Matched(r \o o, m) /\ m \in Seq(Meta) /\ Len(m) = n - 1
      /\ \A i \in 1 .. n - 1 : m[i] = metas[i]
  <2>1. 1 \in Nat \ {0} /\ n - 1 \in 0 .. Len(metas)
    BY <1>1
  <2>2. Matched(SubSeq(all, 1, n - 1), SubSeq(metas, 1, n - 1))
    BY <1>1, <2>1, MatchedSub
  <2>3. metas # <<>>
    BY DEF PopFrame
  <2>4. m = SubSeq(metas, 1, n - 1)
    BY DEF Front
  <2> QED
    BY <2>2, <2>3, <2>4, <1>1, <1>2, FrontOf
<1>6. /\ ring' = r
      /\ depth' = Popped /\ current_base' = TopBase(r, o)
      /\ IF Restores(m)
         THEN /\ metas'    = Last(spilled).metas \o Tail(m)
              /\ overflow' = Last(spilled).infos \o (IF o = <<>> THEN o ELSE Tail(o))
              /\ spilled'  = Front(spilled)
         ELSE metas' = m /\ overflow' = o /\ spilled' = spilled
  BY DEF PopFrame
<1>7. spilled \in Seq(Block) /\ Len(spilled) \in Nat /\ Len(ring) \in Nat /\ RingSize \in Nat
  BY BoundAssumption DEF Frames
<1>8. depth' \in Nat /\ current_base' \in Nat
  <2>1. depth' \in Nat
    BY <1>6 DEF Frames, Popped
  <2>2. CASE o # <<>>
    <3>1. o[Len(o)] \in Info
      BY <1>2, <2>2, EmptySeq, ElementOfSeq
    <3> QED
      BY <2>1, <2>2, <3>1, <1>6 DEF TopBase, TopInfo, Last, Info
  <2>3. CASE o = <<>> /\ r # <<>>
    <3>1. r[Len(r)] \in Info
      BY <1>2, <2>3, EmptySeq, ElementOfSeq
    <3> QED
      BY <2>1, <2>3, <3>1, <1>6 DEF TopBase, TopInfo, Last, Info
  <2>4. CASE o = <<>> /\ r = <<>>
    BY <2>1, <2>4, <1>6 DEF TopBase
  <2> QED
    BY <2>2, <2>3, <2>4
<1>0. /\ all = AllInfos /\ n \in Nat \ {0} /\ r \o o = SubSeq(AllInfos, 1, n - 1)
      /\ m = SubSeq(metas, 1, n - 1) /\ TopInfo(ring, overflow) = AllInfos[n]
  BY <1>1, <1>2 DEF AllInfos, Front
<1>b. current_base' = IF n = 1 THEN 0 ELSE AllInfos[n - 1].base
  <2>1. r \o o \in Seq(Info) /\ Len(r \o o) = n - 1
    BY <1>1, <1>5 DEF Matched
  <2>2. CASE n = 1
    <3>1. r = <<>> /\ o = <<>>
      <4>1. Len(r \o o) = Len(r) + Len(o) /\ Len(r) \in Nat /\ Len(o) \in Nat
        BY <1>2, ConcatProperties, LenProperties
      <4>2. Len(r) = 0 /\ Len(o) = 0
        BY <2>1, <2>2, <4>1
      <4> QED
        BY <1>2, <4>2, EmptySeq
    <3> QED
      BY <3>1, <2>2, <1>6 DEF TopBase
  <2>3. CASE n # 1
    <3>1. Len(r \o o) # 0
      BY <2>1, <2>3, <1>1
    <3>2. r \o o # <<>>
      BY <2>1, <3>1, EmptySeq
    <3>3. TopInfo(r, o) = (r \o o)[n - 1]
      <4>1. \A s, u \in Seq(Info) : s \o u # <<>> => TopInfo(s, u) = (s \o u)[Len(s \o u)]
        BY WithoutNewest
      <4> QED
        BY <4>1, <3>2, <2>1, <1>2
    <3>4. (r \o o)[n - 1] = all[n - 1]
      <4>1. n - 1 \in 1 .. n - 1
        BY <2>3, <1>1
      <4>2. \A i \in 1 .. n - 1 : SubSeq(all, 1, n - 1)[i] = all[i]
        <5>1. 1 \in Int /\ n - 1 \in Int /\ \A i \in 1 .. n - 1 : all[i] \in Info
          BY <1>1, ElementOfSeq
        <5> HIDE DEF n, all
        <5>2. \A i \in 1 .. n - 1 - 1 + 1 : SubSeq(all, 1, n - 1)[i] = all[1 + i - 1]
          BY <5>1, SubSeqProperties
        <5> QED
          BY <5>2, <1>1
      <4> QED
        BY <4>1, <4>2, <1>2
    <3>5. o # <<>> \/ r # <<>>
      BY <3>2, ConcatEmptySeq
    <3> QED
      BY <3>3, <3>4, <3>5, <2>3, <1>0, <1>6 DEF TopBase
  <2> QED
    BY <2>2, <2>3
<1> HIDE DEF all, r, o, m, n, Block
<1>9. CASE spilled = <<>>
  <2>1. ~Restores(m)
    BY <1>9 DEF Restores
  <2>2. /\ metas' = m /\ overflow' = o /\ spilled' = <<>> /\ ring' = r
    BY <2>1, <1>6, <1>9
  <2>3. Frames'
    <3>1. Matched(ring' \o overflow', metas')
      BY <2>2, <1>5
    <3>2. spilled' \in Seq(Block) /\ Len(spilled') = 0 /\ Len(ring') < RingSize
      BY <2>2, <1>2, <1>7 DEF Frames
    <3> QED
      BY <2>2, <3>1, <3>2, <1>2, <1>5, <1>8 DEF Frames, Block
  <2>4. Paging'
    <3>1. Len(metas') = n - 1 /\ \A i \in 1 .. n - 1 : metas'[i] = metas[i]
      BY <2>2, <1>5
    <3>2. \A i \in 1 .. n - 1 : metas[i].closure # Tramp
      BY <1>1, <1>9 DEF Paging, n
    <3> QED
      BY <2>2, <3>1, <3>2 DEF Paging
  <2> QED
    BY <2>2, <2>3, <2>4, <1>0, <1>b, <1>4, <1>9 DEF n
<1>10. CASE spilled # <<>>
  <2> DEFINE k == Len(spilled)  block == Last(spilled)
  <2>1. ring = <<>> /\ n >= 3 /\ metas[1].closure = Tramp
    BY <1>1, <1>10 DEF Frames, Paging, n
  <2>2. k \in Nat /\ k >= 1
    BY <1>7, <1>10, EmptySeq
  <2>3. block = spilled[k] /\ block \in Block
    BY <2>2, <1>7, ElementOfSeq DEF Last
  <2>4. /\ Front(spilled) \in Seq(Block) /\ Len(Front(spilled)) = k - 1
        /\ \A b \in 1 .. k - 1 : Front(spilled)[b] = spilled[b]
    BY <1>7, <1>10, FrontOf
  <2>5. m[1].closure = Tramp /\ m # <<>>
    <3>1. 1 \in 1 .. n - 1
      BY <1>1, <2>1
    <3>2. m[1] = metas[1]
      BY <3>1, <1>5
    <3>3. Len(m) # 0
      BY <1>1, <1>5, <2>1
    <3> QED
      BY <3>2, <3>3, <2>1, EmptySeq
  <2>6. Restores(m)
    BY <2>5, <1>10 DEF Restores
  <2>7. overflow # <<>> /\ r = <<>>
    <3>1. overflow # <<>>
      BY <1>1, <2>1, ConcatEmptySeq DEF all
    <3> QED
      BY <3>1, <2>1 DEF r
  <2>8. /\ r \o o = o /\ Len(o) = n - 1 /\ o # <<>> /\ Matched(o, m)
    <3>1. r \o o = o
      BY <2>7, <1>2, ConcatEmptySeq
    <3>2. Matched(o, m)
      BY <3>1, <1>5
    <3>3. Len(o) = n - 1
      BY <3>2, <1>5 DEF Matched
    <3> QED
      BY <3>1, <3>2, <3>3, <2>1, <1>1
  <2>9. /\ metas' = block.metas \o Tail(m) /\ overflow' = block.infos \o Tail(o)
        /\ spilled' = Front(spilled) /\ ring' = <<>>
    BY <1>6, <2>6, <2>7, <2>8
  <2>10. /\ Matched(Tail(o), Tail(m)) /\ Len(Tail(m)) = n - 2
         /\ \A i \in 1 .. n - 2 : Tail(m)[i] = metas[i + 1]
    <3>1. Tail(o) = SubSeq(o, 2, Len(o)) /\ Tail(m) = SubSeq(m, 2, Len(m))
      BY <2>5, <2>8, <1>2, <1>5, TailIsSubSeq
    <3>2. 2 \in Nat \ {0} /\ n - 1 \in 0 .. Len(m) /\ Len(m) = n - 1 /\ Len(o) = n - 1
      BY <1>1, <1>5, <2>8
    <3>3. Matched(SubSeq(o, 2, n - 1), SubSeq(m, 2, n - 1))
      BY <2>8, <3>2, MatchedSub
    <3>4. /\ Len(Tail(m)) = Len(m) - 1
          /\ \A i \in 1 .. Len(Tail(m)) : Tail(m)[i] = m[i + 1]
      BY <2>5, <1>5, HeadTailProperties
    <3>5. ASSUME NEW i \in 1 .. n - 2 PROVE Tail(m)[i] = metas[i + 1]
      <4>1. i \in 1 .. Len(Tail(m)) /\ i + 1 \in 1 .. n - 1
        BY <3>2, <3>4, <1>1
      <4> QED
        BY <4>1, <3>4, <1>5
    <3>6. Matched(Tail(o), Tail(m))
      BY <3>1, <3>2, <3>3
    <3>7. Len(Tail(m)) = n - 2
      BY <3>2, <3>4, <1>1
    <3> QED
      BY <3>5, <3>6, <3>7
  <2>11. Matched(block.infos, block.metas)
    BY <2>2, <2>3 DEF Frames
  <2>12. Frames'
    <3>1. Matched(overflow', metas')
      BY <2>9, <2>10, <2>11, MatchedConcat
    <3>2. /\ overflow' \in Seq(Info) /\ metas' \in Seq(Meta)
          /\ ring' \o overflow' = overflow' /\ ring' \in Seq(Info) /\ Len(ring') = 0
      BY <3>1, <2>9, ConcatEmptySeq DEF Matched
    <3>3. Matched(ring' \o overflow', metas') /\ Len(ring') < RingSize
      BY <3>1, <3>2, BoundAssumption
    <3>4. \A b \in 1 .. Len(spilled') : Matched(spilled'[b].infos, spilled'[b].metas)
      <4>1. Len(spilled') = k - 1 /\ \A b \in 1 .. k - 1 : spilled'[b] = spilled[b]
        BY <2>4, <2>9
      <4>2. \A b \in 1 .. k : Matched(spilled[b].infos, spilled[b].metas)
        BY DEF Frames
      <4> HIDE DEF k
      <4>3. \A b \in 1 .. k - 1 : b \in 1 .. k
        BY <2>2
      <4> QED
        BY <4>1, <4>2, <4>3
    <3>5. spilled' \in Seq(Block)
      BY <2>4, <2>9
    <3> QED
      BY <3>2, <3>3, <3>4, <3>5, <2>9, <1>8 DEF Frames, Block
  <2> DEFINE bm == block.metas
  <2>13. /\ bm \in Seq(Meta) /\ Len(bm) \in Nat
         /\ \A i \in 1 .. Len(bm) : bm[i].closure = Tramp <=> i = 1 /\ k > 1
         /\ IF SpillBatch = 1 THEN Len(bm) = 1 ELSE k > 1 => Len(bm) >= 2
    BY <2>2, <2>3 DEF Paging, Block
  <2>14. spilled' # <<>> <=> k > 1
    BY <2>2, <2>4, <2>9, EmptySeq
  <2>15. /\ Len(metas') = Len(bm) + n - 2
         /\ \A i \in 1 .. Len(bm) : metas'[i] = bm[i]
         /\ \A i \in Len(bm) + 1 .. Len(bm) + n - 2 : metas'[i] = metas[i - Len(bm) + 1]
    <3>1. Tail(m) \in Seq(Meta) /\ Len(Tail(m)) = n - 2
      BY <2>10 DEF Matched
    <3>2. /\ Len(bm \o Tail(m)) = Len(bm) + Len(Tail(m))
          /\ \A i \in 1 .. Len(bm) + Len(Tail(m)) :
               (bm \o Tail(m))[i] = IF i <= Len(bm) THEN bm[i] ELSE Tail(m)[i - Len(bm)]
      BY <2>13, <3>1, ConcatProperties
    <3>3. metas' = bm \o Tail(m)
      BY <2>9
    <3> HIDE DEF bm
    <3>4. \A i \in 1 .. Len(bm) : metas'[i] = bm[i]
      BY <3>1, <3>2, <3>3, <2>1, <2>13, <1>1
    <3>5. ASSUME NEW i \in Len(bm) + 1 .. Len(bm) + n - 2
          PROVE  metas'[i] = metas[i - Len(bm) + 1]
      <4>1. /\ i \in 1 .. Len(bm) + Len(Tail(m)) /\ ~(i <= Len(bm)) /\ i - Len(bm) \in 1 .. n - 2
        BY <3>1, <2>13, <1>1
      <4>2. metas'[i] = Tail(m)[i - Len(bm)]
        BY <4>1, <3>2, <3>3
      <4>3. Tail(m)[i - Len(bm)] = metas[i - Len(bm) + 1]
        BY <4>1, <2>10
      <4> QED
        BY <4>2, <4>3
    <3> QED
      BY <3>1, <3>2, <3>3, <3>4, <3>5, <2>13, <1>1
  <2> HIDE DEF bm, block, k
  <2>16. \A i \in 1 .. Len(metas') : metas'[i].closure = Tramp <=> i = 1 /\ spilled' # <<>>
    <3>1. TAKE i \in 1 .. Len(metas')
    <3>2. CASE i <= Len(bm)
      <4>1. i \in 1 .. Len(bm)
        BY <3>2, <2>13
      <4> QED
        BY <4>1, <2>13, <2>14, <2>15
    <3>3. CASE i > Len(bm)
      <4>1. /\ i \in Len(bm) + 1 .. Len(bm) + n - 2 /\ i - Len(bm) + 1 \in 2 .. n
        BY <3>3, <2>13, <2>15, <1>1
      <4>2. metas[i - Len(bm) + 1].closure # Tramp
        <5>1. \A j \in 1 .. n : metas[j].closure = Tramp <=> j = 1 /\ spilled # <<>>
          BY DEF Paging, n
        <5>2. /\ i - Len(bm) + 1 \in 1 .. n /\ i - Len(bm) + 1 # 1
          BY <4>1, <2>13, <1>1
        <5> QED
          BY <5>1, <5>2
      <4>3. metas'[i].closure # Tramp
        BY <4>1, <4>2, <2>15
      <4>4. ~(i = 1 /\ spilled' # <<>>)
        BY <3>3, <2>13, <2>14
      <4> QED
        BY <4>3, <4>4
    <3>4. i <= Len(bm) \/ i > Len(bm)
      BY <2>13, <2>15, <1>1
    <3> QED
      BY <3>2, <3>3, <3>4
  <2>17. /\ spilled' # <<>> => Len(metas') >= 3
         /\ SpillBatch = 1 /\ spilled' # <<>> => Len(metas') >= Len(spilled') + 2
    <3>1. CASE SpillBatch = 1
      <4>1. n >= k + 2
        BY <3>1, <1>10 DEF Paging, n, k
      <4>2. Len(spilled') = k - 1 /\ Len(bm) = 1
        BY <3>1, <2>4, <2>9, <2>13
      <4> QED
        BY <4>1, <4>2, <2>2, <2>14, <2>15, <1>1
    <3>2. CASE SpillBatch # 1
      BY <3>2, <2>1, <2>13, <2>14, <2>15, <1>1
    <3> QED
      BY <3>1, <3>2
  <2>18. Paging'
    <3>1. ASSUME NEW b \in 1 .. Len(spilled') PROVE b \in 1 .. Len(spilled) /\ spilled'[b] = spilled[b]
      BY <2>2, <2>4, <2>9 DEF k
    <3> QED
      BY <3>1, <2>16, <2>17 DEF Paging
  <2>19. /\ ring' \o overflow' = Last(spilled).infos \o Tail(r \o o)
         /\ metas' = Last(spilled).metas \o Tail(m)
    <3>1. overflow' \in Seq(Info)
      BY <2>12 DEF Frames
    <3> QED
      BY <3>1, <2>8, <2>9, ConcatEmptySeq DEF block
  <2> QED
    BY <2>1, <2>9, <2>12, <2>18, <2>19, <1>0, <1>b, <1>4, <1>10 DEF n
<1> QED
  BY <1>9, <1>10

-----------------------------------------------------------------------------
(* The register file *)

LEMMA IsSeqLen == ASSUME NEW s, IsSeq(s) PROVE Len(s) \in Nat /\ DOMAIN s = 1 .. Len(s)
  BY LenProperties DEF IsSeq

LEMMA IsSeqConcat ==
  ASSUME NEW s, NEW t, IsSeq(s), IsSeq(t)
  PROVE  IsSeq(s \o t) /\ Len(s \o t) = Len(s) + Len(t)
<1>1. PICK S : s \in Seq(S)
  BY DEF IsSeq
<1>2. PICK T : t \in Seq(T)
  BY DEF IsSeq
<1>3. s \in Seq(S \cup T) /\ t \in Seq(S \cup T)
  BY <1>1, <1>2, SeqMonotonic
<1>4. s \o t \in Seq(S \cup T) /\ Len(s \o t) = Len(s) + Len(t)
  BY <1>3, ConcatProperties
<1> QED
  BY <1>4 DEF IsSeq

LEMMA IsSeqSub ==
  ASSUME NEW s, NEW a \in Int, NEW z \in Int
  PROVE  IsSeq(SubSeq(s, a, z)) /\ Len(SubSeq(s, a, z)) = IF a <= z THEN z - a + 1 ELSE 0
<1> DEFINE S == {s[i] : i \in a .. z}
<1>1. \A i \in a .. z : s[i] \in S
  OBVIOUS
<1> HIDE DEF S
<1>2. SubSeq(s, a, z) \in Seq(S) /\ Len(SubSeq(s, a, z)) = IF a <= z THEN z - a + 1 ELSE 0
  BY <1>1, SubSeqProperties
<1> QED
  BY <1>2 DEF IsSeq

LEMMA IsSeqFun ==
  ASSUME NEW n \in Nat, NEW g, g = [i \in 1 .. n |-> g[i]]
  PROVE  IsSeq(g) /\ Len(g) = n
<1> DEFINE S == {g[i] : i \in 1 .. n}
<1>1. g \in [1 .. n -> S]
  OBVIOUS
<1>2. g \in Seq(S)
  BY <1>1, SeqDef
<1>3. Len(g) = n
  BY <1>1, <1>2, LenProperties
<1> QED
  BY <1>2, <1>3 DEF IsSeq

LEMMA FillSeq == ASSUME NEW n \in Nat PROVE IsSeq(Fill(n)) /\ Len(Fill(n)) = n
<1>1. Fill(n) = [i \in 1 .. n |-> Fill(n)[i]]
  BY DEF Fill
<1> QED
  BY <1>1, IsSeqFun

LEMMA TruncatedSeq ==
  ASSUME NEW s, IsSeq(s), Len(s) > 0, NEW n \in Nat, n > 0
  PROVE  IsSeq(Truncated(s, n)) /\ Len(Truncated(s, n)) > 0
<1> DEFINE z == IF n < Len(s) THEN n ELSE Len(s)
<1>1. Len(s) \in Nat
  BY IsSeqLen
<1>2. z \in Int /\ 1 \in Int /\ z >= 1
  BY <1>1
<1> HIDE DEF z
<1>3. IsSeq(SubSeq(s, 1, z)) /\ Len(SubSeq(s, 1, z)) = IF 1 <= z THEN z - 1 + 1 ELSE 0
  BY <1>2, IsSeqSub
<1>4. Truncated(s, n) = SubSeq(s, 1, z)
  BY DEF Truncated, z
<1> QED
  BY <1>2, <1>3, <1>4

\* Changing one register.
LEMMA ExceptIsSeq ==
  ASSUME NEW s, IsSeq(s), NEW i, NEW v
  PROVE  IsSeq([s EXCEPT ![i] = v]) /\ Len([s EXCEPT ![i] = v]) = Len(s)
<1> DEFINE g == [s EXCEPT ![i] = v]
<1>1. Len(s) \in Nat /\ DOMAIN s = 1 .. Len(s)
  BY IsSeqLen
<1>2. g = [j \in 1 .. Len(s) |-> g[j]]
  BY <1>1
<1> HIDE DEF g
<1>3. IsSeq(g) /\ Len(g) = Len(s)
  BY <1>1, <1>2, IsSeqFun
<1> QED
  BY <1>3 DEF g

LEMMA SizeTypes ==
  ASSUME NEW c \in Chunks
  PROVE  Argc[c] \in Nat /\ Locals[c] \in Nat /\ Size[c] \in Nat
  BY ChunkAssumption DEF Size

-----------------------------------------------------------------------------
(* The steps *)

\* A step that leaves the frames alone.
LEMMA FramesSame ==
  ASSUME Frames, Paging, current_base' \in Nat,
         UNCHANGED <<ring, overflow, metas, spilled, depth>>
  PROVE  Frames' /\ Paging'
  BY DEF Frames, Paging

\* A new activation.
LEMMA ActivateInv ==
  ASSUME Inv, NEW c \in Chunks, NEW args, IsSeq(args), NEW ret \in 0 .. End,
         NEW meta \in Meta, meta.closure # Tramp, Activate(c, args, ret, meta)
  PROVE  /\ Frames' /\ Paging'
         /\ IsSeq(regs') /\ Len(regs') > 0 /\ chunk' \in Chunks /\ ip' \in 0 .. End
<1> DEFINE info == [base |-> Len(regs), ret |-> ret]
<1>1. IsSeq(regs) /\ Len(regs) > 0 /\ Len(regs) \in Nat
  BY IsSeqLen DEF Inv, Script
<1>2. info \in Info /\ info.base > 0
  BY <1>1 DEF Info
<1>3. PushFrame(info, meta)
  BY DEF Activate
<1> HIDE DEF info
<1>4. Frames' /\ Paging'
  BY <1>2, <1>3, PushKeeps DEF Inv
<1>5. IsSeq(regs') /\ Len(regs') > 0
  <2>1. IsSeq(Fill(Locals[c])) /\ Len(Fill(Locals[c])) \in Nat
    BY SizeTypes, FillSeq
  <2>2. IsSeq(regs \o args) /\ Len(regs \o args) = Len(regs) + Len(args)
    BY <1>1, IsSeqConcat
  <2>3. /\ IsSeq((regs \o args) \o Fill(Locals[c]))
        /\ Len((regs \o args) \o Fill(Locals[c])) = Len(regs \o args) + Len(Fill(Locals[c]))
    BY <2>1, <2>2, IsSeqConcat
  <2>4. regs' = (regs \o args) \o Fill(Locals[c])
    BY DEF Activate
  <2>5. Len(args) \in Nat
    BY IsSeqLen
  <2> QED
    BY <2>1, <2>2, <2>3, <2>4, <2>5, <1>1
<1>6. chunk' = c /\ ip' = 0 /\ 0 \in 0 .. End
  BY BoundAssumption DEF Activate, End
<1> QED
  BY <1>4, <1>5, <1>6

\* A frame that is popped, with what is written into the register file first.
LEMMA PopInv ==
  ASSUME Inv, NEW f, IsSeq(f), Len(f) > 0, PopFrame(f)
  PROVE  /\ Frames' /\ Paging'
         /\ IsSeq(regs') /\ Len(regs') > 0 /\ chunk' \in Chunks /\ ip' \in 0 .. End
<1> DEFINE info == TopInfo(ring, overflow)
<1>1. /\ Frames' /\ Paging' /\ info \in Info /\ info.base > 0 /\ Last(metas) \in Meta
  BY PopKeeps DEF Inv
<1>2. /\ regs' = Truncated(f, info.base) /\ ip' = info.ret /\ chunk' = Last(metas).chunk
  BY DEF PopFrame
<1> HIDE DEF info
<1>3. info.base \in Nat /\ info.ret \in 0 .. End
  BY <1>1 DEF Info
<1>4. Last(metas).chunk \in Chunks
  BY <1>1 DEF Meta
<1>5. IsSeq(regs') /\ Len(regs') > 0
  BY <1>1, <1>2, <1>3, TruncatedSeq
<1> QED
  BY <1>1, <1>2, <1>3, <1>4, <1>5

\* What call_global_function puts back.
LEMMA RestoreInv ==
  ASSUME Inv, phase = "host", Restore
  PROVE  /\ current_base' \in Nat
         /\ IsSeq(regs') /\ Len(regs') > 0 /\ chunk' \in Chunks /\ ip' \in 0 .. End
         /\ phase' = "halted"
<1>1. /\ saved.len \in Nat /\ saved.base \in Nat /\ saved.ip \in 0 .. End /\ saved.chunk \in Chunks
      /\ saved.len > 0
  BY DEF Inv, Script, Saved
<1>2. IsSeq(regs) /\ Len(regs) > 0
  BY DEF Inv, Script
<1>3. IsSeq(Truncated(regs, saved.len)) /\ Len(Truncated(regs, saved.len)) > 0
  BY <1>1, <1>2, TruncatedSeq
<1> QED
  BY <1>1, <1>3 DEF Restore

\* Arguments slid to the base, and more locals if the window is too small.
LEMMA SlidSeq ==
  ASSUME Inv, NEW c \in Chunks, NEW r
  PROVE  /\ IsSeq(Slid(r, Argc[c])) /\ Len(Slid(r, Argc[c])) > 0
         /\ LET more == IF Outgrows(c) THEN Fill(Locals[c] - OldLocals(c)) ELSE <<>>
            IN  IsSeq(Slid(r, Argc[c]) \o more) /\ Len(Slid(r, Argc[c]) \o more) > 0
<1> DEFINE g == Slid(r, Argc[c])
           more == IF Outgrows(c) THEN Fill(Locals[c] - OldLocals(c)) ELSE <<>>
<1>1. Len(regs) \in Nat /\ Len(regs) > 0 /\ DOMAIN regs = 1 .. Len(regs)
  BY IsSeqLen DEF Inv, Script
<1>2. g = [i \in 1 .. Len(regs) |-> g[i]]
  BY <1>1 DEF Slid
<1>3. IsSeq(more)
  <2>1. CASE Outgrows(c)
    <3>1. Locals[c] - OldLocals(c) \in Nat
      BY <2>1, <1>1, SizeTypes DEF Outgrows, OldLocals, Inv, Frames
    <3> QED
      BY <2>1, <3>1, FillSeq
  <2>2. CASE ~Outgrows(c)
    BY <2>2, EmptySeq DEF IsSeq
  <2> QED
    BY <2>1, <2>2
<1> HIDE DEF g, more
<1>4. IsSeq(g) /\ Len(g) = Len(regs)
  BY <1>1, <1>2, IsSeqFun
<1>5. IsSeq(g \o more) /\ Len(g \o more) = Len(g) + Len(more) /\ Len(more) \in Nat
  BY <1>3, <1>4, IsSeqConcat, IsSeqLen
<1>6. IsSeq(g) /\ Len(g) > 0 /\ IsSeq(g \o more) /\ Len(g \o more) > 0
  BY <1>1, <1>4, <1>5
<1> QED
  BY <1>6 DEF g, more

\* The closure of the frame on top is replaced.
LEMMA RenameInv ==
  ASSUME Inv, metas # <<>>, NEW c \in Closures,
         metas' = [metas EXCEPT ![Len(metas)].closure = c],
         UNCHANGED <<ring, overflow, spilled, depth, current_base>>
  PROVE  Frames' /\ Paging'
<1> DEFINE n == Len(metas)
           top == [metas[n] EXCEPT !.closure = c]
<1>1. metas \in Seq(Meta) /\ n \in Nat /\ n >= 1 /\ metas[n] \in Meta
  BY EmptySeq, ElementOfSeq DEF Inv, Frames
<1>2. top \in Meta /\ top.closure = c /\ c # Tramp
  BY <1>1, ChunkAssumption DEF Meta, Chunks
<1>3. metas' = [metas EXCEPT ![n] = top]
  BY <1>1
<1> HIDE DEF n, top
<1>4. /\ metas' \in Seq(Meta) /\ Len(metas') = n
      /\ \A j \in 1 .. n : metas'[j] = IF j = n THEN top ELSE metas[j]
  <2>1. n \in 1 .. Len(metas) /\ Len(metas) = n
    BY <1>1 DEF n
  <2> QED
    BY <1>1, <1>2, <1>3, <2>1, ExceptSeq
<1>5. metas[n].closure # Tramp
  BY <1>1 DEF n, Inv, Paging
<1>6. Matched(ring' \o overflow', metas')
  <2>1. Matched(ring \o overflow, metas) /\ ring' \o overflow' = ring \o overflow
    BY DEF Inv, Frames
  <2>2. ASSUME NEW j \in 1 .. n PROVE Half((ring \o overflow)[j], metas'[j])
    <3>1. Half((ring \o overflow)[j], metas[j])
      BY <2>1 DEF Matched, n
    <3>2. CASE j = n
      BY <3>1, <3>2, <1>2, <1>4, <1>5 DEF Half
    <3>3. CASE j # n
      BY <3>1, <3>3, <1>4
    <3> QED
      BY <3>2, <3>3
  <2> QED
    BY <2>1, <2>2, <1>4 DEF Matched, n
<1>7. Frames'
  BY <1>4, <1>6 DEF Inv, Frames
<1>8. Paging'
  <2>1. ASSUME NEW j \in 1 .. n PROVE metas'[j].closure = Tramp <=> metas[j].closure = Tramp
    BY <1>2, <1>4, <1>5
  <2> QED
    BY <2>1, <1>4 DEF Inv, Paging, n
<1> QED
  BY <1>7, <1>8

\* An empty stack, of a script that starts.
LEMMA EmptyInv ==
  ASSUME ring' = <<>>, overflow' = <<>>, metas' = <<>>, spilled' = <<>>, depth' = 0,
         current_base' = 0
  PROVE  Frames' /\ Paging'
<1>1. /\ ring' \in Seq(Info) /\ overflow' \in Seq(Info) /\ metas' \in Seq(Meta)
      /\ spilled' \in Seq([infos : Seq(Info), metas : Seq(Meta)])
      /\ Len(ring') = 0 /\ Len(metas') = 0 /\ Len(spilled') = 0 /\ Len(ring') < RingSize
  BY EmptySeq, BoundAssumption
<1>2. ring' \o overflow' = <<>>
  BY <1>1, ConcatEmptySeq
<1>3. Matched(ring' \o overflow', metas')
  BY <1>1, <1>2 DEF Matched
<1> QED
  BY <1>1, <1>3 DEF Frames, Paging

LEMMA FreshScript ==
  ASSUME NEW n, n = Locals[Main]
  PROVE  IsSeq(Fill(n)) /\ Len(Fill(n)) > 0 /\ Main \in Chunks /\ 0 \in 0 .. End
  BY FillSeq, ChunkAssumption, BoundAssumption DEF Chunks, End

LEMMA InitInv == Init => Inv
<1> SUFFICES ASSUME Init PROVE Inv
  OBVIOUS
<1>1. /\ ring \in Seq(Info) /\ overflow \in Seq(Info) /\ metas \in Seq(Meta)
      /\ spilled \in Seq([infos : Seq(Info), metas : Seq(Meta)])
      /\ Len(ring) = 0 /\ Len(metas) = 0 /\ Len(spilled) = 0 /\ Len(ring) < RingSize
  BY EmptySeq, BoundAssumption DEF Init
<1>2. ring \o overflow = <<>>
  BY <1>1, ConcatEmptySeq DEF Init
<1>3. Matched(ring \o overflow, metas)
  BY <1>1, <1>2 DEF Matched, Init
<1>4. Frames /\ Paging
  BY <1>1, <1>3 DEF Frames, Paging, Init
<1>5. Script
  BY FreshScript DEF Script, Init, Saved
<1> QED
  BY <1>4, <1>5 DEF Inv

LEMMA CallInv ==
  ASSUME Inv, NEW c \in Closures, NEW r \in 0 .. Size[chunk] - 1 - Argc[c], Call(c, r)
  PROVE  Inv'
<1> DEFINE args == SubSeq(regs, Register(r) + 2, Register(r) + 1 + Argc[c])
           meta == [closure |-> c, into |-> Register(r), chunk |-> chunk]
<1>1. c \in Chunks /\ c # Tramp /\ chunk \in Chunks /\ current_base \in Nat
  BY ChunkAssumption DEF Chunks, Inv, Script, Frames
<1>2. Argc[c] \in Nat /\ Size[chunk] \in Nat /\ r \in Nat
  BY <1>1, SizeTypes
<1>3. Register(r) \in Nat
  BY <1>1, <1>2 DEF Register
<1>4. IsSeq(args)
  BY <1>2, <1>3, IsSeqSub
<1>5. meta \in Meta /\ meta.closure # Tramp
  BY <1>1, <1>3 DEF Meta
<1>6. ip + 1 \in 0 .. End
  BY BoundAssumption DEF Inv, Script, Call, End
<1>7. Activate(c, args, ip + 1, meta) /\ phase' = phase /\ saved' = saved
  BY DEF Call
<1> HIDE DEF args, meta
<1>8. /\ Frames' /\ Paging'
      /\ IsSeq(regs') /\ Len(regs') > 0 /\ chunk' \in Chunks /\ ip' \in 0 .. End
  BY <1>1, <1>4, <1>5, <1>6, <1>7, ActivateInv
<1> QED
  BY <1>7, <1>8 DEF Inv, Script

LEMMA ImportInv ==
  ASSUME Inv, NEW m \in Modules, Import(m)
  PROVE  Inv'
<1>1. CASE m \in imported
  <2>1. /\ ip' = ip + 1 /\ UNCHANGED <<regs, write_ptr, frameVars, chunk, phase, saved>>
        /\ ip < MaxIp
    BY <1>1 DEF Import
  <2>2. ip' \in 0 .. End
    BY <2>1, BoundAssumption DEF Inv, Script, End
  <2>3. current_base' \in Nat /\ UNCHANGED <<ring, overflow, metas, spilled, depth>>
    BY <2>1 DEF frameVars, Inv, Frames
  <2>4. Frames' /\ Paging'
    BY <2>3, FramesSame DEF Inv
  <2> QED
    BY <2>1, <2>2, <2>4 DEF Inv, Script
<1>2. CASE m \notin imported
  <2> DEFINE meta == [closure |-> None, into |-> 0, chunk |-> chunk]
  <2>1. m \in Chunks /\ chunk \in Chunks /\ IsSeq(<<>>)
    BY EmptySeq DEF Chunks, Inv, Script, IsSeq
  <2>2. meta \in Meta /\ meta.closure # Tramp
    BY <2>1 DEF Meta, None, Tramp
  <2>3. ip + 1 \in 0 .. End
    BY BoundAssumption DEF Inv, Script, Import, End
  <2>4. Activate(m, <<>>, ip + 1, meta) /\ phase' = phase /\ saved' = saved
    BY <1>2 DEF Import
  <2> HIDE DEF meta
  <2>5. /\ Frames' /\ Paging'
        /\ IsSeq(regs') /\ Len(regs') > 0 /\ chunk' \in Chunks /\ ip' \in 0 .. End
    BY <2>1, <2>2, <2>3, <2>4, ActivateInv
  <2> QED
    BY <2>4, <2>5 DEF Inv, Script
<1> QED
  BY <1>1, <1>2

LEMMA HostCallInv ==
  ASSUME Inv, NEW c \in Closures, NEW args \in Tuples(Argc[c]), HostCall(c, args)
  PROVE  Inv'
<1> DEFINE meta == [closure |-> c, into |-> 0, chunk |-> chunk]
<1>1. c \in Chunks /\ c # Tramp /\ chunk \in Chunks /\ current_base \in Nat /\ ip \in 0 .. End
  BY ChunkAssumption DEF Chunks, Inv, Script, Frames
<1>2. IsSeq(args)
  <2>1. Argc[c] \in Nat /\ args = [i \in 1 .. Argc[c] |-> args[i]]
    BY <1>1, SizeTypes DEF Tuples
  <2> QED
    BY <2>1, IsSeqFun
<1>3. meta \in Meta /\ meta.closure # Tramp
  BY <1>1 DEF Meta
<1>4. /\ Activate(c, args, ip, meta)
      /\ saved' = [ip |-> ip, base |-> current_base, chunk |-> chunk, len |-> Len(regs)]
  BY DEF HostCall
<1> HIDE DEF meta
<1>5. /\ Frames' /\ Paging'
      /\ IsSeq(regs') /\ Len(regs') > 0 /\ chunk' \in Chunks /\ ip' \in 0 .. End
  BY <1>1, <1>2, <1>3, <1>4, ActivateInv
<1>6. saved' \in Saved /\ saved'.len > 0
  BY <1>1, <1>4, IsSeqLen DEF Saved, Inv, Script
<1> QED
  BY <1>5, <1>6 DEF Inv, Script

LEMMA HostRefusedInv ==
  ASSUME Inv, NEW c \in Closures, NEW args \in Tuples(Argc[c]), HostRefused(c, args)
  PROVE  Inv'
<1>1. IsSeq(args) /\ Len(args) \in Nat
  <2>1. c \in Chunks
    BY DEF Chunks
  <2>2. Argc[c] \in Nat /\ args = [i \in 1 .. Argc[c] |-> args[i]]
    BY <2>1, SizeTypes DEF Tuples
  <2> QED
    BY <2>2, IsSeqFun
<1>2. IsSeq(regs) /\ Len(regs) > 0 /\ Len(regs) \in Nat
  BY IsSeqLen DEF Inv, Script
<1>3. IsSeq(regs \o args) /\ Len(regs \o args) = Len(regs) + Len(args)
  BY <1>1, <1>2, IsSeqConcat
<1>4. /\ regs' = regs \o args
      /\ UNCHANGED <<ring, overflow, metas, spilled, depth, current_base, chunk, ip, phase, saved>>
  BY DEF HostRefused, frameVars
<1>5. Frames' /\ Paging'
  BY <1>4, FramesSame DEF Inv, Frames
<1> QED
  BY <1>1, <1>2, <1>3, <1>4, <1>5 DEF Inv, Script

LEMMA PopsInv ==
  ASSUME Inv, NEW v, Return(v) \/ BuiltinTailCall(v)
  PROVE  Inv'
<1>1. PICK f : f \in {regs} \cup {[regs EXCEPT ![i] = v] : i \in Nat} /\ PopFrame(f)
  <2>1. metas # <<>>
    BY DEF Return, BuiltinTailCall
  <2>2. Last(metas).into + 1 \in Nat
    <3>1. metas[Len(metas)] \in Meta
      BY <2>1, EmptySeq, ElementOfSeq DEF Inv, Frames
    <3> QED
      BY <3>1 DEF Last, Meta
  <2> QED
    BY <2>2 DEF Return, BuiltinTailCall
<1>2. IsSeq(f) /\ Len(f) > 0
  <2>1. IsSeq(regs) /\ Len(regs) > 0
    BY DEF Inv, Script
  <2>2. ASSUME NEW i \in Nat, f = [regs EXCEPT ![i] = v] PROVE IsSeq(f) /\ Len(f) > 0
    BY <2>1, <2>2, ExceptIsSeq
  <2> QED
    BY <1>1, <2>1, <2>2
<1>3. /\ Frames' /\ Paging'
      /\ IsSeq(regs') /\ Len(regs') > 0 /\ chunk' \in Chunks /\ ip' \in 0 .. End
  BY <1>1, <1>2, PopInv
<1>4. phase' = phase /\ saved' = saved
  BY DEF Return, BuiltinTailCall
<1> QED
  BY <1>3, <1>4 DEF Inv, Script

LEMMA TailCallInv ==
  ASSUME Inv, NEW c \in Closures, NEW r, TailCall(c, r)
  PROVE  Inv'
<1>1. c \in Chunks /\ 0 \in 0 .. End
  BY BoundAssumption DEF Chunks, End
<1>2. IsSeq(regs') /\ Len(regs') > 0
  BY <1>1, SlidSeq DEF TailCall
<1>3. /\ metas # <<>> /\ metas' = [metas EXCEPT ![Len(metas)].closure = c]
      /\ UNCHANGED <<ring, overflow, spilled, depth, current_base, phase, saved>>
      /\ chunk' = c /\ ip' = 0
  BY DEF TailCall
<1>4. Frames' /\ Paging'
  BY <1>3, RenameInv
<1> QED
  BY <1>1, <1>2, <1>3, <1>4 DEF Inv, Script

LEMMA FailInv ==
  ASSUME Inv, Fail \/ HostDone \/ \E c \in Closures, r \in Nat : TailCallFails(c, r)
  PROVE  Inv'
<1>1. UNCHANGED <<ring, overflow, metas, spilled, depth, saved>>
  BY DEF Fail, HostDone, TailCallFails
<1>2. CASE phase = "host"
  <2>1. Restore
    BY <1>2 DEF Fail, HostDone, TailCallFails
  <2>2. /\ current_base' \in Nat
        /\ IsSeq(regs') /\ Len(regs') > 0 /\ chunk' \in Chunks /\ ip' \in 0 .. End
        /\ phase' = "halted"
    BY <1>2, <2>1, RestoreInv
  <2>3. Frames' /\ Paging'
    BY <1>1, <2>2, FramesSame DEF Inv
  <2> QED
    BY <1>1, <2>2, <2>3 DEF Inv, Script
<1>3. CASE phase # "host"
  <2>1. phase' = "failed" /\ UNCHANGED <<ip, chunk, current_base>>
    BY <1>3 DEF Fail, HostDone, TailCallFails
  <2>2. IsSeq(regs') /\ Len(regs') > 0
    <3>1. CASE regs' = regs
      BY <3>1 DEF Inv, Script
    <3>2. CASE regs' # regs
      <4>1. PICK c \in Closures, r \in Nat : regs' = Slid(r, Argc[c])
        BY <1>3, <3>2 DEF Fail, HostDone, TailCallFails
      <4>2. c \in Chunks
        BY DEF Chunks
      <4> QED
        BY <4>1, <4>2, SlidSeq
    <3> QED
      BY <3>1, <3>2
  <2>3. Frames' /\ Paging'
    BY <1>1, <2>1, FramesSame DEF Inv, Frames
  <2> QED
    BY <1>1, <2>1, <2>2, <2>3 DEF Inv, Script
<1> QED
  BY <1>2, <1>3

LEMMA OtherInv ==
  ASSUME Inv, Halt \/ \E r, v : Store(r, v)
  PROVE  Inv'
<1>1. /\ UNCHANGED <<ring, overflow, metas, spilled, depth, current_base, chunk, saved>>
      /\ ip' \in {ip, End}
      /\ phase' \in {phase, "halted"}
  BY DEF Halt, Store, frameVars
<1>2. Frames' /\ Paging'
  BY <1>1, FramesSame DEF Inv, Frames
<1>3. IsSeq(regs') /\ Len(regs') > 0
  <2>1. CASE Halt
    BY <2>1 DEF Halt, Inv, Script
  <2>2. CASE \E r, v : Store(r, v)
    <3>1. PICK i, v : regs' = [regs EXCEPT ![i] = v]
      BY <2>2 DEF Store
    <3>2. IsSeq(regs) /\ Len(regs) > 0
      BY DEF Inv, Script
    <3>3. IsSeq([regs EXCEPT ![i] = v]) /\ Len([regs EXCEPT ![i] = v]) = Len(regs)
      BY <3>2, ExceptIsSeq
    <3> QED
      BY <3>1, <3>2, <3>3
  <2> QED
    BY <2>1, <2>2
<1>4. ip' \in 0 .. End
  BY <1>1, BoundAssumption DEF Inv, Script, End
<1> QED
  BY <1>1, <1>2, <1>3, <1>4 DEF Inv, Script

LEMMA RunInv ==
  ASSUME Inv, Run
  PROVE  Inv'
<1>1. Frames' /\ Paging'
  BY EmptyInv DEF Run
<1>2. IsSeq(regs') /\ Len(regs') > 0 /\ chunk' \in Chunks /\ ip' \in 0 .. End
  BY FreshScript DEF Run
<1> QED
  BY <1>1, <1>2 DEF Run, Inv, Script

LEMMA StepInv == Inv /\ [Next]_vars => Inv'
<1> SUFFICES ASSUME Inv, [Next]_vars PROVE Inv'
  OBVIOUS
<1>0. chunk \in Chunks /\ \A c \in Closures : c \in Chunks
  BY DEF Inv, Script, Chunks
<1>1. ASSUME NEW v \in Vals, Return(v) \/ BuiltinTailCall(v) PROVE Inv'
  BY <1>1, PopsInv
<1>2. ASSUME NEW r \in 0 .. Size[chunk] - 1, NEW v \in Vals, Store(r, v) PROVE Inv'
  BY <1>2, OtherInv
<1>3. ASSUME NEW c \in Closures, NEW r \in 0 .. Size[chunk] - 1 - Argc[c],
             Call(c, r) \/ TailCall(c, r) \/ TailCallFails(c, r)
      PROVE  Inv'
  <2>1. CASE Call(c, r)
    BY <2>1, CallInv
  <2>2. CASE TailCall(c, r)
    BY <2>2, TailCallInv
  <2>3. CASE TailCallFails(c, r)
    <3>1. r \in Nat
      BY <1>0, SizeTypes
    <3> QED
      BY <2>3, <3>1, FailInv
  <2> QED
    BY <1>3, <2>1, <2>2, <2>3
<1>4. ASSUME NEW c \in Closures, NEW args \in Tuples(Argc[c]),
             HostCall(c, args) \/ HostRefused(c, args)
      PROVE  Inv'
  BY <1>4, HostCallInv, HostRefusedInv
<1>5. ASSUME NEW m \in Modules, Import(m) PROVE Inv'
  BY <1>5, ImportInv
<1>6. CASE Halt \/ Fail \/ HostDone
  BY <1>6, OtherInv, FailInv
<1>7. CASE Run
  BY <1>7, RunInv
<1>8. CASE UNCHANGED vars
  <2>1. /\ UNCHANGED <<regs, ring, overflow, metas, spilled, depth, current_base>>
        /\ UNCHANGED <<chunk, ip, phase, saved>>
    BY <1>8 DEF vars, frameVars
  <2>2. Frames' /\ Paging'
    BY <2>1, FramesSame DEF Inv, Frames
  <2> QED
    BY <2>1, <2>2 DEF Inv, Script
<1> QED
  BY <1>1, <1>2, <1>3, <1>4, <1>5, <1>6, <1>7, <1>8 DEF Next

-----------------------------------------------------------------------------
\* Inv holds throughout.
LEMMA FrameInv == Spec => []Inv
  BY InitInv, StepInv, PTL DEF Spec

\* FrameInfos and FrameMetas stay in step, in memory and in every block, through
\* any sequence of calls, returns, tail calls, imports, failures, spills and
\* restores: what build_call_stack and pop_frame rely on.
THEOREM FrameHalves == Spec => []HalvesInStep
<1>1. Inv => HalvesInStep
  <2> SUFFICES ASSUME Inv PROVE HalvesInStep
    OBVIOUS
  <2>0. DOMAIN spilled = 1 .. Len(spilled)
    BY LenProperties DEF Inv, Frames
  <2>1. ASSUME NEW is, NEW ms, Matched(is, ms) PROVE InStep(is, ms)
    BY <2>1 DEF Matched, Half, InStep
  <2>2. InStep(AllInfos, metas)
    BY <2>1 DEF Inv, Frames, AllInfos
  <2>3. ASSUME NEW b \in DOMAIN spilled PROVE InStep(spilled[b].infos, spilled[b].metas)
    BY <2>0, <2>1 DEF Inv, Frames
  <2> QED
    BY <2>2, <2>3 DEF HalvesInStep
<1> QED
  BY <1>1, FrameInv, PTL

\* A trampoline stands at the bottom exactly when a block is paged out, and there
\* is always a frame on it: pop_frame never takes a trampoline, whatever the
\* batch, the watermark and the capacity FramePager::new accepts.
THEOREM FrameTrampolines == Spec => []TrampolinesAtBottom
<1>1. Inv => TrampolinesAtBottom
  <2> SUFFICES ASSUME Inv PROVE TrampolinesAtBottom
    OBVIOUS
  <2>0. DOMAIN spilled = 1 .. Len(spilled)
    BY LenProperties DEF Inv, Frames
  <2>1. OnlyFirst(metas, spilled # <<>>)
    BY DEF Inv, Frames, Paging, OnlyFirst
  <2>2. ASSUME NEW b \in DOMAIN spilled PROVE OnlyFirst(spilled[b].metas, b > 1)
    <3>1. b \in 1 .. Len(spilled) /\ Matched(spilled[b].infos, spilled[b].metas)
      BY <2>0 DEF Inv, Frames
    <3>2. DOMAIN spilled[b].metas = 1 .. Len(spilled[b].metas)
      BY <3>1 DEF Matched
    <3> QED
      BY <3>1, <3>2 DEF Inv, Paging, OnlyFirst
  <2>3. spilled # <<>> => Len(metas) > 1
    BY DEF Inv, Frames, Paging
  <2> QED
    BY <2>1, <2>2, <2>3 DEF TrampolinesAtBottom
<1> QED
  BY <1>1, FrameInv, PTL

-----------------------------------------------------------------------------
(* The windows of the register file.                                       *)
(*                                                                         *)
(* WindowHeld is not inductive: a return makes the window of the caller the *)
(* current one, so every frame must stand above the window of its caller,  *)
(* those in blocks too.  For a frame on a trampoline the caller is the last *)
(* of the block below, or, with batches of one, of a block further down:    *)
(* low[b] is the base that block b stands on, and a trampoline hands its    *)
(* own down.  Frames that return to the end of the script (those the host   *)
(* calls) have no such caller, and none of them is in a script (ended).     *)

\* The base under the frame that follows the first i.
After(low, is, ms, i) == IF i = 0 \/ ms[i].closure = Tramp THEN low ELSE is[i].base

Above(ended, low, info, meta) ==
    \/ meta.closure = Tramp
    \/ ended /\ info.ret = End
    \/ info.ret # End /\ low + Size[meta.chunk] <= info.base

Linked(ended, low, is, ms) ==
    \A i \in 1 .. Len(ms) : Above(ended, After(low, is, ms, i - 1), is[i], ms[i])

Passes(ended, low, above, block) ==
    /\ Linked(ended, low, block.infos, block.metas)
    /\ above = After(low, block.infos, block.metas, Len(block.metas))

Stacked(ended, is, ms, sp) ==
    \E low \in [1 .. Len(sp) + 1 -> Nat] :
        /\ low[1] = 0
        /\ \A b \in 1 .. Len(sp) : Passes(ended, low[b], low[b + 1], sp[b])
        /\ Linked(ended, low[Len(sp) + 1], is, ms)

Ended == phase # "run"

Topmost == current_base = IF AllInfos = <<>> THEN 0 ELSE AllInfos[Len(AllInfos)].base

Windows ==
    /\ Stacked(Ended, AllInfos, metas, spilled)
    /\ Running => Topmost
    /\ phase = "run" => ip # End
    /\ phase = "halted" => ip = End
    /\ phase = "host" => saved.ip = End
    /\ phase \in {"run", "halted", "failed", "host"} /\ write_ptr \in Nat
    /\ WindowHeld

\* Cutting the frames in two, the upper part standing on a trampoline.
LEMMA LinkedCut ==
  ASSUME NEW ended, NEW low \in Nat, NEW is, NEW ms, Matched(is, ms), Linked(ended, low, is, ms),
         NEW k \in 0 .. Len(ms)
  PROVE  /\ Linked(ended, low, SubSeq(is, 1, k), SubSeq(ms, 1, k))
         /\ After(low, is, ms, k) \in Nat
         /\ k > 0 => After(low, is, ms, k) = After(low, SubSeq(is, 1, k), SubSeq(ms, 1, k), k)
         /\ k > 0 /\ (\A i \in 2 .. Len(ms) : ms[i].closure # Tramp) =>
               Linked(ended, After(low, is, ms, k),
                      <<TrampInfo>> \o SubSeq(is, k + 1, Len(ms)),
                      <<TrampMeta>> \o SubSeq(ms, k + 1, Len(ms)))
<1> DEFINE n == Len(ms)
           is1 == SubSeq(is, 1, k)     ms1 == SubSeq(ms, 1, k)
           is2 == SubSeq(is, k + 1, n) ms2 == SubSeq(ms, k + 1, n)
           is3 == <<TrampInfo>> \o is2 ms3 == <<TrampMeta>> \o ms2
<1>1. /\ is \in Seq(Info) /\ ms \in Seq(Meta) /\ Len(is) = n /\ n \in Nat /\ k \in Nat /\ k <= n
      /\ \A i \in 1 .. n : is[i] \in Info /\ ms[i] \in Meta
  BY DEF Matched
<1> HIDE DEF n
<1>2. /\ Len(is1) = k /\ Len(ms1) = k
      /\ \A i \in 1 .. k : is1[i] = is[i] /\ ms1[i] = ms[i]
  <2>1. 1 \in Int /\ k \in Int /\ \A i \in 1 .. k : is[i] \in Info /\ ms[i] \in Meta
    BY <1>1
  <2>2. /\ Len(SubSeq(is, 1, k)) = IF 1 <= k THEN k - 1 + 1 ELSE 0
        /\ \A i \in 1 .. k - 1 + 1 : SubSeq(is, 1, k)[i] = is[1 + i - 1]
    BY <2>1, SubSeqProperties
  <2>3. /\ Len(SubSeq(ms, 1, k)) = IF 1 <= k THEN k - 1 + 1 ELSE 0
        /\ \A i \in 1 .. k - 1 + 1 : SubSeq(ms, 1, k)[i] = ms[1 + i - 1]
    BY <2>1, SubSeqProperties
  <2> QED BY <2>2, <2>3, <1>1
<1>3. /\ is2 \in Seq(Info) /\ ms2 \in Seq(Meta) /\ Len(is2) = n - k /\ Len(ms2) = n - k
      /\ \A i \in 1 .. n - k : is2[i] = is[k + i] /\ ms2[i] = ms[k + i]
  <2>1. k + 1 \in Int /\ n \in Int /\ \A i \in k + 1 .. n : is[i] \in Info /\ ms[i] \in Meta
    BY <1>1
  <2>2. /\ SubSeq(is, k + 1, n) \in Seq(Info)
        /\ Len(SubSeq(is, k + 1, n)) = IF k + 1 <= n THEN n - (k + 1) + 1 ELSE 0
        /\ \A i \in 1 .. n - (k + 1) + 1 : SubSeq(is, k + 1, n)[i] = is[k + 1 + i - 1]
    BY <2>1, SubSeqProperties
  <2>3. /\ SubSeq(ms, k + 1, n) \in Seq(Meta)
        /\ Len(SubSeq(ms, k + 1, n)) = IF k + 1 <= n THEN n - (k + 1) + 1 ELSE 0
        /\ \A i \in 1 .. n - (k + 1) + 1 : SubSeq(ms, k + 1, n)[i] = ms[k + 1 + i - 1]
    BY <2>1, SubSeqProperties
  <2> QED BY <2>2, <2>3, <1>1
<1> HIDE DEF is1, ms1, is2, ms2
<1>4. /\ Len(ms3) = n - k + 1 /\ is3[1] = TrampInfo /\ ms3[1] = TrampMeta
      /\ \A i \in 2 .. n - k + 1 : is3[i] = is[k + i - 1] /\ ms3[i] = ms[k + i - 1]
  <2>1. <<TrampInfo>> \in Seq(Info) /\ <<TrampMeta>> \in Seq(Meta)
    BY TrampTypes
  <2>2. \A i \in 1 .. 1 + Len(is2) : is3[i] = IF i <= 1 THEN <<TrampInfo>>[i] ELSE is2[i - 1]
    BY <2>1, <1>3, ConcatProperties
  <2>3. /\ Len(ms3) = 1 + Len(ms2)
        /\ \A i \in 1 .. 1 + Len(ms2) : ms3[i] = IF i <= 1 THEN <<TrampMeta>>[i] ELSE ms2[i - 1]
    BY <2>1, <1>3, ConcatProperties
  <2> HIDE DEF is3, ms3
  <2>4. ASSUME NEW i \in 2 .. n - k + 1 PROVE is3[i] = is[k + i - 1] /\ ms3[i] = ms[k + i - 1]
    <3>1. i \in 1 .. 1 + Len(is2) /\ i \in 1 .. 1 + Len(ms2) /\ ~(i <= 1) /\ i - 1 \in 1 .. n - k
          /\ k + (i - 1) = k + i - 1
      BY <1>1, <1>3
    <3> QED BY <3>1, <2>2, <2>3, <1>3
  <2>5. 1 \in 1 .. 1 + Len(is2) /\ 1 \in 1 .. 1 + Len(ms2)
    BY <1>1, <1>3
  <2> QED BY <2>2, <2>3, <2>4, <2>5, <1>1, <1>3
<1> HIDE DEF is3, ms3
<1>5. \A i \in 1 .. n : Above(ended, After(low, is, ms, i - 1), is[i], ms[i])
  BY DEF Linked, n
<1>6. Linked(ended, low, is1, ms1)
  <2>1. ASSUME NEW i \in 1 .. k PROVE Above(ended, After(low, is1, ms1, i - 1), is1[i], ms1[i])
    <3>1. i \in 1 .. n /\ (i - 1 = 0 \/ i - 1 \in 1 .. k)
      BY <1>1
    <3>2. After(low, is1, ms1, i - 1) = After(low, is, ms, i - 1)
      BY <3>1, <1>2 DEF After
    <3> QED BY <3>1, <3>2, <1>2, <1>5
  <2> QED BY <2>1, <1>2 DEF Linked
<1>7. After(low, is, ms, k) \in Nat
  <2>1. CASE k = 0
    BY <2>1 DEF After
  <2>2. CASE k # 0
    <3>1. is[k] \in Info
      BY <2>2, <1>1
    <3> QED BY <3>1 DEF After, Info
  <2> QED BY <2>1, <2>2
<1>8. k > 0 => After(low, is, ms, k) = After(low, is1, ms1, k)
  BY <1>1, <1>2 DEF After
<1>9. ASSUME k > 0, \A i \in 2 .. n : ms[i].closure # Tramp
      PROVE  Linked(ended, After(low, is, ms, k), is3, ms3)
  <2> DEFINE mid == After(low, is, ms, k)
  <2>1. ASSUME NEW i \in 1 .. n - k + 1 PROVE Above(ended, After(mid, is3, ms3, i - 1), is3[i], ms3[i])
    <3>1. CASE i = 1
      BY <3>1, <1>4 DEF Above, TrampMeta
    <3>2. CASE i = 2
      <4>1. After(mid, is3, ms3, i - 1) = mid
        BY <3>2, <1>4 DEF After, TrampMeta
      <4>2. k + i - 1 = k + 1 /\ k + 1 - 1 = k /\ k + 1 \in 1 .. n /\ i \in 2 .. n - k + 1
        BY <3>2, <1>1
      <4>3. Above(ended, After(low, is, ms, k + 1 - 1), is[k + 1], ms[k + 1])
        BY <4>2, <1>5
      <4>4. Above(ended, mid, is[k + 1], ms[k + 1])
        BY <4>2, <4>3
      <4> HIDE DEF mid
      <4> QED BY <4>1, <4>2, <4>4, <1>4
    <3>3. CASE i > 2
      <4> DEFINE j == k + i - 1
      <4>1. j \in 1 .. n /\ i \in 2 .. n - k + 1 /\ i - 1 \in 2 .. n - k + 1 /\ k + (i - 1) - 1 = j - 1
            /\ j - 1 # 0 /\ i - 1 # 0
        BY <3>3, <1>1
      <4> HIDE DEF j
      <4>2. is3[i - 1] = is[j - 1] /\ ms3[i - 1] = ms[j - 1] /\ is3[i] = is[j] /\ ms3[i] = ms[j]
        <5>1. is3[i - 1] = is[k + (i - 1) - 1] /\ ms3[i - 1] = ms[k + (i - 1) - 1]
          BY <4>1, <1>4
        <5>2. is3[i] = is[j] /\ ms3[i] = ms[j]
          BY <4>1, <1>4 DEF j
        <5> QED BY <5>1, <5>2, <4>1
      <4>3. ms[j - 1].closure # Tramp
        <5>1. j - 1 \in 2 .. n
          BY <4>1, <3>3, <1>1, <1>9 DEF j
        <5> QED BY <5>1, <1>9
      <4> QED BY <4>1, <4>2, <4>3, <1>5 DEF After
    <3> QED BY <3>1, <3>2, <3>3
  <2> QED BY <2>1, <1>4 DEF Linked
<1> QED
  BY <1>6, <1>7, <1>8, <1>9 DEF is1, ms1, is2, ms2, is3, ms3, n
\* Putting the frames of a block in the place of a trampoline.
LEMMA LinkedJoin ==
  ASSUME NEW ended, NEW low \in Nat, NEW is, NEW ms, Matched(is, ms), Linked(ended, low, is, ms),
         NEW js, NEW ns, Matched(js, ns), Len(ns) > 0,
         \A i \in 1 .. Len(ns) : ns[i].closure = Tramp <=> i = 1,
         Linked(ended, After(low, is, ms, Len(ms)), js, ns)
  PROVE  Linked(ended, low, is \o Tail(js), ms \o Tail(ns))
<1> DEFINE n == Len(ms)  m == Len(ns)  all == is \o Tail(js)  metal == ms \o Tail(ns)
           mid == After(low, is, ms, n)
<1>1. /\ is \in Seq(Info) /\ ms \in Seq(Meta) /\ Len(is) = n /\ n \in Nat
      /\ js \in Seq(Info) /\ ns \in Seq(Meta) /\ Len(js) = m /\ m \in Nat /\ m > 0
  BY DEF Matched
<1>2. /\ Tail(js) \in Seq(Info) /\ Len(Tail(js)) = m - 1
      /\ Tail(ns) \in Seq(Meta) /\ Len(Tail(ns)) = m - 1
      /\ \A i \in 1 .. m - 1 : Tail(js)[i] = js[i + 1] /\ Tail(ns)[i] = ns[i + 1]
  <2>1. js # <<>> /\ ns # <<>>
    BY <1>1, EmptySeq
  <2> QED BY <1>1, <2>1, HeadTailProperties
<1> HIDE DEF m, n
<1>3. /\ Len(all) = n + m - 1
      /\ \A i \in 1 .. n + (m - 1) : all[i] = IF i <= n THEN is[i] ELSE Tail(js)[i - n]
  <2>1. /\ Len(all) = Len(is) + Len(Tail(js))
        /\ \A i \in 1 .. Len(is) + Len(Tail(js)) :
             all[i] = IF i <= Len(is) THEN is[i] ELSE Tail(js)[i - Len(is)]
    BY <1>1, <1>2, ConcatProperties
  <2> HIDE DEF all
  <2>2. Len(is) = n /\ Len(Tail(js)) = m - 1
    BY <1>1, <1>2
  <2> QED BY <2>1, <2>2, <1>1
<1>4. /\ Len(metal) = n + m - 1
      /\ \A i \in 1 .. n + (m - 1) : metal[i] = IF i <= n THEN ms[i] ELSE Tail(ns)[i - n]
  <2>1. /\ Len(metal) = Len(ms) + Len(Tail(ns))
        /\ \A i \in 1 .. Len(ms) + Len(Tail(ns)) :
             metal[i] = IF i <= Len(ms) THEN ms[i] ELSE Tail(ns)[i - Len(ms)]
    BY <1>1, <1>2, ConcatProperties
  <2> HIDE DEF metal
  <2>2. Len(ms) = n /\ Len(Tail(ns)) = m - 1
    BY <1>1, <1>2 DEF n
  <2> QED BY <2>1, <2>2, <1>1
<1> HIDE DEF all, metal
<1>5. \A i \in 1 .. n : all[i] = is[i] /\ metal[i] = ms[i]
  BY <1>1, <1>3, <1>4
<1>6. ASSUME NEW i \in n + 1 .. n + m - 1
      PROVE  all[i] = js[i - n + 1] /\ metal[i] = ns[i - n + 1]
  <2>1. i \in 1 .. n + (m - 1) /\ ~(i <= n) /\ i - n \in 1 .. m - 1
    BY <1>1
  <2> QED BY <2>1, <1>2, <1>3, <1>4
<1>7. ASSUME NEW i \in 1 .. n + m - 1 PROVE Above(ended, After(low, all, metal, i - 1), all[i], metal[i])
  <2>1. CASE i <= n
    <3>1. i \in 1 .. n /\ (i - 1 = 0 \/ i - 1 \in 1 .. n)
      BY <2>1, <1>1
    <3>2. After(low, all, metal, i - 1) = After(low, is, ms, i - 1)
      BY <3>1, <1>5 DEF After
    <3>3. Above(ended, After(low, is, ms, i - 1), is[i], ms[i])
      BY <3>1 DEF Linked, n
    <3> QED BY <3>1, <3>2, <3>3, <1>5
  <2>2. CASE i = n + 1
    <3>1. After(low, all, metal, i - 1) = mid
      <4>1. i - 1 = n /\ (n = 0 \/ n \in 1 .. n)
        BY <2>2, <1>1
      <4> QED BY <4>1, <1>5 DEF After
    <3>2. i - n + 1 = 2 /\ 2 \in 1 .. m /\ 1 \in 1 .. m /\ i \in n + 1 .. n + m - 1
      BY <2>2, <1>1
    <3>3. After(mid, js, ns, 2 - 1) = mid
      BY <3>2 DEF After, m
    <3>4. Above(ended, After(mid, js, ns, 2 - 1), js[2], ns[2])
      BY <3>2 DEF Linked, m, n
    <3> HIDE DEF mid
    <3> QED BY <3>1, <3>2, <3>3, <3>4, <1>6
  <2>3. CASE i > n + 1
    <3> DEFINE j == i - n + 1
    <3>1. /\ i \in n + 1 .. n + m - 1 /\ i - 1 \in n + 1 .. n + m - 1 /\ (i - 1) - n + 1 = j - 1
          /\ j \in 1 .. m /\ j - 1 \in 1 .. m /\ j - 1 # 1 /\ i - 1 # 0 /\ j - 1 # 0
      BY <2>3, <1>1
    <3>2. all[i] = js[j] /\ metal[i] = ns[j] /\ all[i - 1] = js[j - 1] /\ metal[i - 1] = ns[j - 1]
      <4>1. all[i - 1] = js[(i - 1) - n + 1] /\ metal[i - 1] = ns[(i - 1) - n + 1]
        BY <3>1, <1>6
      <4> QED BY <4>1, <3>1, <1>6
    <3> HIDE DEF j, mid
    <3>3. ns[j - 1].closure # Tramp
      BY <3>1 DEF m
    <3>4. Above(ended, After(mid, js, ns, j - 1), js[j], ns[j])
      BY <3>1 DEF Linked, m, n, mid
    <3> QED BY <3>1, <3>2, <3>3, <3>4 DEF After
  <2> QED BY <2>1, <2>2, <2>3, <1>1
<1> QED
  BY <1>4, <1>7 DEF Linked, all, metal

\* One more frame on top.
LEMMA LinkedAppend ==
  ASSUME NEW ended, NEW low \in Nat, NEW is, NEW ms, Matched(is, ms), Linked(ended, low, is, ms),
         NEW info \in Info, NEW meta \in Meta, Above(ended, After(low, is, ms, Len(ms)), info, meta)
  PROVE  Linked(ended, low, Append(is, info), Append(ms, meta))
<1> DEFINE n == Len(ms)  js == Append(is, info)  ns == Append(ms, meta)
<1>1. /\ is \in Seq(Info) /\ ms \in Seq(Meta) /\ Len(is) = n /\ n \in Nat
  BY DEF Matched
<1> HIDE DEF n
<1>2. /\ Len(ns) = n + 1
      /\ \A i \in 1 .. n : js[i] = is[i] /\ ns[i] = ms[i]
      /\ js[n + 1] = info /\ ns[n + 1] = meta
  BY <1>1, AppendProperties DEF n
<1> HIDE DEF js, ns
<1>3. ASSUME NEW i \in 1 .. n + 1 PROVE Above(ended, After(low, js, ns, i - 1), js[i], ns[i])
  <2>1. i - 1 = 0 \/ i - 1 \in 1 .. n
    BY <1>1
  <2>2. After(low, js, ns, i - 1) = After(low, is, ms, i - 1)
    BY <2>1, <1>2 DEF After
  <2>3. CASE i \in 1 .. n
    BY <2>2, <2>3, <1>2 DEF Linked, n
  <2>4. CASE i = n + 1
    <3>1. i - 1 = Len(ms)
      BY <2>4, <1>1 DEF n
    <3>2. After(low, js, ns, i - 1) = After(low, is, ms, Len(ms))
      BY <2>2, <3>1
    <3>3. Above(ended, After(low, js, ns, i - 1), info, meta)
      BY <3>2
    <3> QED BY <3>3, <2>4, <1>2
  <2> QED BY <2>3, <2>4, <1>1
<1> QED
  BY <1>2, <1>3 DEF Linked, js, ns

\* Spilling: the batch becomes a block that stands on what the frames stood on.
LEMMA StackedSpill ==
  ASSUME Frames, Paging, NEW ended, Stacked(ended, AllInfos, metas, spilled)
  PROVE  Stacked(ended, Paged.ring \o Paged.overflow, Paged.metas, Paged.spilled)
<1>1. CASE ~Spills
  BY <1>1 DEF Paged, AllInfos
<1>2. CASE Spills
  <2> DEFINE B == Batch
             n == Len(metas)
             block == [infos |-> SubSeq(AllInfos, 1, B), metas |-> SubSeq(metas, 1, B)]
             sp == Append(spilled, block)
             k == Len(spilled)
             is == <<TrampInfo>> \o SubSeq(AllInfos, B + 1, n)
             ms == <<TrampMeta>> \o SubSeq(metas, B + 1, n)
  <2>1. B \in 1 .. n - 1 /\ n \in Nat
    BY <1>2, BatchSize DEF Spills
  <2>2. Matched(AllInfos, metas) /\ Len(AllInfos) = n
    BY DEF Frames, AllInfos, Matched
  <2>3. /\ Paged.metas = ms /\ Paged.spilled = sp
        /\ Paged.ring \o Paged.overflow = is
    <3>1. Paged = [ring |-> <<>>, overflow |-> is, metas |-> ms, spilled |-> sp]
      BY <1>2, <2>2 DEF Paged
    <3>2. is \in Seq(Info)
      <4>1. B + 1 \in Nat \ {0} /\ n \in 0 .. Len(metas)
        BY <2>1
      <4>2. Matched(SubSeq(AllInfos, B + 1, n), SubSeq(metas, B + 1, n))
        BY <4>1, <2>2, MatchedSub
      <4>3. <<TrampInfo>> \in Seq(Info) /\ SubSeq(AllInfos, B + 1, n) \in Seq(Info)
        BY <4>2, TrampTypes DEF Matched
      <4> HIDE DEF B, n
      <4> QED BY <4>3, ConcatProperties
    <3> HIDE DEF is, ms, sp
    <3> QED BY <3>1, <3>2, ConcatEmptySeq
  <2>4. PICK low \in [1 .. k + 1 -> Nat] :
           /\ low[1] = 0
           /\ \A b \in 1 .. k : Passes(ended, low[b], low[b + 1], spilled[b])
           /\ Linked(ended, low[k + 1], AllInfos, metas)
    BY DEF Stacked
  <2>5. /\ Len(sp) = k + 1 /\ k \in Nat
        /\ \A b \in 1 .. k : sp[b] = spilled[b]
        /\ sp[k + 1] = block
    <3>1. block \in [infos : Seq(Info), metas : Seq(Meta)]
      <4>1. 1 \in Nat \ {0} /\ B \in 0 .. Len(metas)
        BY <2>1
      <4> HIDE DEF B
      <4> QED BY <4>1, <2>2, MatchedSub DEF Matched
    <3>2. spilled \in Seq([infos : Seq(Info), metas : Seq(Meta)])
      BY DEF Frames
    <3> DEFINE Block == [infos : Seq(Info), metas : Seq(Meta)]
    <3> HIDE DEF block, Block
    <3>3. block \in Block /\ spilled \in Seq(Block)
      BY <3>1, <3>2 DEF Block
    <3> QED BY <3>3, AppendProperties
  <2> DEFINE mid == After(low[k + 1], AllInfos, metas, B)
             low2 == [b \in 1 .. k + 2 |-> IF b <= k + 1 THEN low[b] ELSE mid]
  <2>6. low[k + 1] \in Nat
    BY <2>5
  <2>7. /\ Linked(ended, low[k + 1], block.infos, block.metas)
        /\ mid \in Nat
        /\ mid = After(low[k + 1], block.infos, block.metas, B)
        /\ Linked(ended, mid, is, ms)
    <3>1. B \in 0 .. Len(metas) /\ B > 0
      BY <2>1
    <3>2. \A i \in 2 .. Len(metas) : metas[i].closure # Tramp
      BY <2>1 DEF Paging
    <3> HIDE DEF B
    <3> QED BY <3>1, <3>2, <2>2, <2>4, <2>6, LinkedCut
  <2>8. Len(block.metas) = B
    <3>1. 1 \in Nat \ {0} /\ B \in 0 .. Len(metas)
      BY <2>1
    <3>2. Len(SubSeq(metas, 1, B)) = IF 1 <= B THEN B - 1 + 1 ELSE 0
      BY <2>2, <3>1, MatchedSub
    <3> QED BY <3>2, <2>1
  <2>9. Passes(ended, low[k + 1], mid, block)
    BY <2>7, <2>8 DEF Passes
  <2> HIDE DEF mid, is, ms, sp, block, k, B, n
  <2>10. low2 \in [1 .. k + 2 -> Nat] /\ low2[1] = 0 /\ low2[k + 2] = mid
    BY <2>4, <2>5, <2>7
  <2>11. ASSUME NEW b \in 1 .. k + 1 PROVE Passes(ended, low2[b], low2[b + 1], sp[b])
    <3>1. CASE b \in 1 .. k
      <4>1. low2[b] = low[b] /\ low2[b + 1] = low[b + 1]
        BY <3>1, <2>5
      <4> QED BY <4>1, <3>1, <2>4, <2>5
    <3>2. CASE b = k + 1
      <4>1. low2[b] = low[k + 1] /\ low2[b + 1] = mid
        BY <3>2, <2>5
      <4> QED BY <4>1, <3>2, <2>9, <2>5
    <3> QED BY <3>1, <3>2, <2>5
  <2>12. Len(sp) + 1 = k + 2
    BY <2>5
  <2> HIDE DEF low2
  <2>13. Stacked(ended, is, ms, sp)
    BY <2>5, <2>7, <2>10, <2>11, <2>12 DEF Stacked
  <2> QED BY <2>3, <2>13
<1> QED BY <1>1, <1>2

\* Spilling leaves the frame on top alone.
LEMMA PagedTop ==
  ASSUME Frames, Paging
  PROVE  LET is == Paged.ring \o Paged.overflow
         IN  /\ metas = <<>> => Paged.metas = <<>> /\ Paged.spilled = <<>> /\ AllInfos = <<>>
             /\ metas # <<>> => /\ Len(is) > 0 /\ AllInfos # <<>>
                                /\ is[Len(is)] = AllInfos[Len(AllInfos)]
<1> DEFINE n == Len(metas)
<1>1. /\ Matched(AllInfos, metas) /\ Len(AllInfos) = n /\ n \in Nat /\ AllInfos \in Seq(Info)
      /\ metas = <<>> <=> n = 0
  BY EmptySeq DEF Frames, AllInfos, Matched
<1>2. CASE ~Spills
  <2>1. Paged = [ring |-> ring, overflow |-> overflow, metas |-> metas, spilled |-> spilled]
    BY <1>2 DEF Paged
  <2>2. metas = <<>> => spilled = <<>>
    BY <1>1 DEF Paging
  <2> QED BY <1>1, <2>1, <2>2, EmptySeq DEF AllInfos
<1>3. CASE Spills
  <2> DEFINE B == Batch
             is2 == SubSeq(AllInfos, B + 1, Len(AllInfos))
             is == <<TrampInfo>> \o is2
  <2>1. B \in 1 .. n - 1 /\ n \in Nat
    BY <1>3, BatchSize DEF Spills
  <2>2. /\ is2 \in Seq(Info) /\ Len(is2) = n - B /\ is2[n - B] = AllInfos[n]
    <3>1. B + 1 \in Int /\ n \in Int /\ \A i \in B + 1 .. n : AllInfos[i] \in Info
      BY <1>1, <2>1, ElementOfSeq
    <3> HIDE DEF B, n
    <3>2. /\ SubSeq(AllInfos, B + 1, n) \in Seq(Info)
          /\ Len(SubSeq(AllInfos, B + 1, n)) = IF B + 1 <= n THEN n - (B + 1) + 1 ELSE 0
          /\ \A i \in 1 .. n - (B + 1) + 1 : SubSeq(AllInfos, B + 1, n)[i] = AllInfos[B + 1 + i - 1]
      BY <3>1, SubSeqProperties
    <3>3. n - B \in 1 .. n - (B + 1) + 1 /\ B + 1 + (n - B) - 1 = n /\ n - (B + 1) + 1 = n - B
          /\ B + 1 <= n
      BY <2>1
    <3>4. SubSeq(AllInfos, B + 1, n)[n - B] = AllInfos[B + 1 + (n - B) - 1]
      BY <3>2, <3>3
    <3> QED BY <3>2, <3>3, <3>4, <1>1
  <2> HIDE DEF is2
  <2>3. is \in Seq(Info) /\ Len(is) = n - B + 1 /\ is[n - B + 1] = AllInfos[n]
    <3>1. <<TrampInfo>> \in Seq(Info) /\ Len(<<TrampInfo>>) = 1
      BY TrampTypes
    <3> HIDE DEF B, n
    <3>2. /\ is \in Seq(Info) /\ Len(is) = 1 + Len(is2)
          /\ \A i \in 1 .. 1 + Len(is2) : is[i] = IF i <= 1 THEN <<TrampInfo>>[i] ELSE is2[i - 1]
      BY <3>1, <2>2, ConcatProperties
    <3> HIDE DEF is
    <3> DEFINE j == n - B + 1
    <3>3. j \in 1 .. 1 + Len(is2) /\ ~(j <= 1) /\ j - 1 = n - B /\ 1 + Len(is2) = j
      BY <2>1, <2>2
    <3> HIDE DEF j
    <3>4. is[j] = is2[j - 1]
      BY <3>2, <3>3
    <3>5. is[j] = AllInfos[n]
      BY <3>3, <3>4, <2>2
    <3> QED BY <3>2, <3>3, <3>5 DEF j
  <2>4. Paged.ring \o Paged.overflow = is
    <3>1. Paged.ring = <<>> /\ Paged.overflow = is
      BY <1>3 DEF Paged, is2
    <3> QED BY <3>1, <2>3, ConcatEmptySeq
  <2> HIDE DEF is, B
  <2>5. n - B + 1 > 0 /\ n # 0
    BY <2>1
  <2>6. AllInfos # <<>>
    BY <1>1, <2>5
  <2> HIDE DEF n
  <2> QED BY <1>1, <2>3, <2>4, <2>5, <2>6
<1> QED BY <1>2, <1>3

\* Pushing a frame above the window of its caller.
LEMMA StackedPush ==
  ASSUME Frames, Paging, NEW ended, Stacked(ended, AllInfos, metas, spilled),
         NEW info \in Info, NEW meta \in Meta, info.base > 0, meta.closure # Tramp,
         \/ ended /\ info.ret = End
         \/ info.ret # End /\ Topmost /\ current_base + Size[meta.chunk] <= info.base,
         PushFrame(info, meta)
  PROVE  Stacked(ended, AllInfos', metas', spilled')
<1> DEFINE p == Paged  is == p.ring \o p.overflow  k == Len(p.spilled)  n == Len(p.metas)
<1>1. /\ Stacked(ended, is, p.metas, p.spilled) /\ Ready(p)
  BY StackedSpill, PagedReady
<1>2. /\ AllInfos' = Append(is, info) /\ metas' = Append(p.metas, meta) /\ spilled' = p.spilled
  BY PushKeeps DEF PushFrame, AllInfos
<1>3. /\ Matched(is, p.metas) /\ k \in Nat /\ n \in Nat /\ Len(is) = n
      /\ p.metas = <<>> <=> n = 0 /\ k = 0
      /\ \A i \in 1 .. n : p.metas[i].closure = Tramp <=> i = 1 /\ p.spilled # <<>>
      /\ p.spilled # <<>> => n >= 2
  <2>1. /\ Matched(is, p.metas) /\ p.spilled \in Seq([infos : Seq(Info), metas : Seq(Meta)])
        /\ \A i \in 1 .. n : p.metas[i].closure = Tramp <=> i = 1 /\ p.spilled # <<>>
        /\ p.spilled # <<>> => n >= 2
    BY <1>1 DEF Ready
  <2>2. k \in Nat /\ (p.spilled = <<>> <=> k = 0)
    BY <2>1, EmptySeq
  <2>3. n \in Nat /\ (p.metas = <<>> <=> n = 0) /\ Len(is) = n
    BY <2>1, EmptySeq DEF Matched
  <2>4. n = 0 => k = 0
    BY <2>1, <2>2, <2>3
  <2> HIDE DEF n, k
  <2> QED BY <2>1, <2>2, <2>3, <2>4 DEF n
<1>4. PICK low \in [1 .. k + 1 -> Nat] :
         /\ low[1] = 0
         /\ \A b \in 1 .. k : Passes(ended, low[b], low[b + 1], p.spilled[b])
         /\ Linked(ended, low[k + 1], is, p.metas)
  BY <1>1 DEF Stacked
<1>5. low[k + 1] \in Nat
  BY <1>3
<1>6. Topmost => After(low[k + 1], is, p.metas, n) = current_base
  <2>1. CASE n = 0
    <3>1. metas = <<>>
      <4>1. metas # <<>> => Len(is) > 0
        BY PagedTop
      <4> HIDE DEF is
      <4> QED BY <4>1, <2>1, <1>3
    <3>2. AllInfos = <<>> /\ k + 1 = 1
      BY <3>1, <2>1, <1>3, PagedTop
    <3> QED BY <3>2, <2>1, <1>4 DEF After, Topmost
  <2>2. CASE n # 0
    <3>1. p.metas[n].closure # Tramp
      <4>1. n \in 1 .. n /\ (p.spilled # <<>> => n # 1)
        BY <2>2, <1>3
      <4>2. \A i \in 1 .. n : p.metas[i].closure = Tramp <=> i = 1 /\ p.spilled # <<>>
        BY <1>3
      <4> HIDE DEF n, p
      <4> QED BY <4>1, <4>2
    <3>2. metas # <<>>
      <4>1. p.metas # <<>>
        BY <2>2, <1>3
      <4> QED BY <4>1, PagedTop
    <3>3. AllInfos # <<>> /\ is[n] = AllInfos[Len(AllInfos)]
      BY <3>2, <1>3, PagedTop
    <3> HIDE DEF p, is, n
    <3> QED BY <2>2, <3>1, <3>3 DEF After, Topmost
  <2> QED BY <2>1, <2>2
<1>7. Above(ended, After(low[k + 1], is, p.metas, n), info, meta)
  BY <1>6 DEF Above
<1> HIDE DEF p, is, k
<1>8. Linked(ended, low[k + 1], Append(is, info), Append(p.metas, meta))
  BY <1>3, <1>4, <1>5, <1>7, LinkedAppend DEF n
<1> QED BY <1>2, <1>4, <1>8 DEF Stacked, k

\* What a prefix holds.
LEMMA MatchedTop ==
  ASSUME NEW is, NEW ms, Matched(is, ms), NEW k \in 0 .. Len(ms), NEW i \in 1 .. k
  PROVE  SubSeq(is, 1, k)[i] = is[i]
<1>1. /\ 1 \in Int /\ k \in Int /\ \A j \in 1 .. k : is[j] \in Info
  BY DEF Matched
<1>2. \A j \in 1 .. k - 1 + 1 : SubSeq(is, 1, k)[j] = is[1 + j - 1]
  BY <1>1, SubSeqProperties
<1> QED BY <1>1, <1>2

\* Popping: the frames below are as they were, and so is what they stand on.
LEMMA StackedPop ==
  ASSUME Frames, Paging, NEW ended, Stacked(ended, AllInfos, metas, spilled), NEW f, PopFrame(f)
  PROVE  /\ Stacked(ended, AllInfos', metas', spilled')
         /\ LET info == TopInfo(ring, overflow)  meta == Last(metas)
            IN  \/ ended /\ info.ret = End
                \/ info.ret # End /\ Topmost' /\ current_base' + Size[meta.chunk] <= info.base
<1> DEFINE n == Len(metas)  k == Len(spilled)  all == AllInfos
           is == SubSeq(all, 1, n - 1)  ms == SubSeq(metas, 1, n - 1)
<1>1. /\ Matched(all, metas) /\ Len(all) = n /\ n \in Nat \ {0}
      /\ \A i \in 1 .. n : metas[i].closure = Tramp <=> i = 1 /\ spilled # <<>>
      /\ spilled # <<>> => n >= 3
      /\ k \in Nat /\ (spilled = <<>> <=> k = 0)
  <2>1. n \in Nat \ {0}
    BY PopKeeps
  <2> QED BY <2>1, EmptySeq DEF Frames, Paging, AllInfos, Matched
<1>2. /\ TopInfo(ring, overflow) = all[n] /\ Last(metas) = metas[n]
      /\ current_base' = (IF n = 1 THEN 0 ELSE all[n - 1].base)
      /\ spilled = <<>> => AllInfos' = is /\ metas' = ms /\ spilled' = spilled
      /\ spilled # <<>> => /\ spilled' = Front(spilled)
                           /\ AllInfos' = Last(spilled).infos \o Tail(is)
                           /\ metas' = Last(spilled).metas \o Tail(ms)
  <2>1. Last(metas) = metas[n]
    BY DEF Last
  <2> HIDE DEF n
  <2>2. AllInfos' = ring' \o overflow'
    BY DEF AllInfos
  <2> QED BY <2>1, <2>2, PopKeeps DEF n
<1>3. PICK low \in [1 .. k + 1 -> Nat] :
         /\ low[1] = 0
         /\ \A b \in 1 .. k : Passes(ended, low[b], low[b + 1], spilled[b])
         /\ Linked(ended, low[k + 1], all, metas)
  BY DEF Stacked
<1>4. low[k + 1] \in Nat
  BY <1>1
<1> HIDE DEF n, k, all
<1>5. Linked(ended, low[k + 1], is, ms)
  <2>1. n - 1 \in 0 .. Len(metas)
    BY <1>1 DEF n
  <2> QED BY <2>1, <1>1, <1>3, <1>4, LinkedCut
<1>6. Matched(is, ms) /\ Len(ms) = n - 1 /\ \A i \in 1 .. n - 1 : ms[i] = metas[i]
  <2>1. 1 \in Nat \ {0} /\ n - 1 \in 0 .. Len(metas)
    BY <1>1 DEF n
  <2>2. /\ Matched(SubSeq(all, 1, n - 1), SubSeq(metas, 1, n - 1))
        /\ Len(SubSeq(metas, 1, n - 1)) = IF 1 <= n - 1 THEN n - 1 - 1 + 1 ELSE 0
        /\ \A i \in 1 .. n - 1 - 1 + 1 : SubSeq(metas, 1, n - 1)[i] = metas[1 + i - 1]
    BY <1>1, <2>1, MatchedSub
  <2> QED BY <2>2, <1>1
<1>7. Above(ended, current_base', all[n], metas[n])
  <2>1. Above(ended, After(low[k + 1], all, metas, n - 1), all[n], metas[n])
    <3>1. n \in 1 .. Len(metas)
      BY <1>1 DEF n
    <3> QED BY <3>1, <1>3 DEF Linked
  <2>2. After(low[k + 1], all, metas, n - 1) = current_base'
    <3>1. CASE n = 1
      <4>1. k = 0
        BY <3>1, <1>1
      <4> QED BY <4>1, <3>1, <1>2, <1>3 DEF After
    <3>2. CASE n # 1
      <4>1. n - 1 \in 1 .. n /\ n - 1 # 0 /\ (spilled # <<>> => n - 1 # 1)
        BY <3>2, <1>1
      <4>2. metas[n - 1].closure # Tramp
        BY <4>1, <1>1
      <4> QED BY <4>1, <4>2, <3>2, <1>2 DEF After
    <3> QED BY <3>1, <3>2
  <2> QED BY <2>1, <2>2
<1>8. metas[n].closure # Tramp
  <2>1. n \in 1 .. n /\ (spilled # <<>> => n # 1)
    BY <1>1
  <2> QED BY <2>1, <1>1
<1>9. CASE spilled = <<>>
  <2>1. /\ AllInfos' = is /\ metas' = ms /\ spilled' = spilled
    BY <1>2, <1>9
  <2>2. Topmost'
    <3>1. is \in Seq(Info) /\ Len(is) = n - 1
      BY <1>6 DEF Matched
    <3>8. n - 1 \in 0 .. Len(metas)
      BY <1>1 DEF n
    <3>2. CASE n = 1
      BY <3>1, <3>2, <2>1, <1>2, EmptySeq DEF Topmost
    <3>3. CASE n # 1
      <4>1. is # <<>> /\ n - 1 \in 1 .. n - 1
        BY SMTT(30), <3>1, <3>3, <1>1
      <4>2. is[n - 1] = all[n - 1]
        BY <4>1, <3>8, <1>1, MatchedTop
      <4> HIDE DEF is
      <4>3. is[Len(is)] = all[n - 1]
        BY <4>2, <3>1
      <4> QED BY <4>1, <4>3, <3>3, <2>1, <1>2 DEF Topmost
    <3> QED BY <3>2, <3>3
  <2>3. Stacked(ended, AllInfos', metas', spilled')
    <3> HIDE DEF is, ms
    <3> QED BY <2>1, <1>3, <1>5 DEF Stacked, k
  <2> QED BY <2>2, <2>3, <1>2, <1>7, <1>8 DEF Above
<1>10. CASE spilled # <<>>
  <2> DEFINE block == Last(spilled)  sp == Front(spilled)
  <2>1. k \in Nat \ {0} /\ n >= 3
    BY <1>1, <1>10
  <2>2. /\ block = spilled[k] /\ Len(sp) = k - 1 /\ \A b \in 1 .. k - 1 : sp[b] = spilled[b]
    <3>1. spilled \in Seq([infos : Seq(Info), metas : Seq(Meta)])
      BY DEF Frames
    <3> DEFINE Block == [infos : Seq(Info), metas : Seq(Meta)]
    <3> HIDE DEF Block
    <3>2. spilled \in Seq(Block)
      BY <3>1 DEF Block
    <3> QED BY <3>2, <1>10, FrontOf DEF Last, k
  <2>3. Matched(block.infos, block.metas)
    BY <2>1, <2>2 DEF Frames, k
  <2>4. Passes(ended, low[k], low[k + 1], block) /\ low[k] \in Nat
    BY <2>1, <2>2, <1>3
  <2>5. Len(ms) > 0 /\ \A i \in 1 .. Len(ms) : ms[i].closure = Tramp <=> i = 1
    <3>1. \A i \in 1 .. n - 1 : i \in 1 .. n
      BY <1>1
    <3>2. Len(ms) = n - 1 /\ \A i \in 1 .. n - 1 : ms[i] = metas[i]
      BY <1>6
    <3> HIDE DEF ms
    <3>3. 0 < n - 1 /\ 1 \in 1 .. n - 1
      BY <2>1, <1>1
    <3> QED BY <3>1, <3>2, <3>3, <1>1, <1>10
  <2> HIDE DEF block, sp, is, ms
  <2>6. Linked(ended, low[k], block.infos \o Tail(is), block.metas \o Tail(ms))
    <3>1. Linked(ended, After(low[k], block.infos, block.metas, Len(block.metas)), is, ms)
      BY <2>4, <1>5 DEF Passes
    <3> QED BY <3>1, <2>3, <2>4, <2>5, <1>6, LinkedJoin DEF Passes
  <2>7. /\ AllInfos' = block.infos \o Tail(is) /\ metas' = block.metas \o Tail(ms) /\ spilled' = sp
    BY <1>2, <1>10 DEF block, sp, is, ms
  <2>8. Stacked(ended, AllInfos', metas', spilled')
    <3> DEFINE low2 == [b \in 1 .. k |-> low[b]]
    <3>1. low2 \in [1 .. k -> Nat] /\ low2[1] = 0 /\ low2[k] = low[k]
      BY <2>1, <1>3
    <3>2. ASSUME NEW b \in 1 .. k - 1 PROVE Passes(ended, low2[b], low2[b + 1], sp[b])
      <4>1. b \in 1 .. k /\ b + 1 \in 1 .. k
        BY <2>1
      <4>2. low2[b] = low[b] /\ low2[b + 1] = low[b + 1]
        BY <4>1
      <4> QED BY <4>1, <4>2, <2>2, <1>3
    <3> HIDE DEF low2
    <3>3. Len(sp) + 1 = k /\ Len(sp) = k - 1
      BY <2>1, <2>2
    <3>4. Stacked(ended, block.infos \o Tail(is), block.metas \o Tail(ms), sp)
      BY <3>1, <3>2, <3>3, <2>6 DEF Stacked
    <3> QED BY <3>4, <2>7
  <2>9. Topmost'
    <3>1. is \in Seq(Info) /\ Len(is) = n - 1 /\ is # <<>>
      <4>1. is \in Seq(Info) /\ Len(is) = n - 1
        BY <1>6 DEF Matched
      <4>2. n - 1 # 0
        BY <2>1, <1>1
      <4> QED BY <4>1, <4>2, EmptySeq
    <3>8. n - 1 \in 0 .. Len(metas)
      BY <1>1 DEF n
    <3>2. Tail(is) \in Seq(Info) /\ Len(Tail(is)) = n - 2 /\ Tail(is)[n - 2] = is[n - 1]
      <4>1. n - 2 \in 1 .. Len(is) - 1 /\ n - 2 + 1 = n - 1 /\ Len(is) - 1 = n - 2
        BY <3>1, <2>1, <1>1
      <4>2. /\ Tail(is) \in Seq(Info) /\ Len(Tail(is)) = Len(is) - 1
            /\ \A i \in 1 .. Len(Tail(is)) : Tail(is)[i] = is[i + 1]
        BY <3>1, HeadTailProperties
      <4>3. Tail(is)[n - 2] = is[n - 2 + 1]
        BY <4>1, <4>2
      <4> QED BY <4>1, <4>2, <4>3
    <3>3. is[n - 1] = all[n - 1]
      <4>1. n - 1 \in 1 .. n - 1
        BY <2>1, <1>1
      <4> QED BY <4>1, <3>8, <1>1, MatchedTop DEF is
    <3> DEFINE q == Len(block.infos)  new == block.infos \o Tail(is)
    <3>4. block.infos \in Seq(Info) /\ q \in Nat
      BY <2>3 DEF Matched
    <3> HIDE DEF q
    <3>5. /\ Len(new) = q + (n - 2) /\ new[q + (n - 2)] = all[n - 1] /\ new \in Seq(Info)
      <4>1. /\ new \in Seq(Info) /\ Len(new) = Len(block.infos) + Len(Tail(is))
            /\ \A i \in 1 .. Len(block.infos) + Len(Tail(is)) :
                 new[i] = IF i <= Len(block.infos) THEN block.infos[i]
                          ELSE Tail(is)[i - Len(block.infos)]
        BY <3>2, <3>4, ConcatProperties
      <4> HIDE DEF new
      <4> DEFINE j == q + (n - 2)
      <4>2. j \in 1 .. j /\ ~(j <= q) /\ j - q = n - 2
        BY <3>4, <2>1, <1>1
      <4>3. /\ new \in Seq(Info) /\ Len(new) = j
            /\ \A i \in 1 .. j : new[i] = IF i <= q THEN block.infos[i] ELSE Tail(is)[i - q]
        BY <4>1, <3>2 DEF q
      <4> HIDE DEF j
      <4>4. new[j] = Tail(is)[n - 2]
        BY <4>2, <4>3
      <4>5. new[j] = all[n - 1]
        BY <4>4, <3>2, <3>3
      <4> QED BY <4>3, <4>5 DEF j
    <3>6. new # <<>> /\ AllInfos' = new
      <4> HIDE DEF new
      <4>1. Len(new) # 0
        BY <3>4, <3>5, <2>1, <1>1
      <4>2. new # <<>>
        BY <4>1, <3>5, EmptySeq
      <4> QED BY <4>2, <2>7 DEF new
    <3> HIDE DEF new
    <3>7. n # 1
      BY <2>1
    <3> QED BY <3>5, <3>6, <3>7, <1>2 DEF Topmost
  <2> QED BY <2>8, <2>9, <1>2, <1>7, <1>8 DEF Above
<1> QED BY <1>9, <1>10

-----------------------------------------------------------------------------
(* The steps again, for the windows *)

\* A script that ends leaves frames as they stand.
LEMMA StackedEnds ==
  ASSUME Windows, UNCHANGED <<ring, overflow, metas, spilled>>, phase' = "run" => phase = "run"
  PROVE  Stacked(Ended', AllInfos', metas', spilled')
<1>1. Stacked(Ended, AllInfos, metas, spilled) /\ AllInfos' = AllInfos
  BY DEF Windows, AllInfos
<1>2. CASE phase = "run"
  <2>1. ASSUME NEW low, NEW is, NEW ms, Linked(FALSE, low, is, ms) PROVE Linked(Ended', low, is, ms)
    BY <2>1 DEF Linked, Above
  <2>2. Stacked(FALSE, AllInfos, metas, spilled)
    BY <1>1, <1>2 DEF Ended
  <2>3. Stacked(Ended', AllInfos, metas, spilled)
    BY <2>1, <2>2 DEF Stacked, Passes
  <2> QED BY <2>3, <1>1
<1>3. CASE phase # "run"
  <2>1. Ended' = TRUE /\ Ended = TRUE
    BY <1>3 DEF Ended
  <2> QED BY <2>1, <1>1
<1> QED BY <1>2, <1>3

\* An activation: its window ends where the register file does.
LEMMA ActivateWindows ==
  ASSUME Inv, Windows, NEW c \in Chunks, NEW args, IsSeq(args), Len(args) = Argc[c],
         NEW ret \in 0 .. End, NEW meta \in Meta, meta.closure # Tramp, meta.chunk = chunk,
         Activate(c, args, ret, meta),
         phase' = "run" => phase = "run",
         \/ phase = "halted" /\ phase' = "host" /\ ret = End
         \/ Running /\ ret # End /\ phase' = phase
  PROVE  /\ Stacked(Ended', AllInfos', metas', spilled')
         /\ Topmost' /\ ip' # End /\ WindowEnd' = Len(regs')
<1> DEFINE info == [base |-> Len(regs), ret |-> ret]
<1>1. IsSeq(regs) /\ Len(regs) > 0 /\ Len(regs) \in Nat /\ chunk \in Chunks
  BY IsSeqLen DEF Inv, Script
<1>2. info \in Info /\ info.base > 0 /\ info.base = Len(regs) /\ info.ret = ret
  BY <1>1 DEF Info
<1>3. PushFrame(info, meta)
  BY DEF Activate
<1> HIDE DEF info
<1>4. Stacked(Ended', AllInfos, metas, spilled)
  BY DEF Windows, Ended
<1>5. \/ Ended' /\ info.ret = End
      \/ info.ret # End /\ Topmost /\ current_base + Size[meta.chunk] <= info.base
  BY <1>2 DEF Windows, WindowHeld, WindowEnd, Ended
<1>6. Stacked(Ended', AllInfos', metas', spilled')
  <2>1. Frames /\ Paging
    BY DEF Inv
  <2> QED BY <1>2, <1>3, <1>4, <1>5, <2>1, StackedPush
<1>7. Topmost'
  <2> DEFINE is == Paged.ring \o Paged.overflow
  <2>1. Frames /\ Paging
    BY DEF Inv
  <2>2. AllInfos' = Append(is, info)
    BY <2>1, <1>2, <1>3, PushKeeps DEF AllInfos
  <2>3. is \in Seq(Info)
    BY <2>1, PagedReady DEF Ready, Matched
  <2>4. current_base' = info.base
    BY <1>3 DEF PushFrame
  <2> HIDE DEF is
  <2>5. AllInfos' # <<>> /\ AllInfos'[Len(AllInfos')] = info
    BY <2>2, <2>3, <1>2, AppendProperties
  <2> QED BY <2>4, <2>5 DEF Topmost
<1>8. WindowEnd' = Len(regs')
  <2>1. /\ IsSeq(Fill(Locals[c])) /\ Len(Fill(Locals[c])) = Locals[c]
        /\ Argc[c] \in Nat /\ Locals[c] \in Nat
    BY SizeTypes, FillSeq
  <2>2. IsSeq(regs \o args) /\ Len(regs \o args) = Len(regs) + Len(args)
    BY <1>1, IsSeqConcat
  <2>3. Len((regs \o args) \o Fill(Locals[c])) = Len(regs \o args) + Len(Fill(Locals[c]))
    BY <2>1, <2>2, IsSeqConcat
  <2>4. Len(regs') = Len(regs) + Argc[c] + Locals[c]
    BY <2>1, <2>2, <2>3 DEF Activate
  <2>5. current_base' = Len(regs) /\ chunk' = c
    BY <1>2, <1>3 DEF PushFrame, Activate
  <2>6. Size[c] = Argc[c] + Locals[c]
    BY DEF Size
  <2> QED BY <2>1, <2>4, <2>5, <2>6, <1>1 DEF WindowEnd
<1>9. ip' # End
  BY BoundAssumption DEF Activate, End
<1> QED BY <1>6, <1>7, <1>8, <1>9

\* A return: what is left of the register file holds the caller's window.
LEMMA PopWindows ==
  ASSUME Inv, Windows, Running, NEW f, IsSeq(f), Len(f) = Len(regs), PopFrame(f),
         UNCHANGED <<phase, saved>>
  PROVE  Windows'
<1> DEFINE info == TopInfo(ring, overflow)  meta == Last(metas)
<1>1. /\ Frames /\ Paging /\ Stacked(Ended, AllInfos, metas, spilled) /\ Ended' = Ended
  BY DEF Inv, Windows, Ended
<1>2. /\ Stacked(Ended', AllInfos', metas', spilled')
      /\ \/ Ended /\ info.ret = End
         \/ info.ret # End /\ Topmost' /\ current_base' + Size[meta.chunk] <= info.base
  <2>1. /\ Stacked(Ended, AllInfos', metas', spilled')
        /\ \/ Ended /\ info.ret = End
           \/ info.ret # End /\ Topmost' /\ current_base' + Size[meta.chunk] <= info.base
    BY <1>1, StackedPop
  <2> QED BY <2>1, <1>1
<1>3. info \in Info /\ meta \in Meta
  BY <1>1, PopKeeps
<1>4. info.base = current_base
  <2>1. info = AllInfos[Len(metas)] /\ Len(metas) \in Nat \ {0}
    BY <1>1, PopKeeps
  <2>2. AllInfos \in Seq(Info) /\ Len(AllInfos) = Len(metas)
    BY <1>1 DEF Frames, AllInfos, Matched
  <2>3. AllInfos # <<>>
    BY <2>1, <2>2, EmptySeq
  <2>4. Topmost
    BY DEF Windows
  <2> HIDE DEF info
  <2> QED BY <2>1, <2>2, <2>3, <2>4 DEF Topmost
<1>5. /\ regs' = Truncated(f, info.base) /\ write_ptr' = Len(regs') /\ ip' = info.ret
      /\ chunk' = meta.chunk
  BY DEF PopFrame
<1> HIDE DEF info, meta
<1>6. Len(regs') = info.base /\ info.base \in Nat
  <2>1. info.base \in Nat /\ Len(f) \in Nat /\ chunk \in Chunks /\ Size[chunk] \in Nat
    BY <1>3, IsSeqLen, SizeTypes DEF Info, Inv, Script
  <2>2. info.base <= Len(f)
    <3>1. current_base + Size[chunk] <= Len(regs)
      BY DEF Windows, WindowHeld, WindowEnd
    <3> QED BY <3>1, <2>1, <1>4
  <2> DEFINE z == IF info.base < Len(f) THEN info.base ELSE Len(f)
  <2>3. z = info.base /\ z \in Int /\ 1 \in Int
    BY <2>1, <2>2
  <2>4. Truncated(f, info.base) = SubSeq(f, 1, z)
    BY DEF Truncated
  <2> HIDE DEF z
  <2>5. Len(SubSeq(f, 1, z)) = IF 1 <= z THEN z - 1 + 1 ELSE 0
    BY <2>3, IsSeqSub
  <2> QED BY <2>1, <2>3, <2>4, <2>5, <1>5
<1>7. CASE Ended /\ info.ret = End
  <2>1. phase' = "host" /\ ip' = End
    BY <1>5, <1>7 DEF Ended, Running, Windows
  <2> QED BY <2>1, <1>2, <1>5, <1>6 DEF Windows, WindowHeld, Running
<1>8. CASE info.ret # End /\ Topmost' /\ current_base' + Size[meta.chunk] <= info.base
  <2>1. WindowEnd' <= Len(regs')
    BY <1>5, <1>6, <1>8 DEF WindowEnd
  <2>2. phase' \in {"run", "host"}
    BY DEF Running
  <2> QED BY <2>1, <2>2, <1>2, <1>5, <1>6, <1>8 DEF Windows, WindowHeld, Running
<1> QED BY <1>2, <1>7, <1>8

LEMMA CallWindows ==
  ASSUME Inv, Windows, NEW c \in Closures, NEW r \in 0 .. Size[chunk] - 1 - Argc[c], Call(c, r)
  PROVE  Windows'
<1> DEFINE args == SubSeq(regs, Register(r) + 2, Register(r) + 1 + Argc[c])
           meta == [closure |-> c, into |-> Register(r), chunk |-> chunk]
<1>1. c \in Chunks /\ c # Tramp /\ chunk \in Chunks /\ current_base \in Nat
  BY ChunkAssumption DEF Chunks, Inv, Script, Frames
<1>2. Argc[c] \in Nat /\ Size[chunk] \in Nat /\ r \in Nat
  BY <1>1, SizeTypes
<1>3. Register(r) \in Nat
  BY <1>1, <1>2 DEF Register
<1>4. IsSeq(args) /\ Len(args) = Argc[c]
  <2> DEFINE a == Register(r) + 2  z == Register(r) + 1 + Argc[c]
  <2>1. a \in Int /\ z \in Int /\ (IF a <= z THEN z - a + 1 ELSE 0) = Argc[c]
    BY <1>2, <1>3
  <2> HIDE DEF a, z
  <2>2. IsSeq(SubSeq(regs, a, z)) /\ Len(SubSeq(regs, a, z)) = IF a <= z THEN z - a + 1 ELSE 0
    BY <2>1, IsSeqSub
  <2> QED BY <2>1, <2>2 DEF a, z
<1>5. meta \in Meta /\ meta.closure # Tramp /\ meta.chunk = chunk
  BY <1>1, <1>3 DEF Meta
<1>6. ip + 1 \in 0 .. End /\ ip + 1 # End
  BY BoundAssumption DEF Inv, Script, Call, End
<1>7. /\ Activate(c, args, ip + 1, meta) /\ phase' = phase /\ saved' = saved
      /\ write_ptr' = Len(regs') /\ Running
  BY DEF Call
<1> HIDE DEF args, meta
<1>8. /\ Stacked(Ended', AllInfos', metas', spilled')
      /\ Topmost' /\ ip' # End /\ WindowEnd' = Len(regs')
  BY <1>1, <1>4, <1>5, <1>6, <1>7, ActivateWindows
<1>9. Len(regs') \in Nat
  BY CallInv, IsSeqLen DEF Inv, Script
<1> QED BY <1>7, <1>8, <1>9 DEF Windows, WindowHeld, Running

LEMMA ImportWindows ==
  ASSUME Inv, Windows, NEW m \in Modules, Import(m)
  PROVE  Windows'
<1>1. CASE m \in imported
  <2>1. /\ ip' = ip + 1 /\ ip < MaxIp /\ Running
        /\ UNCHANGED <<regs, write_ptr, ring, overflow, metas, spilled, depth, current_base>>
        /\ UNCHANGED <<chunk, phase, saved>>
    BY <1>1 DEF Import, frameVars
  <2>2. ip' # End
    BY <2>1, BoundAssumption DEF Inv, Script, End
  <2>3. Stacked(Ended', AllInfos', metas', spilled')
    BY <2>1, StackedEnds
  <2>4. Topmost' /\ WindowEnd' = WindowEnd /\ Len(regs') = Len(regs)
    BY <2>1 DEF Windows, Topmost, AllInfos, WindowEnd
  <2> QED BY <2>1, <2>2, <2>3, <2>4 DEF Windows, WindowHeld, Running
<1>2. CASE m \notin imported
  <2> DEFINE meta == [closure |-> None, into |-> 0, chunk |-> chunk]
  <2>1. m \in Chunks /\ chunk \in Chunks /\ IsSeq(<<>>) /\ Len(<<>>) = Argc[m]
    BY EmptySeq, ChunkAssumption DEF Chunks, Inv, Script, IsSeq
  <2>2. meta \in Meta /\ meta.closure # Tramp /\ meta.chunk = chunk
    BY <2>1 DEF Meta, None, Tramp
  <2>3. ip + 1 \in 0 .. End /\ ip + 1 # End
    BY BoundAssumption DEF Inv, Script, Import, End
  <2>4. /\ Activate(m, <<>>, ip + 1, meta) /\ phase' = phase /\ saved' = saved
        /\ write_ptr' = Len(regs') /\ Running
    BY <1>2 DEF Import
  <2> HIDE DEF meta
  <2>5. /\ Stacked(Ended', AllInfos', metas', spilled')
        /\ Topmost' /\ ip' # End /\ WindowEnd' = Len(regs')
    BY <2>1, <2>2, <2>3, <2>4, ActivateWindows
  <2>6. Len(regs') \in Nat
    BY ImportInv, IsSeqLen DEF Inv, Script
  <2> QED BY <2>4, <2>5, <2>6 DEF Windows, WindowHeld, Running
<1> QED BY <1>1, <1>2

LEMMA HostCallWindows ==
  ASSUME Inv, Windows, NEW c \in Closures, NEW args \in Tuples(Argc[c]), HostCall(c, args)
  PROVE  Windows'
<1> DEFINE meta == [closure |-> c, into |-> 0, chunk |-> chunk]
<1>1. c \in Chunks /\ c # Tramp /\ chunk \in Chunks /\ ip \in 0 .. End
  BY ChunkAssumption DEF Chunks, Inv, Script
<1>2. IsSeq(args) /\ Len(args) = Argc[c]
  <2>1. Argc[c] \in Nat /\ args = [i \in 1 .. Argc[c] |-> args[i]]
    BY <1>1, SizeTypes DEF Tuples
  <2> QED BY <2>1, IsSeqFun
<1>3. meta \in Meta /\ meta.closure # Tramp /\ meta.chunk = chunk
  BY <1>1 DEF Meta
<1>4. /\ Activate(c, args, ip, meta) /\ phase = "halted" /\ phase' = "host" /\ ip = End
      /\ saved'.ip = ip /\ write_ptr' = write_ptr
  BY DEF HostCall, Windows
<1> HIDE DEF meta
<1>5. /\ Stacked(Ended', AllInfos', metas', spilled')
      /\ Topmost' /\ ip' # End /\ WindowEnd' = Len(regs')
  BY <1>1, <1>2, <1>3, <1>4, ActivateWindows
<1>6. Len(regs') \in Nat
  BY HostCallInv, IsSeqLen DEF Inv, Script
<1> QED BY <1>4, <1>5, <1>6 DEF Windows, WindowHeld, Running

LEMMA PopsWindows ==
  ASSUME Inv, Windows, NEW v, Return(v) \/ BuiltinTailCall(v)
  PROVE  Windows'
<1>1. PICK f : /\ f = regs \/ \E i \in Nat : f = [regs EXCEPT ![i] = v]
               /\ PopFrame(f)
  <2>1. metas # <<>>
    BY DEF Return, BuiltinTailCall
  <2>2. Last(metas).into + 1 \in Nat
    <3>1. metas[Len(metas)] \in Meta
      BY <2>1, EmptySeq, ElementOfSeq DEF Inv, Frames
    <3> QED BY <3>1 DEF Last, Meta
  <2> QED BY <2>2 DEF Return, BuiltinTailCall
<1>2. IsSeq(f) /\ Len(f) = Len(regs)
  <2>1. IsSeq(regs)
    BY DEF Inv, Script
  <2>2. ASSUME NEW i \in Nat, f = [regs EXCEPT ![i] = v] PROVE IsSeq(f) /\ Len(f) = Len(regs)
    BY <2>1, <2>2, ExceptIsSeq
  <2> QED BY <1>1, <2>1, <2>2
<1>3. Running /\ UNCHANGED <<phase, saved>>
  BY DEF Return, BuiltinTailCall
<1> QED BY <1>1, <1>2, <1>3, PopWindows

\* The arguments are in their place and the window fits, grown if need be.
LEMMA TailCallWindows ==
  ASSUME Inv, Windows, NEW c \in Closures, NEW r \in 0 .. Size[chunk] - 1 - Argc[c], TailCall(c, r)
  PROVE  Windows'
<1> DEFINE n == Len(metas)
<1>1. /\ c \in Chunks /\ chunk \in Chunks /\ current_base \in Nat /\ Len(regs) \in Nat
      /\ DOMAIN regs = 1 .. Len(regs) /\ IsSeq(regs)
  BY IsSeqLen DEF Chunks, Inv, Script, Frames
<1>2. /\ Argc[c] \in Nat /\ Locals[c] \in Nat /\ Size[c] = Argc[c] + Locals[c] /\ Size[chunk] \in Nat
      /\ r \in Nat
  BY <1>1, SizeTypes DEF Size
<1>3. /\ Running /\ metas # <<>> /\ metas' = [metas EXCEPT ![Len(metas)].closure = c]
      /\ UNCHANGED <<ring, overflow, spilled, depth, current_base, phase, saved>>
      /\ chunk' = c /\ ip' = 0 /\ write_ptr' = current_base + Size[c]
      /\ Register(r) + 1 + Argc[c] <= Len(regs)
  BY DEF TailCall, MarkAbove
<1>4. WindowEnd' <= Len(regs')
  <2> DEFINE g == Slid(r, Argc[c])
             more == IF Outgrows(c) THEN Fill(Locals[c] - OldLocals(c)) ELSE <<>>
  <2>1. IsSeq(g) /\ Len(g) = Len(regs)
    <3>1. g = [i \in 1 .. Len(regs) |-> g[i]]
      BY <1>1 DEF Slid
    <3> HIDE DEF g
    <3> QED BY <3>1, <1>1, IsSeqFun
  <2>2. IsSeq(more) /\ Len(more) = IF Outgrows(c) THEN Locals[c] - OldLocals(c) ELSE 0
    <3>1. CASE Outgrows(c)
      <4>1. Locals[c] - OldLocals(c) \in Nat
        BY <3>1, <1>1, <1>2 DEF Outgrows, OldLocals
      <4> QED BY <3>1, <4>1, FillSeq
    <3>2. CASE ~Outgrows(c)
      BY <3>2, EmptySeq DEF IsSeq
    <3> QED BY <3>1, <3>2
  <2>3. regs' = g \o more
    BY DEF TailCall
  <2> HIDE DEF g, more
  <2>4. Len(regs') = Len(g) + Len(more)
    BY <2>1, <2>2, <2>3, IsSeqConcat
  <2>5. WindowEnd' = current_base + (Argc[c] + Locals[c])
    BY <1>2, <1>3 DEF WindowEnd
  <2>6. Argc[c] <= Len(regs) - current_base
    BY <1>1, <1>2, <1>3 DEF Register
  <2>7. CASE Outgrows(c)
    <3>1. Len(regs') = Len(regs) + (Locals[c] - (Len(regs) - current_base - Argc[c]))
      BY <2>1, <2>2, <2>4, <2>7 DEF OldLocals
    <3> QED BY <2>5, <3>1, <1>1, <1>2
  <2>8. CASE ~Outgrows(c)
    <3>1. Len(regs') = Len(regs) + 0 /\ Locals[c] <= Len(regs) - current_base - Argc[c]
      BY <2>1, <2>2, <2>4, <2>8, <1>1, <1>2 DEF Outgrows, OldLocals
    <3> QED BY <2>5, <3>1, <1>1, <1>2
  <2> QED BY <2>7, <2>8
<1>5. write_ptr' = WindowEnd' /\ write_ptr' \in Nat
  BY <1>1, <1>2, <1>3 DEF WindowEnd
<1>6. Stacked(Ended', AllInfos', metas', spilled')
  <2>1. /\ metas \in Seq(Meta) /\ n \in Nat /\ n \in 1 .. n
        /\ \A i \in 1 .. n : metas[i].closure = Tramp <=> i = 1 /\ spilled # <<>>
        /\ spilled # <<>> => n >= 3
    BY <1>3, EmptySeq DEF Inv, Frames, Paging
  <2> HIDE DEF n
  <2>2. metas[n].closure # Tramp /\ c # Tramp /\ metas[n] \in Meta
    BY <2>1, <1>1, ChunkAssumption, ElementOfSeq DEF n
  <2> DEFINE top == [metas[n] EXCEPT !.closure = c]
  <2>3. metas' = [metas EXCEPT ![n] = top] /\ n \in 1 .. Len(metas)
    BY <1>3, <2>1 DEF n
  <2>4. top \in Meta /\ top.closure = c /\ top.chunk = metas[n].chunk
    BY <2>2, <1>1 DEF Meta
  <2> HIDE DEF top
  <2>5. /\ Len(metas') = n
        /\ \A j \in 1 .. n : metas'[j] = IF j = n THEN top ELSE metas[j]
    BY <2>1, <2>3, <2>4, ExceptSeq DEF n
  <2>6. ASSUME NEW i \in 1 .. n
        PROVE  /\ metas'[i].closure = Tramp <=> metas[i].closure = Tramp
               /\ metas'[i].chunk = metas[i].chunk
    BY <2>2, <2>4, <2>5
  <2>7. ASSUME NEW low, Linked(Ended, low, AllInfos, metas)
        PROVE  Linked(Ended, low, AllInfos, metas')
    <3>1. ASSUME NEW i \in 1 .. n PROVE Above(Ended, After(low, AllInfos, metas', i - 1), AllInfos[i], metas'[i])
      <4>1. i - 1 = 0 \/ i - 1 \in 1 .. n
        BY <2>1
      <4>2. After(low, AllInfos, metas', i - 1) = After(low, AllInfos, metas, i - 1)
        BY <4>1, <2>6 DEF After
      <4>3. Above(Ended, After(low, AllInfos, metas, i - 1), AllInfos[i], metas[i])
        BY <2>7 DEF Linked, n
      <4> QED BY <4>2, <4>3, <2>6 DEF Above
    <3> QED BY <3>1, <2>5 DEF Linked
  <2>8. AllInfos' = AllInfos /\ Ended' = Ended /\ spilled' = spilled
    BY <1>3 DEF AllInfos, Ended
  <2>9. Stacked(Ended, AllInfos, metas, spilled)
    BY DEF Windows
  <2>10. Stacked(Ended, AllInfos, metas', spilled)
    BY <2>7, <2>9 DEF Stacked
  <2> QED BY <2>8, <2>10
<1>7. Topmost' /\ ip' # End
  BY <1>3, BoundAssumption DEF Windows, Topmost, AllInfos, End
<1>8. Len(regs') \in Nat
  BY TailCallInv, IsSeqLen DEF Inv, Script
<1> QED BY <1>3, <1>4, <1>5, <1>6, <1>7, <1>8 DEF Windows, WindowHeld, Running
LEMMA EndWindows ==
  ASSUME Inv, Windows, Fail \/ HostDone \/ Halt \/ \E c \in Closures, r \in Nat : TailCallFails(c, r)
  PROVE  Windows'
<1>1. /\ UNCHANGED <<ring, overflow, metas, spilled>> /\ phase' \in {"halted", "failed"}
      /\ phase' = "halted" => ip' = End
  BY DEF Fail, HostDone, Halt, TailCallFails, Restore, Windows, frameVars, Running
<1>2. Stacked(Ended', AllInfos', metas', spilled')
  BY <1>1, StackedEnds
<1>3. write_ptr' \in Nat
  <2>1. CASE Fail \/ HostDone \/ Halt
    BY <2>1 DEF Fail, HostDone, Halt, Windows
  <2>2. ASSUME NEW c \in Closures, NEW r \in Nat, TailCallFails(c, r) PROVE write_ptr' \in Nat
    <3>1. current_base \in Nat /\ Argc[c] \in Nat
      BY SizeTypes DEF Inv, Frames, Chunks
    <3> QED BY <2>2, <3>1 DEF TailCallFails
  <2> QED BY <2>1, <2>2
<1> QED BY <1>1, <1>2, <1>3 DEF Windows, WindowHeld, Running

LEMMA OtherWindows ==
  ASSUME Inv, Windows,
         \/ \E r, v : Store(r, v)
         \/ \E c \in Closures : \E args \in Tuples(Argc[c]) : HostRefused(c, args)
         \/ UNCHANGED vars
  PROVE  Windows'
<1>1. /\ UNCHANGED <<ring, overflow, metas, spilled, current_base, write_ptr, chunk, ip, phase, saved>>
  BY DEF Store, HostRefused, vars, frameVars
<1>2. Running => Len(regs') = Len(regs)
  <2>1. CASE \E r, v : Store(r, v)
    <3>1. PICK i, v : regs' = [regs EXCEPT ![i] = v]
      BY <2>1 DEF Store
    <3> QED BY <3>1, ExceptIsSeq DEF Inv, Script
  <2>2. CASE \E c \in Closures : \E args \in Tuples(Argc[c]) : HostRefused(c, args)
    BY <2>2 DEF HostRefused, Running
  <2>3. CASE UNCHANGED vars
    BY <2>3 DEF vars
  <2> QED BY <2>1, <2>2, <2>3
<1>3. Stacked(Ended', AllInfos', metas', spilled')
  BY <1>1, StackedEnds
<1>4. phase = "run" => Running
  BY DEF Windows, Running
<1>5. /\ Running' <=> Running
      /\ Topmost' <=> Topmost
      /\ WindowEnd' = WindowEnd
  BY <1>1 DEF Running, Topmost, AllInfos, WindowEnd
<1> QED BY <1>1, <1>2, <1>3, <1>4, <1>5 DEF Windows, WindowHeld

\* A script that starts has no frames, and its window is the whole file.
LEMMA FreshWindows ==
  /\ Init => Windows
  /\ Inv /\ Run => Windows'
<1>1. /\ Size[Main] = Locals[Main] /\ Locals[Main] \in Nat
      /\ Len(Fill(Locals[Main])) = Locals[Main] /\ 0 # End
  <2>1. Main \in Chunks /\ Main \in Modules \cup {Main}
    BY DEF Chunks
  <2>2. Argc[Main] = 0 /\ Locals[Main] \in Nat
    BY <2>1, ChunkAssumption
  <2> QED BY <2>1, <2>2, FillSeq, BoundAssumption DEF Size, End
<1>2. ASSUME NEW ended, NEW is, NEW ms, NEW sp, ms = <<>>, sp = <<>> PROVE Stacked(ended, is, ms, sp)
  <2> DEFINE low == [b \in 1 .. 1 |-> 0]
  <2>1. Len(sp) = 0 /\ Len(ms) = 0
    BY <1>2
  <2>2. low \in [1 .. Len(sp) + 1 -> Nat] /\ low[1] = 0
    BY <2>1
  <2> HIDE DEF low
  <2> QED BY <2>1, <2>2 DEF Stacked, Linked
<1>3. <<>> \o <<>> = <<>>
  BY EmptySeq, ConcatEmptySeq
<1>4. Init => Windows
  <2> SUFFICES ASSUME Init PROVE Windows
    OBVIOUS
  <2>1. Stacked(Ended, AllInfos, metas, spilled)
    BY <1>2 DEF Init
  <2>2. Topmost /\ WindowEnd = Len(regs) /\ write_ptr = Len(regs) /\ Len(regs) \in Nat
    BY <1>1, <1>3 DEF Init, Topmost, AllInfos, WindowEnd
  <2> QED BY <2>1, <2>2, <1>1 DEF Init, Windows, WindowHeld
<1>5. Inv /\ Run => Windows'
  <2> SUFFICES ASSUME Run PROVE Windows'
    OBVIOUS
  <2>1. Stacked(Ended', AllInfos', metas', spilled')
    BY <1>2 DEF Run
  <2>2. Topmost' /\ WindowEnd' = Len(regs') /\ write_ptr' = Len(regs') /\ Len(regs') \in Nat
    BY <1>1, <1>3 DEF Run, Topmost, AllInfos, WindowEnd
  <2> QED BY <2>1, <2>2, <1>1 DEF Run, Windows, WindowHeld
<1> QED BY <1>4, <1>5

LEMMA StepWindows == Inv /\ Windows /\ [Next]_vars => Windows'
<1> SUFFICES ASSUME Inv, Windows, [Next]_vars PROVE Windows'
  OBVIOUS
<1>0. chunk \in Chunks /\ \A c \in Closures : c \in Chunks
  BY DEF Inv, Script, Chunks
<1>1. ASSUME NEW v \in Vals, Return(v) \/ BuiltinTailCall(v) PROVE Windows'
  BY <1>1, PopsWindows
<1>2. ASSUME NEW r \in 0 .. Size[chunk] - 1, NEW v \in Vals, Store(r, v) PROVE Windows'
  BY <1>2, OtherWindows
<1>3. ASSUME NEW c \in Closures, NEW r \in 0 .. Size[chunk] - 1 - Argc[c],
             Call(c, r) \/ TailCall(c, r) \/ TailCallFails(c, r)
      PROVE  Windows'
  <2>1. CASE Call(c, r)
    BY <2>1, CallWindows
  <2>2. CASE TailCall(c, r)
    BY <2>2, TailCallWindows
  <2>3. CASE TailCallFails(c, r)
    <3>1. r \in Nat
      BY <1>0, SizeTypes
    <3> QED BY <2>3, <3>1, EndWindows
  <2> QED BY <1>3, <2>1, <2>2, <2>3
<1>4. ASSUME NEW c \in Closures, NEW args \in Tuples(Argc[c]),
             HostCall(c, args) \/ HostRefused(c, args)
      PROVE  Windows'
  BY <1>4, HostCallWindows, OtherWindows
<1>5. ASSUME NEW m \in Modules, Import(m) PROVE Windows'
  BY <1>5, ImportWindows
<1>6. CASE Halt \/ Fail \/ HostDone
  BY <1>6, EndWindows
<1>7. CASE Run
  BY <1>7, FreshWindows
<1>8. CASE UNCHANGED vars
  BY <1>8, OtherWindows
<1> QED
  BY <1>1, <1>2, <1>3, <1>4, <1>5, <1>6, <1>7, <1>8 DEF Next

\* The code that runs, in a script or called by the host, has its whole window in
\* the register file, which is indexed without a check; in a script it is also
\* below the mark up to which the collector scans.  This holds after any sequence
\* of calls, tail calls into larger functions, imports, returns over spilled
\* frames, and failed calls of the host.
THEOREM FrameWindows == Spec => []WindowHeld
<1>1. Init => Windows
  BY FreshWindows
<1>2. Windows => WindowHeld
  BY DEF Windows
<1> QED
  BY <1>1, <1>2, FrameInv, StepWindows, PTL DEF Spec

-----------------------------------------------------------------------------
(* Types.  That what a call copies are values rests on WindowHeld: they are *)
(* taken from registers that are there.                                    *)

Values == regs \in Seq(Vals) /\ imported \subseteq Modules

LEMMA SubValues ==
  ASSUME NEW s \in Seq(Vals), NEW a \in Nat \ {0}, NEW z \in Int, z <= Len(s)
  PROVE  SubSeq(s, a, z) \in Seq(Vals)
<1>1. a \in Int /\ \A i \in a .. z : s[i] \in Vals
  <2>1. Len(s) \in Nat /\ \A i \in a .. z : i \in 1 .. Len(s)
    BY LenProperties
  <2> QED BY <2>1, ElementOfSeq
<1> QED BY <1>1, SubSeqProperties

LEMMA FillValues == ASSUME NEW n \in Nat PROVE Fill(n) \in Seq(Vals)
<1>1. Fill(n) \in [1 .. n -> Vals]
  BY BoundAssumption DEF Fill
<1> QED BY <1>1, SeqDef

LEMMA FunValues ==
  ASSUME NEW n \in Nat, NEW g \in [1 .. n -> Vals]
  PROVE  g \in Seq(Vals)
  BY SeqDef

LEMMA TruncatedValues ==
  ASSUME NEW s \in Seq(Vals), NEW n \in Nat
  PROVE  Truncated(s, n) \in Seq(Vals)
<1> DEFINE z == IF n < Len(s) THEN n ELSE Len(s)
<1>1. Len(s) \in Nat
  BY LenProperties
<1>2. z \in Int /\ z <= Len(s) /\ 1 \in Nat \ {0}
  BY <1>1
<1> HIDE DEF z
<1>3. SubSeq(s, 1, z) \in Seq(Vals)
  BY <1>2, SubValues
<1> QED BY <1>3 DEF Truncated, z

LEMMA ExceptValues ==
  ASSUME NEW s \in Seq(Vals), NEW i, NEW v \in Vals
  PROVE  [s EXCEPT ![i] = v] \in Seq(Vals)
<1>1. Len(s) \in Nat /\ DOMAIN s = 1 .. Len(s) /\ s \in [1 .. Len(s) -> Vals]
  BY LenProperties
<1>2. [s EXCEPT ![i] = v] \in [1 .. Len(s) -> Vals]
  BY <1>1
<1> QED BY <1>1, <1>2, FunValues

LEMMA ActivateValues ==
  ASSUME Values, NEW c \in Chunks, NEW args \in Seq(Vals), NEW ret, NEW meta,
         Activate(c, args, ret, meta)
  PROVE  regs' \in Seq(Vals)
<1>1. Fill(Locals[c]) \in Seq(Vals)
  BY SizeTypes, FillValues
<1>2. regs \o args \in Seq(Vals)
  BY ConcatProperties DEF Values
<1>3. (regs \o args) \o Fill(Locals[c]) \in Seq(Vals)
  BY <1>1, <1>2, ConcatProperties
<1> QED BY <1>3 DEF Activate

LEMMA SlidValues ==
  ASSUME Inv, Values, NEW c \in Chunks, NEW r \in Nat, Register(r) + 1 + Argc[c] <= Len(regs)
  PROVE  Slid(r, Argc[c]) \in Seq(Vals)
<1>1. /\ Len(regs) \in Nat /\ DOMAIN regs = 1 .. Len(regs) /\ current_base \in Nat
      /\ \A i \in 1 .. Len(regs) : regs[i] \in Vals
      /\ Argc[c] \in Nat
  BY LenProperties, ElementOfSeq, SizeTypes DEF Values, Inv, Frames
<1>2. ASSUME NEW i \in current_base + 1 .. current_base + Argc[c]
      PROVE  i + r + 1 \in 1 .. Len(regs)
  BY <1>1 DEF Register
<1>3. Slid(r, Argc[c]) \in [1 .. Len(regs) -> Vals]
  BY <1>1, <1>2 DEF Slid
<1> QED BY <1>1, <1>3, FunValues

LEMMA StepValues == Inv /\ Windows /\ Values /\ [Next]_vars => Values'
<1> SUFFICES ASSUME Inv, Windows, Values, [Next]_vars PROVE Values'
  OBVIOUS
<1>0. /\ chunk \in Chunks /\ current_base \in Nat /\ Len(regs) \in Nat /\ regs \in Seq(Vals)
      /\ saved.len \in Nat /\ \A c \in Closures \cup Modules : c \in Chunks
  BY LenProperties DEF Inv, Script, Frames, Saved, Chunks, Values
<1>1. ASSUME NEW v \in Vals, Return(v) \/ BuiltinTailCall(v) PROVE Values'
  <2>1. PICK f : (f = regs \/ \E i : f = [regs EXCEPT ![i] = v]) /\ PopFrame(f)
    BY <1>1 DEF Return, BuiltinTailCall
  <2>2. f \in Seq(Vals)
    BY <2>1, <1>0, ExceptValues
  <2>3. TopInfo(ring, overflow).base \in Nat
    BY <2>1, PopKeeps DEF Inv, Info
  <2>4. regs' \in Seq(Vals)
    BY <2>1, <2>2, <2>3, TruncatedValues DEF PopFrame
  <2> QED BY <2>4, <1>1 DEF Return, BuiltinTailCall, Values
<1>2. ASSUME NEW r \in 0 .. Size[chunk] - 1, NEW v \in Vals, Store(r, v) PROVE Values'
  BY <1>2, <1>0, ExceptValues DEF Store, Values
<1>3. ASSUME NEW c \in Closures, NEW r \in 0 .. Size[chunk] - 1 - Argc[c],
             Call(c, r) \/ TailCall(c, r) \/ TailCallFails(c, r)
      PROVE  Values'
  <2>1. /\ c \in Chunks /\ Argc[c] \in Nat /\ Locals[c] \in Nat /\ Size[chunk] \in Nat /\ r \in Nat
    BY <1>0, SizeTypes
  <2>2. CASE Call(c, r)
    <3> DEFINE a == Register(r) + 2  z == Register(r) + 1 + Argc[c]
    <3>1. current_base + Size[chunk] <= Len(regs)
      BY <2>2 DEF Call, Windows, WindowHeld, WindowEnd
    <3>2. a \in Nat \ {0} /\ z \in Int /\ z <= Len(regs)
      <4>1. Len(regs) \in Nat /\ current_base \in Nat /\ Argc[c] \in Nat /\ Size[chunk] \in Nat
        BY <2>1, <1>0
      <4>2. r \in Nat /\ r <= Size[chunk] - 1 - Argc[c]
        BY <2>1, <4>1
      <4>3. a = current_base + r + 2 /\ z = current_base + r + 1 + Argc[c]
        BY DEF Register
      <4> HIDE DEF a, z
      <4> QED BY <3>1, <4>1, <4>2, <4>3
    <3> HIDE DEF a, z
    <3>3. SubSeq(regs, a, z) \in Seq(Vals)
      BY <3>2, <1>0, SubValues
    <3>4. regs' \in Seq(Vals)
      BY <3>3, <2>1, <2>2, ActivateValues DEF Call, a, z
    <3> QED BY <3>4, <2>2 DEF Call, Values
  <2>3. CASE TailCall(c, r)
    <3>1. Slid(r, Argc[c]) \in Seq(Vals)
      BY <2>1, <2>3, SlidValues DEF TailCall
    <3> DEFINE more == IF Outgrows(c) THEN Fill(Locals[c] - OldLocals(c)) ELSE <<>>
    <3>2. more \in Seq(Vals)
      <4>1. CASE Outgrows(c)
        <5>1. Locals[c] - OldLocals(c) \in Nat
          BY <4>1, <2>1, <1>0 DEF Outgrows, OldLocals
        <5> QED BY <5>1, <4>1, FillValues
      <4>2. CASE ~Outgrows(c)
        BY <4>2, EmptySeq
      <4> QED BY <4>1, <4>2
    <3> HIDE DEF more
    <3>3. Slid(r, Argc[c]) \o more \in Seq(Vals)
      BY <3>1, <3>2, ConcatProperties
    <3> QED BY <3>3, <2>3 DEF TailCall, Values, more
  <2>4. CASE TailCallFails(c, r)
    <3>1. Slid(r, Argc[c]) \in Seq(Vals) /\ Truncated(regs, saved.len) \in Seq(Vals)
      BY <2>1, <2>4, <1>0, SlidValues, TruncatedValues DEF TailCallFails
    <3> QED BY <3>1, <2>4 DEF TailCallFails, Restore, Values
  <2> QED BY <1>3, <2>2, <2>3, <2>4
<1>4. ASSUME NEW c \in Closures, NEW args \in Tuples(Argc[c]),
             HostCall(c, args) \/ HostRefused(c, args)
      PROVE  Values'
  <2>1. c \in Chunks /\ args \in Seq(Vals)
    BY <1>0, SizeTypes, FunValues DEF Tuples
  <2>2. regs \o args \in Seq(Vals)
    BY <2>1, <1>0, ConcatProperties
  <2>3. HostCall(c, args) => regs' \in Seq(Vals)
    BY <2>1, ActivateValues DEF HostCall
  <2> QED BY <2>2, <2>3, <1>4 DEF HostCall, HostRefused, Values
<1>5. ASSUME NEW m \in Modules, Import(m) PROVE Values'
  <2>1. m \notin imported => regs' \in Seq(Vals)
    BY <1>5, <1>0, ActivateValues, EmptySeq DEF Import
  <2> QED BY <2>1, <1>5 DEF Import, Values
<1>6. CASE Halt \/ Fail \/ HostDone
  BY <1>6, <1>0, TruncatedValues DEF Halt, Fail, HostDone, Restore, Values
<1>7. CASE Run
  <2>1. Locals[Main] \in Nat
    BY SizeTypes DEF Chunks
  <2> QED BY <2>1, <1>7, FillValues DEF Run, Values
<1>8. CASE UNCHANGED vars
  BY <1>8 DEF vars, Values
<1> QED
  BY <1>1, <1>2, <1>3, <1>4, <1>5, <1>6, <1>7, <1>8 DEF Next

LEMMA InitValues == Init => Windows /\ Values
<1>1. Locals[Main] \in Nat
  BY SizeTypes DEF Chunks
<1> QED BY <1>1, FreshWindows, FillValues DEF Init, Values

\* Types: registers hold values, the ring stays within its slots, and an
\* instruction pointer stays in its chunk or at the end.
THEOREM FrameTypes == Spec => []TypeOK
<1>1. Inv /\ Windows /\ Values => TypeOK
  BY DEF Inv, Frames, Script, Windows, Values, TypeOK
<1> QED
  BY <1>1, InitValues, FrameInv, StepWindows, StepValues, PTL DEF Spec

-----------------------------------------------------------------------------
(* Sequences of sequences                                                  *)

LEMMA LeastNat ==
  ASSUME NEW T \in SUBSET Nat, T # {}
  PROVE  \E n \in T : \A m \in T : n <= m
<1>1. PICK n \in T : \A m \in T : ~ <<m, n>> \in OpToRel(<, Nat)
  BY NatLessThanWellFounded, WFMin
<1>2. \A m \in T : ~ (m < n)
  BY <1>1 DEF OpToRel
<1> QED
  BY <1>2

IsFlat(g, ss, n) == g = [i \in 1 .. n |-> IF i = 1 THEN ss[i] ELSE g[i - 1] \o ss[i]]

LEMMA FlatExists ==
  ASSUME NEW S, NEW ss \in Seq(Seq(S)), NEW k \in 1 .. Len(ss)
  PROVE  \E g : IsFlat(g, ss, k) /\ \A i \in 1 .. k : g[i] \in Seq(S)
<1> DEFINE Made(n) == \E g : IsFlat(g, ss, n) /\ \A i \in 1 .. n : g[i] \in Seq(S)
           wrong == {n \in Nat : n \in 1 .. Len(ss) /\ ~Made(n)}
<1>0. Len(ss) \in Nat
  OBVIOUS
<1>1. \A i \in 1 .. Len(ss) : ss[i] \in Seq(S)
  BY ElementOfSeq
<1> HIDE DEF Made
<1>2. SUFFICES wrong = {}
  <2>1. k \in Nat
    BY <1>0
  <2>2. Made(k)
    BY <1>2, <2>1
  <2> QED
    BY <2>2 DEF Made
<1>3. SUFFICES ASSUME wrong # {} PROVE FALSE
  OBVIOUS
<1>4. PICK n \in wrong : \A m \in wrong : n <= m
  BY <1>3, LeastNat
<1>5. n \in 1 .. Len(ss) /\ ~Made(n) /\ n \in Nat
  BY <1>4
<1>6. CASE n = 1
  <2> DEFINE g == [i \in 1 .. 1 |-> ss[i]]
  <2>1. IsFlat(g, ss, 1)
    BY DEF IsFlat
  <2>2. \A i \in 1 .. 1 : g[i] \in Seq(S)
    BY <1>1, <1>5, <1>6
  <2> HIDE DEF g
  <2>3. Made(1)
    BY <2>1, <2>2 DEF Made
  <2> QED
    BY <1>5, <1>6, <2>3
<1>7. CASE n # 1
  <2> DEFINE p == n - 1
  <2>1. p \in Nat /\ p \in 1 .. Len(ss) /\ n = p + 1 /\ p # 0
    BY <1>0, <1>5, <1>7
  <2>2. Made(p)
    BY <1>4, <2>1
  <2> HIDE DEF p
  <2>3. PICK g : IsFlat(g, ss, p) /\ \A i \in 1 .. p : g[i] \in Seq(S)
    BY <2>2 DEF Made
  <2> DEFINE h == [i \in 1 .. n |-> IF i = n THEN g[p] \o ss[n] ELSE g[i]]
  <2>4. \A i \in 1 .. n : h[i] \in Seq(S)
    <3>1. g[p] \in Seq(S) /\ ss[n] \in Seq(S)
      BY <1>1, <1>5, <2>1, <2>3
    <3>2. g[p] \o ss[n] \in Seq(S)
      BY <3>1, ConcatProperties
    <3>3. \A i \in 1 .. n : i # n => i \in 1 .. p
      BY <2>1
    <3> QED
      BY <2>3, <3>2, <3>3
  <2>5. \A i \in 1 .. n : h[i] = IF i = 1 THEN ss[i] ELSE h[i - 1] \o ss[i]
    <3>1. \A i \in 1 .. p : g[i] = IF i = 1 THEN ss[i] ELSE g[i - 1] \o ss[i]
      BY <2>3 DEF IsFlat
    <3>2. h[n] = g[p] \o ss[n] /\ \A i \in 1 .. p : h[i] = g[i]
      <4>1. n \in 1 .. n /\ \A i \in 1 .. p : i \in 1 .. n /\ i # n
        BY <2>1
      <4> QED
        BY <4>1
    <3> HIDE DEF h
    <3>3. n - 1 = p /\ n # 1
      BY <2>1
    <3>4. h[p] = g[p]
      BY <2>1, <3>2
    <3>5. ASSUME NEW i \in 1 .. p
          PROVE  h[i] = IF i = 1 THEN ss[i] ELSE h[i - 1] \o ss[i]
      <4>1. i # 1 => i - 1 \in 1 .. p
        BY <2>1
      <4> QED
        BY <3>1, <3>2, <4>1
    <3>6. \A i \in 1 .. n : i = n \/ i \in 1 .. p
      BY <2>1
    <3> QED
      BY <3>2, <3>3, <3>4, <3>5, <3>6
  <2>6. IsFlat(h, ss, n)
    <3> DEFINE e == [i \in 1 .. n |-> IF i = 1 THEN ss[i] ELSE h[i - 1] \o ss[i]]
    <3>1. DOMAIN h = 1 .. n /\ h = [i \in 1 .. n |-> h[i]]
      OBVIOUS
    <3> HIDE DEF h
    <3>2. h = e
      BY <2>5, <3>1
    <3> QED
      BY <3>2 DEF IsFlat
  <2> HIDE DEF h
  <2>7. Made(n)
    BY <2>4, <2>6 DEF Made
  <2> QED
    BY <1>5, <2>7
<1> QED
  BY <1>6, <1>7

LEMMA FlatUnique ==
  ASSUME NEW ss, NEW tt, NEW f, NEW g, NEW n \in Nat, NEW m \in Nat, IsFlat(f, ss, n), IsFlat(g, tt, m),
         NEW k \in 1 .. n, k <= m, \A i \in 1 .. k : ss[i] = tt[i]
  PROVE  f[k] = g[k]
<1> DEFINE wrong == {i \in Nat : i \in 1 .. k /\ f[i] # g[i]}
<1>1. SUFFICES ASSUME wrong # {} PROVE FALSE
  OBVIOUS
<1>2. PICK i \in wrong : \A j \in wrong : i <= j
  BY <1>1, LeastNat
<1>3. /\ i \in Nat /\ i \in 1 .. k /\ i \in 1 .. n /\ i \in 1 .. m /\ f[i] # g[i]
      /\ i # 1 => i - 1 \in Nat /\ i - 1 \in 1 .. k /\ ~(i <= i - 1)
  BY <1>2
<1>4. /\ f[i] = (IF i = 1 THEN ss[i] ELSE f[i - 1] \o ss[i])
      /\ g[i] = (IF i = 1 THEN tt[i] ELSE g[i - 1] \o tt[i])
  BY <1>3 DEF IsFlat
<1>5. i # 1 => f[i - 1] = g[i - 1]
  BY <1>2, <1>3
<1> QED
  BY <1>3, <1>4, <1>5

LEMMA FlatLast ==
  ASSUME NEW S, NEW ss \in Seq(Seq(S)), ss # <<>>
  PROVE  \E g : /\ IsFlat(g, ss, Len(ss)) /\ \A i \in 1 .. Len(ss) : g[i] \in Seq(S)
                /\ FlattenSeq(ss) = g[Len(ss)]
<1>1. Len(ss) \in Nat /\ Len(ss) # 0 /\ Len(ss) \in 1 .. Len(ss)
  BY EmptySeq
<1> DEFINE f == CHOOSE f : IsFlat(f, ss, Len(ss))
<1>2. PICK g : IsFlat(g, ss, Len(ss)) /\ \A i \in 1 .. Len(ss) : g[i] \in Seq(S)
  BY <1>1, FlatExists
<1>3. FlattenSeq(ss) = f[Len(ss)]
  BY <1>1 DEF FlattenSeq, IsFlat
<1>4. IsFlat(f, ss, Len(ss))
  BY <1>2
<1> HIDE DEF f
<1>5. f[Len(ss)] = g[Len(ss)]
  BY <1>1, <1>2, <1>4, FlatUnique
<1> QED
  BY <1>2, <1>3, <1>5

\* Flattening, one block more.
LEMMA FlattenAppend ==
  ASSUME NEW S, NEW ss \in Seq(Seq(S)), NEW s \in Seq(S)
  PROVE  /\ FlattenSeq(ss) \in Seq(S)
         /\ FlattenSeq(Append(ss, s)) = FlattenSeq(ss) \o s
<1> DEFINE tt == Append(ss, s)  n == Len(ss)
<1>1. /\ tt \in Seq(Seq(S)) /\ Len(tt) = n + 1 /\ tt[n + 1] = s /\ n \in Nat
      /\ \A i \in 1 .. n : tt[i] = ss[i]
  BY AppendProperties
<1> HIDE DEF tt
<1>2. tt # <<>>
  <2>1. Len(<<>>) = 0 /\ n + 1 # 0
    BY <1>1, EmptySeq
  <2> QED
    BY <1>1, <2>1
<1>3. PICK g : IsFlat(g, tt, n + 1) /\ FlattenSeq(tt) = g[n + 1]
  BY <1>1, <1>2, FlatLast
<1>4. g[n + 1] = IF n + 1 = 1 THEN s ELSE g[n] \o s
  <2> DEFINE m == n + 1
  <2>1. m \in 1 .. m /\ m - 1 = n
    BY <1>1
  <2> HIDE DEF m
  <2>2. g[m] = IF m = 1 THEN tt[m] ELSE g[m - 1] \o tt[m]
    BY <1>3, <2>1 DEF IsFlat, m
  <2> QED
    BY <1>1, <2>1, <2>2 DEF m
<1>5. CASE ss = <<>>
  <2>1. FlattenSeq(ss) = <<>> /\ n = 0
    BY <1>5 DEF FlattenSeq
  <2>2. <<>> \o s = s /\ <<>> \in Seq(S)
    BY ConcatEmptySeq
  <2> QED
    BY <1>3, <1>4, <2>1, <2>2 DEF tt
<1>6. CASE ss # <<>>
  <2>1. PICK f : IsFlat(f, ss, n) /\ f[n] \in Seq(S) /\ FlattenSeq(ss) = f[n]
    <3>1. n \in 1 .. n
      BY <1>1, <1>6, EmptySeq
    <3> QED
      BY <1>6, <3>1, FlatLast
  <2>2. n \in 1 .. n /\ n + 1 \in Nat /\ n <= n + 1 /\ n # 0
    BY <1>1, <1>6, EmptySeq
  <2>3. f[n] = g[n]
    <3>1. IsFlat(f, ss, n) /\ IsFlat(g, tt, n + 1) /\ \A i \in 1 .. n : ss[i] = tt[i]
      BY <1>1, <1>3, <2>1
    <3> HIDE DEF n
    <3> QED
      BY <2>2, <3>1, <1>1, FlatUnique, SMTT(30)
  <2> QED
    BY <1>1, <1>3, <1>4, <2>1, <2>2, <2>3 DEF tt
<1> QED
  BY <1>5, <1>6

-----------------------------------------------------------------------------
(* One half of the frames, as a stack                                      *)

LEMMA JoinThree ==
  ASSUME NEW S
  PROVE  \A x, y, z \in Seq(S) : (x \o y) \o z = x \o (y \o z)
<1>1. ASSUME NEW x \in Seq(S), NEW y \in Seq(S), NEW z \in Seq(S)
      PROVE  (x \o y) \o z = x \o (y \o z)
  BY ConcatAssociative
<1> QED
  BY <1>1

\* A half s without the trampoline that it has at the front, if there are blocks below.
Cut(s, below) == IF below > 0 THEN Tail(s) ELSE s

\* The stack of what is in the blocks hs and in memory, s.
Log(hs, s) == FlattenSeq([b \in DOMAIN hs |-> Cut(hs[b], b - 1)]) \o Cut(s, Len(hs))

Cuts(hs) == [b \in DOMAIN hs |-> Cut(hs[b], b - 1)]

LEMMA TailOf ==
  ASSUME NEW S, NEW s \in Seq(S), s # <<>>
  PROVE  /\ Tail(s) \in Seq(S) /\ Len(Tail(s)) = Len(s) - 1 /\ Len(s) \in Nat /\ Len(s) >= 1
         /\ \A i \in 1 .. Len(s) - 1 : Tail(s)[i] = s[i + 1]
<1>1. Len(s) \in Nat \ {0}
  BY EmptySeq
<1> QED
  BY <1>1, HeadTailProperties

LEMMA PieceOf ==
  ASSUME NEW S, NEW s \in Seq(S), NEW a \in Nat \ {0}, NEW b \in 0 .. Len(s), a <= b + 1
  PROVE  /\ SubSeq(s, a, b) \in Seq(S) /\ Len(SubSeq(s, a, b)) = b + 1 - a
         /\ \A i \in 1 .. b + 1 - a : SubSeq(s, a, b)[i] = s[a + i - 1]
<1>1. Len(s) \in Nat /\ b \in Nat /\ a \in Int /\ b \in Int
  OBVIOUS
<1>2. \A i \in a .. b : s[i] \in S
  BY <1>1, ElementOfSeq
<1>3. /\ SubSeq(s, a, b) \in Seq(S)
      /\ Len(SubSeq(s, a, b)) = IF a <= b THEN b - a + 1 ELSE 0
      /\ \A i \in 1 .. b - a + 1 : SubSeq(s, a, b)[i] = s[a + i - 1]
  BY <1>1, <1>2, SubSeqProperties
<1>4. b - a + 1 = b + 1 - a /\ (~(a <= b) => b + 1 - a = 0)
  BY <1>1
<1> QED
  BY <1>3, <1>4

\* Cutting s in two changes nothing, whatever t stands before the second part.
LEMMA CutSpill ==
  ASSUME NEW S, NEW s \in Seq(S), NEW k \in 1 .. Len(s), NEW t \in S, NEW below \in Nat
  PROVE  /\ Cut(SubSeq(s, 1, k), below) \in Seq(S)
         /\ Cut(<<t>> \o SubSeq(s, k + 1, Len(s)), 1) \in Seq(S)
         /\ Cut(SubSeq(s, 1, k), below) \o Cut(<<t>> \o SubSeq(s, k + 1, Len(s)), 1) = Cut(s, below)
<1> DEFINE n == Len(s)  a == SubSeq(s, 1, k)  b == SubSeq(s, k + 1, n)  u == <<t>> \o b
<1>1. n \in Nat /\ k \in Nat /\ k >= 1 /\ k <= n
  OBVIOUS
<1>2. a \in Seq(S) /\ Len(a) = k /\ \A i \in 1 .. k : a[i] = s[i]
  BY <1>1, PieceOf
<1>3. b \in Seq(S) /\ Len(b) = n - k /\ \A i \in 1 .. n - k : b[i] = s[k + i]
  <2>1. k + 1 \in Nat \ {0} /\ n \in 0 .. Len(s) /\ k + 1 <= n + 1
    BY <1>1
  <2>2. /\ b \in Seq(S) /\ Len(b) = n + 1 - (k + 1)
        /\ \A i \in 1 .. n + 1 - (k + 1) : b[i] = s[k + 1 + i - 1]
    BY <2>1, PieceOf
  <2> QED
    BY <2>2, <1>1
<1> HIDE DEF a, b
<1>4. u \in Seq(S) /\ Len(u) = n - k + 1 /\ \A i \in 1 .. n - k : u[i + 1] = b[i]
  <2>1. <<t>> \in Seq(S) /\ Len(<<t>>) = 1
    OBVIOUS
  <2>2. /\ u \in Seq(S) /\ Len(u) = 1 + Len(b)
        /\ \A i \in 1 .. 1 + Len(b) : u[i] = IF i <= 1 THEN <<t>>[i] ELSE b[i - 1]
    BY <2>1, <1>3, ConcatProperties
  <2> QED
    BY <2>2, <1>1, <1>3
<1> HIDE DEF u
<1>5. Tail(u) = b
  <2>1. u # <<>>
    BY <1>1, <1>4, EmptySeq
  <2>2. /\ Tail(u) \in Seq(S) /\ Len(Tail(u)) = n - k
        /\ \A i \in 1 .. n - k : Tail(u)[i] = b[i]
    BY <2>1, <1>1, <1>4, TailOf
  <2> QED
    BY <2>2, <1>3, SeqEqual
<1>6. a \o b = s
  <2>1. a \o b \in Seq(S) /\ Len(a \o b) = n
        /\ \A i \in 1 .. k + (n - k) : (a \o b)[i] = IF i <= k THEN a[i] ELSE b[i - k]
    <3> HIDE DEF n
    <3>1. /\ a \o b \in Seq(S) /\ Len(a \o b) = Len(a) + Len(b)
          /\ \A i \in 1 .. Len(a) + Len(b) : (a \o b)[i] = IF i <= Len(a) THEN a[i] ELSE b[i - Len(a)]
      BY <1>2, <1>3, ConcatProperties
    <3> QED
      BY <3>1, <1>1, <1>2, <1>3
  <2>2. ASSUME NEW i \in 1 .. n PROVE (a \o b)[i] = s[i]
    <3>1. CASE i <= k
      BY <3>1, <2>1, <1>1, <1>2
    <3>2. CASE ~(i <= k)
      <4>1. i - k \in 1 .. n - k /\ k + (i - k) = i
        BY <3>2, <1>1
      <4> QED
        BY <3>2, <4>1, <2>1, <1>1, <1>3
    <3> QED
      BY <3>1, <3>2
  <2> QED
    BY <2>1, <2>2, SeqEqual
<1>7. a # <<>>
  BY <1>1, <1>2, EmptySeq
<1>8. s # <<>>
  BY <1>1, EmptySeq
<1>9. Tail(a) \in Seq(S) /\ Tail(a) \o b = Tail(s)
  <2>1. /\ Tail(a) \in Seq(S) /\ Len(Tail(a)) = k - 1
        /\ \A i \in 1 .. k - 1 : Tail(a)[i] = a[i + 1]
    BY <1>2, <1>7, TailOf
  <2>2. /\ Tail(s) \in Seq(S) /\ Len(Tail(s)) = n - 1
        /\ \A i \in 1 .. n - 1 : Tail(s)[i] = s[i + 1]
    BY <1>8, TailOf
  <2>3. Tail(a) \o b \in Seq(S) /\ Len(Tail(a) \o b) = k - 1 + (n - k)
        /\ \A i \in 1 .. k - 1 + (n - k) :
             (Tail(a) \o b)[i] = IF i <= k - 1 THEN Tail(a)[i] ELSE b[i - (k - 1)]
    <3> DEFINE w == Tail(a)
    <3>1. w \in Seq(S) /\ Len(w) = k - 1
      BY <2>1
    <3> HIDE DEF w
    <3>2. /\ w \o b \in Seq(S) /\ Len(w \o b) = Len(w) + Len(b)
          /\ \A i \in 1 .. Len(w) + Len(b) : (w \o b)[i] = IF i <= Len(w) THEN w[i] ELSE b[i - Len(w)]
      BY <3>1, <1>3, ConcatProperties
    <3> QED
      BY <3>1, <3>2, <1>3 DEF w
  <2>4. ASSUME NEW i \in 1 .. n - 1 PROVE (Tail(a) \o b)[i] = Tail(s)[i]
    <3>1. i \in 1 .. k - 1 + (n - k)
      BY <1>1
    <3>2. CASE i <= k - 1
      <4>1. i \in 1 .. k - 1 /\ i + 1 \in 1 .. k
        BY <3>2, <1>1
      <4>2. (Tail(a) \o b)[i] = Tail(a)[i]
        BY <3>1, <3>2, <2>3
      <4> QED
        BY <4>1, <4>2, <2>1, <2>2, <1>2
    <3>3. CASE ~(i <= k - 1)
      <4>1. i - (k - 1) \in 1 .. n - k /\ k + (i - (k - 1)) = i + 1
        BY <3>3, <1>1
      <4>2. (Tail(a) \o b)[i] = b[i - (k - 1)]
        BY <3>1, <3>3, <2>3
      <4>3. b[i - (k - 1)] = s[i + 1]
        BY <4>1, <1>3
      <4> QED
        BY <4>2, <4>3, <2>2
    <3> QED
      BY <3>2, <3>3
  <2>5. Len(Tail(a) \o b) = n - 1
    BY <2>3, <1>1
  <2> QED
    BY <2>1, <2>2, <2>3, <2>4, <2>5, SeqEqual
<1>10. Cut(u, 1) = b
  BY <1>5 DEF Cut
<1>11. Cut(a, below) \in Seq(S) /\ Cut(a, below) \o b = Cut(s, below)
  <2>1. CASE below > 0
    BY <2>1, <1>9 DEF Cut
  <2>2. CASE ~(below > 0)
    BY <2>2, <1>2, <1>6 DEF Cut
  <2> QED
    BY <2>1, <2>2
<1>12. Cut(a, below) \in Seq(S) /\ Cut(u, 1) \in Seq(S) /\ Cut(a, below) \o Cut(u, 1) = Cut(s, below)
  BY <1>3, <1>10, <1>11
<1> QED
  BY <1>12 DEF a, b, u, n

LEMMA CutAppend ==
  ASSUME NEW S, NEW s \in Seq(S), NEW e \in S, NEW below \in Nat, below > 0 => s # <<>>
  PROVE  Cut(s, below) \in Seq(S) /\ Cut(Append(s, e), below) = Append(Cut(s, below), e)
<1>1. CASE ~(below > 0)
  BY <1>1 DEF Cut
<1>2. CASE below > 0
  <2> DEFINE n == Len(s)  u == Append(s, e)  v == Append(Tail(s), e)
  <2>1. /\ Tail(s) \in Seq(S) /\ Len(Tail(s)) = n - 1 /\ n \in Nat /\ n >= 1
        /\ \A i \in 1 .. n - 1 : Tail(s)[i] = s[i + 1]
    BY <1>2, TailOf
  <2>2. u \in Seq(S) /\ Len(u) = n + 1 /\ u[n + 1] = e /\ \A i \in 1 .. n : u[i] = s[i]
    BY AppendProperties
  <2>3. /\ v \in Seq(S) /\ Len(v) = n - 1 + 1 /\ v[n - 1 + 1] = e
        /\ \A i \in 1 .. n - 1 : v[i] = Tail(s)[i]
    BY <2>1, AppendProperties
  <2> HIDE DEF u, v, n
  <2>4. /\ Tail(u) \in Seq(S) /\ Len(Tail(u)) = n /\ \A i \in 1 .. n : Tail(u)[i] = u[i + 1]
    <3>1. u # <<>>
      BY <2>1, <2>2, EmptySeq
    <3>2. /\ Tail(u) \in Seq(S) /\ Len(Tail(u)) = Len(u) - 1
          /\ \A i \in 1 .. Len(u) - 1 : Tail(u)[i] = u[i + 1]
      BY <3>1, <2>2, TailOf
    <3> QED
      BY <3>2, <2>1, <2>2
  <2>5. ASSUME NEW i \in 1 .. n PROVE Tail(u)[i] = v[i]
    <3>1. CASE i = n
      BY <3>1, <2>1, <2>2, <2>3, <2>4
    <3>2. CASE i # n
      <4>1. i \in 1 .. n - 1 /\ i + 1 \in 1 .. n
        BY <3>2, <2>1
      <4>2. v[i] = s[i + 1]
        BY <4>1, <2>1, <2>3
      <4>3. Tail(u)[i] = s[i + 1]
        BY <4>1, <2>2, <2>4
      <4> QED
        BY <4>2, <4>3
    <3> QED
      BY <3>1, <3>2
  <2>6. Len(v) = n
    BY <2>1, <2>3
  <2>7. Tail(u) = v
    BY <2>3, <2>4, <2>5, <2>6, SeqEqual
  <2> QED
    BY <1>2, <2>1, <2>7 DEF Cut, u, v
<1> QED
  BY <1>1, <1>2

LEMMA CutConcat ==
  ASSUME NEW S, NEW s \in Seq(S), NEW t \in Seq(S), NEW below \in Nat, below > 0 => s # <<>>
  PROVE  Cut(s, below) \in Seq(S) /\ Cut(s \o t, below) = Cut(s, below) \o t
<1>1. CASE ~(below > 0)
  BY <1>1 DEF Cut
<1>2. CASE below > 0
  <2> DEFINE n == Len(s)  m == Len(t)  u == s \o t  w == Tail(s)  v == w \o t
  <2>1. /\ w \in Seq(S) /\ Len(w) = n - 1 /\ n \in Nat /\ n >= 1 /\ m \in Nat
        /\ \A i \in 1 .. n - 1 : w[i] = s[i + 1]
    BY <1>2, TailOf, LenProperties
  <2>2. u \in Seq(S) /\ Len(u) = n + m
        /\ \A i \in 1 .. n + m : u[i] = IF i <= n THEN s[i] ELSE t[i - n]
    BY ConcatProperties
  <2> HIDE DEF n, m, u, w
  <2>3. /\ v \in Seq(S) /\ Len(v) = n - 1 + m
        /\ \A i \in 1 .. n - 1 + m : v[i] = IF i <= n - 1 THEN w[i] ELSE t[i - (n - 1)]
    <3>1. /\ v \in Seq(S) /\ Len(v) = Len(w) + m
          /\ \A i \in 1 .. Len(w) + m : v[i] = IF i <= Len(w) THEN w[i] ELSE t[i - Len(w)]
      BY <2>1, ConcatProperties DEF m
    <3> HIDE DEF v
    <3> QED
      BY <3>1, <2>1
  <2> HIDE DEF v
  <2>4. /\ Tail(u) \in Seq(S) /\ Len(Tail(u)) = n + m - 1
        /\ \A i \in 1 .. n + m - 1 : Tail(u)[i] = u[i + 1]
    <3>1. u # <<>>
      BY <2>1, <2>2, EmptySeq
    <3>2. /\ Tail(u) \in Seq(S) /\ Len(Tail(u)) = Len(u) - 1
          /\ \A i \in 1 .. Len(u) - 1 : Tail(u)[i] = u[i + 1]
      BY <3>1, <2>2, TailOf
    <3> QED
      BY <3>2, <2>1, <2>2
  <2>5. ASSUME NEW i \in 1 .. n + m - 1 PROVE Tail(u)[i] = v[i]
    <3>1. i + 1 \in 1 .. n + m /\ i \in 1 .. n - 1 + m /\ i \in Nat
      BY <2>1
    <3>2. Tail(u)[i] = IF i + 1 <= n THEN s[i + 1] ELSE t[i + 1 - n]
      <4>1. Tail(u)[i] = u[i + 1]
        BY <2>4
      <4>2. i + 1 - n = i - n + 1
        BY <3>1, <2>1
      <4> QED
        BY <3>1, <4>1, <4>2, <2>1, <2>2
    <3>3. CASE i <= n - 1
      <4>1. i \in 1 .. n - 1 /\ i + 1 <= n
        BY <3>1, <3>3, <2>1
      <4>2. v[i] = w[i]
        BY <3>1, <3>3, <2>3
      <4> QED
        BY <3>2, <4>1, <4>2, <2>1
    <3>4. CASE ~(i <= n - 1)
      <4>1. ~(i + 1 <= n) /\ i + 1 - n = i - (n - 1)
        BY <3>1, <3>4, <2>1
      <4>2. v[i] = t[i - (n - 1)]
        BY <3>1, <3>4, <2>3
      <4> QED
        BY <3>2, <4>1, <4>2
    <3> QED
      BY <3>3, <3>4
  <2>6. Len(v) = n + m - 1
    BY <2>1, <2>3
  <2>7. Tail(u) = v
    BY <2>3, <2>4, <2>5, <2>6, SeqEqual
  <2> QED
    BY <1>2, <2>1, <2>7 DEF Cut, u, v, w
<1> QED
  BY <1>1, <1>2

\* The blocks, of which only the first may be empty.
Filled(hs) == \A b \in 1 .. Len(hs) : b > 1 => hs[b] # <<>>

LEMMA CutsOf ==
  ASSUME NEW S, NEW hs \in Seq(Seq(S)), Filled(hs)
  PROVE  /\ Cuts(hs) \in Seq(Seq(S)) /\ Len(Cuts(hs)) = Len(hs)
         /\ \A b \in 1 .. Len(hs) : Cuts(hs)[b] = Cut(hs[b], b - 1)
<1> DEFINE n == Len(hs)
<1>1. n \in Nat /\ DOMAIN hs = 1 .. n
  BY LenProperties
<1>2. ASSUME NEW b \in 1 .. n PROVE Cut(hs[b], b - 1) \in Seq(S)
  <2>1. hs[b] \in Seq(S)
    BY ElementOfSeq
  <2>2. CASE b > 1
    <3>1. hs[b] # <<>>
      BY <2>2 DEF Filled
    <3> QED
      BY <2>1, <2>2, <3>1, TailOf DEF Cut
  <2> QED
    BY <2>1, <2>2 DEF Cut
<1> HIDE DEF n
<1>3. Cuts(hs) = [b \in 1 .. n |-> Cut(hs[b], b - 1)]
  BY <1>1 DEF Cuts
<1>4. Cuts(hs) \in [1 .. n -> Seq(S)]
  BY <1>2, <1>3
<1>5. Cuts(hs) \in Seq(Seq(S)) /\ Len(Cuts(hs)) = n
  BY <1>1, <1>4, SeqDef
<1> QED
  BY <1>3, <1>5 DEF n

LEMMA CutsAppend ==
  ASSUME NEW S, NEW hs \in Seq(Seq(S)), Filled(hs), NEW s \in Seq(S), Len(hs) > 0 => s # <<>>
  PROVE  /\ Append(hs, s) \in Seq(Seq(S)) /\ Filled(Append(hs, s)) /\ Append(hs, s) # <<>>
         /\ Cut(s, Len(hs)) \in Seq(S)
         /\ Cuts(Append(hs, s)) = Append(Cuts(hs), Cut(s, Len(hs)))
<1> DEFINE n == Len(hs)  gs == Append(hs, s)  c == Cut(s, Len(hs))  left == Cuts(gs)
           right == Append(Cuts(hs), c)
<1>1. /\ gs \in Seq(Seq(S)) /\ Len(gs) = n + 1 /\ gs[n + 1] = s /\ n \in Nat
      /\ \A i \in 1 .. n : gs[i] = hs[i]
  BY AppendProperties, LenProperties
<1>2. hs # <<>> <=> n + 1 > 1
  BY <1>1, EmptySeq
<1> HIDE DEF gs
<1>3. Filled(gs)
  <2> SUFFICES ASSUME NEW b \in 1 .. n + 1, b > 1 PROVE gs[b] # <<>>
    BY <1>1 DEF Filled
  <2>1. CASE b = n + 1
    BY <2>1, <1>1, <1>2
  <2>2. CASE b # n + 1
    <3>1. b \in 1 .. n
      BY <2>2, <1>1
    <3> QED
      BY <3>1, <1>1 DEF Filled
  <2> QED
    BY <2>1, <2>2
<1>4. c \in Seq(S)
  BY TailOf DEF Cut
<1>5. /\ left \in Seq(Seq(S)) /\ Len(left) = n + 1
      /\ \A b \in 1 .. n + 1 : left[b] = Cut(gs[b], b - 1)
  BY <1>1, <1>3, CutsOf
<1>6. /\ Cuts(hs) \in Seq(Seq(S)) /\ Len(Cuts(hs)) = n
      /\ \A b \in 1 .. n : Cuts(hs)[b] = Cut(hs[b], b - 1)
  BY CutsOf
<1> HIDE DEF left, c
<1>7. /\ right \in Seq(Seq(S)) /\ Len(right) = n + 1 /\ right[n + 1] = c
      /\ \A b \in 1 .. n : right[b] = Cuts(hs)[b]
  BY <1>4, <1>6, AppendProperties
<1> HIDE DEF right
<1>8. ASSUME NEW b \in 1 .. n + 1 PROVE left[b] = right[b]
  <2>1. CASE b = n + 1
    <3>1. left[b] = Cut(s, n + 1 - 1)
      BY <2>1, <1>1, <1>5
    <3>2. n + 1 - 1 = Len(hs)
      BY <1>1
    <3> QED
      BY <3>1, <3>2, <2>1, <1>7 DEF c
  <2>2. CASE b # n + 1
    <3>1. b \in 1 .. n
      BY <2>2, <1>1
    <3> QED
      BY <3>1, <1>1, <1>5, <1>6, <1>7
  <2> QED
    BY <2>1, <2>2
<1>9. left = right
  <2> HIDE DEF n
  <2> QED
    BY <1>5, <1>7, <1>8, SeqEqual
<1>10. gs # <<>>
  BY <1>1, <1>2, EmptySeq
<1> QED
  BY <1>1, <1>3, <1>4, <1>9, <1>10 DEF gs, left, right, c

LEMMA LogTyped ==
  ASSUME NEW S, NEW hs \in Seq(Seq(S)), Filled(hs), NEW s \in Seq(S), Len(hs) > 0 => s # <<>>
  PROVE  FlattenSeq(Cuts(hs)) \in Seq(S) /\ Cut(s, Len(hs)) \in Seq(S) /\ Log(hs, s) \in Seq(S)
<1>1. Cuts(hs) \in Seq(Seq(S)) /\ <<>> \in Seq(S)
  BY CutsOf
<1>2. FlattenSeq(Cuts(hs)) \in Seq(S)
  BY <1>1, FlattenAppend
<1>3. Cut(s, Len(hs)) \in Seq(S)
  BY TailOf DEF Cut
<1> QED
  BY <1>2, <1>3, ConcatProperties DEF Log, Cuts

\* A batch goes into a block, and t takes its place.
LEMMA LogSpill ==
  ASSUME NEW S, NEW hs \in Seq(Seq(S)), Filled(hs), NEW s \in Seq(S), NEW k \in 1 .. Len(s), NEW t \in S
  PROVE  Log(Append(hs, SubSeq(s, 1, k)), <<t>> \o SubSeq(s, k + 1, Len(s))) = Log(hs, s)
<1> DEFINE a == SubSeq(s, 1, k)  u == <<t>> \o SubSeq(s, k + 1, Len(s))  below == Len(hs)
           F == FlattenSeq(Cuts(hs))
<1>1. a \in Seq(S) /\ a # <<>> /\ s # <<>>
  <2>1. Len(s) \in Nat /\ k \in 0 .. Len(s) /\ 1 <= k + 1
    OBVIOUS
  <2>2. a \in Seq(S) /\ Len(a) = k + 1 - 1
    BY <2>1, PieceOf
  <2>3. Len(a) # 0 /\ Len(s) # 0 /\ Len(<<>>) = 0
    BY <2>1, <2>2
  <2> QED
    BY <2>2, <2>3
<1>2. Cut(a, below) \in Seq(S) /\ Cut(u, 1) \in Seq(S) /\ Cut(a, below) \o Cut(u, 1) = Cut(s, below)
  BY CutSpill
<1> HIDE DEF a, u
<1>3. Append(hs, a) # <<>> /\ Cuts(Append(hs, a)) = Append(Cuts(hs), Cut(a, below))
  BY <1>1, CutsAppend
<1>4. F \in Seq(S) /\ Cuts(hs) \in Seq(Seq(S))
  BY <1>1, LogTyped, CutsOf
<1>5. FlattenSeq(Cuts(Append(hs, a))) = F \o Cut(a, below)
  BY <1>2, <1>3, <1>4, FlattenAppend
<1>6. Log(Append(hs, a), u) = (F \o Cut(a, below)) \o Cut(u, 1)
  <2>1. Len(Append(hs, a)) \in Nat /\ Len(Append(hs, a)) > 0
    BY <1>1, AppendProperties
  <2>2. Cut(u, Len(Append(hs, a))) = Cut(u, 1)
    BY <2>1 DEF Cut
  <2>3. Log(Append(hs, a), u) = FlattenSeq(Cuts(Append(hs, a))) \o Cut(u, Len(Append(hs, a)))
    BY DEF Log, Cuts
  <2> HIDE DEF F, below
  <2> QED
    BY <2>2, <2>3, <1>5
<1>7. Log(hs, s) = F \o Cut(s, below)
  BY DEF Log, Cuts
<1> HIDE DEF F, below
<1>8. (F \o Cut(a, below)) \o Cut(u, 1) = F \o (Cut(a, below) \o Cut(u, 1))
  <2> DEFINE y == Cut(a, below)  z == Cut(u, 1)
  <2>1. y \in Seq(S) /\ z \in Seq(S)
    BY <1>2
  <2> HIDE DEF y, z
  <2>2. \A x1, x2, x3 \in Seq(S) : (x1 \o x2) \o x3 = x1 \o (x2 \o x3)
    BY JoinThree, SMTT(60)
  <2>3. (F \o y) \o z = F \o (y \o z)
    BY <1>4, <2>1, <2>2
  <2> QED
    BY <2>3 DEF y, z
<1> QED
  BY <1>2, <1>6, <1>7, <1>8 DEF a, u

LEMMA LogPush ==
  ASSUME NEW S, NEW hs \in Seq(Seq(S)), Filled(hs), NEW s \in Seq(S), NEW e \in S, Len(hs) > 0 => s # <<>>
  PROVE  Log(hs, Append(s, e)) = Append(Log(hs, s), e)
<1> DEFINE F == FlattenSeq(Cuts(hs))  below == Len(hs)  c == Cut(s, below)
<1>1. F \in Seq(S) /\ c \in Seq(S)
  BY LogTyped
<1>2. Cut(Append(s, e), below) = Append(c, e)
  <2>1. below \in Nat /\ (below > 0 => s # <<>>)
    BY LenProperties
  <2> HIDE DEF below
  <2> QED
    BY <2>1, CutAppend
<1>3. Log(hs, Append(s, e)) = F \o Append(c, e) /\ Log(hs, s) = F \o c
  BY <1>2 DEF Log, Cuts
<1> HIDE DEF F, c
<1>4. \A x, y \in Seq(S), z \in S : x \o Append(y, z) = Append(x \o y, z)
  BY ConcatAppend
<1>5. F \o Append(c, e) = Append(F \o c, e)
  BY ONLY <1>1, <1>4, e \in S, Zenon
<1> QED
  BY ONLY <1>3, <1>5, Zenon

\* The last of s taken off.
LEMMA LastOff ==
  ASSUME NEW S, NEW s \in Seq(S), s # <<>>
  PROVE  /\ SubSeq(s, 1, Len(s) - 1) \in Seq(S) /\ s[Len(s)] \in S /\ Len(s) \in Nat \ {0}
         /\ Len(SubSeq(s, 1, Len(s) - 1)) = Len(s) - 1
         /\ \A i \in 1 .. Len(s) - 1 : SubSeq(s, 1, Len(s) - 1)[i] = s[i]
         /\ s = Append(SubSeq(s, 1, Len(s) - 1), s[Len(s)])
<1> DEFINE n == Len(s)  f == SubSeq(s, 1, n - 1)  g == Append(f, s[n])
<1>1. n \in Nat /\ n # 0 /\ n - 1 \in 0 .. n /\ n \in 1 .. n
  BY EmptySeq
<1>2. s[n] \in S
  BY <1>1, ElementOfSeq
<1>3. f \in Seq(S) /\ Len(f) = n - 1 /\ \A i \in 1 .. n - 1 : f[i] = s[i]
  <2> DEFINE k == n - 1
  <2>2. k \in 0 .. Len(s) /\ 1 \in Nat \ {0} /\ 1 <= k + 1
    BY <1>1
  <2> HIDE DEF k
  <2>3. /\ SubSeq(s, 1, k) \in Seq(S) /\ Len(SubSeq(s, 1, k)) = k + 1 - 1
        /\ \A i \in 1 .. k + 1 - 1 : SubSeq(s, 1, k)[i] = s[1 + i - 1]
    BY <2>2, PieceOf
  <2>1. /\ f \in Seq(S) /\ Len(f) = n - 1 + 1 - 1
        /\ \A i \in 1 .. n - 1 + 1 - 1 : f[i] = s[1 + i - 1]
    BY <2>3 DEF k
  <2> QED
    BY <2>1, <1>1
<1> HIDE DEF f
<1>4. g \in Seq(S) /\ Len(g) = n - 1 + 1 /\ g[n - 1 + 1] = s[n] /\ \A i \in 1 .. n - 1 : g[i] = f[i]
  BY <1>2, <1>3, AppendProperties
<1> HIDE DEF g
<1>5. ASSUME NEW i \in 1 .. n PROVE s[i] = g[i]
  <2>1. CASE i = n
    BY <2>1, <1>1, <1>4
  <2>2. CASE i # n
    <3>1. i \in 1 .. n - 1
      BY <2>2, <1>1
    <3> QED
      BY <3>1, <1>3, <1>4
  <2> QED
    BY <2>1, <2>2
<1>6. Len(g) = n
  BY <1>1, <1>4
<1>7. s = g
  BY <1>4, <1>5, <1>6, SeqEqual
<1> QED
  BY <1>1, <1>2, <1>3, <1>7 DEF f, g

\* The newest block comes back to where its trampoline stood.
LEMMA LogRestore ==
  ASSUME NEW S, NEW hs \in Seq(Seq(S)), Filled(hs), hs # <<>>, NEW s \in Seq(S), s # <<>>
  PROVE  /\ Filled(Front(hs)) /\ Front(hs) \in Seq(Seq(S)) /\ Last(hs) \o Tail(s) \in Seq(S)
         /\ Log(Front(hs), Last(hs) \o Tail(s)) = Log(hs, s)
<1> DEFINE n == Len(hs)  gs == Front(hs)  b == Last(hs)  below == Len(gs)  G == FlattenSeq(Cuts(gs))
           t == Tail(s)
<1>1. /\ gs \in Seq(Seq(S)) /\ Len(gs) = n - 1 /\ n \in Nat \ {0} /\ b = hs[n] /\ b \in Seq(S)
      /\ hs = Append(gs, b) /\ \A i \in 1 .. n - 1 : gs[i] = hs[i]
  <2>1. gs = SubSeq(hs, 1, n - 1) /\ b = hs[n]
    BY DEF Front, Last
  <2> HIDE DEF gs, b, n
  <2> QED
    BY <2>1, LastOff DEF n
<1>2. below > 0 => b # <<>>
  <2>1. below > 0 => n > 1
    BY <1>1, EmptySeq
  <2>2. n \in 1 .. n
    BY <1>1
  <2> QED
    BY <1>1, <2>1, <2>2 DEF Filled
<1>3. Filled(gs)
  <2>1. \A i \in 1 .. n - 1 : i \in 1 .. n
    BY <1>1
  <2> QED
    BY <1>1, <2>1 DEF Filled
<1>4. t \in Seq(S)
  BY TailOf
<1> HIDE DEF gs, b, t
<1>5. Cuts(hs) = Append(Cuts(gs), Cut(b, below)) /\ Cut(b, below) \in Seq(S)
  BY <1>1, <1>2, <1>3, CutsAppend
<1>6. G \in Seq(S) /\ FlattenSeq(Cuts(hs)) = G \o Cut(b, below)
  <2>1. Cuts(gs) \in Seq(Seq(S))
    BY <1>1, <1>3, CutsOf
  <2> QED
    BY <1>5, <2>1, FlattenAppend
<1>7. Cut(b \o t, below) = Cut(b, below) \o t /\ b \o t \in Seq(S)
  <2>1. below \in Nat
    BY <1>1
  <2> HIDE DEF below
  <2>2. b \o t \in Seq(S)
    BY <1>1, <1>4, ConcatProperties
  <2>3. b \in Seq(S) /\ (below > 0 => b # <<>>)
    BY <1>1, <1>2
  <2> HIDE DEF n, G
  <2>4. Cut(b \o t, below) = Cut(b, below) \o t
    BY <2>1, <2>3, <1>4, CutConcat
  <2> QED
    BY <2>2, <2>4
<1>8. Log(hs, s) = (G \o Cut(b, below)) \o t /\ Log(gs, b \o t) = G \o (Cut(b, below) \o t)
  <2>1. Log(hs, s) = FlattenSeq(Cuts(hs)) \o Cut(s, n)
    BY DEF Log, Cuts
  <2>2. Log(gs, b \o t) = G \o Cut(b \o t, below)
    BY DEF Log, Cuts
  <2>3. Cut(s, n) = t
    BY <1>1 DEF Cut, t
  <2> HIDE DEF G, n, below
  <2> QED
    BY <2>1, <2>2, <2>3, <1>6, <1>7
<1> HIDE DEF G, below
<1>9. (G \o Cut(b, below)) \o t = G \o (Cut(b, below) \o t)
  <2> DEFINE cut == Cut(b, below)
  <2>1. cut \in Seq(S)
    BY <1>5
  <2> HIDE DEF cut
  <2>2. \A x1, x2, x3 \in Seq(S) : (x1 \o x2) \o x3 = x1 \o (x2 \o x3)
    BY JoinThree, SMTT(60)
  <2>3. (G \o cut) \o t = G \o (cut \o t)
    BY <1>4, <1>6, <2>1, <2>2
  <2> QED
    BY <2>3 DEF cut
<1> QED
  BY <1>1, <1>3, <1>7, <1>8, <1>9 DEF gs, b, t

-----------------------------------------------------------------------------
(* The logical stack, pushed and popped                                    *)

InfosIn(sp) == [b \in 1 .. Len(sp) |-> sp[b].infos]
MetasIn(sp) == [b \in 1 .. Len(sp) |-> sp[b].metas]

\* What stands without its trampoline.
LEMMA RealOf ==
  ASSUME NEW is, NEW ms, Matched(is, ms), NEW below \in Nat,
         \A i \in 1 .. Len(ms) : ms[i].closure = Tramp <=> i = 1 /\ below > 0,
         below > 0 => Len(ms) >= 1
  PROVE  RealInfos(is) = Cut(is, below) /\ RealMetas(ms) = Cut(ms, below)
<1>1. is \in Seq(Info) /\ ms \in Seq(Meta) /\ Len(is) = Len(ms) /\ Len(ms) \in Nat
  BY DEF Matched
<1>2. is # <<>> => Head(is) = is[1] /\ Len(is) >= 1
  BY <1>1, EmptySeq
<1>3. ms # <<>> => Head(ms) = ms[1] /\ Len(ms) >= 1
  BY <1>1, EmptySeq
<1>4. Len(ms) >= 1 => is # <<>> /\ ms # <<>> /\ 1 \in 1 .. Len(ms)
  <2>1. Len(<<>>) = 0
    BY EmptySeq
  <2> QED
    BY <2>1, <1>1
<1>5. Len(ms) >= 1 => (ms[1].closure = Tramp <=> is[1] = TrampInfo)
  BY <1>4 DEF Matched, Half
<1>6. Len(ms) >= 1 => (ms[1].closure = Tramp <=> below > 0)
  BY <1>4
<1>7. CASE below > 0
  <2>1. is # <<>> /\ ms # <<>> /\ Head(is) = TrampInfo /\ Head(ms).closure = Tramp
    BY <1>7, <1>2, <1>3, <1>4, <1>5, <1>6
  <2> QED
    BY <1>7, <2>1 DEF RealInfos, RealMetas, Cut
<1>8. CASE ~(below > 0)
  <2>1. ~(is # <<>> /\ Head(is) = TrampInfo)
    BY <1>8, <1>1, <1>2, <1>5, <1>6
  <2>2. ~(ms # <<>> /\ Head(ms).closure = Tramp)
    BY <1>8, <1>3, <1>6
  <2> QED
    BY <1>8, <2>1, <2>2 DEF RealInfos, RealMetas, Cut
<1> QED
  BY <1>7, <1>8

LEMMA LogicalOf ==
  ASSUME NEW p, Ready(p)
  PROVE  /\ InfosIn(p.spilled) \in Seq(Seq(Info)) /\ Filled(InfosIn(p.spilled))
         /\ Len(InfosIn(p.spilled)) = Len(p.spilled)
         /\ MetasIn(p.spilled) \in Seq(Seq(Meta)) /\ Filled(MetasIn(p.spilled))
         /\ Len(MetasIn(p.spilled)) = Len(p.spilled)
         /\ Len(p.spilled) \in Nat
         /\ Len(p.spilled) > 0 => p.ring \o p.overflow # <<>> /\ p.metas # <<>>
         /\ p.ring \o p.overflow \in Seq(Info) /\ p.metas \in Seq(Meta)
         /\ InfosOf(p.ring \o p.overflow, p.spilled) = Log(InfosIn(p.spilled), p.ring \o p.overflow)
         /\ MetasOf(p.metas, p.spilled) = Log(MetasIn(p.spilled), p.metas)
<1> DEFINE sp == p.spilled  is == p.ring \o p.overflow  ms == p.metas  n == Len(sp)
           hi == InfosIn(sp)  hm == MetasIn(sp)
<1>1. /\ sp \in Seq([infos : Seq(Info), metas : Seq(Meta)]) /\ Matched(is, ms)
      /\ n \in Nat /\ DOMAIN sp = 1 .. n /\ (sp # <<>> <=> n > 0)
      /\ \A i \in 1 .. Len(ms) : ms[i].closure = Tramp <=> i = 1 /\ sp # <<>>
      /\ sp # <<>> => Len(ms) >= 2
  BY EmptySeq, LenProperties DEF Ready
<1>2. ASSUME NEW b \in 1 .. n
      PROVE  /\ Matched(sp[b].infos, sp[b].metas) /\ sp[b].infos \in Seq(Info) /\ sp[b].metas \in Seq(Meta)
             /\ \A i \in 1 .. Len(sp[b].metas) : sp[b].metas[i].closure = Tramp <=> i = 1 /\ b > 1
             /\ b > 1 => Len(sp[b].metas) >= 1
             /\ Len(sp[b].infos) = Len(sp[b].metas) /\ Len(sp[b].metas) \in Nat
  <2>1. Matched(sp[b].infos, sp[b].metas)
    BY DEF Ready
  <2>2. /\ \A i \in 1 .. Len(sp[b].metas) : sp[b].metas[i].closure = Tramp <=> i = 1 /\ b > 1
        /\ IF SpillBatch = 1 THEN Len(sp[b].metas) = 1 ELSE b > 1 => Len(sp[b].metas) >= 2
    BY DEF Ready
  <2>3. /\ sp[b].infos \in Seq(Info) /\ sp[b].metas \in Seq(Meta)
        /\ Len(sp[b].infos) = Len(sp[b].metas) /\ Len(sp[b].metas) \in Nat
    BY <2>1 DEF Matched
  <2> QED
    BY <2>1, <2>2, <2>3
<1> HIDE DEF sp, is, ms, n
<1>3. hi \in Seq(Seq(Info)) /\ Len(hi) = n /\ \A b \in 1 .. n : hi[b] = sp[b].infos
  <2>1. hi = [b \in 1 .. n |-> sp[b].infos]
    BY DEF InfosIn, n
  <2> HIDE DEF hi
  <2>2. hi \in [1 .. n -> Seq(Info)]
    BY <1>2, <2>1
  <2>3. hi \in Seq(Seq(Info)) /\ Len(hi) = n
    BY <1>1, <2>2, SeqDef
  <2> QED
    BY <2>1, <2>3
<1>4. hm \in Seq(Seq(Meta)) /\ Len(hm) = n /\ \A b \in 1 .. n : hm[b] = sp[b].metas
  <2>1. hm = [b \in 1 .. n |-> sp[b].metas]
    BY DEF MetasIn, n
  <2> HIDE DEF hm
  <2>2. hm \in [1 .. n -> Seq(Meta)]
    BY <1>2, <2>1
  <2>3. hm \in Seq(Seq(Meta)) /\ Len(hm) = n
    BY <1>1, <2>2, SeqDef
  <2> QED
    BY <2>1, <2>3
<1> HIDE DEF hi, hm
<1>5. \A b \in 1 .. n : b > 1 => sp[b].infos # <<>> /\ sp[b].metas # <<>>
  <2>1. Len(<<>>) = 0
    BY EmptySeq
  <2> QED
    BY <2>1, <1>2
<1>6. Filled(hi) /\ Filled(hm)
  BY <1>3, <1>4, <1>5 DEF Filled
<1>7. is \in Seq(Info) /\ ms \in Seq(Meta) /\ Len(is) = Len(ms) /\ Len(ms) \in Nat
  BY <1>1 DEF Matched
<1>8. n > 0 => is # <<>> /\ ms # <<>>
  <2>1. Len(<<>>) = 0
    BY EmptySeq
  <2> QED
    BY <2>1, <1>1, <1>7
<1>9. RealInfos(is) = Cut(is, n) /\ RealMetas(ms) = Cut(ms, n)
  <2>1. \A i \in 1 .. Len(ms) : ms[i].closure = Tramp <=> i = 1 /\ n > 0
    BY <1>1
  <2>2. n > 0 => Len(ms) >= 1
    BY <1>1, <1>7
  <2> QED
    BY <2>1, <2>2, <1>1, RealOf
<1>10. ASSUME NEW b \in 1 .. n
       PROVE  RealInfos(sp[b].infos) = Cut(hi[b], b - 1) /\ RealMetas(sp[b].metas) = Cut(hm[b], b - 1)
  <2> DEFINE below == b - 1  si == sp[b].infos  sm == sp[b].metas
  <2>1. below \in Nat /\ (below > 0 <=> b > 1)
    BY <1>1
  <2>2. Matched(si, sm) /\ (b > 1 => Len(sm) >= 1) /\ \A i \in 1 .. Len(sm) : sm[i].closure = Tramp <=> i = 1 /\ b > 1
    BY <1>2
  <2> HIDE DEF below, si, sm
  <2>3. \A i \in 1 .. Len(sm) : sm[i].closure = Tramp <=> i = 1 /\ below > 0
    BY <2>1, <2>2
  <2>4. RealInfos(si) = Cut(si, below) /\ RealMetas(sm) = Cut(sm, below)
    BY <2>1, <2>2, <2>3, RealOf
  <2>5. si = hi[b] /\ sm = hm[b]
    BY <1>3, <1>4 DEF si, sm
  <2> QED
    BY <2>4, <2>5 DEF below, si, sm
<1>11. InfosOf(is, sp) = Log(hi, is)
  <2>1. [b \in DOMAIN sp |-> RealInfos(sp[b].infos)] = [b \in 1 .. n |-> Cut(hi[b], b - 1)]
    BY <1>1, <1>10
  <2>2. DOMAIN hi = 1 .. n
    BY <1>3, LenProperties
  <2> QED
    BY <2>1, <2>2, <1>3, <1>9 DEF InfosOf, Log
<1>12. MetasOf(ms, sp) = Log(hm, ms)
  <2>1. [b \in DOMAIN sp |-> RealMetas(sp[b].metas)] = [b \in 1 .. n |-> Cut(hm[b], b - 1)]
    BY <1>1, <1>10
  <2>2. DOMAIN hm = 1 .. n
    BY <1>4, LenProperties
  <2> QED
    BY <2>1, <2>2, <1>4, <1>9 DEF MetasOf, Log
<1> QED
  BY <1>1, <1>3, <1>4, <1>6, <1>7, <1>8, <1>11, <1>12 DEF sp, is, ms, n, hi, hm

\* The frames as they are, before push_frame has looked at the threshold.
Here == [ring |-> ring, overflow |-> overflow, metas |-> metas, spilled |-> spilled]

LEMMA HereReady ==
  ASSUME Frames, Paging
  PROVE  /\ Ready(Here)
         /\ LogicalInfos = InfosOf(Here.ring \o Here.overflow, Here.spilled)
         /\ LogicalMetas = MetasOf(Here.metas, Here.spilled)
<1>1. spilled # <<>> => Len(metas) >= 2
  BY DEF Paging, Frames
<1>2. SpillBatch = 1 /\ spilled # <<>> => Len(metas) >= Len(spilled) + 1
  BY DEF Paging, Frames
<1>3. Ready(Here)
  BY <1>1, <1>2 DEF Ready, Frames, Paging, Here
<1> QED
  BY <1>3 DEF Here, LogicalInfos, LogicalMetas, AllInfos

LEMMA LogicalTypes ==
  ASSUME Frames, Paging
  PROVE  LogicalInfos \in Seq(Info) /\ LogicalMetas \in Seq(Meta)
<1>1. Ready(Here)
  BY HereReady
<1> DEFINE hi == InfosIn(Here.spilled)  hm == MetasIn(Here.spilled)  is == Here.ring \o Here.overflow
           ms == Here.metas
<1>2. /\ LogicalInfos = Log(hi, is) /\ LogicalMetas = Log(hm, ms)
      /\ hi \in Seq(Seq(Info)) /\ Filled(hi) /\ hm \in Seq(Seq(Meta)) /\ Filled(hm)
      /\ is \in Seq(Info) /\ ms \in Seq(Meta)
      /\ (Len(hi) > 0 => is # <<>>) /\ (Len(hm) > 0 => ms # <<>>)
  BY <1>1, HereReady, LogicalOf
<1> HIDE DEF hi, hm, is, ms
<1> QED
  BY <1>2, LogTyped

LEMMA NextReady ==
  ASSUME Frames', Paging'
  PROVE  \E q : /\ Ready(q) /\ q.ring \o q.overflow = ring' \o overflow'
                /\ q.metas = metas' /\ q.spilled = spilled'
                /\ LogicalInfos' = InfosOf(q.ring \o q.overflow, q.spilled)
                /\ LogicalMetas' = MetasOf(q.metas, q.spilled)
<1> DEFINE q == [ring |-> ring', overflow |-> overflow', metas |-> metas', spilled |-> spilled']
<1>1. /\ q.ring = ring' /\ q.overflow = overflow' /\ q.metas = metas' /\ q.spilled = spilled'
  OBVIOUS
<1> HIDE DEF q
<1>2. spilled' # <<>> => Len(metas') >= 2
  BY DEF Paging, Frames
<1>3. SpillBatch = 1 /\ spilled' # <<>> => Len(metas') >= Len(spilled') + 1
  BY DEF Paging, Frames
<1>4. Ready(q)
  BY <1>1, <1>2, <1>3 DEF Ready, Frames, Paging
<1> QED
  BY <1>1, <1>4 DEF LogicalInfos, LogicalMetas, AllInfos

\* One block more, in one half.
LEMMA InsAppend ==
  ASSUME NEW sp \in Seq([infos : Seq(Info), metas : Seq(Meta)]), NEW si \in Seq(Info), NEW sm \in Seq(Meta)
  PROVE  /\ InfosIn(Append(sp, [infos |-> si, metas |-> sm])) = Append(InfosIn(sp), si)
         /\ MetasIn(Append(sp, [infos |-> si, metas |-> sm])) = Append(MetasIn(sp), sm)
<1> DEFINE n == Len(sp)  block == [infos |-> si, metas |-> sm]  up == Append(sp, block)
           i1 == InfosIn(up)  m1 == MetasIn(up)  i2 == Append(InfosIn(sp), si)  m2 == Append(MetasIn(sp), sm)
<1>1. n \in Nat /\ \A b \in 1 .. n : sp[b].infos \in Seq(Info) /\ sp[b].metas \in Seq(Meta)
  <2>1. \A b \in 1 .. n : sp[b] \in [infos : Seq(Info), metas : Seq(Meta)]
    BY ElementOfSeq
  <2> QED
    BY <2>1
<1>2. /\ Len(up) = n + 1 /\ up[n + 1] = block /\ block.infos = si /\ block.metas = sm
      /\ \A b \in 1 .. n : up[b] = sp[b]
  <2>1. block \in [infos : Seq(Info), metas : Seq(Meta)]
    OBVIOUS
  <2>2. block.infos = si /\ block.metas = sm
    OBVIOUS
  <2> HIDE DEF block
  <2> QED
    BY <2>1, <2>2, AppendProperties
<1> HIDE DEF block, up, n
<1>3. InfosIn(sp) \in Seq(Seq(Info)) /\ Len(InfosIn(sp)) = n /\ \A b \in 1 .. n : InfosIn(sp)[b] = sp[b].infos
  <2> DEFINE f == InfosIn(sp)
  <2>1. f = [b \in 1 .. n |-> sp[b].infos]
    BY DEF InfosIn, n
  <2> HIDE DEF f
  <2>2. f \in [1 .. n -> Seq(Info)]
    BY <1>1, <2>1
  <2>3. f \in Seq(Seq(Info)) /\ Len(f) = n
    BY <1>1, <2>2, SeqDef
  <2> QED
    BY <2>1, <2>3 DEF f
<1>4. MetasIn(sp) \in Seq(Seq(Meta)) /\ Len(MetasIn(sp)) = n /\ \A b \in 1 .. n : MetasIn(sp)[b] = sp[b].metas
  <2> DEFINE f == MetasIn(sp)
  <2>1. f = [b \in 1 .. n |-> sp[b].metas]
    BY DEF MetasIn, n
  <2> HIDE DEF f
  <2>2. f \in [1 .. n -> Seq(Meta)]
    BY <1>1, <2>1
  <2>3. f \in Seq(Seq(Meta)) /\ Len(f) = n
    BY <1>1, <2>2, SeqDef
  <2> QED
    BY <2>1, <2>3 DEF f
<1>5. /\ i2 \in Seq(Seq(Info)) /\ Len(i2) = n + 1 /\ i2[n + 1] = si
      /\ \A b \in 1 .. n : i2[b] = InfosIn(sp)[b]
  BY <1>3, AppendProperties
<1>6. /\ m2 \in Seq(Seq(Meta)) /\ Len(m2) = n + 1 /\ m2[n + 1] = sm
      /\ \A b \in 1 .. n : m2[b] = MetasIn(sp)[b]
  BY <1>4, AppendProperties
<1>7. i1 = [b \in 1 .. n + 1 |-> up[b].infos] /\ m1 = [b \in 1 .. n + 1 |-> up[b].metas]
  BY <1>2 DEF InfosIn, MetasIn
<1> HIDE DEF i1, m1, i2, m2
<1>8. i2 = [b \in 1 .. n + 1 |-> i2[b]] /\ m2 = [b \in 1 .. n + 1 |-> m2[b]]
  <2>1. i2 \in [1 .. Len(i2) -> Seq(Info)] /\ m2 \in [1 .. Len(m2) -> Seq(Meta)]
    BY <1>5, <1>6, LenProperties
  <2>2. i2 \in [1 .. n + 1 -> Seq(Info)] /\ m2 \in [1 .. n + 1 -> Seq(Meta)]
    BY <2>1, <1>5, <1>6
  <2> QED
    BY <2>2
<1>9. ASSUME NEW b \in 1 .. n + 1 PROVE up[b].infos = i2[b] /\ up[b].metas = m2[b]
  <2>1. CASE b = n + 1
    BY <2>1, <1>2, <1>5, <1>6
  <2>2. CASE b # n + 1
    <3>1. b \in 1 .. n
      BY <2>2, <1>1
    <3> QED
      BY <3>1, <1>2, <1>3, <1>4, <1>5, <1>6
  <2> QED
    BY <2>1, <2>2
<1>10. i1 = i2 /\ m1 = m2
  BY <1>7, <1>8, <1>9
<1> QED
  BY <1>10 DEF i1, m1, i2, m2, up, block

\* Paging out changes nothing.
LEMMA SpillLogical ==
  ASSUME Frames, Paging
  PROVE  /\ InfosOf(Paged.ring \o Paged.overflow, Paged.spilled) = LogicalInfos
         /\ MetasOf(Paged.metas, Paged.spilled) = LogicalMetas
<1>1. CASE ~Spills
  BY <1>1, HereReady DEF Paged, Here
<1>2. CASE Spills
  <2> DEFINE is == AllInfos  k == Batch  n == Len(metas)
             si == SubSeq(is, 1, k)  sm == SubSeq(metas, 1, k)
             ui == <<TrampInfo>> \o SubSeq(is, k + 1, Len(is))
             um == <<TrampMeta>> \o SubSeq(metas, k + 1, Len(metas))
             hi == InfosIn(spilled)  hm == MetasIn(spilled)
  <2>1. /\ LogicalInfos = Log(hi, is) /\ LogicalMetas = Log(hm, metas)
        /\ hi \in Seq(Seq(Info)) /\ Filled(hi) /\ hm \in Seq(Seq(Meta)) /\ Filled(hm)
        /\ is \in Seq(Info) /\ metas \in Seq(Meta)
    <3>1. Ready(Here) /\ Here.spilled = spilled /\ Here.metas = metas /\ Here.ring \o Here.overflow = is
      BY HereReady DEF Here, AllInfos
    <3> HIDE DEF is
    <3> QED
      BY <3>1, HereReady, LogicalOf
  <2>2. Len(is) = n /\ k \in 1 .. n - 1 /\ n \in Nat
    <3>1. Batch > 0
      BY <1>2 DEF Spills
    <3> QED
      BY <3>1, BatchSize DEF Frames, AllInfos, Matched
  <2>3. Paged.spilled = Append(spilled, [infos |-> si, metas |-> sm])
    BY <1>2 DEF Paged
  <2>4. Paged.ring = <<>> /\ Paged.overflow = ui /\ Paged.metas = um
    BY <1>2 DEF Paged
  <2>5. Ready(Paged)
    BY PagedReady
  <2>6. Paged.ring \o Paged.overflow = ui
    <3>1. Paged.overflow \in Seq(Info)
      BY <2>5 DEF Ready
    <3> HIDE DEF ui
    <3> QED
      BY <3>1, <2>4, ConcatEmptySeq
  <2>7. si \in Seq(Info) /\ sm \in Seq(Meta)
    <3>1. k \in 0 .. Len(is) /\ k \in 0 .. Len(metas) /\ 1 <= k + 1
      BY <2>2
    <3> HIDE DEF k, is
    <3> QED
      BY <3>1, <2>1, PieceOf
  <2>8. InfosIn(Paged.spilled) = Append(hi, si) /\ MetasIn(Paged.spilled) = Append(hm, sm)
    <3>1. spilled \in Seq([infos : Seq(Info), metas : Seq(Meta)])
      BY DEF Frames
    <3> HIDE DEF si, sm
    <3> QED
      BY <3>1, <2>3, <2>7, InsAppend
  <2>9. /\ InfosOf(Paged.ring \o Paged.overflow, Paged.spilled) = Log(Append(hi, si), ui)
        /\ MetasOf(Paged.metas, Paged.spilled) = Log(Append(hm, sm), um)
    <3>1. InfosOf(Paged.ring \o Paged.overflow, Paged.spilled) = Log(InfosIn(Paged.spilled), Paged.ring \o Paged.overflow)
      BY <2>5, LogicalOf
    <3>2. MetasOf(Paged.metas, Paged.spilled) = Log(MetasIn(Paged.spilled), Paged.metas)
      BY <2>5, LogicalOf
    <3> HIDE DEF si, sm, ui, um, hi, hm
    <3> QED
      BY <3>1, <3>2, <2>4, <2>6, <2>8
  <2>10. Log(Append(hi, si), ui) = Log(hi, is)
    <3>1. k \in 1 .. Len(is)
      BY <2>2
    <3>2. TrampInfo \in Info
      BY TrampTypes
    <3> HIDE DEF hi, k, is
    <3> QED
      BY <3>1, <3>2, <2>1, LogSpill
  <2>11. Log(Append(hm, sm), um) = Log(hm, metas)
    <3>1. k \in 1 .. Len(metas)
      BY <2>2
    <3>2. TrampMeta \in Meta
      BY TrampTypes
    <3> HIDE DEF hm, k
    <3> QED
      BY <3>1, <3>2, <2>1, LogSpill
  <2> HIDE DEF si, sm, ui, um, hi, hm, is
  <2> QED
    BY <2>1, <2>9, <2>10, <2>11
<1> QED
  BY <1>1, <1>2

\* push_frame puts the frame on the logical stack.
LEMMA PushLogical ==
  ASSUME Frames, Paging, NEW info \in Info, NEW meta \in Meta,
         info.base > 0, meta.closure # Tramp, PushFrame(info, meta)
  PROVE  LogicalInfos' = Append(LogicalInfos, info) /\ LogicalMetas' = Append(LogicalMetas, meta)
<1>1. /\ Frames' /\ Paging'
      /\ ring' \o overflow' = Append(Paged.ring \o Paged.overflow, info)
      /\ metas' = Append(Paged.metas, meta) /\ spilled' = Paged.spilled
  BY PushKeeps DEF PushFrame
<1>2. Ready(Paged)
  BY PagedReady
<1> DEFINE hi == InfosIn(Paged.spilled)  hm == MetasIn(Paged.spilled)  is == Paged.ring \o Paged.overflow
           ms == Paged.metas
<1>3. /\ LogicalInfos = Log(hi, is) /\ LogicalMetas = Log(hm, ms)
      /\ hi \in Seq(Seq(Info)) /\ Filled(hi) /\ hm \in Seq(Seq(Meta)) /\ Filled(hm)
      /\ is \in Seq(Info) /\ ms \in Seq(Meta)
      /\ (Len(hi) > 0 => is # <<>>) /\ (Len(hm) > 0 => ms # <<>>)
  BY <1>2, SpillLogical, LogicalOf
<1>4. PICK q : /\ Ready(q) /\ q.ring \o q.overflow = ring' \o overflow'
               /\ q.metas = metas' /\ q.spilled = spilled'
               /\ LogicalInfos' = InfosOf(q.ring \o q.overflow, q.spilled)
               /\ LogicalMetas' = MetasOf(q.metas, q.spilled)
  BY <1>1, NextReady
<1>5. /\ InfosOf(q.ring \o q.overflow, q.spilled) = Log(InfosIn(q.spilled), q.ring \o q.overflow)
      /\ MetasOf(q.metas, q.spilled) = Log(MetasIn(q.spilled), q.metas)
  BY <1>4, LogicalOf
<1>6. InfosIn(q.spilled) = hi /\ MetasIn(q.spilled) = hm
  BY <1>1, <1>4
<1> HIDE DEF hi, hm, is, ms
<1>7. LogicalInfos' = Log(hi, Append(is, info)) /\ LogicalMetas' = Log(hm, Append(ms, meta))
  BY <1>1, <1>4, <1>5, <1>6 DEF is, ms
<1>8. Log(hi, Append(is, info)) = Append(Log(hi, is), info)
  <2>1. hi \in Seq(Seq(Info)) /\ Filled(hi) /\ is \in Seq(Info) /\ (Len(hi) > 0 => is # <<>>)
    BY <1>3
  <2> QED
    BY <2>1, LogPush, SMTT(60)
<1>9. Log(hm, Append(ms, meta)) = Append(Log(hm, ms), meta)
  <2>1. hm \in Seq(Seq(Meta)) /\ Filled(hm) /\ ms \in Seq(Meta) /\ (Len(hm) > 0 => ms # <<>>)
    BY <1>3
  <2> QED
    BY <2>1, LogPush, SMTT(60)
<1> QED
  BY <1>3, <1>7, <1>8, <1>9

LEMMA FrontLast ==
  ASSUME NEW S, NEW s \in Seq(S), NEW e \in S
  PROVE  Front(Append(s, e)) = s /\ Last(Append(s, e)) = e /\ Append(s, e) # <<>>
<1> DEFINE u == Append(s, e)  n == Len(s)
<1>1. u \in Seq(S) /\ Len(u) = n + 1 /\ u[n + 1] = e /\ n \in Nat /\ \A i \in 1 .. n : u[i] = s[i]
  BY AppendProperties, LenProperties
<1>2. u # <<>>
  <2>1. Len(<<>>) = 0 /\ n + 1 # 0
    BY <1>1, EmptySeq
  <2> QED
    BY <2>1, <1>1
<1> HIDE DEF u, n
<1>3. Front(u) \in Seq(S) /\ Len(Front(u)) = n /\ \A i \in 1 .. n : Front(u)[i] = u[i]
  <2>1. Front(u) \in Seq(S) /\ Len(Front(u)) = Len(u) - 1 /\ \A i \in 1 .. Len(u) - 1 : Front(u)[i] = u[i]
    BY <1>1, <1>2, FrontOf
  <2> QED
    BY <2>1, <1>1
<1>4. Front(u) = s
  <2> DEFINE v == Front(u)
  <2>1. v \in Seq(S) /\ Len(v) = Len(s) /\ \A i \in 1 .. Len(v) : v[i] = s[i]
    BY <1>1, <1>3 DEF n
  <2> HIDE DEF v
  <2>2. v = s
    BY <2>1, SeqEqual
  <2> QED
    BY <2>2 DEF v
<1>5. Last(u) = e
  BY <1>1 DEF Last
<1> QED
  BY <1>2, <1>4, <1>5 DEF u

LEMMA InsFront ==
  ASSUME NEW sp \in Seq([infos : Seq(Info), metas : Seq(Meta)]), sp # <<>>
  PROVE  /\ InfosIn(Front(sp)) = Front(InfosIn(sp)) /\ Last(InfosIn(sp)) = Last(sp).infos
         /\ MetasIn(Front(sp)) = Front(MetasIn(sp)) /\ Last(MetasIn(sp)) = Last(sp).metas
         /\ InfosIn(sp) # <<>> /\ MetasIn(sp) # <<>>
<1> DEFINE f == Front(sp)  l == Last(sp)  si == l.infos  sm == l.metas  T == [infos : Seq(Info), metas : Seq(Meta)]
<1>1. f \in Seq(T) /\ l \in T /\ sp = Append(f, l)
  <2>1. f = SubSeq(sp, 1, Len(sp) - 1) /\ l = sp[Len(sp)]
    BY DEF Front, Last
  <2> HIDE DEF f, l
  <2> QED
    BY <2>1, LastOff
<1> HIDE DEF f, l
<1>2. si \in Seq(Info) /\ sm \in Seq(Meta) /\ l = [infos |-> si, metas |-> sm]
  BY <1>1
<1> HIDE DEF si, sm
<1>3. InfosIn(sp) = Append(InfosIn(f), si) /\ MetasIn(sp) = Append(MetasIn(f), sm)
  BY <1>1, <1>2, InsAppend
<1>4. InfosIn(f) \in Seq(Seq(Info)) /\ MetasIn(f) \in Seq(Seq(Meta))
  <2> DEFINE n == Len(f)  hi == InfosIn(f)  hm == MetasIn(f)
  <2>1. n \in Nat /\ \A b \in 1 .. n : f[b].infos \in Seq(Info) /\ f[b].metas \in Seq(Meta)
    <3>1. \A b \in 1 .. n : f[b] \in T
      BY <1>1, ElementOfSeq
    <3>2. n \in Nat
      BY <1>1, LenProperties
    <3> QED
      BY <3>1, <3>2
  <2>2. hi = [b \in 1 .. n |-> f[b].infos] /\ hm = [b \in 1 .. n |-> f[b].metas]
    BY DEF InfosIn, MetasIn
  <2> HIDE DEF hi, hm, n
  <2>3. hi \in [1 .. n -> Seq(Info)] /\ hm \in [1 .. n -> Seq(Meta)]
    BY <2>1, <2>2
  <2>4. hi \in Seq(Seq(Info)) /\ hm \in Seq(Seq(Meta))
    BY <2>1, <2>3, SeqDef
  <2> QED
    BY <2>4 DEF hi, hm
<1>5. Front(InfosIn(sp)) = InfosIn(f) /\ Last(InfosIn(sp)) = si /\ InfosIn(sp) # <<>>
  BY <1>2, <1>3, <1>4, FrontLast
<1>6. Front(MetasIn(sp)) = MetasIn(f) /\ Last(MetasIn(sp)) = sm /\ MetasIn(sp) # <<>>
  <2> DEFINE hm == MetasIn(f)
  <2>1. hm \in Seq(Seq(Meta)) /\ sm \in Seq(Meta) /\ MetasIn(sp) = Append(hm, sm)
    BY <1>2, <1>3, <1>4
  <2> HIDE DEF hm
  <2>2. Front(Append(hm, sm)) = hm /\ Last(Append(hm, sm)) = sm /\ Append(hm, sm) # <<>>
    BY <2>1, FrontLast
  <2> QED
    BY <2>1, <2>2 DEF hm
<1> QED
  BY <1>5, <1>6 DEF f, si, sm, l

\* One half of the frames: the newest goes, and a block comes back.
LEMMA HalfPop ==
  ASSUME NEW S, NEW hs \in Seq(Seq(S)), Filled(hs), NEW s \in Seq(S), s # <<>>,
         hs # <<>> => Len(s) >= 3
  PROVE  LET f == SubSeq(s, 1, Len(s) - 1)
             e == s[Len(s)]
         IN  /\ hs = <<>> => Log(hs, s) = Append(Log(hs, f), e)
             /\ hs # <<>> => Log(hs, s) = Append(Log(Front(hs), Last(hs) \o Tail(f)), e)
<1> DEFINE f == SubSeq(s, 1, Len(s) - 1)  e == s[Len(s)]
<1>1. f \in Seq(S) /\ e \in S /\ Len(s) \in Nat \ {0} /\ Len(f) = Len(s) - 1 /\ s = Append(f, e)
  BY LastOff
<1> HIDE DEF f, e
<1>4. Len(<<>>) = 0 /\ (hs # <<>> <=> Len(hs) > 0)
  BY EmptySeq
<1>5. Len(hs) > 0 => f # <<>>
  BY <1>1, <1>4
<1>6. Log(hs, Append(f, e)) = Append(Log(hs, f), e)
  BY <1>1, <1>5, LogPush
<1>7. hs # <<>> => Log(Front(hs), Last(hs) \o Tail(f)) = Log(hs, f)
  <2>1. ASSUME hs # <<>> PROVE Log(Front(hs), Last(hs) \o Tail(f)) = Log(hs, f)
    <3>1. f # <<>>
      BY <2>1, <1>4, <1>5
    <3> QED
      BY <2>1, <3>1, <1>1, LogRestore
  <2> QED
    BY <2>1
<1>8. Log(hs, s) = Append(Log(hs, f), e)
  BY <1>1, <1>6
<1> QED
  BY <1>7, <1>8 DEF f, e

\* pop_frame takes the last of the logical stack.
LEMMA PopLogical ==
  ASSUME Frames, Paging, NEW f, PopFrame(f)
  PROVE  /\ LogicalInfos = Append(LogicalInfos', TopInfo(ring, overflow))
         /\ LogicalMetas = Append(LogicalMetas', Last(metas))
         /\ LogicalInfos' \in Seq(Info) /\ LogicalMetas' \in Seq(Meta)
<1> DEFINE n  == Len(metas)
           si == SubSeq(AllInfos, 1, n - 1)
           sm == SubSeq(metas, 1, n - 1)
<1>1. /\ Frames' /\ Paging'
      /\ n \in Nat \ {0} /\ TopInfo(ring, overflow) = AllInfos[n]
      /\ spilled = <<>> => ring' \o overflow' = si /\ metas' = sm /\ spilled' = spilled
      /\ spilled # <<>> => /\ n >= 3 /\ spilled' = Front(spilled)
                           /\ ring' \o overflow' = Last(spilled).infos \o Tail(si)
                           /\ metas' = Last(spilled).metas \o Tail(sm)
  BY PopKeeps
<1>2. Last(metas) = metas[n]
  BY DEF Last
<1>3. Len(AllInfos) = n /\ AllInfos \in Seq(Info) /\ metas \in Seq(Meta)
  BY DEF Frames, AllInfos, Matched
<1>4. AllInfos # <<>> /\ metas # <<>>
  <2>1. Len(<<>>) = 0
    BY EmptySeq
  <2> QED
    BY <2>1, <1>1, <1>3
<1> DEFINE hi == InfosIn(spilled)  hm == MetasIn(spilled)
<1>5. /\ LogicalInfos = Log(hi, AllInfos) /\ LogicalMetas = Log(hm, metas)
      /\ hi \in Seq(Seq(Info)) /\ Filled(hi) /\ hm \in Seq(Seq(Meta)) /\ Filled(hm)
      /\ Len(hi) = Len(spilled) /\ Len(hm) = Len(spilled)
  <2>1. Ready(Here) /\ Here.spilled = spilled /\ Here.metas = metas /\ Here.ring \o Here.overflow = AllInfos
    BY HereReady DEF Here, AllInfos
  <2> QED
    BY <2>1, HereReady, LogicalOf
<1>6. PICK q : /\ Ready(q) /\ q.ring \o q.overflow = ring' \o overflow'
               /\ q.metas = metas' /\ q.spilled = spilled'
               /\ LogicalInfos' = InfosOf(q.ring \o q.overflow, q.spilled)
               /\ LogicalMetas' = MetasOf(q.metas, q.spilled)
  BY <1>1, NextReady
<1> DEFINE gi == InfosIn(q.spilled)  gm == MetasIn(q.spilled)  ti == q.ring \o q.overflow  tm == q.metas
<1>7. /\ LogicalInfos' = Log(gi, ti) /\ LogicalMetas' = Log(gm, tm)
  BY <1>6, LogicalOf
<1>8. spilled \in Seq([infos : Seq(Info), metas : Seq(Meta)])
  BY DEF Frames
<1>9. spilled = <<>> <=> Len(spilled) = 0
  BY <1>8, EmptySeq
<1>10. /\ hi # <<>> => spilled # <<>>
       /\ hm # <<>> => spilled # <<>>
       /\ spilled # <<>> => /\ InfosIn(Front(spilled)) = Front(hi) /\ Last(hi) = Last(spilled).infos
                            /\ MetasIn(Front(spilled)) = Front(hm) /\ Last(hm) = Last(spilled).metas
                            /\ hi # <<>> /\ hm # <<>>
  <2>1. hi # <<>> => Len(hi) # 0
    BY <1>5, EmptySeq
  <2>2. hm # <<>> => Len(hm) # 0
    BY <1>5, EmptySeq
  <2>3. spilled # <<>> => /\ InfosIn(Front(spilled)) = Front(hi) /\ Last(hi) = Last(spilled).infos
                          /\ MetasIn(Front(spilled)) = Front(hm) /\ Last(hm) = Last(spilled).metas
                          /\ hi # <<>> /\ hm # <<>>
    BY <1>8, InsFront
  <2> HIDE DEF hi, hm
  <2> QED
    BY <2>1, <2>2, <2>3, <1>5, <1>9
<1> HIDE DEF n, hi, hm
<1>11. /\ hi = <<>> => gi = hi /\ ti = SubSeq(AllInfos, 1, Len(AllInfos) - 1)
       /\ hi # <<>> => gi = Front(hi) /\ ti = Last(hi) \o Tail(SubSeq(AllInfos, 1, Len(AllInfos) - 1))
  <2>1. CASE spilled = <<>>
    BY <2>1, <1>1, <1>3, <1>6, <1>10 DEF hi
  <2>2. CASE spilled # <<>>
    BY <2>2, <1>1, <1>3, <1>6, <1>10
  <2> QED
    BY <2>1, <2>2
<1>12. /\ hm = <<>> => gm = hm /\ tm = SubSeq(metas, 1, Len(metas) - 1)
       /\ hm # <<>> => gm = Front(hm) /\ tm = Last(hm) \o Tail(SubSeq(metas, 1, Len(metas) - 1))
  <2>1. CASE spilled = <<>>
    BY <2>1, <1>1, <1>3, <1>6, <1>10 DEF hm, n
  <2>2. CASE spilled # <<>>
    BY <2>2, <1>1, <1>3, <1>6, <1>10 DEF n
  <2> QED
    BY <2>1, <2>2
<1> HIDE DEF gi, gm, ti, tm, si, sm
<1>13. Log(hi, AllInfos) = Append(Log(gi, ti), AllInfos[Len(AllInfos)])
  <2>1. hi # <<>> => Len(AllInfos) >= 3
    BY <1>1, <1>3, <1>10
  <2>2. hi \in Seq(Seq(Info)) /\ Filled(hi)
    BY <1>5
  <2> QED
    <3>1. AllInfos \in Seq(Info) /\ AllInfos # <<>>
      BY <1>3, <1>4
    <3>2. hi \in Seq(Seq(Info))
      BY <2>2
    <3>3. Filled(hi)
      BY <2>2
    <3>4. /\ hi = <<>> => Log(hi, AllInfos) = Append(Log(hi, SubSeq(AllInfos, 1, Len(AllInfos) - 1)), AllInfos[Len(AllInfos)])
          /\ hi # <<>> => Log(hi, AllInfos) = Append(Log(Front(hi), Last(hi) \o Tail(SubSeq(AllInfos, 1, Len(AllInfos) - 1))), AllInfos[Len(AllInfos)])
      BY <2>1, <3>1, <3>2, <3>3, HalfPop, SMTT(30)
    <3> QED
      BY <3>4, <1>11
<1>14. Log(hm, metas) = Append(Log(gm, tm), metas[Len(metas)])
  <2>1. hm # <<>> => Len(metas) >= 3
    BY <1>1, <1>10 DEF n
  <2>2. hm \in Seq(Seq(Meta)) /\ Filled(hm)
    BY <1>5
  <2> QED
    <3>1. metas \in Seq(Meta) /\ metas # <<>>
      BY <1>3, <1>4
    <3>2. hm \in Seq(Seq(Meta))
      BY <2>2
    <3>3. Filled(hm)
      BY <2>2
    <3>4. /\ hm = <<>> => Log(hm, metas) = Append(Log(hm, SubSeq(metas, 1, Len(metas) - 1)), metas[Len(metas)])
          /\ hm # <<>> => Log(hm, metas) = Append(Log(Front(hm), Last(hm) \o Tail(SubSeq(metas, 1, Len(metas) - 1))), metas[Len(metas)])
      BY <2>1, <3>1, <3>2, <3>3, HalfPop, SMTT(30)
    <3> QED
      BY <3>4, <1>12
<1>15. LogicalInfos' \in Seq(Info) /\ LogicalMetas' \in Seq(Meta)
  <2>1. /\ gi \in Seq(Seq(Info)) /\ Filled(gi) /\ gm \in Seq(Seq(Meta)) /\ Filled(gm)
        /\ ti \in Seq(Info) /\ tm \in Seq(Meta)
        /\ (Len(gi) > 0 => ti # <<>>) /\ (Len(gm) > 0 => tm # <<>>)
    BY <1>6, LogicalOf DEF gi, gm, ti, tm
  <2> QED
    BY <2>1, <1>7, LogTyped
<1> QED
  BY <1>1, <1>2, <1>3, <1>5, <1>7, <1>13, <1>14, <1>15 DEF n

-----------------------------------------------------------------------------
(* What an error shows                                                     *)

\* What an error's trace shows for a frame in memory is the base in its info.
LEMMA TraceAt ==
  ASSUME Frames, Paging, NEW i \in Shown
  PROVE  TraceBase(i) = AllInfos[i].base
<1>1. /\ ring \in Seq(Info) /\ overflow \in Seq(Info) /\ metas \in Seq(Meta)
      /\ Len(ring \o overflow) = Len(metas) /\ (spilled # <<>> => ring = <<>>)
      /\ i \in 1 .. Len(metas) /\ metas[i].closure # Tramp
  BY DEF Frames, Matched, Shown
<1>2. /\ Len(ring) \in Nat /\ Len(overflow) \in Nat /\ Len(metas) = Len(ring) + Len(overflow)
      /\ DOMAIN ring = 1 .. Len(ring) /\ DOMAIN overflow = 1 .. Len(overflow)
      /\ \A j \in 1 .. Len(ring) + Len(overflow) :
           (ring \o overflow)[j] = IF j <= Len(ring) THEN ring[j] ELSE overflow[j - Len(ring)]
  BY <1>1, ConcatProperties, LenProperties
<1>3. 1 \in 1 .. Len(metas)
  BY <1>1, <1>2
<1>4. metas[1].closure = Tramp => Len(ring) = 0
  <2>1. metas[1].closure = Tramp => spilled # <<>>
    BY <1>3 DEF Paging
  <2>2. Len(<<>>) = 0
    BY EmptySeq
  <2> QED
    BY <2>1, <2>2, <1>1
<1> DEFINE d == Len(metas) - Len(overflow)
<1>5. d = Len(ring)
  BY <1>2
<1>6. AllInfos[i] = IF i <= Len(ring) THEN ring[i] ELSE overflow[i - Len(ring)]
  BY <1>1, <1>2 DEF AllInfos
<1>7. CASE Len(ring) = 0
  <2>1. AllInfos[i] = overflow[i] /\ i \in DOMAIN overflow
    <3>1. ~(i <= Len(ring)) /\ i - Len(ring) = i /\ i \in 1 .. Len(overflow)
      BY <1>1, <1>2, <1>7
    <3> QED
      BY <3>1, <1>2, <1>6
  <2>2. TraceBase(i) = overflow[i].base
    BY <2>1, <1>5, <1>7 DEF TraceBase
  <2> QED
    BY <2>1, <2>2
<1>8. CASE Len(ring) # 0 /\ i <= Len(ring)
  <2>1. AllInfos[i] = ring[i] /\ i \in DOMAIN ring
    BY <1>1, <1>2, <1>6, <1>8
  <2>2. TraceBase(i) = ring[i].base
    BY <2>1, <1>4, <1>5, <1>8 DEF TraceBase
  <2> QED
    BY <2>1, <2>2
<1>9. CASE Len(ring) # 0 /\ ~(i <= Len(ring))
  <2>1. AllInfos[i] = overflow[i - Len(ring)] /\ i - Len(ring) \in DOMAIN overflow
    BY <1>1, <1>2, <1>6, <1>9
  <2>2. TraceBase(i) = overflow[i - Len(ring)].base
    BY <2>1, <1>4, <1>5, <1>9 DEF TraceBase
  <2> QED
    BY <2>1, <2>2
<1> QED
  BY <1>7, <1>8, <1>9

\* A frame's place on the logical stack, counted from the frames that are paged out.
LEMMA LogicalAt ==
  ASSUME Frames, Paging, NEW i \in Shown
  PROVE  LogicalInfos[Len(LogicalInfos) - Cardinality(Shown) + Cardinality({j \in Shown : j <= i})]
           = AllInfos[i]
<1> DEFINE n == Len(metas)  below == Len(spilled)  b == IF below > 0 THEN 1 ELSE 0
           hi == InfosIn(spilled)  F == FlattenSeq(Cuts(hi))  c == Cut(AllInfos, below)
           upto == {j \in Shown : j <= i}
<1>1. /\ metas \in Seq(Meta) /\ n \in Nat /\ DOMAIN metas = 1 .. n /\ AllInfos \in Seq(Info)
      /\ Len(AllInfos) = n /\ below \in Nat /\ (spilled # <<>> <=> below > 0)
      /\ i \in 1 .. n /\ metas[i].closure # Tramp
  BY EmptySeq, LenProperties DEF Frames, Matched, AllInfos, Shown
<1>2. \A j \in 1 .. n : metas[j].closure = Tramp <=> j = 1 /\ below > 0
  BY <1>1 DEF Paging
<1>3. b \in 0 .. 1 /\ i \in b + 1 .. n
  BY <1>1, <1>2
<1>4. Shown = b + 1 .. n
  BY <1>1, <1>2 DEF Shown
<1>5. upto = b + 1 .. i
  BY <1>1, <1>3, <1>4
<1> HIDE DEF b, upto
<1>6. Cardinality(Shown) = n - b /\ Cardinality(upto) = i - b
  <2>1. b + 1 \in Int /\ n \in Int /\ i \in Int /\ b + 1 <= n + 1 /\ b + 1 <= i + 1
    BY <1>1, <1>3
  <2>2. Cardinality(b + 1 .. n) = n - (b + 1) + 1 /\ Cardinality(b + 1 .. i) = i - (b + 1) + 1
    <3> DEFINE m == b + 1
    <3>1. m \in Int /\ m <= n /\ m <= i
      BY <1>1, <1>3
    <3> HIDE DEF m, n
    <3>2. Cardinality(m .. n) = IF m > n THEN 0 ELSE n - m + 1
      BY <2>1, <3>1, FS_Interval
    <3>3. Cardinality(m .. i) = IF m > i THEN 0 ELSE i - m + 1
      BY <2>1, <3>1, FS_Interval
    <3> QED
      BY <2>1, <3>1, <3>2, <3>3 DEF m
  <2> QED
    BY <2>2, <1>1, <1>3, <1>4, <1>5
<1>7. F \in Seq(Info) /\ LogicalInfos = F \o c
  <2>1. Ready(Here) /\ Here.spilled = spilled /\ Here.metas = metas /\ Here.ring \o Here.overflow = AllInfos
    BY HereReady DEF Here, AllInfos
  <2>2. /\ LogicalInfos = Log(hi, AllInfos) /\ hi \in Seq(Seq(Info)) /\ Filled(hi) /\ Len(hi) = below
        /\ (below > 0 => AllInfos # <<>>)
    BY <2>1, HereReady, LogicalOf
  <2>3. F \in Seq(Info)
    <3> HIDE DEF hi, below
    <3> QED
      BY <2>2, <1>1, LogTyped
  <2> QED
    BY <2>2, <2>3 DEF Log, Cuts
<1>8. c \in Seq(Info) /\ Len(c) = n - b /\ \A j \in 1 .. n - b : c[j] = AllInfos[j + b]
  <2>1. CASE below > 0
    <3>1. AllInfos # <<>> /\ b = 1
      <4>1. Len(<<>>) = 0
        BY EmptySeq
      <4> QED
        BY <4>1, <1>1, <2>1 DEF b
    <3> QED
      BY <2>1, <3>1, <1>1, TailOf DEF Cut
  <2>2. CASE ~(below > 0)
    BY <2>2, <1>1 DEF Cut, b
  <2> QED
    BY <2>1, <2>2
<1> HIDE DEF F, c, n
<1>9. /\ Len(LogicalInfos) = Len(F) + (n - b) /\ Len(F) \in Nat
      /\ \A j \in 1 .. Len(F) + (n - b) : LogicalInfos[j] = IF j <= Len(F) THEN F[j] ELSE c[j - Len(F)]
  <2>1. /\ Len(F \o c) = Len(F) + Len(c) /\ Len(F) \in Nat
        /\ \A j \in 1 .. Len(F) + Len(c) : (F \o c)[j] = IF j <= Len(F) THEN F[j] ELSE c[j - Len(F)]
    BY <1>7, <1>8, ConcatProperties, LenProperties
  <2> QED
    BY <2>1, <1>7, <1>8
<1> DEFINE at == Len(LogicalInfos) - Cardinality(Shown) + Cardinality(upto)
<1>10. at = Len(F) + (i - b) /\ i - b \in 1 .. n - b
  BY <1>1, <1>3, <1>6, <1>9
<1> HIDE DEF at
<1>11. at \in 1 .. Len(F) + (n - b) /\ ~(at <= Len(F)) /\ at - Len(F) = i - b /\ i - b + b = i
  BY <1>1, <1>3, <1>9, <1>10
<1>12. LogicalInfos[at] = c[i - b]
  BY <1>9, <1>11
<1>13. c[i - b] = AllInfos[i]
  BY <1>8, <1>10, <1>11
<1> QED
  BY <1>12, <1>13 DEF at, upto

\* The stack trace of an error shows each frame with the base it was pushed with,
\* whichever of the ring, the overflow and the blocks its info has been through.
THEOREM FrameTraces == Spec => []TraceBasesRight
<1>1. Inv => TraceBasesRight
  <2> SUFFICES ASSUME Inv, NEW i \in Shown
      PROVE  TraceBase(i)
               = LogicalInfos[Len(LogicalInfos) - Cardinality(Shown) + Cardinality({j \in Shown : j <= i})].base
    BY DEF TraceBasesRight
  <2>1. Frames /\ Paging
    BY DEF Inv
  <2> QED
    BY <2>1, TraceAt, LogicalAt
<1> QED
  BY <1>1, FrameInv, PTL

-----------------------------------------------------------------------------
(* The activations, read off the register file and the live frames         *)

LEMMA MaxIn ==
  ASSUME NEW T \in SUBSET Nat, NEW m \in Nat, T # {}, \A y \in T : y <= m
  PROVE  Max(T) \in T /\ \A y \in T : y <= Max(T)
<1> DEFINE U == {m - y : y \in T}
<1>1. U \in SUBSET Nat /\ U # {}
  OBVIOUS
<1>2. PICK u \in U : \A w \in U : u <= w
  <2> HIDE DEF U
  <2> QED
    BY <1>1, LeastNat
<1>3. PICK x \in T : u = m - x
  BY <1>2
<1>4. \A y \in T : x >= y
  <2>1. ASSUME NEW y \in T PROVE x >= y
    <3>1. m - x <= m - y /\ x \in Nat /\ y \in Nat
      BY <1>2, <1>3
    <3> QED
      BY <3>1
  <2> QED
    BY <2>1
<1>5. Max(T) \in T /\ \A y \in T : Max(T) >= y
  BY <1>4 DEF Max
<1> HIDE DEF U
<1>6. \A y \in T : Max(T) \in Nat /\ y \in Nat
  BY <1>5
<1> QED
  BY <1>5, <1>6

LEMMA MaxIs ==
  ASSUME NEW T \in SUBSET Nat, NEW m \in T, \A y \in T : y <= m
  PROVE  Max(T) = m
<1>1. Max(T) \in T /\ m <= Max(T)
  BY MaxIn
<1>2. Max(T) <= m /\ m \in Nat /\ Max(T) \in Nat
  BY <1>1
<1> QED
  BY <1>1, <1>2

\* What the live frames keep of the register file.
Proper(rs, is, ms) ==
    /\ rs \in Seq(Vals) /\ is \in Seq(Info) /\ ms \in Seq(Meta) /\ Len(is) = Len(ms)
    /\ \A i \in 1 .. Len(is) : 0 < is[i].base /\ is[i].base <= Len(rs) /\ ms[i].into < is[i].base
    /\ \A i, j \in 1 .. Len(is) : i <= j => is[i].base <= is[j].base

Activation == [locals : Seq(Vals), back : [chunk : Chunks, ip : 0 .. End], into : Nat \X Nat]

LEMMA BasesOf ==
  ASSUME NEW rs, NEW is, NEW ms, Proper(rs, is, ms)
  PROVE  /\ Len(rs) \in Nat /\ Len(is) \in Nat /\ Len(ms) = Len(is) /\ BaseOf(is, 1) = 0
         /\ \A i \in 1 .. Len(is) : /\ is[i] \in Info /\ ms[i] \in Meta
                                    /\ is[i].base \in Nat /\ ms[i].into \in Nat /\ BaseOf(is, i + 1) = is[i].base
         /\ \A k \in 1 .. Len(is) + 1 : BaseOf(is, k) \in Nat /\ BaseOf(is, k) <= Len(rs)
         /\ \A j, k \in 1 .. Len(is) + 1 : j <= k => BaseOf(is, j) <= BaseOf(is, k)
<1> DEFINE n == Len(is)
<1>1. rs \in Seq(Vals) /\ is \in Seq(Info) /\ ms \in Seq(Meta) /\ Len(is) = Len(ms) /\ Len(rs) \in Nat /\ n \in Nat
  BY LenProperties DEF Proper
<1>2. BaseOf(is, 1) = 0
  BY DEF BaseOf
<1>3. ASSUME NEW i \in 1 .. n
      PROVE  /\ is[i] \in Info /\ ms[i] \in Meta
             /\ is[i].base \in Nat /\ ms[i].into \in Nat /\ BaseOf(is, i + 1) = is[i].base
  <2>1. is[i] \in Info /\ ms[i] \in Meta
    BY <1>1, ElementOfSeq
  <2>2. i + 1 # 1 /\ i + 1 - 1 = i
    BY <1>1
  <2> QED
    BY <2>1, <2>2 DEF Info, Meta, BaseOf
<1>4. ASSUME NEW k \in 1 .. n + 1 PROVE BaseOf(is, k) \in Nat /\ BaseOf(is, k) <= Len(rs)
  <2>1. CASE k = 1
    BY <2>1, <1>1, <1>2
  <2>2. CASE k # 1
    <3>1. k - 1 \in 1 .. n
      BY <2>2, <1>1
    <3> QED
      BY <2>2, <3>1, <1>3 DEF BaseOf, Proper
  <2> QED
    BY <2>1, <2>2
<1>5. ASSUME NEW j \in 1 .. n + 1, NEW k \in 1 .. n + 1, j <= k PROVE BaseOf(is, j) <= BaseOf(is, k)
  <2>1. CASE j = 1
    BY <2>1, <1>2, <1>4
  <2>2. CASE j # 1
    <3>1. j - 1 \in 1 .. n /\ k - 1 \in 1 .. n /\ j - 1 <= k - 1 /\ k # 1
      BY <2>2, <1>1, <1>5
    <3> QED
      BY <2>2, <3>1 DEF BaseOf, Proper
  <2> QED
    BY <2>1, <2>2
<1> QED
  BY <1>1, <1>2, <1>3, <1>4, <1>5

\* The activation that holds register d, of those below k.
LEMMA OwnerBelow ==
  ASSUME NEW rs, NEW is, NEW ms, Proper(rs, is, ms), NEW k \in 2 .. Len(is) + 2, NEW d \in Nat
  PROVE  /\ OwnerOf(is, d, k) \in 1 .. k - 1 /\ OwnerOf(is, d, k) \in Nat
         /\ BaseOf(is, OwnerOf(is, d, k)) \in Nat /\ BaseOf(is, OwnerOf(is, d, k)) <= d
         /\ \A j \in 1 .. k - 1 : BaseOf(is, j) <= d => j <= OwnerOf(is, d, k)
<1> DEFINE T == {j \in 1 .. k - 1 : BaseOf(is, j) <= d}
<1>1. Len(is) \in Nat /\ k \in Nat /\ k - 1 \in Nat /\ 1 \in 1 .. k - 1 /\ BaseOf(is, 1) <= d
  BY BasesOf
<1>2. T \in SUBSET Nat /\ T # {} /\ \A y \in T : y <= k - 1
  BY <1>1
<1>3. T = {j \in 1 .. k - 1 : BaseOf(is, j) <= d}
  OBVIOUS
<1> HIDE DEF T
<1>4. Max(T) \in T /\ \A y \in T : y <= Max(T)
  BY <1>1, <1>2, MaxIn
<1>5. OwnerOf(is, d, k) = Max(T)
  BY <1>3 DEF OwnerOf
<1>6. Max(T) \in 1 .. Len(is) + 1
  BY <1>1, <1>3, <1>4
<1>7. BaseOf(is, Max(T)) \in Nat
  BY <1>6, BasesOf
<1> QED
  BY <1>1, <1>3, <1>4, <1>5, <1>7

LEMMA OwnerSame ==
  ASSUME NEW is, NEW js, NEW d, NEW k, \A j \in 1 .. k - 1 : BaseOf(is, j) = BaseOf(js, j)
  PROVE  OwnerOf(is, d, k) = OwnerOf(js, d, k)
<1>1. {j \in 1 .. k - 1 : BaseOf(is, j) <= d} = {j \in 1 .. k - 1 : BaseOf(js, j) <= d}
  OBVIOUS
<1> QED
  BY <1>1 DEF OwnerOf

LEMMA Window ==
  ASSUME NEW rs \in Seq(Vals), NEW a \in Nat, NEW b \in Nat, a <= b, b <= Len(rs)
  PROVE  /\ SubSeq(rs, a + 1, b) \in Seq(Vals) /\ Len(SubSeq(rs, a + 1, b)) = b - a
         /\ \A i \in 1 .. b - a : SubSeq(rs, a + 1, b)[i] = rs[a + i]
<1>1. a + 1 \in Nat \ {0} /\ b \in 0 .. Len(rs) /\ a + 1 <= b + 1 /\ b + 1 - (a + 1) = b - a
  BY LenProperties
<1>2. /\ SubSeq(rs, a + 1, b) \in Seq(Vals) /\ Len(SubSeq(rs, a + 1, b)) = b + 1 - (a + 1)
      /\ \A i \in 1 .. b + 1 - (a + 1) : SubSeq(rs, a + 1, b)[i] = rs[a + 1 + i - 1]
  BY <1>1, PieceOf
<1>3. \A i \in 1 .. b - a : a + 1 + i - 1 = a + i
  BY <1>1
<1> QED
  BY <1>1, <1>2, <1>3

LEMMA SameWindow ==
  ASSUME NEW rs \in Seq(Vals), NEW qs \in Seq(Vals), NEW a \in Nat, NEW b \in Nat, a <= b,
         b <= Len(rs), b <= Len(qs), \A i \in a + 1 .. b : qs[i] = rs[i]
  PROVE  SubSeq(qs, a + 1, b) = SubSeq(rs, a + 1, b)
<1> DEFINE x == SubSeq(rs, a + 1, b)  y == SubSeq(qs, a + 1, b)
<1>1. /\ x \in Seq(Vals) /\ Len(x) = b - a /\ \A i \in 1 .. b - a : x[i] = rs[a + i]
      /\ y \in Seq(Vals) /\ Len(y) = b - a /\ \A i \in 1 .. b - a : y[i] = qs[a + i]
  BY Window
<1> HIDE DEF x, y
<1>2. \A i \in 1 .. Len(y) : y[i] = x[i]
  <2>1. ASSUME NEW i \in 1 .. b - a PROVE y[i] = x[i]
    <3>1. a + i \in a + 1 .. b
      OBVIOUS
    <3> QED
      BY <3>1, <1>1
  <2> QED
    BY <2>1, <1>1
<1>3. y = x
  BY <1>1, <1>2, SeqEqual
<1> QED
  BY <1>3 DEF x, y

\* Where the window of activation k ends.
EndOf(rs, is, k) == IF k > Len(is) THEN Len(rs) ELSE BaseOf(is, k + 1)

LEMMA ActivationTypes ==
  ASSUME NEW rs, NEW is, NEW ms, Proper(rs, is, ms)
  PROVE  /\ ActivationsOf(rs, is, ms) \in Seq(Activation) /\ Len(ActivationsOf(rs, is, ms)) = Len(is) + 1
         /\ \A k \in 1 .. Len(is) + 1 :
              /\ ActivationOf(rs, is, ms, k) \in Activation
              /\ ActivationsOf(rs, is, ms)[k] = ActivationOf(rs, is, ms, k)
              /\ WindowOf(rs, is, k) = SubSeq(rs, BaseOf(is, k) + 1, EndOf(rs, is, k))
              /\ EndOf(rs, is, k) \in Nat /\ BaseOf(is, k) <= EndOf(rs, is, k) /\ EndOf(rs, is, k) <= Len(rs)
              /\ ActivationOf(rs, is, ms, k).locals = WindowOf(rs, is, k)
<1> DEFINE n == Len(is)
<1>1. n \in Nat /\ Len(rs) \in Nat /\ rs \in Seq(Vals)
  BY BasesOf DEF Proper
<1>2. ASSUME NEW k \in 1 .. n + 1
      PROVE  /\ WindowOf(rs, is, k) = SubSeq(rs, BaseOf(is, k) + 1, EndOf(rs, is, k))
             /\ EndOf(rs, is, k) \in Nat /\ BaseOf(is, k) <= EndOf(rs, is, k) /\ EndOf(rs, is, k) <= Len(rs)
             /\ ActivationOf(rs, is, ms, k) \in Activation
             /\ ActivationOf(rs, is, ms, k).locals = WindowOf(rs, is, k)
  <2>1. WindowOf(rs, is, k) = SubSeq(rs, BaseOf(is, k) + 1, EndOf(rs, is, k))
    BY DEF WindowOf, EndOf
  <2>2. EndOf(rs, is, k) \in Nat /\ BaseOf(is, k) <= EndOf(rs, is, k) /\ EndOf(rs, is, k) <= Len(rs) /\ BaseOf(is, k) \in Nat
    <3>1. CASE k > n
      BY <3>1, <1>1, BasesOf DEF EndOf
    <3>2. CASE ~(k > n)
      <4>1. k + 1 \in 1 .. n + 1 /\ k <= k + 1
        BY <3>2, <1>1
      <4> QED
        BY <3>2, <4>1, BasesOf DEF EndOf
    <3> QED
      BY <3>1, <3>2
  <2>3. WindowOf(rs, is, k) \in Seq(Vals)
    BY <2>1, <2>2, <1>1, Window
  <2>4. ActivationOf(rs, is, ms, k) \in Activation /\ ActivationOf(rs, is, ms, k).locals = WindowOf(rs, is, k)
    <3>1. CASE k = 1
      <4>1. Main \in Chunks /\ End \in 0 .. End
        BY BoundAssumption DEF Chunks, End
      <4> QED
        BY <3>1, <4>1, <2>3 DEF ActivationOf, Activation
    <3>2. CASE k # 1
      <4> DEFINE d == ms[k - 1].into  o == OwnerOf(is, d, k)
      <4>1. k - 1 \in 1 .. n /\ k \in 2 .. Len(is) + 2
        BY <3>2, <1>1
      <4>2. d \in Nat /\ ms[k - 1] \in Meta /\ is[k - 1] \in Info
        BY <4>1, BasesOf
      <4>3. o \in Nat /\ d - BaseOf(is, o) \in Nat
        <5> HIDE DEF d
        <5>1. /\ OwnerOf(is, d, k) \in Nat
              /\ BaseOf(is, OwnerOf(is, d, k)) \in Nat /\ BaseOf(is, OwnerOf(is, d, k)) <= d
          BY <4>1, <4>2, OwnerBelow
        <5> QED
          BY <5>1, <4>2
      <4>4. ms[k - 1].chunk \in Chunks /\ is[k - 1].ret \in 0 .. End
        BY <4>2 DEF Meta, Info
      <4> HIDE DEF o
      <4>5. ActivationOf(rs, is, ms, k) = [locals |-> WindowOf(rs, is, k),
               back   |-> [chunk |-> ms[k - 1].chunk, ip |-> is[k - 1].ret],
               into   |-> <<o, d - BaseOf(is, o)>>]
        BY <3>2 DEF ActivationOf, o
      <4> HIDE DEF d
      <4> QED
        BY <4>3, <4>4, <4>5, <2>3 DEF Activation
    <3> QED
      BY <3>1, <3>2
  <2> QED
    BY <2>1, <2>2, <2>4
<1>3. ActivationsOf(rs, is, ms) = [k \in 1 .. n + 1 |-> ActivationOf(rs, is, ms, k)]
  BY DEF ActivationsOf
<1>4. ActivationsOf(rs, is, ms) \in [1 .. n + 1 -> Activation]
  BY <1>2, <1>3
<1>5. ActivationsOf(rs, is, ms) \in Seq(Activation) /\ Len(ActivationsOf(rs, is, ms)) = n + 1
  <2> DEFINE a == ActivationsOf(rs, is, ms)  m == n + 1
  <2>1. a \in [1 .. m -> Activation] /\ m \in Nat
    BY <1>1, <1>4
  <2> HIDE DEF a, m
  <2>2. a \in Seq(Activation) /\ Len(a) = m
    BY <2>1, SeqDef
  <2> QED
    BY <2>2 DEF a, m
<1> QED
  BY <1>2, <1>3, <1>5

\* Two register files and two stacks of frames that agree up to activation k.
LEMMA SameActivation ==
  ASSUME NEW rs, NEW is, NEW ms, Proper(rs, is, ms), NEW qs, NEW js, NEW ns, Proper(qs, js, ns),
         NEW k \in Nat \ {0}, k <= Len(is) + 1, k <= Len(js) + 1,
         \A j \in 1 .. k - 1 : /\ is[j].base = js[j].base /\ is[j].ret = js[j].ret
                               /\ ms[j].into = ns[j].into /\ ms[j].chunk = ns[j].chunk
  PROVE  /\ BaseOf(js, k) = BaseOf(is, k)
         /\ ActivationOf(qs, js, ns, k) = [ActivationOf(rs, is, ms, k) EXCEPT !.locals = WindowOf(qs, js, k)]
         /\ ActivationOf(qs, js, ns, k).back = ActivationOf(rs, is, ms, k).back
         /\ ActivationOf(qs, js, ns, k).into = ActivationOf(rs, is, ms, k).into
<1>1. k \in 1 .. Len(is) + 1 /\ k \in 1 .. Len(js) + 1 /\ Len(is) \in Nat /\ Len(js) \in Nat
  BY BasesOf
<1>2. \A j \in 1 .. k : BaseOf(js, j) = BaseOf(is, j)
  <2>1. ASSUME NEW j \in 1 .. k PROVE BaseOf(js, j) = BaseOf(is, j)
    <3>1. j # 1 => j - 1 \in 1 .. k - 1
      OBVIOUS
    <3> QED
      BY <3>1 DEF BaseOf
  <2> QED
    BY <2>1
<1>3. /\ ActivationOf(rs, is, ms, k) \in Activation /\ ActivationOf(qs, js, ns, k) \in Activation
      /\ ActivationOf(qs, js, ns, k).locals = WindowOf(qs, js, k)
  BY <1>1, ActivationTypes
<1> DEFINE a == ActivationOf(rs, is, ms, k)  b == ActivationOf(qs, js, ns, k)
<1>4. b.back = a.back /\ b.into = a.into
  <2>1. CASE k = 1
    BY <2>1 DEF ActivationOf
  <2>2. CASE k # 1
    <3>1. k - 1 \in 1 .. k - 1
      BY <2>2
    <3>2. /\ is[k - 1].ret = js[k - 1].ret /\ ms[k - 1].into = ns[k - 1].into
          /\ ms[k - 1].chunk = ns[k - 1].chunk
      BY <3>1
    <3> DEFINE d == ms[k - 1].into  o == OwnerOf(is, d, k)
    <3>3. OwnerOf(js, d, k) = o
      BY <1>2, OwnerSame
    <3>4. BaseOf(js, o) = BaseOf(is, o)
      <4>1. d \in Nat /\ k \in 2 .. Len(is) + 2
        <5>1. k - 1 \in 1 .. Len(is)
          BY <1>1, <2>2
        <5> QED
          BY <5>1, <1>1, <2>2, BasesOf
      <4>2. o \in 1 .. k - 1
        <5> HIDE DEF d
        <5> QED
          BY <4>1, OwnerBelow
      <4> HIDE DEF o
      <4> QED
        BY <4>2, <1>2
    <3> HIDE DEF o
    <3>5. a = [locals |-> WindowOf(rs, is, k), back |-> [chunk |-> ms[k - 1].chunk, ip |-> is[k - 1].ret],
               into |-> <<o, d - BaseOf(is, o)>>]
      BY <2>2 DEF ActivationOf, o
    <3>6. b = [locals |-> WindowOf(qs, js, k), back |-> [chunk |-> ns[k - 1].chunk, ip |-> js[k - 1].ret],
               into |-> <<o, d - BaseOf(js, o)>>]
      BY <2>2, <3>2, <3>3 DEF ActivationOf
    <3> HIDE DEF d
    <3>7. a.back = [chunk |-> ms[k - 1].chunk, ip |-> is[k - 1].ret] /\ a.into = <<o, d - BaseOf(is, o)>>
      BY <3>5
    <3>8. b.back = [chunk |-> ns[k - 1].chunk, ip |-> js[k - 1].ret] /\ b.into = <<o, d - BaseOf(js, o)>>
      BY <3>6
    <3> QED
      BY <3>2, <3>4, <3>7, <3>8
  <2> QED
    BY <2>1, <2>2
<1> HIDE DEF a, b
<1>5. a \in Activation /\ b \in Activation /\ b.locals = WindowOf(qs, js, k)
  BY <1>3 DEF a, b
<1>6. b = [a EXCEPT !.locals = WindowOf(qs, js, k)]
  BY <1>4, <1>5 DEF Activation
<1> QED
  BY <1>1, <1>2, <1>4, <1>6 DEF a, b

\* all with one activation more: the frames js, ns on register file qs.
Entered(all, qs, js, ns, new) ==
    Proper(qs, js, ns) /\ ActivationsOf(qs, js, ns) = Append(all, new)

NewActivation(is, info, meta, more) ==
    LET o == OwnerOf(is, meta.into, Len(is) + 2)
    IN  [locals |-> more, back |-> [chunk |-> meta.chunk, ip |-> info.ret],
         into |-> <<o, meta.into - BaseOf(is, o)>>]

\* A frame on top of the register file: a window above an untouched caller.
LEMMA PushActivation ==
  ASSUME NEW rs, NEW is, NEW ms, Proper(rs, is, ms), NEW info \in Info, NEW meta \in Meta,
         info.base = Len(rs), meta.into < Len(rs), NEW more \in Seq(Vals)
  PROVE  Entered(ActivationsOf(rs, is, ms), rs \o more, Append(is, info), Append(ms, meta),
                 NewActivation(is, info, meta, more))
<1> DEFINE n == Len(is)  d == meta.into  o == OwnerOf(is, d, n + 2)
           new == [locals |-> more, back |-> [chunk |-> meta.chunk, ip |-> info.ret],
                   into |-> <<o, d - BaseOf(is, o)>>]
           qs == rs \o more  js == Append(is, info)  ns == Append(ms, meta)
           old == ActivationsOf(rs, is, ms)  left == ActivationsOf(qs, js, ns)  right == Append(old, new)
<1>1. /\ n \in Nat /\ Len(rs) \in Nat /\ rs \in Seq(Vals) /\ is \in Seq(Info) /\ ms \in Seq(Meta)
      /\ Len(ms) = n /\ d \in Nat /\ d < Len(rs) /\ Len(more) \in Nat /\ meta.chunk \in Chunks
      /\ info.ret \in 0 .. End
  BY BasesOf, LenProperties DEF Proper, Meta, Info
<1>2. /\ js \in Seq(Info) /\ Len(js) = n + 1 /\ js[n + 1] = info /\ \A i \in 1 .. n : js[i] = is[i]
      /\ ns \in Seq(Meta) /\ Len(ns) = n + 1 /\ ns[n + 1] = meta /\ \A i \in 1 .. n : ns[i] = ms[i]
  <2>1. /\ Append(is, info) \in Seq(Info) /\ Len(Append(is, info)) = Len(is) + 1
        /\ Append(is, info)[Len(is) + 1] = info /\ \A i \in 1 .. Len(is) : Append(is, info)[i] = is[i]
    BY <1>1, AppendProperties
  <2>2. /\ Append(ms, meta) \in Seq(Meta) /\ Len(Append(ms, meta)) = Len(ms) + 1
        /\ Append(ms, meta)[Len(ms) + 1] = meta /\ \A i \in 1 .. Len(ms) : Append(ms, meta)[i] = ms[i]
    BY <1>1, AppendProperties
  <2> QED
    BY <2>1, <2>2, <1>1
<1>3. /\ qs \in Seq(Vals) /\ Len(qs) = Len(rs) + Len(more)
      /\ \A i \in 1 .. Len(rs) + Len(more) : qs[i] = IF i <= Len(rs) THEN rs[i] ELSE more[i - Len(rs)]
  BY <1>1, ConcatProperties
<1> HIDE DEF js, ns, qs, n, d
<1>4. \A i \in 1 .. n : /\ 0 < is[i].base /\ is[i].base <= Len(rs) /\ ms[i].into < is[i].base
                        /\ is[i].base \in Nat
  BY BasesOf DEF Proper, n
<1>5. \A i, j \in 1 .. n : i <= j => is[i].base <= is[j].base
  BY DEF Proper, n
<1>6. Proper(qs, js, ns)
  <2>1. ASSUME NEW i \in 1 .. n + 1
        PROVE  /\ 0 < js[i].base /\ js[i].base <= Len(qs) /\ ns[i].into < js[i].base
    <3>1. CASE i = n + 1
      <4>1. js[i].base = Len(rs) /\ ns[i].into = d
        BY <3>1, <1>2 DEF d
      <4> QED
        BY <4>1, <1>1, <1>3
    <3>2. CASE i # n + 1
      <4>1. i \in 1 .. n
        BY <3>2, <1>1
      <4>2. js[i] = is[i] /\ ns[i] = ms[i]
        BY <4>1, <1>2
      <4>3. /\ 0 < is[i].base /\ is[i].base <= Len(rs) /\ ms[i].into < is[i].base
            /\ is[i].base \in Nat
        BY <4>1, <1>4
      <4>4. is[i].base <= Len(qs)
        BY <4>3, <1>1, <1>3
      <4> QED
        BY <4>2, <4>3, <4>4
    <3> QED
      BY <3>1, <3>2
  <2>2. ASSUME NEW i \in 1 .. n + 1, NEW j \in 1 .. n + 1, i <= j PROVE js[i].base <= js[j].base
    <3>1. CASE j = n + 1
      <4>1. js[j].base = Len(rs)
        BY <3>1, <1>2
      <4>2. i # n + 1 => i \in 1 .. n
        BY <1>1
      <4> QED
        BY <4>1, <4>2, <3>1, <1>1, <1>2, <1>4
    <3>2. CASE j # n + 1
      <4>1. i \in 1 .. n /\ j \in 1 .. n
        BY <3>2, <2>2, <1>1
      <4> QED
        BY <4>1, <2>2, <1>2, <1>5
    <3> QED
      BY <3>1, <3>2
  <2> QED
    BY <2>1, <2>2, <1>2, <1>3 DEF Proper
<1>7. /\ old \in Seq(Activation) /\ Len(old) = n + 1
      /\ \A k \in 1 .. n + 1 : old[k] = ActivationOf(rs, is, ms, k)
  BY ActivationTypes DEF n
<1>8. /\ left \in Seq(Activation) /\ Len(left) = n + 2
      /\ \A k \in 1 .. n + 2 : left[k] = ActivationOf(qs, js, ns, k)
  <2>1. /\ left \in Seq(Activation) /\ Len(left) = Len(js) + 1
        /\ \A k \in 1 .. Len(js) + 1 : left[k] = ActivationOf(qs, js, ns, k)
    BY <1>6, ActivationTypes
  <2>2. Len(js) + 1 = n + 2
    BY <1>1, <1>2
  <2> QED
    BY <2>1, <2>2
<1>9. o \in Nat /\ o \in 1 .. n + 1 /\ BaseOf(is, o) \in Nat /\ BaseOf(is, o) <= d
  <2> DEFINE k == n + 2
  <2>1. k \in 2 .. Len(is) + 2 /\ k - 1 = n + 1
    BY <1>1 DEF n
  <2> HIDE DEF k
  <2>2. /\ OwnerOf(is, d, k) \in 1 .. k - 1 /\ OwnerOf(is, d, k) \in Nat
        /\ BaseOf(is, OwnerOf(is, d, k)) \in Nat /\ BaseOf(is, OwnerOf(is, d, k)) <= d
    BY <2>1, <1>1, OwnerBelow
  <2> QED
    BY <2>1, <2>2 DEF k
<1>10. new \in Activation
  <2> HIDE DEF o
  <2>1. d - BaseOf(is, o) \in Nat
    BY <1>1, <1>9
  <2> QED
    BY <2>1, <1>1, <1>9 DEF Activation
<1>11. \A j \in 1 .. n + 1 : BaseOf(js, j) = BaseOf(is, j)
  <2>1. ASSUME NEW j \in 1 .. n + 1 PROVE BaseOf(js, j) = BaseOf(is, j)
    <3>1. j # 1 => j - 1 \in 1 .. n
      BY <1>1
    <3> QED
      BY <3>1, <1>2 DEF BaseOf
  <2> QED
    BY <2>1
<1>12. left[n + 2] = new
  <2> DEFINE k == n + 2
  <2>1. k \in 1 .. n + 2 /\ k # 1 /\ k - 1 = n + 1 /\ k > Len(js)
    BY <1>1, <1>2
  <2>2. left[k] = ActivationOf(qs, js, ns, k) /\ js[k - 1] = info /\ ns[k - 1] = meta
    BY <2>1, <1>2, <1>8
  <2>3. OwnerOf(js, d, k) = o
    <3>1. \A j \in 1 .. k - 1 : BaseOf(is, j) = BaseOf(js, j)
      BY <2>1, <1>11
    <3> HIDE DEF k
    <3>2. OwnerOf(is, d, k) = OwnerOf(js, d, k)
      BY <3>1, OwnerSame
    <3> QED
      BY <3>2 DEF k
  <2>4. BaseOf(js, o) = BaseOf(is, o)
    <3> HIDE DEF o
    <3> QED
      BY <1>9, <1>11
  <2>5. WindowOf(qs, js, k) = more
    <3>1. BaseOf(js, k) = Len(rs)
      BY <2>1, <2>2 DEF BaseOf
    <3>2. WindowOf(qs, js, k) = SubSeq(qs, Len(rs) + 1, Len(qs))
      BY <3>1, <2>1 DEF WindowOf
    <3> DEFINE w == SubSeq(qs, Len(rs) + 1, Len(qs))
    <3>3. /\ w \in Seq(Vals) /\ Len(w) = Len(qs) - Len(rs) /\ \A i \in 1 .. Len(qs) - Len(rs) : w[i] = qs[Len(rs) + i]
      <4>1. Len(rs) \in Nat /\ Len(qs) \in Nat /\ Len(rs) <= Len(qs) /\ Len(qs) <= Len(qs)
        BY <1>1, <1>3
      <4> QED
        BY <4>1, <1>3, Window
    <3> HIDE DEF w
    <3>4. Len(w) = Len(more)
      BY <3>3, <1>1, <1>3
    <3>5. ASSUME NEW i \in 1 .. Len(w) PROVE w[i] = more[i]
      <4>1. Len(rs) + i \in 1 .. Len(rs) + Len(more) /\ ~(Len(rs) + i <= Len(rs)) /\ Len(rs) + i - Len(rs) = i
        BY <3>4, <1>1
      <4>2. w[i] = qs[Len(rs) + i]
        BY <3>3
      <4> QED
        BY <4>1, <4>2, <1>3
    <3>6. w = more
      BY <3>3, <3>4, <3>5, SeqEqual
    <3> QED
      BY <3>2, <3>6 DEF w
  <2>6. ActivationOf(qs, js, ns, k)
          = [locals |-> WindowOf(qs, js, k), back |-> [chunk |-> ns[k - 1].chunk, ip |-> js[k - 1].ret],
             into |-> <<OwnerOf(js, ns[k - 1].into, k), ns[k - 1].into - BaseOf(js, OwnerOf(js, ns[k - 1].into, k))>>]
    BY <2>1 DEF ActivationOf
  <2>7. ns[k - 1].into = d /\ js[k - 1].ret = info.ret /\ ns[k - 1].chunk = meta.chunk
    BY <2>2 DEF d
  <2> HIDE DEF k, o
  <2>8. ActivationOf(qs, js, ns, k) = new
    BY <2>3, <2>4, <2>5, <2>6, <2>7
  <2> QED
    BY <2>2, <2>8 DEF k
<1>13. ASSUME NEW k \in 1 .. n + 1 PROVE left[k] = old[k]
  <2>0. k \in Nat \ {0} /\ k <= Len(is) + 1 /\ k <= Len(js) + 1 /\ k \in 1 .. n + 2
    BY <1>1, <1>2 DEF n
  <2>1. \A j \in 1 .. k - 1 : /\ is[j].base = js[j].base /\ is[j].ret = js[j].ret
                              /\ ms[j].into = ns[j].into /\ ms[j].chunk = ns[j].chunk
    BY <1>1, <1>2
  <2>2. /\ BaseOf(js, k) = BaseOf(is, k)
        /\ ActivationOf(qs, js, ns, k) = [ActivationOf(rs, is, ms, k) EXCEPT !.locals = WindowOf(qs, js, k)]
    BY <2>0, <2>1, <1>6, SameActivation
  <2>3. EndOf(qs, js, k) = EndOf(rs, is, k)
    <3>1. CASE k = n + 1
      <4>1. ~(k > Len(js)) /\ k > Len(is) /\ k + 1 # 1 /\ k + 1 - 1 = n + 1
        BY <3>1, <1>1, <1>2 DEF n
      <4>2. BaseOf(js, k + 1) = Len(rs)
        BY <4>1, <1>2 DEF BaseOf
      <4> QED
        BY <4>1, <4>2 DEF EndOf
    <3>2. CASE k # n + 1
      <4>1. ~(k > Len(js)) /\ ~(k > Len(is)) /\ k + 1 \in 1 .. n + 1
        BY <3>2, <1>1, <1>2 DEF n
      <4> QED
        BY <4>1, <1>11 DEF EndOf
    <3> QED
      BY <3>1, <3>2
  <2>4. /\ WindowOf(rs, is, k) = SubSeq(rs, BaseOf(is, k) + 1, EndOf(rs, is, k))
        /\ EndOf(rs, is, k) \in Nat /\ BaseOf(is, k) <= EndOf(rs, is, k) /\ EndOf(rs, is, k) <= Len(rs)
        /\ BaseOf(is, k) \in Nat /\ ActivationOf(rs, is, ms, k) \in Activation
        /\ ActivationOf(rs, is, ms, k).locals = WindowOf(rs, is, k)
    BY ActivationTypes, BasesOf DEF n
  <2>5. WindowOf(qs, js, k) = SubSeq(qs, BaseOf(js, k) + 1, EndOf(qs, js, k))
    <3>1. k \in 1 .. Len(js) + 1
      BY <2>0, <1>1, <1>2
    <3> QED
      BY <3>1, <1>6, ActivationTypes
  <2>6. WindowOf(qs, js, k) = WindowOf(rs, is, k)
    <3> DEFINE a == BaseOf(is, k)  b == EndOf(rs, is, k)
    <3>1. a \in Nat /\ b \in Nat /\ a <= b /\ b <= Len(rs) /\ b <= Len(qs) /\ \A i \in a + 1 .. b : qs[i] = rs[i]
      <4>1. a \in Nat /\ b \in Nat /\ a <= b /\ b <= Len(rs)
        BY <2>4
      <4> HIDE DEF a, b
      <4>2. b <= Len(qs) /\ \A i \in a + 1 .. b : i \in 1 .. Len(rs) + Len(more) /\ i <= Len(rs)
        BY <4>1, <1>1, <1>3
      <4> QED
        BY <4>1, <4>2, <1>3
    <3> HIDE DEF a, b
    <3>2. SubSeq(qs, a + 1, b) = SubSeq(rs, a + 1, b)
      BY <3>1, <1>1, <1>3, SameWindow
    <3> QED
      BY <3>2, <2>2, <2>3, <2>4, <2>5 DEF a, b
  <2>7. ActivationOf(qs, js, ns, k) = ActivationOf(rs, is, ms, k)
    BY <2>2, <2>4, <2>6 DEF Activation
  <2> QED
    BY <2>0, <2>7, <1>7, <1>8
<1> HIDE DEF left, old, new
<1>14. /\ right \in Seq(Activation) /\ Len(right) = n + 2 /\ right[n + 2] = new
       /\ \A k \in 1 .. n + 1 : right[k] = old[k]
  <2>1. /\ Append(old, new) \in Seq(Activation) /\ Len(Append(old, new)) = Len(old) + 1
        /\ Append(old, new)[Len(old) + 1] = new /\ \A k \in 1 .. Len(old) : Append(old, new)[k] = old[k]
    BY <1>7, <1>10, AppendProperties
  <2>2. n + 1 + 1 = n + 2
    BY <1>1
  <2> QED
    BY <2>1, <2>2, <1>7
<1> HIDE DEF right
<1>15. ASSUME NEW k \in 1 .. Len(left) PROVE left[k] = right[k]
  <2>1. k = n + 2 \/ k \in 1 .. n + 1
    BY <1>1, <1>8
  <2> QED
    BY <2>1, <1>12, <1>13, <1>14
<1>16. left = right
  BY <1>8, <1>14, <1>15, SeqEqual
<1> QED
  <2>1. new = NewActivation(is, info, meta, more)
    BY DEF new, o, d, n, NewActivation
  <2>2. Entered(old, qs, js, ns, new)
    BY <1>6, <1>16 DEF left, right, Entered
  <2> QED
    BY <2>1, <2>2 DEF old, qs, js, ns

\* all without its newest, which returned v: the frames js, ns on register file qs.
Returned(all, qs, js, ns, info, meta, v) ==
    /\ Proper(qs, js, ns) /\ Len(qs) = info.base
    /\ Len(all) = Len(js) + 2
    /\ all[Len(all)].back = [chunk |-> meta.chunk, ip |-> info.ret]
    /\ ActivationsOf(qs, js, ns)
         = SubSeq([all EXCEPT ![all[Len(all)].into[1]].locals[all[Len(all)].into[2] + 1] = v], 1, Len(all) - 1)

\* The newest window goes, with what it returned written into its caller.
LEMMA PopActivation ==
  ASSUME NEW js \in Seq(Info), NEW ns \in Seq(Meta), NEW info \in Info, NEW meta \in Meta, NEW rs,
         Proper(rs, Append(js, info), Append(ns, meta)), NEW v \in Vals
  PROVE  Returned(ActivationsOf(rs, Append(js, info), Append(ns, meta)),
                  SubSeq([rs EXCEPT ![meta.into + 1] = v], 1, info.base), js, ns, info, meta, v)
<1> DEFINE is == Append(js, info)  ms == Append(ns, meta)  n == Len(is)  d == meta.into
           o == OwnerOf(is, d, n + 1)  x == d - BaseOf(is, o) + 1
           ws == [rs EXCEPT ![d + 1] = v]  qs == SubSeq(ws, 1, info.base)
           old == ActivationsOf(rs, is, ms)  left == ActivationsOf(qs, js, ns)
           e == [old[o] EXCEPT !.locals = [old[o].locals EXCEPT ![x] = v]]
           mid == [old EXCEPT ![o] = e]
<1>1. /\ is \in Seq(Info) /\ Len(is) = Len(js) + 1 /\ is[Len(js) + 1] = info /\ \A i \in 1 .. Len(js) : is[i] = js[i]
      /\ ms \in Seq(Meta) /\ Len(ms) = Len(ns) + 1 /\ ms[Len(ns) + 1] = meta /\ \A i \in 1 .. Len(ns) : ms[i] = ns[i]
      /\ Len(js) \in Nat /\ Len(ns) \in Nat
  <2>1. /\ Append(js, info) \in Seq(Info) /\ Len(Append(js, info)) = Len(js) + 1
        /\ Append(js, info)[Len(js) + 1] = info /\ \A i \in 1 .. Len(js) : Append(js, info)[i] = js[i]
    BY AppendProperties
  <2>2. /\ Append(ns, meta) \in Seq(Meta) /\ Len(Append(ns, meta)) = Len(ns) + 1
        /\ Append(ns, meta)[Len(ns) + 1] = meta /\ \A i \in 1 .. Len(ns) : Append(ns, meta)[i] = ns[i]
    BY AppendProperties
  <2> QED
    BY <2>1, <2>2, LenProperties
<1>2. Proper(rs, is, ms)
  OBVIOUS
<1> HIDE DEF is, ms
<1>3. /\ n \in Nat /\ n >= 1 /\ Len(js) = n - 1 /\ Len(ns) = n - 1 /\ rs \in Seq(Vals) /\ Len(rs) \in Nat
      /\ is[n] = info /\ ms[n] = meta /\ (\A i \in 1 .. n - 1 : is[i] = js[i] /\ ms[i] = ns[i])
      /\ n \in 1 .. n
  <2>1. Len(is) = Len(ms) /\ rs \in Seq(Vals)
    BY <1>2 DEF Proper
  <2>2. Len(rs) \in Nat
    BY <2>1, LenProperties
  <2> HIDE DEF ws, qs, old, left, o, x, d, e, mid
  <2>3. Len(ns) = Len(js) /\ n = Len(js) + 1 /\ n \in Nat /\ n >= 1
    <3>1. Len(js) + 1 = Len(ns) + 1
      BY <2>1, <1>1
    <3> DEFINE a == Len(js)  b == Len(ns)
    <3>2. a \in Nat /\ b \in Nat /\ a + 1 = b + 1
      BY <3>1, <1>1
    <3> HIDE DEF a, b
    <3>3. a = b /\ a + 1 \in Nat /\ a + 1 >= 1
      BY <3>2
    <3>4. n = a + 1
      BY <1>1 DEF a
    <3> QED
      BY <3>3, <3>4 DEF a, b
  <2> HIDE DEF n
  <2>4. Len(js) + 1 = n /\ Len(ns) + 1 = n /\ Len(js) = n - 1 /\ Len(ns) = n - 1 /\ n \in 1 .. n
    BY <2>3, <1>1
  <2>5. is[n] = info /\ ms[n] = meta /\ \A i \in 1 .. n - 1 : is[i] = js[i] /\ ms[i] = ns[i]
    BY <2>4, <1>1
  <2> QED
    BY <2>1, <2>2, <2>3, <2>4, <2>5
<1> HIDE DEF n
<1>4. \A i \in 1 .. n : /\ 0 < is[i].base /\ is[i].base <= Len(rs) /\ ms[i].into < is[i].base
                        /\ is[i].base \in Nat /\ BaseOf(is, i + 1) = is[i].base
  BY <1>2, BasesOf DEF Proper, n
<1>5. \A i, j \in 1 .. n : i <= j => is[i].base <= is[j].base
  BY <1>2 DEF Proper, n
<1>6. /\ d \in Nat /\ d < info.base /\ info.base \in Nat /\ info.base <= Len(rs) /\ 0 < info.base
      /\ BaseOf(is, n + 1) = info.base
  BY <1>3, <1>4 DEF Meta
<1>7. ws \in Seq(Vals) /\ Len(ws) = Len(rs) /\ \A i \in 1 .. Len(rs) : ws[i] = IF i = d + 1 THEN v ELSE rs[i]
  <2> DEFINE at == d + 1
  <2>1. at \in 1 .. Len(rs)
    BY <1>3, <1>6
  <2> HIDE DEF at
  <2>2. /\ [rs EXCEPT ![at] = v] \in Seq(Vals) /\ Len([rs EXCEPT ![at] = v]) = Len(rs)
        /\ \A i \in 1 .. Len(rs) : [rs EXCEPT ![at] = v][i] = IF i = at THEN v ELSE rs[i]
    BY <2>1, <1>3, ExceptSeq
  <2> QED
    BY <2>2 DEF at
<1> HIDE DEF ws, d
<1>8. qs \in Seq(Vals) /\ Len(qs) = info.base /\ \A i \in 1 .. info.base : qs[i] = IF i = d + 1 THEN v ELSE rs[i]
  <2> DEFINE z == 0
  <2>1. z \in Nat /\ z <= info.base /\ info.base <= Len(ws)
    BY <1>3, <1>6, <1>7
  <2> HIDE DEF z
  <2>2. /\ SubSeq(ws, z + 1, info.base) \in Seq(Vals) /\ Len(SubSeq(ws, z + 1, info.base)) = info.base - z
        /\ \A i \in 1 .. info.base - z : SubSeq(ws, z + 1, info.base)[i] = ws[z + i]
    BY <2>1, <1>6, <1>7, Window
  <2>3. z + 1 = 1 /\ info.base - z = info.base
    BY <1>6 DEF z
  <2>4. \A i \in 1 .. info.base : z + i = i /\ i \in 1 .. Len(rs)
    BY <1>3, <1>6 DEF z
  <2> QED
    BY <2>2, <2>3, <2>4, <1>7
<1> HIDE DEF qs
<1>9. Proper(qs, js, ns)
  <2>1. ASSUME NEW i \in 1 .. n - 1
        PROVE  0 < js[i].base /\ js[i].base <= Len(qs) /\ ns[i].into < js[i].base
    <3>1. i \in 1 .. n /\ i <= n /\ js[i] = is[i] /\ ns[i] = ms[i]
      BY <1>3
    <3>2. is[i].base <= is[n].base
      BY <3>1, <1>3, <1>5
    <3> QED
      BY <3>1, <3>2, <1>3, <1>4, <1>8
  <2>2. ASSUME NEW i \in 1 .. n - 1, NEW j \in 1 .. n - 1, i <= j PROVE js[i].base <= js[j].base
    <3>1. i \in 1 .. n /\ j \in 1 .. n /\ js[i] = is[i] /\ js[j] = is[j]
      BY <1>3
    <3> QED
      BY <3>1, <2>2, <1>5
  <2> QED
    BY <2>1, <2>2, <1>3, <1>8 DEF Proper
<1>10. /\ old \in Seq(Activation) /\ Len(old) = n + 1
       /\ \A k \in 1 .. n + 1 : /\ old[k] = ActivationOf(rs, is, ms, k) /\ old[k] \in Activation
                                /\ old[k].locals = SubSeq(rs, BaseOf(is, k) + 1, EndOf(rs, is, k))
                                /\ BaseOf(is, k) \in Nat /\ EndOf(rs, is, k) \in Nat
                                /\ BaseOf(is, k) <= EndOf(rs, is, k) /\ EndOf(rs, is, k) <= Len(rs)
  <2> HIDE DEF old
  <2>1. /\ old \in Seq(Activation) /\ Len(old) = Len(is) + 1
        /\ \A k \in 1 .. Len(is) + 1 :
             /\ ActivationOf(rs, is, ms, k) \in Activation
             /\ old[k] = ActivationOf(rs, is, ms, k)
             /\ WindowOf(rs, is, k) = SubSeq(rs, BaseOf(is, k) + 1, EndOf(rs, is, k))
             /\ EndOf(rs, is, k) \in Nat /\ BaseOf(is, k) <= EndOf(rs, is, k) /\ EndOf(rs, is, k) <= Len(rs)
             /\ ActivationOf(rs, is, ms, k).locals = WindowOf(rs, is, k)
    BY <1>2, ActivationTypes DEF old
  <2>2. \A k \in 1 .. Len(is) + 1 : BaseOf(is, k) \in Nat
    BY <1>2, BasesOf
  <2> HIDE DEF o, left
  <2> QED
    BY <2>1, <2>2 DEF n
<1>11. /\ left \in Seq(Activation) /\ Len(left) = n
       /\ \A k \in 1 .. n : /\ left[k] = ActivationOf(qs, js, ns, k) /\ left[k] \in Activation
                            /\ WindowOf(qs, js, k) = SubSeq(qs, BaseOf(js, k) + 1, EndOf(qs, js, k))
  <2>1. /\ left \in Seq(Activation) /\ Len(left) = Len(js) + 1
        /\ \A k \in 1 .. Len(js) + 1 :
             /\ left[k] = ActivationOf(qs, js, ns, k) /\ left[k] \in Activation
             /\ WindowOf(qs, js, k) = SubSeq(qs, BaseOf(js, k) + 1, EndOf(qs, js, k))
    BY <1>9, ActivationTypes
  <2>2. Len(js) + 1 = n
    BY <1>3
  <2> QED
    BY <2>1, <2>2
<1>12. /\ o \in 1 .. n /\ o \in Nat /\ BaseOf(is, o) \in Nat /\ BaseOf(is, o) <= d
       /\ \A j \in 1 .. n : BaseOf(is, j) <= d => j <= o
  <2> DEFINE k == n + 1
  <2>1. k \in 2 .. Len(is) + 2 /\ k - 1 = n
    BY <1>3 DEF n
  <2> HIDE DEF k
  <2>2. /\ OwnerOf(is, d, k) \in 1 .. k - 1 /\ OwnerOf(is, d, k) \in Nat
        /\ BaseOf(is, OwnerOf(is, d, k)) \in Nat /\ BaseOf(is, OwnerOf(is, d, k)) <= d
        /\ \A j \in 1 .. k - 1 : BaseOf(is, j) <= d => j <= OwnerOf(is, d, k)
    BY <2>1, <1>2, <1>6, OwnerBelow
  <2> QED
    BY <2>1, <2>2 DEF k
<1>13. old[n + 1].into = <<o, d - BaseOf(is, o)>> /\ old[n + 1].back = [chunk |-> meta.chunk, ip |-> info.ret]
  <2> DEFINE k == n + 1
  <2>1. k # 1 /\ k - 1 = n /\ k \in 1 .. n + 1
    BY <1>3
  <2> HIDE DEF k, o
  <2>2. ms[k - 1].into = d /\ is[k - 1] = info /\ ms[k - 1] = meta
    BY <2>1, <1>3 DEF d
  <2>3. ActivationOf(rs, is, ms, k)
          = [locals |-> WindowOf(rs, is, k), back |-> [chunk |-> ms[k - 1].chunk, ip |-> is[k - 1].ret],
             into |-> <<OwnerOf(is, ms[k - 1].into, k), ms[k - 1].into - BaseOf(is, OwnerOf(is, ms[k - 1].into, k))>>]
    BY <2>1 DEF ActivationOf
  <2>4. OwnerOf(is, ms[k - 1].into, k) = o
    BY <2>2 DEF o, k
  <2>5. old[k] = ActivationOf(rs, is, ms, k)
    BY <2>1, <1>10
  <2>6. /\ ActivationOf(rs, is, ms, k).into = <<o, ms[k - 1].into - BaseOf(is, o)>>
        /\ ActivationOf(rs, is, ms, k).back = [chunk |-> ms[k - 1].chunk, ip |-> is[k - 1].ret]
    BY <2>3, <2>4
  <2> QED
    BY <2>2, <2>5, <2>6 DEF k
<1> HIDE DEF o, left, old
<1>14. EndOf(rs, is, o) = BaseOf(is, o + 1) /\ BaseOf(is, o + 1) \in Nat /\ d < BaseOf(is, o + 1)
  <2>1. ~(o > Len(is))
    BY <1>3, <1>12 DEF n
  <2>2. o \in 1 .. n + 1 /\ EndOf(rs, is, o) = BaseOf(is, o + 1)
    BY <2>1, <1>3, <1>12 DEF EndOf
  <2>3. BaseOf(is, o + 1) \in Nat
    BY <2>2, <1>10
  <2>4. CASE o = n
    BY <2>2, <2>3, <2>4, <1>6
  <2>5. CASE o # n
    <3>1. o + 1 \in 1 .. n /\ ~(o + 1 <= o)
      BY <2>5, <1>3, <1>12
    <3>2. ~(BaseOf(is, o + 1) <= d)
      BY <3>1, <1>12
    <3> QED
      BY <3>2, <2>2, <2>3, <1>6
  <2> QED
    BY <2>4, <2>5
<1>15. x \in Nat /\ x \in 1 .. Len(old[o].locals) /\ BaseOf(is, o) + x = d + 1 /\ old[o].locals \in Seq(Vals)
       /\ Len(old[o].locals) = BaseOf(is, o + 1) - BaseOf(is, o)
  <2> DEFINE a == BaseOf(is, o)  b == BaseOf(is, o + 1)
  <2>1. /\ a \in Nat /\ b \in Nat /\ a <= b /\ b <= Len(rs) /\ a <= d /\ d < b
        /\ old[o].locals = SubSeq(rs, a + 1, b)
    <3>1. o \in 1 .. n + 1
      BY <1>3, <1>12
    <3> QED
      BY <3>1, <1>10, <1>12, <1>14
  <2> HIDE DEF a, b
  <2>2. SubSeq(rs, a + 1, b) \in Seq(Vals) /\ Len(SubSeq(rs, a + 1, b)) = b - a
    BY <2>1, <1>3, Window
  <2>3. x = d - a + 1
    BY DEF a
  <2> QED
    BY <2>1, <2>2, <2>3, <1>6 DEF a, b
<1> HIDE DEF x
<1> DEFINE lc == [old[o].locals EXCEPT ![x] = v]
<1>16. /\ lc \in Seq(Vals) /\ Len(lc) = Len(old[o].locals)
       /\ \A i \in 1 .. Len(old[o].locals) : lc[i] = IF i = x THEN v ELSE old[o].locals[i]
  BY <1>15, ExceptSeq
<1>17. e = [old[o] EXCEPT !.locals = lc]
  OBVIOUS
<1> HIDE DEF lc, e
<1>18. e \in Activation /\ e.locals = lc /\ e.back = old[o].back /\ e.into = old[o].into
  <2>1. old[o] \in Activation
    BY <1>3, <1>10, <1>12
  <2> QED
    BY <2>1, <1>16, <1>17 DEF Activation
<1>19. mid \in Seq(Activation) /\ Len(mid) = n + 1 /\ \A k \in 1 .. n + 1 : mid[k] = IF k = o THEN e ELSE old[k]
  <2>1. o \in 1 .. Len(old)
    BY <1>3, <1>10, <1>12
  <2> QED
    BY <2>1, <1>10, <1>18, ExceptSeq
<1> HIDE DEF mid
<1>20. ASSUME NEW k \in 1 .. n PROVE left[k] = mid[k]
  <2>1. k \in Nat \ {0} /\ k <= Len(is) + 1 /\ k <= Len(js) + 1 /\ k \in 1 .. n + 1 /\ k \in Nat
    BY <1>3 DEF n
  <2>2. \A j \in 1 .. k - 1 : /\ is[j].base = js[j].base /\ is[j].ret = js[j].ret
                              /\ ms[j].into = ns[j].into /\ ms[j].chunk = ns[j].chunk
    BY <1>3
  <2>3. /\ BaseOf(js, k) = BaseOf(is, k)
        /\ ActivationOf(qs, js, ns, k) = [ActivationOf(rs, is, ms, k) EXCEPT !.locals = WindowOf(qs, js, k)]
    BY <2>1, <2>2, <1>2, <1>9, SameActivation
  <2>4. EndOf(rs, is, k) = BaseOf(is, k + 1)
    <3>1. ~(k > Len(is))
      BY <1>3 DEF n
    <3> QED
      BY <3>1 DEF EndOf
  <2>5. EndOf(qs, js, k) = BaseOf(is, k + 1)
    <3>1. CASE k = n
      <4>1. k > Len(js)
        BY <3>1, <1>3
      <4> QED
        BY <3>1, <4>1, <1>6, <1>8 DEF EndOf
    <3>2. CASE k # n
      <4>1. ~(k > Len(js)) /\ k + 1 # 1 /\ k + 1 - 1 \in 1 .. n - 1
        BY <3>2, <1>3
      <4> QED
        BY <4>1, <1>3 DEF EndOf, BaseOf
    <3> QED
      BY <3>1, <3>2
  <2> DEFINE a == BaseOf(is, k)  b == BaseOf(is, k + 1)
  <2>6. /\ a \in Nat /\ b \in Nat /\ a <= b /\ b <= Len(rs) /\ old[k].locals = SubSeq(rs, a + 1, b)
        /\ old[k] = ActivationOf(rs, is, ms, k) /\ old[k] \in Activation
    BY <2>1, <2>4, <1>10
  <2>7. b <= info.base
    <3>1. BaseOf(is, k + 1) = is[k].base /\ is[k].base <= is[n].base
      BY <1>3, <1>4, <1>5
    <3> QED
      BY <3>1, <1>3
  <2>8. WindowOf(qs, js, k) = SubSeq(qs, a + 1, b)
    BY <2>3, <2>5, <1>11
  <2>9. left[k] = [old[k] EXCEPT !.locals = SubSeq(qs, a + 1, b)]
    BY <2>3, <2>6, <2>8, <1>11
  <2>10. CASE k = o
    <3> HIDE DEF a, b
    <3> DEFINE y == SubSeq(qs, a + 1, b)
    <3>1. y \in Seq(Vals) /\ Len(y) = b - a /\ \A i \in 1 .. b - a : y[i] = qs[a + i]
      BY <2>6, <2>7, <1>8, Window
    <3>2. Len(old[o].locals) = b - a /\ \A i \in 1 .. b - a : old[o].locals[i] = rs[a + i]
      <4> DEFINE z == SubSeq(rs, a + 1, b)
      <4>1. Len(z) = b - a /\ \A i \in 1 .. b - a : z[i] = rs[a + i]
        BY <2>6, <1>3, Window
      <4>2. old[o].locals = z
        BY <2>6, <2>10
      <4> HIDE DEF z
      <4> QED
        BY <4>1, <4>2
    <3> HIDE DEF y
    <3>3. ASSUME NEW i \in 1 .. b - a PROVE y[i] = lc[i]
      <4>1. a + i \in 1 .. info.base /\ (a + i = d + 1 <=> i = x)
        <5>1. a + x = d + 1
          BY <2>10, <1>15 DEF a
        <5> QED
          BY <5>1, <2>6, <2>7, <1>6, <1>15
      <4>2. y[i] = IF a + i = d + 1 THEN v ELSE rs[a + i]
        BY <4>1, <3>1, <1>8
      <4>3. lc[i] = IF i = x THEN v ELSE rs[a + i]
        BY <3>2, <1>16
      <4> QED
        BY <4>1, <4>2, <4>3
    <3>4. y = lc
      BY <3>1, <3>2, <3>3, <1>16, SeqEqual
    <3> QED
      BY <3>4, <2>1, <2>9, <2>10, <1>17, <1>19 DEF y
  <2>11. CASE k # o
    <3>1. \A i \in a + 1 .. b : qs[i] = rs[i]
      <4>1. \A i \in a + 1 .. b : i \in 1 .. info.base
        BY <2>6, <2>7, <1>6
      <4>2. CASE k < o
        <5>1. b <= BaseOf(is, o) /\ BaseOf(is, o) <= d
          <6>1. k + 1 \in 1 .. n + 1 /\ o \in 1 .. n + 1 /\ k + 1 <= o
            BY <4>2, <2>1, <1>3, <1>12
          <6> QED
            BY <6>1, <1>2, <1>12, BasesOf DEF n
        <5>2. \A i \in a + 1 .. b : i # d + 1
          BY <5>1, <2>6, <1>6, <1>12
        <5> QED
          BY <4>1, <5>2, <1>8
      <4>3. CASE o < k
        <5>1. BaseOf(is, o + 1) <= a
          <6>1. o + 1 \in 1 .. n + 1 /\ k \in 1 .. n + 1 /\ o + 1 <= k
            BY <4>3, <2>1, <1>3, <1>12
          <6> QED
            BY <6>1, <1>2, BasesOf DEF n
        <5>2. \A i \in a + 1 .. b : i # d + 1
          BY <5>1, <2>6, <1>6, <1>14
        <5> QED
          BY <4>1, <5>2, <1>8
      <4> QED
        BY <4>2, <4>3, <2>1, <2>11, <1>12
    <3> HIDE DEF a, b
    <3>2. SubSeq(qs, a + 1, b) = SubSeq(rs, a + 1, b)
      BY <3>1, <2>6, <2>7, <1>3, <1>8, SameWindow
    <3>3. left[k] = old[k]
      BY <3>2, <2>6, <2>9 DEF Activation
    <3> QED
      BY <3>3, <2>1, <2>11, <1>19
  <2> QED
    BY <2>10, <2>11
<1>21. left = SubSeq(mid, 1, n)
  <2> DEFINE y == SubSeq(mid, 1, n)
  <2>1. y \in Seq(Activation) /\ Len(y) = n /\ \A k \in 1 .. n : y[k] = mid[k]
    <3>1. 1 \in Nat \ {0} /\ n \in 0 .. Len(mid) /\ 1 <= n + 1 /\ n + 1 - 1 = n
      BY <1>3, <1>19
    <3>2. /\ y \in Seq(Activation) /\ Len(y) = n + 1 - 1 /\ \A k \in 1 .. n + 1 - 1 : y[k] = mid[1 + k - 1]
      BY <3>1, <1>19, PieceOf
    <3>3. \A k \in 1 .. n : 1 + k - 1 = k
      BY <1>3
    <3> QED
      BY <3>1, <3>2, <3>3
  <2> HIDE DEF y
  <2>2. left = y
    BY <2>1, <1>11, <1>20, SeqEqual
  <2> QED
    BY <2>2 DEF y
<1>22. [old EXCEPT ![old[n + 1].into[1]].locals[old[n + 1].into[2] + 1] = v] = mid
  <2>1. old[n + 1].into[1] = o /\ old[n + 1].into[2] + 1 = x
    BY <1>13 DEF x
  <2>2. [old EXCEPT ![o].locals[x] = v] = mid
    BY DEF mid, e
  <2> QED
    BY <2>1, <2>2
<1>23. n + 1 - 1 = n /\ n + 1 = Len(js) + 2
  BY <1>3
<1>24. Len(old) - 1 = n /\ old[Len(old)].back = [chunk |-> meta.chunk, ip |-> info.ret]
  <2>1. Len(old) = n + 1
    BY <1>10
  <2>2. old[Len(old)] = old[n + 1]
    BY <2>1
  <2>3. old[n + 1].back = [chunk |-> meta.chunk, ip |-> info.ret]
    BY <1>13
  <2> QED
    BY <2>1, <2>2, <2>3, <1>3
<1>25. left = SubSeq([old EXCEPT ![old[Len(old)].into[1]].locals[old[Len(old)].into[2] + 1] = v], 1, Len(old) - 1)
  BY <1>10, <1>21, <1>22, <1>24
<1>26. Len(old) = Len(js) + 2
  BY <1>10, <1>23
<1> QED
  <2>1. Returned(old, qs, js, ns, info, meta, v)
    BY <1>8, <1>9, <1>24, <1>25, <1>26 DEF left, Returned
  <2> QED
    BY <2>1 DEF old, is, ms, qs, ws, d

-----------------------------------------------------------------------------
(* The live part of the logical stack                                      *)

LEMMA LastEnd ==
  ASSUME NEW d \in Seq(Info), NEW is \in Seq(Info), is # <<>>, is[1].ret = End,
         \A i \in 2 .. Len(is) : is[i].ret # End
  PROVE  Max({i \in DOMAIN (d \o is) : (d \o is)[i].ret = End}) = Len(d) + 1
<1> DEFINE s == d \o is  m == Len(d) + 1  T == {i \in DOMAIN s : s[i].ret = End}
<1>1. /\ s \in Seq(Info) /\ Len(s) = Len(d) + Len(is) /\ Len(d) \in Nat /\ Len(is) \in Nat \ {0}
      /\ DOMAIN s = 1 .. Len(s)
      /\ \A i \in 1 .. Len(d) + Len(is) : s[i] = IF i <= Len(d) THEN d[i] ELSE is[i - Len(d)]
  <2>1. /\ s \in Seq(Info) /\ Len(s) = Len(d) + Len(is)
        /\ \A i \in 1 .. Len(d) + Len(is) : s[i] = IF i <= Len(d) THEN d[i] ELSE is[i - Len(d)]
    BY ConcatProperties
  <2>2. Len(d) \in Nat /\ Len(is) \in Nat \ {0}
    BY LenProperties, EmptySeq
  <2> HIDE DEF s
  <2>3. DOMAIN s = 1 .. Len(s)
    BY <2>1, LenProperties
  <2> QED
    BY <2>1, <2>2, <2>3
<1> HIDE DEF s
<1>2. m \in T
  <2>1. m \in 1 .. Len(s) /\ ~(m <= Len(d)) /\ m - Len(d) = 1 /\ m \in 1 .. Len(d) + Len(is)
    BY <1>1
  <2> QED
    BY <2>1, <1>1
<1>3. ASSUME NEW y \in T PROVE y <= m
  <2>1. y \in 1 .. Len(d) + Len(is) /\ s[y].ret = End
    BY <1>1
  <2> SUFFICES ASSUME ~(y <= m) PROVE FALSE
    OBVIOUS
  <2>2. ~(y <= Len(d)) /\ y - Len(d) \in 2 .. Len(is)
    BY <1>1, <2>1
  <2> QED
    BY <1>1, <2>1, <2>2
<1>4. T \in SUBSET Nat
  BY <1>1
<1> HIDE DEF T, m
<1>5. Max(T) = m
  BY <1>2, <1>3, <1>4, MaxIs
<1> QED
  BY <1>5 DEF T, m, s

LEMMA AfterPrefix ==
  ASSUME NEW S, NEW d \in Seq(S), NEW is \in Seq(S)
  PROVE  SubSeq(d \o is, Len(d) + 1, Len(d \o is)) = is /\ Len(d \o is) = Len(d) + Len(is)
<1> DEFINE s == d \o is  a == Len(d) + 1
<1>1. /\ s \in Seq(S) /\ Len(s) = Len(d) + Len(is) /\ Len(d) \in Nat /\ Len(is) \in Nat
      /\ \A i \in 1 .. Len(d) + Len(is) : s[i] = IF i <= Len(d) THEN d[i] ELSE is[i - Len(d)]
  BY ConcatProperties, LenProperties
<1> HIDE DEF s
<1>2. a \in Nat \ {0} /\ Len(s) \in 0 .. Len(s) /\ a <= Len(s) + 1 /\ Len(s) + 1 - a = Len(is)
  BY <1>1
<1> HIDE DEF a
<1> DEFINE t == SubSeq(s, a, Len(s))
<1>3. t \in Seq(S) /\ Len(t) = Len(is) /\ \A i \in 1 .. Len(is) : t[i] = s[a + i - 1]
  <2>1. /\ t \in Seq(S) /\ Len(t) = Len(s) + 1 - a
        /\ \A i \in 1 .. Len(s) + 1 - a : t[i] = s[a + i - 1]
    BY <1>1, <1>2, PieceOf
  <2> QED
    BY <2>1, <1>2
<1> HIDE DEF t
<1>4. ASSUME NEW i \in 1 .. Len(is) PROVE t[i] = is[i]
  <2> DEFINE at == a + i - 1
  <2>1. at \in 1 .. Len(d) + Len(is) /\ ~(at <= Len(d)) /\ at - Len(d) = i
    BY <1>1 DEF a
  <2>2. t[i] = s[at]
    BY <1>3
  <2> HIDE DEF at
  <2>3. s[at] = is[at - Len(d)]
    BY <2>1, <1>1
  <2> QED
    BY <2>1, <2>2, <2>3
<1>5. t = is
  BY <1>3, <1>4, SeqEqual
<1> QED
  BY <1>1, <1>5 DEF s, t, a

LEMMA OneOf ==
  ASSUME NEW rs, NEW x, NEW y
  PROVE  (CHOOSE a \in {ActivationsOf(rs, infos, live) : infos \in {x}, live \in {y}} : TRUE)
           = ActivationsOf(rs, x, y)
<1>1. {ActivationsOf(rs, infos, live) : infos \in {x}, live \in {y}} = {ActivationsOf(rs, x, y)}
  OBVIOUS
<1> QED
  BY <1>1

\* Of a sequence in two parts, the last one taken off.
LEMMA SplitLast ==
  ASSUME NEW S, NEW d \in Seq(S), NEW is \in Seq(S), is # <<>>, NEW l \in Seq(S), NEW e \in S,
         d \o is = Append(l, e)
  PROVE  is = Append(Front(is), e) /\ l = d \o Front(is) /\ Front(is) \in Seq(S)
<1>1. PICK js \in Seq(S), f \in S : is = Append(js, f)
  BY SequenceEmptyOrAppend
<1>2. js \in Seq(S) /\ f \in S /\ is = Append(js, f) /\ Front(is) = js
  BY <1>1, FrontLast
<1>3. d \o Append(js, f) = Append(d \o js, f)
  BY <1>2, ConcatAppend
<1>4. d \o js \in Seq(S)
  BY <1>2, ConcatProperties
<1>5. Append(l, e) = Append(d \o js, f)
  BY <1>2, <1>3
<1>6. l = d \o js /\ e = f
  <2> DEFINE u == d \o js
  <2>1. u \in Seq(S) /\ Append(l, e) = Append(u, f)
    BY <1>4, <1>5
  <2> HIDE DEF u
  <2>2. l = u /\ e = f
    BY <2>1, <1>2, AppendInjective
  <2> QED
    BY <2>2 DEF u
<1> QED
  BY <1>2, <1>6

LEMMA TopLogical ==
  ASSUME Frames, Paging
  PROVE  /\ AllInfos = <<>> <=> LogicalInfos = <<>>
         /\ metas = <<>> <=> AllInfos = <<>>
         /\ AllInfos # <<>> => LogicalInfos[Len(LogicalInfos)] = AllInfos[Len(AllInfos)]
         /\ LogicalInfos \in Seq(Info) /\ LogicalMetas \in Seq(Meta)
<1> DEFINE n == Len(metas)  below == Len(spilled)  hi == InfosIn(spilled)  F == FlattenSeq(Cuts(hi))
<1>1. /\ metas \in Seq(Meta) /\ n \in Nat /\ DOMAIN metas = 1 .. n /\ AllInfos \in Seq(Info)
      /\ Len(AllInfos) = n /\ below \in Nat /\ (spilled # <<>> <=> below > 0)
      /\ (below > 0 => n >= 3)
  BY EmptySeq, LenProperties DEF Frames, Matched, AllInfos, Paging
<1>2. /\ metas = <<>> <=> n = 0
      /\ AllInfos = <<>> <=> n = 0
  BY <1>1, EmptySeq
<1>3. LogicalInfos \in Seq(Info) /\ LogicalMetas \in Seq(Meta)
  BY LogicalTypes
<1>4. /\ LogicalInfos = Log(hi, AllInfos) /\ hi \in Seq(Seq(Info)) /\ Filled(hi) /\ Len(hi) = below
      /\ (below > 0 => AllInfos # <<>>)
  <2>1. Ready(Here) /\ Here.spilled = spilled /\ Here.metas = metas /\ Here.ring \o Here.overflow = AllInfos
    BY HereReady DEF Here, AllInfos
  <2> QED
    BY <2>1, HereReady, LogicalOf
<1>5. F \in Seq(Info) /\ LogicalInfos = F \o Cut(AllInfos, below) /\ Cut(AllInfos, below) \in Seq(Info)
  <2> HIDE DEF hi, below
  <2>1. F \in Seq(Info) /\ Cut(AllInfos, Len(hi)) \in Seq(Info)
    BY <1>1, <1>4, LogTyped
  <2> QED
    BY <2>1, <1>4 DEF Log, Cuts
<1> DEFINE c == Cut(AllInfos, below)
<1>6. n # 0 => c # <<>>
  <2> SUFFICES ASSUME n # 0 PROVE c # <<>>
    OBVIOUS
  <2>1. CASE below > 0
    <3>a. AllInfos # <<>> /\ AllInfos \in Seq(Info)
      BY <2>1, <1>1, <1>4
    <3>b. n - 1 # 0
      <4>1. n \in Nat /\ n >= 3
        BY <2>1, <1>1
      <4> HIDE DEF n
      <4> QED
        BY <4>1
    <3>0. n - 1 # 0 /\ AllInfos # <<>> /\ AllInfos \in Seq(Info)
      BY <3>a, <3>b
    <3>1. Len(Tail(AllInfos)) = n - 1
      BY <3>0, <1>1, TailOf
    <3>2. Len(<<>>) = 0
      BY EmptySeq
    <3>3. c = Tail(AllInfos)
      BY <2>1 DEF Cut
    <3>4. Len(c) = n - 1
      BY <3>1, <3>3
    <3> HIDE DEF c, n
    <3>5. Len(c) # 0
      BY <3>0, <3>4
    <3>6. c # <<>>
      BY <3>2, <3>5, Zenon
    <3> QED
      BY <3>6 DEF c
  <2>2. CASE ~(below > 0)
    BY <2>2, <1>2 DEF Cut
  <2> QED
    BY <2>1, <2>2
<1>7. n = 0 => LogicalInfos = <<>>
  <2> SUFFICES ASSUME n = 0 PROVE LogicalInfos = <<>>
    OBVIOUS
  <2>1. below = 0 /\ AllInfos = <<>> /\ Cut(AllInfos, below) = <<>>
    BY <1>1, <1>2 DEF Cut
  <2>2. Cuts(hi) = <<>>
    <3>1. hi = <<>>
      <4> HIDE DEF hi
      <4> QED
        BY <2>1, <1>4, EmptySeq
    <3> QED
      BY <3>1, CutsOf DEF Cuts
  <2>3. F = <<>>
    <3>1. Len(<<>>) = 0
      BY EmptySeq
    <3> QED
      BY <2>2, <3>1 DEF FlattenSeq
  <2> QED
    BY <2>1, <2>3, <1>5, ConcatEmptySeq
<1>8. c # <<>> => LogicalInfos # <<>>
  <2> HIDE DEF F, c
  <2> QED
    BY <1>5, ConcatEqualIffEmpty DEF c
<1>9. n # 0 => LogicalInfos[Len(LogicalInfos)] = AllInfos[n]
  <2> SUFFICES ASSUME n # 0 PROVE LogicalInfos[Len(LogicalInfos)] = AllInfos[n]
    OBVIOUS
  <2>1. n \in 1 .. n /\ n \in Shown
    <3>1. n \in 1 .. n
      BY <1>1
    <3>2. metas[n].closure = Tramp <=> n = 1 /\ spilled # <<>>
      BY <3>1 DEF Paging
    <3> QED
      BY <3>1, <3>2, <1>1 DEF Shown
  <2>2. {j \in Shown : j <= n} = Shown
    BY <1>1 DEF Shown
  <2>3. Cardinality(Shown) \in Nat
    <3>1. Shown \in SUBSET (1 .. n)
      BY <1>1 DEF Shown
    <3>2. IsFiniteSet(1 .. n)
      BY <1>1, FS_Interval
    <3> QED
      BY <3>1, <3>2, FS_Subset, FS_CardinalityType
  <2>4. LogicalInfos[Len(LogicalInfos) - Cardinality(Shown) + Cardinality({j \in Shown : j <= n})] = AllInfos[n]
    BY <2>1, LogicalAt
  <2>5. Len(LogicalInfos) - Cardinality(Shown) + Cardinality(Shown) = Len(LogicalInfos)
    BY <2>3, <1>3, LenProperties
  <2> QED
    BY <2>2, <2>4, <2>5
<1> QED
  BY <1>1, <1>2, <1>3, <1>6, <1>7, <1>8, <1>9

\* Only the script's window is left.
ScriptActivation(rs) == [locals |-> rs, back |-> [chunk |-> Main, ip |-> End], into |-> <<1, 0>>]

LEMMA ScriptOnly ==
  ASSUME NEW rs \in Seq(Vals)
  PROVE  ActivationsOf(rs, <<>>, <<>>) = <<ScriptActivation(rs)>> /\ Proper(rs, <<>>, <<>>)
<1>1. Len(<<>>) = 0 /\ <<>> \in Seq(Info) /\ <<>> \in Seq(Meta)
  BY EmptySeq
<1>2. WindowOf(rs, <<>>, 1) = rs
  <2>1. SubSeq(rs, 1, Len(rs)) = rs
    BY SubSeqFull
  <2>2. BaseOf(<<>>, 1) + 1 = 1 /\ 1 > Len(<<>>)
    BY <1>1 DEF BaseOf
  <2> QED
    BY <2>1, <2>2 DEF WindowOf
<1>3. ActivationOf(rs, <<>>, <<>>, 1) = ScriptActivation(rs)
  BY <1>2 DEF ActivationOf, ScriptActivation
<1> DEFINE x == ScriptActivation(rs)
<1>4. ActivationsOf(rs, <<>>, <<>>) = [k \in 1 .. 1 |-> ActivationOf(rs, <<>>, <<>>, k)]
  BY <1>1 DEF ActivationsOf
<1>5. [k \in 1 .. 1 |-> ActivationOf(rs, <<>>, <<>>, k)] = [k \in 1 .. 1 |-> x]
  <2>1. \A k \in 1 .. 1 : k = 1
    OBVIOUS
  <2> HIDE DEF x
  <2> QED
    BY <2>1, <1>3 DEF x
<1>6. [k \in 1 .. 1 |-> x] = <<x>>
  <2> HIDE DEF x
  <2> QED
    OBVIOUS
<1>7. Proper(rs, <<>>, <<>>)
  BY <1>1 DEF Proper
<1> QED
  BY <1>4, <1>5, <1>6, <1>7

\* From rs to qs and from ms to ns only the newest window changes.
TopOnly(rs, is, ms, qs, ns) ==
    LET top == Len(is) + 1
        old == ActivationsOf(rs, is, ms)
        new == SubSeq(qs, BaseOf(is, top) + 1, Len(qs))
    IN  /\ Proper(qs, is, ns)
        /\ ActivationsOf(qs, is, ns) = [old EXCEPT ![top] = [old[top] EXCEPT !.locals = new]]
        /\ ActivationsOf(qs, is, ns)[top].locals = new
        /\ old[top].locals = SubSeq(rs, BaseOf(is, top) + 1, Len(rs))
        /\ Len(old) = top /\ Len(ActivationsOf(qs, is, ns)) = top

LEMMA ActTop ==
  ASSUME NEW rs, NEW is, NEW ms, Proper(rs, is, ms), NEW qs \in Seq(Vals), NEW ns \in Seq(Meta),
         Len(ns) = Len(ms), BaseOf(is, Len(is) + 1) <= Len(qs),
         \A i \in 1 .. BaseOf(is, Len(is) + 1) : qs[i] = rs[i],
         \A i \in 1 .. Len(ms) : ns[i].into = ms[i].into /\ ns[i].chunk = ms[i].chunk
  PROVE  TopOnly(rs, is, ms, qs, ns)
<1> DEFINE n == Len(is)  m == BaseOf(is, n + 1)  new == SubSeq(qs, m + 1, Len(qs))
           old == ActivationsOf(rs, is, ms)  left == ActivationsOf(qs, is, ns)
           e == [old[n + 1] EXCEPT !.locals = new]
<1>1. /\ n \in Nat /\ Len(rs) \in Nat /\ rs \in Seq(Vals) /\ is \in Seq(Info) /\ ms \in Seq(Meta)
      /\ Len(ms) = n /\ Len(ns) = n /\ Len(qs) \in Nat
      /\ \A i \in 1 .. n : BaseOf(is, i + 1) = is[i].base /\ is[i].base \in Nat
      /\ \A k \in 1 .. n + 1 : BaseOf(is, k) \in Nat /\ BaseOf(is, k) <= Len(rs)
      /\ \A j, k \in 1 .. n + 1 : j <= k => BaseOf(is, j) <= BaseOf(is, k)
  BY BasesOf, LenProperties DEF Proper
<1>2. /\ \A i \in 1 .. n : 0 < is[i].base /\ ms[i].into < is[i].base
      /\ \A i, j \in 1 .. n : i <= j => is[i].base <= is[j].base
  BY DEF Proper
<1>3. m \in Nat /\ m <= Len(rs) /\ n + 1 \in 1 .. n + 1
  BY <1>1
<1>4. Proper(qs, is, ns)
  <2>1. ASSUME NEW i \in 1 .. n PROVE 0 < is[i].base /\ is[i].base <= Len(qs) /\ ns[i].into < is[i].base
    <3>1. i + 1 \in 1 .. n + 1 /\ i + 1 <= n + 1
      BY <1>1
    <3>2. is[i].base <= m
      BY <3>1, <1>1, <1>3
    <3> QED
      BY <3>2, <1>1, <1>2, <1>3
  <2> QED
    BY <2>1, <1>1, <1>2 DEF Proper
<1>5. /\ old \in Seq(Activation) /\ Len(old) = n + 1
      /\ \A k \in 1 .. n + 1 : /\ old[k] = ActivationOf(rs, is, ms, k) /\ old[k] \in Activation
                               /\ old[k].locals = SubSeq(rs, BaseOf(is, k) + 1, EndOf(rs, is, k))
                               /\ EndOf(rs, is, k) \in Nat
                               /\ BaseOf(is, k) <= EndOf(rs, is, k) /\ EndOf(rs, is, k) <= Len(rs)
  BY ActivationTypes
<1>6. /\ left \in Seq(Activation) /\ Len(left) = n + 1
      /\ \A k \in 1 .. n + 1 : /\ left[k] = ActivationOf(qs, is, ns, k) /\ left[k] \in Activation
                               /\ left[k].locals = SubSeq(qs, BaseOf(is, k) + 1, EndOf(qs, is, k))
                               /\ WindowOf(qs, is, k) = SubSeq(qs, BaseOf(is, k) + 1, EndOf(qs, is, k))
                               /\ EndOf(qs, is, k) \in Nat
                               /\ BaseOf(is, k) <= EndOf(qs, is, k) /\ EndOf(qs, is, k) <= Len(qs)
  BY <1>4, ActivationTypes
<1>7. ASSUME NEW k \in 1 .. n + 1
      PROVE  left[k] = [old[k] EXCEPT !.locals = SubSeq(qs, BaseOf(is, k) + 1, EndOf(qs, is, k))]
  <2>1. k \in Nat \ {0} /\ k <= Len(is) + 1
    BY <1>1
  <2>2. \A j \in 1 .. k - 1 : /\ is[j].base = is[j].base /\ is[j].ret = is[j].ret
                              /\ ms[j].into = ns[j].into /\ ms[j].chunk = ns[j].chunk
    BY <2>1, <1>1
  <2>3. ActivationOf(qs, is, ns, k) = [ActivationOf(rs, is, ms, k) EXCEPT !.locals = WindowOf(qs, is, k)]
    BY <2>1, <2>2, <1>4, SameActivation
  <2>4. /\ left[k] = ActivationOf(qs, is, ns, k) /\ old[k] = ActivationOf(rs, is, ms, k)
        /\ WindowOf(qs, is, k) = SubSeq(qs, BaseOf(is, k) + 1, EndOf(qs, is, k))
    BY <1>5, <1>6
  <2> QED
    BY <2>3, <2>4
<1>8. EndOf(qs, is, n + 1) = Len(qs) /\ EndOf(rs, is, n + 1) = Len(rs)
  BY <1>1 DEF EndOf
<1>9. left[n + 1] = e /\ e \in Activation
  BY <1>3, <1>6, <1>7, <1>8
<1>10. ASSUME NEW k \in 1 .. n PROVE left[k] = old[k]
  <2> DEFINE a == BaseOf(is, k)  b == BaseOf(is, k + 1)
  <2>1. k \in 1 .. n + 1 /\ k + 1 \in 1 .. n + 1 /\ k + 1 <= n + 1 /\ ~(k > n) /\ k <= k + 1
    BY <1>1
  <2>2. EndOf(qs, is, k) = b /\ EndOf(rs, is, k) = b
    BY <2>1 DEF EndOf
  <2>3. a \in Nat /\ b \in Nat /\ a <= b /\ b <= m
    BY <2>1, <1>1
  <2> HIDE DEF a, b
  <2>4. \A i \in a + 1 .. b : qs[i] = rs[i]
    BY <2>3, <1>3
  <2>5. b <= Len(rs) /\ b <= Len(qs)
    BY <2>3, <1>1, <1>3
  <2>6. SubSeq(qs, a + 1, b) = SubSeq(rs, a + 1, b)
    BY <2>3, <2>4, <2>5, <1>1, SameWindow
  <2>7. left[k] = [old[k] EXCEPT !.locals = SubSeq(qs, a + 1, b)]
    BY <2>1, <2>2, <1>7 DEF a
  <2>8. old[k].locals = SubSeq(rs, a + 1, b) /\ old[k] \in Activation
    BY <2>1, <2>2, <1>5 DEF a
  <2> HIDE DEF old, left
  <2> QED
    BY <2>6, <2>7, <2>8 DEF Activation
<1> HIDE DEF old, left, e, n, m
<1>11. left = [old EXCEPT ![n + 1] = e]
  <2> DEFINE at == n + 1  mid == [old EXCEPT ![at] = e]
  <2>1. at \in 1 .. Len(old)
    BY <1>3, <1>5
  <2> HIDE DEF at
  <2>2. /\ mid \in Seq(Activation) /\ Len(mid) = Len(old)
        /\ \A k \in 1 .. Len(old) : mid[k] = IF k = at THEN e ELSE old[k]
    BY <2>1, <1>5, <1>9, ExceptSeq
  <2> HIDE DEF mid
  <2>3. \A k \in 1 .. Len(left) : left[k] = mid[k]
    <3>1. ASSUME NEW k \in 1 .. n + 1 PROVE left[k] = mid[k]
      <4>1. CASE k = n + 1
        BY <4>1, <2>2, <1>5, <1>9 DEF at
      <4>2. CASE k # n + 1
        <5>0. n \in Nat
          BY <1>1
        <5>1. k \in 1 .. n
          BY <4>2, <5>0
        <5> QED
          BY <5>1, <4>2, <2>2, <1>5, <1>10 DEF at
      <4> QED
        BY <4>1, <4>2
    <3> QED
      BY <3>1, <1>6
  <2>4. left = mid
    BY <2>2, <2>3, <1>5, <1>6, SeqEqual
  <2> QED
    BY <2>4 DEF mid, at
<1>12. left[n + 1].locals = new /\ old[n + 1].locals = SubSeq(rs, m + 1, Len(rs))
  BY <1>3, <1>5, <1>6, <1>8 DEF m
<1> QED
  BY <1>4, <1>5, <1>6, <1>11, <1>12 DEF old, left, e, n, m, TopOnly

-----------------------------------------------------------------------------
(* The frames and the activations                                          *)

\* The logical stack is di, dm, frames left behind by failed host calls, and
\* is, ms, the live ones.
Stack(di, dm, is, ms) ==
    /\ LogicalInfos = di \o is /\ LogicalMetas = dm \o ms
    /\ di \in Seq(Info) /\ dm \in Seq(Meta) /\ Len(di) = Len(dm)
    /\ Proper(regs, is, ms)
    /\ \A i \in 1 .. Len(is) : ms[i].chunk = Main <=> i = 1
    /\ phase \in {"run", "host", "halted"}
    /\ chunk = Main <=> is = <<>>
    /\ ~Running => is = <<>>
    /\ phase = "run" => di = <<>> /\ \A i \in 1 .. Len(is) : is[i].ret # End
    /\ phase = "host" /\ ip # End => /\ is # <<>> /\ is[1].ret = End /\ is[1].base = saved.len
                                     /\ \A i \in 2 .. Len(is) : is[i].ret # End
    /\ phase = "host" /\ ip = End => Len(regs) = saved.len
    /\ phase = "host" => saved.chunk = Main

Logical == phase = "failed" \/ \E di, dm, is, ms : Stack(di, dm, is, ms)

LEMMA ActIs ==
  \A di, dm, is, ms : Stack(di, dm, is, ms) => Activations = ActivationsOf(regs, is, ms)
<1> SUFFICES ASSUME NEW di, NEW dm, NEW is, NEW ms, Stack(di, dm, is, ms)
    PROVE  Activations = ActivationsOf(regs, is, ms)
  OBVIOUS
<1>1. /\ LogicalInfos = di \o is /\ LogicalMetas = dm \o ms
      /\ di \in Seq(Info) /\ dm \in Seq(Meta) /\ is \in Seq(Info) /\ ms \in Seq(Meta)
      /\ Len(di) = Len(dm) /\ Len(di) \in Nat
  BY LenProperties DEF Stack, Proper
<1>2. LiveFrom(LogicalInfos) = Len(di) + 1
  <2>1. CASE phase = "run"
    <3>1. Len(di) = 0
      BY <2>1, EmptySeq DEF Stack
    <3> QED
      BY <2>1, <3>1 DEF LiveFrom
  <2>2. CASE phase = "host" /\ ip # End
    <3>1. Max({i \in DOMAIN (di \o is) : (di \o is)[i].ret = End}) = Len(di) + 1
      BY <2>2, <1>1, LastEnd DEF Stack
    <3> QED
      BY <2>2, <3>1, <1>1 DEF LiveFrom
  <2>3. CASE phase # "run" /\ ~(phase = "host" /\ ip # End)
    <3>1. is = <<>>
      BY <2>3 DEF Stack, Running
    <3>2. di \o is = di
      BY <3>1, <1>1, ConcatEmptySeq
    <3> QED
      BY <2>3, <3>2, <1>1 DEF LiveFrom
  <2> QED
    BY <2>1, <2>2, <2>3
<1>3. Live(LogicalInfos) = is
  BY <1>1, <1>2, AfterPrefix DEF Live
<1>4. Live(LogicalMetas) = ms
  <2>1. SubSeq(dm \o ms, Len(dm) + 1, Len(dm \o ms)) = ms
    BY <1>1, AfterPrefix
  <2> QED
    BY <2>1, <1>1, <1>2 DEF Live
<1>5. phase # "failed"
  BY DEF Stack
<1> QED
  BY <1>3, <1>4, <1>5, OneOf DEF Activations

LEMMA ActIsNext ==
  \A di, dm, is, ms : Stack(di, dm, is, ms)' => Activations' = ActivationsOf(regs', is, ms)
<1>1. (\A di, dm, is, ms : Stack(di, dm, is, ms) => Activations = ActivationsOf(regs, is, ms))'
  BY ActIs, PTL
<1> QED
  BY <1>1

\* The base of the code that runs is the base of the newest live frame.
LEMMA TopBaseIs ==
  ASSUME Inv, Windows, NEW di, NEW dm, NEW is, NEW ms, Stack(di, dm, is, ms), Running
  PROVE  current_base = BaseOf(is, Len(is) + 1)
<1>1. Frames /\ Paging /\ Topmost
  BY DEF Inv, Windows
<1>2. /\ LogicalInfos = di \o is /\ di \in Seq(Info) /\ is \in Seq(Info) /\ Len(di) \in Nat /\ Len(is) \in Nat
  BY LenProperties DEF Stack, Proper
<1>3. CASE is = <<>>
  <2>1. phase = "run" /\ di = <<>>
    BY <1>3 DEF Stack, Running
  <2>2. LogicalInfos = <<>>
    BY <2>1, <1>2, <1>3, ConcatEmptySeq
  <2>3. AllInfos = <<>>
    BY <2>2, <1>1, TopLogical
  <2>4. current_base = 0
    BY <2>3, <1>1 DEF Topmost
  <2>5. Len(is) + 1 = 1
    BY <1>3, EmptySeq
  <2> QED
    BY <2>4, <2>5 DEF BaseOf
<1>4. CASE is # <<>>
  <2> DEFINE s == di \o is  n == Len(is)
  <2>1. n \in Nat \ {0}
    BY <1>2, <1>4, EmptySeq
  <2>2. /\ s \in Seq(Info) /\ Len(s) = Len(di) + n
        /\ \A i \in 1 .. Len(di) + n : s[i] = IF i <= Len(di) THEN di[i] ELSE is[i - Len(di)]
    BY <1>2, ConcatProperties
  <2>3. LogicalInfos = s
    BY <1>2
  <2> HIDE DEF s, n
  <2>4. s[Len(s)] = is[n]
    <3> DEFINE at == Len(di) + n
    <3>1. at \in 1 .. Len(di) + n /\ ~(at <= Len(di)) /\ at - Len(di) = n
      BY <1>2, <2>1
    <3> HIDE DEF at
    <3>2. s[at] = is[at - Len(di)]
      BY <3>1, <2>2
    <3>3. s[Len(s)] = s[at]
      BY <2>2 DEF at
    <3> QED
      BY <3>1, <3>2, <3>3
  <2>5. s # <<>>
    <3>1. Len(s) # 0
      BY <1>2, <2>1, <2>2
    <3>2. Len(<<>>) = 0
      BY EmptySeq
    <3> QED
      BY <3>1, <3>2
  <2>6. AllInfos # <<>> /\ AllInfos[Len(AllInfos)] = s[Len(s)]
    BY <2>3, <2>5, <1>1, TopLogical
  <2>7. current_base = is[n].base
    BY <2>4, <2>6, <1>1 DEF Topmost
  <2>8. n + 1 # 1 /\ n + 1 - 1 = n
    BY <2>1
  <2> QED
    BY <2>7, <2>8 DEF BaseOf, n
<1> QED
  BY <1>3, <1>4

-----------------------------------------------------------------------------
(* Returns                                                                 *)

\* The live frames that a return takes the top of.
LEMMA LivePop ==
  ASSUME Inv, Windows, NEW di, NEW dm, NEW is, NEW ms, Stack(di, dm, is, ms), Running,
         NEW f, PopFrame(f)
  PROVE  /\ Front(is) \in Seq(Info) /\ Front(ms) \in Seq(Meta)
         /\ TopInfo(ring, overflow) \in Info /\ Last(metas) \in Meta
         /\ is = Append(Front(is), TopInfo(ring, overflow)) /\ ms = Append(Front(ms), Last(metas))
         /\ LogicalInfos' = di \o Front(is) /\ LogicalMetas' = dm \o Front(ms)
<1>1. Frames /\ Paging
  BY DEF Inv
<1>2. /\ di \in Seq(Info) /\ dm \in Seq(Meta) /\ is \in Seq(Info) /\ ms \in Seq(Meta)
      /\ LogicalInfos = di \o is /\ LogicalMetas = dm \o ms /\ Len(is) = Len(ms)
  BY DEF Stack, Proper
<1>3. /\ LogicalInfos = Append(LogicalInfos', TopInfo(ring, overflow))
      /\ LogicalMetas = Append(LogicalMetas', Last(metas))
      /\ LogicalInfos' \in Seq(Info) /\ LogicalMetas' \in Seq(Meta)
  BY <1>1, PopLogical
<1>4. TopInfo(ring, overflow) \in Info /\ Last(metas) \in Meta
  BY <1>1, PopKeeps
<1>5. is # <<>>
  <2>1. CASE phase = "run"
    <3>1. metas # <<>>
      BY DEF PopFrame
    <3>2. LogicalInfos # <<>>
      BY <3>1, <1>1, TopLogical
    <3>3. di = <<>>
      BY <2>1 DEF Stack
    <3>4. LogicalInfos = is
      BY <3>3, <1>2, ConcatEmptySeq
    <3> QED
      BY <3>2, <3>4
  <2>2. CASE phase = "host"
    BY <2>2 DEF Stack, Running
  <2> QED
    BY <2>1, <2>2 DEF Running
<1>6. ms # <<>>
  <2>1. Len(is) \in Nat \ {0}
    BY <1>2, <1>5, EmptySeq
  <2>2. Len(<<>>) = 0
    BY EmptySeq
  <2> QED
    BY <2>1, <2>2, <1>2
<1>7. PICK li, lm, i0, m0 : /\ li = LogicalInfos' /\ lm = LogicalMetas'
                            /\ i0 = TopInfo(ring, overflow) /\ m0 = Last(metas)
  OBVIOUS
<1>8. /\ li \in Seq(Info) /\ lm \in Seq(Meta) /\ i0 \in Info /\ m0 \in Meta
      /\ di \o is = Append(li, i0) /\ dm \o ms = Append(lm, m0)
  BY <1>2, <1>3, <1>4, <1>7
<1>9. is = Append(Front(is), i0) /\ li = di \o Front(is) /\ Front(is) \in Seq(Info)
  <2>1. di \in Seq(Info) /\ is \in Seq(Info) /\ li \in Seq(Info) /\ i0 \in Info
    BY <1>2, <1>8
  <2>2. is # <<>> /\ di \o is = Append(li, i0)
    BY <1>5, <1>8
  <2>3. Front(is) \in Seq(Info)
    BY ONLY <2>1, <2>2, SplitLast, SMTT(40)
  <2>4. is = Append(Front(is), i0)
    BY ONLY <2>1, <2>2, SplitLast, SMTT(40)
  <2>5. li = di \o Front(is)
    BY ONLY <2>1, <2>2, SplitLast, SMTT(40)
  <2> QED
    BY <2>3, <2>4, <2>5
<1>10. ms = Append(Front(ms), m0) /\ lm = dm \o Front(ms) /\ Front(ms) \in Seq(Meta)
  <2>1. dm \in Seq(Meta) /\ ms \in Seq(Meta) /\ lm \in Seq(Meta) /\ m0 \in Meta
    BY <1>2, <1>8
  <2>2. ms # <<>> /\ dm \o ms = Append(lm, m0)
    BY <1>6, <1>8
  <2>3. Front(ms) \in Seq(Meta)
    BY ONLY <2>1, <2>2, SplitLast, SMTT(40)
  <2>4. ms = Append(Front(ms), m0)
    BY ONLY <2>1, <2>2, SplitLast, SMTT(40)
  <2>5. lm = dm \o Front(ms)
    BY ONLY <2>1, <2>2, SplitLast, SMTT(40)
  <2> QED
    BY <2>3, <2>4, <2>5
<1> QED
  BY <1>7, <1>8, <1>9, <1>10

LEMMA ReturnCalls ==
  ASSUME Inv, Windows, Values, NEW di, NEW dm, NEW is, NEW ms, Stack(di, dm, is, ms),
         NEW v \in Vals, Return(v) \/ BuiltinTailCall(v)
  PROVE  Logical' /\ Calls!Return(v)
<1>1. Running /\ UNCHANGED <<phase, saved, imported>>
  BY DEF Return, BuiltinTailCall
<1>2. PICK f : PopFrame(f) /\ f = IF Last(metas).into < Len(regs) THEN [regs EXCEPT ![Last(metas).into + 1] = v] ELSE regs
  BY DEF Return, BuiltinTailCall
<1>3. PICK js \in Seq(Info), ns \in Seq(Meta), info \in Info, meta \in Meta :
            /\ is = Append(js, info) /\ ms = Append(ns, meta)
            /\ info = TopInfo(ring, overflow) /\ meta = Last(metas)
            /\ LogicalInfos' = di \o js /\ LogicalMetas' = dm \o ns
  <2>1. Running /\ PopFrame(f)
    BY <1>1, <1>2
  <2>2. /\ Front(is) \in Seq(Info) /\ Front(ms) \in Seq(Meta)
        /\ TopInfo(ring, overflow) \in Info /\ Last(metas) \in Meta
        /\ is = Append(Front(is), TopInfo(ring, overflow)) /\ ms = Append(Front(ms), Last(metas))
        /\ LogicalInfos' = di \o Front(is) /\ LogicalMetas' = dm \o Front(ms)
    BY <2>1, LivePop
  <2>3. PICK js, ns, info, meta : /\ js = Front(is) /\ ns = Front(ms)
                                  /\ info = TopInfo(ring, overflow) /\ meta = Last(metas)
    OBVIOUS
  <2> QED
    BY <2>2, <2>3
<1>4. PICK rs, qs : rs = regs /\ qs = regs'
  OBVIOUS
<1>5. Proper(rs, is, ms)
  BY <1>4 DEF Stack
<1> DEFINE n == Len(js)
<1>6. /\ Len(is) = n + 1 /\ n \in Nat /\ is[n + 1] = info /\ (\A i \in 1 .. n : is[i] = js[i])
      /\ Len(ms) = n + 1 /\ ms[n + 1] = meta /\ (\A i \in 1 .. n : ms[i] = ns[i])
      /\ n + 1 \in 1 .. n + 1
  <2>1. /\ Len(Append(js, info)) = Len(js) + 1
        /\ Append(js, info)[Len(js) + 1] = info /\ \A i \in 1 .. Len(js) : Append(js, info)[i] = js[i]
    BY AppendProperties
  <2>2. /\ Len(Append(ns, meta)) = Len(ns) + 1
        /\ Append(ns, meta)[Len(ns) + 1] = meta /\ \A i \in 1 .. Len(ns) : Append(ns, meta)[i] = ns[i]
    BY AppendProperties
  <2>3. Len(is) = Len(ms) /\ Len(js) \in Nat /\ Len(ns) \in Nat
    BY <1>5, LenProperties DEF Proper
  <2>4. Len(ns) = Len(js)
    <3>1. Len(js) + 1 = Len(ns) + 1
      BY <1>3, <2>1, <2>2, <2>3
    <3> DEFINE a == Len(js)  b == Len(ns)
    <3>2. a \in Nat /\ b \in Nat /\ a + 1 = b + 1
      BY <3>1, <2>3
    <3> HIDE DEF a, b
    <3>3. a = b
      BY <3>2
    <3> QED
      BY <3>3 DEF a, b
  <2> QED
    BY <1>3, <2>1, <2>2, <2>3, <2>4
<1> HIDE DEF n
<1>7. /\ 0 < info.base /\ info.base <= Len(rs) /\ meta.into < info.base /\ meta.into \in Nat
      /\ info.base \in Nat /\ Len(rs) \in Nat /\ meta.into < Len(rs)
  <2>1. 0 < info.base /\ info.base <= Len(rs) /\ meta.into < info.base
    BY <1>5, <1>6 DEF Proper
  <2>2. info.base \in Nat /\ meta.into \in Nat
    BY DEF Info, Meta
  <2>3. Len(rs) \in Nat
    BY <1>5, LenProperties DEF Proper
  <2> QED
    BY <2>1, <2>2, <2>3
<1>8. f = [rs EXCEPT ![meta.into + 1] = v] /\ Len(f) = Len(rs)
  <2>1. f = [rs EXCEPT ![meta.into + 1] = v]
    BY <1>2, <1>3, <1>4, <1>7
  <2> DEFINE at == meta.into + 1
  <2>2. at \in 1 .. Len(rs) /\ rs \in Seq(Vals)
    BY <1>5, <1>7 DEF Proper
  <2> HIDE DEF at
  <2>3. Len([rs EXCEPT ![at] = v]) = Len(rs)
    BY <2>2, ExceptSeq
  <2> QED
    BY <2>1, <2>3 DEF at
<1>9. qs = SubSeq([rs EXCEPT ![meta.into + 1] = v], 1, info.base)
  <2>1. qs = Truncated(f, info.base)
    BY <1>2, <1>3, <1>4 DEF PopFrame
  <2>2. (IF info.base < Len(f) THEN info.base ELSE Len(f)) = info.base
    BY <1>7, <1>8
  <2> QED
    BY <2>1, <2>2, <1>8 DEF Truncated
<1> DEFINE all == ActivationsOf(rs, is, ms)
<1>10. /\ Proper(qs, js, ns) /\ Len(qs) = info.base
       /\ Len(all) = n + 2
       /\ all[Len(all)].back = [chunk |-> meta.chunk, ip |-> info.ret]
       /\ ActivationsOf(qs, js, ns)
            = SubSeq([all EXCEPT ![all[Len(all)].into[1]].locals[all[Len(all)].into[2] + 1] = v], 1, Len(all) - 1)
  <2> DEFINE to == ActivationsOf(rs, Append(js, info), Append(ns, meta))
             z == SubSeq([rs EXCEPT ![meta.into + 1] = v], 1, info.base)
  <2>1. Proper(rs, Append(js, info), Append(ns, meta))
    BY <1>3, <1>5
  <2>a. js \in Seq(Info) /\ ns \in Seq(Meta) /\ info \in Info /\ meta \in Meta /\ v \in Vals
    OBVIOUS
  <2>2. Returned(to, z, js, ns, info, meta, v)
    BY ONLY <2>1, <2>a, PopActivation, Zenon
  <2>3. to = all
    BY <1>3
  <2>4. z = qs
    BY <1>9
  <2> HIDE DEF to, z, all
  <2> QED
    BY <2>2, <2>3, <2>4 DEF n, Returned
<1>11. ip' = info.ret /\ chunk' = meta.chunk
  BY <1>2, <1>3 DEF PopFrame
<1> HIDE DEF all
<1>12. meta.chunk = Main <=> js = <<>>
  <2>1. meta.chunk = Main <=> n + 1 = 1
    BY <1>6 DEF Stack
  <2>2. n = 0 <=> js = <<>>
    BY EmptySeq DEF n
  <2> QED
    BY <2>1, <2>2, <1>6
<1>13. Stack(di, dm, js, ns)'
  <2>1. \A i \in 1 .. n : ns[i].chunk = Main <=> i = 1
    <3>1. \A i \in 1 .. n + 1 : ms[i].chunk = Main <=> i = 1
      BY <1>6 DEF Stack
    <3>2. \A i \in 1 .. n : i \in 1 .. n + 1 /\ ms[i] = ns[i]
      BY <1>6
    <3> QED
      BY <3>1, <3>2
  <2>2. CASE phase = "run"
    <3>1. di = <<>> /\ \A i \in 1 .. n + 1 : is[i].ret # End
      BY <2>2, <1>6 DEF Stack
    <3>2. info.ret # End /\ \A i \in 1 .. n : js[i].ret # End
      BY <3>1, <1>6
    <3>3. Running'
      BY <2>2, <3>2, <1>1, <1>11 DEF Running
    <3> QED
      BY <2>1, <2>2, <3>1, <3>2, <3>3, <1>1, <1>3, <1>4, <1>10, <1>11, <1>12 DEF Stack, n
  <2>3. CASE phase = "host"
    <3>1. /\ is[1].ret = End /\ is[1].base = saved.len /\ \A i \in 2 .. n + 1 : is[i].ret # End
      BY <2>3, <1>1, <1>6 DEF Stack, Running
    <3>2. CASE n = 0
      <4>1. js = <<>>
        BY <3>2, EmptySeq DEF n
      <4>2. info.ret = End /\ info.base = saved.len
        BY <3>1, <3>2, <1>6
      <4> QED
        BY <2>1, <2>3, <4>1, <4>2, <1>1, <1>3, <1>4, <1>10, <1>11, <1>12 DEF Stack, n
    <3>3. CASE n # 0
      <4>1. js # <<>>
        BY <3>3, EmptySeq DEF n
      <4>2. js[1].ret = End /\ js[1].base = saved.len /\ info.ret # End /\ \A i \in 2 .. n : js[i].ret # End
        <5>1. 1 \in 1 .. n /\ n + 1 \in 2 .. n + 1 /\ \A i \in 2 .. n : i \in 2 .. n + 1 /\ i \in 1 .. n
          BY <3>3, <1>6
        <5> QED
          BY <3>1, <5>1, <1>6
      <4>3. Running'
        BY <2>3, <4>2, <1>1, <1>11 DEF Running
      <4> QED
        BY <2>1, <2>3, <4>1, <4>2, <4>3, <1>1, <1>3, <1>4, <1>10, <1>11, <1>12 DEF Stack, n
    <3> QED
      BY <3>2, <3>3
  <2> QED
    BY <2>2, <2>3, <1>1 DEF Running
<1>14. Activations = all /\ Activations' = ActivationsOf(qs, js, ns)
  BY <1>4, <1>13, ActIs, ActIsNext DEF all
<1>15. Calls!Return(v)
  <2>1. Calls!Running /\ Calls!Top > 1
    <3>1. Calls!Running
      BY <1>1 DEF Calls!Running, Running
    <3>2. Calls!Top = n + 2 /\ n \in Nat
      BY <1>6, <1>10, <1>14 DEF Calls!Top
    <3> HIDE DEF n
    <3> QED
      BY <3>1, <3>2
  <2>2. [chunk |-> chunk', ip |-> ip'] = Activations[Calls!Top].back
    BY <1>10, <1>11, <1>14 DEF Calls!Top
  <2>3. Activations' = SubSeq([Activations EXCEPT ![Activations[Calls!Top].into[1]].locals[Activations[Calls!Top].into[2] + 1] = v], 1, Calls!Top - 1)
    BY <1>10, <1>14 DEF Calls!Top
  <2> QED
    BY <2>1, <2>2, <2>3, <1>1 DEF Calls!Return
<1> QED
  BY <1>13, <1>15 DEF Logical

-----------------------------------------------------------------------------
(* Calls, imports, and calls of the host                                   *)

LEMMA AppendNotEmpty ==
  ASSUME NEW S, NEW s \in Seq(S), NEW e \in S
  PROVE  Append(s, e) # <<>>
BY AppendProperties

\* One frame more, called by the code that runs or by the host.
LEMMA LivePush ==
  ASSUME Inv, Windows, Values, NEW di, NEW dm, NEW is, NEW ms, Stack(di, dm, is, ms),
         NEW c \in Chunks, c # Main, NEW args \in Seq(Vals), NEW ret \in 0 .. End,
         NEW meta \in Meta, meta.closure # Tramp, meta.chunk = chunk, meta.into < Len(regs),
         NEW info, info = [base |-> Len(regs), ret |-> ret],
         Activate(c, args, ret, meta),
         \/ Running /\ ret # End /\ phase' = phase /\ saved' = saved
         \/ phase = "halted" /\ phase' = "host" /\ ret = End /\ saved'.len = Len(regs) /\ saved'.chunk = Main
  PROVE  /\ Logical'
         /\ Activations' = Append(Activations, NewActivation(is, info, meta, args \o Fill(Locals[c])))
         /\ Activations \in Seq(Activation) /\ Len(Activations) = Len(is) + 1
<1>1. /\ Frames /\ Paging /\ Len(regs) > 0 /\ regs \in Seq(Vals) /\ Len(regs) \in Nat
  BY LenProperties DEF Inv, Script, Values
<1>2. /\ di \in Seq(Info) /\ dm \in Seq(Meta) /\ is \in Seq(Info) /\ ms \in Seq(Meta)
      /\ LogicalInfos = di \o is /\ LogicalMetas = dm \o ms /\ Len(is) = Len(ms) /\ Len(is) \in Nat
  BY LenProperties DEF Stack, Proper
<1>3. info \in Info /\ info.base = Len(regs) /\ info.base > 0 /\ info.ret = ret
  BY <1>1 DEF Info
<1>4. PushFrame(info, meta)
  BY DEF Activate
<1>5. LogicalInfos' = Append(LogicalInfos, info) /\ LogicalMetas' = Append(LogicalMetas, meta)
  BY <1>1, <1>3, <1>4, PushLogical
<1>6. LogicalInfos' = di \o Append(is, info) /\ LogicalMetas' = dm \o Append(ms, meta)
  <2>1. di \o Append(is, info) = Append(di \o is, info)
    BY <1>2, <1>3, ConcatAppend
  <2>2. dm \o Append(ms, meta) = Append(dm \o ms, meta)
    BY <1>2, ConcatAppend
  <2> QED
    BY <2>1, <2>2, <1>2, <1>5
<1>7. PICK rs, qs, more, js, ns, i0, here : /\ rs = regs /\ qs = regs' /\ more = args \o Fill(Locals[c])
                                            /\ js = Append(is, info) /\ ns = Append(ms, meta)
                                            /\ i0 = info /\ here = chunk
  OBVIOUS
<1>8. more \in Seq(Vals) /\ qs = rs \o more
  <2>1. Fill(Locals[c]) \in Seq(Vals)
    BY SizeTypes, FillValues
  <2>2. qs = (rs \o args) \o Fill(Locals[c])
    BY <1>7 DEF Activate
  <2> DEFINE z == Fill(Locals[c])
  <2>3. z \in Seq(Vals) /\ args \in Seq(Vals) /\ rs \in Seq(Vals)
    BY <2>1, <1>1, <1>7
  <2> HIDE DEF z
  <2>4. \A x1, x2, x3 \in Seq(Vals) : (x1 \o x2) \o x3 = x1 \o (x2 \o x3)
    BY JoinThree, SMTT(60)
  <2>5. (rs \o args) \o z = rs \o (args \o z)
    BY <2>3, <2>4
  <2>6. args \o z \in Seq(Vals)
    BY <2>3, ConcatProperties
  <2> QED
    BY <2>2, <2>5, <2>6, <1>7 DEF z
<1>9. /\ i0 \in Info /\ i0.base = Len(rs) /\ meta.into < Len(rs) /\ i0.ret = ret /\ meta.chunk = here
      /\ Proper(rs, is, ms)
  BY <1>3, <1>7 DEF Stack
<1>10. Entered(ActivationsOf(rs, is, ms), rs \o more, Append(is, i0), Append(ms, meta),
               NewActivation(is, i0, meta, more))
  BY <1>8, <1>9, PushActivation
<1>11. Entered(ActivationsOf(rs, is, ms), qs, js, ns, NewActivation(is, i0, meta, more))
  BY <1>7, <1>8, <1>10
<1>12. Proper(qs, js, ns) /\ ActivationsOf(qs, js, ns) = Append(ActivationsOf(rs, is, ms), NewActivation(is, i0, meta, more))
  BY <1>11 DEF Entered
<1> DEFINE n == Len(is)
<1>13. /\ Len(js) = n + 1 /\ js[n + 1] = i0 /\ js # <<>> /\ (\A i \in 1 .. n : js[i] = is[i])
       /\ Len(ns) = n + 1 /\ ns[n + 1] = meta /\ (\A i \in 1 .. n : ns[i] = ms[i])
       /\ n \in Nat
  <2>0. is \in Seq(Info) /\ i0 \in Info
    BY <1>2, <1>9
  <2>1. /\ Len(Append(is, i0)) = Len(is) + 1
        /\ Append(is, i0)[Len(is) + 1] = i0 /\ \A i \in 1 .. Len(is) : Append(is, i0)[i] = is[i]
    BY ONLY <2>0, AppendProperties, SMTT(40)
  <2>3. Append(is, i0) # <<>>
    BY ONLY <2>0, AppendNotEmpty, Zenon
  <2>2. /\ Len(Append(ms, meta)) = Len(ms) + 1
        /\ Append(ms, meta)[Len(ms) + 1] = meta /\ \A i \in 1 .. Len(ms) : Append(ms, meta)[i] = ms[i]
    BY <1>2, AppendProperties
  <2> QED
    BY <2>1, <2>2, <2>3, <1>2, <1>7
<1>14. here = Main <=> n = 0
  <2>1. here = Main <=> is = <<>>
    BY <1>7 DEF Stack
  <2>2. n = 0 <=> is = <<>>
    BY <1>2, EmptySeq
  <2> QED
    BY <2>1, <2>2
<1>15. \A i \in 1 .. n + 1 : ns[i].chunk = Main <=> i = 1
  <2>1. \A i \in 1 .. n : ms[i].chunk = Main <=> i = 1
    BY DEF Stack
  <2>2. \A i \in 1 .. n + 1 : i = n + 1 \/ i \in 1 .. n
    BY <1>13
  <2>3. ns[n + 1].chunk = Main <=> n + 1 = 1
    BY <1>9, <1>13, <1>14
  <2> HIDE DEF n
  <2> QED
    BY <2>1, <2>2, <2>3, <1>13
<1>16. ip' = 0 /\ ip' # End /\ chunk' = c /\ phase' \in {"run", "host"}
  <2>1. 0 # End
    BY BoundAssumption DEF End
  <2> QED
    BY <2>1 DEF Activate, Running
<1>17. Running'
  BY <1>16 DEF Running
<1>18. LogicalInfos' = di \o js /\ LogicalMetas' = dm \o ns
  BY <1>6, <1>7
<1> HIDE DEF n
<1>19. Stack(di, dm, js, ns)'
  <2>1. CASE phase' = "run"
    <3>1. phase = "run" /\ ret # End
      BY <2>1
    <3>2. di = <<>> /\ \A i \in 1 .. n : is[i].ret # End
      BY <3>1 DEF Stack, n
    <3>3. \A i \in 1 .. n + 1 : js[i].ret # End
      <4>1. \A i \in 1 .. n + 1 : i = n + 1 \/ i \in 1 .. n
        BY <1>13
      <4> QED
        BY <3>1, <3>2, <4>1, <1>9, <1>13
    <3> QED
      BY <2>1, <3>2, <3>3, <1>7, <1>2, <1>12, <1>13, <1>15, <1>16, <1>17, <1>18 DEF Stack
  <2>2. CASE phase' = "host" /\ phase = "host"
    <3>1. ret # End /\ saved' = saved /\ ip # End
      BY <2>2 DEF Running
    <3>2. is # <<>> /\ is[1].ret = End /\ is[1].base = saved.len /\ \A i \in 2 .. n : is[i].ret # End
      BY <2>2, <3>1 DEF Stack, n
    <3>3. saved.chunk = Main
      BY <2>2 DEF Stack
    <3>4. n # 0
      BY <3>2, <1>2, EmptySeq DEF n
    <3>5. js[1].ret = End /\ js[1].base = saved.len
      <4>1. 1 \in 1 .. n
        BY <3>4, <1>13
      <4> QED
        BY <3>2, <4>1, <1>13
    <3>6. \A i \in 2 .. n + 1 : js[i].ret # End
      <4>1. \A i \in 2 .. n + 1 : i = n + 1 \/ (i \in 1 .. n /\ i \in 2 .. n)
        BY <1>13
      <4> QED
        BY <3>1, <3>2, <4>1, <1>9, <1>13
    <3> QED
      BY <2>2, <3>1, <3>3, <3>5, <3>6, <1>7, <1>2, <1>12, <1>13, <1>15, <1>16, <1>17, <1>18 DEF Stack
  <2>3. CASE phase' = "host" /\ phase = "halted"
    <3>1. ret = End /\ saved'.len = Len(regs) /\ saved'.chunk = Main
      BY <2>3 DEF Running
    <3>2. is = <<>>
      BY <2>3 DEF Stack, Running
    <3>3. n = 0
      BY <3>2, EmptySeq DEF n
    <3>4. js[1].ret = End /\ js[1].base = saved'.len /\ \A i \in 2 .. n + 1 : js[i].ret # End
      BY <3>1, <3>3, <1>7, <1>9, <1>13
    <3> QED
      BY <2>3, <3>1, <3>4, <1>7, <1>2, <1>12, <1>13, <1>15, <1>16, <1>17, <1>18 DEF Stack
  <2> QED
    BY <2>1, <2>2, <2>3, <1>16 DEF Running
<1>20. Activations = ActivationsOf(rs, is, ms) /\ Activations' = ActivationsOf(qs, js, ns)
  BY <1>7, <1>19, ActIs, ActIsNext
<1>21. ActivationsOf(rs, is, ms) \in Seq(Activation) /\ Len(ActivationsOf(rs, is, ms)) = Len(is) + 1
  BY <1>9, ActivationTypes
<1> QED
  BY <1>7, <1>12, <1>19, <1>20, <1>21 DEF Logical

\* The activation on top, while code runs: its window is the rest of the
\* register file from the current base.
LEMMA TopIs ==
  ASSUME Inv, Windows, Values, NEW di, NEW dm, NEW is, NEW ms, Stack(di, dm, is, ms), Running
  PROVE  /\ Activations \in Seq(Activation) /\ Len(Activations) = Len(is) + 1 /\ Len(is) \in Nat
         /\ Activations[Len(is) + 1].locals = SubSeq(regs, current_base + 1, Len(regs))
         /\ current_base \in Nat /\ Len(regs) \in Nat /\ current_base <= Len(regs)
         /\ current_base + Size[chunk] <= Len(regs) /\ Size[chunk] \in Nat
         /\ Calls!Running /\ Calls!Top = Len(is) + 1
<1>1. Proper(regs, is, ms)
  BY DEF Stack
<1>2. /\ current_base = BaseOf(is, Len(is) + 1)
      /\ Activations = ActivationsOf(regs, is, ms)
  BY TopBaseIs, ActIs
<1>3. PICK rs, b : rs = regs /\ b = current_base
  OBVIOUS
<1>4. /\ Len(is) \in Nat /\ Len(rs) \in Nat /\ Len(is) + 1 \in 1 .. Len(is) + 1
      /\ BaseOf(is, Len(is) + 1) <= Len(rs) /\ BaseOf(is, Len(is) + 1) \in Nat
  <2>1. Proper(rs, is, ms)
    BY <1>1, <1>3
  <2> DEFINE n == Len(is)
  <2>2. /\ Len(rs) \in Nat /\ n \in Nat
        /\ \A k \in 1 .. n + 1 : BaseOf(is, k) \in Nat /\ BaseOf(is, k) <= Len(rs)
    BY <2>1, BasesOf
  <2>3. n + 1 \in 1 .. n + 1
    BY <2>2
  <2> QED
    BY <2>2, <2>3
<1>5. EndOf(rs, is, Len(is) + 1) = Len(rs)
  BY <1>4 DEF EndOf
<1>6. /\ ActivationsOf(rs, is, ms) \in Seq(Activation) /\ Len(ActivationsOf(rs, is, ms)) = Len(is) + 1
      /\ ActivationsOf(rs, is, ms)[Len(is) + 1].locals = SubSeq(rs, BaseOf(is, Len(is) + 1) + 1, Len(rs))
  <2>1. Proper(rs, is, ms)
    BY <1>1, <1>3
  <2>2. /\ ActivationsOf(rs, is, ms) \in Seq(Activation) /\ Len(ActivationsOf(rs, is, ms)) = Len(is) + 1
        /\ \A k \in 1 .. Len(is) + 1 :
              /\ ActivationsOf(rs, is, ms)[k] = ActivationOf(rs, is, ms, k)
              /\ WindowOf(rs, is, k) = SubSeq(rs, BaseOf(is, k) + 1, EndOf(rs, is, k))
              /\ ActivationOf(rs, is, ms, k).locals = WindowOf(rs, is, k)
    BY <2>1, ActivationTypes
  <2> QED
    BY <2>2, <1>4, <1>5
<1>7. current_base + Size[chunk] <= Len(regs) /\ Size[chunk] \in Nat
  BY SizeTypes DEF Windows, WindowHeld, WindowEnd, Inv, Script
<1>8. Calls!Running
  BY DEF Calls!Running, Running
<1> QED
  BY <1>2, <1>3, <1>4, <1>6, <1>7, <1>8 DEF Calls!Top

\* A piece of a window is a piece of the register file.
LEMMA PieceOfWindow ==
  ASSUME NEW rs \in Seq(Vals), NEW b \in Nat, NEW i \in Nat, NEW k \in Nat, b + i + k <= Len(rs)
  PROVE  /\ SubSeq(SubSeq(rs, b + 1, Len(rs)), i + 1, i + k) = SubSeq(rs, b + i + 1, b + i + k)
         /\ SubSeq(rs, b + i + 1, b + i + k) \in Seq(Vals)
         /\ Len(SubSeq(rs, b + i + 1, b + i + k)) = k
<1> DEFINE w == SubSeq(rs, b + 1, Len(rs))  from == b + i  to == b + i + k
           x == SubSeq(w, i + 1, i + k)  y == SubSeq(rs, from + 1, to)
<1>1. Len(rs) \in Nat /\ b <= Len(rs) /\ i + k \in Nat /\ i <= i + k /\ i + k <= Len(rs) - b
      /\ i + k - i = k /\ from \in Nat /\ to \in Nat /\ from <= to /\ to <= Len(rs) /\ to - from = k
  BY LenProperties
<1>2. w \in Seq(Vals) /\ Len(w) = Len(rs) - b /\ \A j \in 1 .. Len(rs) - b : w[j] = rs[b + j]
  BY <1>1, Window
<1> HIDE DEF w, from, to
<1> DEFINE m == i + k
<1>3. x \in Seq(Vals) /\ Len(x) = k /\ \A j \in 1 .. k : x[j] = w[i + j]
  <2>1. w \in Seq(Vals) /\ i \in Nat /\ m \in Nat /\ i <= m /\ m <= Len(w) /\ m - i = k
    BY <1>1, <1>2
  <2> HIDE DEF m
  <2>2. /\ SubSeq(w, i + 1, m) \in Seq(Vals) /\ Len(SubSeq(w, i + 1, m)) = m - i
        /\ \A j \in 1 .. m - i : SubSeq(w, i + 1, m)[j] = w[i + j]
    BY <2>1, Window
  <2> QED
    BY <2>1, <2>2 DEF m
<1>4. y \in Seq(Vals) /\ Len(y) = k /\ \A j \in 1 .. k : y[j] = rs[from + j]
  <2>1. /\ y \in Seq(Vals) /\ Len(y) = to - from
        /\ \A j \in 1 .. to - from : y[j] = rs[from + j]
    BY <1>1, Window
  <2> QED
    BY <1>1, <2>1
<1> HIDE DEF x, y
<1>5. \A j \in 1 .. Len(x) : x[j] = y[j]
  <2>1. ASSUME NEW j \in 1 .. k PROVE x[j] = y[j]
    <3> DEFINE at == i + j
    <3>1. at \in 1 .. Len(rs) - b /\ b + at = from + j
      BY <1>1 DEF from
    <3> HIDE DEF at
    <3>2. w[at] = rs[b + at]
      BY <3>1, <1>2
    <3>3. x[j] = w[at] /\ y[j] = rs[from + j]
      BY <1>3, <1>4 DEF at
    <3> QED
      BY <3>1, <3>2, <3>3
  <2> QED
    BY <2>1, <1>3
<1>6. x = y
  BY <1>3, <1>4, <1>5, SeqEqual
<1> QED
  BY <1>3, <1>4, <1>6 DEF x, y, w, from, to

\* A new activation above the others.
LEMMA EnterIs ==
  ASSUME NEW c \in Chunks, NEW args \in Seq(Vals), Len(args) = Argc[c], NEW is, NEW info, NEW meta,
         Activations' = Append(Activations, NewActivation(is, info, meta, args \o Fill(Locals[c]))),
         chunk' = c, ip' = 0
  PROVE  Calls!Enter(c, args, [chunk |-> meta.chunk, ip |-> info.ret],
                     <<OwnerOf(is, meta.into, Len(is) + 2),
                       meta.into - BaseOf(is, OwnerOf(is, meta.into, Len(is) + 2))>>)
<1>1. Argc[c] \in Nat /\ Locals[c] \in Nat /\ Size[c] = Argc[c] + Locals[c]
  BY SizeTypes DEF Size
<1>2. Size[c] - Len(args) = Locals[c]
  BY <1>1
<1>3. Calls!Fresh(Size[c] - Len(args)) = Fill(Locals[c])
  BY <1>2 DEF Calls!Fresh, Fill
<1> QED
  BY <1>3 DEF Calls!Enter, Calls!Start, NewActivation

\* Whose window a register is in.
LEMMA OwnerTop ==
  ASSUME NEW rs, NEW is, NEW ms, Proper(rs, is, ms), NEW d \in Nat, BaseOf(is, Len(is) + 1) <= d
  PROVE  OwnerOf(is, d, Len(is) + 2) = Len(is) + 1
<1> DEFINE n == Len(is)  k == n + 2  o == OwnerOf(is, d, k)
<1>1. n \in Nat
  BY BasesOf
<1>2. k \in 2 .. n + 2 /\ k - 1 = n + 1 /\ n + 1 \in 1 .. k - 1
  BY <1>1
<1> HIDE DEF k
<1>3. o \in 1 .. k - 1 /\ \A j \in 1 .. k - 1 : BaseOf(is, j) <= d => j <= o
  BY <1>2, OwnerBelow
<1> HIDE DEF o
<1>4. o \in 1 .. n + 1 /\ n + 1 <= o
  BY <1>2, <1>3
<1>5. o = n + 1
  BY <1>1, <1>4
<1> QED
  BY <1>5 DEF o, k

LEMMA OwnerScript ==
  ASSUME NEW rs, NEW is, NEW ms, Proper(rs, is, ms)
  PROVE  OwnerOf(is, 0, Len(is) + 2) = 1 /\ BaseOf(is, 1) = 0
<1> DEFINE n == Len(is)  k == n + 2  o == OwnerOf(is, 0, k)
<1>1. /\ n \in Nat /\ BaseOf(is, 1) = 0
      /\ \A i \in 1 .. n : BaseOf(is, i + 1) = is[i].base /\ is[i].base \in Nat
  BY BasesOf
<1>2. \A i \in 1 .. n : 0 < is[i].base
  BY DEF Proper
<1>3. k \in 2 .. n + 2 /\ 0 \in Nat /\ k - 1 = n + 1
  BY <1>1
<1> HIDE DEF k
<1>4. o \in 1 .. k - 1 /\ BaseOf(is, o) <= 0
  BY <1>3, OwnerBelow
<1> HIDE DEF o
<1>5. o = 1
  <2> SUFFICES ASSUME o # 1 PROVE FALSE
    OBVIOUS
  <2> DEFINE i == o - 1
  <2>1. i \in 1 .. n /\ i + 1 = o
    BY <1>1, <1>3, <1>4
  <2> HIDE DEF i
  <2>2. BaseOf(is, o) = is[i].base /\ is[i].base \in Nat /\ 0 < is[i].base
    BY <2>1, <1>1, <1>2
  <2> QED
    BY <2>2, <1>4
<1> QED
  BY <1>1, <1>5 DEF o, k

LEMMA CallCalls ==
  ASSUME Inv, Windows, Values, NEW di, NEW dm, NEW is, NEW ms, Stack(di, dm, is, ms),
         NEW c \in Closures, NEW r \in 0 .. Size[chunk] - 1 - Argc[c], Call(c, r)
  PROVE  Logical' /\ Calls!Call(c, r)
<1> DEFINE args == SubSeq(regs, Register(r) + 2, Register(r) + 1 + Argc[c])
           meta == [closure |-> c, into |-> Register(r), chunk |-> chunk]
           info == [base |-> Len(regs), ret |-> ip + 1]
           n == Len(is)  w == SubSeq(regs, current_base + 1, Len(regs))
<1>1. /\ c \in Chunks /\ c # Tramp /\ c # Main /\ chunk \in Chunks
      /\ Argc[c] \in Nat /\ regs \in Seq(Vals)
  BY ChunkAssumption, SizeTypes DEF Chunks, Inv, Script, Values
<1>2. /\ Running /\ ip < MaxIp /\ Activate(c, args, ip + 1, meta) /\ UNCHANGED <<phase, saved, imported>>
  BY DEF Call
<1>3. ip + 1 \in 0 .. End /\ ip + 1 # End
  BY <1>2, BoundAssumption DEF Inv, Script, End
<1>4. /\ n \in Nat /\ current_base \in Nat /\ Len(regs) \in Nat /\ current_base + Size[chunk] <= Len(regs)
      /\ Size[chunk] \in Nat /\ Calls!Running /\ Calls!Top = n + 1 /\ Activations[n + 1].locals = w
  BY <1>2, TopIs
<1>5. /\ r \in Nat /\ r <= Size[chunk] - 1 - Argc[c] /\ Register(r) = current_base + r
      /\ Register(r) \in Nat /\ Register(r) < Len(regs)
  <2>1. r \in Nat /\ r <= Size[chunk] - 1 - Argc[c]
    BY <1>1, <1>4
  <2> QED
    BY <2>1, <1>1, <1>4 DEF Register
<1>6. args = Calls!Args(w, r, Argc[c]) /\ args \in Seq(Vals) /\ Len(args) = Argc[c]
  <2> DEFINE i == r + 1  k == Argc[c]  b == current_base
  <2>1. PICK rs : rs = regs
    OBVIOUS
  <2>2. b \in Nat /\ i \in Nat /\ k \in Nat /\ b + i + k <= Len(rs) /\ rs \in Seq(Vals)
    <3>1. /\ b \in Nat /\ k \in Nat /\ r \in Nat /\ Size[chunk] \in Nat /\ Len(rs) \in Nat
          /\ r <= Size[chunk] - 1 - k /\ b + Size[chunk] <= Len(rs) /\ rs \in Seq(Vals) /\ i = r + 1
      BY <2>1, <1>1, <1>4, <1>5
    <3> HIDE DEF i, k, b
    <3> QED
      BY <3>1
  <2>3. /\ Register(r) + 2 = b + i + 1 /\ Register(r) + 1 + Argc[c] = b + i + k
        /\ r + 2 = i + 1 /\ r + 1 + Argc[c] = i + k
    BY <1>1, <1>4, <1>5
  <2> HIDE DEF i, k, b
  <2>4. /\ SubSeq(SubSeq(rs, b + 1, Len(rs)), i + 1, i + k) = SubSeq(rs, b + i + 1, b + i + k)
        /\ SubSeq(rs, b + i + 1, b + i + k) \in Seq(Vals)
        /\ Len(SubSeq(rs, b + i + 1, b + i + k)) = k
    BY <2>2, PieceOfWindow
  <2>5. args = SubSeq(rs, b + i + 1, b + i + k) /\ Calls!Args(w, r, Argc[c]) = SubSeq(w, i + 1, i + k)
    BY <2>1, <2>3 DEF Calls!Args
  <2>6. w = SubSeq(rs, b + 1, Len(rs))
    BY <2>1 DEF b
  <2> QED
    BY <2>4, <2>5, <2>6 DEF k
<1>7. meta \in Meta /\ meta.closure # Tramp /\ meta.chunk = chunk /\ meta.into < Len(regs) /\ meta.into = Register(r)
  BY <1>1, <1>5 DEF Meta
<1> HIDE DEF args, meta, info, n, w
<1>8. Logical' /\ Activations' = Append(Activations, NewActivation(is, info, meta, args \o Fill(Locals[c])))
  BY <1>1, <1>2, <1>3, <1>6, <1>7, LivePush DEF info
<1>9. OwnerOf(is, meta.into, Len(is) + 2) = Len(is) + 1 /\ meta.into - BaseOf(is, Len(is) + 1) = r
  <2>1. current_base = BaseOf(is, Len(is) + 1)
    BY <1>2, TopBaseIs
  <2>2. PICK rs : Proper(rs, is, ms)
    BY DEF Stack
  <2>3. BaseOf(is, Len(is) + 1) <= Register(r) /\ Register(r) - BaseOf(is, Len(is) + 1) = r
    BY <2>1, <1>4, <1>5
  <2>4. OwnerOf(is, Register(r), Len(is) + 2) = Len(is) + 1
    BY <2>2, <2>3, <1>5, OwnerTop
  <2> QED
    BY <2>3, <2>4, <1>7
<1>10. chunk' = c /\ ip' = 0
  BY <1>2 DEF Activate
<1>11. Calls!Enter(c, args, [chunk |-> meta.chunk, ip |-> info.ret],
                   <<OwnerOf(is, meta.into, Len(is) + 2),
                     meta.into - BaseOf(is, OwnerOf(is, meta.into, Len(is) + 2))>>)
  BY <1>1, <1>6, <1>8, <1>10, EnterIs
<1>12. Calls!Enter(c, Calls!Args(Activations[Calls!Top].locals, r, Argc[c]), Calls!Here(ip + 1), <<Calls!Top, r>>)
  <2>1. [chunk |-> meta.chunk, ip |-> info.ret] = Calls!Here(ip + 1)
    BY <1>7 DEF Calls!Here, info
  <2>2. <<OwnerOf(is, meta.into, Len(is) + 2),
          meta.into - BaseOf(is, OwnerOf(is, meta.into, Len(is) + 2))>> = <<Calls!Top, r>>
    BY <1>4, <1>9 DEF n
  <2>3. args = Calls!Args(Activations[Calls!Top].locals, r, Argc[c])
    BY <1>4, <1>6
  <2> QED
    BY <1>11, <2>1, <2>2, <2>3
<1> QED
  BY <1>2, <1>4, <1>8, <1>12 DEF Calls!Call

LEMMA ImportCalls ==
  ASSUME Inv, Windows, Values, NEW di, NEW dm, NEW is, NEW ms, Stack(di, dm, is, ms),
         NEW m \in Modules, Import(m)
  PROVE  Logical' /\ Calls!Import(m)
<1>1. /\ m \in Chunks /\ m # Main /\ chunk \in Chunks /\ Argc[m] = 0 /\ regs \in Seq(Vals)
  BY ChunkAssumption DEF Chunks, Inv, Script, Values
<1>2. /\ Running /\ ip < MaxIp /\ imported' = imported \cup {m} /\ UNCHANGED <<phase, saved>>
  BY DEF Import
<1>3. ip + 1 \in 0 .. End /\ ip + 1 # End
  BY <1>2, BoundAssumption DEF Inv, Script, End
<1>4. Calls!Running
  BY <1>2, TopIs
<1>5. CASE m \in imported
  <2>1. ip' = ip + 1 /\ UNCHANGED <<regs, ring, overflow, metas, spilled, chunk>>
    BY <1>5 DEF Import, frameVars
  <2>2. LogicalInfos' = LogicalInfos /\ LogicalMetas' = LogicalMetas
    BY <2>1 DEF LogicalInfos, LogicalMetas, AllInfos
  <2>3. Running' /\ ip' # End
    BY <2>1, <1>2, <1>3 DEF Running
  <2>4. Stack(di, dm, is, ms)'
    BY <2>1, <2>2, <2>3, <1>2 DEF Stack, Running
  <2>5. Activations' = Activations
    BY <2>1, <2>4, ActIs, ActIsNext
  <2> QED
    BY <2>1, <2>4, <2>5, <1>2, <1>4, <1>5 DEF Logical, Calls!Import, Calls!Here
<1>6. CASE m \notin imported
  <2> DEFINE meta == [closure |-> None, into |-> 0, chunk |-> chunk]
             info == [base |-> Len(regs), ret |-> ip + 1]
  <2>1. /\ meta \in Meta /\ meta.closure # Tramp /\ meta.chunk = chunk /\ meta.into = 0
        /\ meta.into < Len(regs)
    BY <1>1 DEF Meta, None, Tramp, Inv, Script
  <2>2. Activate(m, <<>>, ip + 1, meta)
    BY <1>6 DEF Import
  <2>3. <<>> \in Seq(Vals) /\ Len(<<>>) = Argc[m]
    BY <1>1, EmptySeq
  <2> HIDE DEF meta, info
  <2>4. Logical' /\ Activations' = Append(Activations, NewActivation(is, info, meta, <<>> \o Fill(Locals[m])))
    BY <1>1, <1>2, <1>3, <2>1, <2>2, <2>3, LivePush DEF info
  <2>5. OwnerOf(is, meta.into, Len(is) + 2) = 1 /\ meta.into - BaseOf(is, 1) = 0
    <3>1. PICK rs : Proper(rs, is, ms)
      BY DEF Stack
    <3>2. OwnerOf(is, 0, Len(is) + 2) = 1 /\ BaseOf(is, 1) = 0
      BY <3>1, OwnerScript
    <3> QED
      BY <3>2, <2>1
  <2>6. chunk' = m /\ ip' = 0
    BY <2>2 DEF Activate
  <2>7. Calls!Enter(m, <<>>, [chunk |-> meta.chunk, ip |-> info.ret],
                    <<OwnerOf(is, meta.into, Len(is) + 2),
                      meta.into - BaseOf(is, OwnerOf(is, meta.into, Len(is) + 2))>>)
    BY <1>1, <2>3, <2>4, <2>6, EnterIs
  <2>8. Calls!Enter(m, <<>>, Calls!Here(ip + 1), <<1, 0>>)
    <3>1. [chunk |-> meta.chunk, ip |-> info.ret] = Calls!Here(ip + 1)
      BY <2>1 DEF Calls!Here, info
    <3>2. <<OwnerOf(is, meta.into, Len(is) + 2),
            meta.into - BaseOf(is, OwnerOf(is, meta.into, Len(is) + 2))>> = <<1, 0>>
      BY <2>5
    <3> QED
      BY <2>7, <3>1, <3>2
  <2> QED
    BY <2>4, <2>8, <1>2, <1>4, <1>6 DEF Calls!Import
<1> QED
  BY <1>5, <1>6

LEMMA HostCallCalls ==
  ASSUME Inv, Windows, Values, NEW di, NEW dm, NEW is, NEW ms, Stack(di, dm, is, ms),
         NEW c \in Closures, NEW args \in Tuples(Argc[c]), HostCall(c, args)
  PROVE  Logical' /\ Calls!HostCall(c)
<1> DEFINE meta == [closure |-> c, into |-> 0, chunk |-> chunk]
           info == [base |-> Len(regs), ret |-> ip]
<1>1. /\ c \in Chunks /\ c # Tramp /\ c # Main /\ Argc[c] \in Nat /\ regs \in Seq(Vals)
  BY ChunkAssumption, SizeTypes DEF Chunks, Values
<1>2. /\ phase = "halted" /\ phase' = "host" /\ imported' = imported /\ Activate(c, args, ip, meta)
      /\ saved' = [ip |-> ip, base |-> current_base, chunk |-> chunk, len |-> Len(regs)]
  BY DEF HostCall
<1>3. is = <<>> /\ chunk = Main /\ ip = End /\ End \in 0 .. End /\ Len(is) = 0
  <2>1. is = <<>>
    BY <1>2 DEF Stack, Running
  <2>2. Len(is) = 0
    BY <2>1, EmptySeq
  <2>3. End \in 0 .. End
    BY BoundAssumption DEF End
  <2> QED
    BY <1>2, <2>1, <2>2, <2>3 DEF Stack, Windows
<1>4. /\ meta \in Meta /\ meta.closure # Tramp /\ meta.chunk = chunk /\ meta.into = 0
      /\ meta.into < Len(regs)
  BY <1>1 DEF Meta, Inv, Script
<1>5. args \in Seq(Vals) /\ Len(args) = Argc[c] /\ Fill(Locals[c]) \in Seq(Vals)
  <2>1. args \in [1 .. Argc[c] -> Vals]
    BY DEF Tuples
  <2>2. Len(args) = Argc[c]
    BY <2>1, <1>1
  <2> QED
    BY <2>1, <2>2, <1>1, FunValues, FillValues, SizeTypes
<1> HIDE DEF meta, info
<1>6. saved'.len = Len(regs) /\ saved'.chunk = Main
  BY <1>2, <1>3
<1>7. /\ Logical' /\ Activations' = Append(Activations, NewActivation(is, info, meta, args \o Fill(Locals[c])))
      /\ Activations \in Seq(Activation) /\ Len(Activations) = Len(is) + 1
  BY <1>1, <1>2, <1>3, <1>4, <1>5, <1>6, LivePush DEF info
<1>8. OwnerOf(is, meta.into, Len(is) + 2) = 1 /\ meta.into - BaseOf(is, 1) = 0
  <2>1. PICK rs : Proper(rs, is, ms)
    BY DEF Stack
  <2>2. OwnerOf(is, 0, Len(is) + 2) = 1 /\ BaseOf(is, 1) = 0
    BY <2>1, OwnerScript
  <2> QED
    BY <2>2, <1>4
<1>9. chunk' = c /\ ip' = 0
  BY <1>2 DEF Activate
<1>10. Calls!Enter(c, args, [chunk |-> meta.chunk, ip |-> info.ret],
                   <<OwnerOf(is, meta.into, Len(is) + 2),
                     meta.into - BaseOf(is, OwnerOf(is, meta.into, Len(is) + 2))>>)
  BY <1>1, <1>5, <1>7, <1>9, EnterIs
<1>11. Calls!Enter(c, args, Calls!AtEnd, <<1, 0>>)
  <2>1. [chunk |-> meta.chunk, ip |-> info.ret] = Calls!AtEnd
    BY <1>3, <1>4 DEF Calls!AtEnd, info
  <2>2. <<OwnerOf(is, meta.into, Len(is) + 2),
          meta.into - BaseOf(is, OwnerOf(is, meta.into, Len(is) + 2))>> = <<1, 0>>
    BY <1>8
  <2> QED
    BY <1>10, <2>1, <2>2
<1>12. Len(Activations') = 2 /\ Activations'[2].locals = args \o Fill(Locals[c])
  <2>1. PICK all, new : all = Activations /\ new = NewActivation(is, info, meta, args \o Fill(Locals[c]))
    OBVIOUS
  <2>2. all \in Seq(Activation) /\ Len(all) = 1
    BY <2>1, <1>3, <1>7
  <2>3. new.locals = args \o Fill(Locals[c])
    BY <2>1 DEF NewActivation
  <2>4. Len(Append(all, new)) = 2 /\ Append(all, new)[2] = new
    <3> DEFINE S == Activation \cup {new}
    <3>1. all \in Seq(S) /\ new \in S
      <4>1. Activation \subseteq S
        OBVIOUS
      <4>2. new \in S
        OBVIOUS
      <4> HIDE DEF S
      <4> QED
        BY <2>2, <4>1, <4>2, SeqMonotonic
    <3> HIDE DEF S
    <3>2. Len(Append(all, new)) = Len(all) + 1 /\ Append(all, new)[Len(all) + 1] = new
      BY <3>1, AppendProperties
    <3> QED
      BY <2>2, <3>2
  <2> QED
    BY <2>1, <2>3, <2>4, <1>7
<1>13. args = Calls!Args(Activations'[2].locals, -1, Argc[c])
  <2> DEFINE z == Fill(Locals[c])  w == args \o z  k == Argc[c]  x == SubSeq(w, 1, k)
  <2>1. /\ w \in Seq(Vals) /\ Len(w) = Len(args) + Len(z) /\ Len(z) \in Nat
        /\ \A i \in 1 .. Len(args) + Len(z) : w[i] = IF i <= Len(args) THEN args[i] ELSE z[i - Len(args)]
    BY <1>5, ConcatProperties, LenProperties
  <2>2. k \in Nat /\ Len(args) = k /\ k \in 0 .. Len(w) /\ 1 \in Nat \ {0} /\ 1 <= k + 1 /\ k + 1 - 1 = k
    BY <2>1, <1>1, <1>5
  <2> HIDE DEF w, k, z
  <2>3. x \in Seq(Vals) /\ Len(x) = k /\ \A i \in 1 .. k : x[i] = w[i]
    <3>1. /\ SubSeq(w, 1, k) \in Seq(Vals) /\ Len(SubSeq(w, 1, k)) = k + 1 - 1
          /\ \A i \in 1 .. k + 1 - 1 : SubSeq(w, 1, k)[i] = w[1 + i - 1]
      BY <2>1, <2>2, PieceOf
    <3>2. \A i \in 1 .. k : 1 + i - 1 = i
      BY <2>2
    <3> QED
      BY <3>1, <3>2, <2>2
  <2> HIDE DEF x
  <2>4. \A i \in 1 .. Len(x) : x[i] = args[i]
    BY <2>1, <2>2, <2>3
  <2>5. x = args
    BY <2>2, <2>3, <2>4, <1>5, SeqEqual
  <2>6. Calls!Args(w, -1, k) = x
    <3>1. -1 + 2 = 1 /\ -1 + 1 + k = k
      BY <2>2
    <3> QED
      BY <3>1 DEF Calls!Args, x
  <2> QED
    BY <2>5, <2>6, <1>12 DEF w, k, z
<1> QED
  BY <1>2, <1>7, <1>11, <1>12, <1>13 DEF Calls!HostCall

-----------------------------------------------------------------------------
(* Stores and tail calls                                                   *)

\* Only the window on top changes.
TopChanged(is) ==
    LET new == SubSeq(regs', current_base + 1, Len(regs'))
    IN  /\ Activations' = [Activations EXCEPT ![Len(is) + 1] = [Activations[Len(is) + 1] EXCEPT !.locals = new]]
        /\ Activations'[Len(is) + 1].locals = new
        /\ Len(Activations') = Len(is) + 1

LEMMA TopStep ==
  ASSUME Inv, Windows, Values, Values', NEW di, NEW dm, NEW is, NEW ms, Stack(di, dm, is, ms), Running,
         NEW ns \in Seq(Meta), Len(ns) = Len(ms),
         \A i \in 1 .. Len(ms) : ns[i].into = ms[i].into /\ ns[i].chunk = ms[i].chunk,
         phase' = phase, saved' = saved, ip' # End, chunk' = chunk \/ (chunk # Main /\ chunk' # Main),
         LogicalInfos' = LogicalInfos, LogicalMetas' = dm \o ns,
         current_base <= Len(regs'), \A i \in 1 .. current_base : regs'[i] = regs[i]
  PROVE  Logical' /\ TopChanged(is)
<1>1. PICK rs, qs, b : rs = regs /\ qs = regs' /\ b = current_base
  OBVIOUS
<1>2. b = BaseOf(is, Len(is) + 1) /\ qs \in Seq(Vals) /\ Proper(rs, is, ms)
  BY <1>1, TopBaseIs DEF Stack, Values
<1>3. b <= Len(qs) /\ \A i \in 1 .. b : qs[i] = rs[i]
  BY <1>1
<1>4. TopOnly(rs, is, ms, qs, ns)
  <2>1. BaseOf(is, Len(is) + 1) <= Len(qs) /\ \A i \in 1 .. BaseOf(is, Len(is) + 1) : qs[i] = rs[i]
    BY <1>2, <1>3
  <2>2. \A i \in 1 .. Len(ms) : ns[i].into = ms[i].into /\ ns[i].chunk = ms[i].chunk
    OBVIOUS
  <2>3. qs \in Seq(Vals) /\ ns \in Seq(Meta) /\ Len(ns) = Len(ms) /\ Proper(rs, is, ms)
    BY <1>2
  <2> QED
    BY ONLY <2>1, <2>2, <2>3, ActTop, Zenon
<1>5. /\ Proper(qs, is, ns)
      /\ ActivationsOf(qs, is, ns)
           = [ActivationsOf(rs, is, ms) EXCEPT ![Len(is) + 1] =
                [ActivationsOf(rs, is, ms)[Len(is) + 1] EXCEPT !.locals = SubSeq(qs, b + 1, Len(qs))]]
      /\ ActivationsOf(qs, is, ns)[Len(is) + 1].locals = SubSeq(qs, b + 1, Len(qs))
      /\ Len(ActivationsOf(qs, is, ns)) = Len(is) + 1
  BY <1>2, <1>4 DEF TopOnly
<1>6. \A i \in 1 .. Len(is) : ns[i].chunk = Main <=> i = 1
  <2>1. Len(is) = Len(ms)
    BY <1>2 DEF Proper
  <2> QED
    BY <2>1 DEF Stack
<1>7. Running' /\ LogicalInfos' = di \o is /\ (chunk' = Main <=> is = <<>>)
  <2>1. LogicalInfos = di \o is /\ (chunk = Main <=> is = <<>>)
    BY DEF Stack
  <2> QED
    BY <2>1 DEF Running
<1>8. Stack(di, dm, is, ns)'
  <2>1. phase \in {"run", "host"} /\ ip # End
    BY DEF Running
  <2> QED
    BY <2>1, <1>1, <1>5, <1>6, <1>7 DEF Stack
<1>9. Activations = ActivationsOf(rs, is, ms) /\ Activations' = ActivationsOf(qs, is, ns)
  BY <1>1, <1>8, ActIs, ActIsNext
<1> QED
  BY <1>1, <1>5, <1>8, <1>9 DEF Logical, TopChanged

LEMMA StoreCalls ==
  ASSUME Inv, Windows, Values, Values', NEW di, NEW dm, NEW is, NEW ms, Stack(di, dm, is, ms),
         NEW r \in 0 .. Size[chunk] - 1, NEW v \in Vals, Store(r, v)
  PROVE  /\ Logical'
         /\ Calls!Running /\ \E i \in DOMAIN Activations[Calls!Top].locals : Calls!Store(i, v)
<1> DEFINE n == Len(is)  w == SubSeq(regs, current_base + 1, Len(regs))
<1>1. /\ Running /\ regs' = [regs EXCEPT ![Register(r) + 1] = v]
      /\ UNCHANGED <<ring, overflow, metas, spilled, chunk, ip, phase, saved, imported>>
  BY DEF Store, frameVars
<1>2. /\ n \in Nat /\ current_base \in Nat /\ Len(regs) \in Nat /\ current_base + Size[chunk] <= Len(regs)
      /\ Size[chunk] \in Nat /\ Calls!Running /\ Calls!Top = n + 1 /\ Activations[n + 1].locals = w
      /\ current_base <= Len(regs) /\ Activations \in Seq(Activation) /\ Len(Activations) = n + 1
  BY <1>1, TopIs
<1>3. PICK rs, qs, b : rs = regs /\ qs = regs' /\ b = current_base
  OBVIOUS
<1> DEFINE at == b + r + 1
<1>4. r \in Nat /\ at \in 1 .. Len(rs) /\ rs \in Seq(Vals) /\ qs = [rs EXCEPT ![at] = v] /\ r + 1 \in 1 .. Len(rs) - b
  <2>1. r \in Nat /\ r <= Size[chunk] - 1
    BY <1>2
  <2>2. Register(r) = b + r
    BY <1>3 DEF Register
  <2> QED
    BY <2>1, <2>2, <1>1, <1>2, <1>3 DEF Values
<1> HIDE DEF at
<1>5. qs \in Seq(Vals) /\ Len(qs) = Len(rs) /\ \A i \in 1 .. Len(rs) : qs[i] = IF i = at THEN v ELSE rs[i]
  BY <1>4, ExceptSeq
<1>6. \A i \in 1 .. b : qs[i] = rs[i]
  <2>1. \A i \in 1 .. b : i \in 1 .. Len(rs) /\ i # at
    BY <1>2, <1>3, <1>4 DEF at
  <2> QED
    BY <2>1, <1>5
<1>7. LogicalInfos' = LogicalInfos /\ LogicalMetas' = dm \o ms /\ ms \in Seq(Meta)
  <2>1. LogicalInfos' = LogicalInfos /\ LogicalMetas' = LogicalMetas
    BY <1>1 DEF LogicalInfos, LogicalMetas, AllInfos
  <2> QED
    BY <2>1 DEF Stack, Proper
<1>8. ip' # End /\ current_base <= Len(regs') /\ \A i \in 1 .. current_base : regs'[i] = regs[i]
  BY <1>1, <1>2, <1>3, <1>5, <1>6 DEF Running
<1> HIDE DEF n, w
<1>9. /\ Logical'
      /\ Activations' = [Activations EXCEPT ![n + 1] =
                              [Activations[n + 1] EXCEPT !.locals = SubSeq(regs', current_base + 1, Len(regs'))]]
  <2>1. /\ phase' = phase /\ saved' = saved /\ (chunk' = chunk \/ (chunk # Main /\ chunk' # Main))
        /\ Len(ms) = Len(ms)
        /\ \A i \in 1 .. Len(ms) : ms[i].into = ms[i].into /\ ms[i].chunk = ms[i].chunk
    BY <1>1
  <2>2. Logical' /\ TopChanged(is)
    BY <1>1, <1>7, <1>8, <2>1, TopStep, Zenon
  <2> QED
    BY <2>2 DEF TopChanged, n
<1>10. SubSeq(qs, b + 1, Len(qs)) = [SubSeq(rs, b + 1, Len(rs)) EXCEPT ![r + 1] = v] /\ r + 1 \in DOMAIN SubSeq(rs, b + 1, Len(rs))
  <2> DEFINE x == SubSeq(qs, b + 1, Len(qs))  y == SubSeq(rs, b + 1, Len(rs))  j == r + 1  z == [y EXCEPT ![j] = v]
             k == Len(rs) - b
  <2>1. /\ y \in Seq(Vals) /\ Len(y) = k /\ \A i \in 1 .. k : y[i] = rs[b + i]
        /\ x \in Seq(Vals) /\ Len(x) = k /\ \A i \in 1 .. k : x[i] = qs[b + i]
    <3>1. b \in Nat /\ Len(rs) \in Nat /\ b <= Len(rs) /\ Len(qs) = Len(rs) /\ Len(rs) <= Len(rs)
      BY <1>2, <1>3, <1>5
    <3>2. /\ y \in Seq(Vals) /\ Len(y) = Len(rs) - b /\ \A i \in 1 .. Len(rs) - b : y[i] = rs[b + i]
      <4>1. rs \in Seq(Vals)
        BY <1>4
      <4> QED
        BY <3>1, <4>1, Window
    <3>3. /\ x \in Seq(Vals) /\ Len(x) = Len(qs) - b /\ \A i \in 1 .. Len(qs) - b : x[i] = qs[b + i]
      BY <3>1, <1>5, Window
    <3> QED
      BY <3>1, <3>2, <3>3
  <2>2. j \in 1 .. k /\ k \in Nat
    BY <1>2, <1>3, <1>4
  <2> HIDE DEF x, y, j
  <2>3. /\ z \in Seq(Vals) /\ Len(z) = k /\ \A i \in 1 .. k : z[i] = IF i = j THEN v ELSE y[i]
    BY <2>1, <2>2, ExceptSeq
  <2> HIDE DEF z
  <2>4. ASSUME NEW i \in 1 .. k PROVE x[i] = z[i]
    <3> DEFINE g == b + i
    <3>1. g \in 1 .. Len(rs) /\ (g = at <=> i = j)
      BY <1>2, <1>3, <1>4 DEF at, j
    <3> HIDE DEF g
    <3>2. qs[g] = IF g = at THEN v ELSE rs[g]
      BY <3>1, <1>5
    <3>3. x[i] = qs[g] /\ y[i] = rs[g]
      BY <2>1 DEF g
    <3> QED
      BY <3>1, <3>2, <3>3, <2>3
  <2>5. \A i \in 1 .. Len(x) : x[i] = z[i]
    BY <2>1, <2>4
  <2>6. x = z
    BY <2>1, <2>3, <2>5, SeqEqual
  <2>7. j \in DOMAIN y
    BY <2>1, <2>2, LenProperties
  <2> QED
    BY <2>6, <2>7 DEF x, y, z, j
<1>11. /\ SubSeq(regs', current_base + 1, Len(regs')) = [Activations[Calls!Top].locals EXCEPT ![r + 1] = v]
       /\ r + 1 \in DOMAIN Activations[Calls!Top].locals
  BY <1>2, <1>3, <1>10 DEF w
<1>12. Activations' = [Activations EXCEPT ![Calls!Top].locals[r + 1] = v]
  <2>1. PICK all, top, x, i : /\ all = Activations /\ top = Calls!Top /\ i = r + 1
                              /\ x = SubSeq(regs', current_base + 1, Len(regs'))
    OBVIOUS
  <2>2. x = [all[top].locals EXCEPT ![i] = v] /\ top = n + 1
    BY <2>1, <1>2, <1>11
  <2>3. [all EXCEPT ![top] = [all[top] EXCEPT !.locals = x]] = [all EXCEPT ![top].locals[i] = v]
    BY <2>2
  <2> QED
    BY <2>1, <2>2, <2>3, <1>9
<1> QED
  BY <1>1, <1>2, <1>9, <1>11, <1>12 DEF Calls!Store

\* A tail call changes the closure of the newest frame, in the logical stack too.
LEMMA RenameLogical ==
  ASSUME Frames, Paging, Frames', Paging', metas # <<>>, NEW c \in Chunks,
         metas' = [metas EXCEPT ![Len(metas)].closure = c],
         UNCHANGED <<ring, overflow, spilled>>
  PROVE  /\ LogicalInfos' = LogicalInfos
         /\ \E l \in Seq(Meta), e \in Meta :
              LogicalMetas = Append(l, e) /\ LogicalMetas' = Append(l, [e EXCEPT !.closure = c])
<1> DEFINE n == Len(metas)  l == SubSeq(metas, 1, n - 1)  e == metas[n]  f == [e EXCEPT !.closure = c]
           hm == MetasIn(spilled)
<1>1. metas \in Seq(Meta) /\ (spilled # <<>> => n >= 3)
  BY DEF Frames, Paging
<1>2. /\ l \in Seq(Meta) /\ e \in Meta /\ n \in Nat \ {0} /\ Len(l) = n - 1
      /\ (\A i \in 1 .. n - 1 : l[i] = metas[i]) /\ metas = Append(l, e)
  BY <1>1, LastOff
<1>3. f \in Meta
  BY <1>2 DEF Meta
<1>4. metas' = Append(l, f)
  <2> DEFINE x == [metas EXCEPT ![n] = f]  y == Append(l, f)
  <2>1. metas' = x
    BY <1>2
  <2>2. x \in Seq(Meta) /\ Len(x) = n /\ \A i \in 1 .. n : x[i] = IF i = n THEN f ELSE metas[i]
    <3>1. n \in 1 .. Len(metas)
      BY <1>2
    <3> QED
      BY <1>1, <1>3, <3>1, ExceptSeq
  <2>3. y \in Seq(Meta) /\ Len(y) = n /\ y[n] = f /\ \A i \in 1 .. n - 1 : y[i] = l[i]
    <3> HIDE DEF l, f, n
    <3>1. /\ Append(l, f) \in Seq(Meta) /\ Len(Append(l, f)) = Len(l) + 1
          /\ Append(l, f)[Len(l) + 1] = f /\ \A i \in 1 .. Len(l) : Append(l, f)[i] = l[i]
      BY <1>2, <1>3, AppendProperties
    <3>2. Len(l) + 1 = n
      BY <1>2
    <3> QED
      BY <1>2, <3>1, <3>2
  <2> HIDE DEF x, y, n, l, f, e
  <2>4. ASSUME NEW i \in 1 .. n PROVE x[i] = y[i]
    <3>1. CASE i = n
      BY <3>1, <2>2, <2>3
    <3>2. CASE i # n
      <4>1. i \in 1 .. n - 1
        BY <3>2, <1>2
      <4> QED
        BY <3>2, <4>1, <1>2, <2>2, <2>3
    <3> QED
      BY <3>1, <3>2
  <2>5. x = y
    BY <2>2, <2>3, <2>4, SeqEqual
  <2> QED
    BY <2>1, <2>5 DEF y
<1>5. /\ LogicalMetas = Log(hm, metas) /\ hm \in Seq(Seq(Meta)) /\ Filled(hm) /\ Len(hm) = Len(spilled)
  <2>1. Ready(Here) /\ Here.spilled = spilled /\ Here.metas = metas
    BY HereReady DEF Here
  <2> QED
    BY <2>1, HereReady, LogicalOf
<1>6. LogicalMetas' = Log(hm, metas')
  <2>1. PICK q : Ready(q) /\ q.metas = metas' /\ q.spilled = spilled' /\ LogicalMetas' = MetasOf(q.metas, q.spilled)
    BY NextReady
  <2>2. MetasOf(q.metas, q.spilled) = Log(MetasIn(q.spilled), q.metas)
    BY <2>1, LogicalOf
  <2> QED
    BY <2>1, <2>2
<1>7. Len(hm) > 0 => l # <<>>
  <2> SUFFICES ASSUME Len(hm) > 0 PROVE l # <<>>
    OBVIOUS
  <2>1. Len(spilled) > 0
    BY <1>5
  <2>2. spilled # <<>>
    BY <2>1, EmptySeq DEF Frames
  <2>3. Len(l) # 0
    BY <2>2, <1>1, <1>2
  <2>4. Len(<<>>) = 0
    BY EmptySeq
  <2> HIDE DEF l
  <2> QED
    BY <2>3, <2>4
<1> HIDE DEF n, l, e, f, hm
<1>8. Log(hm, Append(l, e)) = Append(Log(hm, l), e) /\ Log(hm, Append(l, f)) = Append(Log(hm, l), f)
  <2>1. hm \in Seq(Seq(Meta)) /\ Filled(hm) /\ l \in Seq(Meta) /\ e \in Meta /\ f \in Meta
    BY <1>2, <1>3, <1>5
  <2>2. Log(hm, Append(l, e)) = Append(Log(hm, l), e)
    BY <2>1, <1>7, LogPush
  <2>3. Log(hm, Append(l, f)) = Append(Log(hm, l), f)
    BY <2>1, <1>7, LogPush
  <2> QED
    BY <2>2, <2>3
<1>9. Log(hm, l) \in Seq(Meta)
  BY <1>2, <1>5, <1>7, LogTyped
<1>10. LogicalInfos' = LogicalInfos
  BY DEF LogicalInfos, AllInfos
<1> QED
  BY <1>2, <1>4, <1>5, <1>6, <1>8, <1>9, <1>10 DEF f

\* What a tail call leaves in the register file.
Slides(rs, qs, b, r, k) ==
    /\ Len(rs) <= Len(qs)
    /\ \A i \in 1 .. Len(rs) : qs[i] = IF i \in b + 1 .. b + k THEN rs[i + r + 1] ELSE rs[i]

LEMMA TailRegs ==
  ASSUME Inv, Values, NEW c \in Chunks, NEW r \in Nat, TailCall(c, r)
  PROVE  Slides(regs, regs', current_base, r, Argc[c])
<1> DEFINE g == Slid(r, Argc[c])
           more == IF Outgrows(c) THEN Fill(Locals[c] - OldLocals(c)) ELSE <<>>
<1>1. Register(r) + 1 + Argc[c] <= Len(regs) /\ regs' = g \o more
  BY DEF TailCall
<1>2. g \in Seq(Vals)
  BY <1>1, SlidValues
<1>3. more \in Seq(Vals)
  <2>1. CASE Outgrows(c)
    <3>1. Locals[c] - OldLocals(c) \in Nat
      <4>1. Locals[c] \in Nat /\ Argc[c] \in Nat /\ current_base \in Nat /\ Len(regs) \in Nat
        BY SizeTypes, LenProperties DEF Inv, Frames, Values
      <4> QED
        BY <2>1, <4>1 DEF Outgrows, OldLocals
    <3> QED
      BY <2>1, <3>1, FillValues
  <2>2. CASE ~Outgrows(c)
    BY <2>2, EmptySeq
  <2> QED
    BY <2>1, <2>2
<1>4. Len(g) = Len(regs) /\ \A i \in 1 .. Len(regs) :
        g[i] = IF i \in current_base + 1 .. current_base + Argc[c] THEN regs[i + r + 1] ELSE regs[i]
  <2>1. DOMAIN regs = 1 .. Len(regs) /\ Len(regs) \in Nat
    BY LenProperties DEF Values
  <2>2. DOMAIN g = 1 .. Len(regs)
    BY <2>1 DEF Slid
  <2>3. Len(g) = Len(regs)
    <3> HIDE DEF g
    <3>1. Len(g) \in Nat /\ DOMAIN g = 1 .. Len(g)
      BY <1>2, LenProperties
    <3> QED
      BY <2>1, <2>2, <3>1
  <2> QED
    BY <2>1, <2>3 DEF Slid
<1> HIDE DEF g, more
<1>5. Len(g \o more) = Len(g) + Len(more) /\ Len(more) \in Nat /\ Len(g) \in Nat
  BY <1>2, <1>3, ConcatProperties, LenProperties
<1>6. \A i \in 1 .. Len(g) : (g \o more)[i] = g[i]
  <2>1. \A i \in 1 .. Len(g) + Len(more) : (g \o more)[i] = IF i <= Len(g) THEN g[i] ELSE more[i - Len(g)]
    BY <1>2, <1>3, ConcatProperties
  <2> QED
    BY <2>1, <1>5
<1>7. Len(regs) <= Len(regs')
  BY <1>1, <1>4, <1>5
<1>8. \A i \in 1 .. Len(regs) :
        regs'[i] = IF i \in current_base + 1 .. current_base + Argc[c] THEN regs[i + r + 1] ELSE regs[i]
  BY <1>1, <1>4, <1>6
<1> QED
  BY <1>7, <1>8 DEF Slides

LEMMA SplitMetas ==
  ASSUME NEW d, NEW s, NEW l, NEW e,
         /\ s # <<>> /\ d \o s = Append(l, e)
         /\ d \in Seq(Meta) /\ s \in Seq(Meta) /\ l \in Seq(Meta) /\ e \in Meta
  PROVE  s = Append(Front(s), e) /\ l = d \o Front(s) /\ Front(s) \in Seq(Meta)
<1>1. d \in Seq(Meta) /\ s \in Seq(Meta) /\ l \in Seq(Meta) /\ e \in Meta
  OBVIOUS
<1>2. s # <<>> /\ d \o s = Append(l, e)
  OBVIOUS
<1>3. Front(s) \in Seq(Meta)
  BY ONLY <1>1, <1>2, SplitLast, SMTT(40)
<1>4. s = Append(Front(s), e)
  BY ONLY <1>1, <1>2, SplitLast, SMTT(40)
<1>5. l = d \o Front(s)
  BY ONLY <1>1, <1>2, SplitLast, SMTT(40)
<1> QED
  BY <1>3, <1>4, <1>5

LEMMA TailCallCalls ==
  ASSUME Inv, Windows, Values, Inv', Windows', Values',
         NEW di, NEW dm, NEW is, NEW ms, Stack(di, dm, is, ms),
         NEW c \in Closures, NEW r \in 0 .. Size[chunk] - 1 - Argc[c], TailCall(c, r)
  PROVE  Logical' /\ Calls!TailCall(c, r)
<1> DEFINE n == Len(is)  k == Argc[c]
<1>1. /\ Running /\ metas # <<>> /\ chunk # Main /\ metas' = [metas EXCEPT ![Len(metas)].closure = c]
      /\ UNCHANGED <<ring, overflow, spilled, current_base, phase, saved, imported>>
      /\ chunk' = c /\ ip' = 0
  BY DEF TailCall
<1>2. /\ c \in Chunks /\ c # Main /\ k \in Nat /\ Size[c] \in Nat /\ Size[chunk] \in Nat
  BY ChunkAssumption, SizeTypes DEF Chunks, Inv, Script
<1>3. /\ n \in Nat /\ current_base \in Nat /\ Len(regs) \in Nat /\ current_base + Size[chunk] <= Len(regs)
      /\ Calls!Running /\ Calls!Top = n + 1 /\ Activations \in Seq(Activation) /\ Len(Activations) = n + 1
      /\ Activations[n + 1].locals = SubSeq(regs, current_base + 1, Len(regs)) /\ current_base <= Len(regs)
  BY <1>1, TopIs
<1>4. r \in Nat /\ r <= Size[chunk] - 1 - k
  BY <1>2, <1>3
<1>5. PICK l \in Seq(Meta), e \in Meta :
        LogicalMetas = Append(l, e) /\ LogicalMetas' = Append(l, [e EXCEPT !.closure = c]) /\ LogicalInfos' = LogicalInfos
  BY <1>1, <1>2, RenameLogical DEF Inv
<1>6. is \in Seq(Info) /\ ms \in Seq(Meta) /\ dm \in Seq(Meta) /\ Len(ms) = n /\ dm \o ms = Append(l, e)
      /\ is # <<>> /\ ms # <<>> /\ n > 0
  <2>1. is \in Seq(Info) /\ ms \in Seq(Meta) /\ dm \in Seq(Meta) /\ Len(ms) = n /\ dm \o ms = Append(l, e)
        /\ is # <<>>
    BY <1>1, <1>5 DEF Stack, Proper
  <2>2. n # 0
    BY <2>1, EmptySeq
  <2>3. ms # <<>>
    BY <2>1, <2>2, EmptySeq
  <2> QED
    BY <2>1, <2>2, <2>3, <1>3
<1> HIDE DEF n, k
<1>7. ms = Append(Front(ms), e) /\ l = dm \o Front(ms) /\ Front(ms) \in Seq(Meta)
  <2>1. /\ ms # <<>> /\ dm \o ms = Append(l, e)
        /\ dm \in Seq(Meta) /\ ms \in Seq(Meta) /\ l \in Seq(Meta) /\ e \in Meta
    BY <1>6
  <2> QED
    BY ONLY <2>1, SplitMetas, Zenon
<1> DEFINE f == [e EXCEPT !.closure = c]  ns == Append(Front(ms), f)
<1>8. f \in Meta /\ f.into = e.into /\ f.chunk = e.chunk
  BY <1>2 DEF Meta
<1> HIDE DEF f
<1>9. /\ ns \in Seq(Meta) /\ Len(ns) = Len(ms)
      /\ \A i \in 1 .. Len(ms) : ns[i].into = ms[i].into /\ ns[i].chunk = ms[i].chunk
  <2>1. PICK fs : fs = Front(ms)
    OBVIOUS
  <2>2. fs \in Seq(Meta) /\ f \in Meta /\ e \in Meta /\ ms = Append(fs, e) /\ ns = Append(fs, f) /\ Len(fs) \in Nat
    BY <2>1, <1>7, <1>8, LenProperties
  <2> HIDE DEF ns
  <2>3. /\ ns \in Seq(Meta) /\ Len(ns) = Len(fs) + 1
        /\ ns[Len(fs) + 1] = f /\ \A i \in 1 .. Len(fs) : ns[i] = fs[i]
    BY <2>2, AppendProperties
  <2>4. /\ Len(ms) = Len(fs) + 1
        /\ ms[Len(fs) + 1] = e /\ \A i \in 1 .. Len(fs) : ms[i] = fs[i]
    BY <2>2, AppendProperties
  <2>5. ASSUME NEW i \in 1 .. Len(fs) + 1 PROVE ns[i].into = ms[i].into /\ ns[i].chunk = ms[i].chunk
    <3>1. CASE i = Len(fs) + 1
      BY <3>1, <2>3, <2>4, <1>8
    <3>2. CASE i # Len(fs) + 1
      <4>1. i \in 1 .. Len(fs)
        BY <3>2, <2>2
      <4> QED
        BY <4>1, <2>3, <2>4
    <3> QED
      BY <3>1, <3>2
  <2> QED
    BY <2>3, <2>4, <2>5
<1>10. LogicalMetas' = dm \o ns
  <2>1. dm \o Append(Front(ms), f) = Append(dm \o Front(ms), f)
    BY <1>6, <1>7, <1>8, ConcatAppend
  <2> QED
    BY <2>1, <1>5, <1>7 DEF f
<1>11. Slides(regs, regs', current_base, r, k)
  BY <1>2, <1>4, TailRegs DEF k
<1>12. PICK rs, qs, b : rs = regs /\ qs = regs' /\ b = current_base
  OBVIOUS
<1>13. /\ rs \in Seq(Vals) /\ qs \in Seq(Vals) /\ b \in Nat /\ Len(rs) \in Nat /\ Len(qs) \in Nat
       /\ b + r + 1 + k <= Len(rs) /\ b <= Len(rs) /\ Len(rs) <= Len(qs)
       /\ \A i \in 1 .. Len(rs) : qs[i] = IF i \in b + 1 .. b + k THEN rs[i + r + 1] ELSE rs[i]
  <2>1. rs \in Seq(Vals) /\ qs \in Seq(Vals) /\ Len(rs) \in Nat /\ Len(qs) \in Nat
    BY <1>12, LenProperties DEF Values
  <2>2. b \in Nat /\ b <= Len(rs) /\ b + Size[chunk] <= Len(rs)
    BY <1>3, <1>12
  <2>3. b + r + 1 + k <= Len(rs)
    BY <2>1, <2>2, <1>2, <1>4
  <2> QED
    BY <2>1, <2>2, <2>3, <1>11, <1>12 DEF Slides
<1>14. current_base <= Len(regs') /\ \A i \in 1 .. current_base : regs'[i] = regs[i]
  <2>1. \A i \in 1 .. b : i \in 1 .. Len(rs) /\ ~(i \in b + 1 .. b + k)
    BY <1>13
  <2>2. b <= Len(qs) /\ \A i \in 1 .. b : qs[i] = rs[i]
    BY <2>1, <1>13
  <2> QED
    BY <2>2, <1>12
<1> HIDE DEF ns
<1>15. Logical' /\ TopChanged(is)
  <2>1. phase' = phase /\ saved' = saved /\ (chunk' = chunk \/ (chunk # Main /\ chunk' # Main)) /\ ip' # End
    BY <1>1, <1>2, BoundAssumption DEF End
  <2> QED
    BY <2>1, <1>1, <1>5, <1>9, <1>10, <1>14, TopStep, Zenon
<1> DEFINE new == SubSeq(qs, b + 1, Len(qs))
<1>16. /\ Activations' = [Activations EXCEPT ![Calls!Top].locals = new]
       /\ Activations'[Calls!Top].locals = new /\ Len(Activations') = Calls!Top /\ Calls!Top > 1
  <2>1. PICK all, left, top, x : /\ all = Activations /\ left = Activations' /\ top = Calls!Top
                                 /\ x = SubSeq(regs', current_base + 1, Len(regs'))
    OBVIOUS
  <2>2. left = [all EXCEPT ![top] = [all[top] EXCEPT !.locals = x]] /\ left[top].locals = x /\ Len(left) = top
    BY <2>1, <1>3, <1>15 DEF TopChanged, n
  <2>3. [all EXCEPT ![top] = [all[top] EXCEPT !.locals = x]] = [all EXCEPT ![top].locals = x]
    OBVIOUS
  <2>4. x = new
    BY <2>1, <1>12
  <2>5. Calls!Top > 1
    BY <1>3, <1>6
  <2> HIDE DEF new
  <2> QED
    BY <2>1, <2>2, <2>3, <2>4, <2>5
<1>17. Len(new) >= Size[c]
  <2>1. b + Size[c] <= Len(qs)
    <3>1. Running' /\ WindowHeld' /\ chunk' = c /\ current_base' = b
      BY <1>1, <1>12, BoundAssumption DEF Windows, Running, End
    <3> QED
      BY <3>1, <1>12 DEF WindowHeld, WindowEnd
  <2>2. b <= Len(qs) /\ Len(qs) <= Len(qs)
    BY <1>13
  <2>3. Len(new) = Len(qs) - b
    BY <2>2, <1>13, Window
  <2> HIDE DEF new
  <2> QED
    BY <2>1, <2>3, <1>2, <1>13
<1>18. SubSeq(new, 1, k) = Calls!Args(Activations[Calls!Top].locals, r, k)
  <2> DEFINE w == SubSeq(rs, b + 1, Len(rs))  i0 == r + 1  x == SubSeq(qs, b + 1, b + k)  a == b + r + 1
             y == SubSeq(rs, a + 1, a + k)
  <2>1. SubSeq(new, 1, k) = x
    <3>1. PICK o : o = 0
      OBVIOUS
    <3>2. qs \in Seq(Vals) /\ b \in Nat /\ o \in Nat /\ k \in Nat /\ b + o + k <= Len(qs)
      BY <3>1, <1>2, <1>4, <1>13
    <3>3. o + 1 = 1 /\ o + k = k /\ b + o + 1 = b + 1 /\ b + o + k = b + k
      BY <3>1, <3>2
    <3> HIDE DEF w, i0, x, y, a, new
    <3>4. SubSeq(SubSeq(qs, b + 1, Len(qs)), o + 1, o + k) = SubSeq(qs, b + o + 1, b + o + k)
      BY <3>2, PieceOfWindow
    <3> QED
      BY <3>3, <3>4 DEF new, x
  <2>2. Calls!Args(w, r, k) = y
    <3>1. i0 \in Nat /\ b + i0 + k <= Len(rs) /\ k \in Nat /\ rs \in Seq(Vals) /\ b \in Nat
      BY <1>2, <1>4, <1>13
    <3>2. r + 2 = i0 + 1 /\ r + 1 + k = i0 + k /\ b + i0 + 1 = a + 1 /\ b + i0 + k = a + k
      BY <1>2, <1>4, <1>13
    <3> HIDE DEF i0, a, x, y, new
    <3>3. SubSeq(w, i0 + 1, i0 + k) = SubSeq(rs, b + i0 + 1, b + i0 + k)
      BY <3>1, PieceOfWindow
    <3>4. Calls!Args(w, r, k) = SubSeq(w, i0 + 1, i0 + k)
      BY <3>2 DEF Calls!Args
    <3> QED
      BY <3>2, <3>3, <3>4 DEF y
  <2>3. /\ x \in Seq(Vals) /\ Len(x) = k /\ \A i \in 1 .. k : x[i] = qs[b + i]
    <3> DEFINE z == b + k
    <3>1. z \in Nat /\ b <= z /\ z <= Len(qs) /\ z - b = k
      BY <1>2, <1>4, <1>13
    <3> HIDE DEF z
    <3>2. /\ SubSeq(qs, b + 1, z) \in Seq(Vals) /\ Len(SubSeq(qs, b + 1, z)) = z - b
          /\ \A i \in 1 .. z - b : SubSeq(qs, b + 1, z)[i] = qs[b + i]
      BY <3>1, <1>13, Window
    <3> QED
      BY <3>1, <3>2 DEF z
  <2>4. /\ y \in Seq(Vals) /\ Len(y) = k /\ \A i \in 1 .. k : y[i] = rs[a + i]
    <3> DEFINE z == a + k
    <3>1. a \in Nat /\ z \in Nat /\ a <= z /\ z <= Len(rs) /\ z - a = k
      BY <1>2, <1>4, <1>13
    <3> HIDE DEF z, a
    <3>2. /\ SubSeq(rs, a + 1, z) \in Seq(Vals) /\ Len(SubSeq(rs, a + 1, z)) = z - a
          /\ \A i \in 1 .. z - a : SubSeq(rs, a + 1, z)[i] = rs[a + i]
      BY <3>1, <1>13, Window
    <3> QED
      BY <3>1, <3>2 DEF z
  <2> HIDE DEF x, y, new, w
  <2>5. ASSUME NEW i \in 1 .. k PROVE x[i] = y[i]
    <3> DEFINE g == b + i
    <3>0. k \in Nat /\ b \in Nat /\ r \in Nat /\ Len(rs) \in Nat /\ b + r + 1 + k <= Len(rs) /\ i \in 1 .. k
      BY <1>2, <1>4, <1>13
    <3>1. g \in 1 .. Len(rs) /\ g \in b + 1 .. b + k /\ g + r + 1 = a + i
      BY <3>0
    <3> HIDE DEF g, a
    <3>2. qs[g] = rs[g + r + 1]
      BY <3>1, <1>13
    <3> QED
      BY <3>1, <3>2, <2>3, <2>4 DEF g
  <2>6. x = y
    <3>1. \A i \in 1 .. Len(x) : x[i] = y[i]
      BY <2>3, <2>5
    <3> QED
      BY <3>1, <2>3, <2>4, SeqEqual
  <2>7. Activations[Calls!Top].locals = w
    BY <1>3, <1>12 DEF w
  <2> QED
    BY <2>1, <2>2, <2>6, <2>7
<1> HIDE DEF new
<1>19. Calls!TailCall(c, r)
  <2>1. [chunk |-> chunk', ip |-> ip'] = Calls!Start(c)
    BY <1>1 DEF Calls!Start
  <2>2. PICK x : x = Activations'[Calls!Top].locals
    OBVIOUS
  <2>3. /\ Activations' = [Activations EXCEPT ![Calls!Top].locals = x]
        /\ Len(x) >= Size[c] /\ SubSeq(x, 1, Argc[c]) = Calls!Args(Activations[Calls!Top].locals, r, Argc[c])
    BY <2>2, <1>16, <1>17, <1>18 DEF k
  <2> QED
    BY <2>1, <2>2, <2>3, <1>1, <1>3, <1>16 DEF Calls!TailCall
<1> QED
  BY <1>15, <1>19

-----------------------------------------------------------------------------
(* Ends, failures and starts                                               *)

\* No frame is live: the script's window is the whole register file.
LEMMA IdleIs ==
  \A di, dm : Stack(di, dm, <<>>, <<>>) => Activations = <<ScriptActivation(regs)>>
<1> SUFFICES ASSUME NEW di, NEW dm, Stack(di, dm, <<>>, <<>>)
    PROVE  Activations = <<ScriptActivation(regs)>>
  OBVIOUS
<1>1. Activations = ActivationsOf(regs, <<>>, <<>>)
  BY ActIs
<1>2. regs \in Seq(Vals)
  BY DEF Stack, Proper
<1> QED
  BY <1>1, <1>2, ScriptOnly

LEMMA IdleIsNext ==
  \A di, dm : Stack(di, dm, <<>>, <<>>)' => Activations' = <<ScriptActivation(regs')>>
<1>1. (\A di, dm : Stack(di, dm, <<>>, <<>>) => Activations = <<ScriptActivation(regs)>>)'
  BY IdleIs, PTL
<1> QED
  BY <1>1

LEMMA IdleStack ==
  ASSUME NEW di, NEW dm, NEW is, NEW ms, Stack(di, dm, is, ms), is = <<>>
  PROVE  Stack(di, dm, <<>>, <<>>) /\ ms = <<>> /\ chunk = Main /\ Activations = <<ScriptActivation(regs)>>
<1>1. ms = <<>>
  <2>1. Len(is) = 0 /\ Len(is) = Len(ms) /\ ms \in Seq(Meta)
    BY EmptySeq DEF Stack, Proper
  <2> QED
    BY <2>1, EmptySeq
<1> QED
  BY <1>1, IdleIs DEF Stack

LEMMA HostRefusedCalls ==
  ASSUME Inv, Values, Values', NEW di, NEW dm, NEW is, NEW ms, Stack(di, dm, is, ms),
         NEW c \in Closures, NEW args \in Tuples(Argc[c]), HostRefused(c, args)
  PROVE  Logical' /\ Calls!HostRefused
<1>1. /\ phase = "halted" /\ regs' = regs \o args
      /\ UNCHANGED <<ring, overflow, metas, spilled, chunk, ip, phase, saved, imported>>
  BY DEF HostRefused, frameVars
<1>2. is = <<>>
  BY <1>1 DEF Stack, Running
<1>3. Stack(di, dm, <<>>, <<>>) /\ chunk = Main /\ Activations = <<ScriptActivation(regs)>>
  BY <1>2, IdleStack
<1>4. LogicalInfos' = LogicalInfos /\ LogicalMetas' = LogicalMetas
  BY <1>1 DEF LogicalInfos, LogicalMetas, AllInfos
<1>5. PICK rs, qs : rs = regs /\ qs = regs'
  OBVIOUS
<1>6. rs \in Seq(Vals) /\ qs \in Seq(Vals) /\ args \in Seq(Vals) /\ qs = rs \o args
  <2>1. c \in Chunks
    BY DEF Chunks
  <2>2. args \in Seq(Vals)
    BY <2>1, SizeTypes, FunValues DEF Tuples
  <2> QED
    BY <2>2, <1>1, <1>5 DEF Values
<1>7. Proper(qs, <<>>, <<>>)
  BY <1>6, ScriptOnly
<1>8. Stack(di, dm, <<>>, <<>>)'
  BY <1>1, <1>3, <1>4, <1>5, <1>7 DEF Stack, Running
<1>9. Activations' = <<ScriptActivation(qs)>> /\ Activations = <<ScriptActivation(rs)>>
  BY <1>3, <1>5, <1>8, IdleIsNext
<1>10. SubSeq(qs, 1, Len(rs)) = rs
  <2> DEFINE k == Len(rs)  x == SubSeq(qs, 1, k)
  <2>1. k \in Nat /\ Len(args) \in Nat /\ Len(qs) = k + Len(args) /\ \A i \in 1 .. k + Len(args) : qs[i] = IF i <= k THEN rs[i] ELSE args[i - k]
    BY <1>6, ConcatProperties, LenProperties
  <2>2. k \in 0 .. Len(qs) /\ 1 \in Nat \ {0} /\ 1 <= k + 1 /\ k + 1 - 1 = k /\ \A i \in 1 .. k : 1 + i - 1 = i
    BY <2>1
  <2> HIDE DEF k
  <2>3. /\ SubSeq(qs, 1, k) \in Seq(Vals) /\ Len(SubSeq(qs, 1, k)) = k + 1 - 1
        /\ \A i \in 1 .. k + 1 - 1 : SubSeq(qs, 1, k)[i] = qs[1 + i - 1]
    BY <2>2, <1>6, PieceOf
  <2> HIDE DEF x
  <2>4. x \in Seq(Vals) /\ Len(x) = k /\ \A i \in 1 .. k : x[i] = qs[i]
    BY <2>2, <2>3 DEF x
  <2>5. \A i \in 1 .. Len(x) : x[i] = rs[i]
    BY <2>1, <2>4
  <2>6. Len(x) = Len(rs)
    BY <2>4 DEF k
  <2>7. x = rs
    BY <2>4, <2>5, <2>6, <1>6, SeqEqual
  <2> QED
    BY <2>7 DEF x, k
<1>11. Activations' = <<[Calls!Script EXCEPT !.locals = qs]>>
  BY <1>9 DEF ScriptActivation, Calls!Script, Calls!AtEnd
<1>12. Activations'[1].locals = qs /\ Activations[1].locals = rs /\ Len(Activations') = 1
  BY <1>9 DEF ScriptActivation
<1> QED
  BY <1>1, <1>8, <1>10, <1>11, <1>12 DEF Logical, Calls!HostRefused

\* A host call ends, in whatever way, with the script's own window as it was.
LEMMA RestoreCalls ==
  ASSUME Inv, Windows, Values', NEW di, NEW dm, NEW is, NEW ms, Stack(di, dm, is, ms),
         phase = "host", Restore, UNCHANGED <<ring, overflow, metas, spilled>>
  PROVE  /\ Logical' /\ Activations' = <<ScriptActivation(regs')>>
         /\ chunk' = Main /\ ip' = End /\ phase' = "halted"
<1>1. /\ chunk' = saved.chunk /\ ip' = saved.ip /\ phase' = "halted"
  BY DEF Restore
<1>2. saved.chunk = Main /\ saved.ip = End
  BY DEF Stack, Windows
<1>3. PICK li, lm : li = LogicalInfos /\ lm = LogicalMetas
  OBVIOUS
<1>4. LogicalInfos' = li /\ LogicalMetas' = lm /\ li \in Seq(Info) /\ lm \in Seq(Meta) /\ Len(li) = Len(lm)
  <2>1. LogicalInfos' = LogicalInfos /\ LogicalMetas' = LogicalMetas
    BY DEF LogicalInfos, LogicalMetas, AllInfos
  <2>2. /\ li = di \o is /\ lm = dm \o ms /\ di \in Seq(Info) /\ is \in Seq(Info) /\ Len(di) = Len(dm)
        /\ dm \in Seq(Meta) /\ ms \in Seq(Meta) /\ Len(is) = Len(ms)
    BY <1>3 DEF Stack, Proper
  <2>3. li \in Seq(Info) /\ Len(li) = Len(di) + Len(is)
    BY <2>2, ConcatProperties
  <2>4. lm \in Seq(Meta) /\ Len(lm) = Len(dm) + Len(ms)
    BY <2>2, ConcatProperties
  <2> QED
    BY <2>1, <2>2, <2>3, <2>4, <1>3
<1>5. li \o <<>> = li /\ lm \o <<>> = lm
  BY <1>4, ConcatEmptySeq
<1>6. PICK qs : qs = regs'
  OBVIOUS
<1>7. Proper(qs, <<>>, <<>>)
  BY <1>6, ScriptOnly DEF Values
<1>8. Stack(li, lm, <<>>, <<>>)'
  <2>1. Len(<<>>) = 0
    BY EmptySeq
  <2> QED
    BY <2>1, <1>1, <1>2, <1>4, <1>5, <1>6, <1>7 DEF Stack, Running
<1> QED
  BY <1>1, <1>2, <1>8, IdleIsNext DEF Logical

LEMMA HostDoneCalls ==
  ASSUME Inv, Windows, Values, Values', NEW di, NEW dm, NEW is, NEW ms, Stack(di, dm, is, ms), HostDone
  PROVE  Logical' /\ Calls!HostDone
<1>1. phase = "host" /\ ip = End /\ Restore /\ UNCHANGED <<ring, overflow, metas, spilled, imported>>
  BY DEF HostDone
<1>2. is = <<>> /\ Len(regs) = saved.len
  BY <1>1 DEF Stack, Running
<1>3. chunk = Main /\ Activations = <<ScriptActivation(regs)>>
  BY <1>2, IdleStack
<1>4. /\ Logical' /\ Activations' = <<ScriptActivation(regs')>>
      /\ chunk' = Main /\ ip' = End /\ phase' = "halted"
  BY <1>1, RestoreCalls
<1>5. regs' = regs
  <2>1. regs' = SubSeq(regs, 1, Len(regs))
    BY <1>1, <1>2 DEF Restore, Truncated
  <2>2. regs \in Seq(Vals)
    BY DEF Values
  <2> QED
    BY <2>1, <2>2, SubSeqFull
<1>6. Activations' = Activations /\ Calls!Top = 1
  BY <1>3, <1>4, <1>5 DEF Calls!Top
<1> QED
  BY <1>1, <1>3, <1>4, <1>6 DEF Calls!HostDone, Calls!AtEnd

LEMMA HaltCalls ==
  ASSUME Inv, Windows, NEW di, NEW dm, NEW is, NEW ms, Stack(di, dm, is, ms), Halt
  PROVE  Logical' /\ Calls!Halt
<1>1. /\ Running /\ phase = "run" /\ chunk = Main /\ ip' = End /\ phase' = "halted"
      /\ UNCHANGED <<regs, ring, overflow, metas, spilled, chunk, saved, imported>>
  BY DEF Halt, frameVars
<1>2. is = <<>>
  BY <1>1 DEF Stack
<1>3. Stack(di, dm, <<>>, <<>>) /\ Activations = <<ScriptActivation(regs)>>
  BY <1>2, IdleStack
<1>4. LogicalInfos' = LogicalInfos /\ LogicalMetas' = LogicalMetas
  BY <1>1 DEF LogicalInfos, LogicalMetas, AllInfos
<1>5. Stack(di, dm, <<>>, <<>>)'
  BY <1>1, <1>3, <1>4 DEF Stack, Running
<1>6. Activations' = Activations /\ Calls!Top = 1
  <2>1. Activations' = <<ScriptActivation(regs')>>
    BY <1>5, IdleIsNext
  <2> QED
    BY <2>1, <1>1, <1>3 DEF Calls!Top
<1>7. Calls!Running
  BY <1>1 DEF Running, Calls!Running
<1> QED
  BY <1>1, <1>5, <1>6, <1>7 DEF Logical, Calls!Halt, Calls!AtEnd

\* Of the activations in a host call, the script's window ends where it began.
LEMMA ScriptWindow ==
  ASSUME Values, NEW di, NEW dm, NEW is, NEW ms, Stack(di, dm, is, ms), phase = "host", Running
  PROVE  Activations[1] = ScriptActivation(Truncated(regs, saved.len))
<1>1. is # <<>> /\ is[1].base = saved.len /\ Proper(regs, is, ms) /\ Activations = ActivationsOf(regs, is, ms)
  BY ActIs DEF Stack, Running
<1>2. PICK rs : rs = regs
  OBVIOUS
<1>3. /\ Len(is) \in Nat /\ Len(is) # 0 /\ Len(rs) \in Nat /\ is[1].base \in Nat /\ is[1].base <= Len(rs)
      /\ rs \in Seq(Vals)
  <2>1. Proper(rs, is, ms)
    BY <1>1, <1>2
  <2>2. Len(is) \in Nat /\ Len(is) # 0 /\ Len(rs) \in Nat /\ is \in Seq(Info) /\ rs \in Seq(Vals)
    BY <1>1, <2>1, EmptySeq, LenProperties DEF Proper
  <2>3. 1 \in 1 .. Len(is)
    BY <2>2
  <2>4. is[1] \in Info /\ is[1].base <= Len(rs)
    BY <2>1, <2>2, <2>3, ElementOfSeq DEF Proper
  <2> QED
    BY <2>2, <2>4 DEF Info
<1>4. ActivationsOf(rs, is, ms)[1] = ActivationOf(rs, is, ms, 1)
  <2>1. 1 \in 1 .. Len(is) + 1
    BY <1>3
  <2> QED
    BY <2>1 DEF ActivationsOf
<1>5. WindowOf(rs, is, 1) = SubSeq(rs, 1, is[1].base)
  <2>1. ~(1 > Len(is)) /\ 1 + 1 = 2 /\ 2 # 1 /\ 2 - 1 = 1 /\ 0 + 1 = 1
    BY <1>3
  <2>2. BaseOf(is, 1) = 0 /\ BaseOf(is, 1 + 1) = is[1].base
    BY <2>1 DEF BaseOf
  <2> QED
    BY <2>1, <2>2 DEF WindowOf
<1>6. Truncated(rs, saved.len) = SubSeq(rs, 1, is[1].base)
  <2>1. (IF is[1].base < Len(rs) THEN is[1].base ELSE Len(rs)) = is[1].base
    BY <1>3
  <2> QED
    BY <2>1, <1>1 DEF Truncated
<1>7. ActivationOf(rs, is, ms, 1) = ScriptActivation(WindowOf(rs, is, 1))
  BY DEF ActivationOf, ScriptActivation
<1> QED
  BY <1>1, <1>2, <1>4, <1>5, <1>6, <1>7

LEMMA FailCalls ==
  ASSUME Inv, Windows, Values, Values', NEW di, NEW dm, NEW is, NEW ms, Stack(di, dm, is, ms),
         Fail \/ \E c, r : TailCallFails(c, r)
  PROVE  Logical' /\ Calls!Fail
<1>1. /\ Running /\ imported \subseteq imported'
      /\ UNCHANGED <<ring, overflow, metas, spilled>>
      /\ phase = "host" => Restore
      /\ phase # "host" => phase' = "failed" /\ UNCHANGED <<ip, chunk>>
  BY DEF Fail, TailCallFails
<1>2. Calls!Running
  BY <1>1 DEF Running, Calls!Running
<1>3. CASE phase = "host"
  <2>1. /\ Logical' /\ Activations' = <<ScriptActivation(regs')>>
        /\ chunk' = Main /\ ip' = End /\ phase' = "halted"
    BY <1>1, <1>3, RestoreCalls
  <2>2. regs' = Truncated(regs, saved.len)
    BY <1>1, <1>3 DEF Restore
  <2>3. Activations' = <<Activations[1]>>
    BY <2>1, <2>2, <1>1, <1>3, ScriptWindow
  <2> QED
    BY <2>1, <2>3, <1>1, <1>2, <1>3 DEF Calls!Fail, Calls!AtEnd
<1>4. CASE phase # "host"
  <2>1. phase = "run" /\ phase' = "failed" /\ UNCHANGED <<ip, chunk>>
    BY <1>1, <1>4 DEF Running
  <2>2. Activations' = <<>>
    BY <2>1 DEF Activations
  <2> QED
    BY <2>1, <2>2, <1>1, <1>2 DEF Calls!Fail, Logical
<1> QED
  BY <1>3, <1>4

\* A script at its start.
Starts ==
    /\ regs = Fill(Locals[Main]) /\ ring = <<>> /\ overflow = <<>> /\ metas = <<>> /\ spilled = <<>>
    /\ chunk = Main /\ ip = 0 /\ phase = "run"

LEMMA StartCalls == Starts => Logical /\ Activations = <<Calls!Script>>
<1> SUFFICES ASSUME Starts PROVE Logical /\ Activations = <<Calls!Script>>
  OBVIOUS
<1>1. Len(<<>>) = 0 /\ <<>> \in Seq(Info) /\ <<>> \in Seq(Meta) /\ <<>> \o <<>> = <<>>
  BY EmptySeq, ConcatEmptySeq
<1>2. FlattenSeq(<<>>) = <<>>
  BY <1>1 DEF FlattenSeq
<1>3. LogicalInfos = <<>>
  <2>1. AllInfos = <<>>
    BY <1>1 DEF AllInfos, Starts
  <2>2. [b \in DOMAIN spilled |-> RealInfos(spilled[b].infos)] = <<>>
    BY DEF Starts
  <2> QED
    BY <2>1, <2>2, <1>1, <1>2 DEF LogicalInfos, InfosOf, RealInfos
<1>4. LogicalMetas = <<>>
  <2>1. [b \in DOMAIN spilled |-> RealMetas(spilled[b].metas)] = <<>> /\ metas = <<>>
    BY DEF Starts
  <2> QED
    BY <2>1, <1>1, <1>2 DEF LogicalMetas, MetasOf, RealMetas
<1>5. Locals[Main] \in Nat /\ Argc[Main] = 0 /\ Main \in Chunks
  BY SizeTypes, ChunkAssumption DEF Chunks
<1>6. PICK rs : rs = regs /\ rs \in Seq(Vals)
  BY <1>5, FillValues DEF Starts
<1>7. Proper(rs, <<>>, <<>>)
  BY <1>6, ScriptOnly
<1>8. 0 # End
  BY BoundAssumption DEF End
<1>9. Stack(<<>>, <<>>, <<>>, <<>>)
  BY <1>1, <1>3, <1>4, <1>6, <1>7, <1>8 DEF Stack, Starts, Running
<1>10. Activations = <<ScriptActivation(regs)>>
  BY <1>9, IdleIs
<1>11. ScriptActivation(regs) = Calls!Script
  <2>1. Size[Main] = Locals[Main]
    BY <1>5 DEF Size
  <2> QED
    BY <2>1 DEF Starts, ScriptActivation, Calls!Script, Calls!Fresh, Calls!AtEnd, Fill
<1> QED
  BY <1>9, <1>10, <1>11 DEF Logical

LEMMA StartCallsNext == Starts' => Logical' /\ Activations' = <<Calls!Script>>
<1>1. (Starts => Logical /\ Activations = <<Calls!Script>>)'
  BY StartCalls, PTL
<1> QED
  BY <1>1 DEF Calls!Script, Calls!Fresh, Calls!AtEnd

-----------------------------------------------------------------------------
(* The refinement                                                          *)

LEMMA StutterCalls ==
  ASSUME Logical, UNCHANGED vars
  PROVE  Logical' /\ UNCHANGED Calls!vars
<1>1. UNCHANGED <<regs, ring, overflow, metas, spilled, chunk, ip, phase, saved, imported>>
  BY DEF vars, frameVars
<1>2. LogicalInfos' = LogicalInfos /\ LogicalMetas' = LogicalMetas
  BY <1>1 DEF LogicalInfos, LogicalMetas, AllInfos
<1>3. CASE phase = "failed"
  <2>1. Activations = <<>> /\ Activations' = <<>>
    BY <1>1, <1>3 DEF Activations
  <2> QED
    BY <2>1, <1>1, <1>3 DEF Logical, Calls!vars
<1>4. CASE phase # "failed"
  <2>1. PICK di, dm, is, ms : Stack(di, dm, is, ms)
    BY <1>4 DEF Logical
  <2>2. Stack(di, dm, is, ms)'
    BY <2>1, <1>1, <1>2 DEF Stack, Running
  <2>3. Activations' = Activations
    BY <2>1, <2>2, <1>1, ActIs, ActIsNext
  <2> QED
    BY <2>2, <2>3, <1>1 DEF Logical, Calls!vars
<1> QED
  BY <1>3, <1>4

LEMMA StepCalls ==
  Inv /\ Windows /\ Values /\ Logical /\ [Next]_vars => Logical' /\ [Calls!Next]_(Calls!vars)
<1> SUFFICES ASSUME Inv, Windows, Values, Logical, [Next]_vars
    PROVE  Logical' /\ [Calls!Next]_(Calls!vars)
  OBVIOUS
<1>0. Inv' /\ Windows' /\ Values'
  BY StepInv, StepWindows, StepValues
<1>a. ASSUME phase # "failed" PROVE \E di, dm, is, ms : Stack(di, dm, is, ms)
  BY <1>a DEF Logical
<1>1. ASSUME NEW v \in Vals, Return(v) \/ BuiltinTailCall(v) PROVE Logical' /\ Calls!Next
  <2>1. PICK di, dm, is, ms : Stack(di, dm, is, ms)
    BY <1>1, <1>a DEF Return, BuiltinTailCall, Running
  <2>2. Logical' /\ Calls!Return(v)
    BY <1>1, <2>1, ReturnCalls
  <2> QED
    BY <2>2 DEF Calls!Next
<1>2. ASSUME NEW r \in 0 .. Size[chunk] - 1, NEW v \in Vals, Store(r, v) PROVE Logical' /\ Calls!Next
  <2>1. PICK di, dm, is, ms : Stack(di, dm, is, ms)
    BY <1>2, <1>a DEF Store, Running
  <2>2. Logical' /\ Calls!Running /\ \E i \in DOMAIN Activations[Calls!Top].locals : Calls!Store(i, v)
    BY <1>0, <1>2, <2>1, StoreCalls
  <2> QED
    BY <2>2 DEF Calls!Next
<1>3. ASSUME NEW c \in Closures, NEW r \in 0 .. Size[chunk] - 1 - Argc[c],
             Call(c, r) \/ TailCall(c, r) \/ TailCallFails(c, r)
      PROVE  Logical' /\ Calls!Next
  <2>1. PICK di, dm, is, ms : Stack(di, dm, is, ms)
    BY <1>3, <1>a DEF Call, TailCall, TailCallFails, Running
  <2>2. r \in 0 .. Size[[chunk |-> chunk, ip |-> ip].chunk] - 1 - Argc[c]
    OBVIOUS
  <2>3. CASE Call(c, r)
    <3>1. Logical' /\ Calls!Call(c, r)
      BY <2>1, <2>3, CallCalls
    <3> QED
      BY <3>1, <2>2 DEF Calls!Next
  <2>4. CASE TailCall(c, r)
    <3>1. Logical' /\ Calls!TailCall(c, r)
      BY <1>0, <2>1, <2>4, TailCallCalls
    <3> QED
      BY <3>1, <2>2 DEF Calls!Next
  <2>5. CASE TailCallFails(c, r)
    <3>1. Logical' /\ Calls!Fail
      BY <1>0, <2>1, <2>5, FailCalls
    <3> QED
      BY <3>1 DEF Calls!Next
  <2> QED
    BY <1>3, <2>3, <2>4, <2>5
<1>4. ASSUME NEW c \in Closures, NEW args \in Tuples(Argc[c]),
             HostCall(c, args) \/ HostRefused(c, args)
      PROVE  Logical' /\ Calls!Next
  <2>1. PICK di, dm, is, ms : Stack(di, dm, is, ms)
    BY <1>4, <1>a DEF HostCall, HostRefused
  <2>2. CASE HostCall(c, args)
    <3>1. Logical' /\ Calls!HostCall(c)
      BY <2>1, <2>2, HostCallCalls
    <3> QED
      BY <3>1 DEF Calls!Next
  <2>3. CASE HostRefused(c, args)
    <3>1. Logical' /\ Calls!HostRefused
      BY <1>0, <2>1, <2>3, HostRefusedCalls
    <3> QED
      BY <3>1 DEF Calls!Next
  <2> QED
    BY <1>4, <2>2, <2>3
<1>5. ASSUME NEW m \in Modules, Import(m) PROVE Logical' /\ Calls!Next
  <2>1. PICK di, dm, is, ms : Stack(di, dm, is, ms)
    BY <1>5, <1>a DEF Import, Running
  <2>2. Logical' /\ Calls!Import(m)
    BY <1>5, <2>1, ImportCalls
  <2> QED
    BY <2>2 DEF Calls!Next
<1>6. ASSUME Halt \/ Fail \/ HostDone PROVE Logical' /\ Calls!Next
  <2>1. PICK di, dm, is, ms : Stack(di, dm, is, ms)
    BY <1>6, <1>a DEF Halt, Fail, HostDone, Running
  <2>2. CASE Halt
    BY <2>1, <2>2, HaltCalls DEF Calls!Next
  <2>3. CASE Fail
    BY <1>0, <2>1, <2>3, FailCalls DEF Calls!Next
  <2>4. CASE HostDone
    BY <1>0, <2>1, <2>4, HostDoneCalls DEF Calls!Next
  <2> QED
    BY <1>6, <2>2, <2>3, <2>4
<1>7. ASSUME Run PROVE Logical' /\ Calls!Next
  <2>1. Starts'
    BY <1>7 DEF Run, Starts
  <2>2. Logical' /\ Activations' = <<Calls!Script>>
    BY <2>1, StartCallsNext
  <2>3. Calls!Restart
    BY <2>2, <1>7 DEF Run, Calls!Restart, Calls!Start
  <2> QED
    BY <2>2, <2>3 DEF Calls!Next
<1>8. CASE UNCHANGED vars
  BY <1>8, StutterCalls
<1>9. CASE Next
  BY <1>1, <1>2, <1>3, <1>4, <1>5, <1>6, <1>7, <1>9 DEF Next
<1> QED
  BY <1>8, <1>9

\* The register file, the two halves of the frames, the ring, the overflow and
\* the paging together implement a stack of separate windows (CallStack), for
\* every code, every frame size and every paging threshold: every step of the
\* frame machinery is a step of it or changes nothing of it.
THEOREM FrameImplements == Spec => ImplementsCallStack
<1>1. Init => Logical /\ Calls!Init
  <2> SUFFICES ASSUME Init PROVE Logical /\ Calls!Init
    OBVIOUS
  <2>1. Starts
    BY DEF Init, Starts
  <2>2. Logical /\ Activations = <<Calls!Script>>
    BY <2>1, StartCalls
  <2> QED
    BY <2>2 DEF Init, Calls!Init, Calls!Start
<1> QED
  BY <1>1, InitValues, InitInv, StepInv, StepWindows, StepValues, StepCalls, PTL DEF Spec, ImplementsCallStack, Calls!Spec

=============================================================================
