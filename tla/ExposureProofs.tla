--------------------------- MODULE ExposureProofs ---------------------------
(***************************************************************************)
(* Proofs about what is exposed.  First a print job, for every job, every  *)
(* scale and every number of refused lists: the scanner exposes the plan of*)
(* the job, line by line, and a refused list costs its layer and nothing   *)
(* else.  Then the tool chain, for every square and number of layers: what *)
(* the generator's exit code means, where damage stops the job, and that   *)
(* the square and nothing else is exposed.                                 *)
(***************************************************************************)
EXTENDS MCPrintController, GenerateAndPrint, PrintControllerProofs, FiniteSetTheorems,
        WellFoundedInduction

-----------------------------------------------------------------------------
(* FlattenSeq, with which the plans are put together.  Its recursion is    *)
(* unfolded by the least counterexample.                                   *)

\* The recursion of FlattenSeq.
Joint(ss, f, n) == IF n = 1 THEN ss[n] ELSE f[n - 1] \o ss[n]

\* ss is how tt begins.
Begins(ss, tt) ==
  /\ Len(ss) \in Nat /\ Len(tt) \in Nat /\ Len(ss) <= Len(tt)
  /\ \A n \in 1 .. Len(ss) : ss[n] = tt[n]

Flattening(ss, f) == \A n \in 1 .. Len(ss) : f[n] = Joint(ss, f, n)

\* A set of numbers that is not empty has a least element.
LEMMA Least ==
  ASSUME NEW T \in SUBSET Nat, T # {}
  PROVE  \E low \in T : \A x \in T : low <= x
<1>1. PICK low \in T : \A m \in T : ~(<<m, low>> \in OpToRel(<, Nat))
  BY NatLessThanWellFounded, WFMin
<1>2. \A x \in T : <<x, low>> \in OpToRel(<, Nat) \/ low <= x
  BY DEF OpToRel
<1> QED
  BY <1>1, <1>2

\* The recursive function of FlattenSeq exists.
LEMMA FlatteningExists ==
  ASSUME NEW ss, Len(ss) \in Nat PROVE \E f : f = [n \in 1 .. Len(ss) |-> Joint(ss, f, n)]
<1> DEFINE P(n) == \E f : f = [m \in 1 .. n |-> Joint(ss, f, m)]
           T == {n \in Nat : ~P(n)}
<1>1. P(0)
  <2> DEFINE f == [m \in 1 .. 0 |-> ss[m]]
  <2>1. f = [m \in 1 .. 0 |-> Joint(ss, f, m)]
    OBVIOUS
  <2> HIDE DEF f
  <2> QED
    BY <2>1
<1>2. ASSUME NEW n \in Nat, P(n) PROVE P(n + 1)
  <2>1. PICK f : f = [m \in 1 .. n |-> Joint(ss, f, m)]
    BY <1>2
  <2> DEFINE g == [m \in 1 .. n + 1 |-> Joint(ss, f, m)]
  <2>2. ASSUME NEW m \in 1 .. n PROVE g[m] = f[m]
    <3>1. f[m] = Joint(ss, f, m)
      BY <2>1
    <3>2. g[m] = Joint(ss, f, m)
      OBVIOUS
    <3> QED
      BY <3>1, <3>2
  <2>3. ASSUME NEW m \in 1 .. n + 1 PROVE Joint(ss, g, m) = Joint(ss, f, m)
    <3> HIDE DEF g
    <3>1. CASE m = 1
      BY <3>1 DEF Joint
    <3>2. CASE m # 1
      <4>1. m - 1 \in 1 .. n
        BY <3>2
      <4>2. g[m - 1] = f[m - 1]
        BY <2>2, <4>1
      <4> QED
        BY <3>2, <4>2 DEF Joint
    <3> QED
      BY <3>1, <3>2
  <2>4. g = [m \in 1 .. n + 1 |-> Joint(ss, g, m)]
    <3> DEFINE h == [m \in 1 .. n + 1 |-> Joint(ss, g, m)]
    <3>1. \A m \in 1 .. n + 1 : h[m] = g[m]
      BY <2>3
    <3> QED
      BY <3>1
  <2> HIDE DEF g
  <2> QED
    BY <2>4
<1> HIDE DEF P
<1>3. T = {}
  <2> SUFFICES ASSUME T # {} PROVE FALSE
    OBVIOUS
  <2>1. PICK n \in T : \A x \in T : n <= x
    <3>1. T \in SUBSET Nat
      OBVIOUS
    <3> HIDE DEF T
    <3> QED
      BY <3>1, Least
  <2>2. n # 0
    BY <1>1
  <2>3. n - 1 \in Nat /\ n - 1 \notin T
    BY <2>1, <2>2
  <2> QED
    BY <1>2, <2>3
<1> QED
  BY <1>3 DEF P

\* FlattenSeq is the last value of that function.
LEMMA FlattenIs ==
  ASSUME NEW ss, Len(ss) \in Nat, Len(ss) # 0
  PROVE  \E f : Flattening(ss, f) /\ FlattenSeq(ss) = f[Len(ss)]
<1> DEFINE f == CHOOSE f : f = [n \in 1 .. Len(ss) |-> Joint(ss, f, n)]
<1>1. FlattenSeq(ss) = f[Len(ss)]
  BY DEF FlattenSeq, Joint
<1>2. f = [n \in 1 .. Len(ss) |-> Joint(ss, f, n)]
  BY FlatteningExists
<1> HIDE DEF f
<1>3. Flattening(ss, f)
  <2> SUFFICES ASSUME NEW n \in 1 .. Len(ss) PROVE f[n] = Joint(ss, f, n)
    BY DEF Flattening
  <2> QED
    BY <1>2
<1> QED
  BY <1>1, <1>3

\* Two sequences that agree are flattened alike as far as they do.
LEMMA FlatteningsAgree ==
  ASSUME NEW ss, NEW tt, Begins(ss, tt), NEW f, Flattening(ss, f), NEW g, Flattening(tt, g)
  PROVE  \A n \in 1 .. Len(ss) : f[n] = g[n]
<1> DEFINE T == {n \in Nat : n \in 1 .. Len(ss) /\ f[n] # g[n]}
<1> USE DEF Begins
<1> SUFFICES ASSUME T # {} PROVE FALSE
  OBVIOUS
<1>1. PICK n \in T : \A x \in T : n <= x
  <2>1. T \in SUBSET Nat
    OBVIOUS
  <2> HIDE DEF T
  <2> QED
    BY <2>1, Least
<1>2. f[n] = Joint(ss, f, n) /\ g[n] = Joint(tt, g, n)
  BY <1>1 DEF Flattening
<1>3. n # 1 => f[n - 1] = g[n - 1]
  BY <1>1
<1>4. ss[n] = tt[n]
  BY <1>1
<1>5. Joint(ss, f, n) = Joint(tt, g, n)
  BY <1>3, <1>4 DEF Joint
<1> QED
  BY <1>1, <1>2, <1>5

\* A flattened sequence is a sequence.
LEMMA FlatteningType ==
  ASSUME NEW S, NEW ss \in Seq(Seq(S)), NEW f, Flattening(ss, f)
  PROVE  \A n \in 1 .. Len(ss) : f[n] \in Seq(S)
<1> DEFINE T == {n \in Nat : n \in 1 .. Len(ss) /\ f[n] \notin Seq(S)}
<1> SUFFICES ASSUME T # {} PROVE FALSE
  OBVIOUS
<1>1. PICK n \in T : \A x \in T : n <= x
  <2>1. T \in SUBSET Nat
    OBVIOUS
  <2> HIDE DEF T
  <2> QED
    BY <2>1, Least
<1>2. f[n] = Joint(ss, f, n)
  BY <1>1 DEF Flattening
<1>3. n # 1 => f[n - 1] \in Seq(S)
  BY <1>1
<1>4. ss[n] \in Seq(S)
  BY <1>1
<1>5. Joint(ss, f, n) \in Seq(S)
  BY <1>3, <1>4 DEF Joint
<1> QED
  BY <1>1, <1>2, <1>5

LEMMA FlattenType ==
  ASSUME NEW S, NEW ss \in Seq(Seq(S)) PROVE FlattenSeq(ss) \in Seq(S)
<1>1. CASE Len(ss) = 0
  <2>1. ss = << >>
    BY <1>1
  <2>2. FlattenSeq(ss) = << >>
    BY <1>1, <2>1 DEF FlattenSeq
  <2> QED
    BY <2>2
<1>2. CASE Len(ss) # 0
  BY <1>2, FlattenIs, FlatteningType
<1> QED
  BY <1>1, <1>2

\* One sequence more is flattened into one sequence appended.
LEMMA FlattenStep ==
  ASSUME NEW S, NEW ss \in Seq(Seq(S)), NEW tt \in Seq(Seq(S)), Len(tt) = Len(ss) + 1,
         \A n \in 1 .. Len(ss) : tt[n] = ss[n]
  PROVE  FlattenSeq(tt) = FlattenSeq(ss) \o tt[Len(tt)]
<1>1. PICK g : Flattening(tt, g) /\ FlattenSeq(tt) = g[Len(tt)]
  <2>1. Len(tt) \in Nat /\ Len(tt) # 0
    OBVIOUS
  <2> QED
    BY ONLY <2>1, FlattenIs
<1>2. g[Len(tt)] = IF Len(tt) = 1 THEN tt[Len(tt)] ELSE g[Len(tt) - 1] \o tt[Len(tt)]
  <2>1. Len(tt) \in 1 .. Len(tt)
    OBVIOUS
  <2> QED
    BY <1>1, <2>1 DEF Flattening, Joint
<1>3. tt[Len(tt)] \in Seq(S)
  OBVIOUS
<1>4. CASE Len(ss) = 0
  <2>1. FlattenSeq(ss) = << >>
    <3>1. ss = << >>
      BY <1>4
    <3> QED
      BY <1>4, <3>1 DEF FlattenSeq
  <2> QED
    BY <1>1, <1>2, <1>3, <1>4, <2>1
<1>5. CASE Len(ss) # 0
  <2>1. PICK f : Flattening(ss, f) /\ FlattenSeq(ss) = f[Len(ss)]
    <3>1. Len(ss) \in Nat
      OBVIOUS
    <3> QED
      BY ONLY <1>5, <3>1, FlattenIs
  <2>2. f[Len(ss)] = g[Len(ss)]
    <3>1. Len(ss) \in 1 .. Len(ss)
      BY <1>5
    <3>2. Begins(ss, tt)
      BY DEF Begins
    <3>3. \A n \in 1 .. Len(ss) : f[n] = g[n]
      BY <1>1, <2>1, <3>2, FlatteningsAgree
    <3> QED
      BY ONLY <3>1, <3>3
  <2>3. Len(tt) # 1 /\ Len(tt) - 1 = Len(ss)
    BY <1>5
  <2> QED
    BY <1>1, <1>2, <2>1, <2>2, <2>3
<1> QED
  BY <1>4, <1>5

\* What begins a sequence begins every longer one.
LEMMA BeginsLonger ==
  ASSUME NEW S, NEW s \in Seq(S), NEW t \in Seq(S), NEW x, Begins(x, s)
  PROVE  Begins(x, s \o t)
<1> DEFINE u == s \o t
<1>1. Len(u) = Len(s) + Len(t) /\ \A n \in 1 .. Len(s) : u[n] = s[n]
  BY Joined
<1>2. Len(s) \in Nat /\ Len(t) \in Nat
  OBVIOUS
<1> HIDE DEF u
<1>3. Begins(x, u)
  BY <1>1, <1>2 DEF Begins
<1> QED
  BY <1>3 DEF u

\* What begins a sequence is flattened into what begins the flattened sequence.
LEMMA FlattenBegins ==
  ASSUME NEW S, NEW ss \in Seq(Seq(S)), NEW tt \in Seq(Seq(S)), Begins(ss, tt)
  PROVE  Begins(FlattenSeq(ss), FlattenSeq(tt))
<1>1. FlattenSeq(tt) \in Seq(S) /\ FlattenSeq(ss) \in Seq(S)
  BY FlattenType
<1>2. CASE Len(ss) = 0
  <2>1. FlattenSeq(ss) = << >>
    <3>1. ss = << >>
      BY <1>2
    <3> QED
      BY <1>2, <3>1 DEF FlattenSeq
  <2> QED
    BY <1>1, <2>1 DEF Begins
<1>3. CASE Len(ss) # 0
  <2> DEFINE a == Len(ss)
             z == Len(tt)
  <2>1. a \in Nat /\ z \in Nat /\ a <= z /\ a >= 1
    BY <1>3 DEF Begins
  <2>2. PICK g : Flattening(tt, g) /\ FlattenSeq(tt) = g[Len(tt)]
    BY <2>1, FlattenIs
  <2>3. PICK f : Flattening(ss, f) /\ FlattenSeq(ss) = f[Len(ss)]
    BY <1>3, FlattenIs
  <2>4. \A n \in 1 .. Len(ss) : f[n] = g[n]
    BY <2>2, <2>3, FlatteningsAgree
  <2>5. \A n \in 1 .. z : g[n] \in Seq(S)
    BY <2>2, FlatteningType
  <2>6. FlattenSeq(ss) = g[a] /\ FlattenSeq(tt) = g[z]
    <3>1. Len(ss) \in 1 .. Len(ss)
      BY <2>1
    <3> QED
      BY <2>2, <2>3, <2>4, <3>1
  <2>7. \A n \in 1 .. z : g[n] = Joint(tt, g, n) /\ tt[n] \in Seq(S)
    BY <2>2 DEF Flattening
  <2> HIDE DEF a, z
  <2> DEFINE T == {n \in Nat : a <= n /\ n <= z /\ ~Begins(g[a], g[n])}
  <2>8. T = {}
    <3> SUFFICES ASSUME T # {} PROVE FALSE
      OBVIOUS
    <3>1. PICK n \in T : \A x \in T : n <= x
      <4>1. T \in SUBSET Nat
        OBVIOUS
      <4> HIDE DEF T
      <4> QED
        BY <4>1, Least
    <3>2. n \in 1 .. z /\ a \in 1 .. z
      BY <2>1, <3>1
    <3>3. n # a
      <4>1. g[a] \in Seq(S)
        BY <2>5, <3>2
      <4>2. Begins(g[a], g[a])
        BY <4>1 DEF Begins
      <4> QED
        BY <3>1, <4>2
    <3>4. Begins(g[a], g[n - 1]) /\ n # 1 /\ n - 1 \in 1 .. z
      BY <2>1, <3>1, <3>2, <3>3
    <3>5. g[n - 1] \in Seq(S) /\ tt[n] \in Seq(S) /\ g[n] = g[n - 1] \o tt[n]
      BY <2>5, <2>7, <3>2, <3>4 DEF Joint
    <3>6. Begins(g[a], g[n - 1] \o tt[n])
      BY <3>4, <3>5, BeginsLonger
    <3> QED
      BY <3>1, <3>5, <3>6
  <2> QED
    BY <2>1, <2>6, <2>8
<1> QED
  BY <1>2, <1>3 DEF Begins
-----------------------------------------------------------------------------
(* The plan of a job, block by block and layer by layer.                   *)

BlockPlanOf(j, blk) ==
  IF blk.key \in DOMAIN j.params THEN BlockPlan(blk, j.params[blk.key]) ELSE << >>

BlockPlans(j, layer, n) == [b \in 1 .. n |-> BlockPlanOf(j, layer[b])]

\* What the first n blocks of a layer ask for.
LayerPart(j, layer, n) == FlattenSeq(BlockPlans(j, layer, n))

KeptPlans(j, n, lost) ==
  [l \in 1 .. n |-> IF l \in lost THEN << >>
                    ELSE LayerPart(j, j.layers[l], Len(j.layers[l]))]

\* What the first n layers ask for, without those of the set lost.
Planned(j, n, lost) == FlattenSeq(KeptPlans(j, n, lost))

\* The layers and parameter sets of a job.
LEMMA JobTypes ==
  ASSUME NEW j \in Jobs
  PROVE  /\ j.layers \in Seq(Seq(Blocks)) /\ Len(j.layers) \in Nat
         /\ \A l \in 1 .. Len(j.layers) : j.layers[l] \in Seq(Blocks)
         /\ \A key \in DOMAIN j.params : j.params[key] \in Params
<1>1. j.layers \in Seq(Seq(Blocks)) /\ j.params \in [DOMAIN j.params -> Params]
  BY JobsAssumption
<1> QED
  BY <1>1

\* The plan of a block is a sequence of lines.
LEMMA BlockPlanType ==
  ASSUME NEW j \in Jobs, NEW blk \in Blocks PROVE BlockPlanOf(j, blk) \in Seq(Items)
<1>1. << >> \in Seq(Items)
  OBVIOUS
<1>2. CASE blk.key \in DOMAIN j.params
  <2>1. j.params[blk.key] \in Params
    BY <1>2, JobTypes
  <2>2. BlockPlan(blk, j.params[blk.key]) \in Seq(Items)
    BY <2>1, PlanOfBlock
  <2> QED
    BY <1>2, <2>2 DEF BlockPlanOf
<1> QED
  BY <1>1, <1>2 DEF BlockPlanOf

\* The plans of the first blocks of a layer.
LEMMA BlockPlansType ==
  ASSUME NEW j \in Jobs, NEW layer \in Seq(Blocks), NEW n \in 0 .. Len(layer)
  PROVE  /\ BlockPlans(j, layer, n) \in Seq(Seq(Items)) /\ Len(BlockPlans(j, layer, n)) = n
         /\ \A b \in 1 .. n : BlockPlans(j, layer, n)[b] = BlockPlanOf(j, layer[b])
<1>1. n \in Nat
  OBVIOUS
<1>2. \A b \in 1 .. n : BlockPlanOf(j, layer[b]) \in Seq(Items)
  <2> SUFFICES ASSUME NEW b \in 1 .. n PROVE BlockPlanOf(j, layer[b]) \in Seq(Items)
    OBVIOUS
  <2>1. layer[b] \in Blocks
    OBVIOUS
  <2> QED
    BY <2>1, BlockPlanType
<1> QED
  BY <1>1, <1>2 DEF BlockPlans

\* A sequence without elements is flattened into nothing.
LEMMA FlattenNothing ==
  ASSUME NEW S, NEW ss \in Seq(S), Len(ss) = 0 PROVE FlattenSeq(ss) = << >>
<1>1. ss = << >>
  OBVIOUS
<1> QED
  BY <1>1 DEF FlattenSeq

\* The plan of a layer grows block by block.
LEMMA LayerPartStep ==
  ASSUME NEW j \in Jobs, NEW layer \in Seq(Blocks)
  PROVE  /\ LayerPart(j, layer, 0) = << >>
         /\ \A n \in 0 .. Len(layer) : LayerPart(j, layer, n) \in Seq(Items)
         /\ \A n \in 0 .. Len(layer) - 1 :
              LayerPart(j, layer, n + 1) = LayerPart(j, layer, n) \o BlockPlanOf(j, layer[n + 1])
<1>1. LayerPart(j, layer, 0) = << >>
  <2>1. 0 \in 0 .. Len(layer)
    OBVIOUS
  <2>2. BlockPlans(j, layer, 0) \in Seq(Seq(Items)) /\ Len(BlockPlans(j, layer, 0)) = 0
    BY <2>1, BlockPlansType
  <2> QED
    BY <2>2, FlattenNothing DEF LayerPart
<1>2. ASSUME NEW n \in 0 .. Len(layer) PROVE LayerPart(j, layer, n) \in Seq(Items)
  <2>1. BlockPlans(j, layer, n) \in Seq(Seq(Items))
    BY BlockPlansType
  <2> QED
    BY <2>1, FlattenType DEF LayerPart
<1>3. ASSUME NEW n \in 0 .. Len(layer) - 1
      PROVE  LayerPart(j, layer, n + 1) = LayerPart(j, layer, n) \o BlockPlanOf(j, layer[n + 1])
  <2> DEFINE ss == BlockPlans(j, layer, n)
             tt == BlockPlans(j, layer, n + 1)
  <2>1. n \in 0 .. Len(layer) /\ n + 1 \in 0 .. Len(layer) /\ n + 1 \in 1 .. n + 1
    OBVIOUS
  <2>2. /\ ss \in Seq(Seq(Items)) /\ Len(ss) = n
        /\ \A b \in 1 .. n : ss[b] = BlockPlanOf(j, layer[b])
    BY <2>1, BlockPlansType
  <2>3. /\ tt \in Seq(Seq(Items)) /\ Len(tt) = n + 1
        /\ \A b \in 1 .. n + 1 : tt[b] = BlockPlanOf(j, layer[b])
    BY <2>1, BlockPlansType
  <2> HIDE DEF ss, tt
  <2>4. \A b \in 1 .. Len(ss) : tt[b] = ss[b]
    BY <2>1, <2>2, <2>3
  <2>5. FlattenSeq(tt) = FlattenSeq(ss) \o tt[Len(tt)]
    BY <2>2, <2>3, <2>4, FlattenStep
  <2>6. tt[Len(tt)] = BlockPlanOf(j, layer[n + 1])
    BY <2>1, <2>3
  <2> QED
    BY <2>5, <2>6 DEF LayerPart, ss, tt
<1> QED
  BY <1>1, <1>2, <1>3

\* What some blocks of a layer ask for begins what more of them do.
LEMMA LayerPartBegins ==
  ASSUME NEW j \in Jobs, NEW layer \in Seq(Blocks),
         NEW m \in 0 .. Len(layer), NEW n \in 0 .. Len(layer), m <= n
  PROVE  Begins(LayerPart(j, layer, m), LayerPart(j, layer, n))
<1> DEFINE ss == BlockPlans(j, layer, m)
           tt == BlockPlans(j, layer, n)
<1>1. /\ ss \in Seq(Seq(Items)) /\ Len(ss) = m
      /\ \A b \in 1 .. m : ss[b] = BlockPlanOf(j, layer[b])
  BY BlockPlansType
<1>2. /\ tt \in Seq(Seq(Items)) /\ Len(tt) = n
      /\ \A b \in 1 .. n : tt[b] = BlockPlanOf(j, layer[b])
  BY BlockPlansType
<1> HIDE DEF ss, tt
<1>3. Begins(ss, tt)
  BY <1>1, <1>2 DEF Begins
<1>4. Begins(FlattenSeq(ss), FlattenSeq(tt))
  BY <1>1, <1>2, <1>3, FlattenBegins
<1> QED
  BY <1>4 DEF LayerPart, ss, tt

\* The plans of the first layers of a job.
LEMMA KeptPlansType ==
  ASSUME NEW j \in Jobs, NEW n \in 0 .. Len(j.layers), NEW lost
  PROVE  /\ KeptPlans(j, n, lost) \in Seq(Seq(Items)) /\ Len(KeptPlans(j, n, lost)) = n
         /\ \A l \in 1 .. n :
              KeptPlans(j, n, lost)[l] =
                IF l \in lost THEN << >> ELSE LayerPart(j, j.layers[l], Len(j.layers[l]))
<1> DEFINE p(l) == IF l \in lost THEN << >> ELSE LayerPart(j, j.layers[l], Len(j.layers[l]))
<1>1. n \in Nat
  BY JobTypes
<1>2. << >> \in Seq(Items)
  OBVIOUS
<1>3. ASSUME NEW l \in 1 .. n PROVE p(l) \in Seq(Items)
  <2>1. j.layers[l] \in Seq(Blocks)
    BY <1>1, JobTypes
  <2>2. Len(j.layers[l]) \in 0 .. Len(j.layers[l])
    BY <2>1
  <2>3. LayerPart(j, j.layers[l], Len(j.layers[l])) \in Seq(Items)
    BY <2>1, <2>2, LayerPartStep
  <2> QED
    BY <1>2, <2>3
<1>4. KeptPlans(j, n, lost) = [l \in 1 .. n |-> p(l)]
  BY DEF KeptPlans
<1> HIDE DEF p
<1>5. /\ KeptPlans(j, n, lost) \in Seq(Seq(Items)) /\ Len(KeptPlans(j, n, lost)) = n
      /\ \A l \in 1 .. n : KeptPlans(j, n, lost)[l] = p(l)
  BY <1>1, <1>3, <1>4
<1> QED
  BY <1>5 DEF p

\* The plan of a job grows layer by layer, except by the lost ones.
LEMMA PlannedStep ==
  ASSUME NEW j \in Jobs, NEW lost, NEW n \in 0 .. Len(j.layers)
  PROVE  /\ Planned(j, n, lost) \in Seq(Items)
         /\ n = 0 => Planned(j, n, lost) = << >>
         /\ \A more : n < Len(j.layers) /\ (\A l \in 1 .. n : l \in more <=> l \in lost) =>
              Planned(j, n + 1, more) =
                Planned(j, n, lost) \o
                  IF n + 1 \in more THEN << >>
                  ELSE LayerPart(j, j.layers[n + 1], Len(j.layers[n + 1]))
<1> DEFINE ss == KeptPlans(j, n, lost)
<1>1. /\ ss \in Seq(Seq(Items)) /\ Len(ss) = n
      /\ \A l \in 1 .. n :
           ss[l] = IF l \in lost THEN << >> ELSE LayerPart(j, j.layers[l], Len(j.layers[l]))
  BY KeptPlansType
<1>2. n \in Nat /\ Len(j.layers) \in Nat /\ n <= Len(j.layers)
  BY JobTypes
<1> HIDE DEF ss
<1>3. FlattenSeq(ss) \in Seq(Items) /\ (n = 0 => FlattenSeq(ss) = << >>)
  BY <1>1, FlattenType, FlattenNothing
<1>4. ASSUME NEW more, n < Len(j.layers), \A l \in 1 .. n : l \in more <=> l \in lost
      PROVE  Planned(j, n + 1, more) =
               Planned(j, n, lost) \o
                 IF n + 1 \in more THEN << >>
                 ELSE LayerPart(j, j.layers[n + 1], Len(j.layers[n + 1]))
  <2>1. PICK next \in 0 .. Len(j.layers) : next = n + 1
    BY <1>2, <1>4
  <2> DEFINE tt == KeptPlans(j, next, more)
  <2>2. /\ tt \in Seq(Seq(Items)) /\ Len(tt) = next
        /\ \A l \in 1 .. next :
             tt[l] = IF l \in more THEN << >> ELSE LayerPart(j, j.layers[l], Len(j.layers[l]))
    BY ONLY j \in Jobs, KeptPlansType
  <2> HIDE DEF tt
  <2>3. \A l \in 1 .. Len(ss) : tt[l] = ss[l]
    <3> SUFFICES ASSUME NEW l \in 1 .. n PROVE tt[l] = ss[l]
      BY <1>1
    <3>1. l \in 1 .. next
      BY ONLY <1>2, <2>1
    <3>2. tt[l] = IF l \in more THEN << >> ELSE LayerPart(j, j.layers[l], Len(j.layers[l]))
      BY ONLY <2>2, <3>1
    <3>3. ss[l] = IF l \in lost THEN << >> ELSE LayerPart(j, j.layers[l], Len(j.layers[l]))
      BY ONLY <1>1
    <3> QED
      BY ONLY <1>4, <3>2, <3>3
  <2>4. FlattenSeq(tt) = FlattenSeq(ss) \o tt[Len(tt)]
    <3>1. ss \in Seq(Seq(Items)) /\ tt \in Seq(Seq(Items)) /\ Len(tt) = Len(ss) + 1
      BY <1>1, <2>1, <2>2
    <3> QED
      BY ONLY <2>3, <3>1, FlattenStep
  <2>5. tt[Len(tt)] = IF next \in more THEN << >>
                      ELSE LayerPart(j, j.layers[next], Len(j.layers[next]))
    <3>1. next \in 1 .. next
      BY <1>2, <2>1
    <3> QED
      BY ONLY <2>2, <3>1
  <2> QED
    BY <2>1, <2>4, <2>5 DEF Planned, ss, tt
<1> QED
  BY <1>3, <1>4 DEF Planned, ss

\* The reference plan of a layer is that of all its blocks.
LEMMA LayerPlanIs ==
  ASSUME NEW j \in Jobs, NEW k, k.params = j.params, NEW layer \in Seq(Blocks)
  PROVE  LayerPlan(k, layer) = LayerPart(j, layer, Len(layer))
<1>1. DOMAIN layer = 1 .. Len(layer)
  OBVIOUS
<1>2. [b \in DOMAIN layer |->
         IF layer[b].key \in DOMAIN k.params
         THEN BlockPlan(layer[b], k.params[layer[b].key]) ELSE << >>]
        = BlockPlans(j, layer, Len(layer))
  BY <1>1 DEF BlockPlans, BlockPlanOf
<1> QED
  BY <1>2 DEF LayerPlan, LayerPart

\* The reference plan of a job with these layers.
LEMMA JobPlanIs ==
  ASSUME NEW j \in Jobs, NEW n \in 0 .. Len(j.layers), NEW lost, NEW layers,
         DOMAIN layers = 1 .. n,
         \A l \in 1 .. n : layers[l] = IF l \in lost THEN << >> ELSE j.layers[l]
  PROVE  JobPlan([layers |-> layers, params |-> j.params]) = Planned(j, n, lost)
<1> DEFINE k == [layers |-> layers, params |-> j.params]
<1>1. k.layers = layers /\ k.params = j.params
  OBVIOUS
<1> HIDE DEF k
<1>2. Len(j.layers) \in Nat /\ n \in Nat /\ n <= Len(j.layers)
  BY JobTypes
<1>3. ASSUME NEW l \in 1 .. n
      PROVE  LayerPlan(k, k.layers[l]) =
               IF l \in lost THEN << >> ELSE LayerPart(j, j.layers[l], Len(j.layers[l]))
  <2>1. CASE l \in lost
    <3> DEFINE none == << >>
    <3>1. k.layers[l] = none /\ none \in Seq(Blocks) /\ Len(none) = 0
      BY <1>1, <2>1
    <3> HIDE DEF none
    <3>2. LayerPlan(k, none) = LayerPart(j, none, 0)
      BY <1>1, <3>1, LayerPlanIs
    <3>3. LayerPart(j, none, 0) = << >>
      BY <3>1, LayerPartStep
    <3> QED
      BY <2>1, <3>1, <3>2, <3>3
  <2>2. CASE l \notin lost
    <3>1. j.layers[l] \in Seq(Blocks) /\ k.layers[l] = j.layers[l]
      BY <1>1, <1>2, <2>2, JobTypes
    <3> QED
      BY <1>1, <2>2, <3>1, LayerPlanIs
  <2> QED
    BY <2>1, <2>2
<1>4. DOMAIN k.layers = 1 .. n
  BY <1>1
<1>5. [l \in DOMAIN k.layers |-> LayerPlan(k, k.layers[l])] = KeptPlans(j, n, lost)
  BY <1>3, <1>4 DEF KeptPlans
<1>6. JobPlan(k) = Planned(j, n, lost)
  BY <1>5 DEF JobPlan, Planned
<1> QED
  BY <1>6 DEF k

\* The plans the properties refer to.
LEMMA PlansOfTheJob ==
  ASSUME job \in Jobs
  PROVE  /\ \A n \in 0 .. NumLayers : PlanUpTo(n) = Planned(job, n, {})
         /\ JobPlan(job) = Planned(job, NumLayers, {})
         /\ \A lost : PlanWithout(lost) = Planned(job, NumLayers, lost)
<1>1. /\ job = [layers |-> job.layers, params |-> job.params]
      /\ job.layers \in Seq(Seq(Blocks)) /\ NumLayers \in Nat
      /\ DOMAIN job.layers = 1 .. NumLayers /\ NumLayers = Len(job.layers)
  BY JobsAssumption DEF NumLayers
<1>2. \A x : [job EXCEPT !.layers = x] = [layers |-> x, params |-> job.params]
  BY <1>1
<1> DEFINE none == {}
<1>3. \A l : l \notin none
  OBVIOUS
<1> HIDE DEF none
<1>4. ASSUME NEW n \in 0 .. NumLayers PROVE PlanUpTo(n) = Planned(job, n, none)
  <2> DEFINE layers == SubSeq(job.layers, 1, n)
  <2>1. DOMAIN layers = 1 .. n /\ \A l \in 1 .. n : layers[l] = job.layers[l]
    BY <1>1
  <2>2. PlanUpTo(n) = JobPlan([layers |-> layers, params |-> job.params])
    BY <1>2 DEF PlanUpTo
  <2> HIDE DEF layers
  <2>3. \A l \in 1 .. n : layers[l] = IF l \in none THEN << >> ELSE job.layers[l]
    BY <1>3, <2>1
  <2>4. n \in 0 .. Len(job.layers)
    BY <1>1
  <2>5. JobPlan([layers |-> layers, params |-> job.params]) = Planned(job, n, none)
    BY <2>1, <2>3, <2>4, JobPlanIs
  <2> QED
    BY <2>2, <2>5
<1>5. JobPlan(job) = Planned(job, NumLayers, none)
  <2>1. NumLayers \in 0 .. Len(job.layers)
    BY <1>1
  <2>2. \A l \in 1 .. NumLayers : job.layers[l] = IF l \in none THEN << >> ELSE job.layers[l]
    BY <1>3
  <2>3. JobPlan([layers |-> job.layers, params |-> job.params]) = Planned(job, NumLayers, none)
    BY <1>1, <2>1, <2>2, JobPlanIs
  <2> QED
    BY <1>1, <2>3
<1>6. ASSUME NEW lost PROVE PlanWithout(lost) = Planned(job, NumLayers, lost)
  <2> DEFINE layers == [l \in DOMAIN job.layers |-> IF l \in lost THEN << >> ELSE job.layers[l]]
  <2>1. /\ DOMAIN layers = 1 .. NumLayers
        /\ \A l \in 1 .. NumLayers : layers[l] = IF l \in lost THEN << >> ELSE job.layers[l]
    BY <1>1
  <2>2. PlanWithout(lost) = JobPlan([layers |-> layers, params |-> job.params])
    BY <1>2 DEF PlanWithout
  <2> HIDE DEF layers
  <2>3. NumLayers \in 0 .. Len(job.layers)
    BY <1>1
  <2>4. JobPlan([layers |-> layers, params |-> job.params]) = Planned(job, NumLayers, lost)
    BY <2>1, <2>3, JobPlanIs
  <2> QED
    BY <2>2, <2>4
<1> QED
  BY <1>4, <1>5, <1>6 DEF none
-----------------------------------------------------------------------------
(* A list that holds a layer, and the scanner in the middle of it.         *)

\* The first blocks of a layer are translated into the first commands of a list;
\* block b ends at place at[b].
Translated(j, list, layer, n, at) ==
  /\ at \in [0 .. n -> Nat] /\ at[0] = 0
  /\ \A b \in 0 .. n : at[b] <= at[n]
  /\ \A b \in 1 .. n :
       /\ layer[b].key \in DOMAIN j.params
       /\ at[b] = at[b - 1] + MoveCount(layer[b]) + 3
       /\ \E garbage \in GarbageReads(Int) :
            \A m \in 1 .. MoveCount(layer[b]) + 3 :
              list[at[b - 1] + m] =
                processVectorBlock(layer[b], j.params[layer[b].key], garbage)[m]

\* All of the layer, and the end of the list behind it.
Holds(j, list, layer, at) ==
  /\ Translated(j, list, layer, Len(layer), at)
  /\ at[Len(layer)] + 1 \in 1 .. Len(list)
  /\ list[at[Len(layer)] + 1] = EndOfList

\* The exposures are n in number and draw the first n lines of a plan.
Follows(exp, plan, n) ==
  Len(exp) = n /\ \A m \in 1 .. n : Draws(exp[m], plan[m])

\* What is planned before block b + 1 of layer l.
PlannedBefore(j, l, lost, b) == Planned(j, l - 1, lost) \o LayerPart(j, j.layers[l], b)

\* b blocks of layer l are exposed, and k commands of the next one carried out.
Underway(j, l, lost, b, k, r, exp) ==
  LET layer == j.layers[l]
      before == PlannedBefore(j, l, lost, b)
  IN  \/ k = 0 /\ Follows(exp, before, Len(before))
      \/ /\ b < Len(layer) /\ k \in 1 .. MoveCount(layer[b + 1]) + 2
         /\ Progress(layer[b + 1], j.params[layer[b + 1].key], k, r)
         /\ Follows(exp, before \o BlockPlanOf(j, layer[b + 1]),
                    Len(before) + LinesDone(layer[b + 1], k))

\* Place pos of the list is where the scanner is in the layer.
Reached(j, l, lost, at, pos, r, exp) ==
  \E b \in 0 .. Len(j.layers[l]), k \in Nat :
    pos = at[b] + k + 1 /\ Underway(j, l, lost, b, k, r, exp)

\* The scanner exposes layer l from a list, and is at place pos of it.
Exposing(j, l, refused, list, pos, r, exp) ==
  \E lost \in SUBSET (1 .. l - 1) :
    /\ Cardinality(lost) = refused
    /\ \E at : Holds(j, list, j.layers[l], at) /\ Reached(j, l, lost, at, pos, r, exp)

\* The board is idle after layer l.
ExposedTo(j, l, refused, exp) ==
  \E lost \in SUBSET (1 .. l) :
    /\ Cardinality(lost) = refused
    /\ Follows(exp, Planned(j, l, lost), Len(Planned(j, l, lost)))

\* No command of a block ends a list.
LEMMA NoEndInABlock ==
  ASSUME NEW blk \in Blocks, NEW par \in Params, NEW garbage \in GarbageReads(Int),
         NEW k \in 1 .. MoveCount(blk) + 3
  PROVE  processVectorBlock(blk, par, garbage)[k] # EndOfList
<1> DEFINE C == processVectorBlock(blk, par, garbage)
<1>1. /\ MoveCount(blk) \in Nat
      /\ C[1] = addSetMarkSpeed(par.speed)
      /\ C[2] = addSetFocusOffset(mmToBits(par.focus))
      /\ C[3] = addSetLaserPower(1, powerToDAC(par.power))
      /\ \A m \in 1 .. MoveCount(blk) :
           C[m + 3].op = IF IsMark(blk, m) THEN "mark_abs" ELSE "jump_abs"
  BY BlockCommands
<1> HIDE DEF C
<1>2. CASE k <= 3
  BY <1>1, <1>2 DEF C, EndOfList, addSetMarkSpeed, addSetFocusOffset, addSetLaserPower
<1>3. CASE k > 3
  <2>1. k - 3 \in 1 .. MoveCount(blk) /\ (k - 3) + 3 = k
    BY <1>1, <1>3
  <2>2. C[k].op = "mark_abs" \/ C[k].op = "jump_abs"
    BY <1>1, <2>1
  <2> QED
    BY <2>2 DEF C, EndOfList
<1> QED
  BY <1>1, <1>2, <1>3

\* c is command k of a block, whatever was read behind its points.
IsCommand(c, blk, par, k) ==
  \E garbage \in GarbageReads(Int) : c = processVectorBlock(blk, par, garbage)[k]

\* The block at which the scanner is, and its next command.
LEMMA CurrentBlock ==
  ASSUME NEW j \in Jobs, NEW layer \in Seq(Blocks), NEW list, NEW at,
         Holds(j, list, layer, at), NEW b \in 0 .. Len(layer) - 1,
         NEW k \in Nat, k <= MoveCount(layer[b + 1]) + 2
  PROVE  /\ layer[b + 1] \in Blocks /\ layer[b + 1].key \in DOMAIN j.params
         /\ j.params[layer[b + 1].key] \in Params
         /\ MoveCount(layer[b + 1]) \in Nat
         /\ at[b] \in Nat /\ at[b + 1] = at[b] + MoveCount(layer[b + 1]) + 3
         /\ IsCommand(list[at[b] + k + 1], layer[b + 1], j.params[layer[b + 1].key], k + 1)
<1>1. b + 1 \in 1 .. Len(layer) /\ b \in 0 .. Len(layer) /\ (b + 1) - 1 = b /\ b \in Nat
  OBVIOUS
<1>2. layer[b + 1] \in Blocks
  BY <1>1
<1>3. MoveCount(layer[b + 1]) \in Nat
  BY <1>2, LinesInAll
<1>4. Translated(j, list, layer, Len(layer), at)
  BY DEF Holds
<1>5. layer[b + 1].key \in DOMAIN j.params
  BY <1>1, <1>4 DEF Translated
<1>6. at[b] \in Nat
  BY <1>1, <1>4 DEF Translated
<1>7. at[b + 1] = at[b] + MoveCount(layer[b + 1]) + 3
  BY <1>1, <1>4 DEF Translated
<1>8. PICK garbage \in GarbageReads(Int) :
        \A m \in 1 .. MoveCount(layer[b + 1]) + 3 :
          list[at[b] + m] =
            processVectorBlock(layer[b + 1], j.params[layer[b + 1].key], garbage)[m]
  BY <1>1, <1>4 DEF Translated
<1>9. k + 1 \in 1 .. MoveCount(layer[b + 1]) + 3 /\ at[b] + (k + 1) = at[b] + k + 1
  BY <1>3, <1>6
<1>10. j.params[layer[b + 1].key] \in Params
  BY <1>5, JobTypes
<1>11. IsCommand(list[at[b] + k + 1], layer[b + 1], j.params[layer[b + 1].key], k + 1)
  <2>1. list[at[b] + (k + 1)] =
          processVectorBlock(layer[b + 1], j.params[layer[b + 1].key], garbage)[k + 1]
    BY ONLY <1>8, <1>9
  <2> QED
    BY ONLY <1>9, <2>1 DEF IsCommand
<1> QED
  BY ONLY <1>2, <1>3, <1>5, <1>6, <1>7, <1>10, <1>11

\* What is planned before a block, after it, and before the first one.
LEMMA PlannedBeforeStep ==
  ASSUME NEW j \in Jobs, NEW l \in 1 .. Len(j.layers), NEW lost
  PROVE  /\ \A b \in 0 .. Len(j.layers[l]) : PlannedBefore(j, l, lost, b) \in Seq(Items)
         /\ PlannedBefore(j, l, lost, 0) = Planned(j, l - 1, lost)
         /\ \A b \in 0 .. Len(j.layers[l]) - 1 :
              PlannedBefore(j, l, lost, b + 1) =
                PlannedBefore(j, l, lost, b) \o BlockPlanOf(j, j.layers[l][b + 1])
         /\ l \notin lost =>
              PlannedBefore(j, l, lost, Len(j.layers[l])) = Planned(j, l, lost)
<1> DEFINE layer == j.layers[l]
           P == Planned(j, l - 1, lost)
<1>1. layer \in Seq(Blocks) /\ Len(j.layers) \in Nat
  BY JobTypes
<1>2. l - 1 \in 0 .. Len(j.layers) /\ l - 1 < Len(j.layers) /\ (l - 1) + 1 = l
  BY <1>1
<1>3. P \in Seq(Items)
  BY <1>2, PlannedStep
<1> HIDE DEF layer, P
<1>4. ASSUME NEW b \in 0 .. Len(layer) PROVE P \o LayerPart(j, layer, b) \in Seq(Items)
  <2>1. LayerPart(j, layer, b) \in Seq(Items)
    BY <1>1, LayerPartStep
  <2> QED
    BY <1>3, <2>1
<1>5. P \o LayerPart(j, layer, 0) = P
  <2>1. LayerPart(j, layer, 0) = << >>
    BY <1>1, LayerPartStep
  <2> QED
    BY <1>3, <2>1
<1>6. ASSUME NEW b \in 0 .. Len(layer) - 1
      PROVE  P \o LayerPart(j, layer, b + 1) =
               (P \o LayerPart(j, layer, b)) \o BlockPlanOf(j, layer[b + 1])
  <2>1. b \in 0 .. Len(layer) /\ b + 1 \in 1 .. Len(layer)
    BY <1>1
  <2>2. LayerPart(j, layer, b) \in Seq(Items)
    BY <1>1, <2>1, LayerPartStep
  <2>3. LayerPart(j, layer, b + 1) = LayerPart(j, layer, b) \o BlockPlanOf(j, layer[b + 1])
    BY <1>1, LayerPartStep
  <2>4. BlockPlanOf(j, layer[b + 1]) \in Seq(Items)
    <3>1. layer[b + 1] \in Blocks
      BY <1>1, <2>1
    <3> QED
      BY <3>1, BlockPlanType
  <2> DEFINE t == LayerPart(j, layer, b)
             u == BlockPlanOf(j, layer[b + 1])
  <2> HIDE DEF t, u
  <2>5. P \in Seq(Items) /\ t \in Seq(Items) /\ u \in Seq(Items)
    BY <1>3, <2>2, <2>4 DEF t, u
  <2>6. (P \o t) \o u = P \o (t \o u)
    BY ONLY <2>5
  <2> QED
    BY <2>3, <2>6 DEF t, u
<1>7. ASSUME l \notin lost PROVE P \o LayerPart(j, layer, Len(layer)) = Planned(j, l, lost)
  <2>1. Planned(j, (l - 1) + 1, lost) =
          Planned(j, l - 1, lost) \o
            IF (l - 1) + 1 \in lost THEN << >>
            ELSE LayerPart(j, j.layers[(l - 1) + 1], Len(j.layers[(l - 1) + 1]))
    BY <1>2, PlannedStep
  <2> QED
    BY <1>2, <1>7, <2>1 DEF P, layer
<1> QED
  BY <1>4, <1>5, <1>6, <1>7 DEF PlannedBefore, P, layer

\* What follows a plan follows every longer one.
LEMMA FollowsLonger ==
  ASSUME NEW exp, NEW plan \in Seq(Items), NEW more \in Seq(Items), NEW n \in Nat,
         n <= Len(plan), Follows(exp, plan, n)
  PROVE  Follows(exp, plan \o more, n)
<1> DEFINE u == plan \o more
<1>1. \A m \in 1 .. Len(plan) : u[m] = plan[m]
  BY Joined
<1> HIDE DEF u
<1>2. Follows(exp, u, n)
  BY <1>1 DEF Follows
<1> QED
  BY <1>2 DEF u

\* One command of a block: what is exposed still follows the plan.
LEMMA FollowsStep ==
  ASSUME NEW blk \in Blocks, NEW par \in Params, WellFormed(blk),
         NEW garbage \in GarbageReads(Int), NEW k \in Nat, k < MoveCount(blk) + 3,
         NEW r \in Registers, Progress(blk, par, k, r),
         NEW before \in Seq(Items), NEW exp \in Seq(Exposures),
         Follows(exp, before \o BlockPlan(blk, par), Len(before) + LinesDone(blk, k))
  PROVE  LET c == processVectorBlock(blk, par, garbage)[k + 1]
         IN  /\ Progress(blk, par, k + 1, RegistersAfter(r, c))
             /\ Follows(ExposedAfter(exp, r, c), before \o BlockPlan(blk, par),
                        Len(before) + LinesDone(blk, k + 1))
<1> DEFINE c == processVectorBlock(blk, par, garbage)[k + 1]
           plan == before \o BlockPlan(blk, par)
           d == LinesDone(blk, k + 1)
           e == Exposure(r, c)
<1>1. /\ Progress(blk, par, k + 1, RegistersAfter(r, c))
      /\ c.op = "mark_abs" =>
           /\ d = LinesDone(blk, k) + 1
           /\ d <= LineCount(blk) => Draws(e, BlockPlan(blk, par)[d])
      /\ c.op # "mark_abs" => d = LinesDone(blk, k)
  BY ProgressStep
<1>2. /\ MoveCount(blk) \in Nat /\ LinesDone(blk, k) \in Nat
      /\ d \in Nat /\ d <= LineCount(blk)
  <2>1. MoveCount(blk) \in Nat
    BY LinesInAll
  <2>2. k \in 0 .. MoveCount(blk) + 3 /\ k + 1 \in 0 .. MoveCount(blk) + 3
    BY <2>1
  <2> QED
    BY <2>1, <2>2, LinesInAll
<1>3. BlockPlan(blk, par) \in Seq(Items) /\ Len(BlockPlan(blk, par)) = LineCount(blk)
  BY PlanOfBlock
<1>4. \A n \in 1 .. Len(BlockPlan(blk, par)) : plan[n + Len(before)] = BlockPlan(blk, par)[n]
  BY <1>3, Joined
<1> HIDE DEF c, plan, d, e
<1>5. /\ Len(before) \in Nat /\ Len(exp) = Len(before) + LinesDone(blk, k)
      /\ \A m \in 1 .. Len(exp) : Draws(exp[m], plan[m])
  <2>1. Follows(exp, plan, Len(before) + LinesDone(blk, k))
    BY DEF plan
  <2>2. Len(before) \in Nat
    OBVIOUS
  <2>3. Len(exp) = Len(before) + LinesDone(blk, k)
    BY <2>1 DEF Follows
  <2> QED
    BY <2>1, <2>2, <2>3 DEF Follows
<1>6. CASE c.op = "mark_abs"
  <2>1. ExposedAfter(exp, r, c) = Append(exp, e)
    BY <1>6 DEF ExposedAfter, e
  <2>2. d = LinesDone(blk, k) + 1 /\ Draws(e, BlockPlan(blk, par)[d])
    BY <1>1, <1>2, <1>6
  <2>3. Len(exp) + 1 = Len(before) + d /\ Len(exp) \in Nat
    BY <1>2, <1>5, <2>2
  <2>4. d \in 1 .. Len(BlockPlan(blk, par))
    BY <1>2, <1>3, <2>2
  <2>5. plan[Len(exp) + 1] = BlockPlan(blk, par)[d]
    <3>1. d + Len(before) = Len(exp) + 1
      BY <1>2, <1>5, <2>3
    <3> QED
      BY <1>4, <2>4, <3>1
  <2>6. ASSUME NEW m \in 1 .. Len(before) + d PROVE Draws(Append(exp, e)[m], plan[m])
    <3>1. CASE m = Len(exp) + 1
      <4>1. Append(exp, e)[m] = e
        BY <3>1
      <4> QED
        BY <2>2, <2>5, <3>1, <4>1
    <3>2. CASE m # Len(exp) + 1
      <4>1. m \in 1 .. Len(exp)
        BY <2>3, <3>2
      <4>2. Append(exp, e)[m] = exp[m]
        BY <4>1
      <4> QED
        BY <1>5, <4>1, <4>2
    <3> QED
      BY <3>1, <3>2
  <2>7. Len(Append(exp, e)) = Len(before) + d
    BY <2>3
  <2>8. Follows(Append(exp, e), plan, Len(before) + d)
    BY <2>6, <2>7 DEF Follows
  <2> QED
    BY <1>1, <2>1, <2>8 DEF c, plan, d
<1>7. CASE c.op # "mark_abs"
  <2>1. ExposedAfter(exp, r, c) = exp /\ d = LinesDone(blk, k)
    BY <1>1, <1>7 DEF ExposedAfter
  <2> QED
    BY <1>1, <2>1 DEF c, plan, d
<1> QED
  BY <1>6, <1>7

\* The scanner carries out one more command of the list.
LEMMA ExposingStep ==
  ASSUME NEW j \in Jobs, NEW l \in 1 .. Len(j.layers),
         \A b \in DOMAIN j.layers[l] : WellFormed(j.layers[l][b]),
         NEW refused, NEW list, NEW pos, list[pos] # EndOfList,
         NEW r \in Registers, NEW exp \in Seq(Exposures),
         Exposing(j, l, refused, list, pos, r, exp)
  PROVE  Exposing(j, l, refused, list, pos + 1, RegistersAfter(r, list[pos]),
                  ExposedAfter(exp, r, list[pos]))
<1> DEFINE layer == j.layers[l]
           N == Len(layer)
<1>1. layer \in Seq(Blocks) /\ N \in Nat
  BY JobTypes
<1>s. PICK lost \in SUBSET (1 .. l - 1) :
        /\ Cardinality(lost) = refused
        /\ \E at : Holds(j, list, layer, at) /\ Reached(j, l, lost, at, pos, r, exp)
  BY DEF Exposing
<1>0. PICK at :
        /\ Cardinality(lost) = refused /\ Holds(j, list, layer, at)
        /\ Reached(j, l, lost, at, pos, r, exp)
  BY <1>s
<1>2. PICK b \in 0 .. N, k \in Nat :
        /\ Cardinality(lost) = refused /\ Holds(j, list, layer, at) /\ pos = at[b] + k + 1
        /\ Underway(j, l, lost, b, k, r, exp)
  BY <1>0 DEF Reached
<1>3. b < N
  <2> SUFFICES ASSUME b = N PROVE FALSE
    BY <1>1
  <2>1. k = 0 /\ at[N] \in Nat
    <3>1. N \in 0 .. N
      BY <1>1
    <3> QED
      BY <1>1, <1>2, <3>1 DEF Underway, Holds, Translated
  <2>2. pos = at[N] + 1
    BY <1>2, <2>1
  <2> QED
    BY <1>2, <2>2 DEF Holds
<1>4. b \in 0 .. N - 1 /\ b \in 0 .. N /\ b + 1 \in 0 .. N /\ b + 1 \in DOMAIN layer
  BY <1>1, <1>3
<1> DEFINE blk == layer[b + 1]
           par == j.params[blk.key]
           before == PlannedBefore(j, l, lost, b)
           c == list[pos]
           s == RegistersAfter(r, c)
           new == ExposedAfter(exp, r, c)
<1>5. blk \in Blocks /\ MoveCount(blk) \in Nat
  <2>1. blk \in Blocks
    BY <1>1, <1>4
  <2> QED
    BY <2>1, LinesInAll
<1>6. k <= MoveCount(blk) + 2
  BY <1>2, <1>5 DEF Underway
<1>7. /\ blk.key \in DOMAIN j.params /\ par \in Params
      /\ at[b] \in Nat /\ at[b + 1] = at[b] + MoveCount(blk) + 3
  <2> HIDE DEF layer
  <2> QED
    BY ONLY <1>1, <1>2, <1>4, <1>6, CurrentBlock
<1>8. PICK garbage \in GarbageReads(Int) :
        list[at[b] + k + 1] = processVectorBlock(blk, par, garbage)[k + 1]
  <2> HIDE DEF layer
  <2>1. IsCommand(list[at[b] + k + 1], blk, par, k + 1)
    BY ONLY <1>1, <1>2, <1>4, <1>6, CurrentBlock
  <2> QED
    BY <2>1 DEF IsCommand
<1>9. before \in Seq(Items)
  BY <1>4, PlannedBeforeStep
<1>10. BlockPlanOf(j, blk) = BlockPlan(blk, par)
  BY <1>7 DEF BlockPlanOf
<1>11. WellFormed(blk)
  BY <1>4
<1>12. BlockPlan(blk, par) \in Seq(Items) /\ Len(BlockPlan(blk, par)) = LineCount(blk)
  BY <1>5, <1>7, PlanOfBlock
<1>13. Progress(blk, par, k, r)
       /\ Follows(exp, before \o BlockPlan(blk, par), Len(before) + LinesDone(blk, k))
  <2>1. CASE k = 0
    <3>1. Progress(blk, par, k, r)
      BY <2>1 DEF Progress
    <3>2. Follows(exp, before, Len(before))
      BY <1>2, <2>1 DEF Underway
    <3>3. Len(before) \in Nat /\ LinesDone(blk, k) = 0
      BY <1>5, <1>9, <2>1, LinesInAll
    <3>4. Follows(exp, before \o BlockPlan(blk, par), Len(before))
      BY <1>9, <1>12, <3>2, <3>3, FollowsLonger
    <3>5. Len(before) + LinesDone(blk, k) = Len(before)
      BY <3>3
    <3> QED
      BY <3>1, <3>4, <3>5
  <2>2. CASE k # 0
    BY <1>2, <1>10, <2>2 DEF Underway
  <2> QED
    BY <2>1, <2>2
<1>14. c = processVectorBlock(blk, par, garbage)[k + 1]
  BY <1>2, <1>8
<1> HIDE DEF blk, par, before, c, s, new
<1>15. k < MoveCount(blk) + 3
  BY <1>5, <1>6
<1>16. /\ Progress(blk, par, k + 1, RegistersAfter(r, c))
       /\ Follows(ExposedAfter(exp, r, c), before \o BlockPlan(blk, par),
                  Len(before) + LinesDone(blk, k + 1))
  BY <1>5, <1>7, <1>8, <1>9, <1>11, <1>13, <1>14, <1>15, FollowsStep
<1>17. CASE k + 1 < MoveCount(blk) + 3
  <2>1. k + 1 \in 1 .. MoveCount(blk) + 2 /\ k + 1 \in Nat /\ pos + 1 = at[b] + (k + 1) + 1
    <3>1. pos = at[b] + k + 1 /\ at[b] \in Nat
      BY <1>2, <1>7
    <3> QED
      BY ONLY <1>5, <1>17, <3>1
  <2>2. Underway(j, l, lost, b, k + 1, s, new)
    BY <1>3, <1>10, <1>16, <2>1 DEF Underway, blk, par, before, s, new
  <2>3. Reached(j, l, lost, at, pos + 1, s, new)
    BY <2>1, <2>2 DEF Reached
  <2>4. Exposing(j, l, refused, list, pos + 1, s, new)
    BY <1>2, <2>3 DEF Exposing
  <2> QED
    BY <2>4 DEF s, new, c
<1>18. CASE k + 1 = MoveCount(blk) + 3
  <2>1. pos + 1 = at[b + 1] + 0 + 1
    <3> DEFINE m == MoveCount(blk)
               x == at[b]
               y == at[b + 1]
    <3>1. m \in Nat /\ x \in Nat /\ y = x + m + 3
      BY ONLY <1>5, <1>7
    <3>2. k \in Nat /\ pos = x + k + 1 /\ k + 1 = m + 3
      BY ONLY <1>2, <1>18
    <3> HIDE DEF m, x, y
    <3>3. pos + 1 = y + 0 + 1
      BY ONLY <3>1, <3>2
    <3> QED
      BY ONLY <3>3 DEF y
  <2> DEFINE after == PlannedBefore(j, l, lost, b + 1)
  <2>2. after = before \o BlockPlan(blk, par)
    <3>1. PlannedBefore(j, l, lost, b + 1) =
            PlannedBefore(j, l, lost, b) \o BlockPlanOf(j, j.layers[l][b + 1])
      BY <1>4, PlannedBeforeStep
    <3> QED
      BY <1>10, <3>1 DEF before, blk
  <2>3. LinesDone(blk, k + 1) = LineCount(blk)
    BY <1>5, <1>11, <1>18, LinesInAll
  <2>4. Len(after) = Len(before) + LinesDone(blk, k + 1)
    <3>1. Len(before \o BlockPlan(blk, par)) = Len(before) + Len(BlockPlan(blk, par))
      BY ONLY <1>9, <1>12, Joined
    <3> QED
      BY <1>12, <2>2, <2>3, <3>1
  <2>5. Follows(new, after, Len(after))
    BY <1>16, <2>2, <2>4 DEF new
  <2>6. Underway(j, l, lost, b + 1, 0, s, new)
    BY <2>5 DEF Underway
  <2>7. Reached(j, l, lost, at, pos + 1, s, new)
    <3>1. 0 \in Nat
      OBVIOUS
    <3> QED
      BY <1>4, <2>1, <2>6, <3>1 DEF Reached
  <2>8. Exposing(j, l, refused, list, pos + 1, s, new)
    BY <1>2, <2>7 DEF Exposing
  <2> QED
    BY <2>8 DEF s, new, c
<1> QED
  BY <1>5, <1>15, <1>17, <1>18

\* At the end of the list the layer is exposed in full.
LEMMA ExposingEnd ==
  ASSUME NEW j \in Jobs, NEW l \in 1 .. Len(j.layers), NEW refused, NEW list, NEW pos,
         list[pos] = EndOfList, NEW r, NEW exp, Exposing(j, l, refused, list, pos, r, exp)
  PROVE  ExposedTo(j, l, refused, exp)
<1> DEFINE layer == j.layers[l]
           N == Len(layer)
<1>1. layer \in Seq(Blocks) /\ N \in Nat /\ Len(j.layers) \in Nat /\ l \in Nat
  BY JobTypes
<1>s. PICK lost \in SUBSET (1 .. l - 1) :
        /\ Cardinality(lost) = refused
        /\ \E at : Holds(j, list, layer, at) /\ Reached(j, l, lost, at, pos, r, exp)
  BY DEF Exposing
<1>0. PICK at :
        /\ Cardinality(lost) = refused /\ Holds(j, list, layer, at)
        /\ Reached(j, l, lost, at, pos, r, exp)
  BY <1>s
<1>2. PICK b \in 0 .. N, k \in Nat :
        /\ Cardinality(lost) = refused /\ Holds(j, list, layer, at) /\ pos = at[b] + k + 1
        /\ Underway(j, l, lost, b, k, r, exp)
  BY <1>0 DEF Reached
<1>3. b = N
  <2> SUFFICES ASSUME b # N PROVE FALSE
    OBVIOUS
  <2> DEFINE blk == layer[b + 1]
             par == j.params[blk.key]
  <2>1. b \in 0 .. N - 1 /\ b + 1 \in DOMAIN layer
    BY <1>1
  <2>2. blk \in Blocks /\ MoveCount(blk) \in Nat
    <3>1. blk \in Blocks
      BY <1>1, <2>1
    <3> QED
      BY <3>1, LinesInAll
  <2>3. k <= MoveCount(blk) + 2
    BY <1>2, <2>2 DEF Underway
  <2>4. par \in Params
    BY <1>1, <1>2, <2>1, <2>3, CurrentBlock
  <2>5. PICK garbage \in GarbageReads(Int) :
          list[at[b] + k + 1] = processVectorBlock(blk, par, garbage)[k + 1]
    <3> HIDE DEF layer
    <3>1. IsCommand(list[at[b] + k + 1], blk, par, k + 1)
      BY ONLY <1>1, <1>2, <2>1, <2>3, CurrentBlock
    <3> QED
      BY <3>1 DEF IsCommand
  <2>6. k + 1 \in 1 .. MoveCount(blk) + 3
    BY <2>2, <2>3
  <2> QED
    BY <1>2, <2>2, <2>4, <2>5, <2>6, NoEndInABlock
<1>4. Follows(exp, PlannedBefore(j, l, lost, N), Len(PlannedBefore(j, l, lost, N)))
  BY <1>1, <1>2, <1>3 DEF Underway
<1>5. l \notin lost /\ lost \in SUBSET (1 .. l)
  BY <1>1, <1>2
<1>6. PlannedBefore(j, l, lost, N) = Planned(j, l, lost)
  BY <1>5, PlannedBeforeStep
<1> QED
  BY <1>2, <1>4, <1>5, <1>6 DEF ExposedTo

\* A list that is started begins the next layer.
LEMMA ExposingStarts ==
  ASSUME NEW j \in Jobs, NEW l \in 0 .. Len(j.layers) - 1, NEW refused, NEW exp,
         ExposedTo(j, l, refused, exp), NEW list, NEW at, Holds(j, list, j.layers[l + 1], at),
         NEW r
  PROVE  Exposing(j, l + 1, refused, list, 1, r, exp)
<1>1. Len(j.layers) \in Nat /\ l + 1 \in 1 .. Len(j.layers) /\ (l + 1) - 1 = l /\ l \in Nat
  BY JobTypes
<1>2. PICK lost \in SUBSET (1 .. l) :
        /\ Cardinality(lost) = refused
        /\ Follows(exp, Planned(j, l, lost), Len(Planned(j, l, lost)))
  BY DEF ExposedTo
<1>3. PlannedBefore(j, l + 1, lost, 0) = Planned(j, l, lost)
  BY <1>1, PlannedBeforeStep
<1>4. Underway(j, l + 1, lost, 0, 0, r, exp)
  BY <1>2, <1>3 DEF Underway
<1>5. at[0] = 0 /\ 1 = at[0] + 0 + 1
  BY DEF Holds, Translated
<1>6. j.layers[l + 1] \in Seq(Blocks) /\ 0 \in 0 .. Len(j.layers[l + 1]) /\ 0 \in Nat
  BY <1>1, JobTypes
<1>7. lost \in SUBSET (1 .. (l + 1) - 1)
  BY <1>1, <1>2
<1>8. Reached(j, l + 1, lost, at, 1, r, exp)
  BY <1>4, <1>5, <1>6 DEF Reached
<1> QED
  BY <1>2, <1>7, <1>8 DEF Exposing

\* A list that is refused loses the next layer.
LEMMA RefusedLosesLayer ==
  ASSUME NEW j \in Jobs, NEW l \in 0 .. Len(j.layers) - 1, NEW refused \in Nat, NEW exp,
         ExposedTo(j, l, refused, exp)
  PROVE  ExposedTo(j, l + 1, refused + 1, exp)
<1>1. Len(j.layers) \in Nat /\ l \in Nat /\ l \in 0 .. Len(j.layers) /\ l < Len(j.layers)
  BY JobTypes
<1>2. PICK lost \in SUBSET (1 .. l) :
        /\ Cardinality(lost) = refused
        /\ Follows(exp, Planned(j, l, lost), Len(Planned(j, l, lost)))
  BY DEF ExposedTo
<1> DEFINE more == lost \cup {l + 1}
<1>3. more \in SUBSET (1 .. l + 1) /\ l + 1 \notin lost
  BY <1>1
<1>4. Cardinality(more) = refused + 1
  <2>1. IsFiniteSet(1 .. l)
    BY <1>1, FS_Interval
  <2>2. IsFiniteSet(lost)
    BY <2>1, FS_Subset
  <2> QED
    BY <1>2, <1>3, <2>2, FS_AddElement
<1>5. (\A m \in 1 .. l : m \in more <=> m \in lost) /\ l + 1 \in more
  BY <1>1
<1> HIDE DEF more
<1>6. Planned(j, l + 1, more) = Planned(j, l, lost) \o << >> /\ Planned(j, l, lost) \in Seq(Items)
  BY <1>1, <1>5, PlannedStep
<1>7. Planned(j, l + 1, more) = Planned(j, l, lost)
  BY <1>6
<1> QED
  BY <1>2, <1>3, <1>4, <1>7 DEF ExposedTo
-----------------------------------------------------------------------------
(* A list that is being filled.                                            *)

\* What is stored in the list before place pos, and what is still to be added.
Prepared(list, pos, rest) ==
  [m \in 1 .. pos - 1 + Len(rest) |-> IF m < pos THEN list[m] ELSE rest[m - pos + 1]]

\* n blocks of the layer are translated; their commands are stored or still to be.
Filling(j, layer, n, list, pos, rest) ==
  /\ n <= Len(layer) /\ pos - 1 <= Len(list)
  /\ \E at : /\ Translated(j, Prepared(list, pos, rest), layer, n, at)
             /\ at[n] = pos - 1 + Len(rest)

\* What a list holds of a layer does not depend on what is behind it.
LEMMA TranslatedLonger ==
  ASSUME NEW j, NEW layer \in Seq(Blocks), NEW n \in 0 .. Len(layer), NEW at,
         NEW list, NEW more, Translated(j, list, layer, n, at),
         \A m \in 1 .. at[n] : more[m] = list[m]
  PROVE  Translated(j, more, layer, n, at)
<1>1. /\ at \in [0 .. n -> Nat] /\ at[0] = 0 /\ n \in Nat
      /\ \A b \in 0 .. n : at[b] <= at[n]
  BY DEF Translated
<1>2. ASSUME NEW b \in 1 .. n
      PROVE  /\ layer[b].key \in DOMAIN j.params
             /\ at[b] = at[b - 1] + MoveCount(layer[b]) + 3
             /\ \E garbage \in GarbageReads(Int) :
                  \A m \in 1 .. MoveCount(layer[b]) + 3 :
                    more[at[b - 1] + m] =
                      processVectorBlock(layer[b], j.params[layer[b].key], garbage)[m]
  <2>1. /\ layer[b].key \in DOMAIN j.params
        /\ at[b] = at[b - 1] + MoveCount(layer[b]) + 3
    BY DEF Translated
  <2>2. PICK garbage \in GarbageReads(Int) :
          \A m \in 1 .. MoveCount(layer[b]) + 3 :
            list[at[b - 1] + m] =
              processVectorBlock(layer[b], j.params[layer[b].key], garbage)[m]
    BY DEF Translated
  <2>3. MoveCount(layer[b]) \in Nat
    <3>1. layer[b] \in Blocks
      OBVIOUS
    <3> QED
      BY <3>1, LinesInAll
  <2>4. at[b - 1] \in Nat /\ at[b] <= at[n] /\ at[n] \in Nat
    <3>1. b - 1 \in 0 .. n /\ b \in 0 .. n /\ n \in 0 .. n
      BY <1>1
    <3> QED
      BY <1>1, <3>1
  <2>5. ASSUME NEW m \in 1 .. MoveCount(layer[b]) + 3
        PROVE  more[at[b - 1] + m] = list[at[b - 1] + m]
    <3>1. at[b - 1] + m \in 1 .. at[n]
      BY <2>1, <2>3, <2>4
    <3> QED
      BY <3>1
  <2> QED
    BY <2>1, <2>2, <2>5
<1> QED
  BY <1>1, <1>2 DEF Translated

\* Nothing is translated when the list is opened.
LEMMA FillStarts ==
  ASSUME NEW j, NEW layer \in Seq(Blocks), NEW list \in Seq(Command)
  PROVE  Filling(j, layer, 0, list, 1, << >>)
<1> DEFINE at == [x \in 0 .. 0 |-> 0]
<1>1. at \in [0 .. 0 -> Nat] /\ at[0] = 0 /\ \A b \in 0 .. 0 : at[b] <= at[0]
  OBVIOUS
<1> HIDE DEF at
<1>2. Translated(j, Prepared(list, 1, << >>), layer, 0, at)
  BY <1>1 DEF Translated
<1>3. at[0] = 1 - 1 + Len(<< >>) /\ 0 <= Len(layer) /\ 1 - 1 <= Len(list)
  BY <1>1
<1> QED
  BY <1>2, <1>3 DEF Filling

\* One more block is translated.
LEMMA FillTranslates ==
  ASSUME NEW j \in Jobs, NEW layer \in Seq(Blocks), NEW n \in Nat, n < Len(layer),
         NEW list \in Seq(Command), NEW pos \in Nat \ {0},
         Filling(j, layer, n, list, pos, << >>),
         layer[n + 1].key \in DOMAIN j.params, NEW garbage \in GarbageReads(Int)
  PROVE  Filling(j, layer, n + 1, list, pos,
                 processVectorBlock(layer[n + 1], j.params[layer[n + 1].key], garbage))
<1> DEFINE blk == layer[n + 1]
           C == processVectorBlock(blk, j.params[blk.key], garbage)
           size == MoveCount(blk) + 3
           old == Prepared(list, pos, << >>)
           new == Prepared(list, pos, C)
<1>1. PICK at : Translated(j, old, layer, n, at) /\ at[n] = pos - 1 + Len(<< >>)
  BY DEF Filling
<1>2. n \in 0 .. Len(layer) /\ n + 1 \in 1 .. Len(layer) /\ n + 1 \in 0 .. n + 1
  OBVIOUS
<1>3. blk \in Blocks /\ j.params[blk.key] \in Params
  BY <1>2, JobTypes
<1>4. C \in Seq(Command) /\ Len(C) = size /\ MoveCount(blk) \in Nat /\ size \in Nat
  <2> HIDE DEF blk
  <2>1. C \in Seq(Command) /\ Len(C) = MoveCount(blk) + 3 /\ MoveCount(blk) \in Nat
    BY <1>3, BlockCommands
  <2> HIDE DEF C
  <2> QED
    BY <2>1
<1>5. at[n] = pos - 1 /\ at \in [0 .. n -> Nat] /\ pos - 1 \in Nat
  BY <1>1 DEF Translated
<1>6. new = [m \in 1 .. pos - 1 + size |-> IF m < pos THEN list[m] ELSE C[m - pos + 1]]
  BY <1>4 DEF Prepared
<1> HIDE DEF blk, C, size
<1>7. \A m \in 1 .. at[n] : new[m] = old[m]
  <2>1. Len(<< >>) = 0
    OBVIOUS
  <2>2. old = [m \in 1 .. pos - 1 |-> IF m < pos THEN list[m] ELSE << >>[m - pos + 1]]
    BY <1>5, <2>1 DEF Prepared
  <2> HIDE DEF old, new
  <2> QED
    BY <1>4, <1>5, <1>6, <2>2
<1>8. Translated(j, new, layer, n, at)
  BY <1>1, <1>2, <1>7, TranslatedLonger
<1>9. ASSUME NEW m \in 1 .. size PROVE new[at[n] + m] = C[m]
  <2> HIDE DEF new
  <2> DEFINE p == at[n] + m
  <2>1. p \in 1 .. pos - 1 + size /\ ~(p < pos) /\ p - pos + 1 = m
    BY <1>4, <1>5
  <2> HIDE DEF p
  <2>2. new[p] = C[p - pos + 1]
    BY <1>6, <2>1
  <2> QED
    BY <2>1, <2>2 DEF p
<1> HIDE DEF old, new
<1> DEFINE next == [b \in 0 .. n + 1 |-> IF b = n + 1 THEN at[n] + size ELSE at[b]]
<1>10. /\ next \in [0 .. n + 1 -> Nat] /\ next[n + 1] = at[n] + size
       /\ \A b \in 0 .. n : next[b] = at[b]
  BY <1>4, <1>5
<1> HIDE DEF next
<1>11. at[0] = 0 /\ \A b \in 0 .. n : at[b] <= at[n] /\ at[b] \in Nat
  BY <1>5, <1>8 DEF Translated
<1>12. next[0] = 0 /\ \A b \in 0 .. n + 1 : next[b] <= next[n + 1]
  <2>1. 0 \in 0 .. n
    OBVIOUS
  <2>2. ASSUME NEW b \in 0 .. n + 1 PROVE next[b] <= next[n + 1]
    <3>1. CASE b \in 0 .. n
      BY <1>4, <1>5, <1>10, <1>11, <3>1
    <3>2. CASE b = n + 1
      BY <1>4, <1>5, <1>10, <3>2
    <3> QED
      BY <3>1, <3>2
  <2> QED
    BY <1>10, <1>11, <2>1, <2>2
<1>13. ASSUME NEW b \in 1 .. n + 1
       PROVE  /\ layer[b].key \in DOMAIN j.params
              /\ next[b] = next[b - 1] + MoveCount(layer[b]) + 3
              /\ \E g \in GarbageReads(Int) :
                   \A m \in 1 .. MoveCount(layer[b]) + 3 :
                     new[next[b - 1] + m] =
                       processVectorBlock(layer[b], j.params[layer[b].key], g)[m]
  <2>1. CASE b = n + 1
    <3>1. layer[b] = blk /\ next[b - 1] = at[n] /\ next[b] = at[n] + size
      BY <1>10, <2>1 DEF blk
    <3>2. next[b] = next[b - 1] + MoveCount(layer[b]) + 3
      BY <1>4, <1>5, <3>1 DEF size
    <3>3. \A m \in 1 .. MoveCount(layer[b]) + 3 :
            new[next[b - 1] + m] =
              processVectorBlock(layer[b], j.params[layer[b].key], garbage)[m]
      BY <1>9, <3>1 DEF size, C
    <3> QED
      BY <2>1, <3>2, <3>3
  <2>2. CASE b # n + 1
    <3>1. b \in 1 .. n /\ b \in 0 .. n /\ b - 1 \in 0 .. n
      BY <2>2
    <3>2. next[b] = at[b] /\ next[b - 1] = at[b - 1]
      BY <1>10, <3>1
    <3>3. /\ layer[b].key \in DOMAIN j.params
          /\ at[b] = at[b - 1] + MoveCount(layer[b]) + 3
      BY <1>8, <3>1 DEF Translated
    <3>4. PICK g \in GarbageReads(Int) :
            \A m \in 1 .. MoveCount(layer[b]) + 3 :
              new[at[b - 1] + m] =
                processVectorBlock(layer[b], j.params[layer[b].key], g)[m]
      BY <1>8, <3>1 DEF Translated
    <3> QED
      BY <3>2, <3>3, <3>4
  <2> QED
    BY <2>1, <2>2
<1>14. Translated(j, new, layer, n + 1, next)
  BY <1>10, <1>12, <1>13 DEF Translated
<1>15. next[n + 1] = pos - 1 + Len(C) /\ n + 1 <= Len(layer) /\ pos - 1 <= Len(list)
  BY <1>4, <1>5, <1>10 DEF Filling
<1> QED
  BY <1>14, <1>15 DEF Filling, new, C, blk

\* Where a command is stored.
LEMMA StoredAt ==
  ASSUME NEW list \in Seq(Command), NEW pos \in Nat \ {0}, pos - 1 <= Len(list),
         NEW c \in Command
  PROVE  /\ Len(Stored(list, pos, c)) \in Nat /\ pos <= Len(Stored(list, pos, c))
         /\ Stored(list, pos, c)[pos] = c
         /\ \A m \in 1 .. pos - 1 : Stored(list, pos, c)[m] = list[m]
<1>1. CASE pos \in 1 .. Len(list)
  <2>1. Stored(list, pos, c) = [list EXCEPT ![pos] = c]
    BY <1>1 DEF Stored
  <2> QED
    BY <1>1, <2>1
<1>2. CASE pos \notin 1 .. Len(list)
  <2>1. Stored(list, pos, c) = Append(list, c) /\ pos = Len(list) + 1
    BY <1>2 DEF Stored
  <2> QED
    BY <2>1
<1> QED
  BY <1>1, <1>2

\* One more command is stored.
LEMMA FillStores ==
  ASSUME NEW j, NEW layer, NEW n, NEW list \in Seq(Command), NEW pos \in Nat \ {0},
         NEW rest \in Seq(Command), rest # << >>, Filling(j, layer, n, list, pos, rest)
  PROVE  Filling(j, layer, n, Stored(list, pos, Head(rest)), pos + 1, Tail(rest))
<1> DEFINE new == Stored(list, pos, Head(rest))
           tail == Tail(rest)
<1>1. PICK at : /\ Translated(j, Prepared(list, pos, rest), layer, n, at)
                /\ at[n] = pos - 1 + Len(rest)
  BY DEF Filling
<1>2. n <= Len(layer) /\ pos - 1 <= Len(list)
  BY DEF Filling
<1>3. /\ Head(rest) = rest[1] /\ Head(rest) \in Command /\ Len(rest) \in Nat
      /\ Len(tail) = Len(rest) - 1 /\ \A m \in 1 .. Len(tail) : tail[m] = rest[m + 1]
  OBVIOUS
<1>4. /\ Len(new) \in Nat /\ pos <= Len(new) /\ new[pos] = rest[1]
      /\ \A m \in 1 .. pos - 1 : new[m] = list[m]
  BY <1>2, <1>3, StoredAt
<1> HIDE DEF new, tail
<1>5. (pos + 1) - 1 + Len(tail) = pos - 1 + Len(rest)
  BY <1>3
<1>6. Prepared(new, pos + 1, tail) = Prepared(list, pos, rest)
  <2>1. ASSUME NEW m \in 1 .. pos - 1 + Len(rest)
        PROVE  (IF m < pos + 1 THEN new[m] ELSE tail[m - (pos + 1) + 1]) =
                 IF m < pos THEN list[m] ELSE rest[m - pos + 1]
    <3>1. CASE m < pos
      <4>1. m \in 1 .. pos - 1 /\ m < pos + 1
        BY <1>3, <3>1
      <4> QED
        BY <1>4, <3>1, <4>1
    <3>2. CASE m = pos
      BY <1>4, <3>2
    <3>3. CASE m > pos
      <4>1. m - (pos + 1) + 1 \in 1 .. Len(tail)
        BY <1>3, <3>3
      <4>2. m - (pos + 1) + 1 + 1 = m - pos + 1
        BY <1>3
      <4>3. tail[m - (pos + 1) + 1] = rest[m - pos + 1]
        BY <1>3, <4>1, <4>2
      <4> QED
        BY <3>3, <4>3
    <3> QED
      BY <1>3, <3>1, <3>2, <3>3
  <2> QED
    BY <1>5, <2>1 DEF Prepared
<1>7. (pos + 1) - 1 <= Len(new)
  BY <1>4
<1> QED
  BY <1>1, <1>2, <1>5, <1>6, <1>7 DEF Filling, new, tail

\* The list is closed behind the last block.
LEMMA FillEnds ==
  ASSUME NEW j, NEW layer \in Seq(Blocks), NEW list \in Seq(Command),
         NEW pos \in Nat \ {0}, Filling(j, layer, Len(layer), list, pos, << >>)
  PROVE  \E at : Holds(j, Stored(list, pos, EndOfList), layer, at)
<1> DEFINE N == Len(layer)
           new == Stored(list, pos, EndOfList)
           old == Prepared(list, pos, << >>)
<1>1. PICK at : Translated(j, old, layer, N, at) /\ at[N] = pos - 1 + Len(<< >>)
  BY DEF Filling
<1>2. pos - 1 <= Len(list) /\ at[N] = pos - 1 /\ N \in 0 .. Len(layer)
  <2>1. Len(<< >>) = 0
    OBVIOUS
  <2> QED
    BY <1>1, <2>1 DEF Filling
<1>3. /\ Len(new) \in Nat /\ pos <= Len(new) /\ new[pos] = EndOfList
      /\ \A m \in 1 .. pos - 1 : new[m] = list[m]
  BY <1>2, EndOfListType, StoredAt
<1>4. \A m \in 1 .. at[N] : new[m] = old[m]
  <2>1. Len(<< >>) = 0
    OBVIOUS
  <2>2. old = [m \in 1 .. pos - 1 |-> IF m < pos THEN list[m] ELSE << >>[m - pos + 1]]
    BY <2>1 DEF Prepared
  <2> HIDE DEF new, old
  <2> QED
    BY <1>2, <1>3, <2>2
<1> HIDE DEF new, old
<1>5. Translated(j, new, layer, N, at)
  BY <1>1, <1>2, <1>4, TranslatedLonger
<1>6. at[N] + 1 \in 1 .. Len(new) /\ new[at[N] + 1] = EndOfList
  BY <1>2, <1>3
<1> QED
  BY <1>5, <1>6 DEF Holds, new
-----------------------------------------------------------------------------
(* The lists and the scanner during a print job.                           *)

Fill == m_currentListIdForFilling

\* The list to fill holds what is translated of the layer and not still to be added.
FillInv ==
  /\ pc = "blocks" => Filling(job, WorkPlane, block, mem[Fill], inPos, todo)
  /\ pc # "blocks" => todo = << >>

\* Before it is executed, the list to fill holds the layer.
HeldInv ==
  pc \in {"wait", "recoat", "waited"} /\ i < NumLayers =>
    \E at : Holds(job, mem[Fill], WorkPlane, at)

\* Every layer handed to the board is exposed or refused, except for what is left
\* of the one the board is executing.
ExposedInv ==
  WellFormedJob =>
    /\ exec = 0 => ExposedTo(job, i, rejected, exposed)
    /\ exec # 0 => i >= 1 /\ Exposing(job, i, rejected, mem[exec], outPos, regs, exposed)

\* "All N Layers Processed" comes after the last layer, and there is one.
EndInv ==
  /\ pc \in {"wait", "recoat", "waited"} => NumLayers > 0
  /\ outcome = "AllLayersProcessed" => exec = 0 /\ i = NumLayers /\ NumLayers > 0

\* The inductive invariant that says what is exposed.
XInv == Inv /\ FillInv /\ HeldInv /\ ExposedInv /\ EndInv

\* The layer that is prepared.
LEMMA WorkPlaneType ==
  ASSUME Inv, i < NumLayers
  PROVE  /\ job \in Jobs /\ i \in 0 .. Len(job.layers) - 1
         /\ WorkPlane = job.layers[i + 1] /\ WorkPlane \in Seq(Blocks)
<1>1. job \in Jobs /\ i \in Nat
  BY DEF Inv, TypeOK
<1>2. Len(job.layers) \in Nat /\ \A l \in 1 .. Len(job.layers) : job.layers[l] \in Seq(Blocks)
  BY <1>1, JobTypes
<1> QED
  BY <1>1, <1>2 DEF NumLayers, WorkPlane

\* The list to fill.
LEMMA FillType ==
  ASSUME Inv
  PROVE  /\ Fill \in ListIds /\ mem[Fill] \in Seq(Command) /\ inPos \in Nat \ {0}
         /\ block \in Nat /\ todo \in Seq(Command) /\ rejected \in Nat
<1>1. Fill \in ListIds
  BY DEF Inv, TypeOK, HandlerTypeOK, Fill
<1>2. rejected \in Nat
  BY MaxRejectsAssumption DEF Inv, TypeOK, BoardTypeOK
<1> QED
  BY <1>1, <1>2 DEF Inv, TypeOK, BoardTypeOK

\* Nothing is exposed, filled or refused at the start.
LEMMA InitX == Init => XInv
<1> SUFFICES ASSUME Init PROVE XInv
  OBVIOUS
<1>1. Inv
  BY InitInv
<1>2. FillInv /\ HeldInv /\ EndInv
  BY DEF Init, FillInv, HeldInv, EndInv
<1>3. ExposedTo(job, i, rejected, exposed)
  <2>1. job \in Jobs /\ i = 0 /\ rejected = 0 /\ exposed = << >>
    BY DEF Init, BoardInit
  <2>2. Len(job.layers) \in Nat
    BY <2>1, JobTypes
  <2> DEFINE none == {}
  <2>3. none \in SUBSET (1 .. 0) /\ Cardinality(none) = 0
    BY FS_EmptySet
  <2> HIDE DEF none
  <2>4. Planned(job, 0, none) = << >>
    BY <2>1, <2>2, PlannedStep
  <2>5. Follows(<< >>, Planned(job, 0, none), Len(Planned(job, 0, none)))
    BY <2>4 DEF Follows
  <2> QED
    BY <2>1, <2>3, <2>5 DEF ExposedTo
<1>4. ExposedInv
  BY <1>3 DEF ExposedInv, Init, BoardInit
<1> QED
  BY <1>1, <1>2, <1>4 DEF XInv

\* A step that leaves the executing list and the scanner alone.
LEMMA ExposedKept ==
  ASSUME ExposedInv, exec' = exec, exec # 0 => mem'[exec] = mem[exec], outPos' = outPos,
         regs' = regs, exposed' = exposed, i' = i, job' = job, rejected' = rejected
  PROVE  ExposedInv'
<1>1. WellFormedJob' <=> WellFormedJob
  BY DEF WellFormedJob
<1> QED
  BY <1>1 DEF ExposedInv

\* A step that leaves the board and the loop alone, outside the filling of a list.
LEMMA MovedX ==
  ASSUME XInv, Inv', pc' # "blocks", todo = << >>,
         UNCHANGED << boardVars, Fill, loopVars, scanVars, job >>,
         pc' \in {"wait", "recoat", "waited"} => pc \in {"wait", "recoat", "waited"},
         outcome' = "AllLayersProcessed" =>
           outcome' = outcome \/ (exec = 0 /\ i = NumLayers /\ NumLayers > 0)
  PROVE  XInv'
<1> USE DEF boardVars, loopVars, scanVars
<1>1. FillInv'
  BY DEF FillInv
<1>2. HeldInv'
  <2>1. WorkPlane' = WorkPlane /\ NumLayers' = NumLayers
    BY DEF WorkPlane, NumLayers
  <2>2. mem'[Fill'] = mem[Fill]
    OBVIOUS
  <2> QED
    BY <2>1, <2>2 DEF XInv, HeldInv
<1>3. ExposedInv'
  BY ExposedKept DEF XInv
<1>4. EndInv'
  BY DEF XInv, EndInv, NumLayers
<1> QED
  BY <1>1, <1>2, <1>3, <1>4 DEF XInv

\* The steps that only move the host along.
LEMMA HostMovesX ==
  ASSUME XInv, Inv',
         ConnectAndSetupBoard \/ OpenFile \/ ProcessOvfJob \/ GetWorkPlane \/ MissingParams
           \/ NoPreviousLayer \/ PreviousLayerDone \/ Recoat \/ AllLayersProcessed \/ PromptForExit
  PROVE  XInv'
<1> USE DEF boardVars, handlerVars, loopVars, idleVars, scanVars, endVars, Continues, Returns,
            Throws, ConnectAndSetupBoard, OpenFile, ProcessOvfJob, GetWorkPlane, MissingParams,
            NoPreviousLayer, PreviousLayerDone, Recoat, AllLayersProcessed, PromptForExit
<1>1. UNCHANGED << boardVars, Fill, loopVars, scanVars, job >>
  BY DEF Fill
<1>2. /\ pc' # "blocks"
      /\ pc' \in {"wait", "recoat", "waited"} => pc \in {"wait", "recoat", "waited"}
  OBVIOUS
<1>3. todo = << >>
  BY DEF XInv, FillInv
<1>4. outcome' = "AllLayersProcessed" =>
        outcome' = outcome \/ (exec = 0 /\ i = NumLayers /\ NumLayers > 0)
  BY DEF XInv, EndInv, Inv, IdleWhenRecoating
<1> QED
  BY <1>1, <1>2, <1>3, <1>4, MovedX

\* Opening the list to fill.
LEMMA BeginLayerX == ASSUME XInv, Inv', BeginLayer PROVE XInv'
<1> USE DEF BeginLayer, beginListPreparation, api_set_start_list, Continues, handlerVars,
            boardVars, idleVars, scanVars, endVars
<1>1. isSuccessfullySetup /\ i < NumLayers
  BY DEF XInv, Inv, LoopInv
<1>2. WorkPlane \in Seq(Blocks) /\ mem[Fill] \in Seq(Command)
  BY <1>1, WorkPlaneType, FillType DEF XInv
<1>3. FillInv'
  <2>1. Filling(job, WorkPlane, 0, mem[Fill], 1, << >>)
    BY <1>2, FillStarts
  <2>2. todo = << >>
    BY DEF XInv, FillInv
  <2>3. /\ job' = job /\ WorkPlane' = WorkPlane /\ block' = 0 /\ mem'[Fill'] = mem[Fill]
        /\ inPos' = 1 /\ todo' = << >> /\ pc' = "blocks"
    BY <1>1, <2>2 DEF WorkPlane, Fill
  <2> QED
    BY <2>1, <2>3 DEF FillInv
<1>4. ExposedInv'
  BY <1>1, ExposedKept DEF XInv
<1>5. HeldInv' /\ EndInv'
  BY <1>1 DEF XInv, HeldInv, EndInv, NumLayers
<1> QED
  BY <1>3, <1>4, <1>5 DEF XInv

\* Translating a block.
LEMMA TranslateBlockX == ASSUME XInv, Inv', TranslateBlock PROVE XInv'
<1> USE DEF TranslateBlock, handlerVars, boardVars, idleVars, scanVars, endVars
<1>1. i < NumLayers
  BY DEF XInv, Inv, LoopInv
<1>2. job \in Jobs /\ WorkPlane \in Seq(Blocks)
  BY <1>1, WorkPlaneType DEF XInv
<1>3. mem[Fill] \in Seq(Command) /\ inPos \in Nat \ {0} /\ block \in Nat
  BY FillType DEF XInv
<1>4. FillInv'
  <2>1. Filling(job, WorkPlane, block, mem[Fill], inPos, << >>)
    BY DEF XInv, FillInv
  <2>2. PICK garbage \in GarbageReads(Garbage) :
          todo' = processVectorBlock(NextBlock, job.params[NextBlock.key], garbage)
    OBVIOUS
  <2>3. garbage \in GarbageReads(Int)
    BY GarbageAssumption DEF GarbageReads
  <2>4. block < Len(WorkPlane) /\ WorkPlane[block + 1].key \in DOMAIN job.params
    BY DEF NextBlock
  <2>5. Filling(job, WorkPlane, block + 1, mem[Fill], inPos,
                processVectorBlock(WorkPlane[block + 1],
                                   job.params[WorkPlane[block + 1].key], garbage))
    BY <1>2, <1>3, <2>1, <2>3, <2>4, FillTranslates
  <2>6. Filling(job, WorkPlane, block + 1, mem[Fill], inPos, todo')
    BY <2>2, <2>5 DEF NextBlock
  <2>7. /\ job' = job /\ WorkPlane' = WorkPlane /\ block' = block + 1 /\ mem'[Fill'] = mem[Fill]
        /\ inPos' = inPos /\ pc' = "blocks"
    BY DEF WorkPlane, Fill
  <2> QED
    BY <2>6, <2>7 DEF FillInv
<1>5. ExposedInv'
  BY ExposedKept DEF XInv
<1>6. HeldInv' /\ EndInv'
  BY DEF XInv, HeldInv, EndInv, NumLayers
<1> QED
  BY <1>4, <1>5, <1>6 DEF XInv

\* Storing a command: where it goes, and what is left alone.
LEMMA StoredInFill ==
  ASSUME Inv, pc = "blocks", NEW c \in Command, api_list_command(c)
  PROVE  /\ mem'[Fill] = Stored(mem[Fill], inPos, c) /\ inPos' = inPos + 1
         /\ exec # 0 => mem'[exec] = mem[exec]
         /\ exec' = exec /\ outPos' = outPos /\ rejected' = rejected
<1>1. inList = Fill /\ Fill \in ListIds /\ Fill # 0
  BY DEF Inv, ListInv, TypeOK, HandlerTypeOK, ListIds, Fill
<1>2. mem \in [ListIds -> Seq(Command)]
  BY DEF Inv, TypeOK, BoardTypeOK
<1>3. mem' = [mem EXCEPT ![Fill] = Stored(mem[Fill], inPos, c)] /\ inPos' = inPos + 1
  BY <1>1 DEF api_list_command
<1>4. exec # 0 => mem'[exec] = mem[exec]
  BY StoreStep
<1> QED
  BY <1>1, <1>2, <1>3, <1>4 DEF api_list_command

\* Adding a command.
LEMMA AddCommandX == ASSUME XInv, Inv', AddCommand PROVE XInv'
<1> USE DEF AddCommand, addCommand, handlerVars, idleVars, scanVars, endVars
<1>1. /\ mem[Fill] \in Seq(Command) /\ inPos \in Nat \ {0} /\ todo \in Seq(Command)
      /\ Head(todo) \in Command
  BY FillType DEF XInv
<1>2. /\ mem'[Fill] = Stored(mem[Fill], inPos, Head(todo)) /\ inPos' = inPos + 1
      /\ exec # 0 => mem'[exec] = mem[exec]
      /\ exec' = exec /\ outPos' = outPos /\ rejected' = rejected
  BY <1>1, StoredInFill DEF XInv
<1>3. FillInv'
  <2>1. Filling(job, WorkPlane, block, mem[Fill], inPos, todo)
    BY DEF XInv, FillInv
  <2>2. Filling(job, WorkPlane, block, Stored(mem[Fill], inPos, Head(todo)), inPos + 1, Tail(todo))
    BY <1>1, <2>1, FillStores
  <2>3. /\ job' = job /\ WorkPlane' = WorkPlane /\ block' = block /\ Fill' = Fill
        /\ todo' = Tail(todo) /\ pc' = "blocks"
    BY DEF WorkPlane, Fill
  <2> QED
    BY <1>2, <2>2, <2>3 DEF FillInv
<1>4. ExposedInv'
  BY <1>2, ExposedKept DEF XInv
<1>5. HeldInv' /\ EndInv'
  BY <1>2 DEF XInv, HeldInv, EndInv, NumLayers
<1> QED
  BY <1>3, <1>4, <1>5 DEF XInv

\* Closing the list: it holds the layer.
LEMMA EndLayerX == ASSUME XInv, Inv', EndLayer PROVE XInv'
<1> USE DEF EndLayer, endListPreparation, api_set_end_of_list, Continues, handlerVars, loopVars,
            idleVars, scanVars, endVars
<1>1. mem[Fill] \in Seq(Command) /\ inPos \in Nat \ {0}
  BY FillType DEF XInv
<1>2. /\ mem'[Fill] = Stored(mem[Fill], inPos, EndOfList)
      /\ exec # 0 => mem'[exec] = mem[exec]
      /\ exec' = exec /\ outPos' = outPos /\ rejected' = rejected
  BY StoredInFill, EndOfListType DEF XInv
<1>3. WorkPlane \in Seq(Blocks)
  BY WorkPlaneType DEF XInv, Inv, LoopInv
<1>4. HeldInv'
  <2>1. Filling(job, WorkPlane, Len(WorkPlane), mem[Fill], inPos, << >>)
    BY DEF XInv, FillInv
  <2>2. \E at : Holds(job, Stored(mem[Fill], inPos, EndOfList), WorkPlane, at)
    BY <1>1, <1>3, <2>1, FillEnds
  <2>3. job' = job /\ WorkPlane' = WorkPlane /\ Fill' = Fill
    BY DEF WorkPlane, Fill
  <2> QED
    BY <1>2, <2>2, <2>3 DEF HeldInv
<1>5. ExposedInv'
  BY <1>2, ExposedKept DEF XInv
<1>6. FillInv'
  BY <1>2 DEF XInv, FillInv
<1>7. EndInv'
  <2>1. NumLayers > 0
    <3>1. i \in Nat /\ i < NumLayers /\ NumLayers \in Nat
      BY JobsAssumption DEF XInv, Inv, TypeOK, LoopInv, NumLayers
    <3> HIDE DEF EndLayer
    <3> QED
      BY <3>1
  <2>2. NumLayers' = NumLayers
    BY DEF NumLayers
  <2> QED
    BY <1>2, <2>1, <2>2 DEF XInv, EndInv, Inv, LoopInv
<1> QED
  BY <1>4, <1>5, <1>6, <1>7 DEF XInv

\* Starting the list: the layer is begun, or lost whole.
LEMMA ExecuteLayerX == ASSUME XInv, Inv', ExecuteLayer PROVE XInv'
<1> USE DEF ExecuteLayer, Continues, scanVars, endVars
<1>1. isSuccessfullySetup /\ exec = 0 /\ Fill \in ListIds /\ Fill # 0
  BY DEF XInv, Inv, LoopInv, IdleWhenRecoating, TypeOK, HandlerTypeOK, ListIds, Fill
<1>2. api_execute_list(Fill)
  BY <1>1 DEF executeCurrentListAndCycle, Fill
<1>3. /\ mem' = mem
      /\ \/ exec' = Fill /\ outPos' = 1 /\ rejected' = rejected
         \/ exec' = 0 /\ rejected' = rejected + 1
  BY <1>1, <1>2 DEF api_execute_list, StartsList, RefusesIdle, RefusesBusy
<1>4. job \in Jobs /\ i \in 0 .. Len(job.layers) - 1 /\ WorkPlane = job.layers[i + 1]
  BY WorkPlaneType DEF XInv
<1>5. PICK at : Holds(job, mem[Fill], WorkPlane, at)
  BY DEF XInv, HeldInv
<1>6. ExposedInv'
  <2>1. SUFFICES ASSUME WellFormedJob
                 PROVE  /\ exec' = 0 => ExposedTo(job, i + 1, rejected', exposed)
                        /\ exec' # 0 =>
                             Exposing(job, i + 1, rejected', mem[exec'], outPos', regs', exposed)
    <3>1. job' = job /\ i' = i + 1 /\ exposed' = exposed /\ mem' = mem /\ i + 1 >= 1
      BY <1>3, <1>4
    <3>2. WellFormedJob' <=> WellFormedJob
      BY <3>1 DEF WellFormedJob
    <3> QED
      BY <3>1, <3>2 DEF ExposedInv
  <2>2. ExposedTo(job, i, rejected, exposed)
    BY <1>1, <2>1 DEF XInv, ExposedInv
  <2>3. rejected \in Nat
    BY FillType DEF XInv
  <2>4. ExposedTo(job, i + 1, rejected + 1, exposed)
    BY <1>4, <2>2, <2>3, RefusedLosesLayer
  <2>5. Exposing(job, i + 1, rejected, mem[Fill], 1, regs', exposed)
    <3>1. Holds(job, mem[Fill], job.layers[i + 1], at)
      BY <1>4, <1>5
    <3> QED
      BY <1>4, <2>2, <3>1, ExposingStarts
  <2> QED
    BY <1>1, <1>3, <2>4, <2>5
<1>7. FillInv' /\ HeldInv'
  BY <1>4 DEF XInv, FillInv, HeldInv, NumLayers
<1>8. EndInv'
  <2>1. NumLayers > 0 /\ NumLayers' = NumLayers
    BY DEF XInv, EndInv, NumLayers
  <2>2. outcome' # "AllLayersProcessed"
    BY DEF XInv, Inv, LoopInv
  <2> QED
    BY <2>1, <2>2 DEF EndInv
<1> QED
  BY <1>6, <1>7, <1>8 DEF XInv

\* A well-formed job has well-formed layers.
LEMMA ExecutingLayer ==
  ASSUME XInv, WellFormedJob, exec # 0
  PROVE  /\ job \in Jobs /\ i \in 1 .. Len(job.layers)
         /\ \A b \in DOMAIN job.layers[i] : WellFormed(job.layers[i][b])
         /\ Exposing(job, i, rejected, mem[exec], outPos, regs, exposed)
<1>1. job \in Jobs /\ i \in Nat /\ i <= Len(job.layers)
  BY DEF XInv, Inv, TypeOK, LoopInv, NumLayers
<1>2. Len(job.layers) \in Nat /\ job.layers \in Seq(Seq(Blocks))
  BY <1>1, JobTypes
<1>3. i >= 1 /\ Exposing(job, i, rejected, mem[exec], outPos, regs, exposed)
  BY DEF XInv, ExposedInv
<1>4. i \in 1 .. Len(job.layers) /\ i \in DOMAIN job.layers
  BY <1>1, <1>2, <1>3
<1> QED
  BY <1>1, <1>3, <1>4 DEF WellFormedJob

\* The board carries out a command.
LEMMA ExecuteX == ASSUME XInv, Inv', Execute PROVE XInv'
<1> USE DEF Execute, BoardExecutes, hostVars, handlerVars, loopVars, endVars
<1>1. exec # 0 /\ mem' = mem /\ exec' = exec /\ outPos' = outPos + 1 /\ rejected' = rejected
      /\ mem[exec][outPos] # EndOfList
      /\ regs' = RegistersAfter(regs, mem[exec][outPos])
      /\ exposed' = ExposedAfter(exposed, regs, mem[exec][outPos])
  BY DEF Running, CurrentCommand
<1>2. job' = job /\ i' = i /\ pc' = pc /\ todo' = todo /\ block' = block /\ inPos' = inPos
      /\ Fill' = Fill /\ WorkPlane' = WorkPlane /\ NumLayers' = NumLayers /\ outcome' = outcome
  BY DEF Fill, WorkPlane, NumLayers
<1>3. ExposedInv'
  <2>1. WellFormedJob' <=> WellFormedJob
    BY <1>2 DEF WellFormedJob
  <2>2. ASSUME WellFormedJob
        PROVE  i >= 1 /\ Exposing(job, i, rejected, mem[exec], outPos', regs', exposed')
    <3>1. /\ job \in Jobs /\ i \in 1 .. Len(job.layers)
          /\ \A b \in DOMAIN job.layers[i] : WellFormed(job.layers[i][b])
          /\ Exposing(job, i, rejected, mem[exec], outPos, regs, exposed)
      BY <1>1, <2>2, ExecutingLayer
    <3>2. regs \in Registers /\ exposed \in Seq(Exposures)
      BY DEF XInv, Inv, TypeOK
    <3>3. Exposing(job, i, rejected, mem[exec], outPos + 1,
                   RegistersAfter(regs, mem[exec][outPos]),
                   ExposedAfter(exposed, regs, mem[exec][outPos]))
      BY <1>1, <3>1, <3>2, ExposingStep
    <3>4. i >= 1
      BY <3>1
    <3> QED
      BY <1>1, <3>3, <3>4
  <2> QED
    BY <1>1, <1>2, <2>1, <2>2 DEF ExposedInv
<1>4. FillInv' /\ HeldInv' /\ EndInv'
  BY <1>1, <1>2 DEF XInv, FillInv, HeldInv, EndInv
<1> QED
  BY <1>3, <1>4 DEF XInv

\* The board ends a list.
LEMMA EndListX == ASSUME XInv, Inv', EndList PROVE XInv'
<1> USE DEF EndList, BoardEndsList, hostVars, handlerVars, loopVars, endVars, scanVars
<1>1. exec # 0 /\ mem' = mem /\ exec' = 0 /\ rejected' = rejected
      /\ mem[exec][outPos] = EndOfList
  BY DEF Running, CurrentCommand, XInv, Inv, ListInv
<1>2. job' = job /\ i' = i /\ pc' = pc /\ todo' = todo /\ block' = block /\ inPos' = inPos
      /\ Fill' = Fill /\ WorkPlane' = WorkPlane /\ NumLayers' = NumLayers /\ outcome' = outcome
      /\ exposed' = exposed
  BY DEF Fill, WorkPlane, NumLayers
<1>3. ExposedInv'
  <2>1. WellFormedJob' <=> WellFormedJob
    BY <1>2 DEF WellFormedJob
  <2>2. ASSUME WellFormedJob PROVE ExposedTo(job, i, rejected, exposed)
    <3>1. /\ job \in Jobs /\ i \in 1 .. Len(job.layers)
          /\ Exposing(job, i, rejected, mem[exec], outPos, regs, exposed)
      BY <1>1, <2>2, ExecutingLayer
    <3> QED
      BY <1>1, <3>1, ExposingEnd
  <2> QED
    BY <1>1, <1>2, <2>1, <2>2 DEF ExposedInv
<1>4. FillInv' /\ HeldInv' /\ EndInv'
  BY <1>1, <1>2 DEF XInv, FillInv, HeldInv, EndInv
<1> QED
  BY <1>3, <1>4 DEF XInv

\* A step that changes nothing.
LEMMA StutterX == ASSUME XInv, Inv', UNCHANGED vars PROVE XInv'
<1> USE DEF vars, boardVars, handlerVars, loopVars, endVars, scanVars
<1>1. mem' = mem /\ job' = job /\ i' = i /\ pc' = pc /\ todo' = todo /\ block' = block
      /\ inPos' = inPos /\ Fill' = Fill /\ WorkPlane' = WorkPlane /\ NumLayers' = NumLayers
      /\ outcome' = outcome /\ exec' = exec
  BY DEF Fill, WorkPlane, NumLayers
<1>2. FillInv' /\ HeldInv' /\ EndInv'
  BY <1>1 DEF XInv, FillInv, HeldInv, EndInv
<1>3. ExposedInv'
  BY ExposedKept DEF XInv
<1> QED
  BY <1>2, <1>3 DEF XInv

\* Every step of the host, the operator and the board keeps the invariant.
LEMMA NextX == ASSUME XInv, [Next]_vars PROVE XInv'
<1>1. Inv'
  BY NextInv DEF XInv
<1>2. CASE UNCHANGED vars
  BY <1>1, <1>2, StutterX
<1>3. CASE Host
  <2>1. CASE PollBusy
    BY <1>1, <2>1, StutterX DEF PollBusy
  <2> QED
    BY <1>1, <1>3, <2>1, HostMovesX, BeginLayerX, TranslateBlockX, AddCommandX, EndLayerX,
       ExecuteLayerX DEF Host
<1>4. CASE PromptForExit
  BY <1>1, <1>4, HostMovesX
<1>5. CASE Board
  BY <1>1, <1>5, ExecuteX, EndListX DEF Board
<1>6. CASE Finished
  BY <1>1, <1>6, StutterX DEF Finished
<1> QED
  BY <1>2, <1>3, <1>4, <1>5, <1>6 DEF Next

\* In every state of every print job, the list to fill holds what is translated of
\* its layer, and what is exposed is what the layers handed to the board ask for,
\* up to the command at which the board is.
THEOREM ExposureInvariance == Spec => []XInv
<1>1. XInv /\ [Next]_vars => XInv'
  BY NextX
<1> QED
  BY <1>1, InitX, PTL DEF Spec
-----------------------------------------------------------------------------
(* What is exposed of every print job.                                     *)

\* What begins a sequence begins it behind the same one, too.
LEMMA BeginsBehind ==
  ASSUME NEW S, NEW s \in Seq(S), NEW x \in Seq(S), NEW y \in Seq(S), Begins(x, y)
  PROVE  Begins(s \o x, s \o y)
<1>1. /\ s \o x \in Seq(S) /\ Len(s \o x) = Len(s) + Len(x)
      /\ s \o y \in Seq(S) /\ Len(s \o y) = Len(s) + Len(y)
  OBVIOUS
<1>2. Len(s) \in Nat /\ Len(x) \in Nat /\ Len(y) \in Nat /\ Len(x) <= Len(y)
  BY DEF Begins
<1>3. ASSUME NEW n \in 1 .. Len(s \o x) PROVE (s \o x)[n] = (s \o y)[n]
  <2>1. CASE n <= Len(s)
    BY <1>1, <1>2, <2>1
  <2>2. CASE n > Len(s)
    <3>1. n - Len(s) \in 1 .. Len(x) /\ n - Len(s) \in 1 .. Len(y)
      BY <1>1, <1>2, <2>2
    <3>2. (s \o x)[n] = x[n - Len(s)] /\ (s \o y)[n] = y[n - Len(s)]
      BY <1>1, <1>2, <2>2, <3>1
    <3> QED
      BY <3>1, <3>2 DEF Begins
  <2> QED
    BY <1>1, <1>2, <2>1, <2>2
<1> QED
  BY <1>1, <1>2, <1>3 DEF Begins

\* What is drawn is how a plan begins.
Traces(exp, plan) ==
  /\ Len(exp) <= Len(plan)
  /\ \A n \in DOMAIN exp : Draws(exp[n], plan[n])

\* Then it is what the plan asks for.
LEMMA TracesFollow ==
  ASSUME NEW plan \in Seq(Items), NEW exp \in Seq(Exposures), Traces(exp, plan)
  PROVE  FollowsPlan(exp, plan)
<1> SUFFICES ASSUME NEW n \in DOMAIN exp PROVE Realises(exp[n], plan[n])
  BY DEF Traces, FollowsPlan
<1>1. n \in 1 .. Len(plan)
  BY DEF Traces
<1>2. plan[n] \in Items
  BY <1>1
<1> QED
  BY <1>2, DrawsRealises DEF Traces

\* In the middle of a layer, what is exposed is how the plan begins that ends with
\* this layer.
LEMMA ExposingFollows ==
  ASSUME NEW j \in Jobs, NEW l \in 1 .. Len(j.layers),
         \A b \in DOMAIN j.layers[l] : WellFormed(j.layers[l][b]),
         NEW refused, NEW list, NEW pos, NEW r, NEW exp \in Seq(Exposures),
         Exposing(j, l, refused, list, pos, r, exp)
  PROVE  \E lost \in SUBSET (1 .. l - 1) :
           Cardinality(lost) = refused /\ Traces(exp, Planned(j, l, lost))
<1> DEFINE layer == j.layers[l]
           N == Len(layer)
<1>1. layer \in Seq(Blocks) /\ N \in Nat
  BY JobTypes
<1>s. PICK lost \in SUBSET (1 .. l - 1) :
        /\ Cardinality(lost) = refused
        /\ \E at : Holds(j, list, layer, at) /\ Reached(j, l, lost, at, pos, r, exp)
  BY DEF Exposing
<1>2. PICK at :
        /\ Cardinality(lost) = refused /\ Holds(j, list, layer, at)
        /\ Reached(j, l, lost, at, pos, r, exp)
  BY <1>s
<1>3. PICK b \in 0 .. N, k \in Nat : Underway(j, l, lost, b, k, r, exp)
  BY <1>2 DEF Reached
<1> DEFINE Before(m) == PlannedBefore(j, l, lost, m)
<1>4. /\ \A m \in 0 .. N : Before(m) \in Seq(Items)
      /\ \A m \in 0 .. N - 1 : Before(m + 1) = Before(m) \o BlockPlanOf(j, layer[m + 1])
      /\ Before(N) = Planned(j, l, lost)
  <2>1. l \notin lost
    OBVIOUS
  <2> QED
    BY <2>1, PlannedBeforeStep
<1>5. \E m \in 0 .. N, n \in Nat : n <= Len(Before(m)) /\ Follows(exp, Before(m), n)
  <2>1. CASE k = 0
    <3>1. Follows(exp, Before(b), Len(Before(b)))
      BY <1>3, <2>1 DEF Underway
    <3>2. Len(Before(b)) \in Nat
      BY <1>4
    <3> QED
      BY <3>1, <3>2
  <2>2. CASE k # 0
    <3> DEFINE blk == layer[b + 1]
    <3>1. b < N /\ k \in 1 .. MoveCount(blk) + 2
          /\ Follows(exp, Before(b) \o BlockPlanOf(j, blk), Len(Before(b)) + LinesDone(blk, k))
      BY <1>3, <2>2 DEF Underway
    <3>2. b \in 0 .. N - 1 /\ b + 1 \in 0 .. N /\ b + 1 \in DOMAIN layer
      BY <1>1, <3>1
    <3>3. blk \in Blocks /\ WellFormed(blk)
      BY <1>1, <3>2
    <3>4. blk.key \in DOMAIN j.params /\ j.params[blk.key] \in Params
      <4>1. b + 1 \in 1 .. N
        BY <1>1, <3>2
      <4>2. blk.key \in DOMAIN j.params
        BY <1>2, <4>1 DEF Holds, Translated
      <4> QED
        BY <4>2, JobTypes
    <3>5. BlockPlanOf(j, blk) \in Seq(Items) /\ Len(BlockPlanOf(j, blk)) = LineCount(blk)
      BY <3>3, <3>4, PlanOfBlock DEF BlockPlanOf
    <3>6. LinesDone(blk, k) \in Nat /\ LinesDone(blk, k) <= LineCount(blk)
      <4>1. MoveCount(blk) \in Nat
        BY <3>3, LinesInAll
      <4>2. k \in 0 .. MoveCount(blk) + 3
        BY <3>1, <4>1
      <4> QED
        BY <3>3, <4>2, LinesInAll
    <3>7. Before(b + 1) = Before(b) \o BlockPlanOf(j, blk)
      BY <1>4, <3>2
    <3>8. Before(b) \in Seq(Items)
      BY <1>4
    <3> DEFINE n == Len(Before(b)) + LinesDone(blk, k)
    <3>9. n \in Nat /\ n <= Len(Before(b + 1))
      <4>1. Len(Before(b + 1)) = Len(Before(b)) + Len(BlockPlanOf(j, blk))
        BY ONLY <3>5, <3>7, <3>8, Joined
      <4>2. Len(Before(b)) \in Nat /\ Len(BlockPlanOf(j, blk)) \in Nat
        BY <3>5, <3>8
      <4> QED
        BY ONLY <3>5, <3>6, <4>1, <4>2
    <3>10. Follows(exp, Before(b + 1), n)
      BY <3>1, <3>7
    <3> QED
      BY <3>2, <3>9, <3>10
  <2> QED
    BY <2>1, <2>2
<1>6. PICK m \in 0 .. N, n \in Nat : n <= Len(Before(m)) /\ Follows(exp, Before(m), n)
  BY <1>5
<1>7. Begins(Before(m), Before(N))
  <2>1. /\ Planned(j, l - 1, lost) \in Seq(Items)
        /\ LayerPart(j, layer, m) \in Seq(Items) /\ LayerPart(j, layer, N) \in Seq(Items)
    <3>1. l - 1 \in 0 .. Len(j.layers)
      BY JobTypes
    <3>2. Planned(j, l - 1, lost) \in Seq(Items)
      BY <3>1, PlannedStep
    <3>3. N \in 0 .. N
      BY <1>1
    <3> QED
      BY <1>1, <3>2, <3>3, LayerPartStep
  <2>2. Begins(LayerPart(j, layer, m), LayerPart(j, layer, N))
    BY <1>1, LayerPartBegins
  <2> QED
    BY <2>1, <2>2, BeginsBehind DEF PlannedBefore
<1>8. Traces(exp, Planned(j, l, lost))
  <2>1. Len(exp) = n /\ DOMAIN exp = 1 .. n
    BY <1>6 DEF Follows
  <2>2. Len(Before(m)) \in Nat /\ Len(Before(N)) \in Nat /\ Len(Before(m)) <= Len(Before(N))
    BY <1>7 DEF Begins
  <2>3. n <= Len(Before(N))
    BY <1>6, <2>2
  <2>4. ASSUME NEW x \in 1 .. n PROVE Draws(exp[x], Before(N)[x])
    <3>1. x \in 1 .. Len(Before(m))
      BY <1>6, <2>2
    <3>2. Before(m)[x] = Before(N)[x]
      BY <1>7, <3>1 DEF Begins
    <3>3. Draws(exp[x], Before(m)[x])
      BY <1>6 DEF Follows
    <3> QED
      BY <3>2, <3>3
  <2> QED
    BY <1>4, <2>1, <2>3, <2>4 DEF Traces
<1> QED
  BY <1>2, <1>8

\* A set of numbers up to n without a member.
LEMMA NoneLost ==
  ASSUME NEW n \in Int, NEW lost \in SUBSET (1 .. n), Cardinality(lost) = 0 PROVE lost = {}
<1>1. IsFiniteSet(1 .. n)
  BY FS_Interval
<1>2. IsFiniteSet(lost)
  BY <1>1, FS_Subset
<1> QED
  BY <1>2, FS_EmptySet

\* What is exposed is how the plan of the layers handed to the board begins, and
\* on an idle board all of it, without the layers the board refused.
LEMMA ExposedPart ==
  ASSUME XInv, WellFormedJob
  PROVE  \E lost \in SUBSET (1 .. i) :
           /\ Cardinality(lost) = rejected
           /\ Traces(exposed, Planned(job, i, lost))
           /\ FollowsPlan(exposed, Planned(job, i, lost))
           /\ exec = 0 => Len(exposed) = Len(Planned(job, i, lost))
<1>1. job \in Jobs /\ i \in Nat /\ exposed \in Seq(Exposures)
  BY DEF XInv, Inv, TypeOK
<1>2. \A lost : Traces(exposed, Planned(job, i, lost))
                  => FollowsPlan(exposed, Planned(job, i, lost))
  <2>1. i \in 0 .. Len(job.layers)
    BY <1>1, JobTypes DEF XInv, Inv, LoopInv, NumLayers
  <2>2. \A lost : Planned(job, i, lost) \in Seq(Items)
    BY ONLY <1>1, <2>1, PlannedStep
  <2> QED
    BY <1>1, <2>2, TracesFollow
<1>3. CASE exec = 0
  <2>1. PICK lost \in SUBSET (1 .. i) :
          /\ Cardinality(lost) = rejected
          /\ Follows(exposed, Planned(job, i, lost), Len(Planned(job, i, lost)))
    BY <1>3 DEF XInv, ExposedInv, ExposedTo
  <2> DEFINE plan == Planned(job, i, lost)
  <2>2. Len(exposed) = Len(plan) /\ DOMAIN exposed = 1 .. Len(plan) /\ Len(exposed) \in Nat
    BY <1>1, <2>1 DEF Follows
  <2>3. Traces(exposed, plan)
    BY <2>1, <2>2 DEF Follows, Traces
  <2> QED
    BY <1>2, <2>1, <2>2, <2>3
<1>4. CASE exec # 0
  <2>1. /\ i \in 1 .. Len(job.layers)
        /\ \A b \in DOMAIN job.layers[i] : WellFormed(job.layers[i][b])
        /\ Exposing(job, i, rejected, mem[exec], outPos, regs, exposed)
    BY <1>4, ExecutingLayer
  <2>2. PICK lost \in SUBSET (1 .. i - 1) :
          Cardinality(lost) = rejected /\ Traces(exposed, Planned(job, i, lost))
    BY <1>1, <2>1, ExposingFollows
  <2>3. lost \in SUBSET (1 .. i)
    BY <1>1
  <2> QED
    BY <1>2, <1>4, <2>2, <2>3
<1> QED
  BY <1>3, <1>4

\* The plans of the properties, for the layers handed to the board.
LEMMA PlansHandedOver ==
  ASSUME XInv
  PROVE  /\ PlanUpTo(i) = Planned(job, i, {})
         /\ JobPlan(job) = Planned(job, NumLayers, {})
         /\ \A lost : PlanWithout(lost) = Planned(job, NumLayers, lost)
<1>1. job \in Jobs /\ i \in Nat /\ i <= NumLayers /\ NumLayers \in Nat
  BY JobsAssumption DEF XInv, Inv, TypeOK, LoopInv, NumLayers
<1> QED
  BY <1>1, PlansOfTheJob

\* As long as the board refused no list, what is exposed is at every moment how the
\* plan of the layers handed to the board begins, line by line with the parameters
\* of its own block, and on an idle board it is all of that plan: for every job of
\* well-formed blocks, whatever its length and whatever an earlier layer left in
\* the list memory (prepareLayer, executeLayer, processVectorBlock).
THEOREM JobExposed == Spec => [](rejected = 0 => ExposesThePlan)
<1>1. ASSUME XInv, rejected = 0 PROVE ExposesThePlan
  <2> SUFFICES ASSUME WellFormedJob
               PROVE  /\ FollowsPlan(exposed, PlanUpTo(i))
                      /\ exec = 0 => Len(exposed) = Len(PlanUpTo(i))
    BY DEF ExposesThePlan
  <2>1. PICK lost \in SUBSET (1 .. i) :
          /\ Cardinality(lost) = rejected
          /\ FollowsPlan(exposed, Planned(job, i, lost))
          /\ exec = 0 => Len(exposed) = Len(Planned(job, i, lost))
    BY <1>1, ExposedPart
  <2>2. lost = {}
    <3>1. i \in Int
      BY <1>1 DEF XInv, Inv, TypeOK
    <3> QED
      BY <1>1, <2>1, <3>1, NoneLost
  <2>3. PlanUpTo(i) = Planned(job, i, lost)
    BY <1>1, <2>2, PlansHandedOver
  <2> QED
    BY <2>1, <2>3
<1>2. XInv => (rejected = 0 => ExposesThePlan)
  BY <1>1
<1> QED
  BY <1>2, ExposureInvariance, PTL

\* "All N Layers Processed" is displayed only on an idle board, and, if no list was
\* refused, only for a job that is exposed to its last line (processOvfJob).
THEOREM ProcessedJobExposed == Spec => [](rejected = 0 => ProcessedMeansExposed)
<1>1. ASSUME XInv, rejected = 0, ExposesThePlan PROVE ProcessedMeansExposed
  <2> SUFFICES ASSUME outcome = "AllLayersProcessed"
               PROVE  exec = 0 /\ (WellFormedJob => Len(exposed) = Len(JobPlan(job)))
    BY DEF ProcessedMeansExposed
  <2>1. exec = 0 /\ i = NumLayers
    BY <1>1 DEF XInv, EndInv
  <2>2. PlanUpTo(i) = JobPlan(job)
    BY <1>1, <2>1, PlansHandedOver
  <2> QED
    BY <1>1, <2>1, <2>2 DEF ExposesThePlan
<1>2. XInv /\ (rejected = 0 => ExposesThePlan) => (rejected = 0 => ProcessedMeansExposed)
  BY <1>1
<1> QED
  BY <1>2, ExposureInvariance, JobExposed, PTL

\* However many lists the board refuses, a job that is reported as processed lacks
\* exactly that many whole layers, and all the others are exposed in full and in
\* order (executeCurrentListAndCycle).
THEOREM RefusedLayersLost == Spec => [](WellFormedJob => RefusedLayersAreLostWhole)
<1>1. ASSUME XInv, WellFormedJob PROVE RefusedLayersAreLostWhole
  <2> SUFFICES ASSUME outcome = "AllLayersProcessed"
               PROVE  \E lost \in SUBSET DOMAIN job.layers :
                        /\ Cardinality(lost) = rejected
                        /\ Len(exposed) = Len(PlanWithout(lost))
                        /\ FollowsPlan(exposed, PlanWithout(lost))
    BY DEF RefusedLayersAreLostWhole
  <2>1. exec = 0 /\ i = NumLayers
    BY <1>1 DEF XInv, EndInv
  <2>2. PICK lost \in SUBSET (1 .. i) :
          /\ Cardinality(lost) = rejected
          /\ FollowsPlan(exposed, Planned(job, i, lost))
          /\ exec = 0 => Len(exposed) = Len(Planned(job, i, lost))
    BY <1>1, ExposedPart
  <2>3. lost \in SUBSET DOMAIN job.layers
    <3>1. job \in Jobs
      BY <1>1 DEF XInv, Inv, TypeOK
    <3>2. DOMAIN job.layers = 1 .. NumLayers
      BY <3>1, JobTypes DEF NumLayers
    <3> QED
      BY <2>1, <3>2
  <2>4. PlanWithout(lost) = Planned(job, i, lost)
    BY <1>1, <2>1, PlansHandedOver
  <2> QED
    BY <2>1, <2>2, <2>3, <2>4
<1>2. XInv => (WellFormedJob => RefusedLayersAreLostWhole)
  BY <1>1
<1> QED
  BY <1>2, ExposureInvariance, PTL
-----------------------------------------------------------------------------
(* The file generator.                                                     *)

Square == CreateWorkPlaneForLayer

\* The generator appends the same square again and again.
GenInv ==
  /\ genStep \in {"Parse", "StartWritePartial", "AppendWorkPlane", "returned"}
  /\ NumberOfLayers \in LayerArgs \cup {0} /\ NumberOfLayers \in Nat
  /\ planes \in Seq({Square}) /\ Len(planes) <= NumberOfLayers
  /\ genStep \in {"Parse", "StartWritePartial"} => planes = << >>
  /\ ovfFile \in {"none", "partial", "complete"} /\ genExitCode \in {0, 1}
  /\ ExitZeroMeansComplete

\* Every call of the tool keeps its invariant, the failing ones included.
LEMMA GenerateStep == ASSUME GenInv, Generate PROVE GenInv'
<1> USE DEF GenInv, ExitZeroMeansComplete, Fails
<1>1. CASE Parse
  <2>1. UNCHANGED << planes, ovfFile >>
    BY <1>1 DEF Parse
  <2>2. CASE Fails /\ UNCHANGED NumberOfLayers
    BY <2>1, <2>2
  <2>3. CASE \E n \in LayerArgs : /\ n >= 0
                                  /\ NumberOfLayers' = n /\ genStep' = "StartWritePartial"
                                  /\ UNCHANGED genExitCode
    <3>1. PICK n \in LayerArgs : /\ n >= 0
                                 /\ NumberOfLayers' = n /\ genStep' = "StartWritePartial"
                                 /\ UNCHANGED genExitCode
      BY <2>3
    <3>2. n \in Nat
      BY <3>1, GeneratorAssumption
    <3>3. planes' = << >> /\ Len(planes') <= n
      BY <1>1, <2>1, <3>2 DEF Parse
    <3> QED
      BY <2>1, <3>1, <3>2, <3>3
  <2> QED
    BY <1>1, <2>2, <2>3 DEF Parse
<1>2. CASE StartWritePartial
  BY <1>2 DEF StartWritePartial
<1>3. CASE AppendWorkPlane
  <2>1. CASE planes' = Append(planes, Square) /\ UNCHANGED << genStep, ovfFile, genExitCode >>
    <3>1. planes' \in Seq({Square}) /\ Len(planes') = Len(planes) + 1
      BY <2>1
    <3> QED
      BY <1>3, <2>1, <3>1 DEF AppendWorkPlane
  <2>2. CASE Fails /\ ovfFile' \in {"partial", "complete"} /\ UNCHANGED planes
    BY <1>3, <2>2 DEF AppendWorkPlane
  <2> QED
    BY <1>3, <2>1, <2>2 DEF AppendWorkPlane, Square
<1>4. CASE Dispose
  BY <1>4 DEF Dispose
<1> QED
  BY <1>1, <1>2, <1>3, <1>4 DEF Generate
-----------------------------------------------------------------------------
(* The parser on the file of the generator.                                *)

AllRead(positions, n) == \A p \in 1 .. n : positions[p][1].planes[positions[p][2]].lut

StopsAt(positions, n) ==
  AllRead(positions, n) /\ (n = Len(positions) \/ ~AllRead(positions, n + 1))

\* parseAllWorkPlaneLuts stops at the first table that cannot be read, or at the end.
LEMMA TablesStop ==
  ASSUME NEW positions, Len(positions) \in Nat
  PROVE  \E n \in 0 .. Len(positions) :
           /\ StopsAt(positions, n)
           /\ Parser!parseAllWorkPlaneLuts(positions) = SubSeq(positions, 1, n)
<1> DEFINE N == Len(positions)
           T == {n \in Nat : n <= N /\ AllRead(positions, N - n)}
<1>1. T \in SUBSET Nat /\ N \in T
  <2>1. AllRead(positions, N - N)
    BY DEF AllRead
  <2> QED
    BY <2>1
<1>2. PICK n \in T : \A m \in T : n <= m
  <2> HIDE DEF T
  <2> QED
    BY <1>1, Least
<1>3. n \in Nat /\ n <= N /\ AllRead(positions, N - n)
  BY <1>2
<1>4. ASSUME n # 0 PROVE ~AllRead(positions, N - n + 1)
  <2>1. n - 1 \in Nat /\ n - 1 <= N /\ N - (n - 1) = N - n + 1 /\ ~(n <= n - 1)
    BY <1>3, <1>4
  <2>2. n - 1 \notin T
    BY <1>2, <2>1
  <2> QED
    BY <2>1, <2>2
<1>5. N - n \in 0 .. N /\ StopsAt(positions, N - n)
  BY <1>3, <1>4 DEF StopsAt
<1>6. \E k \in 0 .. N : StopsAt(positions, k)
  BY <1>5
<1>7. Parser!parseAllWorkPlaneLuts(positions)
        = SubSeq(positions, 1, CHOOSE k \in 0 .. N : StopsAt(positions, k))
  BY DEF Parser!parseAllWorkPlaneLuts, StopsAt, AllRead
<1> QED
  BY <1>6, <1>7

ReadablePlanes == [lut : BOOLEAN, shell : BOOLEAN, blocks : Seq(BOOLEAN)]

\* The positions of the planes of a file.
LEMMA PositionsOf ==
  ASSUME NEW f \in ReadableParts
  PROVE  /\ f.planes \in Seq(ReadablePlanes) /\ Len(f.planes) \in Nat
         /\ Parser!Planes(f) \in Seq({f} \X Nat) /\ Len(Parser!Planes(f)) = Len(f.planes)
         /\ \A p \in 1 .. Len(f.planes) : Parser!Planes(f)[p] = << f, p >>
<1>1. f.planes \in Seq(ReadablePlanes)
  BY DEF ReadableParts, ReadablePlanes
<1>2. DOMAIN f.planes = 1 .. Len(f.planes) /\ Len(f.planes) \in Nat
  BY <1>1
<1> QED
  BY <1>1, <1>2 DEF Parser!Planes

ReadableTables(f) ==
  f.header /\ f.jobLut /\ f.shell /\ \A p \in DOMAIN f.planes : f.planes[p].lut

\* openFile succeeds exactly on a file whose header, shell and tables can be read.
LEMMA OpensReadable ==
  ASSUME NEW f \in ReadableParts, Parser!openFile(f)
  PROVE  /\ opened' <=> ReadableTables(f)
         /\ opened' => m_file' = f /\ m_workPlaneLuts' = Parser!Planes(f)
<1> DEFINE pos == Parser!Planes(f)
<1>1. /\ f.planes \in Seq(ReadablePlanes) /\ Len(f.planes) \in Nat
      /\ pos \in Seq({f} \X Nat) /\ Len(pos) = Len(f.planes)
      /\ \A p \in 1 .. Len(f.planes) : pos[p] = << f, p >>
  BY PositionsOf
<1>2. f # NoFile /\ {f.header, f.jobLut, f.shell} \subseteq BOOLEAN
  BY ChainAssumption DEF ToolsFit, ReadableParts
<1>3. Parser!ShellRead(f) <=> f.header /\ f.jobLut /\ f.shell
  <2>1. \A part \in BOOLEAN : Parser!Parses(<< part >>, FALSE) <=> part
    BY DEF Parser!Parses, Parser!Cleared, Parser!Range
  <2> QED
    BY <1>2, <2>1 DEF Parser!ShellRead, Parser!LutRead, Parser!HeaderRead
<1>4. CASE ~Parser!ShellRead(f)
  <2>1. ~opened'
    BY <1>4 DEF Parser!openFile
  <2> QED
    BY <1>3, <1>4, <2>1 DEF ReadableTables
<1>5. CASE Parser!ShellRead(f)
  <2>1. Parser!LutRead(f)
    BY <1>5 DEF Parser!ShellRead
  <2>2. m_jobLut' = pos /\ m_file' = f
    <3>1. m_jobLut' = << >> \o pos
      BY <2>1 DEF Parser!openFile, Parser!clearMessage
    <3> HIDE DEF pos
    <3> QED
      BY <1>1, <3>1 DEF Parser!openFile
  <2>3. PICK n \in 0 .. Len(pos) :
          StopsAt(pos, n) /\ Parser!parseAllWorkPlaneLuts(pos) = SubSeq(pos, 1, n)
    BY <1>1, TablesStop
  <2>4. m_workPlaneLuts' = SubSeq(pos, 1, n) /\ Len(SubSeq(pos, 1, n)) = n
    <3>1. m_workPlaneLuts' = << >> \o SubSeq(pos, 1, n)
      BY <1>5, <2>2, <2>3 DEF Parser!openFile, Parser!clearMessage
    <3> HIDE DEF pos
    <3>2. SubSeq(pos, 1, n) \in Seq({f} \X Nat) /\ Len(SubSeq(pos, 1, n)) = n
      BY <1>1
    <3> QED
      BY <3>1, <3>2
  <2>5. opened' <=> n = Len(pos)
    BY <1>5, <2>2, <2>4 DEF Parser!openFile
  <2>6. \A k \in 0 .. Len(pos) : AllRead(pos, k) <=> \A p \in 1 .. k : f.planes[p].lut
    <3> HIDE DEF pos
    <3>1. \A p \in 1 .. Len(pos) : pos[p] = << f, p >>
      BY <1>1
    <3>2. \A p \in 1 .. Len(pos) : pos[p][1].planes[pos[p][2]].lut <=> f.planes[p].lut
      BY <3>1
    <3>3. Len(pos) \in Nat
      BY <1>1
    <3>4. \A k \in 0 .. Len(pos) : 1 .. k \subseteq 1 .. Len(pos)
      BY <3>3
    <3> QED
      BY ONLY <3>2, <3>4 DEF AllRead
  <2>7. n = Len(pos) <=> \A p \in DOMAIN f.planes : f.planes[p].lut
    <3> HIDE DEF pos
    <3>1. DOMAIN f.planes = 1 .. Len(pos) /\ Len(pos) \in Nat
      BY <1>1
    <3>2. CASE n = Len(pos)
      BY <2>3, <2>6, <3>1, <3>2 DEF StopsAt
    <3>3. CASE n # Len(pos)
      <4>1. n + 1 \in 0 .. Len(pos)
        BY <3>1, <3>3
      <4>2. ~AllRead(pos, n + 1)
        BY <2>3, <3>3 DEF StopsAt
      <4>3. ~(\A p \in 1 .. n + 1 : f.planes[p].lut)
        BY <2>6, <4>1, <4>2
      <4> QED
        BY <3>1, <3>3, <4>1, <4>3
    <3> QED
      BY <3>2, <3>3
  <2>8. SubSeq(pos, 1, Len(pos)) = pos
    <3> HIDE DEF pos
    <3> QED
      BY <1>1
  <2> QED
    BY <1>3, <1>5, <2>2, <2>4, <2>5, <2>7, <2>8 DEF ReadableTables
<1> QED
  BY <1>4, <1>5

\* A plane is returned exactly if it can be read as a whole.
LEMMA ReadsWholePlane ==
  ASSUME NEW f \in ReadableParts, m_file = f, m_workPlaneLuts = Parser!Planes(f),
         NEW n \in 0 .. Len(f.planes) - 1, Parser!getWorkPlane(n), f.planes[n + 1].lut
  PROVE  /\ result'.at = << f, n + 1 >>
         /\ result'.kind = "plane" <=> WholePlane(f.planes[n + 1])
         /\ UNCHANGED << m_file, m_workPlaneLuts, opened >>
<1> DEFINE plane == f.planes[n + 1]
           parts == << plane.shell >> \o plane.blocks
<1>1. /\ f.planes \in Seq(ReadablePlanes) /\ Len(f.planes) \in Nat
      /\ Len(Parser!Planes(f)) = Len(f.planes)
      /\ \A p \in 1 .. Len(f.planes) : Parser!Planes(f)[p] = << f, p >>
  BY PositionsOf
<1>2. n + 1 \in 1 .. Len(f.planes) /\ plane \in ReadablePlanes
  BY <1>1
<1>3. f # NoFile /\ n \in 0 .. Len(m_workPlaneLuts) - 1 /\ m_workPlaneLuts[n + 1] = << f, n + 1 >>
  BY <1>1, <1>2, ChainAssumption DEF ToolsFit
<1>4. result' = [call |-> "getWorkPlane", at |-> << f, n + 1 >>, index |-> n,
                 kind |-> IF Parser!PlaneParses(plane, failed)
                          THEN "plane" ELSE "FileParseError"]
  BY <1>3 DEF Parser!getWorkPlane
<1>5. Parser!PlaneParses(plane, failed) <=> WholePlane(plane)
  <2> HIDE DEF plane
  <2>1. plane.blocks \in Seq(BOOLEAN) /\ plane.shell \in BOOLEAN
    BY <1>2 DEF ReadablePlanes
  <2>2. DOMAIN parts = 1 .. Len(plane.blocks) + 1 /\ parts[1] = plane.shell
        /\ \A b \in DOMAIN plane.blocks : parts[b + 1] = plane.blocks[b]
    BY <2>1
  <2>3. DOMAIN plane.blocks = 1 .. Len(plane.blocks) /\ Len(plane.blocks) \in Nat
    BY <2>1
  <2>4. Parser!PlaneParses(plane, failed) <=> \A part \in Parser!Range(parts) : part
    BY Zenon DEF Parser!PlaneParses, Parser!Parses, Parser!Cleared
  <2> HIDE DEF parts
  <2>5. (\A part \in Parser!Range(parts) : part) <=> (\A m \in DOMAIN parts : parts[m])
    BY SMT DEF Parser!Range
  <2>6. ASSUME \A m \in DOMAIN parts : parts[m]
        PROVE  plane.shell /\ \A b \in DOMAIN plane.blocks : plane.blocks[b]
    <3>1. 1 \in DOMAIN parts /\ \A b \in DOMAIN plane.blocks : b + 1 \in DOMAIN parts
      BY <2>2, <2>3
    <3> QED
      BY <2>2, <2>6, <3>1, Zenon
  <2>7. ASSUME plane.shell, \A b \in DOMAIN plane.blocks : plane.blocks[b],
               NEW m \in DOMAIN parts
        PROVE  parts[m]
    <3>1. CASE m = 1
      BY <2>2, <2>7, <3>1, Zenon
    <3>2. CASE m # 1
      <4>1. m - 1 \in DOMAIN plane.blocks /\ (m - 1) + 1 = m
        BY <2>2, <2>3, <3>2
      <4>2. parts[(m - 1) + 1] = plane.blocks[m - 1]
        BY <2>2, <4>1, Zenon
      <4> QED
        BY <2>7, <4>1, <4>2, Zenon
    <3> QED
      BY <3>1, <3>2
  <2>8. plane.lut
    BY DEF plane
  <2> QED
    BY <2>4, <2>5, <2>6, <2>7, <2>8, Zenon DEF WholePlane
<1> QED
  BY <1>4, <1>5 DEF Parser!getWorkPlane
-----------------------------------------------------------------------------
(* The tool chain.                                                         *)

Opened == {"process", "getWorkPlane", "begin", "blocks", "wait", "recoat", "waited"}

\* The print program has not been started, or prints what the generator has left.
StartInv ==
  /\ started \in BOOLEAN
  /\ ~started => Init
  /\ started => /\ genStep = "returned" /\ job = JobOf(planes)
                /\ disk # NoFile =>
                     disk \in ReadableParts /\ Len(disk.planes) = Len(planes)

\* Once openFile has succeeded, the tables are those of the file.
OpenInv ==
  pc \in Opened =>
    started /\ TablesIntact /\ m_file = disk /\ m_workPlaneLuts = Parser!Planes(disk)

\* Every layer that was handed to the board, or is prepared, was read as a whole.
ReadInv ==
  /\ i > 0 => TablesIntact /\ \A p \in 1 .. i : WholePlane(disk.planes[p])
  /\ pc \in {"begin", "blocks", "wait", "recoat", "waited"} /\ i < NumLayers =>
       WholePlane(disk.planes[i + 1])
  /\ pc \in {"begin", "blocks"} => result.at = << disk, i + 1 >>

\* What the end of the job says of the file.
VerdictInv ==
  /\ outcome \in {"NoLayers", "AllLayersProcessed"} => Intact
  /\ outcome = "FileParseError" =>
       /\ TablesIntact => ~WholePlane(disk.planes[i + 1])
       /\ ~TablesIntact => i = 0

\* The inductive invariant of the tool chain.
ChainInv == XInv /\ GenInv /\ StartInv /\ OpenInv /\ ReadInv /\ VerdictInv

\* What the generator has written can be a job of the print program.
LEMMA GeneratedJob ==
  ASSUME GenInv
  PROVE  JobOf(planes) \in Jobs /\ JobOf(planes) = SquareJob(Len(planes)) /\ Len(planes) \in Nat
<1>1. planes \in Seq({Square}) /\ Len(planes) \in Nat /\ Len(planes) \in 0 .. NumberOfLayers
      /\ NumberOfLayers \in LayerArgs \cup {0}
  BY DEF GenInv
<1>2. planes = [l \in 1 .. Len(planes) |-> CreateWorkPlaneForLayer]
  BY <1>1 DEF Square
<1> QED
  BY <1>1, <1>2, ChainAssumption DEF ToolsFit, SquareJob

\* Before anything runs.
LEMMA InitChain == ChainInit => ChainInv
<1> SUFFICES ASSUME ChainInit PROVE ChainInv
  OBVIOUS
<1>1. Init
  BY DEF ChainInit
<1>2. XInv
  BY <1>1, InitX
<1>3. GenInv
  <2>1. planes = << >> /\ << >> \in Seq({Square})
    BY DEF ChainInit, GeneratorInit
  <2> QED
    BY <2>1 DEF ChainInit, GeneratorInit, GenInv, ExitZeroMeansComplete
<1>4. started \in BOOLEAN /\ ~started
  BY Zenon DEF ChainInit
<1>5. StartInv /\ OpenInv /\ ReadInv /\ VerdictInv
  BY <1>1, <1>4 DEF StartInv, OpenInv, ReadInv, VerdictInv, Opened, Init
<1> QED
  BY <1>2, <1>3, <1>5 DEF ChainInv

\* No step of the print program changes the job.
LEMMA JobKept == ASSUME [Next]_vars PROVE job' = job
<1>1. CASE Host
  BY <1>1 DEF Host, ConnectAndSetupBoard, OpenFile, ProcessOvfJob, GetWorkPlane, BeginLayer,
              TranslateBlock, MissingParams, AddCommand, EndLayer, NoPreviousLayer, PollBusy,
              PreviousLayerDone, Recoat, ExecuteLayer, AllLayersProcessed, idleVars, vars
<1>2. CASE ~Host
  BY <1>2 DEF Next, PromptForExit, Board, Execute, EndList, Finished, idleVars, vars, hostVars
<1> QED
  BY <1>1, <1>2

\* The generator runs.
LEMMA GenerateChain ==
  ASSUME ChainInv, Generate, UNCHANGED << vars, started, disk, parserVars >> PROVE ChainInv'
<1>1. ~started
  BY DEF ChainInv, StartInv, Generate, Parse, StartWritePartial, AppendWorkPlane, Dispose
<1>2. Inv' /\ XInv'
  <2>1. Inv'
    BY NextInv DEF ChainInv, XInv
  <2> QED
    BY <2>1, StutterX DEF ChainInv
<1>3. GenInv'
  BY GenerateStep DEF ChainInv
<1>4. Init'
  BY <1>1 DEF ChainInv, StartInv, Init, BoardInit, HandlerInit, vars, boardVars, handlerVars,
              loopVars, endVars, scanVars
<1>5. StartInv'
  BY <1>1, <1>4 DEF ChainInv, StartInv
<1>6. OpenInv' /\ ReadInv' /\ VerdictInv'
  BY <1>4 DEF OpenInv, ReadInv, VerdictInv, Opened, Init
<1> QED
  BY <1>2, <1>3, <1>5, <1>6 DEF ChainInv

\* The print program is started.
LEMMA StartChain == ASSUME ChainInv, StartPrint PROVE ChainInv'
<1>1. Init
  BY DEF ChainInv, StartInv, StartPrint
<1>2. job' = JobOf(planes) /\ planes' = planes /\ JobOf(planes) \in Jobs /\ Len(planes) \in Nat
  BY GeneratedJob DEF StartPrint, ChainInv, generatorVars
<1>3. Init'
  BY <1>1, <1>2 DEF StartPrint, Init, BoardInit, HandlerInit, boardVars, handlerVars, loopVars,
                    endVars, scanVars
<1>4. XInv'
  BY <1>3, InitX, PTL
<1>5. GenInv'
  BY DEF StartPrint, ChainInv, GenInv, ExitZeroMeansComplete, generatorVars
<1>6. disk' # NoFile => disk' \in ReadableParts /\ Len(disk'.planes) = Len(planes)
  <2> SUFFICES ASSUME disk' # NoFile
               PROVE  disk' \in ReadableParts /\ Len(disk'.planes) = Len(planes)
    OBVIOUS
  <2>1. PICK damaged : disk' = Image(damaged)
    BY DEF StartPrint
  <2>2. DOMAIN planes = 1 .. Len(planes)
    BY DEF ChainInv, GenInv
  <2> DEFINE good(p, part) == << p, part >> \notin damaged
             plane(p) == [lut |-> good(p, "lut"), shell |-> good(p, "shell"),
                          blocks |-> << good(p, "contour"), good(p, "hatches") >>]
             all == [p \in 1 .. Len(planes) |-> plane(p)]
  <2>3. disk' = [header |-> good(0, "header"),
                 jobLut |-> ovfFile = "complete" /\ good(0, "jobLut"),
                 shell |-> good(0, "shell"), planes |-> all]
    BY <2>1, <2>2 DEF Image
  <2>4. \A p, part : good(p, part) \in BOOLEAN
    BY Zenon
  <2>5. (ovfFile = "complete" /\ good(0, "jobLut")) \in BOOLEAN
    BY Zenon
  <2> HIDE DEF good
  <2>6. \A p : << good(p, "contour"), good(p, "hatches") >> \in Seq(BOOLEAN)
    BY <2>4
  <2>7. \A p : plane(p) \in ReadablePlanes
    BY <2>4, <2>6 DEF ReadablePlanes
  <2> HIDE DEF plane
  <2>8. all \in Seq(ReadablePlanes) /\ Len(all) = Len(planes)
    BY <1>2, <2>7
  <2> HIDE DEF all
  <2>9. disk' \in ReadableParts
    BY <2>3, <2>4, <2>5, <2>8 DEF ReadableParts, ReadablePlanes
  <2>10. disk'.planes = all
    BY <2>3
  <2> QED
    BY <2>8, <2>9, <2>10
<1>7. StartInv'
  <2>1. started' = TRUE /\ genStep' = "returned"
    BY DEF StartPrint, generatorVars
  <2> QED
    BY <1>2, <1>6, <2>1 DEF StartInv
<1>8. OpenInv' /\ ReadInv' /\ VerdictInv'
  BY <1>3 DEF OpenInv, ReadInv, VerdictInv, Opened, Init
<1> QED
  BY <1>4, <1>5, <1>7, <1>8 DEF ChainInv

\* The layers of the job are the planes of the file.
LEMMA PlanesAreLayers ==
  ASSUME ChainInv, started, disk # NoFile
  PROVE  /\ disk \in ReadableParts /\ Len(disk.planes) = NumLayers /\ NumLayers \in Nat
         /\ DOMAIN disk.planes = 1 .. NumLayers
<1>1. disk \in ReadableParts /\ Len(disk.planes) = Len(planes) /\ job = JobOf(planes)
  BY DEF ChainInv, StartInv
<1>2. NumLayers = Len(planes) /\ Len(planes) \in Nat
  BY <1>1 DEF NumLayers, JobOf, ChainInv, GenInv
<1>3. disk.planes \in Seq(ReadablePlanes)
  BY <1>1, PositionsOf
<1> QED
  BY <1>1, <1>2, <1>3

\* A step of the print program, as far as the generator and the start go.
LEMMA PrintStep ==
  ASSUME ChainInv, started, Next, UNCHANGED written
  PROVE  /\ XInv' /\ GenInv' /\ StartInv' /\ started' /\ disk' = disk /\ job' = job
         /\ NumLayers' = NumLayers /\ (TablesIntact' <=> TablesIntact) /\ (Intact' <=> Intact)
<1>1. XInv'
  BY NextX DEF ChainInv
<1>2. job' = job /\ disk' = disk /\ started' = started
  BY JobKept DEF written
<1>3. GenInv'
  BY DEF written, generatorVars, ChainInv, GenInv, ExitZeroMeansComplete
<1>4. StartInv'
  BY <1>2 DEF written, generatorVars, ChainInv, StartInv
<1> QED
  BY <1>1, <1>2, <1>3, <1>4 DEF NumLayers, TablesIntact, Intact

\* The file is opened.
LEMMA OpenChain == ASSUME ChainInv, started, OpenTheFile, UNCHANGED written PROVE ChainInv'
<1>1. Next
  BY DEF OpenTheFile, Next, Host
<1>2. /\ XInv' /\ GenInv' /\ StartInv' /\ started' /\ disk' = disk
      /\ (TablesIntact' <=> TablesIntact) /\ (Intact' <=> Intact)
  BY <1>1, PrintStep
<1>3. i = 0 /\ i' = i /\ outcome = "running"
  BY DEF OpenTheFile, OpenFile, loopVars, ChainInv, XInv, Inv, LoopInv
<1>4. opened' <=> TablesIntact
  <2>1. CASE disk = NoFile
    <3>1. ~Parser!ShellRead(disk)
      BY <2>1 DEF Parser!ShellRead, Parser!LutRead, Parser!HeaderRead
    <3> QED
      BY <2>1, <3>1 DEF OpenTheFile, Parser!openFile, TablesIntact
  <2>2. CASE disk # NoFile
    BY <2>2, PlanesAreLayers, OpensReadable DEF OpenTheFile, TablesIntact, ReadableTables
  <2> QED
    BY <2>1, <2>2
<1>5. CASE opened'
  <2>1. pc' = "process" /\ outcome' = outcome
    BY <1>5 DEF OpenTheFile, OpenFile, Continues, Returns, Throws, endVars
  <2>2. m_file' = disk /\ m_workPlaneLuts' = Parser!Planes(disk)
    <3>1. disk # NoFile
      BY <1>4, <1>5 DEF TablesIntact
    <3> QED
      BY <1>5, <3>1, PlanesAreLayers, OpensReadable DEF OpenTheFile
  <2> QED
    BY <1>2, <1>3, <1>4, <1>5, <2>1, <2>2 DEF ChainInv, OpenInv, ReadInv, VerdictInv
<1>6. CASE ~opened'
  <2>1. pc' = "prompt" /\ outcome' = "FileParseError"
    BY <1>3, <1>6 DEF OpenTheFile, OpenFile, Continues, Returns, Throws, endVars
  <2> QED
    BY <1>2, <1>3, <1>4, <1>6, <2>1 DEF ChainInv, OpenInv, ReadInv, VerdictInv, Opened
<1> QED
  BY <1>5, <1>6

\* A plane is read.
LEMMA GetChain == ASSUME ChainInv, started, GetThePlane, UNCHANGED written PROVE ChainInv'
<1>1. Next
  BY DEF GetThePlane, Next, Host
<1>2. /\ XInv' /\ GenInv' /\ StartInv' /\ started' /\ disk' = disk /\ NumLayers' = NumLayers
      /\ (TablesIntact' <=> TablesIntact) /\ (Intact' <=> Intact)
  BY <1>1, PrintStep
<1>3. i \in Nat /\ i < NumLayers /\ i' = i /\ outcome = "running" /\ pc = "getWorkPlane"
  BY DEF GetThePlane, GetWorkPlane, loopVars, ChainInv, XInv, Inv, LoopInv, TypeOK
<1>4. TablesIntact /\ disk # NoFile /\ m_file = disk /\ m_workPlaneLuts = Parser!Planes(disk)
  BY <1>3 DEF ChainInv, OpenInv, Opened, TablesIntact
<1>5. disk \in ReadableParts /\ i \in 0 .. Len(disk.planes) - 1 /\ disk.planes[i + 1].lut
  <2>1. disk \in ReadableParts /\ Len(disk.planes) = NumLayers /\ NumLayers \in Nat
        /\ DOMAIN disk.planes = 1 .. NumLayers
    BY <1>4, PlanesAreLayers
  <2>2. i + 1 \in DOMAIN disk.planes
    BY <1>3, <2>1
  <2> QED
    BY <1>3, <1>4, <2>1, <2>2 DEF TablesIntact
<1>6. /\ result'.at = << disk, i + 1 >>
      /\ result'.kind = "plane" <=> WholePlane(disk.planes[i + 1])
      /\ UNCHANGED << m_file, m_workPlaneLuts >>
  BY <1>4, <1>5, ReadsWholePlane DEF GetThePlane
<1>7. CASE result'.kind = "plane"
  <2>1. pc' = "begin" /\ outcome' = outcome
    BY <1>7 DEF GetThePlane, GetWorkPlane, Continues, Throws, endVars
  <2>2. WholePlane(disk.planes[i + 1])
    BY <1>6, <1>7
  <2> QED
    BY <1>2, <1>3, <1>4, <1>6, <2>1, <2>2 DEF ChainInv, OpenInv, ReadInv, VerdictInv
<1>8. CASE result'.kind # "plane"
  <2>1. pc' = "prompt" /\ outcome' = "FileParseError"
    BY <1>3, <1>8 DEF GetThePlane, GetWorkPlane, Continues, Throws, endVars
  <2>2. ~WholePlane(disk.planes[i + 1])
    BY <1>6, <1>8
  <2> QED
    BY <1>2, <1>3, <1>4, <1>6, <2>1, <2>2 DEF ChainInv, OpenInv, ReadInv, VerdictInv, Opened
<1> QED
  BY <1>7, <1>8

AfterReading == {"begin", "blocks", "wait", "recoat", "waited"}

\* The other steps that leave the loop counter alone.
LEMMA MovesChain ==
  ASSUME ChainInv, started, Next, UNCHANGED << written, parserVars >>, i' = i,
         pc' \in Opened => pc \in Opened,
         pc' \in AfterReading => pc \in AfterReading,
         pc' \in {"begin", "blocks"} => pc \in {"begin", "blocks"},
         \/ outcome' = outcome
         \/ outcome' \notin {"NoLayers", "AllLayersProcessed", "FileParseError"}
         \/ outcome' \in {"NoLayers", "AllLayersProcessed"} /\ Intact
  PROVE  ChainInv'
<1>1. /\ XInv' /\ GenInv' /\ StartInv' /\ started' /\ disk' = disk /\ NumLayers' = NumLayers
      /\ (TablesIntact' <=> TablesIntact) /\ (Intact' <=> Intact)
  BY PrintStep DEF written
<1>2. m_file' = m_file /\ m_workPlaneLuts' = m_workPlaneLuts /\ result' = result
  BY DEF parserVars
<1>3. OpenInv'
  BY <1>1, <1>2 DEF ChainInv, OpenInv
<1>4. ReadInv'
  BY <1>1, <1>2 DEF ChainInv, ReadInv, AfterReading
<1>5. VerdictInv'
  BY <1>1 DEF ChainInv, VerdictInv
<1> QED
  BY <1>1, <1>3, <1>4, <1>5 DEF ChainInv

\* With the last layer read, the file is intact.
LEMMA IntactWhenAllRead ==
  ASSUME ChainInv, started, pc \in Opened, i = NumLayers PROVE Intact
<1>1. TablesIntact /\ disk # NoFile
  BY DEF ChainInv, OpenInv, TablesIntact
<1>2. DOMAIN disk.planes = 1 .. NumLayers /\ NumLayers \in Nat
  BY <1>1, PlanesAreLayers
<1>3. CASE i > 0
  BY <1>1, <1>2, <1>3 DEF ChainInv, ReadInv, Intact
<1>4. CASE i = 0
  BY <1>1, <1>2, <1>4 DEF Intact
<1> QED
  BY <1>2, <1>3, <1>4

\* The steps of the host that do not call the parser.
LEMMA HostChain ==
  ASSUME ChainInv, started, Host, pc \notin {"open", "getWorkPlane"},
         UNCHANGED << written, parserVars >>
  PROVE  ChainInv'
<1>1. Next
  BY DEF Next
<1> USE DEF Continues, Returns, Throws, endVars, loopVars, Opened, AfterReading
<1>2. CASE ConnectAndSetupBoard
  BY <1>1, <1>2, MovesChain DEF ConnectAndSetupBoard
<1>3. CASE ProcessOvfJob
  <2>1. i = 0
    BY <1>3 DEF ProcessOvfJob, ChainInv, XInv, Inv, LoopInv
  <2>2. NumLayers = 0 => Intact
    BY <1>3, <2>1, IntactWhenAllRead DEF ProcessOvfJob
  <2> QED
    BY <1>1, <1>3, <2>2, MovesChain DEF ProcessOvfJob
<1>4. CASE BeginLayer
  BY <1>1, <1>4, MovesChain DEF BeginLayer
<1>5. CASE TranslateBlock
  BY <1>1, <1>5, MovesChain DEF TranslateBlock
<1>6. CASE MissingParams
  BY <1>1, <1>6, MovesChain DEF MissingParams
<1>7. CASE AddCommand
  BY <1>1, <1>7, MovesChain DEF AddCommand
<1>8. CASE EndLayer
  BY <1>1, <1>8, MovesChain DEF EndLayer
<1>9. CASE NoPreviousLayer
  BY <1>1, <1>9, MovesChain DEF NoPreviousLayer
<1>10. CASE PollBusy
  BY <1>1, <1>10, MovesChain DEF PollBusy, vars
<1>11. CASE PreviousLayerDone
  BY <1>1, <1>11, MovesChain DEF PreviousLayerDone
<1>12. CASE Recoat
  BY <1>1, <1>12, MovesChain DEF Recoat
<1>13. CASE AllLayersProcessed
  <2>1. Intact
    BY <1>13, IntactWhenAllRead DEF AllLayersProcessed
  <2> QED
    BY <1>1, <1>13, <2>1, MovesChain DEF AllLayersProcessed
<1>14. CASE ExecuteLayer
  <2>1. /\ XInv' /\ GenInv' /\ StartInv' /\ started' /\ disk' = disk /\ NumLayers' = NumLayers
        /\ (TablesIntact' <=> TablesIntact) /\ (Intact' <=> Intact)
    BY <1>1, PrintStep DEF written
  <2>2. /\ pc = "waited" /\ i < NumLayers /\ i' = i + 1 /\ i \in Nat /\ outcome' = outcome
        /\ outcome = "running"
        /\ \/ pc' = "getWorkPlane"
           \/ pc' = "wait" /\ ~(i' < NumLayers)
    BY <1>14 DEF ExecuteLayer, ChainInv, XInv, Inv, LoopInv, TypeOK
  <2>3. TablesIntact /\ m_file' = disk /\ m_workPlaneLuts' = Parser!Planes(disk)
    BY <2>2 DEF parserVars, ChainInv, OpenInv
  <2>4. WholePlane(disk.planes[i + 1])
    BY <2>2 DEF ChainInv, ReadInv
  <2>5. \A p \in 1 .. i + 1 : WholePlane(disk.planes[p])
    <3>1. \A p \in 1 .. i : WholePlane(disk.planes[p])
      BY <2>2 DEF ChainInv, ReadInv
    <3> QED
      BY <2>2, <2>4, <3>1
  <2>6. OpenInv'
    BY <2>1, <2>3 DEF OpenInv
  <2>7. ReadInv'
    BY <2>1, <2>2, <2>3, <2>5 DEF ReadInv
  <2>8. VerdictInv'
    BY <2>2 DEF VerdictInv
  <2> QED
    BY <2>1, <2>6, <2>7, <2>8 DEF ChainInv
<1>15. ~OpenFile /\ ~GetWorkPlane
  BY DEF OpenFile, GetWorkPlane
<1> QED
  BY <1>2, <1>3, <1>4, <1>5, <1>6, <1>7, <1>8, <1>9, <1>10, <1>11, <1>12, <1>13, <1>14, <1>15
     DEF Host

\* Nothing of the tool chain changes.
LEMMA StutterChain == ASSUME ChainInv, UNCHANGED chainVars PROVE ChainInv'
<1> USE DEF chainVars
<1>1. XInv'
  BY NextX DEF ChainInv
<1>2. GenInv'
  BY DEF ChainInv, GenInv, ExitZeroMeansComplete, generatorVars
<1>3. job' = job /\ i' = i /\ pc' = pc /\ outcome' = outcome
  BY DEF vars, loopVars, endVars
<1>4. StartInv'
  <2>1. Init' <=> Init
    BY DEF Init, BoardInit, HandlerInit, vars, boardVars, handlerVars, loopVars, endVars, scanVars
  <2> QED
    BY <1>3, <2>1 DEF ChainInv, StartInv, generatorVars
<1>5. disk' = disk /\ m_file' = m_file /\ m_workPlaneLuts' = m_workPlaneLuts /\ result' = result
      /\ started' = started
  BY DEF parserVars
<1>6. OpenInv' /\ ReadInv' /\ VerdictInv'
  BY <1>3, <1>5 DEF ChainInv, OpenInv, ReadInv, VerdictInv, TablesIntact, Intact, NumLayers
<1> QED
  BY <1>1, <1>2, <1>4, <1>6 DEF ChainInv

\* Every step of the tool chain keeps its invariant.
LEMMA NextChain == ASSUME ChainInv, [ChainNext]_chainVars PROVE ChainInv'
<1>1. CASE UNCHANGED chainVars
  BY <1>1, StutterChain
<1>2. CASE Generate /\ UNCHANGED << vars, started, disk, parserVars >>
  BY <1>2, GenerateChain
<1>3. CASE StartPrint
  BY <1>3, StartChain
<1>4. CASE HostRuns
  <2>1. CASE OpenTheFile
    BY <1>4, <2>1, OpenChain DEF HostRuns
  <2>2. CASE GetThePlane
    BY <1>4, <2>2, GetChain DEF HostRuns
  <2>3. CASE Host /\ pc \notin {"open", "getWorkPlane"} /\ UNCHANGED parserVars
    BY <1>4, <2>3, HostChain DEF HostRuns
  <2> QED
    BY <1>4, <2>1, <2>2, <2>3 DEF HostRuns
<1>5. CASE BoardRuns
  <2>1. Next
    BY <1>5 DEF BoardRuns, Next
  <2>2. pc' = pc /\ i' = i /\ outcome' = outcome
    BY <1>5 DEF BoardRuns, Board, Execute, EndList, hostVars, loopVars, endVars
  <2> QED
    BY <1>5, <2>1, <2>2, MovesChain DEF BoardRuns
<1>6. CASE Ends
  <2>1. Next
    BY <1>6 DEF Ends, Next
  <2>2. (pc' = pc \/ pc' = "exited") /\ i' = i /\ outcome' = outcome
    BY <1>6 DEF Ends, PromptForExit, Finished, Continues, vars, loopVars, endVars
  <2> QED
    BY <1>6, <2>1, <2>2, MovesChain DEF Ends, Opened, AfterReading
<1> QED
  BY <1>1, <1>2, <1>3, <1>4, <1>5, <1>6 DEF ChainNext

\* Generator, parser and print program agree in every state of the tool chain.
THEOREM ChainInvariance == ChainSpec => []ChainInv
<1>1. ChainInv /\ [ChainNext]_chainVars => ChainInv'
  BY NextChain
<1> QED
  BY <1>1, InitChain, PTL DEF ChainSpec

\* The tool never asks for a negative number of layers and appends no more planes
\* than were asked for, all of them the square.
THEOREM GeneratorTypes == ChainSpec => []GeneratorTypeOK
<1>1. ChainInv => GeneratorTypeOK
  <2> SUFFICES ASSUME ChainInv PROVE GeneratorTypeOK
    OBVIOUS
  <2>1. \A p \in DOMAIN planes : planes[p] = CreateWorkPlaneForLayer
    BY DEF ChainInv, GenInv, Square
  <2> QED
    BY <2>1 DEF ChainInv, GenInv, GeneratorTypeOK
<1> QED
  BY <1>1, ChainInvariance, PTL

\* Exit code 0 of the generator stands for a complete file with all layers.
THEOREM ExitZero == ChainSpec => []ExitZeroMeansComplete
<1>1. ChainInv => ExitZeroMeansComplete
  BY DEF ChainInv, GenInv
<1> QED
  BY <1>1, ChainInvariance, PTL
-----------------------------------------------------------------------------
(* What the tool chain exposes.                                            *)

\* The square is well formed and has a line for every side and every hatch.
LEMMA LinesOfTheSquare ==
  /\ Len(Square) = 2 /\ \A b \in 1 .. 2 : WellFormed(Square[b]) /\ Square[b].key = 0
  /\ LineCount(Square[1]) = 4 /\ LineCount(Square[2]) = SQUARE_SIZE \div HATCH_SPACING + 1
  /\ SQUARE_SIZE \div HATCH_SPACING \in Nat
<1> DEFINE h == SQUARE_SIZE \div 2
           sq == SquareDefinition(0, 0, SQUARE_SIZE)
           H == SQUARE_SIZE \div HATCH_SPACING + 1
<1>1. h \in Nat /\ SQUARE_SIZE = 2 * h /\ SQUARE_SIZE \in Nat
  BY GeneratorAssumption
<1>2. SQUARE_SIZE \div HATCH_SPACING \in Nat /\ H \in Nat
  BY GeneratorAssumption
<1>3. sq.YMax - sq.YMin = SQUARE_SIZE
  <2>1. sq.YMax = 0 + h /\ sq.YMin = 0 - h
    BY DEF SquareDefinition
  <2> HIDE DEF h, sq
  <2> QED
    BY <1>1, <2>1
<1> HIDE DEF sq
<1>4. Square = << CreateContourBlock(sq), CreateHatchBlock(sq, HATCH_SPACING) >>
  BY DEF Square, CreateWorkPlaneForLayer, CreateHatchedSquareGeometry, sq
<1>5. /\ Square[1].kind = "line_sequence" /\ Square[1].key = 0 /\ Len(Square[1].points) = 10
  BY <1>4 DEF CreateContourBlock, VectorBlock
<1>6. /\ Square[2].kind = "hatches" /\ Square[2].key = 0 /\ Len(Square[2].points) = 4 * H
  <2>1. (sq.YMax - sq.YMin) \div HATCH_SPACING + 1 = H
    BY <1>3
  <2> HIDE DEF H
  <2> DEFINE x(n) == CASE n % 4 = 1 -> sq.XMin
                       [] n % 4 = 3 -> sq.XMax
                       [] OTHER     -> sq.YMin + ((n - 1) \div 4) * HATCH_SPACING
  <2>2. Square[2] = [key |-> 0, kind |-> "hatches", points |-> [n \in 1 .. 4 * H |-> x(n)]]
    BY <1>4, <2>1 DEF CreateHatchBlock, VectorBlock
  <2> HIDE DEF x
  <2>3. 4 * H \in Nat
    BY <1>2
  <2> DEFINE pts == [n \in 1 .. 4 * H |-> x(n)]
  <2>4. Len(pts) = 4 * H
    BY <2>3
  <2>5. Square[2] = [key |-> 0, kind |-> "hatches", points |-> pts]
    BY <2>2
  <2> HIDE DEF pts
  <2> QED
    BY <2>4, <2>5
<1>7. WellFormed(Square[1]) /\ LineCount(Square[1]) = 4
  BY <1>5 DEF WellFormed, LineCount, Vertices
<1>8. WellFormed(Square[2]) /\ LineCount(Square[2]) = H
  <2> HIDE DEF H
  <2>1. ((4 * H) % 4) = 0 /\ ((4 * H) \div 2) \div 2 = H
    BY <1>2
  <2> QED
    BY <1>6, <2>1 DEF WellFormed, LineCount, Vertices
<1>9. Len(Square) = 2
  BY <1>4
<1>10. \A b \in 1 .. 2 : b = 1 \/ b = 2
  OBVIOUS
<1> QED
  BY <1>2, <1>5, <1>6, <1>7, <1>8, <1>9, <1>10

\* What one layer of the square asks for.
LEMMA SquarePlan ==
  ASSUME NEW j \in Jobs, j.params = CreateJobShell, Square \in Seq(Blocks)
  PROVE  /\ LayerPart(j, Square, Len(Square)) \in Seq(Items)
         /\ Len(LayerPart(j, Square, Len(Square))) = LinesPerLayer
         /\ LayerPart(j, Square, Len(Square)) =
              BlockPlanOf(j, Square[1]) \o BlockPlanOf(j, Square[2])
         /\ \A b \in 1 .. 2 :
              /\ BlockPlanOf(j, Square[b]) \in Seq(Items)
              /\ Len(BlockPlanOf(j, Square[b])) = LineCount(Square[b])
              /\ \A n \in 1 .. LineCount(Square[b]) :
                   BlockPlanOf(j, Square[b])[n] =
                     [line |-> LineAt(Square[b], n), params |-> CreateJobShell[0]]
<1> DEFINE part(n) == LayerPart(j, Square, n)
           plan(b) == BlockPlanOf(j, Square[b])
<1>1. Len(Square) = 2 /\ \A b \in 1 .. 2 : Square[b] \in Blocks /\ Square[b].key = 0
  <2>1. Len(Square) = 2 /\ \A b \in 1 .. 2 : Square[b].key = 0
    BY LinesOfTheSquare
  <2>2. \A b \in 1 .. Len(Square) : Square[b] \in Blocks
    OBVIOUS
  <2> QED
    BY <2>1, <2>2
<1>2. part(0) = << >> /\ (\A n \in 0 .. 2 : part(n) \in Seq(Items))
      /\ \A n \in 0 .. 1 : part(n + 1) = part(n) \o plan(n + 1)
  <2>1. /\ LayerPart(j, Square, 0) = << >>
        /\ \A n \in 0 .. Len(Square) : LayerPart(j, Square, n) \in Seq(Items)
        /\ \A n \in 0 .. Len(Square) - 1 :
             LayerPart(j, Square, n + 1) =
               LayerPart(j, Square, n) \o BlockPlanOf(j, Square[n + 1])
    BY LayerPartStep
  <2> QED
    BY <1>1, <2>1
<1>3. \A b \in 1 .. 2 :
        /\ plan(b) \in Seq(Items) /\ Len(plan(b)) = LineCount(Square[b])
        /\ \A n \in 1 .. LineCount(Square[b]) :
             plan(b)[n] = [line |-> LineAt(Square[b], n), params |-> CreateJobShell[0]]
  <2> SUFFICES ASSUME NEW b \in 1 .. 2
               PROVE  /\ plan(b) \in Seq(Items) /\ Len(plan(b)) = LineCount(Square[b])
                      /\ \A n \in 1 .. LineCount(Square[b]) :
                           plan(b)[n] = [line |-> LineAt(Square[b], n),
                                         params |-> CreateJobShell[0]]
    OBVIOUS
  <2>1. Square[b].key \in DOMAIN j.params /\ Square[b].key = 0
    BY <1>1 DEF CreateJobShell
  <2>2. j.params[Square[b].key] \in Params
    BY <2>1, JobTypes
  <2> QED
    BY <1>1, <2>1, <2>2, PlanOfBlock DEF BlockPlanOf
<1> HIDE DEF part, plan
<1>4. part(1) = << >> \o plan(1) /\ part(2) = part(1) \o plan(2)
  <2>1. part(0 + 1) = part(0) \o plan(0 + 1) /\ part(1 + 1) = part(1) \o plan(1 + 1)
    BY <1>2
  <2>2. 0 + 1 = 1 /\ 1 + 1 = 2
    OBVIOUS
  <2>3. part(1) = part(0) \o plan(1) /\ part(2) = part(1) \o plan(2)
    BY ONLY <2>1, <2>2
  <2> QED
    BY <1>2, <2>3
<1>5. Len(part(1)) = LineCount(Square[1]) /\ part(1) \in Seq(Items)
  BY <1>3, <1>4
<1>6. Len(part(2)) = LineCount(Square[1]) + LineCount(Square[2])
  <2>1. Len(part(1) \o plan(2)) = Len(part(1)) + Len(plan(2))
    BY <1>3, <1>5
  <2> QED
    BY <1>3, <1>4, <1>5, <2>1
<1>7. Len(part(2)) = LinesPerLayer
  BY <1>6, LinesOfTheSquare DEF LinesPerLayer
<1>8. part(2) = plan(1) \o plan(2)
  <2>1. << >> \o plan(1) = plan(1)
    BY <1>3
  <2> QED
    BY <1>4, <2>1
<1>9. Len(Square) = 2 /\ part(2) \in Seq(Items)
  BY <1>1, <1>2
<1> QED
  BY ONLY <1>3, <1>7, <1>8, <1>9, Zenon DEF part, plan

\* What n layers of it ask for.
LEMMA SquaresPlan ==
  ASSUME NEW N \in Nat, SquareJob(N) \in Jobs
  PROVE  \A n \in 0 .. N : Len(Planned(SquareJob(N), n, {})) = n * LinesPerLayer
<1> DEFINE j == SquareJob(N)
           none == {}
           plan(n) == Planned(j, n, none)
           T == {n \in Nat : n \in 0 .. N /\ Len(plan(n)) # n * LinesPerLayer}
<1>0. j \in Jobs
  OBVIOUS
<1>1. Len(j.layers) = N /\ j.params = CreateJobShell /\ \A l \in 1 .. N : j.layers[l] = Square
  BY DEF SquareJob, JobOf, Square
<1>2. LinesPerLayer \in Nat
  BY LinesOfTheSquare DEF LinesPerLayer
<1>3. \A l \in 1 .. N : l \notin none
  OBVIOUS
<1> HIDE DEF none, j
<1>4. plan(0) = << >> /\ \A n \in 0 .. N : plan(n) \in Seq(Items)
  <2>1. 0 \in 0 .. N
    OBVIOUS
  <2> QED
    BY <1>0, <1>1, <2>1, PlannedStep
<1>5. SUFFICES ASSUME T # {} PROVE FALSE
  <2>1. \A n \in 0 .. N : n \in Nat
    OBVIOUS
  <2>2. T = {} => \A n \in 0 .. N : Len(plan(n)) = n * LinesPerLayer
    BY <2>1
  <2>3. \A n \in 0 .. N : Planned(SquareJob(N), n, {}) = plan(n)
    BY DEF j, none
  <2> QED
    BY <2>2, <2>3
<1>6. PICK n \in T : \A x \in T : n <= x
  <2>1. T \in SUBSET Nat
    OBVIOUS
  <2> HIDE DEF T
  <2> QED
    BY <1>5, <2>1, Least
<1>7. n # 0
  BY <1>2, <1>4, <1>6
<1>8. n - 1 \in 0 .. N /\ n - 1 < N /\ (n - 1) + 1 = n /\ ~(n <= n - 1) /\ n \in 1 .. N
  BY <1>6, <1>7
<1>9. Len(plan(n - 1)) = (n - 1) * LinesPerLayer
  BY <1>6, <1>8
<1>10. plan(n) = plan(n - 1) \o LayerPart(j, Square, Len(Square))
  <2> DEFINE m == n - 1
  <2>a. m \in 0 .. Len(j.layers) /\ m < Len(j.layers)
    BY <1>1, <1>8
  <2> HIDE DEF m
  <2>1. Planned(j, m + 1, none) =
          Planned(j, m, none) \o
            IF m + 1 \in none THEN << >>
            ELSE LayerPart(j, j.layers[m + 1], Len(j.layers[m + 1]))
    BY ONLY <1>0, <2>a, PlannedStep
  <2>2. m + 1 = n /\ n \notin none /\ j.layers[n] = Square
    BY <1>1, <1>3, <1>8 DEF m
  <2> QED
    BY <2>1, <2>2 DEF m
<1>11. LayerPart(j, Square, Len(Square)) \in Seq(Items)
       /\ Len(LayerPart(j, Square, Len(Square))) = LinesPerLayer
  <2>1. Square \in Seq(Blocks)
    BY <1>0, <1>1, <1>8, JobTypes
  <2> QED
    BY <1>0, <1>1, <2>1, SquarePlan
<1> DEFINE more == LayerPart(j, Square, Len(Square))
<1>12. Len(plan(n)) = (n - 1) * LinesPerLayer + LinesPerLayer
  <2>1. plan(n - 1) \in Seq(Items)
    BY <1>4, <1>8
  <2> HIDE DEF plan, more
  <2>2. Len(plan(n - 1) \o more) = Len(plan(n - 1)) + Len(more)
    BY <1>11, <2>1, Joined DEF more
  <2> QED
    BY <1>9, <1>10, <1>11, <2>2 DEF more
<1>13. (n - 1) * LinesPerLayer + LinesPerLayer = n * LinesPerLayer
  BY <1>2, <1>8
<1> QED
  BY <1>6, <1>12, <1>13

\* On an idle board that has refused nothing, all lines of the layers handed over
\* are exposed.
LEMMA SquaresExposed ==
  ASSUME ChainInv, started, rejected = 0, exec = 0 PROVE Len(exposed) = i * LinesPerLayer
<1>1. job = SquareJob(Len(planes)) /\ SquareJob(Len(planes)) \in Jobs /\ Len(planes) \in Nat
  BY GeneratedJob DEF ChainInv, StartInv
<1>2. NumLayers = Len(planes) /\ \A l \in DOMAIN job.layers : job.layers[l] = Square
  BY <1>1 DEF SquareJob, JobOf, NumLayers, Square
<1>3. WellFormedJob
  BY <1>2, LinesOfTheSquare DEF WellFormedJob
<1>4. i \in 0 .. Len(planes)
  BY <1>1, <1>2 DEF ChainInv, XInv, Inv, LoopInv, TypeOK
<1>5. PICK lost \in SUBSET (1 .. i) :
        Cardinality(lost) = 0 /\ Len(exposed) = Len(Planned(job, i, lost))
  BY <1>3, ExposedPart DEF ChainInv
<1>6. lost = {}
  <2>1. i \in Int
    BY <1>4
  <2> QED
    BY <1>5, <2>1, NoneLost
<1> QED
  BY <1>1, <1>4, <1>5, <1>6, SquaresPlan

\* Damage is noticed before the layer it concerns is exposed, for squares of any
\* size, any number of layers and any one damaged part, as long as the board has
\* refused no list (openFile, getWorkPlane, processOvfJob).
THEOREM DamageStops == ChainSpec => [](rejected = 0 => DamageStopsTheJob)
<1>1. ASSUME ChainInv, rejected = 0 PROVE DamageStopsTheJob
  <2>1. ASSUME outcome = "FileParseError", exec = 0 PROVE Len(exposed) = i * LinesPerLayer
    <3>1. started
      BY <1>1, <2>1 DEF ChainInv, StartInv, Init
    <3> QED
      BY <1>1, <2>1, <3>1, SquaresExposed
  <2>2. ASSUME outcome = "FileParseError", TablesIntact
        PROVE  /\ ~WholePlane(disk.planes[i + 1])
               /\ \A p \in 1 .. i : WholePlane(disk.planes[p])
    <3>1. i \in Nat
      BY <1>1 DEF ChainInv, XInv, Inv, TypeOK
    <3>2. i = 0 => 1 .. i = {}
      OBVIOUS
    <3> QED
      BY <1>1, <2>2, <3>1, <3>2 DEF ChainInv, ReadInv, VerdictInv
  <2>3. pc = "process" => Len(m_workPlaneLuts) = NumLayers
    <3> SUFFICES ASSUME pc = "process" PROVE Len(m_workPlaneLuts) = NumLayers
      OBVIOUS
    <3>1. started /\ disk # NoFile /\ m_workPlaneLuts = Parser!Planes(disk)
      BY <1>1 DEF ChainInv, OpenInv, Opened, TablesIntact
    <3>2. disk \in ReadableParts /\ Len(disk.planes) = NumLayers
      BY <1>1, <3>1, PlanesAreLayers
    <3> QED
      BY <3>1, <3>2, PositionsOf
  <2> QED
    BY <1>1, <2>1, <2>2, <2>3 DEF DamageStopsTheJob, ChainInv, ReadInv, VerdictInv
<1>2. ChainInv => (rejected = 0 => DamageStopsTheJob)
  BY <1>1
<1> QED
  BY <1>2, ChainInvariance, PTL

\* The hatch m of the square is at this height.
HatchAt(m) == -(SQUARE_SIZE \div 2) + (m - 1) * HATCH_SPACING

\* The multiples of the spacing that fit into a length.
LEMMA Multiples ==
  ASSUME NEW size \in Nat, NEW sp \in Nat \ {0}
  PROVE  /\ size \div sp \in Nat
         /\ \A k \in 0 .. size \div sp : k * sp \in 0 .. size /\ (k * sp) % sp = 0
         /\ \A z \in 0 .. size : z % sp = 0 => \E k \in 0 .. size \div sp : z = k * sp
<1> DEFINE q == size \div sp
<1>1. q \in Nat /\ q * sp <= size /\ size < q * sp + sp
  OBVIOUS
<1> HIDE DEF q
<1>2. ASSUME NEW k \in 0 .. q PROVE k * sp \in 0 .. size /\ (k * sp) % sp = 0
  <2>1. k \in Nat /\ k <= q
    BY <1>1
  <2>2. k * sp <= q * sp /\ k * sp \in Nat
    BY <1>1, <2>1
  <2>3. (k * sp) % sp = 0
    BY <2>1
  <2> QED
    BY <1>1, <2>2, <2>3
<1>3. ASSUME NEW z \in 0 .. size, z % sp = 0 PROVE \E k \in 0 .. q : z = k * sp
  <2> DEFINE k == z \div sp
  <2>1. k \in Nat /\ z = k * sp
    BY <1>3
  <2> HIDE DEF k
  <2>2. k <= q
    <3> SUFFICES ASSUME k >= q + 1 PROVE FALSE
      BY <1>1, <2>1
    <3>1. k * sp >= (q + 1) * sp
      BY <1>1, <2>1
    <3>2. (q + 1) * sp = q * sp + sp
      BY <1>1
    <3> QED
      BY <1>1, <2>1, <3>1, <3>2
  <2> QED
    BY <1>1, <2>1, <2>2
<1> QED
  BY <1>1, <1>2, <1>3 DEF q

\* The hatches are at the multiples of the spacing above the lower side.
LEMMA HatchHeights ==
  LET h == SQUARE_SIZE \div 2
      H == SQUARE_SIZE \div HATCH_SPACING + 1
  IN  /\ \A m \in 1 .. H : HatchAt(m) \in {y \in -h .. h : (y + h) % HATCH_SPACING = 0}
      /\ \A y \in {y \in -h .. h : (y + h) % HATCH_SPACING = 0} :
           \E m \in 1 .. H : y = HatchAt(m)
<1> DEFINE h == SQUARE_SIZE \div 2
           sp == HATCH_SPACING
           q == SQUARE_SIZE \div sp
<1>1. h \in Nat /\ SQUARE_SIZE = 2 * h /\ SQUARE_SIZE \in Nat /\ sp \in Nat \ {0}
  BY GeneratorAssumption
<1>2. /\ q \in Nat
      /\ \A k \in 0 .. q : k * sp \in 0 .. SQUARE_SIZE /\ (k * sp) % sp = 0
      /\ \A z \in 0 .. SQUARE_SIZE : z % sp = 0 => \E k \in 0 .. q : z = k * sp
  BY <1>1, Multiples
<1>3. \A m : HatchAt(m) = -h + (m - 1) * sp
  BY DEF HatchAt
<1> HIDE DEF h, sp, q
<1>4. ASSUME NEW m \in 1 .. q + 1 PROVE HatchAt(m) \in -h .. h /\ (HatchAt(m) + h) % sp = 0
  <2>1. PICK k \in 0 .. q : k = m - 1
    BY <1>2
  <2>2. PICK z \in 0 .. SQUARE_SIZE : z = k * sp /\ z % sp = 0
    BY <1>2
  <2>3. HatchAt(m) = -h + z
    BY <1>3, <2>1, <2>2
  <2>4. -h + z \in -h .. h /\ (-h + z) + h = z
    BY <1>1
  <2> QED
    BY <2>2, <2>3, <2>4
<1>5. ASSUME NEW y \in -h .. h, (y + h) % sp = 0 PROVE \E m \in 1 .. q + 1 : y = HatchAt(m)
  <2>1. y + h \in 0 .. SQUARE_SIZE
    BY <1>1
  <2>2. PICK k \in 0 .. q : y + h = k * sp
    BY <1>2, <1>5, <2>1
  <2>3. k + 1 \in 1 .. q + 1 /\ (k + 1) - 1 = k
    BY <1>2
  <2>4. y = -h + k * sp
    BY <1>1, <2>2
  <2> QED
    BY <1>3, <2>3, <2>4
<1> QED
  BY <1>4, <1>5 DEF h, sp, q
\* A line of the square, as a pair of vertices and as it is planned.
EndPoints(line) == << << line[1], line[2] >>, << line[3], line[4] >> >>

SquareItem(line) == [line |-> EndPoints(line), params |-> CreateJobShell[0]]

SquareItems == {SquareItem(line) : line \in SquareLines}

\* The lines of the two blocks: the sides in turn, and the hatches.
LEMMA BlocksOfTheSquare ==
  LET h == SQUARE_SIZE \div 2
      H == SQUARE_SIZE \div HATCH_SPACING + 1
  IN  /\ LineAt(Square[1], 1) = EndPoints(<< -h, -h, h, -h >>)
      /\ LineAt(Square[1], 2) = EndPoints(<< h, -h, h, h >>)
      /\ LineAt(Square[1], 3) = EndPoints(<< h, h, -h, h >>)
      /\ LineAt(Square[1], 4) = EndPoints(<< -h, h, -h, -h >>)
      /\ \A m \in 1 .. H : LineAt(Square[2], m) = EndPoints(<< -h, HatchAt(m), h, HatchAt(m) >>)
<1> DEFINE h == SQUARE_SIZE \div 2
           sq == SquareDefinition(0, 0, SQUARE_SIZE)
           H == SQUARE_SIZE \div HATCH_SPACING + 1
<1>1. h \in Nat /\ SQUARE_SIZE = 2 * h /\ H \in Nat
  BY GeneratorAssumption
<1>2. sq.XMin = -h /\ sq.XMax = h /\ sq.YMin = -h /\ sq.YMax = h
  <2>1. sq.XMin = 0 - h /\ sq.XMax = 0 + h /\ sq.YMin = 0 - h /\ sq.YMax = 0 + h
    BY DEF SquareDefinition
  <2> HIDE DEF h, sq
  <2> QED
    BY <1>1, <2>1
<1>3. Square = << CreateContourBlock(sq), CreateHatchBlock(sq, HATCH_SPACING) >>
  BY DEF Square, CreateWorkPlaneForLayer, CreateHatchedSquareGeometry, sq
<1> HIDE DEF sq
<1>4. Square[1].kind = "line_sequence"
      /\ Square[1].points = << -h, -h, h, -h, h, h, -h, h, -h, -h >>
  <2> HIDE DEF h
  <2> QED
    BY <1>2, <1>3 DEF CreateContourBlock, VectorBlock
<1>5. /\ Vertex(Square[1], 1) = << -h, -h >> /\ Vertex(Square[1], 2) = << h, -h >>
      /\ Vertex(Square[1], 3) = << h, h >>   /\ Vertex(Square[1], 4) = << -h, h >>
      /\ Vertex(Square[1], 5) = << -h, -h >>
  <2> HIDE DEF h
  <2> QED
    BY <1>4 DEF Vertex
<1>6. /\ LineAt(Square[1], 1) = EndPoints(<< -h, -h, h, -h >>)
      /\ LineAt(Square[1], 2) = EndPoints(<< h, -h, h, h >>)
      /\ LineAt(Square[1], 3) = EndPoints(<< h, h, -h, h >>)
      /\ LineAt(Square[1], 4) = EndPoints(<< -h, h, -h, -h >>)
  <2> HIDE DEF h
  <2> QED
    BY <1>4, <1>5 DEF LineAt, EndPoints
<1> DEFINE x(n) == CASE n % 4 = 1 -> sq.XMin
                     [] n % 4 = 3 -> sq.XMax
                     [] OTHER     -> sq.YMin + ((n - 1) \div 4) * HATCH_SPACING
<1>7. Square[2].kind = "hatches" /\ Square[2].points = [n \in 1 .. 4 * H |-> x(n)]
  <2>1. sq.YMax - sq.YMin = SQUARE_SIZE
    <3> HIDE DEF h
    <3> QED
      BY <1>1, <1>2
  <2>2. (sq.YMax - sq.YMin) \div HATCH_SPACING + 1 = H
    BY <2>1
  <2> HIDE DEF H
  <2>3. Square[2] = [key |-> 0, kind |-> "hatches", points |-> [n \in 1 .. 4 * H |-> x(n)]]
    BY <1>3, <2>2 DEF CreateHatchBlock, VectorBlock
  <2> DEFINE pts == [n \in 1 .. 4 * H |-> x(n)]
  <2>4. Square[2] = [key |-> 0, kind |-> "hatches", points |-> pts]
    BY <2>3
  <2> HIDE DEF pts, x
  <2>5. Square[2].kind = "hatches" /\ Square[2].points = pts
    BY <2>4
  <2> QED
    BY <2>5 DEF pts
<1>8. ASSUME NEW m \in 1 .. H
      PROVE  LineAt(Square[2], m) = EndPoints(<< -h, HatchAt(m), h, HatchAt(m) >>)
  <2> DEFINE y == HatchAt(m)
  <2>1. /\ x(4 * m - 3) = -h /\ x(4 * m - 2) = y /\ x(4 * m - 1) = h /\ x(4 * m) = y
    <3> HIDE DEF H
    <3>1. /\ (4 * m - 3) % 4 = 1 /\ (4 * m - 2) % 4 = 2
          /\ (4 * m - 1) % 4 = 3 /\ (4 * m) % 4 = 0
          /\ ((4 * m - 2) - 1) \div 4 = m - 1 /\ (4 * m - 1) \div 4 = m - 1
      BY <1>1
    <3>2. y = -h + (m - 1) * HATCH_SPACING
      BY DEF HatchAt
    <3> HIDE DEF h, y
    <3>3. x(4 * m - 3) = sq.XMin
      BY <3>1
    <3>4. x(4 * m - 1) = sq.XMax
      BY <3>1
    <3>5. x(4 * m - 2) = sq.YMin + (m - 1) * HATCH_SPACING
      BY <3>1
    <3>6. x(4 * m) = sq.YMin + (m - 1) * HATCH_SPACING
      BY <3>1
    <3> HIDE DEF x
    <3> QED
      BY <1>2, <3>2, <3>3, <3>4, <3>5, <3>6
  <2>2. /\ 4 * m - 3 \in 1 .. 4 * H /\ 4 * m - 2 \in 1 .. 4 * H
        /\ 4 * m - 1 \in 1 .. 4 * H /\ 4 * m \in 1 .. 4 * H
    <3> HIDE DEF H
    <3> QED
      BY <1>1
  <2>3. /\ 2 * (2 * m - 1) - 1 = 4 * m - 3 /\ 2 * (2 * m - 1) = 4 * m - 2
        /\ 2 * (2 * m) - 1 = 4 * m - 1 /\ 2 * (2 * m) = 4 * m
    <3> HIDE DEF H
    <3> QED
      BY <1>1
  <2> HIDE DEF h, H, x, y
  <2>4. /\ Square[2].points[4 * m - 3] = -h /\ Square[2].points[4 * m - 2] = y
        /\ Square[2].points[4 * m - 1] = h  /\ Square[2].points[4 * m] = y
    BY <1>7, <2>1, <2>2
  <2>5. Vertex(Square[2], 2 * m - 1) = << -h, y >> /\ Vertex(Square[2], 2 * m) = << h, y >>
    BY ONLY <2>3, <2>4 DEF Vertex
  <2>6. LineAt(Square[2], m) = << << -h, y >>, << h, y >> >>
    BY <1>7, <2>5 DEF LineAt
  <2> QED
    BY <2>6 DEF EndPoints, y
<1> QED
  BY <1>6, <1>8

\* So the blocks have the lines of the square, and no other ones.
LEMMA LinesAreTheSquare ==
  /\ \A b \in 1 .. 2 : \A n \in 1 .. LineCount(Square[b]) :
       \E line \in SquareLines : LineAt(Square[b], n) = EndPoints(line)
  /\ \A line \in SquareLines :
       \E b \in 1 .. 2 : \E n \in 1 .. LineCount(Square[b]) : LineAt(Square[b], n) = EndPoints(line)
<1> DEFINE h == SQUARE_SIZE \div 2
           H == SQUARE_SIZE \div HATCH_SPACING + 1
           ys == {y \in -h .. h : (y + h) % HATCH_SPACING = 0}
           sides == {<< -h, -h, h, -h >>, << h, -h, h, h >>, << h, h, -h, h >>, << -h, h, -h, -h >>}
           hatch(y) == << -h, y, h, y >>
<1>1. SquareLines = sides \cup {hatch(y) : y \in ys}
  BY DEF SquareLines
<1>2. /\ LineAt(Square[1], 1) = EndPoints(<< -h, -h, h, -h >>)
      /\ LineAt(Square[1], 2) = EndPoints(<< h, -h, h, h >>)
      /\ LineAt(Square[1], 3) = EndPoints(<< h, h, -h, h >>)
      /\ LineAt(Square[1], 4) = EndPoints(<< -h, h, -h, -h >>)
      /\ \A m \in 1 .. H : LineAt(Square[2], m) = EndPoints(hatch(HatchAt(m)))
  BY BlocksOfTheSquare
<1>3. /\ \A m \in 1 .. H : HatchAt(m) \in ys
      /\ \A y \in ys : \E m \in 1 .. H : y = HatchAt(m)
  BY HatchHeights
<1>4. LineCount(Square[1]) = 4 /\ LineCount(Square[2]) = H
  BY LinesOfTheSquare
<1> HIDE DEF h, H, ys
<1>5. \A n \in 1 .. 4 : \E line \in sides : LineAt(Square[1], n) = EndPoints(line)
  <2>1. \A n \in 1 .. 4 : n = 1 \/ n = 2 \/ n = 3 \/ n = 4
    OBVIOUS
  <2> QED
    BY <1>2, <2>1
<1>6. \A line \in sides : \E n \in 1 .. 4 : LineAt(Square[1], n) = EndPoints(line)
  <2>1. 1 \in 1 .. 4 /\ 2 \in 1 .. 4 /\ 3 \in 1 .. 4 /\ 4 \in 1 .. 4
    OBVIOUS
  <2> QED
    BY <1>2, <2>1, Zenon
<1>7. 1 \in 1 .. 2 /\ 2 \in 1 .. 2 /\ \A b \in 1 .. 2 : b = 1 \/ b = 2
  OBVIOUS
<1> HIDE DEF sides, hatch
<1>8. ASSUME NEW b \in 1 .. 2, NEW n \in 1 .. LineCount(Square[b])
      PROVE  \E line \in SquareLines : LineAt(Square[b], n) = EndPoints(line)
  <2>1. CASE b = 1
    BY <1>1, <1>4, <1>5, <2>1
  <2>2. CASE b = 2
    <3>1. n \in 1 .. H
      BY <1>4, <2>2
    <3>2. HatchAt(n) \in ys /\ LineAt(Square[2], n) = EndPoints(hatch(HatchAt(n)))
      BY <1>2, <1>3, <3>1
    <3>3. hatch(HatchAt(n)) \in SquareLines
      BY <1>1, <3>2
    <3> QED
      BY <2>2, <3>2, <3>3
  <2> QED
    BY <1>7, <2>1, <2>2
<1>9. ASSUME NEW line \in SquareLines
      PROVE  \E b \in 1 .. 2 : \E n \in 1 .. LineCount(Square[b]) :
               LineAt(Square[b], n) = EndPoints(line)
  <2>1. CASE line \in sides
    BY <1>4, <1>6, <1>7, <2>1
  <2>2. CASE \E y \in ys : line = hatch(y)
    <3>1. PICK y \in ys : line = hatch(y)
      BY <2>2
    <3>2. PICK m \in 1 .. H : y = HatchAt(m)
      BY <1>3
    <3>3. LineAt(Square[2], m) = EndPoints(line)
      BY <1>2, <3>1, <3>2
    <3> QED
      BY <1>4, <1>7, <3>3
  <2> QED
    BY <1>1, <2>1, <2>2
<1> QED
  BY <1>8, <1>9
\* A layer is planned as the lines of the square.
LEMMA SquareLayer ==
  ASSUME NEW j \in Jobs, j.params = CreateJobShell, Square \in Seq(Blocks)
  PROVE  /\ LayerPart(j, Square, Len(Square)) \in Seq(SquareItems)
         /\ \A item \in SquareItems : \E n \in 1 .. Len(LayerPart(j, Square, Len(Square))) :
              LayerPart(j, Square, Len(Square))[n] = item
<1> DEFINE P == LayerPart(j, Square, Len(Square))
           plan(b) == BlockPlanOf(j, Square[b])
<1>1. /\ P = plan(1) \o plan(2)
      /\ \A b \in 1 .. 2 :
           /\ plan(b) \in Seq(Items) /\ Len(plan(b)) = LineCount(Square[b])
           /\ \A n \in 1 .. LineCount(Square[b]) :
                plan(b)[n] = [line |-> LineAt(Square[b], n), params |-> CreateJobShell[0]]
  BY SquarePlan
<1> HIDE DEF P, plan
<1>2. ASSUME NEW b \in 1 .. 2 PROVE plan(b) \in Seq(SquareItems)
  <2>1. plan(b) \in Seq(Items) /\ Len(plan(b)) = LineCount(Square[b])
    BY <1>1
  <2>2. ASSUME NEW n \in 1 .. LineCount(Square[b]) PROVE plan(b)[n] \in SquareItems
    <3>1. PICK line \in SquareLines : LineAt(Square[b], n) = EndPoints(line)
      BY LinesAreTheSquare
    <3>2. plan(b)[n] = SquareItem(line)
      BY <1>1, <3>1 DEF SquareItem
    <3> QED
      BY <3>2 DEF SquareItems
  <2> QED
    BY <2>1, <2>2
<1>3. 1 \in 1 .. 2 /\ 2 \in 1 .. 2 /\ \A b \in 1 .. 2 : b = 1 \/ b = 2
  OBVIOUS
<1>4. /\ plan(1) \in Seq(SquareItems) /\ plan(2) \in Seq(SquareItems)
      /\ P \in Seq(SquareItems)
  BY <1>1, <1>2, <1>3
<1>5. /\ Len(P) = Len(plan(1)) + Len(plan(2))
      /\ \A n \in 1 .. Len(plan(1)) : P[n] = plan(1)[n]
      /\ \A n \in 1 .. Len(plan(2)) : P[n + Len(plan(1))] = plan(2)[n]
  BY ONLY <1>1, <1>4, Joined
<1>6. Len(plan(1)) \in Nat /\ Len(plan(2)) \in Nat
  BY <1>4
<1>7. ASSUME NEW item \in SquareItems PROVE \E n \in 1 .. Len(P) : P[n] = item
  <2>1. PICK line \in SquareLines : item = SquareItem(line)
    BY DEF SquareItems
  <2>2. PICK b \in 1 .. 2 :
          \E n \in 1 .. LineCount(Square[b]) : LineAt(Square[b], n) = EndPoints(line)
    BY LinesAreTheSquare
  <2>3. PICK n \in 1 .. LineCount(Square[b]) : LineAt(Square[b], n) = EndPoints(line)
    BY <2>2
  <2>4. plan(b)[n] = item /\ n \in 1 .. Len(plan(b))
    BY <1>1, <2>1, <2>3 DEF SquareItem
  <2>5. CASE b = 1
    <3>1. n \in 1 .. Len(P)
      BY <1>5, <1>6, <2>4, <2>5
    <3> QED
      BY <1>5, <2>4, <2>5, <3>1
  <2>6. CASE b = 2
    <3>1. n + Len(plan(1)) \in 1 .. Len(P)
      BY <1>5, <1>6, <2>4, <2>6
    <3> QED
      BY <1>5, <2>4, <2>6, <3>1
  <2> QED
    BY <1>3, <2>5, <2>6
<1> QED
  BY <1>4, <1>7 DEF P

\* A job is planned as lines of the square, whichever layers are lost; with a layer
\* of it that is not lost, as all of them.
LEMMA SquareJobPlan ==
  ASSUME NEW N \in Nat, SquareJob(N) \in Jobs, NEW n \in 0 .. N, NEW lost
  PROVE  /\ Planned(SquareJob(N), n, lost) \in Seq(SquareItems)
         /\ n > 0 /\ n \notin lost =>
              \A item \in SquareItems : \E m \in 1 .. Len(Planned(SquareJob(N), n, lost)) :
                Planned(SquareJob(N), n, lost)[m] = item
<1> DEFINE j == SquareJob(N)
           one == LayerPart(j, Square, Len(Square))
           ss == KeptPlans(j, n, lost)
<1>0. j \in Jobs
  OBVIOUS
<1>1. Len(j.layers) = N /\ j.params = CreateJobShell /\ \A l \in 1 .. N : j.layers[l] = Square
  BY DEF SquareJob, JobOf, Square
<1> HIDE DEF j
<1>2. ASSUME n > 0
      PROVE  /\ one \in Seq(SquareItems)
             /\ \A item \in SquareItems : \E m \in 1 .. Len(one) : one[m] = item
  <2>1. 1 \in 1 .. N
    BY <1>2
  <2>2. Square \in Seq(Blocks)
    BY <1>0, <1>1, <2>1, JobTypes
  <2> QED
    BY <1>0, <1>1, <2>2, SquareLayer
<1>3. ss = [l \in 1 .. n |-> IF l \in lost THEN << >> ELSE one]
  BY <1>1 DEF KeptPlans
<1> HIDE DEF one, ss
<1>4. << >> \in Seq(SquareItems) /\ n \in Nat
  OBVIOUS
<1>5. \A l \in 1 .. n : (IF l \in lost THEN << >> ELSE one) \in Seq(SquareItems)
  BY <1>2, <1>4
<1>6. ss \in Seq(Seq(SquareItems))
  BY <1>3, <1>4, <1>5
<1>7. Planned(j, n, lost) \in Seq(SquareItems)
  BY <1>6, FlattenType DEF Planned, ss
<1>8. ASSUME n > 0, n \notin lost, NEW item \in SquareItems
      PROVE  \E m \in 1 .. Len(Planned(j, n, lost)) : Planned(j, n, lost)[m] = item
  <2>1. PICK p \in 0 .. N : p = n - 1
    BY <1>8
  <2>2. p \in 0 .. Len(j.layers) /\ p < Len(j.layers) /\ p + 1 = n /\ n \in 1 .. N
    BY <1>1, <1>8, <2>1
  <2> DEFINE before == Planned(j, p, lost)
  <2>3. before \in Seq(Items)
    BY ONLY <1>0, <2>2, PlannedStep
  <2>4. Planned(j, p + 1, lost) =
          before \o IF p + 1 \in lost THEN << >>
                    ELSE LayerPart(j, j.layers[p + 1], Len(j.layers[p + 1]))
    BY ONLY <1>0, <2>2, PlannedStep
  <2>5. Planned(j, n, lost) = before \o one
    BY <1>1, <1>8, <2>2, <2>4 DEF one
  <2> HIDE DEF before
  <2>6. PICK m \in 1 .. Len(one) : one[m] = item
    BY <1>2, <1>8
  <2>7. /\ Len(before \o one) = Len(before) + Len(one)
        /\ (before \o one)[m + Len(before)] = one[m]
    BY ONLY <1>2, <1>8, <2>3, Joined
  <2>8. Len(before) \in Nat /\ Len(one) \in Nat
    BY <1>2, <1>8, <2>3
  <2>9. m + Len(before) \in 1 .. Len(before \o one)
    BY <2>7, <2>8
  <2> QED
    BY <2>5, <2>6, <2>7, <2>9
<1> QED
  BY <1>7, <1>8 DEF j

\* A line of the square is drawn where mmToBits puts it, without power.
LEMMA SquareDrawn ==
  ASSUME NEW line, NEW e, Draws(e, SquareItem(line))
  PROVE  /\ << e.fromX, e.fromY, e.toX, e.toY >> = [n \in 1 .. 4 |-> mmToBits(line[n])]
         /\ e.power = 0
<1>1. /\ e.fromX = mmToBits(line[1]) /\ e.fromY = mmToBits(line[2])
      /\ e.toX = mmToBits(line[3])   /\ e.toY = mmToBits(line[4])
  BY DEF Draws, SquareItem, EndPoints
<1>2. e.power = powerToDAC(0)
  BY DEF Draws, SquareItem, CreateJobShell
<1>3. powerToDAC(0) = 0
  <2>1. RightPower(powerToDAC(0), 0)
    BY PowerToDACRight
  <2> QED
    BY <2>1 DEF RightPower
<1> DEFINE bits(n) == mmToBits(line[n])
<1> HIDE DEF bits
<1>4. << bits(1), bits(2), bits(3), bits(4) >> = [n \in 1 .. 4 |-> bits(n)]
  OBVIOUS
<1> QED
  BY <1>1, <1>2, <1>3, <1>4 DEF bits
\* The lines of the square in bits, as the scanner gets them.
SquareBits == {[n \in 1 .. 4 |-> mmToBits(line[n])] : line \in SquareLines}

LineOf(e) == << e.fromX, e.fromY, e.toX, e.toY >>

\* What traces a plan of square lines are square lines, without power.
LEMMA TracesSquare ==
  ASSUME NEW plan \in Seq(SquareItems), NEW exp \in Seq(Exposures), Traces(exp, plan)
  PROVE  /\ \A e \in Range(exp) : LineOf(e) \in SquareBits /\ e.power = 0
         /\ Len(exp) = Len(plan)
              /\ (\A item \in SquareItems : \E n \in 1 .. Len(plan) : plan[n] = item) =>
              \A bits \in SquareBits : \E e \in Range(exp) : LineOf(e) = bits
<1>1. /\ Range(exp) = {exp[n] : n \in DOMAIN exp} /\ DOMAIN exp = 1 .. Len(exp)
      /\ Len(exp) \in Nat /\ Len(plan) \in Nat /\ Len(exp) <= Len(plan)
      /\ \A n \in 1 .. Len(exp) : Draws(exp[n], plan[n])
  BY DEF Range, Traces
<1>2. ASSUME NEW e \in Range(exp) PROVE LineOf(e) \in SquareBits /\ e.power = 0
  <2>1. PICK n \in 1 .. Len(exp) : e = exp[n]
    BY <1>1
  <2>2. n \in 1 .. Len(plan)
    BY <1>1
  <2>3. PICK line \in SquareLines : plan[n] = SquareItem(line)
    BY <2>2 DEF SquareItems
  <2>4. Draws(e, SquareItem(line))
    BY <1>1, <2>1, <2>3
  <2> QED
    BY <2>4, SquareDrawn DEF SquareBits, LineOf
<1>3. ASSUME Len(exp) = Len(plan),
             \A item \in SquareItems : \E n \in 1 .. Len(plan) : plan[n] = item,
             NEW bits \in SquareBits
      PROVE  \E e \in Range(exp) : LineOf(e) = bits
  <2>1. PICK line \in SquareLines : bits = [n \in 1 .. 4 |-> mmToBits(line[n])]
    BY DEF SquareBits
  <2>2. PICK n \in 1 .. Len(exp) : plan[n] = SquareItem(line)
    BY <1>3 DEF SquareItems
  <2>3. Draws(exp[n], SquareItem(line)) /\ exp[n] \in Range(exp)
    BY <1>1, <2>2
  <2> QED
    BY <2>1, <2>3, SquareDrawn DEF LineOf
<1> QED
  BY <1>2, <1>3

\* The lines of the square that are exposed, as the layers handed over are planned.
LEMMA SquareTraced ==
  ASSUME ChainInv, started
  PROVE  \E plan \in Seq(SquareItems) :
           /\ Traces(exposed, plan) /\ (exec = 0 => Len(exposed) = Len(plan))
           /\ rejected = 0 /\ i > 0 =>
                \A item \in SquareItems : \E n \in 1 .. Len(plan) : plan[n] = item
<1>1. job = SquareJob(Len(planes)) /\ SquareJob(Len(planes)) \in Jobs /\ Len(planes) \in Nat
  BY GeneratedJob DEF ChainInv, StartInv
<1>2. NumLayers = Len(planes) /\ \A l \in DOMAIN job.layers : job.layers[l] = Square
  BY <1>1 DEF SquareJob, JobOf, NumLayers, Square
<1>3. WellFormedJob
  BY <1>2, LinesOfTheSquare DEF WellFormedJob
<1>4. i \in 0 .. Len(planes)
  BY <1>1, <1>2 DEF ChainInv, XInv, Inv, LoopInv, TypeOK
<1>5. PICK lost \in SUBSET (1 .. i) :
        /\ Cardinality(lost) = rejected
        /\ Traces(exposed, Planned(job, i, lost))
        /\ exec = 0 => Len(exposed) = Len(Planned(job, i, lost))
  BY <1>3, ExposedPart DEF ChainInv
<1>6. rejected = 0 => i \notin lost
  <2>1. i \in Int
    BY <1>4
  <2>2. rejected = 0 => lost = {}
    BY <1>5, <2>1, NoneLost
  <2> QED
    BY <2>2
<1>7. PICK N \in Nat : N = Len(planes)
  BY <1>1
<1>8. PICK n \in 0 .. N : n = i
  BY <1>4, <1>7
<1>9. SquareJob(N) \in Jobs
  BY <1>1, <1>7
<1> DEFINE plan == Planned(SquareJob(N), n, lost)
<1>10. /\ plan \in Seq(SquareItems)
       /\ n > 0 /\ n \notin lost =>
            \A item \in SquareItems : \E m \in 1 .. Len(plan) : plan[m] = item
  BY ONLY <1>9, SquareJobPlan
<1>11. Planned(job, i, lost) = plan
  BY <1>1, <1>7, <1>8
<1> HIDE DEF plan
<1>12. Traces(exposed, plan) /\ (exec = 0 => Len(exposed) = Len(plan))
  BY <1>5, <1>11
<1>13. rejected = 0 /\ i > 0 =>
         \A item \in SquareItems : \E m \in 1 .. Len(plan) : plan[m] = item
  BY ONLY <1>6, <1>8, <1>10
<1> QED
  BY ONLY <1>10, <1>12, <1>13

\* Only lines of the square are exposed, without laser power.
OnlySquareLines == \A e \in Range(exposed) : LineOf(e) \in SquareBits /\ e.power = 0

\* At every moment, and whichever layers the board has refused.
LEMMA SquareLinesExposed == ASSUME ChainInv PROVE OnlySquareLines
<1>1. CASE ~started
  <2>1. exposed = << >>
    BY <1>1 DEF ChainInv, StartInv, Init
  <2>2. Range(exposed) = {}
    BY <2>1 DEF Range
  <2> QED
    BY <2>2 DEF OnlySquareLines
<1>2. CASE started
  <2>1. PICK plan \in Seq(SquareItems) : Traces(exposed, plan)
    BY <1>2, SquareTraced
  <2>2. exposed \in Seq(Exposures)
    BY DEF ChainInv, XInv, Inv, TypeOK
  <2> QED
    BY ONLY <2>1, <2>2, TracesSquare DEF OnlySquareLines
<1> QED
  BY <1>1, <1>2

\* Whatever part of the file is damaged, whichever call of the tool or of the board
\* fails and however many lists the board refuses, nothing but lines of the square is
\* ever exposed, and never with laser power: no command of an earlier layer that is
\* still in the list memory, and no half-read plane, adds a line of its own
\* (prepareLayer, openFile, getWorkPlane).
THEOREM SquareLinesOnly == ChainSpec => []OnlySquareLines
<1>1. ChainInv => OnlySquareLines
  BY SquareLinesExposed
<1> QED
  BY <1>1, ChainInvariance, PTL

\* What comes out of the tool chain is the square, line by line and without laser
\* power, for squares of any size, any hatch spacing, any number of layers and any one
\* damaged part, as long as the board has refused no list; a job that is reported as
\* processed has exposed all of it once per layer (CreateHatchedSquareGeometry,
\* processVectorBlock, processOvfJob).
THEOREM OnlyTheSquare == ChainSpec => [](rejected = 0 => OnlyTheSquareIsExposed)
<1> DEFINE lines == {LineOf(e) : e \in Range(exposed)}
<1>1. ASSUME ChainInv, rejected = 0, outcome = "AllLayersProcessed"
      PROVE  lines = SquareBits /\ Len(exposed) = NumLayers * LinesPerLayer
  <2>1. started
    BY <1>1 DEF ChainInv, StartInv, Init
  <2>2. exec = 0 /\ i = NumLayers /\ i > 0
    BY <1>1 DEF ChainInv, XInv, EndInv
  <2>3. PICK plan \in Seq(SquareItems) :
          /\ Traces(exposed, plan) /\ Len(exposed) = Len(plan)
          /\ \A item \in SquareItems : \E n \in 1 .. Len(plan) : plan[n] = item
    BY <1>1, <2>1, <2>2, SquareTraced
  <2>4. exposed \in Seq(Exposures)
    BY <1>1 DEF ChainInv, XInv, Inv, TypeOK
  <2>5. /\ \A e \in Range(exposed) : LineOf(e) \in SquareBits
        /\ \A bits \in SquareBits : \E e \in Range(exposed) : LineOf(e) = bits
    BY ONLY <2>3, <2>4, TracesSquare
  <2>6. lines = SquareBits
    BY ONLY <2>5
  <2>7. Len(exposed) = i * LinesPerLayer
    BY <1>1, <2>1, <2>2, SquaresExposed
  <2> QED
    BY <2>2, <2>6, <2>7
<1>2. ASSUME ChainInv, rejected = 0 PROVE OnlyTheSquareIsExposed
  <2>1. lines \subseteq SquareBits /\ \A e \in Range(exposed) : e.power = 0
    BY <1>2, SquareLinesExposed DEF OnlySquareLines
  <2>2. outcome = "AllLayersProcessed" =>
          lines = SquareBits /\ Len(exposed) = NumLayers * LinesPerLayer
    BY <1>1, <1>2
  <2>3. /\ lines = {<< e.fromX, e.fromY, e.toX, e.toY >> : e \in Range(exposed)}
        /\ SquareBits = {[n \in 1 .. 4 |-> mmToBits(line[n])] : line \in SquareLines}
    BY DEF LineOf, SquareBits
  <2> HIDE DEF lines
  <2> QED
    BY <2>1, <2>2, <2>3 DEF OnlyTheSquareIsExposed
<1>3. ChainInv => (rejected = 0 => OnlyTheSquareIsExposed)
  BY <1>2
<1> QED
  BY <1>3, ChainInvariance, PTL
=============================================================================
