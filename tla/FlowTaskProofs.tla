---------------------------- MODULE FlowTaskProofs ----------------------------
(* Proofs about FlowTask for every value of the bounds of flow and any      *)
(* durations, shares and hint rows, as long as the clock stays below half   *)
(* its range.                                                               *)
EXTENDS FlowTask, FlowMathProofs

Slices == SLICE_MIN .. QUANTUM
Stored == {0} \cup Slices
Bursts == 0 .. PRED_MAX

------------------------------------------------------------------------------
(* Operators                                                                 *)

(* The order of the bounds, and a u64 that holds them.                      *)
LEMMA Bounds ==
  /\ Half \in Nat /\ PRED_MAX + 1 < Half /\ U64Max = 2 * Half - 1
  /\ SLICE_MIN \in Nat /\ 1 <= SLICE_MIN /\ SLICE_MIN < SLICE_LAT /\ SLICE_LAT < QUANTUM
  /\ QUANTUM \in Nat /\ SLICE_LAT \in Nat /\ SLICE_MAX \in Nat /\ QUANTUM < SLICE_MAX
  /\ PERIOD \in Nat /\ QUANTUM < PERIOD /\ PERIOD < PRED_MAX /\ PRED_MAX \in Nat
  /\ PRED_MIN \in 1 .. PRED_MAX
  /\ CLOCK_MAX \in Nat /\ 1 <= CLOCK_MAX /\ CLOCK_MAX + PRED_MAX < Half
  /\ WEIGHT_MIN \in Nat /\ 1 <= WEIGHT_MIN /\ WEIGHT_MIN <= WEIGHT_BASE
  /\ WEIGHT_BASE \in Nat /\ WEIGHT_BASE <= WEIGHT_MAX /\ WEIGHT_MAX \in Nat
  /\ COUNT_MAX \in Nat
BY FlowConsts, TaskConsts DEF U64Max

LEMMA SatAddType ==
  \A a, b \in Nat : /\ SatAdd(a, b) \in U64 /\ SatAdd(a, b) \in Nat
                    /\ a <= U64Max => SatAdd(a, b) >= a
                    /\ a + b < U64Max => SatAdd(a, b) = a + b
BY Bounds DEF SatAdd, U64

LEMMA SubType ==
  \A a, b \in U64 : Sub(a, b) \in U64
BY Bounds DEF Sub, U64

(* A quotient of naturals is one.                                           *)
LEMMA Quotient ==
  ASSUME NEW a \in Nat, NEW b \in Nat, b # 0
  PROVE  a \div b \in Nat
OBVIOUS

(* The effective share lies between the least and the largest share.        *)
LEMMA ShareRange ==
  ASSUME NEW a \in Nat, NEW b \in Nat
  PROVE  EffectiveWeight(a, b) \in WEIGHT_MIN .. WEIGHT_MAX
<1> DEFINE x == WeightClamp(Neutral(a))
           y == WeightClamp(Neutral(b))
<1>1. x \in Nat /\ y \in Nat
  BY Bounds DEF WeightClamp, Neutral, Clamp
<1> HIDE DEF x, y
<1> DEFINE p == x * y
<1>2. p \in Nat
  BY <1>1
<1> HIDE DEF p
<1> DEFINE q == p \div WEIGHT_BASE
<1>3. q \in Nat
  BY <1>2, Bounds, Quotient
<1> HIDE DEF q
<1>4. Clamp(q, WEIGHT_MIN, WEIGHT_MAX) \in WEIGHT_MIN .. WEIGHT_MAX
  BY <1>3, Bounds DEF Clamp
<1> QED BY <1>4 DEF EffectiveWeight, ShareCombine, p, q, x, y

(* Service is scaled into a natural number, nothing for no service.          *)
LEMMA ScaledType ==
  ASSUME NEW d \in Nat, NEW w \in Nat
  PROVE  ScaledDelta(d, w) \in Nat
<1> DEFINE p == d * WEIGHT_BASE
           k == WeightClamp(w)
<1>1. p \in Nat
  BY Bounds
<1>2. k \in Nat /\ k # 0
  BY Bounds DEF WeightClamp, Clamp
<1> HIDE DEF p, k
<1> DEFINE q == p \div k
<1>3. q \in Nat
  BY <1>1, <1>2, Quotient
<1>4. U64Max \in Nat
  BY Bounds
<1> HIDE DEF q
<1>5. ScaledDelta(d, w) \in {0, U64Max, 1, q}
  BY DEF ScaledDelta, q, p, k
<1> QED BY <1>3, <1>4, <1>5

LEMMA AdvanceType ==
  ASSUME NEW v \in U64, NEW d \in Nat, NEW w \in Nat
  PROVE  VruntimeAdvance(v, d, w) \in U64 /\ VirtDeadline(v, d, w) \in U64
<1>1. v \in Nat /\ ScaledDelta(d, w) \in Nat
  BY ScaledType, Bounds DEF U64
<1> QED BY <1>1, SatAddType DEF VruntimeAdvance, VirtDeadline

(* The predictor stays in its range.                                        *)
LEMMA PredClampType ==
  \A n \in Int : PredClamp(n) \in 1 .. PRED_MAX
BY Bounds DEF PredClamp, Clamp

LEMMA SampleType ==
  ASSUME NEW d \in Nat
  PROVE  Sample(d) \in 1 .. PRED_MAX
BY PredClampType, Bounds DEF Sample

LEMMA AvgType ==
  ASSUME NEW a \in Bursts, NEW d \in Nat
  PROVE  PredAvg(a, d) \in 1 .. PRED_MAX
<1> DEFINE s == Sample(d)
<1>1. s \in 1 .. PRED_MAX
  BY SampleType
<1> HIDE DEF s
<1>2. s \in Nat /\ a \in Nat
  BY <1>1, Bounds DEF Bursts
<1>3. (s - a) \div 8 \in Int /\ (a - s) \div 16 \in Int /\ (s > a => (s - a) \div 8 \in Nat)
  BY <1>2
<1>4. s > a => PredClamp(SatAdd(a, (s - a) \div 8)) \in 1 .. PRED_MAX
  <2>1. s > a => SatAdd(a, (s - a) \div 8) \in Int
    BY <1>2, <1>3, SatAddType
  <2> QED BY <2>1, PredClampType
<1>5. PredClamp(a - (a - s) \div 16) \in 1 .. PRED_MAX
  BY <1>2, <1>3, PredClampType
<1>6. PredAvg(a, d) = IF a = 0 THEN s
                      ELSE IF s > a THEN PredClamp(SatAdd(a, (s - a) \div 8))
                      ELSE PredClamp(a - (a - s) \div 16)
  BY DEF PredAvg, s
<1> QED BY <1>1, <1>4, <1>5, <1>6

LEMMA DevType ==
  ASSUME NEW v \in Bursts, NEW a \in Bursts, NEW d \in Nat
  PROVE  PredDev(v, a, d) \in 1 .. PRED_MAX
<1> DEFINE s == Sample(d)
           m == IF a = 0 THEN s ELSE a
           gap == IF s > m THEN s - m ELSE m - s
           e == Sample(gap)
<1>1. s \in 1 .. PRED_MAX
  BY SampleType
<1>2. v \in Nat /\ a \in Nat
  BY Bounds DEF Bursts
<1>3. gap \in Nat
  BY <1>1, <1>2, Bounds
<1> HIDE DEF s, gap
<1>4. e \in 1 .. PRED_MAX
  BY <1>3, SampleType
<1> HIDE DEF e
<1>5. e \in Nat
  BY <1>4, Bounds
<1>6. a \div 4 \in Int /\ (e - v) \div 4 \in Int /\ (v - e) \div 8 \in Int
      /\ (e > v => (e - v) \div 4 \in Nat)
  BY <1>2, <1>5
<1>7. PredClamp(a \div 4) \in 1 .. PRED_MAX
  BY <1>6, PredClampType
<1>8. e > v => PredClamp(SatAdd(v, (e - v) \div 4)) \in 1 .. PRED_MAX
  <2>1. e > v => SatAdd(v, (e - v) \div 4) \in Int
    BY <1>2, <1>6, SatAddType
  <2> QED BY <2>1, PredClampType
<1>9. PredClamp(v - (v - e) \div 8) \in 1 .. PRED_MAX
  BY <1>2, <1>6, PredClampType
<1>10. PredDev(v, a, d) =
         IF v = 0 THEN IF a \div 4 > e THEN PredClamp(a \div 4) ELSE e
         ELSE IF e > v THEN PredClamp(SatAdd(v, (e - v) \div 4))
         ELSE PredClamp(v - (v - e) \div 8)
  BY DEF PredDev, e, gap, m, s
<1> QED BY <1>4, <1>7, <1>8, <1>9, <1>10

(* Slices                                                                    *)
LEMMA InheritType ==
  ASSUME NEW s \in Stored
  PROVE  SliceInherit(s) \in Slices /\ SliceMissHold(s) \in Slices
BY Bounds DEF SliceInherit, SliceMissHold, Stored, Slices

LEMMA LatClampType ==
  ASSUME NEW s \in Slices, NEW lat \in BOOLEAN
  PROVE  SliceLatClamp(s, lat) \in Slices /\ (lat => SliceLatClamp(s, lat) <= SLICE_LAT)
BY Bounds DEF SliceLatClamp, Slices

LEMMA LatType ==
  ASSUME NEW a, NEW d, NEW h, NEW n, NEW w
  PROVE  IsLat(a, d, h, n, w) \in BOOLEAN
BY DEF IsLat, LatCrit

LEMMA PredictedType ==
  ASSUME NEW a \in Bursts, NEW d \in Bursts
  PROVE  Predicted(a, d) \in Nat
<1>1. a \in Nat /\ d \in Nat /\ d \div 2 \in Nat
  BY Bounds DEF Bursts
<1> QED BY <1>1, SatAddType DEF Predicted

(* Every tier is longer than the shortest slice.                             *)
LEMMA TierType ==
  ASSUME NEW a \in Bursts, NEW d \in Bursts, NEW lat \in BOOLEAN
  PROVE  ClassifyTier(a, d, lat) \in SLICE_MIN .. SLICE_MAX
<1> DEFINE p == Predicted(a, d)
           tiers == {SLICE_ULL, SLICE_LL, SLICE_MLL, SLICE_NL, SLICE_ENL}
           fits == {t \in tiers : p <= t}
           least == CHOOSE t \in fits : \A u \in fits : t <= u
<1>1. p \in Nat
  BY PredictedType
<1> HIDE DEF p
<1>2. fits # {} => \E t \in fits : \A u \in fits : t <= u
  <2>1. CASE p <= SLICE_ULL
    BY <1>1, <2>1, FlowConsts
  <2>2. CASE ~(p <= SLICE_ULL) /\ p <= SLICE_LL
    BY <1>1, <2>2, FlowConsts
  <2>3. CASE ~(p <= SLICE_LL) /\ p <= SLICE_MLL
    BY <1>1, <2>3, FlowConsts
  <2>4. CASE ~(p <= SLICE_MLL) /\ p <= SLICE_NL
    BY <1>1, <2>4, FlowConsts
  <2>5. CASE ~(p <= SLICE_NL)
    BY <1>1, <2>5, FlowConsts
  <2> QED BY <2>1, <2>2, <2>3, <2>4, <2>5
<1>3. fits # {} => least \in tiers
  BY <1>2
<1>4. ClassifyTier(a, d, lat) \in {SLICE_ULL, SLICE_MAX, least}
      /\ (ClassifyTier(a, d, lat) = least => fits # {} \/ least \in {SLICE_ULL, SLICE_MAX})
  BY DEF ClassifyTier, p
<1> HIDE DEF fits, least
<1>5. ClassifyTier(a, d, lat) \in tiers \cup {SLICE_MAX}
  BY <1>3, <1>4
<1> QED BY <1>5, FlowConsts

LEMMA TierCapType ==
  ASSUME NEW pre \in Slices, NEW a \in Bursts, NEW d \in Bursts, NEW lat \in BOOLEAN
  PROVE  SliceTierCap(pre, a, d, lat) \in Slices
BY TierType, Bounds DEF SliceTierCap, Slices

LEMMA CarryType ==
  ASSUME NEW n \in Nat
  PROVE  CarryFor(n) \in Slices
BY Bounds DEF CarryFor, Clamp, Slices

LEMMA AdaptType ==
  ASSUME NEW s \in Stored, NEW e \in U64, NEW l \in U64
  PROVE  AdaptProp(s, e, l) \in Slices
<1> DEFINE base == SliceInherit(s)
           up == AdaptStep(base, l)
           down == AdaptStep(base, e)
<1>1. base \in Nat
  BY InheritType, Bounds DEF Slices
<1> HIDE DEF base
<1>2. \A n \in Nat : AdaptStep(base, n) \in Nat
  <2> TAKE n \in Nat
  <2>1. n \div 8 \in Nat /\ base \div 2 \in Nat
    BY <1>1
  <2> DEFINE m == Smaller(Smaller(n \div 8, PROP_MAX), base \div 2)
  <2>2. m \in Nat
    BY <2>1, FlowConsts DEF Smaller
  <2> HIDE DEF m
  <2>3. m \div 2 \in Nat
    BY <2>2
  <2> QED BY <2>3 DEF AdaptStep, m
<1>3. up \in Nat /\ down \in Nat
  BY <1>2, Bounds DEF U64
<1> HIDE DEF up, down
<1>4. base - down \in Int /\ SatAdd(base, up) \in Int
  BY <1>1, <1>3, SatAddType
<1>5. \A n \in Int : Clamp(n, SLICE_MIN, QUANTUM) \in Slices
  BY Bounds DEF Clamp, Slices
<1>6. Clamp(base - down, SLICE_MIN, QUANTUM) \in Slices
      /\ Clamp(SatAdd(base, up), SLICE_MIN, QUANTUM) \in Slices
  BY <1>4, <1>5
<1>7. AdaptProp(s, e, l) =
        Clamp(IF e # 0 THEN base - down ELSE SatAdd(base, up), SLICE_MIN, QUANTUM)
  BY DEF AdaptProp, base, up, down
<1> QED BY <1>6, <1>7

(* The leftover of a segment that began on a running clock is a slice, at   *)
(* most the latency one for a latency task, and what really is left of a    *)
(* slice with more than the tail to go.                                     *)
LEMMA ResumeType ==
  ASSUME NEW start \in 1 .. CLOCK_MAX, NEW t \in start .. CLOCK_MAX,
         NEW s \in Slices, NEW lat \in BOOLEAN
  PROVE  /\ SliceResume(start, t, lat, s) \in Slices
         /\ lat => SliceResume(start, t, lat, s) <= SLICE_LAT
         /\ (t - start) + PREEMPT_TAIL < s
              => SliceResume(start, t, lat, s) + (t - start) <= s
<1>1. s \in Nat /\ SLICE_MIN <= s /\ s <= QUANTUM /\ SliceInherit(s) = s
  BY Bounds DEF SliceInherit, Slices
<1>2. start \in Nat /\ t \in Nat /\ start <= t /\ start # 0 /\ t <= CLOCK_MAX
  BY Bounds
<1>3. SatAdd(start, s) = start + s /\ start + s < Half
  BY <1>1, <1>2, Bounds DEF SatAdd
<1> DEFINE rem == IF TimeBefore(t, start + s) THEN Sub(start + s, t) ELSE 0
<1>4. rem = IF t < start + s THEN start + s - t ELSE 0
  BY <1>1, <1>2, <1>3, Bounds DEF TimeBefore, Sub
<1>5. SliceResume(start, t, lat, s) = Clamp(rem, SLICE_MIN, IF lat THEN SLICE_LAT ELSE QUANTUM)
  BY <1>1, <1>2, <1>3, Bounds DEF SliceResume
<1> HIDE DEF rem
<1>6. rem \in Nat
  BY <1>1, <1>2, <1>4
<1>7. SLICE_MIN <= PREEMPT_TAIL /\ PREEMPT_TAIL \in Nat
  BY FlowConsts
<1> QED BY <1>1, <1>2, <1>4, <1>5, <1>6, <1>7, Bounds DEF Clamp, Slices

------------------------------------------------------------------------------
(* A join                                                                    *)

LEMMA CtxFields ==
  ASSUME NEW c \in Ctx
  PROVE  /\ c.vruntime \in U64 /\ c.deadline \in U64 /\ c.wait_at \in U64
         /\ c.run_at \in U64 /\ c.avg \in Bursts /\ c.dev \in Bursts
         /\ c.weight \in Nat /\ c.slice_ns \in Stored /\ c.hint_w \in Nat
         /\ c.hint_us \in {0} \cup (QUANTUM .. PERIOD)
         /\ Share(c) \in WEIGHT_MIN .. WEIGHT_MAX /\ Share(c) \in Nat
<1>1. c.weight \in Nat /\ c.hint_w \in Nat
  BY Bounds DEF Ctx
<1>2. Share(c) \in WEIGHT_MIN .. WEIGHT_MAX
  BY <1>1, ShareRange DEF Share
<1>3. Share(c) \in Nat
  BY <1>2, Bounds
<1> QED BY <1>1, <1>2, <1>3 DEF Ctx, Bursts, Stored, Slices

(* The deadline of a join lies after it and before half a u64.              *)
LEMMA DeadlineType ==
  ASSUME NEW t \in 1 .. CLOCK_MAX, NEW a \in Bursts, NEW d \in Bursts,
         NEW h \in {0} \cup (QUANTUM .. PERIOD)
  PROVE  /\ PredDeadline(t, a, d, h) \in U64 \ {0}
         /\ FallbackDeadline(t, h) \in U64 \ {0}
<1> DEFINE n == IF a = 0 THEN TaskPeriod(h) ELSE PredPeriod(a, d)
<1>1. TaskPeriod(h) \in 0 .. PRED_MAX
  BY Bounds DEF TaskPeriod
<1>2. n \in 0 .. PRED_MAX
  <2>1. CASE a = 0
    BY <1>1, <2>1
  <2>2. CASE a # 0
    BY <2>2, PredPeriodCoversAverage, Bounds DEF Bursts
  <2> QED BY <2>1, <2>2
<1>3. \A k \in 0 .. PRED_MAX : SatAdd(t, k) \in U64 \ {0}
  BY Bounds DEF SatAdd, U64
<1>4. PredDeadline(t, a, d, h) = SatAdd(t, n)
  BY DEF PredDeadline, DeadlineAt
<1>5. FallbackDeadline(t, h) = SatAdd(t, TaskPeriod(h))
  BY DEF FallbackDeadline, DeadlineAt
<1> HIDE DEF n
<1> QED BY <1>1, <1>2, <1>3, <1>4, <1>5

LEMMA KeyType ==
  ASSUME NEW x \in U64 \ {0}, NEW y \in U64
  PROVE  EdfKey(x, y) \in U64 \ {0}
BY DEF EdfKey

LEMMA SleepType ==
  ASSUME NEW w \in U64, NEW t \in U64, NEW a \in Bursts
  PROVE  SleepNs(w, t, a) \in U64
<1>1. Sub(t, w) \in U64
  BY SubType
<1> DEFINE g == Sub(t, w)
<1> HIDE DEF g
<1>2. g \in U64
  BY <1>1 DEF g
<1>3. SleepNs(w, t, a) \in {0, g, g - a} /\ (SleepNs(w, t, a) = g - a => g > a \/ g - a = 0)
  BY <1>2, Bounds DEF SleepNs, g, U64, Bursts
<1> QED BY <1>2, <1>3, Bounds DEF U64, Bursts

LEMMA CapKeyType ==
  ASSUME NEW key \in U64 \ {0}, NEW t \in 1 .. CLOCK_MAX
  PROVE  /\ CapKey(key, t) \in U64 \ {0}
         /\ CapKey(key, t) = SatAdd(t, PERIOD) \/ TimeBefore(CapKey(key, t), SatAdd(t, PERIOD))
<1>1. SatAdd(t, PERIOD) = t + PERIOD /\ t + PERIOD \in U64 \ {0} /\ t + PERIOD # U64Max
  BY Bounds DEF SatAdd, U64
<1> DEFINE b == SatAdd(t, PERIOD)
<1>2. b \in U64 \ {0} /\ b # U64Max
  BY <1>1
<1> HIDE DEF b
<1> QED BY <1>2 DEF CapKey, b

(* Every slice a join writes is a slice, and so is the one RED costs.        *)
LEMMA JoinSliceType ==
  ASSUME NEW c \in Ctx, NEW t, NEW flag, NEW deadline, NEW lat \in BOOLEAN,
         RemainingNs(deadline, t) \in Nat
  PROVE  JoinSlice(c, t, flag, deadline, lat) \in Slices
         /\ FreshSlice(c, t, deadline, lat) \in Slices
<1>1. SliceFor(deadline, t) \in Slices
  BY Bounds DEF SliceFor, Clamp, Slices
<1>2. FreshSlice(c, t, deadline, lat) \in Slices
  BY <1>1, CtxFields, TierCapType DEF FreshSlice
<1>3. /\ SliceLatClamp(FreshSlice(c, t, deadline, lat), lat) \in Slices
      /\ SliceMissHold(c.slice_ns) \in Slices /\ SliceInherit(c.slice_ns) \in Slices
  BY <1>2, CtxFields, LatClampType, InheritType
<1> QED BY <1>2, <1>3 DEF JoinSlice

(* What a join writes: a context of its type that waits from t on, a key    *)
(* that is not zero and lies within a period, and never a rejection.         *)
LEMMA JoinType ==
  ASSUME NEW c \in Ctx, NEW t \in 1 .. CLOCK_MAX, NEW flag
  PROVE  LET j == Join(c, t, flag)
         IN  /\ j.ctx \in Ctx /\ j.sleep \in U64 /\ j.key \in U64 \ {0} /\ ~j.red
             /\ j.ctx.wait_at = t /\ j.ctx.run_at = c.run_at
             /\ j.ctx.vruntime = c.vruntime
             /\ j.key = SatAdd(t, PERIOD) \/ TimeBefore(j.key, SatAdd(t, PERIOD))
<1> DEFINE nap == SleepNs(c.wait_at, t, c.avg)
           lat == IsLat(c.avg, c.dev, c.hint_us, nap, Share(c))
           deadline == PredDeadline(t, c.avg, c.dev, c.hint_us)
           slice == JoinSlice(c, t, flag, deadline, lat)
           joined == [c EXCEPT !.deadline = deadline, !.wait_at = t,
                               !.slice_ns = slice,
                               !.misses = IF Late(c, t) THEN SatInc(@) ELSE @]
           fair == MakeFair(joined, deadline)
           key == IF Opens(c, t, flag) /\ lat
                  THEN EdfKey(fair, LatDeadline(t, slice)) ELSE fair
           red == Rejects(c, t, flag, deadline, lat, slice)
<1>t. t \in Nat /\ t \in U64 /\ t \in Clock /\ t + PRED_MAX < Half
  BY Bounds DEF U64, Clock
<1>0. Join(c, t, flag) = [ctx |-> joined, key |-> CapKey(key, t), sleep |-> nap, red |-> red]
  BY DEF Join
<1>1. nap \in U64
  BY <1>t, CtxFields, SleepType
<1>2. lat \in BOOLEAN
  BY LatType
<1>3. deadline \in U64 \ {0}
  BY CtxFields, DeadlineType
<1>d. deadline = PredDeadline(t, c.avg, c.dev, c.hint_us)
  OBVIOUS
<1>e. joined = [c EXCEPT !.deadline = deadline, !.wait_at = t, !.slice_ns = slice,
                         !.misses = IF Late(c, t) THEN SatInc(@) ELSE @]
  OBVIOUS
<1>f. red = Rejects(c, t, flag, deadline, lat, slice)
  OBVIOUS
<1>g. fair = MakeFair(joined, deadline)
  OBVIOUS
<1>h. slice = JoinSlice(c, t, flag, deadline, lat)
  OBVIOUS
<1>k. key = IF Opens(c, t, flag) /\ lat THEN EdfKey(fair, LatDeadline(t, slice)) ELSE fair
  OBVIOUS
<1> HIDE DEF nap, lat, deadline, slice, joined, fair, key, red
<1>4. slice \in Slices /\ FreshSlice(c, t, deadline, lat) \in Slices
  <2>1. RemainingNs(deadline, t) \in Nat
    BY <1>3, <1>t, SubType DEF RemainingNs, U64
  <2> QED BY <2>1, <1>2, <1>h, JoinSliceType
<1>5. joined \in Ctx /\ joined.vruntime = c.vruntime /\ joined.run_at = c.run_at
      /\ joined.wait_at = t
  <2>1. c.misses \in 0 .. COUNT_MAX /\ SatInc(c.misses) \in 0 .. COUNT_MAX
    BY Bounds DEF Ctx, SatInc
  <2>2. (IF Late(c, t) THEN SatInc(c.misses) ELSE c.misses) \in 0 .. COUNT_MAX
    BY <2>1
  <2> QED BY <2>2, <1>3, <1>4, <1>t, <1>e DEF Ctx, Slices
<1>6. fair \in U64 \ {0}
  <2>1. SliceInherit(joined.slice_ns) \in Nat /\ joined.vruntime \in U64 /\ Share(joined) \in Nat
    BY <1>5, CtxFields, InheritType, Bounds DEF Slices
  <2>2. VirtDeadline(joined.vruntime, SliceInherit(joined.slice_ns), Share(joined)) \in U64
    BY <2>1, AdvanceType
  <2> QED BY <2>2, <1>3, <1>g, KeyType DEF MakeFair
<1>7. key \in U64 \ {0}
  <2>1. SatAdd(slice, PREEMPT_MARGIN) \in Nat /\ D_LAT \in Nat
    <3>1. slice \in Nat /\ PREEMPT_MARGIN \in Nat /\ D_LAT \in Nat
      BY <1>4, Bounds, FlowConsts DEF Slices
    <3> QED BY <3>1, SatAddType
  <2>2. LatDeadline(t, slice) \in U64
    BY <2>1, <1>t, SatAddType DEF LatDeadline
  <2> QED BY <2>2, <1>6, <1>k, KeyType
<1>8. ~red
  <2>1. /\ c.avg \in 0 .. PRED_MAX /\ c.dev \in 0 .. PRED_MAX
        /\ c.hint_us \in Nat /\ (c.hint_us = 0 \/ c.hint_us >= QUANTUM)
        /\ t + c.hint_us < Half
    BY <1>t, CtxFields, Bounds DEF Bursts
  <2>2. \A s \in 0 .. QUANTUM : ~RedShouldReject(deadline, t, c.avg, s, lat)
    BY <2>1, <1>t, <1>2, <1>d, FreshDeadlineAdmits
  <2>3. slice \in 0 .. QUANTUM /\ FreshSlice(c, t, deadline, lat) \in 0 .. QUANTUM
    BY <1>4, Bounds DEF Slices
  <2> QED BY <2>2, <2>3, <1>f DEF Rejects
<1> QED BY <1>0, <1>1, <1>5, <1>7, <1>8, CapKeyType

(* The context a join starts from lags the minimum by the bound at most.    *)
Prepared(row, flag) == ClampToMin(Hinted(Defaults(ctx), row, flag), minV)

LEMMA PreparedType ==
  ASSUME TypeOK, NEW row \in Hints, NEW flag
  PROVE  /\ Prepared(row, flag) \in Ctx
         /\ Prepared(row, flag).run_at = ctx.run_at
         /\ Prepared(row, flag).vruntime + VLAG_MAX >= minV
<1> DEFINE c == Defaults(ctx)
           h == Hinted(c, row, flag)
<1>1. ctx \in Ctx /\ minV \in U64
  BY DEF TypeOK
<1>2. c \in Ctx /\ c.run_at = ctx.run_at
  <2>1. Neutral(ctx.weight) \in 0 .. WEIGHT_MAX
    BY <1>1, Bounds DEF Ctx, Neutral
  <2>2. SliceInherit(ctx.slice_ns) \in {0} \cup (SLICE_MIN .. QUANTUM)
    BY <1>1, CtxFields, InheritType DEF Slices
  <2> QED BY <1>1, <2>1, <2>2 DEF Ctx, Defaults
<1> HIDE DEF c
<1>3. row.us \in {0} \cup (QUANTUM .. PERIOD) /\ row.w \in 0 .. WEIGHT_MAX
  BY TaskConsts, Bounds
<1>4. h \in Ctx /\ h.run_at = ctx.run_at
  BY <1>2, <1>3 DEF Ctx, Hinted
<1> HIDE DEF h
<1>5. VLAG_MAX \in Nat /\ h.vruntime \in Nat /\ minV \in Nat
  BY <1>1, <1>4, FlowConsts, Bounds DEF Ctx, U64
<1>6. minV > VLAG_MAX => minV - VLAG_MAX \in U64
  BY <1>1, <1>5, Bounds DEF U64
<1>7. /\ ClampToMin(h, minV) \in Ctx
      /\ ClampToMin(h, minV).run_at = ctx.run_at
      /\ ClampToMin(h, minV).vruntime + VLAG_MAX >= minV
  <2>1. CASE minV > VLAG_MAX /\ h.vruntime < minV - VLAG_MAX
    <3>1. ClampToMin(h, minV) = [h EXCEPT !.vruntime = minV - VLAG_MAX]
      BY <2>1 DEF ClampToMin
    <3>2. [h EXCEPT !.vruntime = minV - VLAG_MAX].vruntime = minV - VLAG_MAX
      BY <1>4 DEF Ctx
    <3>3. minV - VLAG_MAX + VLAG_MAX >= minV
      BY <1>5
    <3> QED BY <1>4, <1>6, <2>1, <3>1, <3>2, <3>3 DEF Ctx
  <2>2. CASE ~(minV > VLAG_MAX /\ h.vruntime < minV - VLAG_MAX)
    <3>1. ClampToMin(h, minV) = h
      BY <2>2 DEF ClampToMin
    <3> QED BY <1>4, <1>5, <2>2, <3>1
  <2> QED BY <2>1, <2>2
<1> QED BY <1>7 DEF Prepared, c, h

------------------------------------------------------------------------------
(* A stop                                                                    *)

(* A segment that began on the clock is charged whole or not at all.         *)
LEMMA DeltaType ==
  ASSUME NEW c, c.run_at \in 1 .. CLOCK_MAX, NEW t \in c.run_at .. CLOCK_MAX
  PROVE  /\ Delta(c, t) \in Nat
         /\ Delta(c, t) \in {0, t - c.run_at}
         /\ ~GapIsResume(t - c.run_at) => Delta(c, t) = t - c.run_at
<1> DEFINE r == c.run_at
<1>1. r \in Nat /\ t \in Nat /\ r # 0 /\ r <= t /\ t < Half
  BY Bounds
<1> HIDE DEF r
<1>2. DeltaClamp(t, r) = t - r
  BY <1>1, Bounds DEF DeltaClamp, TimeBefore, Sub
<1> QED BY <1>1, <1>2 DEF Delta, r

LEMMA ChargedType ==
  ASSUME NEW c \in Ctx, NEW n \in Nat
  PROVE  LET o == Charged(c, n)
         IN  /\ o \in Ctx
             /\ o.run_at = c.run_at /\ o.deadline = c.deadline
             /\ o.slice_ns = c.slice_ns
             /\ o.vruntime = IF n = 0 THEN c.vruntime ELSE VruntimeAdvance(c.vruntime, n, Share(c))
<1>1. CASE n = 0
  BY <1>1 DEF Charged
<1>2. CASE n # 0
  <2> DEFINE avg == PredAvg(c.avg, n)
             dev == PredDev(c.dev, avg, n)
             v == VruntimeAdvance(c.vruntime, n, Share(c))
  <2>1. avg \in 0 .. PRED_MAX
    BY CtxFields, AvgType, Bounds
  <2>2. avg \in Bursts
    BY <2>1 DEF Bursts
  <2>3. dev \in 0 .. PRED_MAX
    BY <2>2, CtxFields, DevType, Bounds
  <2>4. v \in U64
    BY CtxFields, AdvanceType
  <2>5. Charged(c, n) = [c EXCEPT !.avg = avg, !.dev = dev, !.vruntime = v]
    BY <1>2 DEF Charged
  <2> HIDE DEF avg, dev, v
  <2>6. Charged(c, n).vruntime = v
    BY <2>5 DEF Ctx
  <2> QED BY <1>2, <2>1, <2>3, <2>4, <2>5, <2>6 DEF Ctx, v
<1> QED BY <1>1, <1>2

(* What a stop leaves for the next segment.                                  *)
LEMMA NextSliceType ==
  ASSUME NEW c \in Ctx, NEW start \in 1 .. CLOCK_MAX, NEW t \in start .. CLOCK_MAX,
         NEW n \in {0, t - start}, NEW runnable \in BOOLEAN
  PROVE  LET s == NextSlice(c, t, start, n, runnable)
         IN  /\ s \in Slices
             /\ LatAtStop(c) => s <= SLICE_LAT
             /\ runnable /\ ~Late(c, t) /\ n > 0 /\ n + PREEMPT_TAIL < c.slice_ns
                  => s + n <= c.slice_ns
<1> DEFINE late == Late(c, t)
           lat == LatAtStop(c)
           early == runnable /\ ~late /\ n > 0
           exceed == IF late THEN Sub(t, c.deadline) ELSE 0
           slack == RemainingNs(c.deadline, t)
           resume == SliceResume(start, t, lat, c.slice_ns)
           carry == SliceLatClamp(CarryFor(n), lat)
           adapt == SliceLatClamp(AdaptProp(c.slice_ns, exceed, slack), lat)
<1>1. start \in Nat /\ t \in Nat /\ n \in Nat /\ t \in U64 /\ PREEMPT_TAIL \in Nat
  BY Bounds, FlowConsts DEF U64
<1>2. lat \in BOOLEAN
  BY LatType DEF LatAtStop
<1>3. carry \in Slices /\ (lat => carry <= SLICE_LAT)
  BY <1>1, <1>2, CarryType, LatClampType
<1>4. adapt \in Slices /\ (lat => adapt <= SLICE_LAT)
  <2>1. 0 \in U64
    BY Bounds DEF U64
  <2>2. exceed \in U64 /\ slack \in U64
    BY <1>1, <2>1, CtxFields, SubType DEF RemainingNs
  <2>3. AdaptProp(c.slice_ns, exceed, slack) \in Slices
    BY <2>2, CtxFields, AdaptType
  <2> QED BY <1>2, <2>3, LatClampType
<1>5. ASSUME early, n + PREEMPT_TAIL < c.slice_ns
      PROVE  resume \in Slices /\ (lat => resume <= SLICE_LAT) /\ resume + n <= c.slice_ns
  <2>1. c.slice_ns \in Slices
    <3>1. c.slice_ns \in Stored
      BY CtxFields
    <3>2. c.slice_ns # 0
      BY <1>1, <1>5
    <3> QED BY <3>1, <3>2 DEF Stored
  <2>2. n = t - start
    BY <1>5, <1>1
  <2> QED BY <1>2, <1>5, <2>1, <2>2, ResumeType
<1>6. NextSlice(c, t, start, n, runnable) =
        IF early /\ n + PREEMPT_TAIL < c.slice_ns THEN resume
        ELSE IF early /\ n < QUANTUM /\ lat THEN carry ELSE adapt
  BY DEF NextSlice
<1> HIDE DEF resume, carry, adapt, lat
<1>7. /\ NextSlice(c, t, start, n, runnable) \in Slices
      /\ lat => NextSlice(c, t, start, n, runnable) <= SLICE_LAT
      /\ early /\ n + PREEMPT_TAIL < c.slice_ns
           => NextSlice(c, t, start, n, runnable) + n <= c.slice_ns
  BY <1>3, <1>4, <1>5, <1>6
<1> QED BY <1>7 DEF lat

(* A stop takes the stamp, charges the segment at most and cuts the slice.   *)
LEMMA StopType ==
  ASSUME NEW c \in Ctx, c.run_at \in 1 .. CLOCK_MAX, NEW t \in c.run_at .. CLOCK_MAX,
         NEW runnable \in BOOLEAN
  PROVE  LET o == Stopped(c, t, runnable)
             d == t - c.run_at
         IN  /\ o \in Ctx /\ o.run_at = 0
             /\ o.vruntime <= VruntimeAdvance(c.vruntime, d, Share(c))
             /\ LatAtStop(o) => o.slice_ns <= SLICE_LAT
             /\ runnable /\ ~Late(c, t) /\ 0 < d /\ ~GapIsResume(d)
                  /\ d + PREEMPT_TAIL < c.slice_ns => o.slice_ns + d <= c.slice_ns
<1> DEFINE n == Delta(c, t)
           b == Claimed(c)
           e == Charged(b, n)
           s == NextSlice(e, t, c.run_at, n, runnable)
           k == Commit(e, t, n, s)
           o == Stopped(c, t, runnable)
<1>1. n \in Nat /\ n \in {0, t - c.run_at} /\ (~GapIsResume(t - c.run_at) => n = t - c.run_at)
  BY DeltaType
<1>2. b \in Ctx /\ b.run_at = 0 /\ b.deadline = c.deadline /\ b.slice_ns = c.slice_ns
      /\ b.vruntime = c.vruntime /\ Share(b) = Share(c) /\ b.misses = c.misses
  <2>1. 0 \in U64
    BY Bounds DEF U64
  <2>2. b = [c EXCEPT !.run_at = 0]
    BY DEF Claimed
  <2> HIDE DEF b
  <2> QED BY <2>1, <2>2 DEF Ctx, Share
<1> HIDE DEF n, b
<1>3. /\ e \in Ctx /\ e.run_at = 0 /\ e.deadline = c.deadline /\ e.slice_ns = c.slice_ns
      /\ e.vruntime = IF n = 0 THEN c.vruntime ELSE VruntimeAdvance(c.vruntime, n, Share(c))
  <2>1. b \in Ctx /\ n \in Nat
    BY <1>1, <1>2
  <2>2. /\ e \in Ctx /\ e.run_at = b.run_at /\ e.deadline = b.deadline
        /\ e.slice_ns = b.slice_ns
        /\ e.vruntime = IF n = 0 THEN b.vruntime ELSE VruntimeAdvance(b.vruntime, n, Share(b))
    BY <2>1, ChargedType
  <2> HIDE DEF e
  <2> QED BY <1>2, <2>2
<1> HIDE DEF e
<1>4. /\ s \in Slices
      /\ LatAtStop(e) => s <= SLICE_LAT
      /\ runnable /\ ~Late(c, t) /\ n > 0 /\ n + PREEMPT_TAIL < c.slice_ns
           => s + n <= c.slice_ns
  BY <1>1, <1>3, NextSliceType DEF Late
<1> HIDE DEF s
<1>5. /\ k \in Ctx /\ k.run_at = 0 /\ k.vruntime = e.vruntime /\ k.slice_ns = s
      /\ LatAtStop(k) = LatAtStop(e)
  <2> DEFINE cost == RedCost(IF n = 0 THEN 0 ELSE e.avg, e.slice_ns)
             miss == IF Late(e, t) THEN SatInc(e.adapt_miss) ELSE 0
             sat == IF s \in {SLICE_MIN, IF LatAtStop(e) THEN SLICE_LAT ELSE QUANTUM}
                    THEN SatInc(e.adapt_sat) ELSE 0
             saved == IF cost > n THEN cost - n ELSE 0
  <2>1. (IF n = 0 THEN 0 ELSE e.avg) \in Nat /\ e.slice_ns \in Nat
    BY <1>3, Bounds DEF Ctx
  <2>2. cost \in Nat /\ cost <= SLICE_MAX
    <3>1. cost \in SLICE_MIN .. SLICE_MAX
      BY <2>1, RedCostBounds
    <3> QED BY <3>1, Bounds
  <2>3. saved \in 0 .. SLICE_MAX
    BY <1>1, <2>2, Bounds
  <2>4. miss \in 0 .. COUNT_MAX /\ sat \in 0 .. COUNT_MAX
    BY <1>3, Bounds DEF Ctx, SatInc
  <2>5. k = [e EXCEPT !.slice_ns = s, !.adapt_miss = miss, !.adapt_sat = sat,
                      !.adapt_delta = saved]
    BY DEF Commit
  <2> HIDE DEF k, miss, sat, saved
  <2>6. k \in Ctx /\ k.run_at = 0 /\ k.vruntime = e.vruntime /\ k.slice_ns = s
    BY <1>3, <1>4, <2>3, <2>4, <2>5 DEF Ctx, Slices
  <2>7. k.avg = e.avg /\ k.dev = e.dev /\ k.hint_us = e.hint_us /\ k.weight = e.weight
        /\ k.hint_w = e.hint_w
    BY <1>3, <2>5 DEF Ctx
  <2> QED BY <2>6, <2>7 DEF LatAtStop, Share
<1> DEFINE m == IF ~runnable /\ Late(c, t) THEN SatInc(k.misses) ELSE k.misses
<1>6. o = [k EXCEPT !.misses = m]
  BY DEF Stopped, k, s, e, b, n
<1> HIDE DEF k, o
<1>7. m \in 0 .. COUNT_MAX
  BY <1>5, Bounds DEF Ctx, SatInc
<1> HIDE DEF m
<1>8. o \in Ctx /\ o.run_at = 0 /\ o.vruntime = e.vruntime /\ o.slice_ns = s
      /\ LatAtStop(o) = LatAtStop(e)
  <2>1. o \in Ctx /\ o.run_at = 0 /\ o.vruntime = e.vruntime /\ o.slice_ns = s
    BY <1>5, <1>6, <1>7 DEF Ctx
  <2>2. o.avg = k.avg /\ o.dev = k.dev /\ o.hint_us = k.hint_us /\ o.weight = k.weight
        /\ o.hint_w = k.hint_w
    BY <1>5, <1>6 DEF Ctx
  <2> QED BY <1>5, <2>1, <2>2 DEF LatAtStop, Share
<1>9. e.vruntime <= VruntimeAdvance(c.vruntime, t - c.run_at, Share(c))
  <2>1. t - c.run_at \in Nat /\ c.vruntime \in Nat /\ c.vruntime <= U64Max /\ Share(c) \in Nat
    BY CtxFields, Bounds DEF U64
  <2>2. ScaledDelta(t - c.run_at, Share(c)) \in Nat
    BY <2>1, ScaledType
  <2>3. c.vruntime <= VruntimeAdvance(c.vruntime, t - c.run_at, Share(c))
        /\ VruntimeAdvance(c.vruntime, t - c.run_at, Share(c)) \in Nat
    BY <2>1, <2>2, SatAddType DEF VruntimeAdvance
  <2> QED BY <1>1, <1>3, <2>3
<1>10. s \in Nat /\ t - c.run_at \in Nat
  BY <1>4, Bounds DEF Slices
<1> QED BY <1>1, <1>4, <1>8, <1>9, <1>10 DEF o

------------------------------------------------------------------------------
(* The inductive invariant: a stamp on the clock while the task runs with   *)
(* its state and its CPU in the mask and none at any other time, and a       *)
(* place only while it is queued.                                            *)
StampOK ==
  /\ phase # "queued" => at = Nowhere
  /\ ctx.run_at = IF phase = "running" /\ has /\ allowed THEN ran ELSE 0
  /\ phase = "running" => ran # 0
  /\ ran <= now

IInv == TypeOK /\ StampOK /\ KeyWithinPeriod /\ FreshDeadlineNeverRejected

LEMMA ClockRange ==
  ASSUME TypeOK, NEW times \in SUBSET Nat, now' = now \/ Pass(times)
  PROVE  /\ now' \in 1 .. CLOCK_MAX /\ now <= now'
         /\ now \in Nat /\ now' \in Nat /\ now' # 0 /\ now' \in U64
BY Bounds DEF TypeOK, Pass, U64

LEMMA TickType ==
  ASSUME TypeOK, Tick
  PROVE  ops' \in 0 .. MaxOps
BY TaskConsts DEF TypeOK, Tick

LEMMA NowhereType == Nowhere \in [q : Queues, key : U64]
BY Bounds DEF Nowhere, Queues, U64

LEMMA InitHolds == Init => IInv
<1> SUFFICES ASSUME Init PROVE IInv
  OBVIOUS
<1>1. 0 \in U64 /\ 0 \in Bursts /\ 0 \in 0 .. WEIGHT_MAX /\ 0 \in 0 .. COUNT_MAX
      /\ 0 \in 0 .. SLICE_MAX /\ 0 \in 0 .. MaxOps /\ 1 \in 1 .. CLOCK_MAX
  BY Bounds, TaskConsts DEF U64, Bursts
<1>2. Zero \in Ctx
  BY <1>1 DEF Zero, Ctx, Bursts
<1>3. TypeOK
  BY <1>1, <1>2, NowhereType DEF Init, TypeOK, Phases
<1>4. StampOK
  BY DEF Init, StampOK, Zero
<1>5. KeyWithinPeriod /\ FreshDeadlineNeverRejected
  BY DEF Init, KeyWithinPeriod, FreshDeadlineNeverRejected, Nowhere
<1> QED BY <1>3, <1>4, <1>5 DEF IInv

LEMMA EnableKeeps == IInv /\ Enable => IInv'
<1> SUFFICES ASSUME IInv, Enable PROVE IInv'
  OBVIOUS
<1> USE DEF IInv
<1>1. Fresh \in Ctx /\ Fresh.run_at = 0
  <2>1. 0 \in U64 /\ 0 \in 0 .. PRED_MAX /\ WEIGHT_BASE \in 0 .. WEIGHT_MAX
        /\ 0 \in 0 .. COUNT_MAX /\ 0 \in 0 .. SLICE_MAX /\ QUANTUM \in SLICE_MIN .. QUANTUM
    BY Bounds DEF U64
  <2> QED BY <2>1 DEF Fresh, Zero, Ctx
<1>2. TypeOK'
  BY <1>1, TickType DEF Enable, TypeOK, Phases
<1>3. StampOK'
  BY <1>1 DEF Enable, StampOK
<1>4. KeyWithinPeriod' /\ FreshDeadlineNeverRejected'
  BY DEF Enable, StampOK, KeyWithinPeriod, FreshDeadlineNeverRejected, Nowhere
<1> QED BY <1>2, <1>3, <1>4

LEMMA DisableKeeps == IInv /\ Disable => IInv'
<1> SUFFICES ASSUME IInv, Disable PROVE IInv'
  OBVIOUS
<1> USE DEF IInv
<1>1. TypeOK'
  BY TickType DEF Disable, TypeOK, Phases
<1>2. StampOK'
  BY DEF Disable, StampOK
<1>3. KeyWithinPeriod' /\ FreshDeadlineNeverRejected'
  BY DEF Disable, KeyWithinPeriod, FreshDeadlineNeverRejected
<1> QED BY <1>1, <1>2, <1>3

LEMMA SetWeightKeeps == IInv /\ SetWeight => IInv'
<1> SUFFICES ASSUME IInv, SetWeight PROVE IInv'
  OBVIOUS
<1> USE DEF IInv
<1>1. PICK w \in Weights : ctx' = [ctx EXCEPT !.weight = WeightClamp(w)]
  BY DEF SetWeight
<1>2. WeightClamp(w) \in 0 .. WEIGHT_MAX
  BY TaskConsts, Bounds DEF WeightClamp, Clamp
<1>3. ctx' \in Ctx /\ ctx'.run_at = ctx.run_at /\ ctx'.wait_at = ctx.wait_at
  BY <1>1, <1>2 DEF TypeOK, Ctx
<1>4. TypeOK'
  BY <1>3, TickType DEF SetWeight, TypeOK
<1>5. StampOK'
  BY <1>3 DEF SetWeight, StampOK
<1>6. KeyWithinPeriod' /\ FreshDeadlineNeverRejected'
  BY <1>3 DEF SetWeight, KeyWithinPeriod, FreshDeadlineNeverRejected
<1> QED BY <1>4, <1>5, <1>6

LEMMA DropCpuKeeps == IInv /\ DropCpu => IInv'
<1> SUFFICES ASSUME IInv, DropCpu PROVE IInv'
  OBVIOUS
<1> USE DEF IInv
<1>1. TypeOK'
  BY TickType DEF DropCpu, TypeOK
<1>2. StampOK'
  BY DEF DropCpu, StampOK
<1>3. KeyWithinPeriod' /\ FreshDeadlineNeverRejected'
  BY DEF DropCpu, KeyWithinPeriod, FreshDeadlineNeverRejected
<1> QED BY <1>1, <1>2, <1>3

LEMMA OtherChargeKeeps == IInv /\ OtherCharge => IInv'
<1> SUFFICES ASSUME IInv, OtherCharge PROVE IInv'
  OBVIOUS
<1> USE DEF IInv
<1>1. minV' \in U64
  <2>1. PICK d \in Charges : minV' = SatAdd(minV, d)
    BY DEF OtherCharge
  <2>2. minV \in Nat /\ d \in Nat
    BY TaskConsts, Bounds DEF TypeOK, U64
  <2> QED BY <2>1, <2>2, SatAddType
<1>2. TypeOK'
  BY <1>1, TickType DEF OtherCharge, TypeOK
<1>3. StampOK'
  BY DEF OtherCharge, StampOK
<1>4. KeyWithinPeriod' /\ FreshDeadlineNeverRejected'
  BY DEF OtherCharge, KeyWithinPeriod, FreshDeadlineNeverRejected
<1> QED BY <1>2, <1>3, <1>4

(* What every way into a queue leaves, once its context, place and flags     *)
(* are known to be right.                                                    *)
LEMMA ArriveKeeps ==
  ASSUME IInv, Arrive, ctx' \in Ctx, ctx'.run_at = 0, at' \in [q : Queues, key : U64],
         has' \in BOOLEAN, allowed' \in BOOLEAN, exiting' \in BOOLEAN, sleep' \in U64,
         KeyWithinPeriod', FreshDeadlineNeverRejected'
  PROVE  IInv'
<1> USE DEF IInv
<1>1. now' \in 1 .. CLOCK_MAX /\ now <= now' /\ now \in Nat /\ now' \in Nat
  BY ClockRange, TaskConsts DEF Arrive
<1>2. TypeOK'
  BY <1>1, TickType DEF Arrive, TypeOK, Phases
<1>3. StampOK'
  <2>1. ran' <= now'
    BY <1>1, Bounds DEF Arrive, StampOK, TypeOK, U64
  <2> QED BY <2>1 DEF Arrive, StampOK
<1> QED BY <1>2, <1>3

LEMMA ArrivalStart ==
  ASSUME IInv, Arrive
  PROVE  /\ ctx \in Ctx /\ ctx.run_at = 0 /\ sleep \in U64 /\ minV \in U64
         /\ has \in BOOLEAN /\ allowed \in BOOLEAN /\ exiting \in BOOLEAN
         /\ now' \in 1 .. CLOCK_MAX /\ now' \in U64 /\ now' # 0 /\ 0 \in U64
BY ClockRange, TaskConsts, Bounds DEF IInv, TypeOK, StampOK, Arrive, Waiting, U64

LEMMA EnqueueExitingKeeps == IInv /\ EnqueueExiting => IInv'
<1> SUFFICES ASSUME IInv, EnqueueExiting PROVE IInv'
  OBVIOUS
<1>1. Arrive
  BY DEF EnqueueExiting
<1>2. at' = [q |-> "direct", key |-> 0]
  BY DEF EnqueueExiting, Into
<1>3. at' \in [q : Queues, key : U64] /\ KeyWithinPeriod' /\ FreshDeadlineNeverRejected'
  BY <1>1, <1>2, ArrivalStart DEF Queues, KeyWithinPeriod, FreshDeadlineNeverRejected
<1>4. ctx' = ctx /\ has' = has /\ allowed' = allowed /\ sleep' = sleep /\ exiting' = TRUE
  BY DEF EnqueueExiting
<1> QED BY <1>1, <1>3, <1>4, ArrivalStart, ArriveKeeps

LEMMA EnqueueGateKeeps == IInv /\ EnqueueGate => IInv'
<1> SUFFICES ASSUME IInv, EnqueueGate PROVE IInv'
  OBVIOUS
<1>1. Arrive
  BY DEF EnqueueGate
<1>2. at' = [q |-> "gate_reject", key |-> 0]
  BY DEF EnqueueGate, Into
<1>3. at' \in [q : Queues, key : U64] /\ KeyWithinPeriod' /\ FreshDeadlineNeverRejected'
  BY <1>1, <1>2, ArrivalStart DEF Queues, KeyWithinPeriod, FreshDeadlineNeverRejected
<1>4. has' = has /\ allowed' = allowed /\ sleep' = sleep /\ exiting' = exiting
  BY DEF EnqueueGate
<1>5. ctx' \in Ctx /\ ctx'.run_at = 0
  <2>1. ctx' = [ctx EXCEPT !.wait_at = now'] \/ ctx' = ctx
    BY DEF EnqueueGate
  <2> QED BY <1>1, <2>1, ArrivalStart DEF Ctx
<1> QED BY <1>1, <1>3, <1>4, <1>5, ArrivalStart, ArriveKeeps

LEMMA EnqueueStatelessKeeps == IInv /\ EnqueueStateless => IInv'
<1> SUFFICES ASSUME IInv, EnqueueStateless PROVE IInv'
  OBVIOUS
<1>1. Arrive
  BY DEF EnqueueStateless
<1>2. PICK row \in Hints : at' = [q |-> "tier", key |-> FallbackDeadline(now', row.us)]
  BY DEF EnqueueStateless, Into
<1>3. FallbackDeadline(now', row.us) \in U64
  <2>1. row.us \in {0} \cup (QUANTUM .. PERIOD) /\ 0 \in Bursts
    BY TaskConsts, Bounds DEF Bursts
  <2> QED BY <1>1, <2>1, ArrivalStart, DeadlineType
<1>4. has' = FALSE /\ ctx' = ctx /\ allowed' = TRUE /\ sleep' = sleep /\ exiting' = exiting
  BY <1>1, ArrivalStart DEF EnqueueStateless
<1>5. at' \in [q : Queues, key : U64] /\ KeyWithinPeriod' /\ FreshDeadlineNeverRejected'
  BY <1>2, <1>3, <1>4 DEF Queues, KeyWithinPeriod, FreshDeadlineNeverRejected
<1> QED BY <1>1, <1>4, <1>5, ArrivalStart, ArriveKeeps

LEMMA EnqueueTargetKeeps ==
  ASSUME NEW flag \in Flags
  PROVE  IInv /\ EnqueueTarget(flag) => IInv'
<1> SUFFICES ASSUME IInv, EnqueueTarget(flag) PROVE IInv'
  OBVIOUS
<1>1. Arrive
  BY DEF EnqueueTarget
<1>2. PICK row \in Hints :
        LET c == Prepared(row, flag)
            j == Join(c, now', flag)
        IN  /\ ctx' = j.ctx /\ sleep' = j.sleep
            /\ \/ j.red /\ Into("red_reject", 0)
               \/ ~j.red /\ Into("tier", j.key)
               \/ /\ ~j.red /\ ~Late(c, now') /\ Eligible(c.vruntime, minV, 0)
                  /\ Into("direct", j.key)
  BY DEF EnqueueTarget, Prepared
<1> DEFINE c == Prepared(row, flag)
           j == Join(c, now', flag)
<1>3. c \in Ctx /\ c.run_at = 0
  BY <1>1, ArrivalStart, PreparedType DEF IInv
<1> HIDE DEF c
<1>4. /\ j.ctx \in Ctx /\ j.sleep \in U64 /\ j.key \in U64 \ {0} /\ ~j.red
      /\ j.ctx.wait_at = now' /\ j.ctx.run_at = c.run_at
      /\ j.key = SatAdd(now', PERIOD) \/ TimeBefore(j.key, SatAdd(now', PERIOD))
  BY <1>1, <1>3, ArrivalStart, JoinType
<1>5. ctx' = j.ctx /\ sleep' = j.sleep
      /\ (at' = [q |-> "tier", key |-> j.key] \/ at' = [q |-> "direct", key |-> j.key])
  BY <1>2, <1>4 DEF Into, c
<1> HIDE DEF j
<1>6. at' \in [q : Queues, key : U64] /\ FreshDeadlineNeverRejected'
  BY <1>4, <1>5 DEF Queues, FreshDeadlineNeverRejected
<1>7. KeyWithinPeriod'
  BY <1>1, <1>4, <1>5, ArrivalStart DEF KeyWithinPeriod
<1>8. has' = TRUE /\ allowed' = TRUE /\ exiting' = exiting
  BY DEF EnqueueTarget
<1> QED BY <1>1, <1>3, <1>4, <1>5, <1>6, <1>7, <1>8, ArrivalStart, ArriveKeeps

LEMMA RunKeeps == IInv /\ Run => IInv'
<1> SUFFICES ASSUME IInv, Run PROVE IInv'
  OBVIOUS
<1> USE DEF IInv
<1>1. /\ now' \in 1 .. CLOCK_MAX /\ now <= now' /\ now \in Nat /\ now' \in Nat
      /\ now' # 0 /\ now' \in U64
  BY ClockRange, TaskConsts DEF Run
<1>2. ctx.run_at = 0 /\ ctx \in Ctx
  BY DEF Run, StampOK, TypeOK
<1>3. ctx' \in Ctx /\ ctx'.run_at = IF has /\ allowed THEN now' ELSE 0
  <2>1. ctx' = IF has /\ allowed THEN [ctx EXCEPT !.run_at = now'] ELSE ctx
    BY <1>2 DEF Run
  <2> QED BY <1>1, <1>2, <2>1 DEF Ctx
<1>4. TypeOK'
  BY <1>1, <1>3, TickType, NowhereType DEF Run, TypeOK, Phases
<1>5. StampOK'
  BY <1>1, <1>3 DEF Run, StampOK
<1>6. KeyWithinPeriod' /\ FreshDeadlineNeverRejected'
  BY DEF Run, KeyWithinPeriod, FreshDeadlineNeverRejected, Nowhere
<1> QED BY <1>4, <1>5, <1>6

(* A stop that finds the stamp: it began when the segment did.               *)
LEMMA StopStart ==
  ASSUME IInv, NEW runnable \in BOOLEAN, Stop(runnable)
  PROVE  /\ now' \in 1 .. CLOCK_MAX /\ now <= now' /\ now' \in Nat /\ ctx \in Ctx
         /\ ctx.run_at = IF has /\ allowed THEN ran ELSE 0
         /\ ran \in 1 .. CLOCK_MAX /\ now' \in ran .. CLOCK_MAX /\ ran \in Nat
         /\ IF has /\ allowed THEN ctx' = Stopped(ctx, now', runnable) ELSE ctx' = ctx
<1> USE DEF IInv
<1>1. now' \in 1 .. CLOCK_MAX /\ now <= now' /\ now \in Nat /\ now' \in Nat
  BY ClockRange, TaskConsts DEF Stop
<1>2. ran \in Nat /\ ran # 0 /\ ran <= now /\ now <= CLOCK_MAX
  BY Bounds DEF Stop, StampOK, TypeOK, U64
<1>3. ctx \in Ctx /\ ctx.run_at = IF has /\ allowed THEN ran ELSE 0
  BY DEF Stop, StampOK, TypeOK
<1>4. IF has /\ allowed THEN ctx' = Stopped(ctx, now', runnable) ELSE ctx' = ctx
  BY <1>2, <1>3 DEF Stop
<1> QED BY <1>1, <1>2, <1>3, <1>4, Bounds

LEMMA StopKeeps ==
  ASSUME NEW runnable \in BOOLEAN
  PROVE  IInv /\ Stop(runnable) => IInv'
<1> SUFFICES ASSUME IInv, Stop(runnable) PROVE IInv'
  OBVIOUS
<1>1. ctx' \in Ctx /\ ctx'.run_at = 0
  <2>1. CASE has /\ allowed
    BY <2>1, StopStart, StopType
  <2>2. CASE ~(has /\ allowed)
    BY <2>2, StopStart
  <2> QED BY <2>1, <2>2
<1>2. minV' \in U64
  <2>1. ctx'.vruntime \in U64
    BY <1>1 DEF Ctx
  <2> QED BY <2>1 DEF Stop, IInv, TypeOK
<1> USE DEF IInv
<1>3. TypeOK'
  <2>1. phase' \in Phases /\ metDeadline' \in BOOLEAN /\ rested' \in BOOLEAN
    BY DEF Stop, Phases, DeadlineOk, TypeOK
  <2>2. ops' \in 0 .. MaxOps
    BY TickType DEF Stop
  <2> QED BY <1>1, <1>2, <2>1, <2>2, StopStart DEF Stop, TypeOK
<1>4. StampOK'
  <2>1. ran' <= now'
    BY StopStart DEF Stop
  <2> QED BY <1>1, <2>1 DEF Stop, StampOK
<1>5. KeyWithinPeriod' /\ FreshDeadlineNeverRejected'
  BY DEF Stop, StampOK, KeyWithinPeriod, FreshDeadlineNeverRejected, Nowhere
<1> QED BY <1>3, <1>4, <1>5

LEMMA StepHolds == IInv /\ [Next]_vars => IInv'
<1> SUFFICES ASSUME IInv, [Next]_vars PROVE IInv'
  OBVIOUS
<1>1. CASE UNCHANGED vars
  BY <1>1 DEF vars, IInv, TypeOK, StampOK, KeyWithinPeriod, FreshDeadlineNeverRejected
<1>2. CASE Next
  BY <1>2, EnableKeeps, DisableKeeps, SetWeightKeeps, DropCpuKeeps, OtherChargeKeeps,
     EnqueueExitingKeeps, EnqueueGateKeeps, EnqueueStatelessKeeps, EnqueueTargetKeeps,
     RunKeeps, StopKeeps DEF Next
<1> QED BY <1>1, <1>2

LEMMA Invariance == Spec => []IInv
BY InitHolds, StepHolds, PTL DEF Spec

------------------------------------------------------------------------------
(* What follows                                                              *)

(* Every field of flow_task_ctx keeps its range through any sequence of      *)
(* handlers: predictor, slice, share and saved service (TypeOK).             *)
THEOREM TaskTypeCorrect == Spec => []TypeOK
BY Invariance, PTL DEF IInv

(* No key of a tier lies further than one period past the stamp of its wait *)
(* (KeyWithinPeriod).                                                        *)
THEOREM KeysWithinPeriod == Spec => []KeyWithinPeriod
BY Invariance, PTL DEF IInv

(* No task is ever turned away by the RED test of its join                   *)
(* (FreshDeadlineNeverRejected).                                             *)
THEOREM NeverRejected == Spec => []FreshDeadlineNeverRejected
BY Invariance, PTL DEF IInv

(* A stop charges at most the time since the last running, whatever gates    *)
(* were missed in between (ChargesOnlyService).                              *)
THEOREM ChargesService == Spec => ChargesOnlyService
<1>1. ASSUME IInv, [Next]_vars, phase = "running", phase' # "running"
      PROVE  ctx'.vruntime <= VruntimeAdvance(ctx.vruntime, now' - ran, Share(ctx))
  <2>1. PICK runnable \in BOOLEAN : Stop(runnable)
    BY <1>1 DEF Next, vars, Enable, Disable, SetWeight, DropCpu, OtherCharge, EnqueueExiting,
       EnqueueGate, EnqueueStateless, EnqueueTarget, Arrive, Waiting, Run
  <2>2. CASE has /\ allowed
    BY <1>1, <2>1, <2>2, StopStart, StopType
  <2>3. CASE ~(has /\ allowed)
    <3>1. ctx' = ctx /\ ctx \in Ctx /\ now' - ran \in Nat
      BY <1>1, <2>1, <2>3, StopStart
    <3>2. ctx.vruntime \in Nat /\ ctx.vruntime <= U64Max /\ Share(ctx) \in Nat
      BY <3>1, CtxFields, Bounds DEF U64
    <3>3. ScaledDelta(now' - ran, Share(ctx)) \in Nat
      BY <3>1, <3>2, ScaledType
    <3> QED BY <3>1, <3>2, <3>3, SatAddType DEF VruntimeAdvance
  <2> QED BY <2>2, <2>3
<1>2. IInv /\ [Next]_vars => [phase = "running" /\ phase' # "running" =>
         ctx'.vruntime <= VruntimeAdvance(ctx.vruntime, now' - ran, Share(ctx))]_vars
  BY <1>1
<1> QED BY <1>2, Invariance, PTL DEF Spec, ChargesOnlyService

(* A sleeper is boosted once: after a join to a tier it lags the minimum of  *)
(* its CPU by at most the bound (OneBoost).                                  *)
THEOREM BoostedOnce == Spec => OneBoost
<1>1. ASSUME IInv, [Next]_vars, at' # at, at'.q = "tier", has'
      PROVE  ctx'.vruntime + VLAG_MAX >= minV
  <2>1. PICK flag \in Flags : EnqueueTarget(flag)
    <3>1. ~EnqueueExiting /\ ~EnqueueGate /\ ~Run
      <4>1. ASSUME NEW q, NEW key, at' = [q |-> q, key |-> key] PROVE q = "tier"
        BY <1>1, <4>1
      <4>2. EnqueueExiting => at' = [q |-> "direct", key |-> 0]
        BY DEF EnqueueExiting, Into
      <4>3. EnqueueGate => at' = [q |-> "gate_reject", key |-> 0]
        BY DEF EnqueueGate, Into
      <4>4. Run => at' = [q |-> "none", key |-> 0]
        BY DEF Run, Nowhere
      <4> QED BY <4>1, <4>2, <4>3, <4>4
    <3>2. ~EnqueueStateless
      BY <1>1 DEF EnqueueStateless
    <3>3. ~Enable /\ ~Disable /\ ~SetWeight /\ ~DropCpu /\ ~OtherCharge
      BY <1>1 DEF Enable, Disable, SetWeight, DropCpu, OtherCharge
    <3>4. \A runnable \in BOOLEAN : ~Stop(runnable)
      BY <1>1 DEF Stop
    <3> QED BY <1>1, <3>1, <3>2, <3>3, <3>4 DEF Next, vars
  <2>2. Arrive
    BY <2>1 DEF EnqueueTarget
  <2>3. PICK row \in Hints : ctx' = Join(Prepared(row, flag), now', flag).ctx
    BY <2>1 DEF EnqueueTarget, Prepared
  <2>4. Prepared(row, flag) \in Ctx /\ Prepared(row, flag).vruntime + VLAG_MAX >= minV
    BY <1>1, PreparedType DEF IInv
  <2>5. ctx'.vruntime = Prepared(row, flag).vruntime
    BY <1>1, <2>2, <2>3, <2>4, ArrivalStart, JoinType
  <2> QED BY <2>4, <2>5
<1>2. IInv /\ [Next]_vars =>
        [at' # at /\ at'.q = "tier" /\ has' => ctx'.vruntime + VLAG_MAX >= minV]_vars
  BY <1>1
<1> QED BY <1>2, Invariance, PTL DEF Spec, OneBoost

(* What a task put off the CPU ran plus what it keeps never exceeds what it  *)
(* had (LeftoverNeverGrows).                                                 *)
THEOREM LeftoverShrinks == Spec => LeftoverNeverGrows
<1> DEFINE Put(d) == /\ phase = "running" /\ phase' = "ready" /\ has /\ allowed
                     /\ now' = now + d /\ ctx.run_at = now /\ 0 < d /\ ~GapIsResume(d)
                     /\ d + PREEMPT_TAIL < ctx.slice_ns /\ DeadlineOk(ctx.deadline, now')
           Shrinks == \A d \in Runs : Put(d) => ctx'.slice_ns + d <= ctx.slice_ns
<1>1. ASSUME IInv, [Next]_vars, NEW d \in Runs, Put(d)
      PROVE  ctx'.slice_ns + d <= ctx.slice_ns
  <2>1. Stop(TRUE)
    <3>1. \E runnable \in BOOLEAN : Stop(runnable)
      BY <1>1 DEF Next, vars, Enable, Disable, SetWeight, DropCpu, OtherCharge,
         EnqueueExiting, EnqueueGate, EnqueueStateless, EnqueueTarget, Arrive, Waiting, Run
    <3> QED BY <1>1, <3>1 DEF Stop
  <2>2. ctx \in Ctx /\ ctx.run_at = ran /\ ctx' = Stopped(ctx, now', TRUE)
        /\ ran \in 1 .. CLOCK_MAX /\ now' \in ran .. CLOCK_MAX
    BY <1>1, <2>1, StopStart
  <2>3. d \in Nat /\ now' - ctx.run_at = d
    BY <1>1, <2>2, TaskConsts, Bounds
  <2>4. ~Late(ctx, now')
    BY <1>1 DEF Late, DeadlineOk
  <2> QED BY <1>1, <2>2, <2>3, <2>4, StopType
<1>2. IInv /\ [Next]_vars => [Shrinks]_vars
  BY <1>1
<1>3. Spec => [][Shrinks]_vars
  BY <1>2, Invariance, PTL DEF Spec
<1> QED BY <1>3 DEF LeftoverNeverGrows

(* A task that leaves the CPU latency critical carries the latency slice at  *)
(* most (LatencyStopsCapped).                                                *)
THEOREM LatencyCapped == Spec => LatencyStopsCapped
<1>1. ASSUME IInv, [Next]_vars, phase = "running", phase' # "running", has, allowed,
             LatAtStop(ctx')
      PROVE  ctx'.slice_ns <= SLICE_LAT
  <2>1. PICK runnable \in BOOLEAN : Stop(runnable)
    BY <1>1 DEF Next, vars, Enable, Disable, SetWeight, DropCpu, OtherCharge, EnqueueExiting,
       EnqueueGate, EnqueueStateless, EnqueueTarget, Arrive, Waiting, Run
  <2> QED BY <1>1, <2>1, StopStart, StopType
<1>2. IInv /\ [Next]_vars =>
        [phase = "running" /\ phase' # "running" /\ has /\ allowed /\ LatAtStop(ctx')
           => ctx'.slice_ns <= SLICE_LAT]_vars
  BY <1>1
<1> QED BY <1>2, Invariance, PTL DEF Spec, LatencyStopsCapped
=============================================================================
