------------------------------- MODULE FlowMath -------------------------------
(***************************************************************************)
(* The pure time, share, slice and guarantee helpers of flow (intf.h and   *)
(* the stateless part of edf.bpf.c, dispatch.bpf.c, preempt.bpf.c).        *)
(*                                                                         *)
(* Every bound of enum flow_consts is a CONSTANT in one common unit of     *)
(* time, so that TLC can run the same definitions on scaled values and     *)
(* the proofs hold for all of them.  A u64 time is a member of U64 and the *)
(* wrap safe order of the code is TimeBefore.  Shifts are divisions.       *)
(***************************************************************************)
EXTENDS Integers

CONSTANTS
  Half,          (* 2^63: half the range of a u64 time                     *)
  QUANTUM,       (* FLOW_QUANTUM_NS                                        *)
  SLICE_MIN,     (* FLOW_SLICE_MIN_NS                                      *)
  SLICE_ULL,     (* FLOW_SLICE_ULL_NS ... FLOW_SLICE_MAX_NS: the tiers     *)
  SLICE_LL,
  SLICE_MLL,
  SLICE_NL,
  SLICE_ENL,
  SLICE_MAX,
  SLICE_LAT,     (* FLOW_SLICE_LAT_NS                                      *)
  PERIOD,        (* FLOW_PERIOD_NS                                         *)
  PRED_MIN,      (* FLOW_PRED_MIN_NS                                       *)
  PRED_MAX,      (* FLOW_PRED_MAX_NS                                       *)
  WEIGHT_MIN,    (* FLOW_WEIGHT_MIN, BASE and MAX                          *)
  WEIGHT_BASE,
  WEIGHT_MAX,
  RED_EMAX,      (* FLOW_RED_EMAX_NS                                       *)
  RED_TOL,       (* FLOW_RED_TOL_NS                                        *)
  VLAG_MAX,      (* FLOW_VLAG_MAX_NS                                       *)
  LAT_SLEEP_MIN, (* FLOW_LAT_SLEEP_MIN_NS                                  *)
  RESUME_GAP,    (* FLOW_RESUME_GAP_NS                                     *)
  PROP_MAX,      (* FLOW_ADAPT_PROP_MAX_NS                                 *)
  DEADBAND_MIN,  (* FLOW_ADAPT_DEADBAND_MIN_NS                             *)
  PREEMPT_MARGIN,(* FLOW_PREEMPT_MARGIN_NS                                 *)
  PREEMPT_TAIL,  (* FLOW_PREEMPT_TAIL_NS                                   *)
  D_LAT          (* FLOW_D_LAT_NS                                          *)

(* The static assertions of intf.h and the order its enum values have.     *)
ASSUME FlowConsts ==
  /\ Half \in Nat /\ RED_TOL \in Nat /\ VLAG_MAX \in Nat /\ DEADBAND_MIN \in Nat
  /\ LAT_SLEEP_MIN \in Nat /\ PREEMPT_MARGIN \in Nat /\ PREEMPT_TAIL \in Nat
  /\ PROP_MAX \in Nat /\ RED_EMAX \in Nat /\ RESUME_GAP \in Nat
  /\ SLICE_MIN \in Nat \ {0} /\ SLICE_ULL \in Nat /\ SLICE_LL \in Nat
  /\ SLICE_MLL \in Nat /\ SLICE_NL \in Nat /\ SLICE_ENL \in Nat
  /\ SLICE_MAX \in Nat /\ QUANTUM \in Nat /\ SLICE_LAT \in Nat
  /\ D_LAT \in Nat /\ PERIOD \in Nat /\ PRED_MIN \in Nat \ {0} /\ PRED_MAX \in Nat
  /\ WEIGHT_MIN \in Nat \ {0} /\ WEIGHT_BASE \in Nat /\ WEIGHT_MAX \in Nat
  /\ SLICE_MIN < SLICE_ULL /\ SLICE_ULL < SLICE_LL /\ SLICE_LL < SLICE_MLL
  /\ SLICE_MLL < SLICE_NL /\ SLICE_NL < SLICE_ENL /\ SLICE_ENL < SLICE_MAX
  /\ SLICE_NL = QUANTUM /\ SLICE_LAT = SLICE_LL
  /\ PERIOD = 4 * SLICE_MAX /\ PERIOD < PRED_MAX /\ PERIOD < RESUME_GAP
  /\ PRED_MIN <= SLICE_MIN /\ SLICE_MIN <= RED_EMAX /\ SLICE_MIN <= PREEMPT_TAIL
  /\ RED_TOL < RED_EMAX /\ RED_EMAX < QUANTUM
  /\ WEIGHT_MIN <= WEIGHT_BASE /\ WEIGHT_BASE <= WEIGHT_MAX
  /\ RESUME_GAP < Half /\ PRED_MAX < Half

U64Max == 2 * Half - 1
U64 == 0 .. U64Max

------------------------------------------------------------------------------
(* Time                                                                      *)

(* flow_time_before: the signed difference is negative.                     *)
TimeBefore(a, b) == IF a >= b THEN a - b >= Half ELSE b - a <= Half

SatAdd(a, b) == IF a + b > U64Max THEN U64Max ELSE a + b

(* a - b in u64.                                                            *)
Sub(a, b) == IF a >= b THEN a - b ELSE a - b + 2 * Half

Clamp(v, lo, hi) == IF v < lo THEN lo ELSE IF v > hi THEN hi ELSE v

DeltaClamp(now, start) ==
  IF start = 0 \/ TimeBefore(now, start) THEN 0 ELSE Sub(now, start)

GapIsResume(delta) == delta > RESUME_GAP

DeadlineAt(now, period) == SatAdd(now, period)

Missed(deadline, now) ==
  deadline # 0 /\ ~TimeBefore(now, deadline) /\ now # deadline

DeadlineOk(deadline, now) == ~Missed(deadline, now)

RemainingNs(deadline, now) ==
  IF deadline # 0 /\ TimeBefore(now, deadline) THEN Sub(deadline, now) ELSE 0

SleepNs(oldWait, now, avg) ==
  IF oldWait = 0 \/ ~TimeBefore(oldWait, now) THEN 0
  ELSE LET gap == Sub(now, oldWait) IN IF gap > avg THEN gap - avg ELSE 0

------------------------------------------------------------------------------
(* Shares and virtual time                                                   *)

WeightClamp(w) == Clamp(w, WEIGHT_MIN, WEIGHT_MAX)

ShareCombine(taskW, hintW) ==
  Clamp((WeightClamp(taskW) * WeightClamp(hintW)) \div WEIGHT_BASE,
        WEIGHT_MIN, WEIGHT_MAX)

Neutral(w) == IF w = 0 THEN WEIGHT_BASE ELSE w

EffectiveWeight(taskW, hintW) == ShareCombine(Neutral(taskW), Neutral(hintW))

ScaledDelta(delta, weight) ==
  IF delta = 0 THEN 0
  ELSE IF delta > U64Max \div WEIGHT_BASE THEN U64Max
  ELSE LET out == (delta * WEIGHT_BASE) \div WeightClamp(weight)
       IN  IF out = 0 THEN 1 ELSE out

VruntimeAdvance(vruntime, delta, weight) ==
  SatAdd(vruntime, ScaledDelta(delta, weight))

VirtDeadline(ve, request, weight) == SatAdd(ve, ScaledDelta(request, weight))

LagClamp(lag) == Clamp(lag, -VLAG_MAX, VLAG_MAX)

Eligible(vruntime, minVruntime, vlag) ==
  LET lag   == IF LagClamp(vlag) < 0 THEN 0 ELSE LagClamp(vlag)
      limit == SatAdd(minVruntime, lag)
  IN  limit = U64Max \/ vruntime = limit \/ TimeBefore(vruntime, limit)

(* The strict key of every ordered queue: the earlier of the two times,     *)
(* where zero stands for no time.                                           *)
EdfKey(deadline, vd) ==
  IF deadline = 0 THEN vd
  ELSE IF vd # 0 /\ TimeBefore(vd, deadline) THEN vd
  ELSE deadline

------------------------------------------------------------------------------
(* The burst predictor                                                       *)

PredClamp(v) == Clamp(v, PRED_MIN, PRED_MAX)

Sample(delta) == PredClamp(IF delta = 0 THEN PRED_MIN ELSE delta)

PredAvg(avg, delta) ==
  LET d == Sample(delta)
  IN  IF avg = 0 THEN d
      ELSE IF d > avg THEN PredClamp(SatAdd(avg, (d - avg) \div 8))
      ELSE PredClamp(avg - (avg - d) \div 16)

PredDev(dev, avg, delta) ==
  LET d   == Sample(delta)
      a   == IF avg = 0 THEN d ELSE avg
      err == Sample(IF d > a THEN d - a ELSE a - d)
  IN  IF dev = 0
      THEN IF avg \div 4 > err THEN PredClamp(avg \div 4) ELSE err
      ELSE IF err > dev THEN PredClamp(SatAdd(dev, (err - dev) \div 4))
      ELSE PredClamp(dev - (dev - err) \div 8)

(* Mutant of Predicted: the average is left out.                            *)
PredictedMargin(avg, dev) == SatAdd(dev, dev \div 2)

(* Average plus deviation plus half deviation, saturated.                   *)
Predicted(avg, dev) == SatAdd(SatAdd(avg, dev), dev \div 2)

PredPeriod(avg, dev) ==
  IF avg = 0 THEN PERIOD
  ELSE IF Predicted(avg, dev) = U64Max THEN PRED_MAX
  ELSE PredClamp(Predicted(avg, dev))

(* A flat hint is a period in the common unit here, zero for no hint.       *)
TaskPeriod(hint) == IF hint = 0 THEN PERIOD ELSE hint

PredDeadline(now, avg, dev, hint) ==
  DeadlineAt(now, IF avg = 0 THEN TaskPeriod(hint) ELSE PredPeriod(avg, dev))

FallbackDeadline(now, hint) == DeadlineAt(now, TaskPeriod(hint))

------------------------------------------------------------------------------
(* Latency class and slices                                                  *)

LatCrit(avg, dev) ==
  avg # 0 /\ Predicted(avg, dev) # U64Max /\ Predicted(avg, dev) <= QUANTUM

(* flow_is_lat with uclamp_min zero, the value every caller passes.         *)
IsLat(avg, dev, hint, sleep, effW) ==
  /\ LatCrit(avg, dev)
  /\ hint # 0 => hint <= QUANTUM
  /\ sleep # 0 => sleep >= LAT_SLEEP_MIN
  /\ effW # 0 => effW >= WEIGHT_BASE

SliceFor(deadline, now) == Clamp(RemainingNs(deadline, now), SLICE_MIN, QUANTUM)

SliceInherit(cur) == IF cur = 0 THEN QUANTUM ELSE cur

SliceMissHold(cur) ==
  IF SliceInherit(cur) < SLICE_MIN THEN SLICE_MIN ELSE SliceInherit(cur)

(* Mutant of SliceLatClamp: latency tasks keep any slice.                   *)
SliceLatClampNone(slice, isLat) == slice

SliceLatClamp(slice, isLat) ==
  IF isLat /\ slice > SLICE_LAT THEN SLICE_LAT ELSE slice

LatDeadline(now, slice) ==
  LET need == SatAdd(slice, PREEMPT_MARGIN)
  IN  SatAdd(now, IF need > D_LAT THEN need ELSE D_LAT)

(* The smallest ceiling the prediction fits under.                          *)
ClassifyTier(avg, dev, isCrit) ==
  LET fits == {t \in {SLICE_ULL, SLICE_LL, SLICE_MLL, SLICE_NL, SLICE_ENL} :
                 Predicted(avg, dev) <= t}
  IN  IF isCrit THEN SLICE_ULL
      ELSE IF fits = {} THEN SLICE_MAX
      ELSE CHOOSE t \in fits : \A u \in fits : t <= u

SliceTierCap(pre, avg, dev, isLat) ==
  LET tier == ClassifyTier(avg, dev, isLat)
      cap  == IF tier > QUANTUM THEN QUANTUM ELSE tier
  IN  IF pre > cap THEN cap ELSE pre

Smaller(a, b) == IF a < b THEN a ELSE b

AdaptDeadband(base) ==
  IF base \div 32 < DEADBAND_MIN THEN DEADBAND_MIN ELSE base \div 32

(* The damped step one exceed or slack of "by" earns from "base".           *)
AdaptStep(base, by) ==
  IF by <= AdaptDeadband(base) THEN 0
  ELSE Smaller(Smaller(by \div 8, PROP_MAX), base \div 2) \div 2

AdaptProp(cur, exceed, slack) ==
  LET base == SliceInherit(cur)
      nxt  == IF exceed # 0 THEN base - AdaptStep(base, exceed)
              ELSE SatAdd(base, AdaptStep(base, slack))
  IN  Clamp(nxt, SLICE_MIN, QUANTUM)

CarryFor(delta) ==
  IF delta >= QUANTUM THEN SLICE_MIN ELSE Clamp(QUANTUM - delta, SLICE_MIN, QUANTUM)

(* Mutant of SliceResume: a put task gets its whole slice back.             *)
SliceRefill(occStart, now, occLat, cur) ==
  IF occLat THEN SLICE_LAT ELSE SliceInherit(cur)

SliceResume(occStart, now, occLat, cur) ==
  LET end == SatAdd(occStart, SliceInherit(cur))
      rem == IF TimeBefore(now, end) THEN Sub(end, now) ELSE 0
  IN  IF occStart \in {0, U64Max} \/ end = U64Max THEN SliceInherit(cur)
      ELSE Clamp(rem, SLICE_MIN, IF occLat THEN SLICE_LAT ELSE QUANTUM)

------------------------------------------------------------------------------
(* The RED guarantee                                                         *)

RedCost(avg, slice) ==
  IF avg # 0 THEN Clamp(avg, SLICE_MIN, SLICE_MAX)
  ELSE IF slice # 0 THEN Clamp(slice, SLICE_MIN, SLICE_MAX)
  ELSE QUANTUM

RedTol(isCrit) == IF isCrit THEN 0 ELSE RED_TOL

(* (s64)(deadline - now) - cost, or one second when there is no deadline.   *)
RedResidual(deadline, now, cost) ==
  IF deadline = 0 THEN PRED_MAX
  ELSE IF TimeBefore(now, deadline) THEN Sub(deadline, now) - cost
  ELSE -Sub(now, deadline) - cost

RedExceed(resid, tol) == IF resid + tol >= 0 THEN 0 ELSE -(resid + tol)

RedGate(cost, exceed, isCrit, deadline) ==
  /\ exceed # 0
  /\ ~isCrit
  /\ deadline # 0
  /\ cost > RED_EMAX
  /\ cost > exceed

RedShouldReject(deadline, now, avg, slice, isCrit) ==
  LET cost   == RedCost(avg, slice)
      exceed == RedExceed(RedResidual(deadline, now, cost), RedTol(isCrit))
  IN  RedGate(cost, exceed, isCrit, deadline)

RedValue(weight, isCrit) ==
  IF isCrit THEN WEIGHT_MAX ELSE WeightClamp(Neutral(weight))

RejectKey(value) == WEIGHT_MAX - WeightClamp(value)

RedLaxity(deadline, now, cost) ==
  IF deadline = 0 \/ Missed(deadline, now) \/ Sub(deadline, now) < cost THEN 0
  ELSE Sub(deadline, now) - cost

RedReclaimOk(saved, exceed, laxity) ==
  saved >= RED_EMAX /\ laxity # 0 /\ saved >= exceed

ReclaimIsAged(waitAt, now) ==
  /\ waitAt # 0
  /\ waitAt # now
  /\ ~TimeBefore(now, waitAt)
  /\ Sub(now, waitAt) > PERIOD

------------------------------------------------------------------------------
(* Preemption                                                                *)

NoKey(key) == key \in {0, U64Max}

(* A latency arrival takes the CPU of a batch owner when its key leads by   *)
(* more than the margin and the owner has more than the tail left.          *)
PreemptOk(arrKey, occKey, now, occRunAt, occSlice, arrLat, occLat) ==
  LET margin == SatAdd(arrKey, PREEMPT_MARGIN)
      occEnd == SatAdd(occRunAt, SliceInherit(occSlice))
      tail   == SatAdd(now, PREEMPT_TAIL)
  IN  /\ arrLat /\ ~occLat
      /\ ~NoKey(arrKey) /\ ~NoKey(occKey) /\ ~NoKey(occRunAt)
      /\ TimeBefore(arrKey, occKey)
      /\ margin # U64Max /\ TimeBefore(margin, occKey)
      /\ occEnd # U64Max
      /\ tail # U64Max /\ TimeBefore(tail, occEnd)

------------------------------------------------------------------------------
(* Drain depth                                                               *)

DrainFromQ(n) ==
  IF n <= 0 THEN 0 ELSE IF n > U64Max \div QUANTUM THEN U64Max ELSE n * QUANTUM

CpuDrain(localQ, nodeQ) == SatAdd(DrainFromQ(localQ), DrainFromQ(nodeQ))

ReadyBefore(ready, deadline) ==
  ready # U64Max /\ (TimeBefore(ready, deadline) \/ ready = deadline)

MeetsFair(localQ, nodeQ, vtime, now) ==
  vtime = 0 \/ ReadyBefore(SatAdd(now, CpuDrain(localQ, nodeQ)), vtime)
=============================================================================
