---------------------------- MODULE FlowMathProofs ----------------------------
(* Facts about the pure helpers that hold for every value of the bounds.    *)
EXTENDS FlowMath, TLAPS

(* Times a running kernel reads: no wrap of the monotonic clock within one  *)
(* half of its range.                                                       *)
Clock == 0 .. Half - 1

(* A head that needs credit has no room left: whatever the tolerance, a     *)
(* positive exceeding time leaves no laxity (flow_red_exceed and            *)
(* flow_red_laxity of the same deadline, time and cost).                    *)
THEOREM ExceedHasNoLaxity ==
  ASSUME NEW deadline \in U64, NEW now \in U64, NEW cost \in Nat, NEW tol \in Nat,
         RedExceed(RedResidual(deadline, now, cost), tol) # 0
  PROVE  RedLaxity(deadline, now, cost) = 0
<1> USE FlowConsts DEF U64, U64Max
<1>1. CASE deadline = 0
  BY <1>1 DEF RedLaxity
<1>2. CASE deadline # 0 /\ TimeBefore(now, deadline)
  <2>1. RedResidual(deadline, now, cost) = Sub(deadline, now) - cost
    BY <1>2 DEF RedResidual
  <2>2. Sub(deadline, now) \in Int
    BY DEF Sub
  <2>3. Sub(deadline, now) - cost + tol < 0
    BY <2>1, <2>2 DEF RedExceed
  <2>4. Sub(deadline, now) < cost
    BY <2>2, <2>3
  <2> QED BY <2>4 DEF RedLaxity
<1>3. CASE deadline # 0 /\ ~TimeBefore(now, deadline)
  <2>1. CASE now = deadline
    <3>1. Sub(deadline, now) = 0 /\ Sub(now, deadline) = 0
      BY <2>1 DEF Sub
    <3>2. RedResidual(deadline, now, cost) = -0 - cost
      BY <1>3, <3>1 DEF RedResidual
    <3>3. cost # 0
      BY <3>2 DEF RedExceed
    <3> QED BY <3>1, <3>3 DEF RedLaxity
  <2>2. CASE now # deadline
    BY <1>3, <2>2 DEF RedLaxity, Missed
  <2> QED BY <2>1, <2>2
<1> QED BY <1>1, <1>2, <1>3

(* The cost RED charges lies between the slice floor and the slice ceiling. *)
LEMMA RedCostBounds ==
  ASSUME NEW avg \in Nat, NEW slice \in Nat
  PROVE  /\ RedCost(avg, slice) \in SLICE_MIN .. SLICE_MAX
         /\ avg # 0 /\ RedCost(avg, slice) > SLICE_MIN => RedCost(avg, slice) <= avg
         /\ avg = 0 /\ slice <= QUANTUM => RedCost(avg, slice) <= QUANTUM
BY FlowConsts DEF RedCost, Clamp

(* The predicted period is never shorter than the burst average it is built *)
(* from, up to the predictor's own ceiling.                                 *)
LEMMA PredPeriodCoversAverage ==
  ASSUME NEW avg \in 1 .. PRED_MAX, NEW dev \in 0 .. PRED_MAX
  PROVE  PredPeriod(avg, dev) \in avg .. PRED_MAX
<1> USE FlowConsts
<1>1. dev \div 2 \in Nat
  OBVIOUS
<1>2. Predicted(avg, dev) \in Nat /\ Predicted(avg, dev) >= avg
  BY <1>1 DEF Predicted, SatAdd, U64Max
<1> QED BY <1>2 DEF PredPeriod, PredClamp, Clamp

(* RED admits every arrival.  Each enqueue path stamps the deadline from    *)
(* the same clock reading it tests: now plus the predicted period, or plus  *)
(* the hint period when there is no burst history.  Such a deadline always  *)
(* covers the cost that would make a victim, so flow_red_should_reject is   *)
(* false for every predictor state, slice up to one quantum and hint of at  *)
(* least one quantum (every hint flow_share_band writes is 4ms or more).    *)
THEOREM FreshDeadlineAdmits ==
  ASSUME NEW now \in Clock, NEW avg \in 0 .. PRED_MAX, NEW dev \in 0 .. PRED_MAX,
         NEW hint \in Nat, hint = 0 \/ hint >= QUANTUM,
         now + PRED_MAX < Half, now + hint < Half,
         NEW slice \in 0 .. QUANTUM, NEW isCrit \in BOOLEAN
  PROVE  ~RedShouldReject(PredDeadline(now, avg, dev, hint), now, avg, slice, isCrit)
<1> DEFINE cost == RedCost(avg, slice)
           period == IF avg = 0 THEN TaskPeriod(hint) ELSE PredPeriod(avg, dev)
<1>1. cost \in Nat /\ (cost > RED_EMAX => cost <= period)
  <2>1. avg \in Nat /\ slice \in Nat /\ slice <= QUANTUM
    BY FlowConsts
  <2>c. /\ cost \in SLICE_MIN .. SLICE_MAX
        /\ avg # 0 /\ cost > SLICE_MIN => cost <= avg
        /\ avg = 0 /\ slice <= QUANTUM => cost <= QUANTUM
    BY <2>1, RedCostBounds
  <2>2. CASE avg = 0
    <3>1. cost <= QUANTUM /\ cost \in Nat
      BY <2>1, <2>2, <2>c, FlowConsts
    <3>2. period >= QUANTUM /\ period \in Nat
      BY <2>2, FlowConsts DEF TaskPeriod
    <3> HIDE DEF cost, period
    <3> QED BY <3>1, <3>2, FlowConsts
  <2>3. CASE avg # 0
    <3>1. period >= avg /\ period \in Nat
      BY <2>3, PredPeriodCoversAverage, FlowConsts
    <3>2. cost \in Nat /\ (cost > SLICE_MIN => cost <= avg)
      BY <2>1, <2>3, <2>c, FlowConsts
    <3> HIDE DEF cost, period
    <3> QED BY <2>1, <3>1, <3>2, FlowConsts
  <2> QED BY <2>2, <2>3
<1>2. period \in Nat /\ now + period < Half
  <2>1. CASE avg = 0
    BY <2>1, FlowConsts DEF TaskPeriod, Clock
  <2>2. CASE avg # 0
    BY <2>2, PredPeriodCoversAverage, FlowConsts DEF Clock
  <2> QED BY <2>1, <2>2
<1>3. RedTol(isCrit) \in Nat
  BY FlowConsts DEF RedTol
<1>4. PredDeadline(now, avg, dev, hint) = SatAdd(now, period)
  BY DEF PredDeadline, DeadlineAt
<1> HIDE DEF cost, period
<1>5. SatAdd(now, period) = now + period
  BY <1>2, FlowConsts DEF SatAdd, U64Max, Clock
<1>6. cost > RED_EMAX => RedExceed(RedResidual(now + period, now, cost), RedTol(isCrit)) = 0
  BY <1>1, <1>2, <1>3, FlowConsts DEF RedExceed, RedResidual, Sub, TimeBefore, Clock
<1>7. cost = RedCost(avg, slice)
  BY DEF cost
<1> QED BY <1>4, <1>5, <1>6, <1>7 DEF RedShouldReject, RedGate

(* The credit a funded reclaim reserves is always the fixed bound: a head   *)
(* that flow_red_reclaim_ok funds has laxity, so the exceeding time passed  *)
(* to flow_credit_consume is zero (dispatch.bpf.c:288-318).                 *)
THEOREM FundedSpendsTheBound ==
  ASSUME NEW deadline \in U64, NEW now \in U64, NEW cost \in Nat, NEW tol \in Nat,
         NEW saved \in U64, NEW exceed, NEW laxity,
         exceed = RedExceed(RedResidual(deadline, now, cost), tol),
         laxity = RedLaxity(deadline, now, cost),
         RedReclaimOk(saved, exceed, laxity)
  PROVE  exceed = 0
BY ExceedHasNoLaxity DEF RedReclaimOk

(* The aged cover is empty for a deadline of at most one period: once such  *)
(* a reject has waited long enough to count as aged, its deadline is past   *)
(* and its laxity is zero, so no credit moves it while the tiers hold work  *)
(* (dispatch.bpf.c:294-301).                                                *)
THEOREM AgedHasNoLaxity ==
  ASSUME NEW waitAt \in Clock, NEW now \in Clock, NEW deadline \in Clock,
         NEW cost \in Nat, deadline <= waitAt + PERIOD,
         ReclaimIsAged(waitAt, now)
  PROVE  RedLaxity(deadline, now, cost) = 0
BY FlowConsts DEF Clock, ReclaimIsAged, RedLaxity, Missed, TimeBefore, Sub

(* A key that is already past never passes the drain test, whatever the     *)
(* depths: the task goes to its node queue and the bypass is open to it     *)
(* only over empty queues (edf.bpf.c:158-168, insert.bpf.c:84-104).         *)
THEOREM OverdueNeverLocal ==
  ASSUME NEW key \in Clock, NEW now \in Clock, key # 0, key < now,
         NEW localQ \in Int, NEW nodeQ \in Int,
         now + CpuDrain(localQ, nodeQ) < Half
  PROVE  ~MeetsFair(localQ, nodeQ, key, now)
<1> USE FlowConsts
<1>1. DrainFromQ(localQ) \in Nat /\ DrainFromQ(nodeQ) \in Nat
  <2>1. \A n \in Int : n > 0 => n * QUANTUM \in Nat
    OBVIOUS
  <2> QED BY <2>1 DEF DrainFromQ, U64Max
<1>2. CpuDrain(localQ, nodeQ) \in Nat
  BY <1>1 DEF CpuDrain, SatAdd, U64Max
<1>3. SatAdd(now, CpuDrain(localQ, nodeQ)) = now + CpuDrain(localQ, nodeQ)
  BY <1>2 DEF SatAdd, U64Max, Clock
<1> QED BY <1>2, <1>3 DEF MeetsFair, ReadyBefore, TimeBefore, Clock, U64Max

(* A latency critical reject comes first: no other value has a smaller key  *)
(* in the reject queue, and among the rest the heavier share comes first    *)
(* (intf.h:933-979).                                                        *)
THEOREM CriticalRejectsFirst ==
  ASSUME NEW w \in Nat, NEW v \in Nat, NEW isCrit \in BOOLEAN
  PROVE  /\ RejectKey(RedValue(w, TRUE)) <= RejectKey(RedValue(v, isCrit))
         /\ Neutral(w) >= Neutral(v) =>
               RejectKey(RedValue(w, FALSE)) <= RejectKey(RedValue(v, FALSE))
BY FlowConsts DEF RejectKey, RedValue, WeightClamp, Clamp, Neutral
=============================================================================
