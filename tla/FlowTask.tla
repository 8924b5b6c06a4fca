------------------------------- MODULE FlowTask -------------------------------
(***************************************************************************)
(* The life of one task in flow: its task_ctx through enable, enqueue,     *)
(* running and stopping, on a clock that moves by the time each step takes.*)
(* The kernel calls the handlers of one task one at a time under its run   *)
(* queue lock, so a handler is one action here; the time it reads is now'. *)
(*                                                                         *)
(* The rest of the machine is input: whether the CPU checks pass, the hint *)
(* row of its cgroup, the minimum vruntime other tasks push forward, and   *)
(* whether the target can take it directly.  A row has no period or one of *)
(* a quantum at least, and its share is clamped when it is read (FlowHint).*)
(* The queues it joins are those of FlowDispatch.                          *)
(***************************************************************************)
EXTENDS FlowMath

CONSTANTS
  Runs,          (* how long a segment on CPU may last                     *)
  Waits,         (* how long a queue wait may last                         *)
  Sleeps,        (* how long the task may sleep                            *)
  Hints,         (* hint rows: records [us, w]                             *)
  Weights,       (* raw shares the kernel sets                             *)
  Charges,       (* what other tasks add to the minimum vruntime           *)
  COUNT_MAX,     (* where the saturating miss and streak counters stop     *)
  CLOCK_MAX,     (* bound: where the clock stops, before half a u64        *)
  MaxOps         (* bound: steps of one behaviour                          *)

ASSUME TaskConsts ==
  /\ Runs \subseteq Nat /\ Waits \subseteq Nat /\ Sleeps \subseteq Nat
  /\ Weights \subseteq Nat /\ Charges \subseteq Nat
  /\ Hints \subseteq [us : {0} \cup (QUANTUM .. PERIOD), w : WEIGHT_MIN .. WEIGHT_MAX]
  /\ COUNT_MAX \in Nat /\ MaxOps \in Nat
  /\ CLOCK_MAX \in Nat \ {0} /\ CLOCK_MAX + PRED_MAX < Half

VARIABLES
  now,           (* the clock, positive                                    *)
  phase,         (* none, asleep, queued, running or ready                 *)
  has,           (* the task storage holds a task_ctx                      *)
  ctx,           (* struct flow_task_ctx                                   *)
  at,            (* the queue joined last and its key                      *)
  allowed,       (* the mask holds the CPU the task is on                  *)
  exiting,       (* PF_EXITING                                             *)
  minV,          (* min_vruntime of its CPU                                *)
  sleep,         (* the sleep the last join computed                       *)
  ran,           (* history: when the segment on CPU really began          *)
  rested,        (* history: it blocked since its last join                *)
  metDeadline,   (* history: it left the CPU done and on time              *)
  ops            (* bound: steps taken                                     *)

vars == <<now, phase, has, ctx, at, allowed, exiting, minV, sleep, ran,
          rested, metDeadline, ops>>

Zero == [vruntime |-> 0, deadline |-> 0, wait_at |-> 0, run_at |-> 0,
         avg |-> 0, dev |-> 0, weight |-> 0, slice_ns |-> 0, hint_us |-> 0,
         hint_w |-> 0, misses |-> 0, adapt_miss |-> 0, adapt_sat |-> 0,
         adapt_delta |-> 0]

Fresh == [Zero EXCEPT !.weight = WEIGHT_BASE, !.hint_w = WEIGHT_BASE,
                      !.slice_ns = QUANTUM]

Nowhere == [q |-> "none", key |-> 0]

Phases == {"none", "asleep", "queued", "running", "ready"}
Queues == {"none", "direct", "tier", "gate_reject", "red_reject"}

(* struct flow_task_ctx.  No slice means no history.                        *)
Ctx == [vruntime : U64, deadline : U64, wait_at : U64, run_at : U64,
        avg : 0 .. PRED_MAX, dev : 0 .. PRED_MAX,
        weight : 0 .. WEIGHT_MAX, slice_ns : {0} \cup (SLICE_MIN .. QUANTUM),
        hint_us : {0} \cup (QUANTUM .. PERIOD), hint_w : 0 .. WEIGHT_MAX,
        misses : 0 .. COUNT_MAX, adapt_miss : 0 .. COUNT_MAX,
        adapt_sat : 0 .. COUNT_MAX, adapt_delta : 0 .. SLICE_MAX]

TypeOK ==
  /\ now \in 1 .. CLOCK_MAX /\ minV \in U64 /\ sleep \in U64 /\ ran \in U64
  /\ phase \in Phases /\ ops \in 0 .. MaxOps
  /\ has \in BOOLEAN /\ allowed \in BOOLEAN /\ exiting \in BOOLEAN
  /\ rested \in BOOLEAN /\ metDeadline \in BOOLEAN
  /\ at \in [q : Queues, key : U64]
  /\ ctx \in Ctx

Init ==
  /\ now = 1 /\ phase = "none" /\ has = FALSE /\ ctx = Zero /\ at = Nowhere
  /\ allowed = TRUE /\ exiting = FALSE /\ minV = 0 /\ sleep = 0 /\ ran = 0
  /\ rested = FALSE /\ metDeadline = FALSE /\ ops = 0

Tick == ops < MaxOps /\ ops' = ops + 1
Pass(times) == \E d \in times : now' = now + d /\ now' <= CLOCK_MAX

SatInc(n) == IF n < COUNT_MAX THEN n + 1 ELSE n

Share(c) == EffectiveWeight(c.weight, c.hint_w)

------------------------------------------------------------------------------
(* flow_enable, flow_disable, flow_set_weight, the mask and the machine      *)

(* A CPU outside the mask fails the gate and leaves whatever state is there.*)
Enable ==
  /\ phase = "none" /\ Tick
  /\ phase' = "asleep"
  /\ IF allowed THEN has' = TRUE /\ ctx' = Fresh ELSE UNCHANGED <<has, ctx>>
  /\ UNCHANGED <<now, at, allowed, exiting, minV, sleep, ran, rested, metDeadline>>

(* Leaving the class keeps the task storage: nothing but pid views clear.   *)
Disable ==
  /\ phase = "asleep" /\ Tick
  /\ phase' = "none"
  /\ UNCHANGED <<now, has, ctx, at, allowed, exiting, minV, sleep, ran, rested,
                 metDeadline>>

SetWeight ==
  /\ phase # "none" /\ has /\ Tick
  /\ \E w \in Weights : ctx' = [ctx EXCEPT !.weight = WeightClamp(w)]
  /\ UNCHANGED <<now, phase, has, at, allowed, exiting, minV, sleep, ran, rested,
                 metDeadline>>

(* The mask may drop the CPU of a task that sleeps or was just put off CPU. *)
DropCpu ==
  /\ phase \in {"none", "asleep", "ready"} /\ allowed /\ Tick
  /\ allowed' = FALSE
  /\ UNCHANGED <<now, phase, has, ctx, at, exiting, minV, sleep, ran, rested,
                 metDeadline>>

(* Another task charges the CPU, which takes its vruntime.                   *)
OtherCharge ==
  /\ Tick
  /\ \E d \in Charges : minV' = SatAdd(minV, d)
  /\ UNCHANGED <<now, phase, has, ctx, at, allowed, exiting, sleep, ran, rested,
                 metDeadline>>

------------------------------------------------------------------------------
(* flow_enqueue                                                              *)

MakeFair(c, deadline) ==
  EdfKey(deadline, VirtDeadline(c.vruntime, SliceInherit(c.slice_ns), Share(c)))

(* Mutant of CapKey: far keys are kept.                                      *)
CapKeyNone(key, t) == key

CapKey(key, t) ==
  LET bound == SatAdd(t, PERIOD)
  IN  IF key # 0 /\ bound # U64Max /\ ~TimeBefore(key, bound) THEN bound ELSE key

(* Mutant of ClampToMin: a sleeper keeps all its lag.                        *)
ClampToMinNone(c, min) == c

ClampToMin(c, min) ==
  IF min > VLAG_MAX /\ c.vruntime < min - VLAG_MAX
  THEN [c EXCEPT !.vruntime = min - VLAG_MAX]
  ELSE c

(* Zero weight and slice mean no history.                                   *)
Defaults(c) == [c EXCEPT !.weight = Neutral(@), !.slice_ns = SliceInherit(@)]

(* A fresh wait takes the hint row of the cgroup, a requeue the stored one.  *)
Hinted(c, row, flag) ==
  IF flag = "reenq" THEN c ELSE [c EXCEPT !.hint_us = row.us, !.hint_w = row.w]

Late(c, t) == Missed(c.deadline, t)

(* A miss holds the stored slice, a fresh wait earns the clamped remainder  *)
(* of its deadline, all other joins inherit.                                *)
Opens(c, t, flag) == ~Late(c, t) /\ flag = "wakeup"

FreshSlice(c, t, deadline, lat) ==
  SliceTierCap(SliceFor(deadline, t), c.avg, c.dev, lat)

JoinSlice(c, t, flag, deadline, lat) ==
  IF Late(c, t) THEN SliceMissHold(c.slice_ns)
  ELSE IF Opens(c, t, flag) THEN SliceLatClamp(FreshSlice(c, t, deadline, lat), lat)
  ELSE SliceInherit(c.slice_ns)

(* RED costs a fresh wait on the slice before the latency clamp.            *)
Rejects(c, t, flag, deadline, lat, slice) ==
  RedShouldReject(deadline, t, c.avg,
    IF Opens(c, t, flag) THEN FreshSlice(c, t, deadline, lat) ELSE slice, lat)

(* What a join computes: open, miss and pinned share the same order.  The   *)
(* sleep is read before the wait stamp is overwritten and the slice is      *)
(* written before the key.                                                  *)
Join(c, t, flag) ==
  LET nap      == SleepNs(c.wait_at, t, c.avg)
      lat      == IsLat(c.avg, c.dev, c.hint_us, nap, Share(c))
      deadline == PredDeadline(t, c.avg, c.dev, c.hint_us)
      slice    == JoinSlice(c, t, flag, deadline, lat)
      joined   == [c EXCEPT !.deadline = deadline, !.wait_at = t,
                            !.slice_ns = slice,
                            !.misses = IF Late(c, t) THEN SatInc(@) ELSE @]
      fair     == MakeFair(joined, deadline)
      key      == IF Opens(c, t, flag) /\ lat
                  THEN EdfKey(fair, LatDeadline(t, slice)) ELSE fair
  IN  [ctx |-> joined, key |-> CapKey(key, t), sleep |-> nap,
       red |-> Rejects(c, t, flag, deadline, lat, slice)]

Into(q, key) == at' = [q |-> q, key |-> key]

Waiting == phase \in {"asleep", "ready"}

(* The task waits from here on; a sleeper woke up first.                     *)
Arrive ==
  /\ Waiting /\ Tick
  /\ IF phase = "asleep" THEN Pass(Sleeps) ELSE now' = now
  /\ phase' = "queued"
  /\ rested' = FALSE
  /\ metDeadline' = FALSE
  /\ UNCHANGED <<minV, ran>>

(* An exiting task runs at once on its CPU, before the gate.                *)
EnqueueExiting ==
  /\ allowed /\ Arrive
  /\ exiting' = TRUE
  /\ Into("direct", 0)
  /\ UNCHANGED <<has, ctx, allowed, sleep>>

(* Neither the selected CPU nor its own is allowed: the reject queue, with  *)
(* the wait stamped.  A woken task always has an allowed CPU by then.       *)
EnqueueGate ==
  /\ phase = "ready" /\ ~allowed /\ Arrive
  /\ ctx' = IF has THEN [ctx EXCEPT !.wait_at = now'] ELSE ctx
  /\ Into("gate_reject", 0)
  /\ UNCHANGED <<has, allowed, exiting, sleep>>

(* No memory for the state: a tier on the fallback deadline.                *)
EnqueueStateless ==
  /\ ~has /\ Arrive
  /\ allowed' = TRUE
  /\ \E row \in Hints : Into("tier", FallbackDeadline(now', row.us))
  /\ UNCHANGED <<has, ctx, exiting, sleep>>

(* The open and pinned paths with a live target.  A pinned task never goes  *)
(* direct and a direct jump needs an eligible task that missed nothing.     *)
EnqueueTarget(flag) ==
  /\ ~exiting /\ Arrive
  /\ flag = "reenq" => phase = "ready"
  /\ allowed' = TRUE /\ has' = TRUE
  /\ \E row \in Hints :
       LET c == ClampToMin(Hinted(Defaults(ctx), row, flag), minV)
           j == Join(c, now', flag)
       IN  /\ ctx' = j.ctx
           /\ sleep' = j.sleep
           /\ \/ j.red /\ Into("red_reject", 0)
              \/ ~j.red /\ Into("tier", j.key)
              \/ /\ ~j.red /\ ~Late(c, now') /\ Eligible(c.vruntime, minV, 0)
                 /\ Into("direct", j.key)
  /\ UNCHANGED exiting

(* The kernel marks a requeue only when it puts a runnable task.            *)
Flags == {"wakeup", "reenq", "preempt"}

------------------------------------------------------------------------------
(* flow_running, flow_stopping                                               *)

(* The first start of a segment is kept.                                    *)
Run ==
  /\ phase \in {"queued", "ready"} /\ Tick
  /\ IF phase = "queued" THEN Pass(Waits) ELSE now' = now
  /\ phase' = "running"
  /\ at' = Nowhere
  /\ ran' = now'
  /\ ctx' = IF has /\ allowed /\ ctx.run_at = 0
            THEN [ctx EXCEPT !.run_at = now']
            ELSE ctx
  /\ UNCHANGED <<has, allowed, exiting, minV, sleep, rested, metDeadline>>

(* The service of a segment: nothing for a bad stamp or a stall.            *)
Delta(c, t) ==
  LET raw == DeltaClamp(t, c.run_at) IN IF GapIsResume(raw) THEN 0 ELSE raw

(* Predictor, then virtual time at the effective share.                     *)
Charged(c, delta) ==
  IF delta = 0 THEN c
  ELSE LET avg == PredAvg(c.avg, delta)
       IN  [c EXCEPT !.avg = avg,
                     !.dev = PredDev(c.dev, avg, delta),
                     !.vruntime = VruntimeAdvance(c.vruntime, delta, Share(c))]

LatAtStop(c) == IsLat(c.avg, c.dev, c.hint_us, 0, Share(c))

(* Resume keeps the leftover, carry the unused quantum of a latency burst,  *)
(* all other stops adapt to the deadline.                                   *)
NextSlice(c, t, start, delta, runnable) ==
  LET late   == Late(c, t)
      lat    == LatAtStop(c)
      early  == runnable /\ ~late /\ delta > 0
      exceed == IF late THEN Sub(t, c.deadline) ELSE 0
  IN  IF early /\ delta + PREEMPT_TAIL < c.slice_ns
      THEN SliceResume(start, t, lat, c.slice_ns)
      ELSE IF early /\ delta < QUANTUM /\ lat
      THEN SliceLatClamp(CarryFor(delta), lat)
      ELSE SliceLatClamp(
             AdaptProp(c.slice_ns, exceed, RemainingNs(c.deadline, t)), lat)

(* Mutant of Commit: the saved service may go below zero.                   *)
CommitNoFloor(c, t, delta, slice) ==
  LET cost == RedCost(IF delta = 0 THEN 0 ELSE c.avg, c.slice_ns)
  IN  [c EXCEPT !.slice_ns = slice, !.adapt_delta = cost - delta]

(* flow_stop_commit.                                                        *)
Commit(c, t, delta, slice) ==
  LET cost == RedCost(IF delta = 0 THEN 0 ELSE c.avg, c.slice_ns)
      cap  == IF LatAtStop(c) THEN SLICE_LAT ELSE QUANTUM
  IN  [c EXCEPT
         !.slice_ns = slice,
         !.adapt_miss = IF Late(c, t) THEN SatInc(@) ELSE 0,
         !.adapt_sat = IF slice \in {SLICE_MIN, cap} THEN SatInc(@) ELSE 0,
         !.adapt_delta = IF cost > delta THEN cost - delta ELSE 0]

(* Mutant of Claimed: the start of the segment is left behind.              *)
ClaimedTwice(c) == c

(* The stop takes the start of the segment, so it is charged once.          *)
Claimed(c) == [c EXCEPT !.run_at = 0]

(* A completion past the deadline counts one miss.                          *)
Stopped(c, t, runnable) ==
  LET delta == Delta(c, t)
      done  == Charged(Claimed(c), delta)
      out   == Commit(done, t, delta, NextSlice(done, t, c.run_at, delta, runnable))
  IN  [out EXCEPT !.misses = IF ~runnable /\ Late(c, t) THEN SatInc(@) ELSE @]

(* flow_stopping; flow_min_advance folds the charge into the CPU minimum.    *)
Stop(runnable) ==
  /\ phase = "running" /\ Tick /\ Pass(Runs)
  /\ phase' = IF runnable THEN "ready" ELSE "asleep"
  /\ rested' = (rested \/ ~runnable)
  /\ metDeadline' = (~runnable /\ DeadlineOk(ctx.deadline, now'))
  /\ IF has /\ allowed /\ ctx.run_at # 0
     THEN /\ ctx' = Stopped(ctx, now', runnable)
          /\ minV' = IF Delta(ctx, now') # 0 /\ TimeBefore(minV, ctx'.vruntime)
                     THEN ctx'.vruntime ELSE minV
     ELSE UNCHANGED <<ctx, minV>>
  /\ UNCHANGED <<has, at, allowed, exiting, sleep, ran>>

Next ==
  \/ Enable \/ Disable \/ SetWeight \/ DropCpu \/ OtherCharge
  \/ EnqueueExiting \/ EnqueueGate \/ EnqueueStateless
  \/ \E flag \in Flags : EnqueueTarget(flag)
  \/ Run
  \/ \E runnable \in BOOLEAN : Stop(runnable)

Spec == Init /\ [][Next]_vars

------------------------------------------------------------------------------
(* Properties                                                                *)

(* A task in a tier carries a wait stamp, and its key lies no further than  *)
(* one period past that stamp whatever its virtual time: the bound that     *)
(* keeps a far key from starving (insert.bpf.c:186-189).                    *)
KeyWithinPeriod ==
  at.q = "tier" /\ has =>
    /\ ctx.wait_at # 0
    /\ at.key # 0
    /\ at.key = SatAdd(ctx.wait_at, PERIOD)
         \/ TimeBefore(at.key, SatAdd(ctx.wait_at, PERIOD))

(* RED tests a deadline computed just before from the same history, so the  *)
(* overload queue is never entered through it (edf.bpf.c:235-247 after      *)
(* enqueue.bpf.c:293, miss.bpf.c:84, insert.bpf.c:385).                     *)
FreshDeadlineNeverRejected == at.q # "red_reject"

(* A stop charges at most the time really spent on the CPU since the last   *)
(* running, even after a running or a stopping was turned away at the gate  *)
(* (lifecycle.bpf.c:201-222).                                               *)
ChargesOnlyService ==
  [][phase = "running" /\ phase' # "running" =>
       ctx'.vruntime <= VruntimeAdvance(ctx.vruntime, now' - ran, Share(ctx))]_vars

(* After a join the task lags the minimum of its CPU by at most the lag     *)
(* bound, however long it slept: one boost at most (insert.bpf.c:172-183).  *)
OneBoost ==
  [][at' # at /\ at'.q = "tier" /\ has' => ctx'.vruntime + VLAG_MAX >= minV]_vars

(* A runnable task put off the CPU with more than the tail left, on time    *)
(* and with its slice, cannot gain slice: what it ran plus what it keeps    *)
(* never exceeds what it had (intf.h:1181-1206, lifecycle.bpf.c:321-338).   *)
LeftoverNeverGrows ==
  [][\A d \in Runs :
       /\ phase = "running" /\ phase' = "ready" /\ has /\ allowed
       /\ now' = now + d /\ ctx.run_at = now /\ 0 < d /\ ~GapIsResume(d)
       /\ d + PREEMPT_TAIL < ctx.slice_ns /\ DeadlineOk(ctx.deadline, now')
       => ctx'.slice_ns + d <= ctx.slice_ns]_vars

(* A task that leaves the CPU as latency critical carries at most the       *)
(* latency slice, through resume, carry and adapt (lifecycle.bpf.c:279-285).*)
LatencyStopsCapped ==
  [][phase = "running" /\ phase' # "running" /\ has /\ allowed /\ LatAtStop(ctx')
       => ctx'.slice_ns <= SLICE_LAT]_vars

(* What enqueue.bpf.c:233-234 says: the miss count tracks wall completion   *)
(* past the deadline.  A task that met its deadline gains no miss.          *)
MissMeansLate == [][metDeadline => ctx'.misses <= ctx.misses]_vars

(* What intf.h:746-747 says: queue plus run never look like sleep.  A join  *)
(* of a task that never blocked since its last join reads no sleep.         *)
QueueIsNotSleep ==
  [][phase = "ready" /\ phase' = "queued" /\ ~rested /\ at'.q = "tier"
       => sleep' = 0]_vars

(* What intf.h:293-294 says: a zero vruntime means no service yet, so the   *)
(* first virtual deadline falls near now.  An enabled task that joins a     *)
(* tier without service has a virtual deadline at most the lag bound before *)
(* now.                                                                     *)
FirstDeadlineNearNow ==
  [][has /\ at' # at /\ at'.q = "tier" /\ ctx'.vruntime = 0 =>
       VirtDeadline(0, ctx'.slice_ns, Share(ctx')) + VLAG_MAX >= now']_vars
=============================================================================
