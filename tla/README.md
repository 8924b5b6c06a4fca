# A TLA+ model of scx_flow

`scx_flow` is a sched_ext CPU scheduler: a BPF program in `scx/src/bpf/` makes
every scheduling decision inside the kernel, a Rust front end in `scx/src/`
attaches it, seeds the topology and shows counters. This directory holds
TLA+ modules of its scheduling core, TLC configurations that check them on
small instances, and proofs that TLAPS checks for every value of the constants.
`PROJECT.json` lists the runs, the mutants every property was tried against,
the source lines of every definition, the hazards and the findings.

    tlc -workers 2 -config task_life.cfg MCFlowTask.tla      # one run
    tlapm FlowCreditProofs.tla                                # the proofs

## The system

| Part | Source (under `scx/src/bpf/`) | State | Operations | Hard part |
|---|---|---|---|---|
| Pure helpers | `intf.h`, `edf.bpf.c` | none | u64 times, shares, keys, predictor, slices, RED | wrap, saturation, boundaries |
| Task life | `enqueue.bpf.c`, `enqueue/*`, `lifecycle.bpf.c`, `weight.bpf.c` | `flow_task_ctx` | enable, disable, set_weight, enqueue, running, stopping, exit_task | stamps and deadlines that outlive what they were set for; a gate that may turn any single call away |
| Tier queues and dispatch | `dispatch.bpf.c`, `task_placement.bpf.c`, `preempt.bpf.c`, `enqueue/kick.bpf.c` | local, node, machine queues; LOCAL_ON; owner and minimum of a CPU | place, tier insert, kick, dispatch pass, steal | reads that age while other CPUs join and drain; who wakes whom |
| Reject queue and credit | `edf.bpf.c`, `dispatch.bpf.c` | reject queue, one u64 credit | reject insert, reclaim walk, credit add and consume | one slot shared by all CPUs through load and compare-and-swap |
| CPU view | `vtime.bpf.c`, `lifecycle.bpf.c` | `running_pid`, `min_vruntime`, `cursor` | running, stopping, disable, exit_task, cpu_release | who may clear an owner |
| CPU selection | `select_cpu.bpf.c`, `select/*` | cursor of every CPU | select_cpu: idle probe, previous CPU, two scans | bounded scans from a cursor the steal moves too, over depths that change between two looks |
| Gate and cgroup hints | `cgroup.bpf.c` | hint rows, pid to cgroup cache | cgroup init, exit, move, set_weight; hint read | a cached id that outlives a move, a pid or a cgroup; bounded tables without eviction |
| Counters, load, timer | `stats.bpf.c`, `main.bpf.c`, `timer.bpf.c` | counters, queues, maps | - | none that decides anything |
| Front end | `main.rs`, `rust/*` | topology and capacity rows | attach, seed, reseed after a resume, snapshot | a reseed while dispatch runs |

How they meet: the kernel calls `select_cpu` and `enqueue` for a task that wakes
up, and `stopping` and `enqueue` for one whose slice ended, holding the run
queue lock of the CPU concerned; `dispatch` runs on a CPU with nothing local
left and moves tasks from the tiers to LOCAL_ON; `running` follows a pick.
The parts share the task state, the owner and minimum of every CPU, the queues
and the credit; nothing else synchronises them.

What makes each part correct:

* task life: a segment is charged at most once and never beyond the time run;
  keys stay within one period of their wait; a sleeper gains one bounded boost;
  slices never grow by being interrupted; the guarantee tests what it says;
* tiers: a task is in one place; masks hold; a queue gives up its earliest
  eligible key; no CPU idles over work it was told about; every wait ends;
* credit: no lost update, no double spend, no free reclaim while tiers are busy,
  loops that end, and that give up only when the others really beat them;
* selection: the answer is the best of what the windows hold, the windows come to
  every CPU, and a steal finds what is there;
* hints: a fresh wait reads the row of the cgroup the task is in, and neither
  table leaks.

## The modules

| Module | Models | Extends |
|---|---|---|
| `FlowMath` | the pure helpers, over a parameterised u64 | |
| `FlowMathProofs` | facts about them, proved | `FlowMath` |
| `ReclaimLedger` | abstract: a capped account with atomic deposits and reservations | |
| `FlowCredit` | `flow_credit_add`, `flow_credit_peek`, `flow_credit_consume` and the reclaim walk, one load or swap a step | instantiates `ReclaimLedger` |
| `FlowCreditProofs` | invariants and the refinement, proved | `FlowCredit` |
| `FlowTask` | one task through enable, the enqueue paths, running and stopping | `FlowMath` |
| `FlowTaskProofs` | ranges, keys, charge, boost and slices of a task, proved | `FlowTask`, `FlowMathProofs` |
| `RunPool` | abstract: every task is claimed once, by one allowed CPU, which runs its claims in order | |
| `FlowDispatch` | queues, joins, kicks and dispatch passes of several CPUs | instantiates `RunPool` |
| `FlowDispatchProofs` | types and masks, proved | `FlowDispatch` |
| `FlowPlaceProofs` | one place, earliest first, the refinement of the pool, proved | `FlowDispatchProofs` |
| `FlowStrandProofs` | no wake-up lost, proved | `FlowPlaceProofs` |
| `FlowScan` | CPU selection and the steal window, with the cursor they share | |
| `FlowScanProofs` | what the scans answer and the moving windows reach, proved | `FlowScan` |
| `FlowHint` | hint table, id cache and their callbacks, with tasks, pids and cgroups | |
| `FlowHintProofs` | types, ownership, no leak, proved | `FlowHint` |
| `MCFlow*` | values for TLC | |

### FlowMath

All bounds of `enum flow_consts` are constants in one common unit and
`FlowConsts` assumes of them what the static assertions and the values of
`intf.h` give. Times are members of `U64`, whose size `2 * Half` is a constant
too; `TimeBefore`, `SatAdd` and `Sub` are the wrapping comparison, the
saturating sum and the wrapping difference of the code. Shifts are divisions.
The definitions evaluate to the code's values with the real constants; the runs
of `FlowTask` use them in microseconds with a 30 bit clock.

### FlowCredit and ReclaimLedger

`credit` is the slot; `pc`, `cur`, `tries`, `arg` are the locals of a CPU inside
`flow_credit_add` or the walk. `AddLoad` and `AddWin`/`AddLose`/`AddDrop` are one
turn of the add loop; `WalkBegin` is the entry of `flow_reject_reclaim_one` with
its one peek, `TryHead` one call of `flow_reclaim_candidate_ok`, `TakeLoad` to
`TakeFail` the consume loop, `Move` the attempt to move the head. A head is
reduced to what the credit tests see: exceeding time and laxity.
The refinement maps a reservation to the interval between the winning swap and
the end of the move (`paid`, a history variable). `beaten` counts, for a CPU in a
retry loop, the swaps that others won meanwhile; it is history too, and `Watch`,
a conjunct of every step, keeps it.

### FlowTask

`ctx` is the `flow_task_ctx`, `now` the clock, which only moves with the time a
step takes; every time the code reads inside a handler is the handler's `now'`.
The kernel calls the handlers of one task one at a time, so each is one action.
The three enqueue paths (open, miss, pinned) compute the same join; `Join` is that
computation in its order: sleep read before the stamp, slice written before the
key, RED on the slice before the latency clamp. `Stop` is `flow_stopping` with
its commit. Inputs: the hint row, the share, how long the task runs, waits and
sleeps, whether its mask still holds its CPU, what other tasks add to the minimum,
and whether a join goes direct or to a tier. `CLOCK_MAX` stops the clock before half
of its range, 292 years of uptime in the code, and before a deadline can cross it. `has` is the task storage, `ran`,
`rested`, `metDeadline` are history variables the properties read. Not in it:
the branch for a negative selected CPU (`enqueue.bpf.c:208-224`), which the kernel
never passes to a task with state, `exit_task`, and counters.

### FlowDispatch and RunPool

An enqueue is two steps, a look (`Wake`, or the first half of `Put`) that fixes
the queue, the kick and the eligibility from what it reads, and a join (`Join`,
`PutJoin`) that inserts and kicks. A pass is `StartPass` (depths read once), then
per tier `Open` (the iterator takes the entries that are there), `Visit`, `Move`
or `Pass`, `EndScan`; then `Pick` or `Put`. So every read can be stale by the
time it is used. External, from how sched_ext behaves: the run queue lock of a CPU
is held from its pass to its pick and by an enqueue on it; a move fails when the
entry left the queue since it was visited; an idle kick acts on a CPU that idles
or is in its pass; a wake up reschedules an idle CPU, a put does not
(`SCX_OPS_ENQ_LAST`). Windows in which sched_ext drops the run queue lock inside
a pass are not modelled.

Service is counted in quanta and shares are equal, so the key order is the order
of virtual times. Whether a drain meets a key and whether an old deadline passed
depend on the clock and are free choices. `VMAX` bounds virtual time by
saturation. The reject queue is empty here: RED rejects nothing
(`FreshDeadlineAdmits`) and masks do not change, so neither gate nor RED fills it.
The cursor the steal window starts at is also moved by the selects of its CPU,
so its start is free here; `FlowScan` follows it. `visits` is the count of the pass;
one that used them all up keeps it while the CPU idles, so that the properties can tell.
In `RunPool` the line of a CPU is its LOCAL_ON queue, so a direct insert and a move from a
tier are both a claim; looks, scans and skipped entries are stutters. The preempt kick only ends a slice early, and slices end at any time.

### FlowScan

`cursor` is the cursor of a CPU, `ask` the wake-up it is placing. `WakeIdle` is a
`flow_select_cpu` that ends in its first stage, `WakeStay` the test of the previous
CPU, `Scan` the two scans over depths and minima as they are then, with the
fallback. The two scans keep the best so far of the peers of their window, in the order
of the code and with its tie rules (`Winner`, a recursive function over the window). `Steal` is a pass that found the three tiers empty
and takes from `flow_steal_one`'s victim, `Take` one that found work, `Block` the
end of a task. A wake-up is placed on the CPU of the waker with interrupts off and a
steal is part of the CPU's own pass, so no two operations touch one cursor at once;
between the previous test and the scan everything else goes on.

Depths count quanta and a slack is the number of whole quanta up to the deadline,
-1 when it passed; the largest slack is also the zero deadline every CPU meets. The
capacity branches of the scan are left out: `flow_init` seeds every row with one
value and nothing writes it later, so they are never taken. A task lands on the local
queue, the node queue or directly on a CPU without a task: which of them is the
business of `FlowDispatch`.

### FlowHint

`rows` is `hint_stor`, `cache` is `cgrp_cache_stor`, both bounded: `Put` is an update
that fails when the map is full, as the callers ignore. Every callback is one action:
those about a task run under its run queue lock, those about a cgroup under the cgroup
lock. What makes the cache hard is the order the kernel allows: `Reap` frees a pid
before `ExitTask` is called for its last holder, so a `Fork` of the next holder may
come in between; `Exec` gives a thread the pid of the leader it replaces and calls
nothing. `Gate` is the entry gate, which may turn away any enable or disable, because the
CPU of a task may be outside its mask: also at a first enable, of a task of another
class whose mask changed while it slept, or of a child whose parent's mask changes
between the copy of the mask and the choice of the CPU. `heirs` and `unswept` are history:
the tasks whose cached id came with a pid they got from exec, and those whose first
enable was turned away over a cached id. The next clear of that pid, by whatever callback,
ends both. `hint` is what the last fresh wait of a task stored; a requeue
reuses it (`enqueue.bpf.c:245-257`) and changes nothing here.

## The runs

| Run | Instance | Shows |
|---|---|---|
| `credit_ledger` | 2 CPUs, four retries, two visits, cap of 2 reservations, heads with and without room | type and payment invariants, spending only into a reservation, refinement of the account, end of every loop |
| `task_life` | real constants in microseconds, 8 steps, runs of 40us to 6s, sleeps of 0.2 and 100ms, two hint rows, two shares | keys within one period, no fresh rejection, charges bounded by service, one boost, leftover never grows, latency stops capped |
| `dispatch_mixed` | 2 CPUs, 2 free tasks and a pinned one, CPU 1 without a live node, two visits a pass, real steal bounds | one place, masks, earliest first, no woken task stranded, refinement of the pool, over local, node and machine queues and a drain node that is not the join node |
| `dispatch_pinned` | 2 CPUs, 3 pinned tasks, fairness | work conserving, every wait ends |
| `hint_rows` | 3 cgroups, 2 tasks, 2 pids, a table of two rows, a cache of one entry, two shares | cached ids are the task's own and a fresh wait reads its own row, exec and gated first enables aside; nothing leaks |
| `select_pick` | 7 CPUs on 2 nodes, 3 tasks, windows of 4 + 2 and 2 to 4 | every scan picks the best of its windows, the windows come round |
| `task_miss`, `task_sleep`, `task_near`, `dispatch_stall`, `steal_reach`, `hint_reuse` | | what a comment says and the code does not do, see below |

Why the bounds are enough. Two CPUs are what a race over one slot or one queue
needs, the proofs cover any number of them for the credit and the queues. Eight steps of a task
are enable, two full rounds of enqueue, running and stopping, and one change of
share, mask or minimum between any two of them; every transition of the slice
and the predictor depends on the previous round only. Three tasks are a running
one, one that waits and one that joins. Two levels of virtual time tell an
eligible task from one that is ahead. Two visits a pass let a pass over the shared queues
run out of them, the case `WokenNeverStranded` sets aside; `dispatch_pinned` and
`dispatch_stall` keep the eight of the code, which three tasks never use up. The durations of `task_life` are on either
side of every threshold of the code: the tail, the latency slice, the quantum, the
period and the resume gap. Seven CPUs with windows half as wide as the code's hold
both windows of a scan and one CPU more, so the windows wrap and leave one out;
three tasks give two peers different depths while a third is placed. `Scanners`
names the CPUs whose wake-ups and steals are followed: the cursors of two CPUs never meet, so one is enough. `VMAX` is
two levels of the minimum. Two cgroups besides the root, two tasks and two pids are
what a pid that changes hands and a cgroup that goes under a stale id need; the table
and the cache are smaller than what would go in, so that they fill up. `hint_reuse`
needs only one pid.

Symmetry is used in `dispatch_mixed` (the free tasks are interchangeable) and
`hint_rows` (tasks, pids), where no liveness is checked. Deadlock checking is off where the bounds
end a behaviour (`task_*`) or a system at rest is a legal end (`dispatch_*`).

Fairness. `FlowCredit` assumes that a BPF program that has started takes its next
step. `FlowDispatch` assumes that a CPU that can step does (its timer ends a slice,
its interrupt follows a kick, a handler runs to its end) and that an enqueue that
has looked joins. No task is assumed to block or to wake up, and no lock or queue
is assumed fair. `FlowScan` assumes that a select ends and that a CPU which can move
or steal a task in a pass makes that pass, which is more than the kernel gives an
idle CPU: `steal_reach` fails even so.

### Where a comment and the code part

* `dispatch_stall`: a CPU that requeues the task it stole onto its idle selected
  CPU, where the task is ahead of the minimum, kicks nobody and goes idle itself:
  the task waits until an unrelated wake up.
* `steal_reach`: the cursor of a CPU moves only when a scan succeeds, so an idle CPU
  that finds nothing in its window looks at the same eight peers in every pass. With
  ten CPUs and a cpuset of CPUs 0 and 9, CPU 0 idles for ever beside a task that
  waits in the local queue of CPU 9 behind the one that runs there.
* `hint_reuse`: a first enable that the gate turns away does not clear the id that the
  last holder of the pid cached, so the task reads the row of a cgroup it was never in,
  until the last holder exits or the task moves, leaves the class or exits.
* `task_miss`: the deadline of finished work is tested again at the next wake up.
* `task_sleep`: queue wait past one burst average counts as sleep.
* `task_near`: virtual deadlines count service from zero, the clock does not.
  Until service catches up with the clock (a light share can get it there, since
  its virtual time runs up to 128 times faster) every key is overdue, so by
  `OverdueNeverLocal` the local queues stay unused.

Noticed, without a run:

* Dispatch. A pass that spends its eight visits on tasks its CPU may not run ends
  without a move, and the next one starts at the same heads, contrary to
  `intf.h:153-156` ("leftover work resumes next pass, so the pass stays work
  conserving across passes"): `WorkConserving` holds for pinned tasks only because
  they wait behind no foreign ones. The drain branch of the bypass needs an empty
  machine and reject queue only, so an arrival whose key the drain meets passes an earlier key in
  the local queue (`kick.bpf.c:52-56` says otherwise). The idle probe clears an idle
  bit even if it then kicks nobody (`preempt.bpf.c:88-106`). Every insert hands the
  kernel the full quantum as its slice (`insert.bpf.c:21`), so the 100us latency
  slice shapes only the key.
* Credit. A reservation whose move fails is not given back (`dispatch.bpf.c:391`).
  With empty tiers a head that loses its reservation is passed over although it could
  move for free (`dispatch.bpf.c:313-316` says "zero credit never idles queued work").
* Selection. `scx/README.md:53` says the previous idle CPU comes first; the code
  tries the waker, then the idle pick of the kernel. A waker counts as idle when no
  flow task runs there. The deadline of a sleeper is the one of its last wait, so a
  wake-up past it meets nowhere, both scans fail and the cursor does not move. The
  preference for the previous CPU in a tie only matters when that CPU's queue drained
  after its own test failed. The races of cursors the comments allow for do not occur.
* Hints. A share that is set before the scheduler loads, or with which a cgroup is
  made, is ignored (`cgroup.bpf.c:155`); the same share written later selects a band
  (`scx/README.md:49` says shares map to periods). A thread that calls exec keeps
  the leader's cached id, hence the leader's row, until its next move, enable,
  disable or exit (`lifecycle.bpf.c:489-491` says a reuse never reads a stale
  hierarchy); `heirs` sets it aside. The default share of 100 is below the neutral
  128, so a nice 0 task without a hint row fails the share test of the latency class
  (`intf.h:1544-1581`).
* CPU view. `flow_exit_task` clears the owner of a CPU by pid, so a late exit may
  clear a new holder of that pid, and exec leaves a view of the old pid, each
  until the next running.

## The proofs

`FlowCreditProofs`, for any set of CPUs, deltas, heads and retries:

* `TypeCorrect`: `Spec => []TypeOK`. The slot stays in `0 .. CREDIT_MAX` because
  every swap stores a capped sum or a difference whose test was made on the value
  the swap compares with.
* `BusyTiersArePaid`: `Spec => []PaidWhileTiersBusy`. Not inductive alone: the
  inductive invariant `IInv` adds to the type what a CPU knows at each program
  counter (what it loaded when it is about to swap, that a reservation is held
  only on the way to a move, that an unpaid move saw empty tiers).
* `LostOnlyToOthers`: `Spec => GivesUpBeaten`. The invariant behind it,
  `TurnsBeaten`, bounds the lost turns of a loop by the swaps of other CPUs since it
  began, one more when the loaded value is already stale.
* `SpendingReserves` and `Refinement`: each step of the loops is a step of the
  ledger or leaves it unchanged; `Refinement` is `Spec => LedgerSpec`.

`FlowMathProofs`, for every value of the bounds:

* `FreshDeadlineAdmits`: `flow_red_should_reject` is false for a deadline computed
  at the same time from the same history, which is how all three callers compute
  it. It rests on `RedCostBounds` and `PredPeriodCoversAverage`: the cost is the
  average, and the period is never shorter than the average.
* `ExceedHasNoLaxity`, `FundedSpendsTheBound`, `AgedHasNoLaxity`: what the reclaim tests can and cannot let through.
* `OverdueNeverLocal`, `CriticalRejectsFirst`: a past key fails the drain test; the
  reject order is by latency class, then share.

`FlowTaskProofs`, for any durations, shares, hint rows and bounds, as long as the clock
stays below half its range:

* `TaskTypeCorrect`, `KeysWithinPeriod`, `NeverRejected`: the three invariants of
  `task_life`. The inductive invariant adds `StampOK`: a task carries the start of its
  segment exactly while it runs with its state and with its CPU in the mask, and a
  place only while it is queued. Lemmas give the range of every helper a handler calls,
  then of a join (`JoinType`, on `FreshDeadlineAdmits`) and of a stop (`StopType`).
* `ChargesService`, `BoostedOnce`, `LeftoverShrinks`, `LatencyCapped`: its four action
  properties. All but `BoostedOnce` need `StampOK`: a stop charges from the stamp, and a
  stale one would charge time the task did not run, as would a resume from it.
  `LeftoverShrinks` also needs that the tail is no shorter than the shortest slice.

`FlowDispatchProofs`, for any CPUs, tasks, masks, nodes and bounds:

* `TypeCorrect` and `MasksHold`: `Spec => []TypeOK`, `Spec => []MaskHolds`. The
  inductive invariant `RunsOwn` adds to the type that a LOCAL_ON queue, a running
  task and a pending direct insert respect the mask (`OwnOK`) and what each program
  counter implies: a task where a CPU runs or puts one, a slot left where it scans, a
  tier it drains from (`PhaseOK`). One lemma per action; the queue operators
  have theirs (`WithoutType`, `InsertAtType`, `OpensTiers`).

`FlowPlaceProofs`, in the same generality:

* `NeverTwice`: `Spec => []OnePlace`. The invariant `PlaceOK` says that queues hold no
  task twice and exactly the queued tasks (`QueuedOK`), that owners and tasks being put
  are told apart by their state (`OwnerOK`), and that an iterator only sees tasks that
  are still in its queue (`ScanOK`). Without the last, a move could take a task that
  another CPU had taken: each move has to take its task from every other iterator.
* `EarliestFirst`: `Spec => TakesEarliest`. `OrderOK` adds that the tiers and what a scan
  has yet to visit are in the order of their keys, and that a scan has passed over only
  tasks it may not run. It holds because the key of a queued task stands still, and
  because counting the keys up to one's own finds one's place (`PrefixCount`).

* `QueuesImplementPool`: `Spec => PoolSpec`. Each step maps to one step of `RunPool` or
  to none. That a claim finds the task in no line is `PlaceOK`: a task sits in one queue,
  and what an iterator is about to move is still in the tier it scans (`NotInLine`).

`FlowStrandProofs`, in the same generality:

* `NoneStranded`: `Spec => []WokenNeverStranded`. The inductive invariant is `AwakeOK` on
  top of the ones above. It calls what a CPU answers for (the woken tasks selected for it
  and those pinned to it) *due* there and follows a CPU with nothing on LOCAL_ON and visits
  left through its pass: a tier that holds due work is one the pass has yet to drain, and the
  scan of a tier still sees all of it (`SpareAt`). A join that would break it kicks the CPU
  or finds it running. It needs `PlaceOK`, because a task that is taken meanwhile leaves
  every iterator, and the order of minimum and virtual time of a task being put, because
  that makes it eligible, hence kicked (`LocalAt`).
* `PinnedNeverLeft`: the same of a pinned task, woken or put, whatever shares its queues.
  `PinnedConserving`: so if every task is pinned, `Spec => [](VisitsLeft => WorkConserving)`.
  The hypothesis is what `dispatch_pinned` instantiates; with free tasks the promise fails
  (see the notes on dispatch above).

`FlowScanProofs`, for any number of CPUs and tasks, any masks, nodes and windows:

* `ScanPicksBest`: `Spec => PicksBest`. `WinnerBest` says that keeping the best so far
  finds the best of the peers that fit, for any order that compares them all; `SlowOrder`
  and `BestOrder` show that the two comparisons with their tie rules are such orders,
  `PeersAhead` that the window steps visit the CPUs at the distances `BestOf` speaks of
  (wrap included), and `SettledOn` that the minima and tie rules of `BestOf` name the same CPU.
  The orders are total only because minima and drains are numbers, which is part of the
  invariant.
* `TasksPlaced`: `Spec => []TypeOK`. Not inductive alone: `ScanInv` adds that a task being
  placed is no one's but its waker's (`AskOK`) and that a running task was selected for a CPU
  of its mask (`Placed`), since it queues there again when its slice ends.
* `NobodyPassedOver`: `Spec => []NeverPassedOver`. `LapInv` relates how often a CPU
  was left out to its distance from the cursor; a step of two that leaves it out
  brings the cursor two closer (`MoveCloser`), and within a window's width the CPU is in it.
* `WindowsDisjoint`: the two windows of a select share no CPU when the host is at
  least as large as both.

`FlowHintProofs`, for any cgroups, tasks, pids, shares and table sizes:

* `TypeCorrect`, `IdsAreOwn`, `TablesDoNotLeak`, `FreshReads`. The inductive
  invariant is all of them and `PidsHeld`: a task that has not exited holds a pid and no
  two live tasks hold the same one. None of the parts is inductive without the others:
  an id is the task's own because every other holder of the pid is dead and the enable
  cleared what it left. `IdsAreOwn` and `FreshReads` set two kinds of task aside, those in
  `heirs` and those in `unswept`; `hint_reuse` shows that the second cannot be dropped.

The recursive function of a scan is proved about without an induction over data: the least
step at which the claim fails is a contradiction (`HasLeast`, `WinnerBest`).

The assumptions are `CreditConsts`, `FlowConsts`, `TaskConsts`, `DispatchConsts`,
`ScanConsts` and `HintConsts`, which only say what kind of thing a constant is and what the static
assertions of `intf.h` give (a pass has at least one slot and one visit, the tasks of
`FlowScan` are finitely many); TLC evaluates them in the runs.

Every safety and action property of the runs is proved. Model-checked only: liveness
(`OperationsEnd`, `EveryWaitEnds`; TLAPS does not handle fairness and ENABLED), and
`WorkConserving` without `VisitsLeft`, which `dispatch_pinned` checks for three tasks: a
proof would have to count every entry a pass may visit, and with more foreign tasks at the
head of a queue than a pass has visits it does not hold.

## Not modelled

* Counters and their display, performance levels, installation and the load probe
  decide nothing. The constant mirror of `config.rs` repeats `intf.h`. The timer
  does nothing.
* Load and unload: `flow_init` makes the queues and clears the maps before any
  other operation can run, and the initial states are its result.
* The front end writes the node row of every CPU before the attach and the same
  rows again after a resume; a CPU hotplug makes the kernel restart the scheduler.
  `Node` is therefore a constant.
* The clears of a CPU's owner by cpu_release, disable and exit_task, and pids in
  `FlowDispatch`, whose owner is the task itself.
* The reject queue inside `FlowDispatch`: RED rejects no fresh deadline
  (`FreshDeadlineAdmits`), so only the gate for a task whose mask lost its CPU fills
  it, and masks do not change there. Its walk is `FlowCredit`.
* The windows in which sched_ext drops the run queue lock inside a pass, the idle mask
  of the kernel as a variable, and how long the kernel lets a slice run.
