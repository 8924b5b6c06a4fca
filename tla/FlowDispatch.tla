----------------------------- MODULE FlowDispatch -----------------------------
(***************************************************************************)
(* The queues of flow and the CPUs that drain them: enqueue with its idle  *)
(* bypass and kicks, the dispatch pass with its depths read once, and the  *)
(* kernel loop around them.                                                *)
(*                                                                         *)
(* An enqueue first looks (owner, depths, eligibility) and then joins; a   *)
(* pass reads its depths, opens a queue, visits entries and tries to move  *)
(* each, one step at a time, so joins and passes of other CPUs interleave. *)
(* The run queue lock of a CPU is held through its own pass and through    *)
(* the enqueue of a task on it, as in the kernel.                          *)
(*                                                                         *)
(* Service is counted in quanta.  All weights and slices are equal, so the *)
(* fair key of a task is its virtual time plus one quantum and queues are  *)
(* ordered by virtual time.  The reject queue is that of FlowCredit and    *)
(* stays empty here: RED admits every fresh deadline (FlowTask) and masks  *)
(* do not change.                                                          *)
(***************************************************************************)
EXTENDS Integers, Sequences, FiniteSets, SequencesExt

CONSTANTS
  Tasks,
  None,          (* no task                                                *)
  N,             (* nr_cpu_ids                                             *)
  Mask,          (* cpus_ptr of every task                                 *)
  Node,          (* node of every CPU in the topology map                  *)
  NR_NODES,      (* nr_node_ids                                            *)
  MAX_VISIT,     (* FLOW_DISPATCH_MAX_VISIT                                *)
  STEAL_MIN,     (* FLOW_STEAL_MIN_PEERS, FLOW_STEAL_MAX_PEERS             *)
  STEAL_MAX,
  SLOTS,         (* scx_bpf_dispatch_nr_slots                              *)
  VLAG,          (* FLOW_VLAG_MAX_NS in quanta                             *)
  VMAX           (* bound: where virtual time saturates                    *)

Cpus == 0 .. N - 1

ASSUME DispatchConsts ==
  /\ N \in Nat \ {0} /\ NR_NODES \in Nat \ {0}
  /\ None \notin Tasks
  /\ Mask \in [Tasks -> (SUBSET Cpus) \ {{}}]
  /\ Node \in [Cpus -> Nat]
  /\ MAX_VISIT \in Nat \ {0} /\ SLOTS \in Nat \ {0}
  /\ STEAL_MIN \in Nat /\ STEAL_MAX \in Nat /\ STEAL_MIN <= STEAL_MAX
  /\ VLAG \in Nat /\ VMAX \in Nat

Local(c) == <<"local", c>>
NodeQ(n) == <<"node", n>>
Machine == <<"machine", 0>>
On(c) == <<"on", c>>       (* SCX_DSQ_LOCAL_ON: the queue the kernel runs from *)

Tiers == {Local(c) : c \in Cpus} \cup {NodeQ(n) : n \in 0 .. NR_NODES - 1} \cup {Machine}
Queues == Tiers \cup {On(c) : c \in Cpus}

VARIABLES
  dsq,           (* what every queue holds                                 *)
  state,         (* asleep, waking, requeue, queued or running             *)
  plan,          (* what a pending enqueue decided: queue, missed, eligible*)
  sel,           (* selected_cpu of every task                             *)
  vr,            (* vruntime of every task                                 *)
  minv,          (* min_vruntime of every CPU                              *)
  curr,          (* running_pid of every CPU                               *)
  pc,            (* where every CPU is                                     *)
  kick,          (* a reschedule is pending                                *)
  tiers,         (* the tiers the pass has yet to drain, 4 to steal        *)
  from,          (* the queue being scanned                                *)
  todo,          (* its entries still to visit                             *)
  cand,          (* the entry just visited, or the task being put          *)
  visits,        (* entries visited in this pass; if all, until the next   *)
  moved,         (* entries moved in this pass                             *)
  seen,          (* history: the entries the iterator may still meet or met*)
  woken          (* history: the tasks whose last join was a wake up       *)

taskVars == <<state, plan, sel, vr, woken>>
scanVars == <<from, todo, seen>>
passVars == <<tiers, scanVars, cand, visits, moved>>
vars == <<dsq, taskVars, minv, curr, pc, kick, passVars>>

PCs == {"idle", "pass", "scan", "try", "put", "run"}
NoPlan == [q |-> Machine, missed |-> FALSE, elig |-> FALSE]

TypeOK ==
  /\ dsq \in [Queues -> Seq(Tasks)]
  /\ state \in [Tasks -> {"asleep", "waking", "requeue", "queued", "running"}]
  /\ plan \in [Tasks -> [q : Queues, missed : BOOLEAN, elig : BOOLEAN]]
  /\ sel \in [Tasks -> Cpus] /\ \A t \in Tasks : sel[t] \in Mask[t]
  /\ vr \in [Tasks -> 0 .. VMAX] /\ minv \in [Cpus -> 0 .. VMAX]
  /\ curr \in [Cpus -> Tasks \cup {None}] /\ cand \in [Cpus -> Tasks \cup {None}]
  /\ pc \in [Cpus -> PCs] /\ kick \in [Cpus -> BOOLEAN]
  /\ tiers \in [Cpus -> SUBSET (1 .. 4)] /\ from \in [Cpus -> Queues]
  /\ todo \in [Cpus -> Seq(Tasks)] /\ seen \in [Cpus -> SUBSET Tasks]
  /\ visits \in [Cpus -> 0 .. MAX_VISIT] /\ moved \in [Cpus -> 0 .. SLOTS]
  /\ woken \subseteq Tasks

FirstAllowed(t) == Min(Mask[t])

Init ==
  /\ dsq = [q \in Queues |-> <<>>]
  /\ state = [t \in Tasks |-> "asleep"]
  /\ plan = [t \in Tasks |-> NoPlan]
  /\ sel = [t \in Tasks |-> FirstAllowed(t)]
  /\ vr = [t \in Tasks |-> 0]
  /\ minv = [c \in Cpus |-> 0]
  /\ curr = [c \in Cpus |-> None]
  /\ pc = [c \in Cpus |-> "idle"]
  /\ kick = [c \in Cpus |-> FALSE]
  /\ tiers = [c \in Cpus |-> {}]
  /\ from = [c \in Cpus |-> Machine]
  /\ todo = [c \in Cpus |-> <<>>]
  /\ cand = [c \in Cpus |-> None]
  /\ visits = [c \in Cpus |-> 0]
  /\ moved = [c \in Cpus |-> 0]
  /\ seen = [c \in Cpus |-> {}]
  /\ woken = {}

Empty(q) == dsq[q] = <<>>
Larger(a, b) == IF a > b THEN a ELSE b
Goto(c, to) == pc' = [pc EXCEPT ![c] = to]

------------------------------------------------------------------------------
(* flow_enqueue: look, then join                                             *)

NodeOk(c) == Node[c] < NR_NODES
Pinned(t) == Cardinality(Mask[t]) = 1
(* No lag is ever stored: a task is eligible up to the minimum.             *)
Eligible(v, min) == v <= min

(* The tier insert: local when the drain of the target meets the key, else  *)
(* its node when live, else the machine.                                    *)
TierFor(c, meets) ==
  IF meets THEN Local(c) ELSE IF NodeOk(c) THEN NodeQ(Node[c]) ELSE Machine

TiersEmpty(c) ==
  Empty(Local(c)) /\ Empty(Machine) /\ (NodeOk(c) => Empty(NodeQ(Node[c])))

(* flow_enqueue_place: an idle target takes an eligible task directly when  *)
(* no tier of it holds work, or its drain meets the key and the machine     *)
(* queue is empty.  Pinned and missed tasks always join a tier.             *)
Direct(c, missed, elig, meets, idle) ==
  /\ idle /\ elig /\ ~missed
  /\ TiersEmpty(c) \/ (meets /\ Empty(Machine))

(* Mutant of Clamped: moves every task to the lag bound.                     *)
ClampedAlways(v, min) == min - VLAG

(* flow_clamp_to_min.                                                       *)
Clamped(v, min) == Larger(v, min - VLAG)

(* An enqueue decides its queue and keeps what the kicks after it read.      *)
Decision(c, missed, elig, meets, idle) ==
  [q |-> IF Direct(c, missed, elig, meets, idle) THEN On(c) ELSE TierFor(c, meets),
   missed |-> missed, elig |-> elig]

(* What an enqueue may decide from its target c as it is now.  Whether the  *)
(* drain meets the key and whether the old deadline passed depend on the    *)
(* clock, so both are free.                                                 *)
Plans(t, c, elig, idle) ==
  {Decision(c, late \/ Pinned(t), elig, meets, idle) :
     late \in BOOLEAN, meets \in BOOLEAN}

(* The run queue lock of a CPU is held from its pass to its pick, and by    *)
(* an enqueue on it.                                                        *)
Locked(c) ==
  \/ pc[c] \notin {"idle", "run"}
  \/ \E t \in Tasks : state[t] = "waking" /\ sel[t] = c

(* The kernel picks a CPU for a waking task (flow_select_cpu answers any    *)
(* allowed one), takes its lock, and flow_enqueue looks at it.              *)
Wake(t) ==
  /\ state[t] = "asleep"
  /\ state' = [state EXCEPT ![t] = "waking"]
  /\ \E c \in Mask[t] :
       /\ ~Locked(c)
       /\ sel' = [sel EXCEPT ![t] = c]
       /\ vr' = [vr EXCEPT ![t] = Clamped(@, minv[c])]
       /\ \E p \in Plans(t, c, Eligible(vr'[t], minv[c]), curr[c] = None) :
            plan' = [plan EXCEPT ![t] = p]
  /\ UNCHANGED <<dsq, minv, curr, pc, kick, passVars, woken>>

(* Mutant of Insert: every queue is first in, first out.                    *)
InsertFifo(q, t) == dsq' = [dsq EXCEPT ![q] = Append(@, t)]

(* The kernel priority queue: after every entry with the same or an earlier *)
(* key.  LOCAL_ON is first in, first out.                                   *)
Insert(q, t) ==
  LET n == Cardinality({i \in DOMAIN dsq[q] : vr[dsq[q][i]] <= vr[t]})
  IN  dsq' = [dsq EXCEPT ![q] =
                IF q \in Tiers THEN InsertAt(@, n + 1, t) ELSE Append(@, t)]

(* flow_kick_idle_allowed: the first of selected, idle and first allowed    *)
(* CPU that runs nothing is kicked if the task is eligible there, and       *)
(* nothing is kicked after it.                                              *)
IdleCpus(t) == {c \in Mask[t] : pc[c] = "idle" /\ ~kick[c]}
Probed(t) ==
  IF curr[sel[t]] = None THEN {sel[t]}
  ELSE IF IdleCpus(t) # {} THEN IdleCpus(t)
  ELSE {c \in {FirstAllowed(t)} : curr[c] = None}

(* Mutant of KickedBy: a miss or a pin kicks nobody.                        *)
KickedByFresh(t) ==
  {c \in {sel[t]} : /\ ~plan[t].missed
                    /\ plan[t].q = On(c) \/ (plan[t].elig /\ curr[c] = None)}

(* Whom a join kicks: the probed CPU after a miss or a pin, the target      *)
(* after a direct insert, else flow_enqueue_kick, whose preempt kick only   *)
(* brings an expiry forward.                                                *)
KickedBy(t) ==
  IF plan[t].missed
  THEN {c \in Probed(t) : Eligible(vr[t], minv[c])}
  ELSE {c \in {sel[t]} : \/ plan[t].q = On(c)
                         \/ plan[t].elig /\ curr[c] = None}

(* The kernel reschedules an idle CPU when a task wakes up on it.           *)
Rescheduled(t) ==
  {c \in {sel[t]} : state[t] = "waking" /\ pc[c] = "idle"}

(* An idle kick takes one CPU and does nothing to one that runs a task.     *)
Kick(ks, rs) ==
  \E k \in IF ks = {} THEN {{}} ELSE {{c} : c \in ks} :
    kick' = [c \in Cpus |-> kick[c] \/ (c \in k \cup rs /\ pc[c] # "run")]

Joins(t) ==
  /\ Insert(plan[t].q, t)
  /\ state' = [state EXCEPT ![t] = "queued"]
  /\ Kick(KickedBy(t), Rescheduled(t))
  /\ woken' = IF state[t] = "waking" THEN woken \cup {t} ELSE woken \ {t}
  /\ plan' = [plan EXCEPT ![t] = NoPlan]
  /\ UNCHANGED <<sel, vr, minv, curr>>

Join(t) ==
  /\ state[t] = "waking"
  /\ Joins(t)
  /\ UNCHANGED <<pc, passVars>>

------------------------------------------------------------------------------
(* flow_dispatch                                                             *)

(* A node past the live ones drains as node 0.                              *)
DrainNode(c) == IF NodeOk(c) THEN NodeQ(Node[c]) ELSE NodeQ(0)
TierQ(c, i) == <<Local(c), DrainNode(c), Machine>>[i]

Left(c) == moved[c] < SLOTS /\ visits[c] < MAX_VISIT

(* Mutant of StartPass: the depths of the node and machine queues are not   *)
(* read when the local queue is empty.                                      *)
StartPassLocal(c) ==
  /\ tiers' = [tiers EXCEPT ![c] = IF ~Empty(On(c)) THEN {}
                                   ELSE IF Empty(Local(c)) THEN {4} ELSE {1}]
  /\ visits' = [visits EXCEPT ![c] = 0]
  /\ kick' = [kick EXCEPT ![c] = FALSE]
  /\ Goto(c, "pass")

(* A reschedule looks at the LOCAL_ON queue first; tiers are drained only   *)
(* when that is empty, on depths read once.  Stealing is for a pass that    *)
(* read no depth.                                                           *)
StartPass(c) ==
  LET busy == {i \in 1 .. 3 : ~Empty(TierQ(c, i))}
  IN  /\ tiers' = [tiers EXCEPT ![c] = IF ~Empty(On(c)) THEN {}
                                       ELSE IF busy = {} THEN {4} ELSE busy]
      /\ visits' = [visits EXCEPT ![c] = 0]
      /\ kick' = [kick EXCEPT ![c] = FALSE]
      /\ Goto(c, "pass")

(* An idle CPU reschedules after a kick, a busy one when its slice ends: the*)
(* expired task stays current through the pass.                             *)
Sched(c) ==
  /\ pc[c] = "run" \/ (pc[c] = "idle" /\ kick[c])
  /\ ~Locked(c)
  /\ StartPass(c)
  /\ UNCHANGED <<dsq, taskVars, minv, curr, scanVars, cand, moved>>

(* flow_steal_one: the first peer of the own node with local work in the    *)
(* window, else the first other peer.  The cursor the window starts at is   *)
(* raced with every select scan, so the start is free.                      *)
Window(c) ==
  LET w == STEAL_MIN + (MAX_VISIT - visits[c]) \div 2
  IN  IF curr[c] # None THEN STEAL_MIN ELSE IF w > STEAL_MAX THEN STEAL_MAX ELSE w

Full(c, start) ==
  {i \in 1 .. Window(c) : LET p == (start + i) % N IN p # c /\ ~Empty(Local(p))}
Near(c, start) == {i \in Full(c, start) : Node[(start + i) % N] = Node[c]}
Victim(c, start) ==
  (start + Min(IF Near(c, start) # {} THEN Near(c, start) ELSE Full(c, start))) % N

(* The tier to drain now, and the queues it may open: its own one, or any   *)
(* victim.                                                                  *)
Tier(c) == Min(tiers[c])

Opens(c) ==
  IF tiers[c] = {} \/ ~Left(c) THEN {}
  ELSE IF Tier(c) < 4 THEN {TierQ(c, Tier(c))}
  ELSE {Local(Victim(c, s)) : s \in {s \in Cpus : Full(c, s) # {}}}

(* The iterator sees the entries that were there when it started.           *)
Open(c) ==
  /\ pc[c] = "pass"
  /\ \E q \in Opens(c) :
       /\ from' = [from EXCEPT ![c] = q]
       /\ todo' = [todo EXCEPT ![c] = dsq[q]]
       /\ seen' = [seen EXCEPT ![c] = Range(dsq[q])]
  /\ Goto(c, "scan")
  /\ UNCHANGED <<dsq, taskVars, minv, curr, kick, tiers, cand, visits, moved>>

Visit(c) ==
  /\ pc[c] = "scan"
  /\ todo[c] # <<>> /\ visits[c] < MAX_VISIT
  /\ cand' = [cand EXCEPT ![c] = Head(todo[c])]
  /\ todo' = [todo EXCEPT ![c] = Tail(@)]
  /\ visits' = [visits EXCEPT ![c] = @ + 1]
  /\ Goto(c, "try")
  /\ UNCHANGED <<dsq, taskVars, minv, curr, kick, tiers, from, moved, seen>>

(* The tier is done after one move, or when the entries or visits run out.  *)
Close(c) ==
  /\ tiers' = [tiers EXCEPT ![c] = @ \ {Tier(c)}]
  /\ from' = [from EXCEPT ![c] = Machine]
  /\ Goto(c, "pass")

EndScan(c) ==
  /\ pc[c] = "scan"
  /\ todo[c] = <<>> \/ visits[c] >= MAX_VISIT
  /\ todo' = [todo EXCEPT ![c] = <<>>]
  /\ seen' = [seen EXCEPT ![c] = {}]
  /\ Close(c)
  /\ UNCHANGED <<dsq, taskVars, minv, curr, kick, cand, visits, moved>>

(* Mutant of Movable: the mask is not tested.                               *)
MovableAny(c) == cand[c] # None

(* flow_move_candidate.  A task another CPU took meanwhile, or that joined  *)
(* again since, does not move.                                              *)
Movable(c) == cand[c] # None /\ c \in Mask[cand[c]]

(* A task is in a queue at most once (OnePlace).                            *)
Without(s, t) ==
  IF t \in Range(s) THEN RemoveAt(s, CHOOSE i \in DOMAIN s : s[i] = t) ELSE s

(* Mutant of Forget: another iterator still moves a task it has visited.    *)
ForgetOwn(c, t) ==
  /\ todo' = [todo EXCEPT ![c] = <<>>]
  /\ seen' = [seen EXCEPT ![c] = {}]
  /\ cand' = [cand EXCEPT ![c] = None]

(* Every other iterator loses sight of a task that left its queue.          *)
Forget(c, t) ==
  /\ todo' = [d \in Cpus |-> IF d = c THEN <<>> ELSE Without(todo[d], t)]
  /\ seen' = [d \in Cpus |-> IF d = c THEN {} ELSE seen[d] \ {t}]
  /\ cand' = [d \in Cpus |-> IF d = c \/ (pc[d] = "try" /\ cand[d] = t) THEN None
                             ELSE cand[d]]

Move(c) ==
  /\ pc[c] = "try" /\ Movable(c)
  /\ dsq' = [dsq EXCEPT ![from[c]] = Without(@, cand[c]),
                        ![On(c)] = Append(@, cand[c])]
  /\ Forget(c, cand[c])
  /\ moved' = [moved EXCEPT ![c] = @ + 1]
  /\ Close(c)
  /\ UNCHANGED <<taskVars, minv, curr, kick, visits>>

Pass(c) ==
  /\ pc[c] = "try" /\ ~Movable(c)
  /\ cand' = [cand EXCEPT ![c] = None]
  /\ Goto(c, "scan")
  /\ UNCHANGED <<dsq, taskVars, minv, curr, kick, tiers, scanVars, visits, moved>>

------------------------------------------------------------------------------
(* The kernel loop, flow_running and flow_stopping                           *)

(* One quantum of service: the task moves on and so does the minimum.       *)
Served(t) == IF vr[t] < VMAX THEN vr[t] + 1 ELSE VMAX

(* Mutant of Charge: the stopped task stays the owner of the CPU.           *)
ChargeKeepsOwner(c, t) ==
  /\ vr' = [vr EXCEPT ![t] = Served(t)]
  /\ minv' = [minv EXCEPT ![c] = Larger(@, Served(t))]
  /\ UNCHANGED curr

Charge(c, t) ==
  /\ vr' = [vr EXCEPT ![t] = Served(t)]
  /\ minv' = [minv EXCEPT ![c] = Larger(@, Served(t))]
  /\ curr' = [curr EXCEPT ![c] = None]

Block(c) ==
  /\ pc[c] = "run" /\ ~Locked(c)
  /\ Charge(c, curr[c])
  /\ state' = [state EXCEPT ![curr[c]] = "asleep"]
  /\ sel' = [sel EXCEPT ![curr[c]] = FirstAllowed(curr[c])]
  /\ StartPass(c)
  /\ UNCHANGED <<dsq, plan, scanVars, cand, moved, woken>>

(* Slots, visits or tiers ran out: the pass is over.  One that ran out of   *)
(* visits keeps the count until the next.                                   *)
EndPass(c) ==
  /\ pc[c] = "pass" /\ Opens(c) = {}
  /\ tiers' = [tiers EXCEPT ![c] = {}]
  /\ visits' = [visits EXCEPT ![c] = IF @ < MAX_VISIT THEN 0 ELSE @]
  /\ moved' = [moved EXCEPT ![c] = 0]

(* An expired task stops and enqueues again, with its last selected CPU as  *)
(* the target; nothing wakes up, so the kernel reschedules nobody.          *)
Put(c) ==
  /\ EndPass(c) /\ curr[c] # None
  /\ LET t == curr[c]
         s == sel[t]
         m == Larger(minv[c], Served(t))
         min == IF s = c THEN m ELSE minv[s]
         v == Clamped(Served(t), min)
     IN  /\ vr' = [vr EXCEPT ![t] = v]
         /\ minv' = [minv EXCEPT ![c] = m]
         /\ curr' = [curr EXCEPT ![c] = None]
         /\ state' = [state EXCEPT ![t] = "requeue"]
         /\ cand' = [cand EXCEPT ![c] = t]
         /\ \E p \in Plans(t, s, Eligible(v, min), s = c \/ curr[s] = None) :
              plan' = [plan EXCEPT ![t] = p]
  /\ Goto(c, "put")
  /\ UNCHANGED <<dsq, sel, kick, scanVars, woken>>

(* The next task was picked before the put: with none the CPU goes idle,    *)
(* whatever the put task joined (SCX_ENQ_LAST).                             *)
PutJoin(c) ==
  /\ pc[c] = "put"
  /\ Goto(c, IF Empty(On(c)) THEN "idle" ELSE "pass")
  /\ Joins(cand[c])
  /\ cand' = [cand EXCEPT ![c] = None]
  /\ UNCHANGED <<tiers, scanVars, visits, moved>>

Pick(c) ==
  /\ EndPass(c) /\ curr[c] = None
  /\ IF Empty(On(c))
     THEN Goto(c, "idle") /\ UNCHANGED <<dsq, curr, state, kick, woken>>
     ELSE /\ curr' = [curr EXCEPT ![c] = Head(dsq[On(c)])]
          /\ state' = [state EXCEPT ![Head(dsq[On(c)])] = "running"]
          /\ dsq' = [dsq EXCEPT ![On(c)] = Tail(@)]
          /\ kick' = [kick EXCEPT ![c] = FALSE]
          /\ woken' = woken \ {Head(dsq[On(c)])}
          /\ Goto(c, "run")
  /\ UNCHANGED <<plan, sel, vr, minv, scanVars, cand>>

------------------------------------------------------------------------------
(* What a CPU does on its own: the timer ends every slice, an irq follows   *)
(* every kick, a handler runs to its end.                                   *)
Runs(c) ==
  \/ Sched(c) \/ Open(c) \/ Visit(c) \/ EndScan(c) \/ Move(c) \/ Pass(c)
  \/ Put(c) \/ PutJoin(c) \/ Pick(c)

Next ==
  \/ \E t \in Tasks : Wake(t) \/ Join(t)
  \/ \E c \in Cpus : Runs(c) \/ Block(c)

Spec == Init /\ [][Next]_vars

FairSpec ==
  /\ Spec
  /\ \A c \in Cpus : WF_vars(Runs(c))
  /\ \A t \in Tasks : WF_vars(Join(t))

------------------------------------------------------------------------------
(* Properties                                                                *)

(* A task is in one queue, on one CPU or in one handler: passes of several  *)
(* CPUs over one queue never move it twice and a stopped task leaves no     *)
(* owner behind (task_placement.bpf.c:36-47, lifecycle.bpf.c:201-222).      *)
OnePlace ==
  \A t \in Tasks :
    /\ Cardinality(UNION {{q} \X {i \in DOMAIN dsq[q] : dsq[q][i] = t} : q \in Queues})
         = IF state[t] = "queued" THEN 1 ELSE 0
    /\ Cardinality({c \in Cpus : curr[c] = t}) = IF state[t] = "running" THEN 1 ELSE 0

(* The queue a CPU runs from only holds tasks whose mask allows it, though  *)
(* node, machine and stolen queues mix tasks of any mask                    *)
(* (task_placement.bpf.c:25-47).                                            *)
MaskHolds == \A c \in Cpus : \A t \in Range(dsq[On(c)]) : c \in Mask[t]

(* A pass takes from a queue the earliest key among the tasks its iterator  *)
(* saw that may run on the CPU, whatever joins or leaves meanwhile          *)
(* (task_placement.bpf.c:78-89 over the ordered inserts of insert.bpf.c).   *)
TakesEarliest ==
  [][\A c \in Cpus :
       pc[c] = "try" /\ moved'[c] > moved[c] =>
         \A u \in seen[c] \cap Range(dsq[from[c]]) :
           c \in Mask[u] => vr[cand[c]] <= vr[u]]_vars

(* In RunPool a CPU claims what enters the queue it runs from.              *)
Line == [c \in Cpus |-> dsq[On(c)]]

Pool == INSTANCE RunPool WITH phase <- state, line <- Line, on <- curr

(* The looks, joins, passes, moves and steals of any number of CPUs behave  *)
(* like a pool from which every task is claimed once, by a CPU its mask     *)
(* allows, which then runs what it claimed in that order                    *)
(* (task_placement.bpf.c:25-91, kick.bpf.c:116-153).                        *)
PoolSpec == Pool!Spec

TiersOf(c) == {Local(c), DrainNode(c), Machine}

(* A CPU that sits idle with no kick on its way left nothing behind that    *)
(* woke up on it: the wake up, the kicks and the depths a pass reads once   *)
(* never miss each other (dispatch.bpf.c:428-436, kick.bpf.c:205-223).  Only *)
(* a pass that used up its visits may leave one.                            *)
WokenNeverStranded ==
  \A c \in Cpus : pc[c] = "idle" /\ ~kick[c] /\ visits[c] < MAX_VISIT =>
    \A q \in TiersOf(c) \cup {On(c)} : \A t \in Range(dsq[q]) :
      t \notin woken \/ sel[t] # c

(* What intf.h:155-156 says: leftover work resumes next pass, so the pass   *)
(* stays work conserving across passes.  A CPU that sits idle with no kick  *)
(* on its way has no task in its tiers that it may run.                     *)
WorkConserving ==
  \A c \in Cpus : pc[c] = "idle" /\ ~kick[c] =>
    \A q \in TiersOf(c) \cup {On(c)} : \A t \in Range(dsq[q]) : c \notin Mask[t]

(* What task_placement.bpf.c:53-55 says of a join that races the depths a   *)
(* pass read: no loss, since the next pass re-reads the hint with no stall. *)
(* Every wait in a queue ends, provided the CPUs keep going.                *)
EveryWaitEnds ==
  \A t \in Tasks : state[t] = "queued" ~> state[t] # "queued"
=============================================================================
