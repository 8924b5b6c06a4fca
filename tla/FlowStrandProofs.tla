--------------------------- MODULE FlowStrandProofs ---------------------------
(* Proofs about FlowDispatch: no wake-up is lost between the joins, the kicks *)
(* and the passes, for any tasks, masks, CPUs, nodes and bounds.             *)
EXTENDS FlowPlaceProofs

(* The tasks CPU c answers for: selected for it and woken up, or pinned to it.*)
Mine(c) == {t \in Tasks : sel[t] = c /\ (t \in woken \/ Pinned(t))}
Due(c, q) == Mine(c) \cap Held(dsq[q])

Passing(c) == pc[c] \in {"pass", "scan", "try"}

(* Nothing it answers for is left in its queues.                             *)
Clear(c) == \A q \in TiersOf(c) \cup {On(c)} : Due(c, q) = {}

(* What is known of the tasks on their way: a woken one is queued, a pinned  *)
(* one joins with a kick, and the target of a waking one is locked.          *)
WayOK ==
  /\ \A t \in woken : state[t] = "queued"
  /\ \A t \in Tasks : state[t] \in {"waking", "requeue"} /\ Pinned(t) => plan[t].missed
  /\ \A t \in Tasks : state[t] = "waking" => pc[sel[t]] \in {"idle", "run"}

(* What is known of a CPU: it runs and puts tasks of its own, a put task was *)
(* charged to its minimum, and who moved a task has one to run.              *)
LocalAt(c) ==
  /\ curr[c] # None => c \in Mask[curr[c]]
  /\ pc[c] = "put" => /\ curr[c] = None /\ c \in Mask[cand[c]]
                      /\ sel[cand[c]] = c => vr[cand[c]] <= minv[c]
  /\ moved[c] = 0 \/ (Passing(c) /\ ~Empty(On(c)))

(* A CPU that has nothing to run and visits left: it goes idle with nothing  *)
(* of its own left, and a pass still has every tier before it that holds some.*)
SpareAt(c) ==
  visits[c] < MAX_VISIT =>
    /\ (pc[c] = "idle" /\ ~kick[c]) \/ (pc[c] = "put" /\ Empty(On(c))) => Clear(c)
    /\ Passing(c) /\ Empty(On(c)) =>
         \A i \in 1 .. 3 : Due(c, TierQ(c, i)) # {} => i \in tiers[c]
    /\ Scanning(c) /\ Empty(On(c)) =>
         /\ tiers[c] # {}
         /\ Tier(c) < 4 => from[c] = TierQ(c, Tier(c)) /\ Due(c, from[c]) \subseteq seen[c]

AwakeOK == WayOK /\ \A c \in Cpus : LocalAt(c) /\ SpareAt(c)

(* The inductive invariants of the modules below.                            *)
Ordered == RunsOwn /\ PlaceOK /\ OrderOK

LEMMA InitAwake == Init => AwakeOK
<1> SUFFICES ASSUME Init PROVE AwakeOK
  OBVIOUS
<1>1. WayOK
  BY DEF Init, WayOK
<1>2. ASSUME NEW c \in Cpus PROVE LocalAt(c)
  BY DEF Init, LocalAt
<1>3. ASSUME NEW c \in Cpus PROVE SpareAt(c)
  <2>1. TiersOf(c) \cup {On(c)} \subseteq Queues
    BY QueueIds, DispatchConsts DEF TiersOf, DrainNode, NodeOk
  <2>2. \A q \in TiersOf(c) \cup {On(c)} : Held(dsq[q]) = {}
    BY <2>1, EmptyHolds DEF Init
  <2>3. Clear(c)
    BY <2>2 DEF Clear, Due
  <2>4. pc[c] = "idle"
    BY DEF Init
  <2> QED BY <2>3, <2>4 DEF SpareAt, Passing, Scanning
<1> QED BY <1>1, <1>2, <1>3 DEF AwakeOK

------------------------------------------------------------------------------
(* Lemmas                                                                    *)

LEMMA PassQueues ==
  ASSUME NEW c \in Cpus
  PROVE  /\ TiersOf(c) \subseteq Tiers /\ TiersOf(c) \subseteq Queues
         /\ TiersOf(c) = {TierQ(c, 1), TierQ(c, 2), TierQ(c, 3)}
         /\ On(c) \in Queues /\ On(c) \notin Tiers
<1>1. DrainNode(c) \in Tiers
  BY QueueIds, DispatchConsts DEF DrainNode, NodeOk
<1>2. TierQ(c, 1) = Local(c) /\ TierQ(c, 2) = DrainNode(c) /\ TierQ(c, 3) = Machine
  BY DEF TierQ
<1> QED BY <1>1, <1>2, QueueIds DEF TiersOf

(* The tier of a pass is the least it has yet to drain.                      *)
LEMMA TierOfPass ==
  ASSUME RunsOwn, NEW c \in Cpus, tiers[c] # {}
  PROVE  /\ Tier(c) \in tiers[c] /\ Tier(c) \in 1 .. 4
         /\ \A i \in tiers[c] : i \in 1 .. 4 /\ Tier(c) <= i
<1>1. tiers[c] \subseteq 1 .. 4
  <2>1. tiers \in [Cpus -> SUBSET (1 .. 4)]
    BY DEF RunsOwn, TypeOK
  <2>2. tiers[c] \in SUBSET (1 .. 4)
    BY <2>1
  <2> QED BY <2>2
<1>2. tiers[c] \subseteq Nat
  BY <1>1
<1> QED BY <1>1, <1>2, Least DEF Tier

(* A queue that holds something is not empty.                                *)
LEMMA DueNotEmpty ==
  ASSUME NEW c, NEW q, Due(c, q) # {}
  PROVE  ~Empty(q)
BY EmptyHolds DEF Due, Empty

(* A step of others keeps what is known of a CPU with nothing to run: its    *)
(* queues may only lose what it answers for.                                 *)
LEMMA SpareKept ==
  ASSUME RunsOwn, NEW c \in Cpus, SpareAt(c),
         pc'[c] = pc[c], tiers'[c] = tiers[c], visits'[c] = visits[c], from'[c] = from[c],
         kick[c] => kick'[c], Empty(On(c))' => Empty(On(c)),
         \A q \in TiersOf(c) \cup {On(c)} : Due(c, q)' \subseteq Due(c, q),
         from[c] \in TiersOf(c) => seen[c] \cap Due(c, from[c])' \subseteq seen'[c]
  PROVE  SpareAt(c)'
<1> SUFFICES ASSUME visits[c] < MAX_VISIT PROVE SpareAt(c)'
  BY DEF SpareAt
<1>1. Tier(c)' = Tier(c) /\ Passing(c)' = Passing(c) /\ Scanning(c)' = Scanning(c)
  BY DEF Tier, Passing, Scanning
<1>2. ((pc[c] = "idle" /\ ~kick[c]) \/ (pc[c] = "put" /\ Empty(On(c))))' => Clear(c)'
  BY DEF SpareAt, Clear
<1>3. ASSUME Passing(c)', Empty(On(c))', NEW i \in 1 .. 3, Due(c, TierQ(c, i))' # {}
      PROVE  i \in tiers'[c]
  <2>1. TierQ(c, i) \in TiersOf(c)
    BY PassQueues
  <2>2. Due(c, TierQ(c, i)) # {}
    BY <1>3, <2>1
  <2> QED BY <1>1, <1>3, <2>2 DEF SpareAt
<1>4. ASSUME Scanning(c)', Empty(On(c))'
      PROVE  /\ tiers'[c] # {}
             /\ Tier(c)' < 4 => from'[c] = TierQ(c, Tier(c))' /\ Due(c, from[c])' \subseteq seen'[c]
  <2>1. /\ tiers[c] # {}
        /\ Tier(c) < 4 => from[c] = TierQ(c, Tier(c)) /\ Due(c, from[c]) \subseteq seen[c]
    BY <1>1, <1>4 DEF SpareAt
  <2>2. ASSUME Tier(c)' < 4
        PROVE  from'[c] = TierQ(c, Tier(c))' /\ Due(c, from[c])' \subseteq seen'[c]
    <3>1. Tier(c) < 4 /\ Tier(c) \in 1 .. 3
      BY <1>1, <2>1, <2>2, TierOfPass
    <3>2. from[c] = TierQ(c, Tier(c)) /\ Due(c, from[c]) \subseteq seen[c] /\ from[c] \in TiersOf(c)
      BY <2>1, <3>1, PassQueues
    <3>3. TierQ(c, Tier(c))' = TierQ(c, Tier(c))
      BY <1>1 DEF TierQ
    <3> QED BY <3>2, <3>3
  <2> QED BY <2>1, <2>2
<1> QED BY <1>2, <1>3, <1>4 DEF SpareAt

(* A pinned task always joins as one that missed.                            *)
LEMMA PlansPinned ==
  ASSUME NEW t \in Tasks, NEW c, NEW e, NEW i, NEW p \in Plans(t, c, e, i), Pinned(t)
  PROVE  p.missed
<1>1. PICK l, m \in BOOLEAN : p = Decision(c, l \/ Pinned(t), e, m, i)
  BY DEF Plans
<1>2. p.missed = (l \/ Pinned(t))
  BY <1>1 DEF Decision
<1> QED BY <1>2

(* What the CPU itself is known by, if a step of others leaves it alone.     *)
LEMMA LocalKept ==
  ASSUME NEW c \in Cpus, LocalAt(c),
         pc'[c] = pc[c], curr'[c] = curr[c], moved'[c] = moved[c], minv'[c] = minv[c],
         Empty(On(c))' => Empty(On(c)),
         pc[c] = "put" => /\ cand'[c] = cand[c] /\ vr'[cand[c]] = vr[cand[c]]
                          /\ sel'[cand[c]] = sel[cand[c]]
  PROVE  LocalAt(c)'
BY DEF LocalAt, Passing

(* What is in the queues is queued, so a task that is not in them does not   *)
(* count.                                                                    *)
LEMMA DueKept ==
  ASSUME RunsOwn, PlaceOK, NEW c \in Cpus, NEW q \in Queues, Held(dsq'[q]) \subseteq Held(dsq[q]),
         \A u \in Tasks : state[u] = "queued" => sel'[u] = sel[u],
         woken' \subseteq woken
  PROVE  Due(c, q)' \subseteq Due(c, q)
<1>1. \A u \in Held(dsq[q]) : u \in Tasks => state[u] = "queued"
  BY DEF PlaceOK, QueuedOK
<1> QED BY <1>1 DEF Due, Mine

(* The CPUs that do not take the step, when no task joins a queue.           *)
LEMMA OthersKept ==
  ASSUME RunsOwn, PlaceOK, NEW c \in Cpus, LocalAt(c), SpareAt(c),
         pc'[c] = pc[c], tiers'[c] = tiers[c], visits'[c] = visits[c], from'[c] = from[c],
         curr'[c] = curr[c], moved'[c] = moved[c], minv'[c] = minv[c], seen'[c] = seen[c],
         kick'[c] = kick[c], dsq'[On(c)] = dsq[On(c)],
         \A q \in TiersOf(c) : dsq'[q] = dsq[q],
         \A u \in Tasks : state[u] = "queued" => sel'[u] = sel[u],
         woken' \subseteq woken,
         pc[c] = "put" => /\ cand'[c] = cand[c] /\ vr'[cand[c]] = vr[cand[c]]
                          /\ sel'[cand[c]] = sel[cand[c]]
  PROVE  LocalAt(c)' /\ SpareAt(c)'
<1>1. Empty(On(c))' = Empty(On(c))
  BY DEF Empty
<1>2. LocalAt(c)'
  BY <1>1, LocalKept
<1>3. \A q \in TiersOf(c) \cup {On(c)} : q \in Queues /\ Held(dsq'[q]) \subseteq Held(dsq[q])
  BY PassQueues
<1>4. \A q \in TiersOf(c) \cup {On(c)} : Due(c, q)' \subseteq Due(c, q)
  BY <1>3, DueKept
<1>5. from[c] \in TiersOf(c) => seen[c] \cap Due(c, from[c])' \subseteq seen'[c]
  OBVIOUS
<1>6. SpareAt(c)'
  BY <1>1, <1>4, <1>5, SpareKept
<1> QED BY <1>2, <1>6

------------------------------------------------------------------------------
(* Every step keeps it                                                       *)

LEMMA WakeAwake ==
  ASSUME Ordered, AwakeOK, NEW t \in Tasks, Wake(t)
  PROVE  AwakeOK'
<1>1. PICK c \in Mask[t] :
        /\ ~Locked(c) /\ sel' = [sel EXCEPT ![t] = c]
        /\ \E p \in Plans(t, c, Eligible(vr'[t], minv[c]), curr[c] = None) :
             plan' = [plan EXCEPT ![t] = p]
  BY DEF Wake
<1>2. /\ RunsOwn /\ PlaceOK /\ state[t] = "asleep"
      /\ state' = [state EXCEPT ![t] = "waking"]
      /\ UNCHANGED <<dsq, minv, curr, pc, kick, tiers, from, todo, seen, cand, visits, moved, woken>>
  BY DEF Wake, passVars, scanVars, Ordered
<1>3. /\ \A u \in Tasks : u # t => sel'[u] = sel[u] /\ state'[u] = state[u] /\ plan'[u] = plan[u]
      /\ sel'[t] = c /\ state'[t] = "waking"
  BY <1>1, <1>2 DEF RunsOwn, TypeOK
<1>4. Pinned(t) => plan'[t].missed
  <2>1. PICK p \in Plans(t, c, Eligible(vr'[t], minv[c]), curr[c] = None) :
          plan' = [plan EXCEPT ![t] = p]
    BY <1>1
  <2>2. plan'[t] = p
    BY <1>2, <2>1 DEF RunsOwn, TypeOK
  <2> QED BY <2>2, PlansPinned
<1>5. WayOK'
  <2>1. pc[c] \in {"idle", "run"}
    BY <1>1 DEF Locked
  <2>2. \A u \in woken : u # t /\ u \in Tasks
    BY <1>2 DEF AwakeOK, WayOK, RunsOwn, TypeOK
  <2> QED BY <1>2, <1>3, <1>4, <2>1, <2>2 DEF AwakeOK, WayOK, Pinned
<1>6. \A u \in Tasks : u # t => vr'[u] = vr[u]
  BY <1>2 DEF Wake, RunsOwn, TypeOK
<1>7. ASSUME NEW d \in Cpus PROVE LocalAt(d)' /\ SpareAt(d)'
  <2>1. LocalAt(d) /\ SpareAt(d)
    BY DEF AwakeOK
  <2>2. pc[d] = "put" => cand[d] \in Tasks /\ cand[d] # t
    BY <1>2 DEF RunsOwn, PhaseOK, PlaceOK, OwnerOK
  <2> QED BY <1>2, <1>3, <1>6, <2>1, <2>2, OthersKept
<1> QED BY <1>5, <1>7 DEF AwakeOK

(* A pass starts with every tier that holds a task before it.                *)
LEMMA StartSpare ==
  ASSUME NEW c \in Cpus, StartPass(c), RunsOwn, dsq' = dsq
  PROVE  SpareAt(c)'
<1>1. /\ pc'[c] = "pass"
      /\ Empty(On(c)) => tiers'[c] = IF {i \in 1 .. 3 : ~Empty(TierQ(c, i))} = {} THEN {4}
                                     ELSE {i \in 1 .. 3 : ~Empty(TierQ(c, i))}
  BY DEF StartPass, Goto, RunsOwn, TypeOK
<1>2. \A q : Empty(q)' = Empty(q)
  BY DEF Empty
<1>3. ASSUME Empty(On(c)), NEW i \in 1 .. 3, Due(c, TierQ(c, i))' # {}
      PROVE  i \in tiers'[c]
  <2>1. ~Empty(TierQ(c, i))
    BY <1>3, EmptyHolds DEF Due, Empty
  <2> QED BY <1>1, <1>3, <2>1
<1> QED BY <1>1, <1>2, <1>3 DEF SpareAt, Passing, Scanning

LEMMA SchedAwake ==
  ASSUME Ordered, AwakeOK, NEW c \in Cpus, Sched(c)
  PROVE  AwakeOK'
<1>1. /\ RunsOwn /\ PlaceOK /\ ~Locked(c) /\ pc[c] \in {"idle", "run"} /\ StartPass(c)
      /\ UNCHANGED <<dsq, state, plan, sel, vr, woken, minv, curr, from, todo, seen, cand, moved>>
  BY DEF Sched, taskVars, scanVars, Ordered
<1>2. /\ pc'[c] = "pass"
      /\ \A d \in Cpus : d # c => /\ pc'[d] = pc[d] /\ kick'[d] = kick[d]
                                  /\ tiers'[d] = tiers[d] /\ visits'[d] = visits[d]
  BY <1>1 DEF StartPass, Goto, RunsOwn, TypeOK
<1>3. WayOK'
  <2>1. \A u \in Tasks : state[u] = "waking" => sel[u] # c /\ sel[u] \in Cpus
    BY <1>1 DEF Locked, RunsOwn, TypeOK
  <2> QED BY <1>1, <1>2, <2>1 DEF AwakeOK, WayOK, Pinned
<1>4. LocalAt(c)'
  <2>1. LocalAt(c)
    BY DEF AwakeOK
  <2> QED BY <1>1, <1>2, <2>1 DEF LocalAt, Passing
<1>5. SpareAt(c)'
  BY <1>1, StartSpare
<1>6. ASSUME NEW d \in Cpus, d # c PROVE LocalAt(d)' /\ SpareAt(d)'
  BY <1>1, <1>2, <1>6, OthersKept DEF AwakeOK
<1> QED BY <1>3, <1>4, <1>5, <1>6 DEF AwakeOK

LEMMA OpenAwake ==
  ASSUME Ordered, AwakeOK, NEW c \in Cpus, Open(c)
  PROVE  AwakeOK'
<1>1. /\ RunsOwn /\ PlaceOK /\ pc[c] = "pass" /\ pc' = [pc EXCEPT ![c] = "scan"]
      /\ UNCHANGED <<dsq, state, plan, sel, vr, woken, minv, curr, kick, tiers, cand, visits, moved>>
  BY DEF Open, Goto, taskVars, Ordered
<1>2. PICK q \in Opens(c) : from' = [from EXCEPT ![c] = q] /\ seen' = [seen EXCEPT ![c] = Range(dsq[q])]
  BY DEF Open
<1>3. /\ pc'[c] = "scan" /\ from'[c] = q /\ seen'[c] = Held(dsq[q])
      /\ \A d \in Cpus : d # c => pc'[d] = pc[d] /\ from'[d] = from[d] /\ seen'[d] = seen[d]
  BY <1>1, <1>2, HeldIsRange DEF RunsOwn, TypeOK
<1>4. WayOK'
  BY <1>1, <1>3 DEF AwakeOK, WayOK, Pinned, RunsOwn, TypeOK
<1>5. LocalAt(c) /\ SpareAt(c) /\ \A r : Empty(r)' = Empty(r) /\ Due(c, r)' = Due(c, r)
  BY <1>1 DEF AwakeOK, Empty, Due, Mine
<1>6. LocalAt(c)'
  BY <1>1, <1>3, <1>5 DEF LocalAt, Passing
<1>7. SpareAt(c)'
  <2>1. tiers[c] # {} /\ (Tier(c) < 4 => q = TierQ(c, Tier(c)))
    BY DEF Opens
  <2>2. Tier(c)' = Tier(c) /\ TierQ(c, Tier(c))' = TierQ(c, Tier(c))
    BY <1>1 DEF Tier
  <2>3. Due(c, q) \subseteq Held(dsq[q])
    BY DEF Due
  <2>4. visits[c] < MAX_VISIT /\ Empty(On(c)) =>
          \A i \in 1 .. 3 : Due(c, TierQ(c, i)) # {} => i \in tiers[c]
    BY <1>1, <1>5 DEF SpareAt, Passing
  <2> QED BY <1>1, <1>3, <1>5, <2>1, <2>2, <2>3, <2>4 DEF SpareAt
<1>8. ASSUME NEW d \in Cpus, d # c PROVE LocalAt(d)' /\ SpareAt(d)'
  BY <1>1, <1>3, <1>8, OthersKept DEF AwakeOK
<1> QED BY <1>4, <1>6, <1>7, <1>8 DEF AwakeOK

(* A visit, and one that finds nothing to move, leaves what the scan saw.    *)
LEMMA TryAwake ==
  ASSUME Ordered, AwakeOK, NEW c \in Cpus, Visit(c) \/ Pass(c)
  PROVE  AwakeOK'
<1>1. /\ RunsOwn /\ PlaceOK /\ Scanning(c)
      /\ UNCHANGED <<dsq, state, plan, sel, vr, woken, minv, curr, kick, tiers, from, seen, moved>>
  BY DEF Visit, Pass, taskVars, scanVars, Ordered, Scanning
<1>2. /\ pc'[c] \in {"scan", "try"}
      /\ visits'[c] < MAX_VISIT => visits[c] < MAX_VISIT
      /\ \A d \in Cpus : d # c => pc'[d] = pc[d] /\ visits'[d] = visits[d] /\ cand'[d] = cand[d]
  <2>1. visits[c] \in Nat /\ MAX_VISIT \in Nat
    BY <1>1, DispatchConsts DEF RunsOwn, TypeOK
  <2>2. CASE Visit(c)
    BY <1>1, <2>1, <2>2 DEF Visit, Goto, RunsOwn, TypeOK
  <2>3. CASE Pass(c)
    BY <1>1, <2>3 DEF Pass, Goto, RunsOwn, TypeOK
  <2> QED BY <2>2, <2>3
<1>3. WayOK'
  <2>1. \A u \in Tasks : state[u] = "waking" => sel[u] # c /\ sel[u] \in Cpus
    BY <1>1 DEF AwakeOK, WayOK, Scanning, RunsOwn, TypeOK
  <2> QED BY <1>1, <1>2, <2>1 DEF AwakeOK, WayOK, Pinned
<1>4. LocalAt(c) /\ SpareAt(c) /\ \A r : Empty(r)' = Empty(r) /\ Due(c, r)' = Due(c, r)
  BY <1>1 DEF AwakeOK, Empty, Due, Mine
<1>5. LocalAt(c)'
  BY <1>1, <1>2, <1>4 DEF LocalAt, Passing, Scanning
<1>6. SpareAt(c)'
  <2>1. Tier(c)' = Tier(c) /\ TierQ(c, Tier(c))' = TierQ(c, Tier(c))
    BY <1>1 DEF Tier
  <2> QED BY <1>1, <1>2, <1>4, <2>1 DEF SpareAt, Passing, Scanning
<1>7. ASSUME NEW d \in Cpus, d # c PROVE LocalAt(d)' /\ SpareAt(d)'
  BY <1>1, <1>2, <1>7, OthersKept DEF AwakeOK
<1> QED BY <1>3, <1>5, <1>6, <1>7 DEF AwakeOK

(* A scan that ends without a move has met every task that may run here.     *)
LEMMA EndScanAwake ==
  ASSUME Ordered, AwakeOK, NEW c \in Cpus, EndScan(c)
  PROVE  AwakeOK'
<1>1. /\ RunsOwn /\ PlaceOK /\ pc[c] = "scan" /\ (todo[c] = <<>> \/ visits[c] >= MAX_VISIT)
      /\ pc' = [pc EXCEPT ![c] = "pass"] /\ from' = [from EXCEPT ![c] = Machine]
      /\ seen' = [seen EXCEPT ![c] = {}] /\ tiers' = [tiers EXCEPT ![c] = @ \ {Tier(c)}]
      /\ UNCHANGED <<dsq, state, plan, sel, vr, woken, minv, curr, kick, cand, visits, moved>>
  BY DEF EndScan, Close, Goto, taskVars, Ordered
<1>2. /\ pc'[c] = "pass" /\ tiers'[c] = tiers[c] \ {Tier(c)}
      /\ \A d \in Cpus : d # c => /\ pc'[d] = pc[d] /\ from'[d] = from[d]
                                  /\ seen'[d] = seen[d] /\ tiers'[d] = tiers[d]
  BY <1>1 DEF RunsOwn, TypeOK
<1>3. WayOK'
  <2>1. \A u \in Tasks : state[u] = "waking" => sel[u] # c /\ sel[u] \in Cpus
    BY <1>1 DEF AwakeOK, WayOK, RunsOwn, TypeOK
  <2> QED BY <1>1, <1>2, <2>1 DEF AwakeOK, WayOK, Pinned
<1>4. LocalAt(c) /\ SpareAt(c) /\ \A r : Empty(r)' = Empty(r) /\ Due(c, r)' = Due(c, r)
  BY <1>1 DEF AwakeOK, Empty, Due, Mine
<1>5. LocalAt(c)'
  BY <1>1, <1>2, <1>4 DEF LocalAt, Passing
<1>6. SpareAt(c)'
  <2> SUFFICES ASSUME visits[c] < MAX_VISIT, Empty(On(c)), NEW i \in 1 .. 3, Due(c, TierQ(c, i)) # {}
               PROVE  i \in tiers'[c]
    BY <1>1, <1>2, <1>4 DEF SpareAt, Passing, Scanning
  <2>1. i \in tiers[c]
    BY <1>1, <1>4 DEF SpareAt, Passing
  <2>2. ASSUME i = Tier(c) PROVE FALSE
    <3>1. todo[c] = <<>>
      BY <1>1, DispatchConsts DEF RunsOwn, TypeOK
    <3>2. Due(c, TierQ(c, i)) \subseteq seen[c]
      BY <1>1, <1>4, <2>2 DEF SpareAt, Scanning
    <3>3. PICK u \in Due(c, TierQ(c, i)) : u \in seen[c]
      BY <3>2
    <3>4. c \in Mask[u]
      BY <1>1, <3>3 DEF Due, Mine, RunsOwn, TypeOK
    <3>5. u \in Held(todo[c])
      BY <1>1, <3>3, <3>4 DEF Ordered, OrderOK, OrderAt, Scanning
    <3> QED BY <3>1, <3>5, EmptyHolds
  <2> QED BY <1>2, <2>1, <2>2
<1>7. ASSUME NEW d \in Cpus, d # c PROVE LocalAt(d)' /\ SpareAt(d)'
  BY <1>1, <1>2, <1>7, OthersKept DEF AwakeOK
<1> QED BY <1>3, <1>5, <1>6, <1>7 DEF AwakeOK

LEMMA MoveAwake ==
  ASSUME Ordered, AwakeOK, NEW c \in Cpus, Move(c)
  PROVE  AwakeOK'
<1> DEFINE t == cand[c]
<1>1. /\ RunsOwn /\ PlaceOK /\ OrderOK /\ RunsOwn' /\ PlaceOK'
      /\ UNCHANGED <<state, plan, sel, vr, woken, minv, curr, kick, visits>>
      /\ tiers' = [tiers EXCEPT ![c] = @ \ {Tier(c)}] /\ moved' = [moved EXCEPT ![c] = @ + 1]
  BY MoveStep, MovePlaced DEF Move, Close, taskVars, Ordered
<1>2. /\ pc[c] = "try" /\ pc'[c] = "pass" /\ t \in Tasks /\ from[c] \in Tiers
      /\ dsq'[from[c]] = Without(dsq[from[c]], t)
      /\ dsq'[On(c)] = Append(dsq[On(c)], t)
      /\ \A q \in Queues : q # from[c] /\ q # On(c) => dsq'[q] = dsq[q]
  BY <1>1, MoveShape
<1>3. \A d \in Cpus : d # c =>
        /\ pc'[d] = pc[d] /\ from'[d] = from[d] /\ tiers'[d] = tiers[d] /\ moved'[d] = moved[d]
        /\ seen'[d] = seen[d] \ {t} /\ (pc[d] = "put" => cand'[d] = cand[d])
  <2>1. \A d \in Cpus : d # c => tiers'[d] = tiers[d] /\ moved'[d] = moved[d]
    BY <1>1 DEF RunsOwn, TypeOK
  <2>2. \A d \in Cpus : d # c =>
          /\ pc'[d] = pc[d] /\ from'[d] = from[d] /\ seen'[d] = seen[d] \ {t}
          /\ cand'[d] = IF pc[d] = "try" /\ cand[d] = cand[c] THEN None ELSE cand[d]
    BY <1>1, MoveShape
  <2> QED BY <2>1, <2>2
<1>4. On(c) \in Queues /\ dsq[On(c)] \in Seq(Tasks)
  BY <1>1, QueueIds DEF RunsOwn, TypeOK
<1>5. t \in Held(dsq'[On(c)]) /\ ~Empty(On(c))'
  BY <1>2, <1>4, AppendPlace, EmptyHolds DEF Empty
<1>6. WayOK'
  <2>1. \A u \in Tasks : state[u] = "waking" => sel[u] # c /\ sel[u] \in Cpus
    BY <1>1, <1>2 DEF AwakeOK, WayOK, RunsOwn, TypeOK
  <2> QED BY <1>1, <1>3, <2>1 DEF AwakeOK, WayOK, Pinned
<1>7. LocalAt(c)' /\ SpareAt(c)'
  BY <1>1, <1>2, <1>5 DEF AwakeOK, LocalAt, SpareAt, Passing, Scanning
<1>8. ASSUME NEW d \in Cpus, d # c PROVE LocalAt(d)' /\ SpareAt(d)'
  <2>1. LocalAt(d) /\ SpareAt(d)
    BY DEF AwakeOK
  <2>2. \A q \in TiersOf(d) \cup {On(d)} : q \in Queues /\ q # On(c)
    BY <1>8, PassQueues, QueueIds
  <2>3. dsq'[On(d)] = dsq[On(d)]
    BY <1>2, <2>2, PassQueues
  <2>4. ASSUME NEW q \in TiersOf(d) \cup {On(d)}
        PROVE  Due(d, q)' \subseteq Due(d, q) /\ t \notin Due(d, q)'
    <3>0. q \in Queues
      BY <2>2
    <3>1. dsq[q] \in Seq(Tasks) /\ Uniq(dsq[q])
      BY <1>1, <3>0 DEF RunsOwn, TypeOK, PlaceOK, QueuedOK
    <3>2. Held(dsq'[q]) \subseteq Held(dsq[q])
      <4>1. CASE q = from[c]
        BY <1>2, <3>1, <4>1, WithoutPlace
      <4>2. CASE q # from[c]
        BY <1>2, <2>2, <4>2
      <4> QED BY <4>1, <4>2
    <3>3. t \notin Held(dsq'[q])
      BY <1>1, <1>2, <1>4, <1>5, <2>2 DEF PlaceOK, QueuedOK
    <3> QED BY <1>1, <2>2, <3>2, <3>3, DueKept DEF Due
  <2>5. Empty(On(d))' = Empty(On(d))
    BY <2>3 DEF Empty
  <2>6. from[d] \in TiersOf(d) => seen[d] \cap Due(d, from[d])' \subseteq seen'[d]
    BY <1>3, <1>8, <2>4
  <2>7. SpareAt(d)'
    BY <1>1, <1>3, <1>8, <2>1, <2>4, <2>5, <2>6, SpareKept
  <2>8. LocalAt(d)'
    BY <1>1, <1>3, <1>8, <2>1, <2>5, LocalKept
  <2> QED BY <2>7, <2>8
<1> QED BY <1>6, <1>7, <1>8 DEF AwakeOK

(* A pass that ends with nothing to run and visits left has drained every    *)
(* tier it had before it.                                                    *)
LEMMA EndClear ==
  ASSUME RunsOwn, NEW c \in Cpus, LocalAt(c), SpareAt(c), EndPass(c), Empty(On(c)), visits[c] < MAX_VISIT
  PROVE  Clear(c)
<1>1. pc[c] = "pass" /\ Opens(c) = {} /\ Left(c)
  BY DispatchConsts DEF EndPass, LocalAt, Left
<1>2. ASSUME NEW i \in 1 .. 3, i \in tiers[c] PROVE FALSE
  <2>1. Tier(c) <= i /\ Tier(c) \in 1 .. 4
    BY <1>2, TierOfPass
  <2>2. TierQ(c, Tier(c)) \in Opens(c)
    BY <1>1, <1>2, <2>1 DEF Opens
  <2> QED BY <1>1, <2>2
<1>3. \A i \in 1 .. 3 : Due(c, TierQ(c, i)) = {}
  BY <1>1, <1>2 DEF SpareAt, Passing
<1>4. Due(c, On(c)) = {}
  BY EmptyHolds DEF Due, Empty
<1> QED BY <1>3, <1>4, PassQueues DEF Clear

(* What the end of a pass counts.                                            *)
LEMMA EndShape ==
  ASSUME RunsOwn, NEW c \in Cpus, EndPass(c)
  PROVE  /\ moved'[c] = 0 /\ (visits'[c] < MAX_VISIT => visits[c] < MAX_VISIT)
         /\ \A d \in Cpus : d # c => /\ moved'[d] = moved[d] /\ visits'[d] = visits[d]
                                     /\ tiers'[d] = tiers[d]
BY DEF EndPass, RunsOwn, TypeOK

LEMMA PutAwake ==
  ASSUME Ordered, AwakeOK, NEW c \in Cpus, Put(c)
  PROVE  AwakeOK'
<1> DEFINE t == curr[c]
           s == sel[t]
           m == Larger(minv[c], Served(t))
           min == IF s = c THEN m ELSE minv[s]
           v == Clamped(Served(t), min)
<1>1. /\ RunsOwn /\ PlaceOK /\ EndPass(c) /\ pc[c] = "pass" /\ t # None /\ t \in Tasks
      /\ state[t] = "running" /\ UNCHANGED <<dsq, sel, kick, from, todo, seen, woken>>
      /\ vr' = [vr EXCEPT ![t] = v] /\ minv' = [minv EXCEPT ![c] = m]
      /\ curr' = [curr EXCEPT ![c] = None] /\ state' = [state EXCEPT ![t] = "requeue"]
      /\ cand' = [cand EXCEPT ![c] = t] /\ pc' = [pc EXCEPT ![c] = "put"]
  <2>1. RunsOwn /\ PlaceOK /\ EndPass(c) /\ pc[c] = "pass" /\ t # None
    BY DEF Put, EndPass, Ordered
  <2>2. t \in Tasks /\ state[t] = "running"
    BY <2>1 DEF RunsOwn, TypeOK, PlaceOK, OwnerOK
  <2>3. vr' = [vr EXCEPT ![t] = v] /\ minv' = [minv EXCEPT ![c] = m]
    BY DEF Put
  <2>4. /\ UNCHANGED <<dsq, sel, kick, from, todo, seen, woken>>
        /\ curr' = [curr EXCEPT ![c] = None] /\ state' = [state EXCEPT ![t] = "requeue"]
        /\ cand' = [cand EXCEPT ![c] = t] /\ pc' = [pc EXCEPT ![c] = "put"]
    BY DEF Put, Goto, scanVars
  <2> QED BY <2>1, <2>2, <2>3, <2>4
<1>2. PICK p \in Plans(t, s, Eligible(v, min), s = c \/ curr[s] = None) :
        plan' = [plan EXCEPT ![t] = p]
  BY DEF Put
<1>3. /\ pc'[c] = "put" /\ curr'[c] = None /\ cand'[c] = t /\ vr'[t] = v /\ minv'[c] = m
      /\ state'[t] = "requeue" /\ plan'[t] = p
      /\ \A u \in Tasks : u # t => vr'[u] = vr[u] /\ state'[u] = state[u] /\ plan'[u] = plan[u]
  BY <1>1, <1>2 DEF RunsOwn, TypeOK
<1>4. \A d \in Cpus : d # c => /\ pc'[d] = pc[d] /\ curr'[d] = curr[d] /\ cand'[d] = cand[d]
                             /\ minv'[d] = minv[d]
  BY <1>1 DEF RunsOwn, TypeOK
<1>5. WayOK'
  <2>1. Pinned(t) => plan'[t].missed
    BY <1>1, <1>3, PlansPinned
  <2>2. \A u \in Tasks : state[u] = "waking" => sel[u] # c /\ sel[u] \in Cpus
    BY <1>1 DEF AwakeOK, WayOK, RunsOwn, TypeOK
  <2>3. \A u \in woken : u # t /\ u \in Tasks
    BY <1>1 DEF AwakeOK, WayOK, RunsOwn, TypeOK
  <2> QED BY <1>1, <1>3, <1>4, <2>1, <2>2, <2>3 DEF AwakeOK, WayOK, Pinned
<1>6. LocalAt(c) /\ SpareAt(c) /\ \A r : Empty(r)' = Empty(r) /\ Due(c, r)' = Due(c, r)
  BY <1>1 DEF AwakeOK, Empty, Due, Mine
<1>7. LocalAt(c)'
  <2>1. c \in Mask[t] /\ moved'[c] = 0
    BY <1>1, <1>6, EndShape DEF LocalAt
  <2>2. Served(t) \in 0 .. VMAX /\ minv[c] \in 0 .. VMAX /\ VMAX \in Nat /\ VLAG \in Nat
    BY <1>1, ServedType, DispatchConsts DEF RunsOwn, TypeOK
  <2>3. s = c => v <= m
    BY <2>2 DEF Clamped, Larger
  <2> HIDE DEF v, m
  <2> QED BY <1>1, <1>3, <2>1, <2>3 DEF LocalAt
<1>8. SpareAt(c)'
  <2>1. visits'[c] < MAX_VISIT /\ Empty(On(c)) => Clear(c)
    BY <1>1, <1>6, EndShape, EndClear
  <2>2. Clear(c)' = Clear(c)
    BY <1>6 DEF Clear
  <2> QED BY <1>3, <1>6, <2>1, <2>2 DEF SpareAt, Passing, Scanning
<1>9. ASSUME NEW d \in Cpus, d # c PROVE LocalAt(d)' /\ SpareAt(d)'
  <2>1. pc[d] = "put" => cand[d] \in Tasks /\ cand[d] # t
    BY <1>1 DEF RunsOwn, PhaseOK, PlaceOK, OwnerOK
  <2> HIDE DEF v, m
  <2>2. LocalAt(d) /\ SpareAt(d)
    BY DEF AwakeOK
  <2>3. moved'[d] = moved[d] /\ visits'[d] = visits[d] /\ tiers'[d] = tiers[d]
    BY <1>1, <1>9, EndShape
  <2> QED BY <1>1, <1>3, <1>4, <1>9, <2>1, <2>2, <2>3, OthersKept
<1> QED BY <1>5, <1>7, <1>8, <1>9 DEF AwakeOK

LEMMA PickAwake ==
  ASSUME Ordered, AwakeOK, NEW c \in Cpus, Pick(c)
  PROVE  AwakeOK'
<1>1. /\ RunsOwn /\ PlaceOK /\ EndPass(c) /\ pc[c] = "pass" /\ curr[c] = None
      /\ UNCHANGED <<plan, sel, vr, minv, from, todo, seen, cand>>
  BY DEF Pick, EndPass, scanVars, Ordered
<1>2. LocalAt(c) /\ SpareAt(c)
  BY DEF AwakeOK
<1>3. \A u \in Tasks : state[u] = "waking" => sel[u] # c /\ sel[u] \in Cpus
  BY <1>1 DEF AwakeOK, WayOK, RunsOwn, TypeOK
<1>4. CASE Empty(On(c))
  <2>1. pc' = [pc EXCEPT ![c] = "idle"] /\ UNCHANGED <<dsq, curr, state, kick, woken>>
    BY <1>4 DEF Pick, Goto
  <2>2. pc'[c] = "idle" /\ \A d \in Cpus : d # c => pc'[d] = pc[d]
    BY <1>1, <2>1 DEF RunsOwn, TypeOK
  <2>3. WayOK'
    BY <1>1, <1>3, <2>1, <2>2 DEF AwakeOK, WayOK, Pinned
  <2>4. LocalAt(c)'
    BY <1>1, <2>1, <2>2, EndShape DEF LocalAt
  <2>5. SpareAt(c)'
    <3>1. visits'[c] < MAX_VISIT => Clear(c)
      BY <1>1, <1>2, <1>4, EndShape, EndClear
    <3>2. Clear(c)' = Clear(c)
      BY <1>1, <2>1 DEF Clear, Due, Mine
    <3> QED BY <2>2, <3>1, <3>2 DEF SpareAt, Passing, Scanning
  <2>6. ASSUME NEW d \in Cpus, d # c PROVE LocalAt(d)' /\ SpareAt(d)'
    <3>1. LocalAt(d) /\ SpareAt(d)
      BY DEF AwakeOK
    <3>2. moved'[d] = moved[d] /\ visits'[d] = visits[d] /\ tiers'[d] = tiers[d]
      BY <1>1, <2>6, EndShape
    <3> QED BY <1>1, <2>1, <2>2, <2>6, <3>1, <3>2, OthersKept
  <2> QED BY <2>3, <2>4, <2>5, <2>6 DEF AwakeOK
<1>5. CASE ~Empty(On(c))
  <2> DEFINE t == Head(dsq[On(c)])
  <2>1. /\ curr' = [curr EXCEPT ![c] = t] /\ state' = [state EXCEPT ![t] = "running"]
        /\ dsq' = [dsq EXCEPT ![On(c)] = Tail(@)] /\ kick' = [kick EXCEPT ![c] = FALSE]
        /\ woken' = woken \ {t} /\ pc' = [pc EXCEPT ![c] = "run"]
    BY <1>5 DEF Pick, Goto
  <2>2. t \in Tasks /\ c \in Mask[t]
    <3>1. dsq[On(c)] \in Seq(Allowed(c)) /\ dsq[On(c)] # <<>>
      BY <1>1, <1>5 DEF RunsOwn, OwnOK, Empty
    <3>2. t \in Allowed(c)
      BY <3>1, HeadTailProperties
    <3> QED BY <3>2 DEF Allowed
  <2> HIDE DEF t
  <2>3. On(c) \in Queues /\ \A q \in Queues : q # On(c) => dsq'[q] = dsq[q]
    BY <1>1, <2>1, QueueIds DEF RunsOwn, TypeOK
  <2>4. /\ pc'[c] = "run" /\ curr'[c] = t
        /\ \A d \in Cpus : d # c => pc'[d] = pc[d] /\ curr'[d] = curr[d] /\ kick'[d] = kick[d]
    BY <1>1, <2>1 DEF RunsOwn, TypeOK
  <2>5. \A u \in Tasks : state'[u] = IF u = t THEN "running" ELSE state[u]
    BY <1>1, <2>1 DEF RunsOwn, TypeOK
  <2>6. WayOK'
    <3>1. woken \subseteq Tasks
      BY <1>1 DEF RunsOwn, TypeOK
    <3> QED BY <1>1, <1>3, <2>1, <2>4, <2>5, <3>1 DEF AwakeOK, WayOK, Pinned
  <2>7. LocalAt(c)'
    BY <1>1, <2>2, <2>4, EndShape DEF LocalAt
  <2>8. SpareAt(c)'
    BY <2>4 DEF SpareAt, Passing, Scanning
  <2>9. ASSUME NEW d \in Cpus, d # c PROVE LocalAt(d)' /\ SpareAt(d)'
    <3>1. LocalAt(d) /\ SpareAt(d)
      BY DEF AwakeOK
    <3>2. moved'[d] = moved[d] /\ visits'[d] = visits[d] /\ tiers'[d] = tiers[d]
      BY <1>1, <2>9, EndShape
    <3>3. \A q \in TiersOf(d) \cup {On(d)} : q \in Queues /\ q # On(c)
      BY <2>9, PassQueues, QueueIds
    <3>4. dsq'[On(d)] = dsq[On(d)] /\ \A q \in TiersOf(d) : dsq'[q] = dsq[q]
      BY <2>3, <3>3
    <3>5. woken' \subseteq woken
      BY <2>1
    <3> QED BY <1>1, <2>4, <2>9, <3>1, <3>2, <3>4, <3>5, OthersKept
  <2> QED BY <2>6, <2>7, <2>8, <2>9 DEF AwakeOK
<1> QED BY <1>4, <1>5

LEMMA BlockAwake ==
  ASSUME Ordered, AwakeOK, NEW c \in Cpus, Block(c)
  PROVE  AwakeOK'
<1> DEFINE t == curr[c]
<1>1. /\ RunsOwn /\ PlaceOK /\ ~Locked(c) /\ pc[c] = "run" /\ t \in Tasks /\ t # None
      /\ state[t] = "running" /\ StartPass(c)
      /\ curr' = [curr EXCEPT ![c] = None] /\ state' = [state EXCEPT ![t] = "asleep"]
      /\ UNCHANGED <<dsq, plan, from, todo, seen, cand, moved, woken>>
  BY DispatchConsts DEF Block, Charge, scanVars, Ordered, RunsOwn, PhaseOK, PlaceOK, OwnerOK
<1>2. \A u \in Tasks : u # t => vr'[u] = vr[u] /\ sel'[u] = sel[u]
  BY <1>1 DEF Block, Charge, RunsOwn, TypeOK
<1>3. /\ pc'[c] = "pass" /\ curr'[c] = None
      /\ \A d \in Cpus : d # c => /\ pc'[d] = pc[d] /\ kick'[d] = kick[d] /\ curr'[d] = curr[d]
                                  /\ tiers'[d] = tiers[d] /\ visits'[d] = visits[d]
  BY <1>1 DEF StartPass, Goto, RunsOwn, TypeOK
<1>4. \A d \in Cpus : d # c => minv'[d] = minv[d]
  BY <1>1 DEF Block, Charge, RunsOwn, TypeOK
<1>5. \A u \in Tasks : state'[u] = IF u = t THEN "asleep" ELSE state[u]
  BY <1>1 DEF RunsOwn, TypeOK
<1>6. WayOK'
  <2>1. \A u \in Tasks : state[u] = "waking" => sel[u] # c /\ sel[u] \in Cpus
    BY <1>1 DEF Locked, RunsOwn, TypeOK
  <2>2. \A u \in woken : u # t /\ u \in Tasks
    BY <1>1 DEF AwakeOK, WayOK, RunsOwn, TypeOK
  <2> QED BY <1>1, <1>2, <1>3, <1>5, <2>1, <2>2 DEF AwakeOK, WayOK, Pinned
<1>7. LocalAt(c)'
  <2>1. LocalAt(c)
    BY DEF AwakeOK
  <2> QED BY <1>1, <1>3, <2>1 DEF LocalAt, Passing
<1>8. SpareAt(c)'
  BY <1>1, StartSpare
<1>9. ASSUME NEW d \in Cpus, d # c PROVE LocalAt(d)' /\ SpareAt(d)'
  <2>1. pc[d] = "put" => cand[d] \in Tasks /\ cand[d] # t
    BY <1>1 DEF RunsOwn, PhaseOK, PlaceOK, OwnerOK
  <2>2. LocalAt(d) /\ SpareAt(d)
    BY DEF AwakeOK
  <2> QED BY <1>1, <1>2, <1>3, <1>4, <1>9, <2>1, <2>2, OthersKept
<1> QED BY <1>6, <1>7, <1>8, <1>9 DEF AwakeOK

(* A pinned task may run on one CPU only.                                    *)
LEMMA PinnedOnce ==
  ASSUME NEW t \in Tasks, Pinned(t), NEW a \in Mask[t], NEW b \in Mask[t]
  PROVE  a = b
<1>1. Mask[t] \subseteq Cpus
  BY DispatchConsts
<1>2. IsFiniteSet(Cpus)
  BY DispatchConsts, FS_Interval DEF Cpus
<1>3. IsFiniteSet(Mask[t])
  BY <1>1, <1>2, FS_Subset
<1>4. \E x : Mask[t] = {x}
  BY <1>3, FS_Singleton DEF Pinned
<1> QED BY <1>4

LEMMA HoldsNothing ==
  ASSUME NEW s \in Seq(Tasks)
  PROVE  s = <<>> <=> Held(s) = {}
<1>1. Len(s) \in Nat /\ DOMAIN s = 1 .. Len(s)
  BY LenProperties
<1>2. ASSUME s # <<>> PROVE Held(s) # {}
  <2>1. 1 \in DOMAIN s
    BY <1>1, <1>2, EmptySeq
  <2> QED BY <2>1 DEF Held
<1> QED BY <1>2, EmptyHolds

(* A join adds the task to one queue and changes nothing else in any.        *)
LEMMA JoinsHeld ==
  ASSUME RunsOwn, PlaceOK, NEW t \in Tasks, state[t] \in {"waking", "requeue"}, Joins(t)
  PROVE  /\ \A r \in Queues : Held(dsq'[r]) \subseteq Held(dsq[r]) \cup {t}
         /\ \A c \in Cpus : Empty(On(c))' => Empty(On(c))
<1>1. /\ QueuedOK /\ QueuedOK' /\ \A r \in Queues : Held(dsq[r]) \subseteq Held(dsq'[r])
      /\ state' = [state EXCEPT ![t] = "queued"] /\ dsq' \in [Queues -> Seq(Tasks)]
  BY JoinsPlaced, JoinsStep DEF PlaceOK
<1>2. ASSUME NEW r \in Queues, NEW u \in Held(dsq'[r]), u # t PROVE u \in Held(dsq[r])
  <2>1. u \in Tasks
    BY <1>1, HeldType
  <2>2. state'[u] = "queued" /\ state'[u] = state[u]
    BY <1>1, <1>2, <2>1 DEF QueuedOK, RunsOwn, TypeOK
  <2>3. PICK o \in Queues : u \in Held(dsq[o])
    BY <1>1, <2>1, <2>2 DEF QueuedOK
  <2>4. o = r
    BY <1>1, <1>2, <2>1, <2>3 DEF QueuedOK
  <2> QED BY <2>3, <2>4
<1>3. ASSUME NEW c \in Cpus, Empty(On(c))' PROVE Empty(On(c))
  <2>1. On(c) \in Queues /\ dsq[On(c)] \in Seq(Tasks) /\ dsq'[On(c)] \in Seq(Tasks)
    BY <1>1, QueueIds DEF RunsOwn, TypeOK
  <2> QED BY <1>1, <1>3, <2>1, HoldsNothing DEF Empty
<1> QED BY <1>2, <1>3

(* What a join kicks, it kicks unless the CPU runs; no kick is taken back.   *)
LEMMA JoinsKick ==
  ASSUME NEW t \in Tasks, Joins(t), NEW c \in Cpus
  PROVE  /\ kick[c] => kick'[c]
         /\ KickedBy(t) \subseteq {c} /\ KickedBy(t) # {} /\ pc[c] # "run" => kick'[c]
         /\ c \in Rescheduled(t) /\ pc[c] # "run" => kick'[c]
<1>1. PICK k \in IF KickedBy(t) = {} THEN {{}} ELSE {{d} : d \in KickedBy(t)} :
        kick' = [d \in Cpus |-> kick[d] \/ (d \in k \cup Rescheduled(t) /\ pc[d] # "run")]
  BY DEF Joins, Kick
<1>2. kick'[c] = (kick[c] \/ (c \in k \cup Rescheduled(t) /\ pc[c] # "run"))
  BY <1>1
<1>3. KickedBy(t) \subseteq {c} /\ KickedBy(t) # {} => c \in k
  BY <1>1
<1> QED BY <1>2, <1>3

(* The CPUs that answer not for the task that joins.                         *)
LEMMA JoinsOthers ==
  ASSUME RunsOwn, PlaceOK, NEW t \in Tasks, state[t] \in {"waking", "requeue"}, Joins(t),
         NEW c \in Cpus, LocalAt(c), SpareAt(c), t \notin Mine(c)',
         pc'[c] = pc[c], cand'[c] = cand[c], UNCHANGED <<tiers, from, seen, visits, moved>>
  PROVE  LocalAt(c)' /\ SpareAt(c)'
<1>1. UNCHANGED <<sel, vr, minv, curr>> /\ woken' \subseteq woken \cup {t}
  BY DEF Joins
<1>2. Empty(On(c))' => Empty(On(c))
  BY JoinsHeld
<1>3. LocalAt(c)'
  BY <1>1, <1>2, LocalKept
<1>4. ASSUME NEW q \in TiersOf(c) \cup {On(c)} PROVE Due(c, q)' \subseteq Due(c, q)
  <2>1. Held(dsq'[q]) \subseteq Held(dsq[q]) \cup {t}
    BY PassQueues, JoinsHeld
  <2> QED BY <1>1, <2>1 DEF Due, Mine
<1>5. kick[c] => kick'[c]
  BY JoinsKick
<1>6. from[c] \in TiersOf(c) => seen[c] \cap Due(c, from[c])' \subseteq seen'[c]
  OBVIOUS
<1>7. SpareAt(c)'
  BY <1>2, <1>4, <1>5, <1>6, SpareKept
<1> QED BY <1>3, <1>7

LEMMA JoinAwake ==
  ASSUME Ordered, AwakeOK, NEW t \in Tasks, Join(t)
  PROVE  AwakeOK'
<1>1. /\ RunsOwn /\ PlaceOK /\ state[t] = "waking" /\ Joins(t) /\ sel[t] \in Cpus
      /\ UNCHANGED <<sel, vr, minv, curr, pc, tiers, from, seen, cand, visits, moved>>
      /\ state' = [state EXCEPT ![t] = "queued"] /\ woken' = woken \cup {t}
      /\ plan' = [plan EXCEPT ![t] = NoPlan]
  BY DEF Join, Joins, passVars, scanVars, Ordered, RunsOwn, TypeOK
<1>2. /\ state'[t] = "queued"
      /\ \A u \in Tasks : u # t => state'[u] = state[u] /\ plan'[u] = plan[u]
  BY <1>1 DEF RunsOwn, TypeOK
<1>3. WayOK'
  <2>1. woken \subseteq Tasks
    BY <1>1 DEF RunsOwn, TypeOK
  <2> QED BY <1>1, <1>2, <2>1 DEF AwakeOK, WayOK, Pinned
<1>4. ASSUME NEW c \in Cpus PROVE LocalAt(c)' /\ SpareAt(c)'
  <2>1. LocalAt(c) /\ SpareAt(c)
    BY DEF AwakeOK
  <2>2. CASE c # sel[t]
    <3>1. t \notin Mine(c)'
      BY <1>1, <2>2 DEF Mine
    <3> QED BY <1>1, <2>1, <3>1, JoinsOthers
  <2>3. CASE c = sel[t]
    <3>1. pc[c] \in {"idle", "run"}
      BY <1>1, <2>3 DEF AwakeOK, WayOK
    <3>2. pc[c] = "idle" => kick'[c]
      BY <1>1, <2>3, JoinsKick DEF Rescheduled
    <3>3. SpareAt(c)'
      BY <1>1, <3>1, <3>2 DEF SpareAt, Passing, Scanning
    <3>4. Empty(On(c))' => Empty(On(c))
      BY <1>1, JoinsHeld
    <3>5. LocalAt(c)'
      BY <1>1, <2>1, <3>4, LocalKept
    <3> QED BY <3>3, <3>5
  <2> QED BY <2>2, <2>3
<1> QED BY <1>3, <1>4 DEF AwakeOK

(* A put task joins before its CPU goes idle; a pinned one kicks it.         *)
LEMMA PutJoinAwake ==
  ASSUME Ordered, AwakeOK, NEW c \in Cpus, PutJoin(c)
  PROVE  AwakeOK'
<1> DEFINE t == cand[c]
<1>1. /\ RunsOwn /\ PlaceOK /\ pc[c] = "put" /\ t \in Tasks /\ state[t] = "requeue" /\ Joins(t)
      /\ UNCHANGED <<sel, vr, minv, curr, tiers, from, seen, visits, moved>>
      /\ state' = [state EXCEPT ![t] = "queued"] /\ woken' = woken \ {t}
      /\ plan' = [plan EXCEPT ![t] = NoPlan]
  <2>1. RunsOwn /\ PlaceOK /\ pc[c] = "put" /\ Joins(t)
    BY DEF PutJoin, Ordered
  <2>2. t \in Tasks /\ state[t] = "requeue"
    BY <2>1 DEF RunsOwn, PhaseOK, PlaceOK, OwnerOK
  <2> QED BY <2>1, <2>2 DEF PutJoin, Joins, scanVars
<1>2. /\ state'[t] = "queued"
      /\ \A u \in Tasks : u # t => state'[u] = state[u] /\ plan'[u] = plan[u]
  BY <1>1 DEF RunsOwn, TypeOK
<1>3. /\ pc'[c] = IF Empty(On(c)) THEN "idle" ELSE "pass"
      /\ \A d \in Cpus : d # c => pc'[d] = pc[d] /\ cand'[d] = cand[d]
  BY <1>1 DEF PutJoin, Goto, RunsOwn, TypeOK
<1>4. WayOK'
  <2>1. \A u \in Tasks : state[u] = "waking" => sel[u] # c /\ sel[u] \in Cpus
    BY <1>1 DEF AwakeOK, WayOK, RunsOwn, TypeOK
  <2>2. woken \subseteq Tasks
    BY <1>1 DEF RunsOwn, TypeOK
  <2> QED BY <1>1, <1>2, <1>3, <2>1, <2>2 DEF AwakeOK, WayOK, Pinned
<1>5. /\ LocalAt(c) /\ SpareAt(c) /\ curr[c] = None /\ c \in Mask[t] /\ moved[c] = 0
      /\ sel[t] = c => vr[t] <= minv[c]
  BY <1>1 DEF AwakeOK, LocalAt, Passing
<1>6. LocalAt(c)'
  BY <1>1, <1>3, <1>5 DEF LocalAt
<1>7. SpareAt(c)'
  <2>1. Empty(On(c))' => Empty(On(c))
    BY <1>1, JoinsHeld
  <2>2. ASSUME Empty(On(c)), visits[c] < MAX_VISIT, ~kick'[c] PROVE Clear(c)'
    <3>1. Clear(c)
      BY <1>1, <1>5, <2>2 DEF SpareAt
    <3>2. t \notin Mine(c)'
      <4> SUFFICES ASSUME sel[t] = c, Pinned(t) PROVE FALSE
        BY <1>1 DEF Mine, Pinned
      <4>1. plan[t].missed
        BY <1>1 DEF AwakeOK, WayOK
      <4>2. KickedBy(t) = {c}
        BY <1>5, <4>1 DEF KickedBy, Probed, Eligible
      <4> QED BY <1>1, <2>2, <4>2, JoinsKick
    <3>3. ASSUME NEW q \in TiersOf(c) \cup {On(c)} PROVE Due(c, q)' = {}
      <4>1. Held(dsq'[q]) \subseteq Held(dsq[q]) \cup {t}
        BY <1>1, PassQueues, JoinsHeld
      <4>2. Due(c, q) = {}
        BY <3>1 DEF Clear
      <4> QED BY <1>1, <3>2, <4>1, <4>2 DEF Due, Mine, Pinned
    <3> QED BY <3>3 DEF Clear, TiersOf, DrainNode, NodeOk
  <2> QED BY <1>1, <1>3, <2>1, <2>2 DEF SpareAt, Passing, Scanning
<1>8. ASSUME NEW d \in Cpus, d # c PROVE LocalAt(d)' /\ SpareAt(d)'
  <2>1. t \notin Mine(d)'
    <3>1. Pinned(t) => sel[t] = c
      BY <1>1, <1>5, PinnedOnce DEF RunsOwn, TypeOK
    <3> QED BY <1>1, <1>8, <3>1 DEF Mine, Pinned
  <2>2. LocalAt(d) /\ SpareAt(d)
    BY DEF AwakeOK
  <2> QED BY <1>1, <1>3, <1>8, <2>1, <2>2, JoinsOthers
<1> QED BY <1>4, <1>6, <1>7, <1>8 DEF AwakeOK

------------------------------------------------------------------------------
(* What follows for every behaviour                                          *)

LEMMA NextAwake == Ordered /\ AwakeOK /\ [Next]_vars => AwakeOK'
<1> SUFFICES ASSUME Ordered, AwakeOK, [Next]_vars PROVE AwakeOK'
  OBVIOUS
<1>1. CASE \E t \in Tasks : Wake(t) \/ Join(t)
  BY <1>1, WakeAwake, JoinAwake
<1>2. CASE \E c \in Cpus : Runs(c) \/ Block(c)
  BY <1>2, SchedAwake, OpenAwake, TryAwake, EndScanAwake, MoveAwake, PutAwake, PutJoinAwake,
     PickAwake, BlockAwake DEF Runs
<1>3. CASE UNCHANGED vars
  <2>1. UNCHANGED <<dsq, state, plan, sel, vr, woken, minv, curr, pc, kick, tiers, from, todo,
                    seen, cand, visits, moved>>
    BY <1>3 DEF vars, taskVars, passVars, scanVars
  <2> QED BY <2>1 DEF AwakeOK, WayOK, LocalAt, SpareAt, Passing, Scanning, Empty, Clear, Due, Mine, Tier
<1> QED BY <1>1, <1>2, <1>3 DEF Next

LEMMA AlwaysAwake == Spec => [](Ordered /\ AwakeOK)
<1>1. Init => AwakeOK
  BY InitAwake
<1>2. Ordered /\ AwakeOK /\ [Next]_vars => AwakeOK'
  BY NextAwake
<1>3. RunsOwn /\ PlaceOK /\ OrderOK => Ordered
  BY DEF Ordered
<1>4. Spec => []Ordered
  BY <1>3, AlwaysOrdered, PTL
<1> QED BY <1>1, <1>2, <1>4, PTL DEF Spec

(* No wake up is lost: a CPU that sits idle with no kick on its way, after a *)
(* pass with visits left, has nothing in its queues that woke up on it. The  *)
(* depths a pass reads once, the joins and the kicks of others interleave.   *)
THEOREM NoneStranded == Spec => []WokenNeverStranded
<1>1. Ordered /\ AwakeOK => WokenNeverStranded
  <2> SUFFICES ASSUME Ordered, AwakeOK, NEW c \in Cpus, pc[c] = "idle", ~kick[c], visits[c] < MAX_VISIT,
                      NEW q \in TiersOf(c) \cup {On(c)}, NEW t \in Held(dsq[q]), t \in woken, sel[t] = c
               PROVE  FALSE
    BY HeldIsRange DEF WokenNeverStranded
  <2>1. Clear(c) /\ t \in Tasks
    BY DEF AwakeOK, SpareAt, Ordered, RunsOwn, TypeOK
  <2> QED BY <2>1 DEF Clear, Due, Mine
<1> QED BY <1>1, AlwaysAwake, PTL

(* A CPU that sits idle with no kick on its way, after a pass with visits    *)
(* left, has nothing in its queues that can run nowhere else.                *)
PinnedServed ==
  \A c \in Cpus : pc[c] = "idle" /\ ~kick[c] /\ visits[c] < MAX_VISIT =>
    \A q \in TiersOf(c) \cup {On(c)} : \A t \in Range(dsq[q]) : Pinned(t) => c \notin Mask[t]

(* Whatever shares its queues, a pinned task is not left to a CPU that idles:*)
(* its join kicks the CPU, and the pass of that CPU meets it, unless tasks of *)
(* others use up the visits (kick.bpf.c:194-225, task_placement.bpf.c:78-91). *)
THEOREM PinnedNeverLeft == Spec => []PinnedServed
<1>1. Ordered /\ AwakeOK => PinnedServed
  <2> SUFFICES ASSUME Ordered, AwakeOK, NEW c \in Cpus, pc[c] = "idle", ~kick[c], visits[c] < MAX_VISIT,
                      NEW q \in TiersOf(c) \cup {On(c)}, NEW t \in Held(dsq[q]), Pinned(t), c \in Mask[t]
               PROVE  FALSE
    BY HeldIsRange DEF PinnedServed
  <2>1. Clear(c)
    BY DEF AwakeOK, SpareAt
  <2>2. t \in Tasks
    BY PassQueues, HeldType DEF Ordered, RunsOwn, TypeOK
  <2>3. sel[t] = c
    BY <2>2, PinnedOnce DEF Ordered, RunsOwn, TypeOK
  <2> QED BY <2>1, <2>2, <2>3 DEF Clear, Due, Mine
<1> QED BY <1>1, AlwaysAwake, PTL

(* So where every task is pinned the code keeps the promise of               *)
(* intf.h:155-156, as far as the passes have visits.                         *)
VisitsLeft == \A c \in Cpus : visits[c] < MAX_VISIT

THEOREM PinnedConserving ==
  ASSUME \A t \in Tasks : Pinned(t)
  PROVE  Spec => [](VisitsLeft => WorkConserving)
<1>1. RunsOwn /\ PinnedServed => (VisitsLeft => WorkConserving)
  <2> SUFFICES ASSUME RunsOwn, PinnedServed, VisitsLeft, NEW c \in Cpus, pc[c] = "idle", ~kick[c],
                      NEW q \in TiersOf(c) \cup {On(c)}, NEW t \in Held(dsq[q]), c \in Mask[t]
               PROVE  FALSE
    BY HeldIsRange DEF WorkConserving
  <2>1. t \in Tasks
    BY PassQueues, HeldType DEF RunsOwn, TypeOK
  <2> QED BY <2>1, HeldIsRange DEF PinnedServed, VisitsLeft
<1> QED BY <1>1, AlwaysRunsOwn, PinnedNeverLeft, PTL
=============================================================================
