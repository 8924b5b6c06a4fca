-------------------------- MODULE FlowDispatchProofs --------------------------
(* Proofs about FlowDispatch for any tasks, masks, CPUs, nodes and bounds.   *)
EXTENDS FlowDispatch, FiniteSetTheorems, WellFoundedInduction, SequenceTheorems, TLAPS

(* The tasks CPU c may run.                                                  *)
Allowed(c) == {t \in Tasks : c \in Mask[t]}

(* What a CPU runs from holds only tasks of its own, and an enqueue that     *)
(* goes past the tiers goes to a CPU of its task.                            *)
OwnOK ==
  /\ \A c \in Cpus : dsq[On(c)] \in Seq(Allowed(c))
  /\ \A t \in Tasks : \A c \in Cpus : plan[t].q = On(c) => c \in Mask[t]

(* What a CPU holds where it is: a task it runs or puts, a slot to move into,*)
(* a tier to drain from.                                                     *)
PhaseOK ==
  \A c \in Cpus :
    /\ pc[c] = "run" => curr[c] \in Tasks
    /\ pc[c] = "put" => cand[c] \in Tasks
    /\ pc[c] \in {"scan", "try"} => moved[c] < SLOTS
    /\ from[c] \in Tiers

RunsOwn == TypeOK /\ OwnOK /\ PhaseOK

------------------------------------------------------------------------------
(* Operators                                                                 *)

(* A set of numbers that is not empty has a least one.                       *)
LEMMA Least ==
  ASSUME NEW S, S \subseteq Nat, S # {}
  PROVE  Min(S) \in S /\ \A j \in S : Min(S) <= j
<1> DEFINE Less == {x \in Nat \X Nat : x[1] < x[2]}
<1>1. IsWellFoundedOn(Less, Nat)
  BY NatLessThanWellFounded, Zenon DEF OpToRel
<1>2. \E i \in S : \A j \in S : <<j, i>> \notin Less
  <2> HIDE DEF Less
  <2> QED BY <1>1, WFMin
<1>3. \A i, j \in Nat : <<j, i>> \notin Less => i <= j
  <2> TAKE i, j \in Nat
  <2> HAVE <<j, i>> \notin Less
  <2>1. <<j, i>> \in Nat \X Nat /\ <<j, i>>[1] = j /\ <<j, i>>[2] = i
    OBVIOUS
  <2>2. ~(j < i)
    BY <2>1
  <2> QED BY <2>2
<1>4. \E i \in S : \A j \in S : i <= j
  <2> HIDE DEF Less
  <2> QED BY <1>2, <1>3
<1> QED BY <1>4 DEF Min

(* A mask is never empty, so it has a first CPU.                             *)
LEMMA FirstIsAllowed ==
  ASSUME NEW t \in Tasks
  PROVE  FirstAllowed(t) \in Mask[t] /\ FirstAllowed(t) \in Cpus
<1>1. Mask[t] \subseteq Nat /\ Mask[t] # {} /\ Mask[t] \subseteq Cpus
  BY DispatchConsts DEF Cpus
<1> QED BY <1>1, Least DEF FirstAllowed

(* The three kinds of queue ids are disjoint.                                *)
LEMMA QueueIds ==
  /\ Tiers \subseteq Queues
  /\ \A c \in Cpus : Local(c) \in Tiers /\ On(c) \in Queues /\ On(c) \notin Tiers
  /\ \A c, d \in Cpus : On(c) = On(d) => c = d
  /\ \A c, x : Local(x) # On(c) /\ NodeQ(x) # On(c) /\ Machine # On(c)
  /\ \A n \in 0 .. NR_NODES - 1 : NodeQ(n) \in Tiers
  /\ Machine \in Tiers
BY DEF On, Local, NodeQ, Machine, Queues, Tiers

(* Taking a task out of a queue or putting one in leaves a queue of tasks.   *)
LEMMA WithoutType ==
  ASSUME NEW s \in Seq(Tasks), NEW t
  PROVE  Without(s, t) \in Seq(Tasks)
<1>1. CASE t \in Range(s)
  <2> DEFINE i == CHOOSE i \in DOMAIN s : s[i] = t
  <2>1. i \in DOMAIN s
    BY <1>1 DEF Range
  <2>2. i \in 1 .. Len(s) /\ Len(s) \in Nat
    BY <2>1, LenProperties
  <2> HIDE DEF i
  <2>3. SubSeq(s, 1, i - 1) \in Seq(Tasks) /\ SubSeq(s, i + 1, Len(s)) \in Seq(Tasks)
    <3>1. \A k \in 1 .. i - 1 : s[k] \in Tasks
      BY <2>2, ElementOfSeq
    <3>2. \A k \in i + 1 .. Len(s) : s[k] \in Tasks
      BY <2>2, ElementOfSeq
    <3> QED BY <2>2, <3>1, <3>2, SubSeqProperties
  <2>4. RemoveAt(s, i) \in Seq(Tasks)
    BY <2>3, ConcatProperties DEF RemoveAt
  <2> QED BY <1>1, <2>4 DEF Without, i
<1>2. CASE t \notin Range(s)
  BY <1>2 DEF Without
<1> QED BY <1>1, <1>2

LEMMA InsertAtType ==
  ASSUME NEW s \in Seq(Tasks), NEW t \in Tasks, NEW n \in 0 .. Len(s)
  PROVE  InsertAt(s, n + 1, t) \in Seq(Tasks)
<1>1. Len(s) \in Nat
  BY LenProperties
<1>2. \A k \in 1 .. n + 1 - 1 : s[k] \in Tasks
  BY <1>1, ElementOfSeq
<1>3. \A k \in n + 1 .. Len(s) : s[k] \in Tasks
  BY <1>1, ElementOfSeq
<1>4. SubSeq(s, 1, n + 1 - 1) \in Seq(Tasks) /\ SubSeq(s, n + 1, Len(s)) \in Seq(Tasks)
  BY <1>1, <1>2, <1>3, SubSeqProperties
<1>5. <<t>> \in Seq(Tasks)
  OBVIOUS
<1>6. SubSeq(s, 1, n + 1 - 1) \o <<t>> \in Seq(Tasks)
  BY <1>4, <1>5, ConcatProperties
<1> QED BY <1>4, <1>6, ConcatProperties DEF InsertAt

(* How many entries come before a key is at most how many there are.         *)
LEMMA BeforeBound ==
  ASSUME NEW s \in Seq(Tasks), NEW I \in SUBSET (DOMAIN s)
  PROVE  Cardinality(I) \in 0 .. Len(s)
<1>1. Len(s) \in Nat /\ DOMAIN s = 1 .. Len(s)
  BY LenProperties
<1>2. IsFiniteSet(1 .. Len(s)) /\ Cardinality(1 .. Len(s)) = Len(s)
  <2>1. 1 \in Int /\ Len(s) \in Int
    BY <1>1
  <2>2. IsFiniteSet(1 .. Len(s)) /\ Cardinality(1 .. Len(s)) = IF 1 > Len(s) THEN 0 ELSE Len(s) - 1 + 1
    BY <2>1, FS_Interval
  <2> QED BY <1>1, <2>2
<1>3. IsFiniteSet(I) /\ Cardinality(I) <= Len(s)
  BY <1>1, <1>2, FS_Subset
<1> QED BY <1>1, <1>3, FS_CardinalityType

(* Virtual time stays in its bounds.                                         *)
LEMMA TimeTypes ==
  ASSUME NEW v \in 0 .. VMAX, NEW m \in 0 .. VMAX
  PROVE  Clamped(v, m) \in 0 .. VMAX /\ Larger(m, v) \in 0 .. VMAX
BY DispatchConsts DEF Clamped, Larger

LEMMA ServedType ==
  ASSUME TypeOK, NEW t \in Tasks
  PROVE  Served(t) \in 0 .. VMAX
BY DispatchConsts DEF Served, TypeOK

(* What an enqueue decides at a CPU of its task: a tier or that CPU.         *)
LEMMA PlansOwn ==
  ASSUME NEW t \in Tasks, NEW c \in Mask[t], NEW e \in BOOLEAN, NEW i \in BOOLEAN,
         NEW p \in Plans(t, c, e, i)
  PROVE  /\ p \in [q : Queues, missed : BOOLEAN, elig : BOOLEAN]
         /\ \A d \in Cpus : p.q = On(d) => d \in Mask[t]
<1>1. c \in Cpus /\ Node[c] \in Nat /\ NR_NODES \in Nat
  BY DispatchConsts
<1>2. PICK l, m \in BOOLEAN : p = Decision(c, l \/ Pinned(t), e, m, i)
  BY DEF Plans
<1>3. TierFor(c, m) \in Tiers
  BY <1>1, QueueIds DEF TierFor, NodeOk
<1>4. /\ p.q = On(c) \/ p.q = TierFor(c, m)
      /\ p \in [q : Queues, missed : BOOLEAN, elig : BOOLEAN]
  <2>1. (IF Direct(c, l \/ Pinned(t), e, m, i) THEN On(c) ELSE TierFor(c, m)) \in Queues
    BY <1>1, <1>3, QueueIds
  <2> QED BY <1>2, <2>1 DEF Decision, Pinned
<1> QED BY <1>1, <1>3, <1>4, QueueIds

------------------------------------------------------------------------------
(* The invariant holds at first                                              *)

LEMMA InitRunsOwn == Init => RunsOwn
<1> SUFFICES ASSUME Init PROVE RunsOwn
  OBVIOUS
<1>1. NoPlan \in [q : Queues, missed : BOOLEAN, elig : BOOLEAN] /\ NoPlan.q = Machine
  BY QueueIds DEF NoPlan
<1>2. TypeOK
  <2>1. dsq \in [Queues -> Seq(Tasks)] /\ todo \in [Cpus -> Seq(Tasks)]
    BY DEF Init
  <2>2. sel \in [Tasks -> Cpus] /\ \A t \in Tasks : sel[t] \in Mask[t]
    BY FirstIsAllowed DEF Init
  <2>3. from \in [Cpus -> Queues]
    BY QueueIds DEF Init
  <2>4. vr \in [Tasks -> 0 .. VMAX] /\ minv \in [Cpus -> 0 .. VMAX]
    BY DispatchConsts DEF Init
  <2>5. visits \in [Cpus -> 0 .. MAX_VISIT] /\ moved \in [Cpus -> 0 .. SLOTS]
    BY DispatchConsts DEF Init
  <2> QED BY <1>1, <2>1, <2>2, <2>3, <2>4, <2>5 DEF Init, TypeOK, PCs
<1>3. OwnOK
  <2>1. \A c \in Cpus : dsq[On(c)] = <<>> /\ <<>> \in Seq(Allowed(c))
    BY QueueIds DEF Init
  <2>2. \A t \in Tasks : plan[t].q = Machine
    BY <1>1 DEF Init
  <2> QED BY <2>1, <2>2, QueueIds DEF OwnOK
<1>4. PhaseOK
  BY QueueIds DEF Init, PhaseOK
<1> QED BY <1>2, <1>3, <1>4 DEF RunsOwn

------------------------------------------------------------------------------
(* Every step keeps it                                                       *)

(* A step that leaves queues and plans alone.                                *)
LEMMA QuietStep ==
  ASSUME RunsOwn, UNCHANGED <<dsq, plan>>
  PROVE  OwnOK'
BY DEF RunsOwn, OwnOK, Allowed

(* A decision at a CPU of the task.                                          *)
LEMMA PlanStep ==
  ASSUME RunsOwn, NEW t \in Tasks, NEW c \in Mask[t], NEW e \in BOOLEAN, NEW i \in BOOLEAN,
         NEW p \in Plans(t, c, e, i), plan' = [plan EXCEPT ![t] = p]
  PROVE  /\ plan' \in [Tasks -> [q : Queues, missed : BOOLEAN, elig : BOOLEAN]]
         /\ \A u \in Tasks : \A d \in Cpus : plan'[u].q = On(d) => d \in Mask[u]
<1>1. /\ p \in [q : Queues, missed : BOOLEAN, elig : BOOLEAN]
      /\ \A d \in Cpus : p.q = On(d) => d \in Mask[t]
  BY PlansOwn
<1> QED BY <1>1 DEF RunsOwn, TypeOK, OwnOK

LEMMA WakeStep ==
  ASSUME RunsOwn, NEW t \in Tasks, Wake(t)
  PROVE  RunsOwn'
<1>1. PICK c \in Mask[t] :
        /\ sel' = [sel EXCEPT ![t] = c]
        /\ vr' = [vr EXCEPT ![t] = Clamped(@, minv[c])]
        /\ \E p \in Plans(t, c, Eligible(vr'[t], minv[c]), curr[c] = None) :
             plan' = [plan EXCEPT ![t] = p]
  BY DEF Wake
<1>2. c \in Cpus
  BY DispatchConsts
<1>3. Eligible(vr'[t], minv[c]) \in BOOLEAN /\ (curr[c] = None) \in BOOLEAN
  BY DEF Eligible
<1>4. /\ plan' \in [Tasks -> [q : Queues, missed : BOOLEAN, elig : BOOLEAN]]
      /\ \A u \in Tasks : \A d \in Cpus : plan'[u].q = On(d) => d \in Mask[u]
  BY <1>1, <1>3, PlanStep
<1>5. TypeOK'
  <2>1. vr' \in [Tasks -> 0 .. VMAX]
    BY <1>1, <1>2, TimeTypes DEF RunsOwn, TypeOK
  <2>2. sel' \in [Tasks -> Cpus] /\ \A u \in Tasks : sel'[u] \in Mask[u]
    BY <1>1, <1>2 DEF RunsOwn, TypeOK
  <2> QED BY <1>4, <2>1, <2>2 DEF Wake, passVars, scanVars, RunsOwn, TypeOK
<1>6. OwnOK'
  BY <1>4 DEF Wake, RunsOwn, OwnOK, Allowed
<1>7. PhaseOK'
  BY DEF Wake, passVars, scanVars, RunsOwn, PhaseOK
<1> QED BY <1>5, <1>6, <1>7 DEF RunsOwn

(* A join follows its plan.                                                  *)
LEMMA InsertStep ==
  ASSUME RunsOwn, NEW t \in Tasks, NEW q \in Queues,
         \A c \in Cpus : q = On(c) => c \in Mask[t], Insert(q, t)
  PROVE  /\ dsq' \in [Queues -> Seq(Tasks)]
         /\ \A c \in Cpus : dsq'[On(c)] \in Seq(Allowed(c))
<1> DEFINE n == Cardinality({i \in DOMAIN dsq[q] : vr[dsq[q][i]] <= vr[t]})
           new == IF q \in Tiers THEN InsertAt(dsq[q], n + 1, t) ELSE Append(dsq[q], t)
<1>1. dsq' = [dsq EXCEPT ![q] = new]
  BY DEF Insert
<1>2. dsq \in [Queues -> Seq(Tasks)] /\ dsq[q] \in Seq(Tasks)
  BY DEF RunsOwn, TypeOK
<1>3. new \in Seq(Tasks)
  <2>1. n \in 0 .. Len(dsq[q])
    BY <1>2, BeforeBound
  <2> HIDE DEF n
  <2> QED BY <1>2, <2>1, InsertAtType, AppendProperties
<1>4. ASSUME NEW c \in Cpus PROVE dsq'[On(c)] \in Seq(Allowed(c))
  <2>1. dsq[On(c)] \in Seq(Allowed(c))
    BY DEF RunsOwn, OwnOK
  <2>2. CASE q = On(c)
    <3>1. t \in Allowed(c)
      BY <2>2 DEF Allowed
    <3>2. dsq'[On(c)] = Append(dsq[On(c)], t)
      BY <1>1, <1>2, <2>2, QueueIds
    <3> QED BY <2>1, <3>1, <3>2, AppendProperties
  <2>3. CASE q # On(c)
    <3>1. dsq'[On(c)] = dsq[On(c)]
      BY <1>1, <1>2, <2>3, QueueIds
    <3> QED BY <2>1, <3>1
  <2> QED BY <2>2, <2>3
<1> QED BY <1>1, <1>2, <1>3, <1>4

(* The plan of a task that joined is the empty one, the rest stays.          *)
LEMMA JoinsStep ==
  ASSUME RunsOwn, NEW t \in Tasks, Joins(t)
  PROVE  /\ OwnOK'
         /\ dsq' \in [Queues -> Seq(Tasks)]
         /\ plan' \in [Tasks -> [q : Queues, missed : BOOLEAN, elig : BOOLEAN]]
         /\ state' \in [Tasks -> {"asleep", "waking", "requeue", "queued", "running"}]
         /\ kick' \in [Cpus -> BOOLEAN]
         /\ woken' \subseteq Tasks
<1>1. plan[t].q \in Queues /\ \A c \in Cpus : plan[t].q = On(c) => c \in Mask[t]
  BY DEF RunsOwn, TypeOK, OwnOK
<1>2. /\ dsq' \in [Queues -> Seq(Tasks)]
      /\ \A c \in Cpus : dsq'[On(c)] \in Seq(Allowed(c))
  BY <1>1, InsertStep DEF Joins
<1>3. NoPlan \in [q : Queues, missed : BOOLEAN, elig : BOOLEAN] /\ NoPlan.q = Machine
  BY QueueIds DEF NoPlan
<1>4. /\ plan' \in [Tasks -> [q : Queues, missed : BOOLEAN, elig : BOOLEAN]]
      /\ \A u \in Tasks : \A c \in Cpus : plan'[u].q = On(c) => c \in Mask[u]
  BY <1>3, QueueIds DEF Joins, RunsOwn, TypeOK, OwnOK
<1>5. kick' \in [Cpus -> BOOLEAN]
  <2>1. PICK k : kick' = [c \in Cpus |-> kick[c] \/ (c \in k \cup Rescheduled(t) /\ pc[c] # "run")]
    BY DEF Joins, Kick
  <2>2. \A c \in Cpus :
          (kick[c] \/ (c \in k \cup Rescheduled(t) /\ pc[c] # "run")) \in BOOLEAN
    BY DEF RunsOwn, TypeOK
  <2> QED BY <2>1, <2>2
<1>6. woken' \subseteq Tasks /\ state' \in [Tasks -> {"asleep", "waking", "requeue", "queued", "running"}]
  BY DEF Joins, RunsOwn, TypeOK
<1>7. OwnOK'
  BY <1>2, <1>4 DEF OwnOK, Allowed
<1> QED BY <1>2, <1>4, <1>5, <1>6, <1>7

LEMMA JoinStep ==
  ASSUME RunsOwn, NEW t \in Tasks, Join(t)
  PROVE  RunsOwn'
<1>1. Joins(t) /\ UNCHANGED <<pc, passVars>>
  BY DEF Join
<1>2. TypeOK'
  BY <1>1, JoinsStep DEF Joins, passVars, scanVars, RunsOwn, TypeOK
<1>3. OwnOK'
  BY <1>1, JoinsStep
<1>4. PhaseOK'
  BY <1>1 DEF Joins, passVars, scanVars, RunsOwn, PhaseOK
<1> QED BY <1>2, <1>3, <1>4 DEF RunsOwn

(* A reschedule keeps the tiers known.                                       *)
LEMMA StartStep ==
  ASSUME RunsOwn, NEW c \in Cpus, StartPass(c)
  PROVE  /\ tiers' \in [Cpus -> SUBSET (1 .. 4)]
         /\ kick' \in [Cpus -> BOOLEAN]
         /\ visits' \in [Cpus -> 0 .. MAX_VISIT]
         /\ pc' = [pc EXCEPT ![c] = "pass"]
<1>1. (IF ~Empty(On(c)) THEN {}
       ELSE IF {i \in 1 .. 3 : ~Empty(TierQ(c, i))} = {} THEN {4}
            ELSE {i \in 1 .. 3 : ~Empty(TierQ(c, i))}) \in SUBSET (1 .. 4)
  OBVIOUS
<1> QED BY <1>1, DispatchConsts DEF StartPass, Goto, RunsOwn, TypeOK

LEMMA SchedStep ==
  ASSUME RunsOwn, NEW c \in Cpus, Sched(c)
  PROVE  RunsOwn'
<1>1. TypeOK'
  BY StartStep DEF Sched, taskVars, scanVars, RunsOwn, TypeOK, PCs
<1>2. OwnOK'
  BY QuietStep DEF Sched, taskVars
<1>3. PhaseOK'
  BY StartStep DEF Sched, scanVars, RunsOwn, TypeOK, PhaseOK
<1> QED BY <1>1, <1>2, <1>3 DEF RunsOwn

(* A pass opens tiers only, and only with a slot to move into.               *)
LEMMA OpensTiers ==
  ASSUME RunsOwn, NEW c \in Cpus, NEW q \in Opens(c)
  PROVE  q \in Tiers /\ moved[c] < SLOTS
<1>0. /\ tiers[c] # {} /\ moved[c] < SLOTS
      /\ \/ Tier(c) < 4 /\ q = TierQ(c, Tier(c))
         \/ \E s \in Cpus : Full(c, s) # {} /\ q = Local(Victim(c, s))
  <2>1. tiers[c] # {} /\ Left(c)
    BY DEF Opens
  <2>2. q \in IF Tier(c) < 4 THEN {TierQ(c, Tier(c))}
              ELSE {Local(Victim(c, s)) : s \in {s \in Cpus : Full(c, s) # {}}}
    BY <2>1 DEF Opens
  <2> QED BY <2>1, <2>2 DEF Left
<1>1. CASE Tier(c) < 4 /\ q = TierQ(c, Tier(c))
  <2>1. tiers[c] \subseteq 1 .. 4 /\ tiers[c] \subseteq Nat
    <3>1. tiers \in [Cpus -> SUBSET (1 .. 4)]
      BY DEF RunsOwn, TypeOK
    <3>2. tiers[c] \in SUBSET (1 .. 4)
      BY <3>1
    <3> QED BY <3>2
  <2>2. Tier(c) \in tiers[c]
    BY <1>0, <2>1, Least DEF Tier
  <2>3. Tier(c) \in 1 .. 3
    BY <1>1, <2>1, <2>2
  <2>4. DrainNode(c) \in Tiers
    BY DispatchConsts, QueueIds DEF DrainNode, NodeOk
  <2> QED BY <1>0, <1>1, <2>3, <2>4, QueueIds DEF TierQ
<1>2. CASE \E s \in Cpus : Full(c, s) # {} /\ q = Local(Victim(c, s))
  <2>1. PICK s \in Cpus : Full(c, s) # {} /\ q = Local(Victim(c, s))
    BY <1>2
  <2> DEFINE I == IF Near(c, s) # {} THEN Near(c, s) ELSE Full(c, s)
  <2>2. I \subseteq Nat /\ I # {}
    BY <2>1 DEF Near, Full
  <2>3. Min(I) \in Nat
    BY <2>2, Least
  <2>4. Victim(c, s) \in Cpus
    <3>1. s \in Nat /\ N \in Nat /\ N > 0
      BY DispatchConsts DEF Cpus
    <3> HIDE DEF I
    <3>2. (s + Min(I)) % N \in 0 .. N - 1
      BY <2>3, <3>1
    <3> QED BY <3>2 DEF Victim, Cpus, I
  <2> QED BY <1>0, <2>1, <2>4, QueueIds
<1> QED BY <1>0, <1>1, <1>2

LEMMA OpenStep ==
  ASSUME RunsOwn, NEW c \in Cpus, Open(c)
  PROVE  RunsOwn'
<1>1. PICK q \in Opens(c) :
        /\ from' = [from EXCEPT ![c] = q]
        /\ todo' = [todo EXCEPT ![c] = dsq[q]]
        /\ seen' = [seen EXCEPT ![c] = Range(dsq[q])]
  BY DEF Open
<1>2. q \in Tiers /\ q \in Queues /\ moved[c] < SLOTS
  BY OpensTiers, QueueIds
<1>3. Range(dsq[q]) \in SUBSET Tasks
  BY <1>2 DEF RunsOwn, TypeOK, Range
<1>4. TypeOK'
  BY <1>1, <1>2, <1>3 DEF Open, Goto, taskVars, RunsOwn, TypeOK, PCs
<1>5. OwnOK'
  BY QuietStep DEF Open, taskVars
<1>6. PhaseOK'
  BY <1>1, <1>2 DEF Open, Goto, RunsOwn, TypeOK, PhaseOK
<1> QED BY <1>4, <1>5, <1>6 DEF RunsOwn

LEMMA VisitStep ==
  ASSUME RunsOwn, NEW c \in Cpus, Visit(c)
  PROVE  RunsOwn'
<1>1. Head(todo[c]) \in Tasks /\ Tail(todo[c]) \in Seq(Tasks)
  <2>1. todo[c] \in Seq(Tasks) /\ todo[c] # <<>>
    BY DEF Visit, RunsOwn, TypeOK
  <2> QED BY <2>1, HeadTailProperties
<1>2. visits[c] + 1 \in 0 .. MAX_VISIT
  <2>1. visits[c] \in 0 .. MAX_VISIT
    BY DEF RunsOwn, TypeOK
  <2> QED BY <2>1, DispatchConsts DEF Visit
<1>3. TypeOK'
  BY <1>1, <1>2 DEF Visit, Goto, taskVars, RunsOwn, TypeOK, PCs
<1>4. OwnOK'
  BY QuietStep DEF Visit, taskVars
<1>5. PhaseOK'
  BY DEF Visit, Goto, RunsOwn, TypeOK, PhaseOK
<1> QED BY <1>3, <1>4, <1>5 DEF RunsOwn

(* A tier that is done leaves the rest to the pass.                          *)
LEMMA CloseStep ==
  ASSUME RunsOwn, NEW c \in Cpus, Close(c)
  PROVE  /\ tiers' \in [Cpus -> SUBSET (1 .. 4)]
         /\ from' \in [Cpus -> Queues] /\ \A d \in Cpus : from'[d] \in Tiers
         /\ pc' = [pc EXCEPT ![c] = "pass"]
<1>1. tiers[c] \ {Tier(c)} \in SUBSET (1 .. 4)
  <2>1. tiers \in [Cpus -> SUBSET (1 .. 4)]
    BY DEF RunsOwn, TypeOK
  <2>2. tiers[c] \in SUBSET (1 .. 4)
    BY <2>1
  <2> QED BY <2>2
<1> QED BY <1>1, QueueIds DEF Close, Goto, RunsOwn, TypeOK, PhaseOK

LEMMA EndScanStep ==
  ASSUME RunsOwn, NEW c \in Cpus, EndScan(c)
  PROVE  RunsOwn'
<1>1. Close(c)
  BY DEF EndScan
<1>2. TypeOK'
  <2>1. todo' \in [Cpus -> Seq(Tasks)] /\ seen' \in [Cpus -> SUBSET Tasks]
    BY DEF EndScan, RunsOwn, TypeOK
  <2>2. pc' \in [Cpus -> PCs]
    BY <1>1, CloseStep DEF RunsOwn, TypeOK, PCs
  <2> QED BY <1>1, <2>1, <2>2, CloseStep DEF EndScan, taskVars, RunsOwn, TypeOK
<1>3. OwnOK'
  BY QuietStep DEF EndScan, taskVars
<1>4. PhaseOK'
  BY <1>1, CloseStep DEF EndScan, RunsOwn, TypeOK, PhaseOK
<1> QED BY <1>2, <1>3, <1>4 DEF RunsOwn

(* The one step that fills the queue of a CPU from a shared one: the test of *)
(* the mask keeps it own.                                                    *)
LEMMA MoveStep ==
  ASSUME RunsOwn, NEW c \in Cpus, Move(c)
  PROVE  RunsOwn'
<1>1. cand[c] \in Allowed(c) /\ cand[c] \in Tasks
  BY DEF Move, Movable, Allowed, RunsOwn, TypeOK
<1>2. from[c] \in Tiers /\ from[c] \in Queues /\ \A d \in Cpus : from[c] # On(d)
  BY QueueIds DEF RunsOwn, TypeOK, PhaseOK
<1> DEFINE rest == Without(dsq[from[c]], cand[c])
           next == Append(dsq[On(c)], cand[c])
<1>3. dsq' = [dsq EXCEPT ![from[c]] = rest, ![On(c)] = next]
  BY <1>2 DEF Move, RunsOwn, TypeOK
<1>4. rest \in Seq(Tasks) /\ next \in Seq(Tasks)
  <2>1. dsq[from[c]] \in Seq(Tasks) /\ dsq[On(c)] \in Seq(Tasks)
    BY <1>2, QueueIds DEF RunsOwn, TypeOK
  <2> QED BY <1>1, <2>1, WithoutType, AppendProperties
<1>5. \A d \in Cpus : dsq'[On(d)] \in Seq(Allowed(d))
  <2> SUFFICES ASSUME NEW d \in Cpus PROVE dsq'[On(d)] \in Seq(Allowed(d))
    OBVIOUS
  <2>1. dsq[On(d)] \in Seq(Allowed(d)) /\ DOMAIN dsq = Queues
    BY DEF RunsOwn, OwnOK, TypeOK
  <2> HIDE DEF rest, next
  <2>2. CASE d = c
    <3>1. dsq'[On(c)] = next
      BY <1>3, <2>1, QueueIds
    <3> QED BY <1>1, <2>1, <2>2, <3>1, AppendProperties DEF next
  <2>3. CASE d # c
    <3>1. dsq'[On(d)] = dsq[On(d)]
      BY <1>2, <1>3, <2>1, <2>3, QueueIds
    <3> QED BY <2>1, <3>1
  <2> QED BY <2>2, <2>3
<1>6. TypeOK'
  <2> HIDE DEF rest, next
  <2>1. dsq' \in [Queues -> Seq(Tasks)]
    BY <1>3, <1>4 DEF RunsOwn, TypeOK
  <2>2. Close(c) /\ Forget(c, cand[c])
    BY DEF Move
  <2>3. todo' \in [Cpus -> Seq(Tasks)]
    <3>1. \A d \in Cpus : Without(todo[d], cand[c]) \in Seq(Tasks)
      BY WithoutType DEF RunsOwn, TypeOK
    <3>2. <<>> \in Seq(Tasks)
      OBVIOUS
    <3> QED BY <2>2, <3>1, <3>2 DEF Forget
  <2>4. seen' \in [Cpus -> SUBSET Tasks] /\ cand' \in [Cpus -> Tasks \cup {None}]
    BY <2>2 DEF Forget, RunsOwn, TypeOK
  <2>5. moved' \in [Cpus -> 0 .. SLOTS]
    <3>1. moved[c] \in 0 .. SLOTS /\ moved[c] < SLOTS
      BY DEF Move, RunsOwn, TypeOK, PhaseOK
    <3>2. moved[c] + 1 \in 0 .. SLOTS
      BY <3>1, DispatchConsts
    <3> QED BY <3>2 DEF Move, RunsOwn, TypeOK
  <2>6. pc' \in [Cpus -> PCs]
    BY <2>2, CloseStep DEF RunsOwn, TypeOK, PCs
  <2> QED BY <2>1, <2>2, <2>3, <2>4, <2>5, <2>6, CloseStep DEF Move, taskVars, RunsOwn, TypeOK
<1>7. OwnOK'
  BY <1>5 DEF Move, taskVars, RunsOwn, OwnOK, Allowed
<1>8. PhaseOK'
  <2>1. Close(c) /\ Forget(c, cand[c])
    BY DEF Move
  <2>2. pc' = [pc EXCEPT ![c] = "pass"] /\ \A d \in Cpus : from'[d] \in Tiers
    BY <2>1, CloseStep
  <2>3. \A d \in Cpus : d # c => pc'[d] = pc[d] /\ moved'[d] = moved[d] /\ curr'[d] = curr[d]
    BY <2>2 DEF Move, RunsOwn, TypeOK
  <2>4. \A d \in Cpus : d # c /\ pc[d] = "put" => cand'[d] = cand[d]
    BY <2>1 DEF Forget
  <2>5. pc'[c] = "pass"
    BY <2>2 DEF RunsOwn, TypeOK
  <2> QED BY <2>2, <2>3, <2>4, <2>5 DEF RunsOwn, PhaseOK
<1> QED BY <1>6, <1>7, <1>8 DEF RunsOwn

LEMMA PassStep ==
  ASSUME RunsOwn, NEW c \in Cpus, Pass(c)
  PROVE  RunsOwn'
<1>1. TypeOK'
  BY DEF Pass, Goto, taskVars, scanVars, RunsOwn, TypeOK, PCs
<1>2. OwnOK'
  BY QuietStep DEF Pass, taskVars
<1>3. PhaseOK'
  BY DEF Pass, Goto, scanVars, RunsOwn, TypeOK, PhaseOK
<1> QED BY <1>1, <1>2, <1>3 DEF RunsOwn

(* A pass that ends forgets its tiers and its counts.                        *)
LEMMA EndPassStep ==
  ASSUME RunsOwn, NEW c \in Cpus, EndPass(c)
  PROVE  /\ tiers' \in [Cpus -> SUBSET (1 .. 4)]
         /\ visits' \in [Cpus -> 0 .. MAX_VISIT]
         /\ moved' = [moved EXCEPT ![c] = 0] /\ moved' \in [Cpus -> 0 .. SLOTS]
BY DispatchConsts DEF EndPass, RunsOwn, TypeOK

LEMMA PutStep ==
  ASSUME RunsOwn, NEW c \in Cpus, Put(c)
  PROVE  RunsOwn'
<1> DEFINE t == curr[c]
           s == sel[t]
           m == Larger(minv[c], Served(t))
           min == IF s = c THEN m ELSE minv[s]
           v == Clamped(Served(t), min)
<1>1. /\ EndPass(c)
      /\ vr' = [vr EXCEPT ![t] = v] /\ minv' = [minv EXCEPT ![c] = m]
      /\ curr' = [curr EXCEPT ![c] = None]
      /\ state' = [state EXCEPT ![t] = "requeue"]
      /\ cand' = [cand EXCEPT ![c] = t]
      /\ pc' = [pc EXCEPT ![c] = "put"]
      /\ \E p \in Plans(t, s, Eligible(v, min), s = c \/ curr[s] = None) :
           plan' = [plan EXCEPT ![t] = p]
  BY DEF Put, Goto
<1>2. t \in Tasks
  BY DEF Put, RunsOwn, TypeOK
<1>3. s \in Mask[t] /\ s \in Cpus
  BY <1>2 DEF RunsOwn, TypeOK
<1>4. Served(t) \in 0 .. VMAX
  BY <1>2, ServedType DEF RunsOwn
<1>5. m \in 0 .. VMAX
  BY <1>4, TimeTypes DEF RunsOwn, TypeOK
<1>6. min \in 0 .. VMAX
  BY <1>3, <1>5 DEF RunsOwn, TypeOK
<1>7. v \in 0 .. VMAX
  BY <1>4, <1>6, TimeTypes
<1> HIDE DEF v, min, m, s, t
<1>8. Eligible(v, min) \in BOOLEAN /\ (s = c \/ curr[s] = None) \in BOOLEAN
  BY DEF Eligible
<1>9. /\ plan' \in [Tasks -> [q : Queues, missed : BOOLEAN, elig : BOOLEAN]]
      /\ \A u \in Tasks : \A d \in Cpus : plan'[u].q = On(d) => d \in Mask[u]
  BY <1>1, <1>2, <1>3, <1>8, PlanStep
<1>10. TypeOK'
  <2>1. vr' \in [Tasks -> 0 .. VMAX] /\ minv' \in [Cpus -> 0 .. VMAX]
    BY <1>1, <1>5, <1>7 DEF RunsOwn, TypeOK
  <2>2. /\ curr' \in [Cpus -> Tasks \cup {None}] /\ cand' \in [Cpus -> Tasks \cup {None}]
        /\ pc' \in [Cpus -> PCs]
        /\ state' \in [Tasks -> {"asleep", "waking", "requeue", "queued", "running"}]
    BY <1>1, <1>2 DEF RunsOwn, TypeOK, PCs
  <2> QED BY <1>1, <1>9, <2>1, <2>2, EndPassStep DEF Put, scanVars, RunsOwn, TypeOK
<1>11. OwnOK'
  BY <1>9 DEF Put, RunsOwn, OwnOK, Allowed
<1>12. PhaseOK'
  <2>1. pc'[c] = "put" /\ cand'[c] \in Tasks
    BY <1>1, <1>2 DEF RunsOwn, TypeOK
  <2>2. /\ pc' = [pc EXCEPT ![c] = "put"] /\ cand' = [cand EXCEPT ![c] = t]
        /\ curr' = [curr EXCEPT ![c] = None] /\ moved' = [moved EXCEPT ![c] = 0]
    BY <1>1, EndPassStep
  <2>3. /\ pc \in [Cpus -> PCs] /\ cand \in [Cpus -> Tasks \cup {None}]
        /\ curr \in [Cpus -> Tasks \cup {None}] /\ moved \in [Cpus -> 0 .. SLOTS]
    BY DEF RunsOwn, TypeOK
  <2>4. \A d \in Cpus : d # c => /\ pc'[d] = pc[d] /\ cand'[d] = cand[d]
                                 /\ curr'[d] = curr[d] /\ moved'[d] = moved[d]
    BY <2>2, <2>3
  <2>5. UNCHANGED from
    BY DEF Put, scanVars
  <2> QED BY <2>1, <2>4, <2>5 DEF RunsOwn, PhaseOK
<1> QED BY <1>10, <1>11, <1>12 DEF RunsOwn

LEMMA PutJoinStep ==
  ASSUME RunsOwn, NEW c \in Cpus, PutJoin(c)
  PROVE  RunsOwn'
<1>1. cand[c] \in Tasks /\ Joins(cand[c])
  BY DEF PutJoin, RunsOwn, PhaseOK
<1>2. pc' \in [Cpus -> PCs] /\ cand' \in [Cpus -> Tasks \cup {None}]
  BY DEF PutJoin, Goto, RunsOwn, TypeOK, PCs
<1>3. TypeOK'
  BY <1>1, <1>2, JoinsStep DEF PutJoin, Joins, scanVars, RunsOwn, TypeOK
<1>4. OwnOK'
  BY <1>1, JoinsStep
<1>5. PhaseOK'
  <2>1. pc'[c] \in {"idle", "pass"}
    BY DEF PutJoin, Goto, RunsOwn, TypeOK
  <2>2. \A d \in Cpus : d # c => pc'[d] = pc[d] /\ cand'[d] = cand[d]
    BY DEF PutJoin, Goto, RunsOwn, TypeOK
  <2>3. UNCHANGED <<moved, from, curr>>
    BY <1>1 DEF PutJoin, Joins, scanVars
  <2> QED BY <2>1, <2>2, <2>3 DEF RunsOwn, PhaseOK
<1> QED BY <1>3, <1>4, <1>5 DEF RunsOwn

LEMMA PickStep ==
  ASSUME RunsOwn, NEW c \in Cpus, Pick(c)
  PROVE  RunsOwn'
<1>1. EndPass(c) /\ UNCHANGED <<plan, sel, vr, minv, scanVars, cand>>
  BY DEF Pick
<1>2. CASE Empty(On(c))
  <2>1. pc' = [pc EXCEPT ![c] = "idle"] /\ UNCHANGED <<dsq, curr, state, kick, woken>>
    BY <1>2 DEF Pick, Goto
  <2>2. TypeOK'
    BY <1>1, <2>1, EndPassStep DEF scanVars, RunsOwn, TypeOK, PCs
  <2>3. OwnOK'
    BY <1>1, <2>1, QuietStep
  <2>4. PhaseOK'
    BY <1>1, <2>1, EndPassStep DEF scanVars, RunsOwn, TypeOK, PhaseOK
  <2> QED BY <2>2, <2>3, <2>4 DEF RunsOwn
<1>3. CASE ~Empty(On(c))
  <2> DEFINE h == Head(dsq[On(c)])
             tl == Tail(dsq[On(c)])
  <2>1. /\ curr' = [curr EXCEPT ![c] = h] /\ state' = [state EXCEPT ![h] = "running"]
        /\ dsq' = [dsq EXCEPT ![On(c)] = tl] /\ kick' = [kick EXCEPT ![c] = FALSE]
        /\ woken' = woken \ {h} /\ pc' = [pc EXCEPT ![c] = "run"]
    BY <1>3 DEF Pick, Goto
  <2>2. /\ h \in Tasks /\ tl \in Seq(Tasks) /\ tl \in Seq(Allowed(c))
    <3>1. dsq[On(c)] \in Seq(Tasks) /\ dsq[On(c)] \in Seq(Allowed(c)) /\ dsq[On(c)] # <<>>
      BY <1>3, QueueIds DEF Empty, RunsOwn, TypeOK, OwnOK
    <3> QED BY <3>1, HeadTailProperties
  <2> HIDE DEF h, tl
  <2>3. TypeOK'
    <3>1. /\ dsq' \in [Queues -> Seq(Tasks)] /\ curr' \in [Cpus -> Tasks \cup {None}]
          /\ state' \in [Tasks -> {"asleep", "waking", "requeue", "queued", "running"}]
          /\ kick' \in [Cpus -> BOOLEAN] /\ woken' \subseteq Tasks /\ pc' \in [Cpus -> PCs]
      BY <2>1, <2>2 DEF RunsOwn, TypeOK, PCs
    <3> QED BY <1>1, <3>1, EndPassStep DEF scanVars, RunsOwn, TypeOK
  <2>4. OwnOK'
    <3>1. \A d \in Cpus : dsq'[On(d)] = IF d = c THEN tl ELSE dsq[On(d)]
      BY <2>1, QueueIds DEF RunsOwn, TypeOK
    <3> QED BY <1>1, <2>2, <3>1 DEF RunsOwn, OwnOK, Allowed
  <2>5. PhaseOK'
    BY <1>1, <2>1, <2>2, EndPassStep DEF scanVars, RunsOwn, TypeOK, PhaseOK
  <2> QED BY <2>3, <2>4, <2>5 DEF RunsOwn
<1> QED BY <1>2, <1>3

LEMMA BlockStep ==
  ASSUME RunsOwn, NEW c \in Cpus, Block(c)
  PROVE  RunsOwn'
<1>1. /\ Charge(c, curr[c]) /\ StartPass(c) /\ curr[c] \in Tasks
      /\ state' = [state EXCEPT ![curr[c]] = "asleep"]
      /\ sel' = [sel EXCEPT ![curr[c]] = FirstAllowed(curr[c])]
      /\ UNCHANGED <<dsq, plan, scanVars, cand, moved, woken>>
  BY DEF Block, RunsOwn, PhaseOK
<1>2. FirstAllowed(curr[c]) \in Mask[curr[c]] /\ FirstAllowed(curr[c]) \in Cpus
  BY <1>1, FirstIsAllowed
<1>3. /\ vr' \in [Tasks -> 0 .. VMAX] /\ minv' \in [Cpus -> 0 .. VMAX]
      /\ curr' = [curr EXCEPT ![c] = None]
  <2>1. Served(curr[c]) \in 0 .. VMAX
    BY <1>1, ServedType DEF RunsOwn
  <2>2. Larger(minv[c], Served(curr[c])) \in 0 .. VMAX
    BY <2>1, TimeTypes DEF RunsOwn, TypeOK
  <2> QED BY <1>1, <2>1, <2>2 DEF Charge, RunsOwn, TypeOK
<1>4. TypeOK'
  <2>1. sel' \in [Tasks -> Cpus] /\ \A t \in Tasks : sel'[t] \in Mask[t]
    BY <1>1, <1>2 DEF RunsOwn, TypeOK
  <2>2. state' \in [Tasks -> {"asleep", "waking", "requeue", "queued", "running"}]
    BY <1>1 DEF RunsOwn, TypeOK
  <2>3. curr' \in [Cpus -> Tasks \cup {None}] /\ pc' \in [Cpus -> PCs]
    BY <1>1, <1>3, StartStep DEF RunsOwn, TypeOK, PCs
  <2> QED BY <1>1, <1>3, <2>1, <2>2, <2>3, StartStep DEF scanVars, RunsOwn, TypeOK
<1>5. OwnOK'
  BY <1>1, QuietStep
<1>6. PhaseOK'
  <2>1. pc'[c] = "pass"
    BY <1>1, StartStep DEF RunsOwn, TypeOK
  <2>2. \A d \in Cpus : d # c => pc'[d] = pc[d] /\ curr'[d] = curr[d]
    BY <1>1, <1>3, StartStep DEF RunsOwn, TypeOK
  <2>3. UNCHANGED <<cand, moved, from>>
    BY <1>1 DEF scanVars
  <2> QED BY <2>1, <2>2, <2>3 DEF RunsOwn, PhaseOK
<1> QED BY <1>4, <1>5, <1>6 DEF RunsOwn

LEMMA NextRunsOwn == RunsOwn /\ [Next]_vars => RunsOwn'
<1> SUFFICES ASSUME RunsOwn, [Next]_vars PROVE RunsOwn'
  OBVIOUS
<1>1. CASE \E t \in Tasks : Wake(t) \/ Join(t)
  BY <1>1, WakeStep, JoinStep
<1>2. CASE \E c \in Cpus : Runs(c) \/ Block(c)
  BY <1>2, SchedStep, OpenStep, VisitStep, EndScanStep, MoveStep, PassStep,
     PutStep, PutJoinStep, PickStep, BlockStep DEF Runs
<1>3. CASE UNCHANGED vars
  BY <1>3 DEF vars, taskVars, passVars, scanVars, RunsOwn, TypeOK, OwnOK, PhaseOK, Allowed
<1> QED BY <1>1, <1>2, <1>3 DEF Next

LEMMA AlwaysRunsOwn == Spec => []RunsOwn
<1>1. Init => RunsOwn
  BY InitRunsOwn
<1>2. RunsOwn /\ [Next]_vars => RunsOwn'
  BY NextRunsOwn
<1> QED BY <1>1, <1>2, PTL DEF Spec

------------------------------------------------------------------------------
(* Theorems                                                                  *)

(* Queues hold tasks, targets and plans stay in the masks and the visits and *)
(* moves of a pass in their limits, for any number of tasks and CPUs.        *)
THEOREM TypeCorrect == Spec => []TypeOK
<1>1. RunsOwn => TypeOK
  BY DEF RunsOwn
<1> QED BY <1>1, AlwaysRunsOwn, PTL

(* The queue a CPU runs from only holds tasks its mask test let through,     *)
(* although node, machine and stolen queues mix them.                        *)
THEOREM MasksHold == Spec => []MaskHolds
<1>1. RunsOwn => MaskHolds
  <2> SUFFICES ASSUME RunsOwn, NEW c \in Cpus, NEW t \in Range(dsq[On(c)])
               PROVE  c \in Mask[t]
    BY DEF MaskHolds
  <2>1. dsq[On(c)] \in Seq(Allowed(c))
    BY DEF RunsOwn, OwnOK
  <2>2. PICK i \in DOMAIN dsq[On(c)] : t = dsq[On(c)][i]
    BY DEF Range
  <2>3. t \in Allowed(c)
    BY <2>1, <2>2
  <2> QED BY <2>3 DEF Allowed
<1> QED BY <1>1, AlwaysRunsOwn, PTL
=============================================================================
