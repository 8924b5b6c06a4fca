------------------------------- MODULE FlowScan -------------------------------
(***************************************************************************)
(* The scans of flow that start at the cursor of a CPU: flow_select_cpu,   *)
(* which looks for a CPU that drains before the deadline of a waking task, *)
(* and flow_steal_one, which looks for local work of a peer.               *)
(*                                                                         *)
(* Every access to a cursor is from its own CPU: a wake-up is placed on the *)
(* CPU of the waker with interrupts off, and a CPU steals in its own pass. *)
(* Between the test of the previous CPU and the scan other CPUs go on.  One *)
(* scan reads all depths and minima at once.                               *)
(*                                                                         *)
(* Capacity units are one value: flow_init seeds every row with the base   *)
(* and nothing writes it later.  Depths count quanta; a slack is the number *)
(* of whole quanta to the deadline, negative once it passed, and the       *)
(* largest one also stands for deadline zero, which every CPU meets.       *)
(* Nodes are live.  The queues are ordered by free keys, since who is first *)
(* there is the business of FlowDispatch.                                  *)
(***************************************************************************)
EXTENDS Integers, FiniteSets, SequencesExt

CONSTANTS
  Tasks,
  None,          (* no task, no wake-up                                    *)
  N,             (* nr_cpu_ids                                             *)
  Mask,          (* cpus_ptr of every task                                 *)
  Node,          (* node of every CPU                                      *)
  Scanners,      (* bound: the CPUs whose wake-ups and steals are followed *)
  MAX_VISIT,     (* FLOW_DISPATCH_MAX_VISIT, the SSF window                *)
  BSF_MAX,       (* FLOW_BSF_MAX_PEERS                                     *)
  STEAL_MIN,     (* FLOW_STEAL_MIN_PEERS, FLOW_STEAL_MAX_PEERS             *)
  STEAL_MAX,
  VMAX           (* bound: where a minimum saturates                       *)

Cpus == 0 .. N - 1

ASSUME ScanConsts ==
  /\ N \in Nat /\ N >= 2
  /\ IsFiniteSet(Tasks) /\ None \notin Tasks
  /\ Mask \in [Tasks -> (SUBSET Cpus) \ {{}}]
  /\ Node \in [Cpus -> Nat]
  /\ Scanners \subseteq Cpus
  /\ MAX_VISIT \in Nat /\ BSF_MAX \in Nat /\ VMAX \in Nat
  /\ STEAL_MIN \in Nat /\ STEAL_MAX \in Nat
  /\ 2 <= STEAL_MIN /\ STEAL_MIN <= STEAL_MAX /\ STEAL_MIN <= MAX_VISIT

VARIABLES
  state,         (* asleep, picking, local, node or running                *)
  at,            (* the previous CPU of a sleeper, else selected_cpu       *)
  curr,          (* the flow task on every CPU                             *)
  minv,          (* min_vruntime of every CPU                              *)
  cursor,
  ask,           (* the wake-up a CPU is placing                           *)
  skipped        (* history: the successive moves of a cursor whose window *)
                 (* left a CPU out                                         *)

vars == <<state, at, curr, minv, cursor, ask, skipped>>

NoCpu == N
Slacks == -1 .. Cardinality(Tasks)
Asks == {None} \cup [task : Tasks, slack : Slacks]

TypeOK ==
  /\ state \in [Tasks -> {"asleep", "picking", "local", "node", "running"}]
  /\ at \in [Tasks -> Cpus]
  /\ curr \in [Cpus -> Tasks \cup {None}]
  /\ minv \in [Cpus -> 0 .. VMAX]
  /\ cursor \in [Scanners -> Cpus]
  /\ ask \in [Scanners -> Asks]
  /\ skipped \in [Scanners -> [Cpus -> Nat]]
  (* A task runs on one CPU that its mask allows, and waits where it may.  *)
  /\ \A c \in Cpus : curr[c] # None => state[curr[c]] = "running" /\ c \in Mask[curr[c]]
  /\ \A c, d \in Cpus : curr[c] = curr[d] => c = d \/ curr[c] = None
  /\ \A t \in Tasks : state[t] \in {"local", "node"} => at[t] \in Mask[t]

(* A sleeper may come from a CPU its mask has lost since.                   *)
Init ==
  /\ state = [t \in Tasks |-> "asleep"]
  /\ at \in [Tasks -> Cpus]
  /\ curr = [c \in Cpus |-> None]
  /\ minv = [c \in Cpus |-> 0]
  /\ cursor = [c \in Scanners |-> c]
  /\ ask = [c \in Scanners |-> None]
  /\ skipped = [c \in Scanners |-> [p \in Cpus |-> 0]]

Lesser(a, b) == IF a < b THEN a ELSE b

Local(c) == {t \in Tasks : state[t] = "local" /\ at[t] = c}
OnNode(n) == {t \in Tasks : state[t] = "node" /\ Node[at[t]] = n}

(* flow_cpu_drain in quanta, and flow_cpu_meets.                            *)
Drain(c) == Cardinality(Local(c)) + Cardinality(OnNode(Node[c]))
Meets(c, slack) == Drain(c) <= slack

(* A CPU inside a select runs nothing else.                                 *)
Free(c) == c \in Scanners => ask[c] = None

------------------------------------------------------------------------------
(* Windows                                                                   *)

Start(cu) == (cu + 1) % N
(* Mutant of Peers: the window starts at the cursor.                        *)
PeersEarly(start, width) == [i \in 1 .. Lesser(width, N) |-> (start + i + N - 2) % N]

(* The peers a loop of width steps visits, in its order.                    *)
Peers(start, width) == [i \in 1 .. Lesser(width, N) |-> (start + i - 1) % N]
Window(cu, width) == {(Start(cu) + i) % N : i \in 0 .. Lesser(width, N) - 1}

(* Mutant of NextStart: the cursor moves past a whole window.               *)
NextStartWindow(cu) == (cu + MAX_VISIT) % N

(* Select and steal both advance by two.                                    *)
NextStart(cu) == (cu + 2) % N

(* A scan that found its CPU moves the cursor; one that did not leaves it.  *)
Advance(c, width) ==
  /\ cursor' = [cursor EXCEPT ![c] = NextStart(@)]
  /\ skipped' = [skipped EXCEPT ![c] =
       [p \in Cpus |-> IF p \in Window(cursor[c], width) THEN 0 ELSE @[p] + 1]]

------------------------------------------------------------------------------
(* flow_select_cpu                                                           *)

Fits(t, w, slack, p) == p # w /\ p \in Mask[t] /\ Meets(p, slack)

(* A tie goes to the previous CPU, then to the lower id.                    *)
WinsTie(p, b, prev) == (p = prev /\ b # prev) \/ ((p = prev <=> b = prev) /\ p < b)

LowerMin(p, b, prev) == minv[p] < minv[b] \/ (minv[p] = minv[b] /\ WinsTie(p, b, prev))

(* Mutant of SlowBeats: a remote peer with a lower minimum beats a local one*)
SlowBeatsAnywhere(p, b, w, prev) == LowerMin(p, b, prev)

(* flow_ssf_step: a peer of the waker's node beats any other.               *)
SlowBeats(p, b, w, prev) ==
  \/ Node[p] = Node[w] /\ Node[b] # Node[w]
  \/ (Node[p] = Node[w] <=> Node[b] = Node[w]) /\ LowerMin(p, b, prev)

(* A scan keeps the best so far of the peers that fit.                      *)
Winner(peers, fits, beats) ==
  LET best[i \in 0 .. Len(peers)] ==
        IF i = 0 THEN NoCpu
        ELSE LET sofar == best[i - 1]
                 peer == peers[i]
             IN  IF peer \in fits /\ (sofar = NoCpu \/ <<peer, sofar>> \in beats)
                 THEN peer ELSE sofar
  IN  best[Len(peers)]

Fitting(t, w, slack) == {p \in Cpus : Fits(t, w, slack, p)}

SsfPick(t, w, slack, prev) ==
  Winner(Peers(Start(cursor[w]), MAX_VISIT), Fitting(t, w, slack),
         {x \in Cpus \X Cpus : SlowBeats(x[1], x[2], w, prev)})

(* flow_bsf_step: the smaller drain, then the lower minimum.                *)
BestBeats(p, b, prev) ==
  Drain(p) < Drain(b) \/ (Drain(p) = Drain(b) /\ LowerMin(p, b, prev))

(* The window of the fallback follows that of the first scan.               *)
BsfPick(t, w, slack, prev) ==
  Winner(Peers((Start(cursor[w]) + MAX_VISIT) % N, BSF_MAX), Fitting(t, w, slack),
         {x \in Cpus \X Cpus : BestBeats(x[1], x[2], prev)})

FirstAllowed(t) == CHOOSE c \in Mask[t] : \A d \in Mask[t] : c <= d
Fallback(t) == IF at[t] \in Mask[t] THEN at[t] ELSE FirstAllowed(t)

(* The target takes the task at once when it runs no flow task, or queues it*)
(* on its local or its node queue: what the enqueue decides is FlowDispatch.*)
Land(t, c) ==
  /\ at' = [at EXCEPT ![t] = c]
  /\ \/ state' = [state EXCEPT ![t] = "local"] /\ UNCHANGED curr
     \/ state' = [state EXCEPT ![t] = "node"] /\ UNCHANGED curr
     \/ /\ curr[c] = None /\ Free(c)
        /\ state' = [state EXCEPT ![t] = "running"]
        /\ curr' = [curr EXCEPT ![c] = t]

(* The kernel pick of an idle CPU.  It may miss one whose idle bit an       *)
(* earlier pick took.                                                       *)
Idle(c) == curr[c] = None /\ Local(c) = {} /\ Free(c)

(* A single allowed CPU answers itself, then the waker when no flow task    *)
(* runs there, then an idle CPU of the kernel.                              *)
WakeIdle(w, t) ==
  /\ Free(w) /\ state[t] = "asleep"
  /\ \E c \in Mask[t] :
       /\ \/ Cardinality(Mask[t]) = 1
          \/ c = w /\ curr[w] = None
          \/ Idle(c) /\ ~(w \in Mask[t] /\ curr[w] = None)
       /\ Land(t, c)
  /\ UNCHANGED <<minv, cursor, ask, skipped>>

(* The waker is busy and no idle CPU came up.  The previous CPU answers when*)
(* it meets the deadline, else the scan begins.                             *)
WakeStay(w, t) ==
  /\ Free(w) /\ state[t] = "asleep" /\ Cardinality(Mask[t]) > 1
  /\ ~(w \in Mask[t] /\ curr[w] = None)
  /\ \E slack \in Slacks :
       IF at[t] \in Mask[t] /\ Meets(at[t], slack)
       THEN Land(t, at[t]) /\ UNCHANGED ask
       ELSE /\ ask' = [ask EXCEPT ![w] = [task |-> t, slack |-> slack]]
            /\ state' = [state EXCEPT ![t] = "picking"]
            /\ UNCHANGED <<at, curr>>
  /\ UNCHANGED <<minv, cursor, skipped>>

(* flow_select_best and the fallback of flow_select_scan.                   *)
Scan(w) ==
  /\ ask[w] # None
  /\ LET t == ask[w].task
         ssf == SsfPick(t, w, ask[w].slack, at[t])
         bsf == BsfPick(t, w, ask[w].slack, at[t])
     IN  IF ssf = NoCpu /\ bsf = NoCpu
         THEN Land(t, Fallback(t)) /\ UNCHANGED <<cursor, skipped>>
         ELSE Land(t, IF ssf # NoCpu THEN ssf ELSE bsf) /\ Advance(w, MAX_VISIT)
  /\ ask' = [ask EXCEPT ![w] = None]
  /\ UNCHANGED minv

------------------------------------------------------------------------------
(* The pass of a CPU                                                         *)

Backlog(c) == Local(c) \cup OnNode(Node[c])

(* flow_steal_one: an idle thief looks at a wide window, a busy one at the  *)
(* narrow one.  No visit was spent before, as no tier held work.            *)
Width(c) ==
  IF curr[c] = None THEN Lesser(STEAL_MIN + MAX_VISIT \div 2, STEAL_MAX) ELSE STEAL_MIN

(* The first peer of the own node with local work, else the first other one.*)
Victims(c) ==
  LET full == SelectSeq(Peers(Start(cursor[c]), Width(c)),
                        LAMBDA p : p # c /\ Local(p) # {})
  IN  SelectSeq(full, LAMBDA p : Node[p] = Node[c]) \o full

(* Mutant of Stealable: the mask is not tested.                             *)
StealableAny(c) ==
  IF Backlog(c) = {} /\ Victims(c) # <<>> THEN Local(Head(Victims(c))) ELSE {}

Stealable(c) ==
  IF Backlog(c) = {} /\ Victims(c) # <<>>
  THEN {t \in Local(Head(Victims(c))) : c \in Mask[t]} ELSE {}

(* The minimum of a CPU follows the task that ran there.                    *)
Served(c) == \E v \in minv[c] .. VMAX : minv' = [minv EXCEPT ![c] = v]

(* CPU c goes on with t; the task that was there queues at its selected CPU.*)
Switch(c, t) ==
  /\ curr' = [curr EXCEPT ![c] = t]
  /\ \E q \in {"local", "node"} :
       state' = [u \in Tasks |-> IF u = t THEN "running"
                                 ELSE IF u = curr[c] THEN q ELSE state[u]]
  /\ IF curr[c] = None THEN UNCHANGED minv ELSE Served(c)
  /\ UNCHANGED <<at, ask>>

(* One pass of an idle CPU, or of one whose slice ended.                    *)
Take(c) ==
  /\ Free(c)
  /\ \E t \in Backlog(c) : c \in Mask[t] /\ Switch(c, t)
  /\ UNCHANGED <<cursor, skipped>>

Steal(c) ==
  /\ Free(c)
  /\ \E t \in Stealable(c) : Switch(c, t)
  /\ Advance(c, Width(c))

Block(c) ==
  /\ Free(c) /\ curr[c] # None
  /\ state' = [state EXCEPT ![curr[c]] = "asleep"]
  /\ at' = [at EXCEPT ![curr[c]] = c]
  /\ curr' = [curr EXCEPT ![c] = None]
  /\ Served(c)
  /\ UNCHANGED <<cursor, ask, skipped>>

Next ==
  \/ \E w \in Scanners : \/ \E t \in Tasks : WakeIdle(w, t) \/ WakeStay(w, t)
                         \/ Scan(w) \/ Steal(w)
  \/ \E c \in Cpus : Take(c) \/ Block(c)

Spec == Init /\ [][Next]_vars

(* A select ends, and every CPU that can find work in a pass makes it.      *)
FairSpec ==
  /\ Spec
  /\ \A c \in Scanners : WF_vars(Scan(c)) /\ WF_vars(Steal(c))
  /\ \A c \in Cpus : WF_vars(Take(c))

------------------------------------------------------------------------------
(* Properties                                                                *)

(* The allowed CPUs at a distance of lo to hi from the cursor that meet the *)
(* deadline, the waker aside.                                               *)
Candidates(w, lo, hi) ==
  {p \in Cpus : /\ Fits(ask[w].task, w, ask[w].slack, p)
                /\ \E k \in lo .. hi : (cursor[w] + k - p) % N = 0}

Least(S, f(_)) == {p \in S : \A q \in S : f(p) <= f(q)}

(* Of equals the previous CPU, else the lowest id.                          *)
Settled(S, prev) == IF prev \in S THEN prev ELSE CHOOSE p \in S : \A q \in S : p <= q

(* What scan.bpf.c:6-16 promises of a scan: among the first eight peers one *)
(* of the waker's node if any, of lowest minimum; failing all eight, the    *)
(* smallest drain and then the lowest minimum of the next four; failing     *)
(* these the previous or the first allowed CPU.                             *)
BestOf(w) ==
  LET t    == ask[w].task
      slow == Candidates(w, 1, MAX_VISIT)
      near == {p \in slow : Node[p] = Node[w]}
      best == Candidates(w, MAX_VISIT + 1, MAX_VISIT + BSF_MAX)
      Low(p) == minv[p]
  IN  IF slow # {} THEN Settled(Least(IF near # {} THEN near ELSE slow, Low), at[t])
      ELSE IF best # {} THEN Settled(Least(Least(best, Drain), Low), at[t])
      ELSE Fallback(t)

PicksBest ==
  [][\A w \in Scanners :
       ask[w] # None /\ ask'[w] = None => at'[ask[w].task] = BestOf(w)]_vars

(* The moving cursor leaves nobody out for long: however wake-ups and steals*)
(* of a CPU alternate, the narrowest window comes to every CPU within one   *)
(* lap at stride two (scan.bpf.c:16-19, dispatch.bpf.c:541-551).            *)
NeverPassedOver ==
  \A w \in Scanners : \A p \in Cpus :
    skipped[w][p] = 0 \/ 2 * skipped[w][p] <= N - STEAL_MIN + 1

(* What task_placement.bpf.c:18-19 says, and intf.h:160-162: large hosts    *)
(* steal across many passes and still find work.  An idle CPU does not sit  *)
(* beside local work it may run for ever, provided it keeps passing.        *)
Starved(c) ==
  /\ curr[c] = None /\ Free(c)
  /\ \E t \in Tasks : state[t] = "local" /\ c \in Mask[t]

StealReaches == \A c \in Scanners : []<>~Starved(c)
=============================================================================
