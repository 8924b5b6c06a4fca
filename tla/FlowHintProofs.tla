---------------------------- MODULE FlowHintProofs ----------------------------
(* Proofs about FlowHint for any cgroups, tasks, pids, shares and table     *)
(* sizes.                                                                   *)
EXTENDS FlowHint, TLAPS

(* What the invariants lack to be inductive: every task that has not exited *)
(* holds a pid, and no two live tasks hold the same one.                    *)
PidsHeld ==
  /\ \A t \in Tasks : life[t] # "free" => pid[t] \in Pids
  /\ \A t, u \in Tasks : Alive(t) /\ Alive(u) /\ pid[t] = pid[u] => t = u

IInv == TypeOK /\ PidsHeld /\ CachedIsOwn /\ NothingLeaks

USE HintConsts

(* Every raw share maps to one of the four bands.                           *)
LEMMA BandIsRow == \A w \in Nat : Band(w) \in Rows
<1> TAKE w \in Nat
<1>1. WeightClamp(w) \in Nat
  BY DEF WeightClamp
<1> QED BY <1>1 DEF Band, Rows

(* An update of a table changes at most the row of its key.                 *)
LEMMA PutRow ==
  ASSUME IInv, NEW g \in Groups, NEW r \in Rows, NEW max
  PROVE  /\ Put(rows, g, r, max) \in [Groups -> Rows \cup {None}]
         /\ \A h \in Groups : h # g => Put(rows, g, r, max)[h] = rows[h]
<1>1. rows \in [Groups -> Rows \cup {None}]
  BY DEF IInv, TypeOK
<1> QED BY <1>1 DEF Put

LEMMA PutId ==
  ASSUME IInv, NEW p \in Pids, NEW g \in Groups, NEW max
  PROVE  /\ Put(cache, p, g, max) \in [Pids -> Groups \cup {None}]
         /\ \A o \in Pids : o # p => Put(cache, p, g, max)[o] = cache[o]
         /\ Put(cache, p, g, max)[p] \in {cache[p], g}
<1>1. cache \in [Pids -> Groups \cup {None}]
  BY DEF IInv, TypeOK
<1> QED BY <1>1 DEF Put

LEMMA InitInv == Init => IInv
BY DEF Init, IInv, TypeOK, PidsHeld, CachedIsOwn, NothingLeaks, Alive, Rows

(* The cgroup callbacks touch rows, stages and shares only.                 *)
LEMMA GroupSteps ==
  ASSUME IInv, NEW g \in Groups, CgroupInit(g) \/ CgroupExit(g) \/ CgroupSetWeight(g)
  PROVE  IInv'
<1> USE DEF IInv, TypeOK, Alive, taskVars, aside
<1>1. PidsHeld' /\ CachedIsOwn'
  BY DEF CgroupInit, CgroupExit, CgroupSetWeight, PidsHeld, CachedIsOwn
<1>2. CASE CgroupInit(g)
  <2>1. Neutral \in Rows
    BY DEF Rows
  <2>2. /\ rows' \in [Groups -> Rows \cup {None}]
        /\ \A h \in Groups : h # g => rows'[h] = rows[h]
    BY <1>2, <2>1, PutRow DEF CgroupInit
  <2> QED BY <1>1, <1>2, <2>2 DEF CgroupInit, NothingLeaks
<1>3. CASE CgroupExit(g)
  BY <1>1, <1>3 DEF CgroupExit, NothingLeaks
<1>4. CASE CgroupSetWeight(g)
  <2>1. PICK w \in Shares : rows' = Put(rows, g, Band(w), HINT_MAX)
    BY <1>4 DEF CgroupSetWeight
  <2>2. Band(w) \in Rows
    BY BandIsRow
  <2>3. /\ rows' \in [Groups -> Rows \cup {None}]
        /\ \A h \in Groups : h # g => rows'[h] = rows[h]
    BY <2>1, <2>2, PutRow
  <2> QED BY <1>1, <1>4, <2>1, <2>3 DEF CgroupSetWeight, NothingLeaks
<1> QED BY <1>2, <1>3, <1>4

(* The task callbacks: the pid a callback clears or fills is that of one    *)
(* live task.                                                               *)
LEMMA TaskSteps ==
  ASSUME IInv, NEW t \in Tasks,
         \/ CgroupMove(t) \/ Fork(t) \/ Enable(t) \/ Disable(t)
         \/ Reap(t) \/ ExitTask(t) \/ Wait(t) \/ \E u \in Tasks : Exec(t, u)
  PROVE  IInv'
<1> USE DEF IInv, TypeOK, PidsHeld, CachedIsOwn, NothingLeaks, Alive, groupVars, aside
<1>0. Neutral \in Rows
  BY DEF Rows
<1>1. CASE CgroupMove(t)
  BY <1>1 DEF CgroupMove, Invalidate
<1>2. CASE Fork(t)
  BY <1>0, <1>2 DEF Fork
<1>3. CASE Enable(t)
  <2>0. /\ life[t] \in {"new", "out"} /\ life' = [life EXCEPT ![t] = "in"]
        /\ UNCHANGED <<groupVars, pid, group>>
    BY <1>3 DEF Enable
  <2>1. CASE Invalidate(t) /\ hint' = [hint EXCEPT ![t] = Neutral]
    BY <1>0, <2>0, <2>1 DEF Invalidate
  <2>2. CASE /\ unswept' = IF life[t] = "new" /\ cache[pid[t]] # None
                           THEN unswept \cup {t} ELSE unswept
             /\ UNCHANGED <<cache, hint, heirs>>
    BY <2>0, <2>2
  <2> QED BY <1>3, <2>1, <2>2 DEF Enable
<1>4. CASE Disable(t)
  <2>1. Invalidate(t) \/ UNCHANGED <<cache, aside>>
    BY <1>4 DEF Disable
  <2> QED BY <1>4, <2>1 DEF Disable, Invalidate
<1>5. CASE Reap(t)
  BY <1>5 DEF Reap
<1>6. CASE ExitTask(t)
  BY <1>0, <1>6 DEF ExitTask, Invalidate
<1>7. CASE Wait(t)
  <2>1. \A g \in Groups : RowOf(g) \in Rows
    BY <1>0 DEF RowOf
  <2>2. pid[t] \in Pids
    BY <1>7 DEF Wait
  <2>3. CASE cache[pid[t]] # None
    BY <1>7, <2>1, <2>2, <2>3 DEF Wait
  <2>4. CASE cache[pid[t]] = None
    <3>0. /\ cache' = Put(cache, pid[t], group[t], CACHE_MAX)
          /\ hint' = [hint EXCEPT ![t] = RowOf(group[t])]
      BY <1>7, <2>4 DEF Wait
    <3>1. hint' \in [Tasks -> Rows]
      BY <2>1, <3>0
    <3>2. /\ cache' \in [Pids -> Groups \cup {None}]
          /\ \A p \in Pids : p # pid[t] => cache'[p] = cache[p]
          /\ cache'[pid[t]] \in {cache[pid[t]], group[t]}
      BY <2>2, <3>0, PutId
    <3> QED BY <1>7, <2>2, <3>1, <3>2 DEF Wait
  <2> QED BY <2>3, <2>4
<1>8. CASE \E u \in Tasks : Exec(t, u)
  <2>1. PICK u \in Tasks : Exec(t, u)
    BY <1>8
  <2>2. /\ t # u /\ pid' = [pid EXCEPT ![t] = pid[u], ![u] = pid[t]]
        /\ life' = [life EXCEPT ![u] = "dead"]
        /\ UNCHANGED <<stage, rows, cache, group, hint>>
        /\ Alive(t) /\ Alive(u)
    BY <2>1 DEF Exec
  <2>3. /\ heirs' \subseteq Tasks /\ unswept' \subseteq Tasks
        /\ \A v \in Tasks : v # t => /\ v \in heirs' <=> v \in heirs
                                     /\ v \in unswept' <=> v \in unswept
    BY <2>1 DEF Exec
  <2>4. t \notin heirs' => cache[pid[u]] = None
    BY <2>1 DEF Exec
  <2>5. TypeOK' /\ PidsHeld'
    BY <2>2, <2>3
  <2>6. CachedIsOwn' /\ NothingLeaks'
    BY <2>2, <2>3, <2>4
  <2> QED BY <2>5, <2>6
<1> QED BY <1>1, <1>2, <1>3, <1>4, <1>5, <1>6, <1>7, <1>8

LEMMA StepInv == IInv /\ [Next]_vars => IInv'
<1> SUFFICES ASSUME IInv, [Next]_vars PROVE IInv'
  OBVIOUS
<1>1. CASE UNCHANGED vars
  BY <1>1 DEF vars, groupVars, taskVars, aside, IInv, TypeOK, PidsHeld, CachedIsOwn,
              NothingLeaks, Alive
<1>2. CASE Next
  BY <1>2, GroupSteps, TaskSteps DEF Next
<1> QED BY <1>1, <1>2

LEMMA Invariance == Spec => []IInv
<1>1. IInv /\ [Next]_vars => IInv'
  BY StepInv
<1> QED BY InitInv, <1>1, PTL DEF Spec

(* Rows are bands, ids are cgroups, and every table is total, whatever the  *)
(* callbacks do (cgroup.bpf.c, lifecycle.bpf.c).                            *)
THEOREM TypeCorrect == Spec => []TypeOK
<1>1. IInv => TypeOK
  BY DEF IInv
<1> QED BY Invariance, <1>1, PTL

(* The cached id of an enabled task is that of its own cgroup or missing,   *)
(* but for a pid that came with an exec and for a first enable the gate     *)
(* turned away (CachedIsOwn; lifecycle.bpf.c:447-510).                      *)
THEOREM IdsAreOwn == Spec => []CachedIsOwn
<1>1. IInv => CachedIsOwn
  BY DEF IInv
<1> QED BY Invariance, <1>1, PTL

(* Exits give back every row and every cached id.                           *)
THEOREM TablesDoNotLeak == Spec => []NothingLeaks
<1>1. IInv => NothingLeaks
  BY DEF IInv
<1> QED BY Invariance, <1>1, PTL

(* Every fresh wait reads the row of the cgroup the task is in, with the    *)
(* two exceptions of CachedIsOwn (FreshReadsOwn; cgroup.bpf.c:99-149).      *)
THEOREM FreshReads == Spec => FreshReadsOwn
<1>1. IInv /\ [Next]_vars => 
        [\A t \in Tasks \ (heirs \cup unswept) : Wait(t) => hint'[t] = RowOf(group[t])]_vars
  <2> SUFFICES ASSUME IInv, NEW t \in Tasks \ (heirs \cup unswept), Wait(t) PROVE hint'[t] = RowOf(group[t])
    OBVIOUS
  <2>1. cache[pid[t]] \in {None, group[t]} /\ hint \in [Tasks -> Rows]
    BY DEF IInv, CachedIsOwn, TypeOK, Wait
  <2> QED BY <2>1 DEF Wait
<1> QED BY Invariance, <1>1, PTL DEF Spec, FreshReadsOwn
=============================================================================
