------------------------------- MODULE FlowHint -------------------------------
(***************************************************************************)
(* The cgroup hints of flow: a bounded table with one row per cgroup, a    *)
(* bounded cache from the pid of a task to the id of its cgroup, and the   *)
(* callbacks that keep them while cgroups come and go and tasks move, leave *)
(* the class, exit and hand their pid on.                                  *)
(*                                                                         *)
(* The kernel calls every callback about one task under its run queue lock *)
(* and every callback about one cgroup under the cgroup lock, so each is   *)
(* one action.  A pid is free for the next fork before exit_task is called *)
(* for the task that held it.  A requeue reuses what the task stored and   *)
(* changes nothing here.                                                   *)
(***************************************************************************)
EXTENDS Naturals, FiniteSets

CONSTANTS
  Groups,        (* cgroup ids; the kernel never uses one twice            *)
  Root,          (* the cgroup that is always there                        *)
  Tasks,         (* task structs                                           *)
  Pids,
  None,          (* no row, no cached id, no pid                           *)
  Shares,        (* raw shares written to a cgroup                         *)
  HINT_MAX,      (* FLOW_HINT_MAX                                          *)
  CACHE_MAX,     (* max_entries of cgrp_cache_stor                         *)
  WEIGHT_BASE,   (* FLOW_WEIGHT_BASE, FLOW_WEIGHT_MAX                      *)
  WEIGHT_MAX

ASSUME HintConsts ==
  /\ Root \in Groups
  /\ None \notin Groups \cup Pids
  /\ Shares \subseteq Nat
  /\ HINT_MAX \in Nat /\ CACHE_MAX \in Nat
  /\ WEIGHT_BASE \in 1 .. WEIGHT_MAX /\ WEIGHT_MAX \in Nat

VARIABLES
  stage,         (* absent, up or gone, of every cgroup                    *)
  rows,          (* hint_stor                                              *)
  cache,         (* cgrp_cache_stor                                        *)
  life,          (* free, new, in the class, out of it, or dead            *)
  pid,
  group,         (* the cgroup of every task                               *)
  hint,          (* what its last fresh wait stored                        *)
  heirs,         (* history: the id cached for it came with an exec        *)
  unswept        (* history: its first enable left the id it found         *)

groupVars == <<stage, rows>>
taskVars == <<life, pid, group, hint>>
aside == <<heirs, unswept>>
vars == <<groupVars, cache, taskVars, aside>>

Row(p, w) == [period_us |-> p, weight |-> w]
Neutral == Row(0, WEIGHT_BASE)

WeightClamp(w) == IF w < 1 THEN 1 ELSE IF w > WEIGHT_MAX THEN WEIGHT_MAX ELSE w

(* Mutant of Band: the raw share is stored.                                 *)
BandRaw(w) == Row(8000, WeightClamp(w))

(* flow_share_band.                                                         *)
Band(w) ==
  LET c == WeightClamp(w)
  IN  CASE c < 64               -> Row(32000, 32)
        [] c >= 64 /\ c < 128   -> Row(16000, 64)
        [] c >= 128 /\ c < 512  -> Row(8000, 256)
        [] c >= 512             -> Row(4000, 1024)

Rows == {Neutral, Row(32000, 32), Row(16000, 64), Row(8000, 256), Row(4000, 1024)}

TypeOK ==
  /\ stage \in [Groups -> {"absent", "up", "gone"}]
  /\ rows \in [Groups -> Rows \cup {None}]
  /\ cache \in [Pids -> Groups \cup {None}]
  /\ life \in [Tasks -> {"free", "new", "in", "out", "dead"}]
  /\ pid \in [Tasks -> Pids \cup {None}]
  /\ group \in [Tasks -> Groups]
  /\ hint \in [Tasks -> Rows]
  /\ heirs \subseteq Tasks /\ unswept \subseteq Tasks

Init ==
  /\ stage = [g \in Groups |-> "absent"]
  /\ rows = [g \in Groups |-> None]
  /\ cache = [p \in Pids |-> None]
  /\ life = [t \in Tasks |-> "free"]
  /\ pid = [t \in Tasks |-> None]
  /\ group = [t \in Tasks |-> Root]
  /\ hint = [t \in Tasks |-> Neutral]
  /\ heirs = {} /\ unswept = {}

Alive(t) == life[t] \in {"new", "in", "out"}
Used(m) == Cardinality({k \in DOMAIN m : m[k] # None})

(* A full hash map takes an update of a key it holds and no new key; every  *)
(* caller ignores the failure.                                              *)
Put(m, k, v, max) ==
  IF m[k] # None \/ Used(m) < max THEN [m EXCEPT ![k] = v] ELSE m

------------------------------------------------------------------------------
(* cgroup callbacks                                                          *)

(* Every cgroup gets a neutral row at load or when it is made: the share it *)
(* comes with is ignored.                                                   *)
CgroupInit(g) ==
  /\ stage[g] = "absent"
  /\ stage' = [stage EXCEPT ![g] = "up"]
  /\ rows' = Put(rows, g, Neutral, HINT_MAX)
  /\ UNCHANGED <<cache, taskVars, aside>>

(* Mutant of CgroupExit: the row stays.                                     *)
CgroupExitKeepsRow(g) ==
  /\ stage[g] = "up" /\ g # Root
  /\ \A t \in Tasks : Alive(t) => group[t] # g
  /\ stage' = [stage EXCEPT ![g] = "gone"]
  /\ UNCHANGED <<rows, cache, taskVars, aside>>

(* A cgroup goes once no live task is in it.                                *)
CgroupExit(g) ==
  /\ stage[g] = "up" /\ g # Root
  /\ \A t \in Tasks : Alive(t) => group[t] # g
  /\ stage' = [stage EXCEPT ![g] = "gone"]
  /\ rows' = [rows EXCEPT ![g] = None]
  /\ UNCHANGED <<cache, taskVars, aside>>

(* The root has no weight to write.                                         *)
CgroupSetWeight(g) ==
  /\ stage[g] = "up" /\ g # Root
  /\ \E w \in Shares : rows' = Put(rows, g, Band(w), HINT_MAX)
  /\ UNCHANGED <<stage, cache, taskVars, aside>>

(* flow_cgrp_cache_invalidate clears by pid, so for every holder of it.      *)
Invalidate(t) ==
  LET holders == {u \in Tasks : pid[u] = pid[t]}
  IN  /\ cache' = [cache EXCEPT ![pid[t]] = None]
      /\ heirs' = heirs \ holders
      /\ unswept' = unswept \ holders

(* Mutant of CgroupMove: the cached id survives the move.                   *)
CgroupMoveKeepsId(t) ==
  /\ Alive(t)
  /\ \E g \in Groups \ {group[t]} :
       stage[g] = "up" /\ group' = [group EXCEPT ![t] = g]
  /\ UNCHANGED <<groupVars, cache, life, pid, hint, aside>>

(* The kernel changes the cgroup and calls cgroup_move in one critical      *)
(* section, also for a task of another class.                               *)
CgroupMove(t) ==
  /\ Alive(t)
  /\ \E g \in Groups \ {group[t]} :
       stage[g] = "up" /\ group' = [group EXCEPT ![t] = g]
  /\ Invalidate(t)
  /\ UNCHANGED <<groupVars, life, pid, hint>>

------------------------------------------------------------------------------
(* Task callbacks                                                            *)

(* A child takes a pid that no live task holds.                             *)
Fork(t) ==
  /\ life[t] = "free"
  /\ \E p \in Pids :
       /\ \A u \in Tasks : Alive(u) => pid[u] # p
       /\ pid' = [pid EXCEPT ![t] = p]
  /\ \E g \in Groups : stage[g] = "up" /\ group' = [group EXCEPT ![t] = g]
  /\ life' = [life EXCEPT ![t] = "new"]
  /\ hint' = [hint EXCEPT ![t] = Neutral]
  /\ UNCHANGED <<groupVars, cache, aside>>

(* The gate turns a callback away when the CPU of the task is outside its   *)
(* mask.  Also at a first enable: the mask of a task of another class may   *)
(* change while it sleeps, and that of a child before it gets its CPU.      *)
Gate == BOOLEAN

(* Mutant of Enable: the id cached for the pid stays.                       *)
EnableKeepsId(t) ==
  /\ life[t] \in {"new", "out"}
  /\ life' = [life EXCEPT ![t] = "in"]
  /\ \E ok \in Gate : hint' = IF ok THEN [hint EXCEPT ![t] = Neutral] ELSE hint
  /\ UNCHANGED <<groupVars, cache, pid, group, aside>>

(* Turned away, the task is in the class all the same, with the id that is  *)
(* cached for its pid and with what its storage holds.                      *)
Enable(t) ==
  /\ life[t] \in {"new", "out"}
  /\ life' = [life EXCEPT ![t] = "in"]
  /\ \E ok \in Gate :
       IF ok THEN Invalidate(t) /\ hint' = [hint EXCEPT ![t] = Neutral]
       ELSE /\ unswept' = IF life[t] = "new" /\ cache[pid[t]] # None
                          THEN unswept \cup {t} ELSE unswept
            /\ UNCHANGED <<cache, hint, heirs>>
  /\ UNCHANGED <<groupVars, pid, group>>

Disable(t) ==
  /\ life[t] = "in"
  /\ life' = [life EXCEPT ![t] = "out"]
  /\ \E ok \in Gate : IF ok THEN Invalidate(t) ELSE UNCHANGED <<cache, aside>>
  /\ UNCHANGED <<groupVars, pid, group, hint>>

(* The task is reaped and its pid is free again.                            *)
Reap(t) ==
  /\ Alive(t)
  /\ life' = [life EXCEPT ![t] = "dead"]
  /\ UNCHANGED <<groupVars, cache, pid, group, hint, aside>>

(* Thread t of a process that u leads calls exec: the kernel gives it the   *)
(* pid of u, which is dead by then and reaped at once, and calls nothing.   *)
(* Threads may be in cgroups of their own.                                  *)
Exec(t, u) ==
  /\ t # u /\ Alive(t) /\ Alive(u)
  /\ pid' = [pid EXCEPT ![t] = pid[u], ![u] = pid[t]]
  /\ life' = [life EXCEPT ![u] = "dead"]
  /\ heirs' = IF cache[pid[u]] = None THEN heirs \ {t} ELSE heirs \cup {t}
  /\ unswept' = unswept \ {t}
  /\ UNCHANGED <<groupVars, cache, group, hint>>

(* Mutant of ExitTask: the cached id stays.                                 *)
ExitTaskKeepsId(t) ==
  /\ life[t] = "dead"
  /\ life' = [life EXCEPT ![t] = "free"]
  /\ pid' = [pid EXCEPT ![t] = None]
  /\ group' = [group EXCEPT ![t] = Root]
  /\ hint' = [hint EXCEPT ![t] = Neutral]
  /\ UNCHANGED <<groupVars, cache, aside>>

(* The last reference to the task goes: exit_task clears the id cached for  *)
(* its pid, whoever holds the pid by now.                                   *)
ExitTask(t) ==
  /\ life[t] = "dead"
  /\ life' = [life EXCEPT ![t] = "free"]
  /\ pid' = [pid EXCEPT ![t] = None]
  /\ group' = [group EXCEPT ![t] = Root]
  /\ hint' = [hint EXCEPT ![t] = Neutral]
  /\ Invalidate(t)
  /\ UNCHANGED groupVars

RowOf(g) == IF rows[g] = None THEN Neutral ELSE rows[g]

(* flow_task_hint_weight of a fresh wait: the cached id or, without one, the*)
(* id of the acquired cgroup, which is cached when there is room.           *)
Wait(t) ==
  /\ life[t] = "in"
  /\ LET id == cache[pid[t]]
     IN  IF id # None
         THEN hint' = [hint EXCEPT ![t] = RowOf(id)] /\ UNCHANGED cache
         ELSE /\ hint' = [hint EXCEPT ![t] = RowOf(group[t])]
              /\ cache' = Put(cache, pid[t], group[t], CACHE_MAX)
  /\ UNCHANGED <<groupVars, life, pid, group, aside>>

Next ==
  \/ \E g \in Groups : CgroupInit(g) \/ CgroupExit(g) \/ CgroupSetWeight(g)
  \/ \E t \in Tasks : \/ CgroupMove(t) \/ Fork(t) \/ Enable(t) \/ Disable(t)
                      \/ Reap(t) \/ ExitTask(t) \/ Wait(t)
                      \/ \E u \in Tasks : Exec(t, u)

Spec == Init /\ [][Next]_vars

------------------------------------------------------------------------------
(* Properties                                                                *)

(* A cached id is the cgroup of the live task that holds the pid, whatever  *)
(* moves, exits and reuses of the pid came before (cgroup.bpf.c:12,         *)
(* lifecycle.bpf.c:502-504), unless exec handed the pid on or the gate took *)
(* the clear of a first enable.                                             *)
CachedIsOwn ==
  \A t \in Tasks \ (heirs \cup unswept) :
    life[t] \in {"in", "out"} => cache[pid[t]] \in {None, group[t]}

(* A fresh wait stores the row of the cgroup the task is in now, and the    *)
(* neutral one when the table has none (cgroup.bpf.c:9-14), with the same   *)
(* two exceptions.                                                          *)
FreshReadsOwn ==
  [][\A t \in Tasks \ (heirs \cup unswept) :
       Wait(t) => hint'[t] = RowOf(group[t])]_vars

(* What lifecycle.bpf.c:463-465 says of the enable: the cached id clears    *)
(* too, so a reused pid never reads a stale hierarchy.  A fresh wait of any *)
(* task that never got its pid from exec reads its own row.                 *)
ReusedPidReadsOwn ==
  [][\A t \in Tasks \ heirs : Wait(t) => hint'[t] = RowOf(group[t])]_vars

(* Neither table leaks: a row belongs to a cgroup that is there, and a      *)
(* cached id to a pid whose task has yet to exit.  A leak would fill the    *)
(* table for good, and then every wait misses (cgroup.bpf.c:11).            *)
NothingLeaks ==
  /\ \A g \in Groups : rows[g] # None => stage[g] = "up"
  /\ \A p \in Pids : cache[p] # None => \E t \in Tasks : life[t] # "free" /\ pid[t] = p
=============================================================================
