------------------------------- MODULE RunPool -------------------------------
(***************************************************************************)
(* What the queues of flow promise of every task, however many CPUs look   *)
(* at one queue at once: it is placed, claimed once by one CPU its mask    *)
(* allows, and runs there.  A CPU runs what it claimed in that order, one  *)
(* at a time.  No task is dropped, claimed twice or run unclaimed.         *)
(***************************************************************************)
EXTENDS Sequences

CONSTANTS
  Tasks,
  None,        (* no task                                                  *)
  Cpus,
  Mask         (* the CPUs every task may run on                           *)

VARIABLES
  phase,       (* asleep, waking or requeue (being placed), queued, running *)
  line,        (* the tasks a CPU claimed and has yet to run               *)
  on           (* the task a CPU runs                                      *)

vars == <<phase, line, on>>

Init ==
  /\ phase = [t \in Tasks |-> "asleep"]
  /\ line = [c \in Cpus |-> <<>>]
  /\ on = [c \in Cpus |-> None]

InLine(t) == \E c \in Cpus : \E i \in DOMAIN line[c] : line[c][i] = t

Wake(t) ==
  /\ phase[t] = "asleep"
  /\ phase' = [phase EXCEPT ![t] = "waking"]
  /\ UNCHANGED <<line, on>>

(* A placed task joins a tier, where any allowed CPU may claim it.          *)
Join(t) ==
  /\ phase[t] \in {"waking", "requeue"}
  /\ phase' = [phase EXCEPT ![t] = "queued"]
  /\ UNCHANGED <<line, on>>

(* The claim of a task that waits in a tier, or of one that passes them all.*)
Claim(c, t) ==
  /\ phase[t] \in {"waking", "requeue", "queued"} /\ c \in Mask[t]
  /\ ~InLine(t)
  /\ phase' = [phase EXCEPT ![t] = "queued"]
  /\ line' = [line EXCEPT ![c] = Append(@, t)]
  /\ UNCHANGED on

Start(c) ==
  /\ on[c] = None /\ line[c] # <<>>
  /\ phase' = [phase EXCEPT ![Head(line[c])] = "running"]
  /\ line' = [line EXCEPT ![c] = Tail(@)]
  /\ on' = [on EXCEPT ![c] = Head(line[c])]

(* The task of a CPU blocks, or is placed again.                            *)
Stop(c, to) ==
  /\ on[c] # None
  /\ phase' = [phase EXCEPT ![on[c]] = to]
  /\ on' = [on EXCEPT ![c] = None]
  /\ UNCHANGED line

Next ==
  \/ \E t \in Tasks : Wake(t) \/ Join(t) \/ \E c \in Cpus : Claim(c, t)
  \/ \E c \in Cpus : Start(c) \/ Stop(c, "asleep") \/ Stop(c, "requeue")

Spec == Init /\ [][Next]_vars
=============================================================================
