----------------------------- MODULE ReclaimLedger -----------------------------
(***************************************************************************)
(* What the global reclaim credit promises: a capped account into which a  *)
(* completion deposits the service it saved, and from which a CPU takes    *)
(* one reservation at a time.  A deposit or a reservation is one step, a   *)
(* reservation never overdraws, and what a CPU holds was taken from the    *)
(* account.                                                                *)
(***************************************************************************)
EXTENDS Naturals

CONSTANTS
  Cpus,        (* the CPUs that complete tasks and run dispatch passes     *)
  Deltas,      (* saved service a completion may deposit                   *)
  Needs,       (* sizes of a reservation                                   *)
  EMAX,        (* smallest balance that funds a reservation                *)
  CREDIT_MAX   (* balance the account saturates at                         *)

VARIABLES
  credit,      (* balance of the account                                   *)
  held         (* reservation a CPU holds, zero for none                   *)

vars == <<credit, held>>

Init ==
  /\ credit = 0
  /\ held = [c \in Cpus |-> 0]

Deposit(d) ==
  /\ credit' = IF credit + d > CREDIT_MAX THEN CREDIT_MAX ELSE credit + d
  /\ UNCHANGED held

Reserve(c, n) ==
  /\ held[c] = 0
  /\ credit >= EMAX
  /\ credit >= n
  /\ credit' = credit - n
  /\ held' = [held EXCEPT ![c] = n]

(* The move the reservation paid for happened or was lost; either way the   *)
(* reservation is gone.                                                     *)
Settle(c) ==
  /\ held[c] # 0
  /\ held' = [held EXCEPT ![c] = 0]
  /\ UNCHANGED credit

Next ==
  \/ \E d \in Deltas : Deposit(d)
  \/ \E c \in Cpus, n \in Needs : Reserve(c, n)
  \/ \E c \in Cpus : Settle(c)

Spec == Init /\ [][Next]_vars
=============================================================================
