------------------------------ MODULE FlowCredit ------------------------------
(***************************************************************************)
(* The global reclaim credit of flow (reclaim_credit_stor), at the grain   *)
(* of its loads and compare-and-swaps.                                     *)
(*                                                                         *)
(* Every CPU runs two operations on the one shared slot, interleaved with  *)
(* those of the other CPUs: flow_credit_add, called by stopping when a     *)
(* task completes, and the walk of flow_reject_reclaim_one, which peeks    *)
(* the credit once, tests reject heads one by one and reserves credit with *)
(* flow_credit_consume before it moves a head.                             *)
(***************************************************************************)
EXTENDS Integers

CONSTANTS
  Cpus,         (* CPUs                                                    *)
  Deltas,       (* adapt_delta a completion may add, zero included         *)
  Heads,        (* reject heads that pass the mask, age and key checks:    *)
                (* records [exceed, laxity]                                *)
  EMAX,         (* FLOW_RED_EMAX_NS                                        *)
  CREDIT_MAX,   (* FLOW_PRED_MAX_NS, the cap of the slot                   *)
  RETRIES,      (* bpf_for(i, 0, 4)                                        *)
  MAX_VISIT     (* FLOW_DISPATCH_MAX_VISIT                                 *)

ASSUME CreditConsts ==
  /\ Deltas \subseteq Nat
  /\ Heads \subseteq [exceed : Nat, laxity : Nat]
  /\ EMAX \in Nat \ {0}
  /\ CREDIT_MAX \in Nat /\ EMAX <= CREDIT_MAX
  /\ RETRIES \in Nat \ {0}
  /\ MAX_VISIT \in Nat

VARIABLES
  credit,       (* the u64 slot                                            *)
  pc,           (* where each CPU is                                       *)
  arg,          (* delta being added, or exceed being reserved             *)
  cur,          (* slot value the CPU loaded last                          *)
  tries,        (* iterations of the retry loop already spent              *)
  peek,         (* credit the walk saw, read once                          *)
  tiersEmpty,   (* the walk's view of the three tiers                      *)
  visits,       (* heads visited by this walk                              *)
  paid,         (* the pending move holds a reservation                    *)
  beaten        (* history: changes of the slot since the retry loop began *)

vars == <<credit, pc, arg, cur, tries, peek, tiersEmpty, visits, paid, beaten>>

PCs == {"idle", "add_load", "add_cas", "walk", "take_load", "take_cas", "move"}

TypeOK ==
  /\ credit \in 0 .. CREDIT_MAX
  /\ pc \in [Cpus -> PCs]
  /\ arg \in [Cpus -> Nat]
  /\ cur \in [Cpus -> 0 .. CREDIT_MAX]
  /\ tries \in [Cpus -> 0 .. RETRIES]
  /\ peek \in [Cpus -> 0 .. CREDIT_MAX]
  /\ tiersEmpty \in [Cpus -> BOOLEAN]
  /\ visits \in [Cpus -> Nat]
  /\ paid \in [Cpus -> BOOLEAN]
  /\ beaten \in [Cpus -> 0 .. RETRIES]

Init ==
  /\ credit = 0
  /\ pc = [c \in Cpus |-> "idle"]
  /\ arg = [c \in Cpus |-> 0]
  /\ cur = [c \in Cpus |-> 0]
  /\ tries = [c \in Cpus |-> 0]
  /\ peek = [c \in Cpus |-> 0]
  /\ tiersEmpty = [c \in Cpus |-> FALSE]
  /\ visits = [c \in Cpus |-> 0]
  /\ paid = [c \in Cpus |-> FALSE]
  /\ beaten = [c \in Cpus |-> 0]

Goto(c, to) == pc' = [pc EXCEPT ![c] = to]

Need(exceed) == IF exceed = 0 THEN EMAX ELSE exceed

(* Mutant of Capped: the slot grows without a cap.                          *)
CappedNever(v) == v

Capped(v) == IF v > CREDIT_MAX THEN CREDIT_MAX ELSE v

(* The locals of the operation go out of scope with it.                     *)
Return(c) ==
  /\ Goto(c, "idle")
  /\ arg' = [arg EXCEPT ![c] = 0]
  /\ cur' = [cur EXCEPT ![c] = 0]
  /\ tries' = [tries EXCEPT ![c] = 0]
  /\ peek' = [peek EXCEPT ![c] = 0]
  /\ tiersEmpty' = [tiersEmpty EXCEPT ![c] = FALSE]
  /\ visits' = [visits EXCEPT ![c] = 0]
  /\ paid' = [paid EXCEPT ![c] = FALSE]

(* Mutant of Retry: the loop has no last turn.                              *)
RetryForever(c, again) ==
  /\ Goto(c, again)
  /\ UNCHANGED <<credit, arg, cur, tries, peek, tiersEmpty, visits, paid>>

(* A lost swap takes one more turn of the retry loop.                       *)
Retry(c, again) ==
  /\ tries[c] + 1 < RETRIES
  /\ tries' = [tries EXCEPT ![c] = @ + 1]
  /\ cur' = [cur EXCEPT ![c] = 0]
  /\ Goto(c, again)
  /\ UNCHANGED <<credit, arg, peek, tiersEmpty, visits, paid>>

------------------------------------------------------------------------------
(* flow_credit_add                                                           *)

(* A completion adds its saved delta; a zero delta returns at once.         *)
AddBegin(c) ==
  /\ pc[c] = "idle"
  /\ \E d \in Deltas \ {0} : arg' = [arg EXCEPT ![c] = d]
  /\ Goto(c, "add_load")
  /\ UNCHANGED <<credit, cur, tries, peek, tiersEmpty, visits, paid>>

AddLoad(c) ==
  /\ pc[c] = "add_load"
  /\ cur' = [cur EXCEPT ![c] = credit]
  /\ Goto(c, "add_cas")
  /\ UNCHANGED <<credit, arg, tries, peek, tiersEmpty, visits, paid>>

(* Mutant of AddWin: a plain store in place of the swap.                    *)
AddStore(c) ==
  /\ pc[c] = "add_cas"
  /\ credit' = Capped(cur[c] + arg[c])
  /\ Return(c)

AddWin(c) ==
  /\ pc[c] = "add_cas"
  /\ credit = cur[c]
  /\ credit' = Capped(cur[c] + arg[c])
  /\ Return(c)

AddLose(c) ==
  /\ pc[c] = "add_cas"
  /\ credit # cur[c]
  /\ Retry(c, "add_load")

(* After the last turn the delta is dropped.                                *)
AddDrop(c) ==
  /\ pc[c] = "add_cas"
  /\ credit # cur[c]
  /\ tries[c] + 1 = RETRIES
  /\ Return(c)
  /\ UNCHANGED credit

------------------------------------------------------------------------------
(* flow_reject_reclaim_one                                                   *)

EarlySkip(saved, empty) == ~empty /\ saved < EMAX

(* The pass enters with some visits already spent on the tiers, peeks the   *)
(* credit, and skips the walk when tiers hold work and the credit is short. *)
WalkBegin(c) ==
  /\ pc[c] = "idle"
  /\ \E v \in 0 .. MAX_VISIT - 1, empty \in BOOLEAN :
       /\ ~EarlySkip(credit, empty)
       /\ visits' = [visits EXCEPT ![c] = v]
       /\ tiersEmpty' = [tiersEmpty EXCEPT ![c] = empty]
  /\ peek' = [peek EXCEPT ![c] = credit]
  /\ Goto(c, "walk")
  /\ UNCHANGED <<credit, arg, cur, tries, paid>>

Funded(c, h) == peek[c] >= EMAX /\ h.laxity # 0 /\ peek[c] >= h.exceed

(* flow_reclaim_candidate_ok on the next head up to the reservation: no     *)
(* laxity fails, tiers with work need funding, a funded head reserves and   *)
(* an unfunded one moves for free.                                          *)
TryHead(c) ==
  /\ pc[c] = "walk"
  /\ visits[c] < MAX_VISIT
  /\ visits' = [visits EXCEPT ![c] = @ + 1]
  /\ \E h \in Heads :
       \/ /\ h.laxity = 0 \/ (~tiersEmpty[c] /\ ~Funded(c, h))
          /\ UNCHANGED <<pc, arg>>
       \/ /\ Funded(c, h)
          /\ arg' = [arg EXCEPT ![c] = h.exceed]
          /\ Goto(c, "take_load")
       \/ /\ h.laxity # 0 /\ tiersEmpty[c] /\ ~Funded(c, h)
          /\ Goto(c, "move")
          /\ UNCHANGED arg
  /\ UNCHANGED <<credit, cur, tries, peek, tiersEmpty, paid>>

(* The queue is exhausted or the visits are spent: the walk moves nothing.  *)
WalkEnd(c) ==
  /\ pc[c] = "walk"
  /\ Return(c)
  /\ UNCHANGED credit

(* flow_credit_consume loads the slot and fails closed when it is short.    *)
Short(saved, exceed) == saved < Need(exceed) \/ saved < EMAX

(* Mutant of NextHead: the head moves although its reservation failed.      *)
NextHeadMoves(c) ==
  /\ Goto(c, "move")
  /\ UNCHANGED <<credit, arg, cur, tries, peek, tiersEmpty, visits, paid>>

(* Mutant of NextHead: the turns spent on this head count against the next. *)
NextHeadKeepsTries(c) ==
  /\ Goto(c, "walk")
  /\ arg' = [arg EXCEPT ![c] = 0]
  /\ cur' = [cur EXCEPT ![c] = 0]
  /\ UNCHANGED <<credit, tries, peek, tiersEmpty, visits, paid>>

(* A reservation that fails goes on to the next head.                       *)
NextHead(c) ==
  /\ Goto(c, "walk")
  /\ arg' = [arg EXCEPT ![c] = 0]
  /\ cur' = [cur EXCEPT ![c] = 0]
  /\ tries' = [tries EXCEPT ![c] = 0]
  /\ UNCHANGED <<credit, peek, tiersEmpty, visits, paid>>

TakeLoad(c) ==
  /\ pc[c] = "take_load"
  /\ ~Short(credit, arg[c])
  /\ cur' = [cur EXCEPT ![c] = credit]
  /\ Goto(c, "take_cas")
  /\ UNCHANGED <<credit, arg, tries, peek, tiersEmpty, visits, paid>>

TakeShort(c) ==
  /\ pc[c] = "take_load"
  /\ Short(credit, arg[c])
  /\ NextHead(c)

(* Mutant of TakeWin: a plain store in place of the swap.                   *)
TakeStore(c) ==
  /\ pc[c] = "take_cas"
  /\ credit' = cur[c] - Need(arg[c])
  /\ paid' = [paid EXCEPT ![c] = TRUE]
  /\ Goto(c, "move")
  /\ UNCHANGED <<arg, cur, tries, peek, tiersEmpty, visits>>

TakeWin(c) ==
  /\ pc[c] = "take_cas"
  /\ credit = cur[c]
  /\ credit' = cur[c] - Need(arg[c])
  /\ paid' = [paid EXCEPT ![c] = TRUE]
  /\ Goto(c, "move")
  /\ UNCHANGED <<arg, cur, tries, peek, tiersEmpty, visits>>

TakeLose(c) ==
  /\ pc[c] = "take_cas"
  /\ credit # cur[c]
  /\ Retry(c, "take_load")

TakeFail(c) ==
  /\ pc[c] = "take_cas"
  /\ credit # cur[c]
  /\ tries[c] + 1 = RETRIES
  /\ NextHead(c)

(* flow_move_candidate: the head moves or another CPU took it first.  The   *)
(* walk ends either way and a reservation is never given back.              *)
Move(c) ==
  /\ pc[c] = "move"
  /\ Return(c)
  /\ UNCHANGED credit

------------------------------------------------------------------------------
Step(c) ==
  \/ AddLoad(c) \/ AddWin(c) \/ AddLose(c) \/ AddDrop(c)
  \/ TryHead(c) \/ WalkEnd(c) \/ Move(c)
  \/ TakeLoad(c) \/ TakeShort(c) \/ TakeWin(c) \/ TakeLose(c) \/ TakeFail(c)

(* What others did to the slot while a CPU is in its retry loop: the winner *)
(* of a swap leaves its own.                                                *)
InLoop(at) == at \in {"add_load", "add_cas", "take_load", "take_cas"}

Watch ==
  beaten' = [c \in Cpus |->
               IF ~InLoop(pc[c]) \/ ~InLoop(pc'[c]) THEN 0
               ELSE IF credit' # credit /\ beaten[c] < RETRIES THEN beaten[c] + 1
               ELSE beaten[c]]

Next ==
  /\ \E c \in Cpus : AddBegin(c) \/ WalkBegin(c) \/ Step(c)
  /\ Watch

Spec == Init /\ [][Next]_vars

(* A BPF program that has started runs to its end: every CPU keeps stepping *)
(* through an operation it is in.  Nothing forces a new operation.          *)
FairSpec == Spec /\ \A c \in Cpus : WF_vars(Step(c) /\ Watch)

------------------------------------------------------------------------------
(* Properties                                                                *)

(* The account of ReclaimLedger, where a CPU holds what it reserved from    *)
(* the winning swap until the move it pays for.                             *)
Held == [c \in Cpus |-> IF paid[c] THEN Need(arg[c]) ELSE 0]

Ledger == INSTANCE ReclaimLedger WITH
  held <- Held, Needs <- {Need(h.exceed) : h \in Heads}

(* The load, test and swap loops of any number of CPUs behave like an       *)
(* account with atomic deposits and reservations: no lost update, no double *)
(* spend on a stale peek, no overdraft (edf.bpf.c:280-340).                 *)
LedgerSpec == Ledger!Spec

(* While the tiers hold work no reject moves for free: a CPU about to move  *)
(* a head either saw empty tiers or holds a reservation                     *)
(* (dispatch.bpf.c:308-318).                                                *)
PaidWhileTiersBusy ==
  \A c \in Cpus : pc[c] = "move" /\ ~tiersEmpty[c] => paid[c]

(* This step is the CPU's reservation, and nobody else's, for the full need. *)
Reserves(c) ==
  /\ ~paid[c] /\ paid'[c]
  /\ credit - credit' = Need(arg[c])
  /\ \A o \in Cpus \ {c} : paid'[o] = paid[o]

(* Credit only leaves the slot into a reservation of the CPU that took it   *)
(* (edf.bpf.c:317-340).                                                     *)
SpentIsReserved == [][credit' < credit => \E c \in Cpus : Reserves(c)]_vars

(* A CPU gives up a deposit or a reservation only after others changed the  *)
(* slot once for every turn it had, on this head alone: nothing is lost     *)
(* while the slot is quiet (edf.bpf.c:277-278, 290, 324).                   *)
GivesUpBeaten ==
  [][\A c \in Cpus :
       /\ pc[c] \in {"add_cas", "take_cas"} /\ credit # cur[c]
       /\ pc'[c] \in {"idle", "walk"}
       => beaten[c] >= RETRIES]_vars

(* The retry loops and the walk are bounded, so no CPU spins in them        *)
(* forever, whatever the other CPUs do (edf.bpf.c:290, 324).                *)
OperationsEnd == \A c \in Cpus : pc[c] # "idle" ~> pc[c] = "idle"
=============================================================================
