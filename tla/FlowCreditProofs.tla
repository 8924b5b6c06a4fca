--------------------------- MODULE FlowCreditProofs ---------------------------
(* Proofs about FlowCredit for any set of CPUs, deltas and heads.           *)
EXTENDS FlowCredit, TLAPS

(* What TypeOK lacks to be inductive: a CPU in the middle of a swap knows   *)
(* that the value it loaded funds the reservation, its argument is one that *)
(* a completion or a head supplied, and only a CPU about to move holds a    *)
(* reservation.                                                             *)
LocalInv ==
  \A c \in Cpus :
    /\ pc[c] \in {"add_load", "add_cas"} => arg[c] \in Deltas
    /\ pc[c] \in {"take_load", "take_cas"} \/ paid[c] =>
         \E h \in Heads : arg[c] = h.exceed
    /\ pc[c] = "take_cas" => ~Short(cur[c], arg[c])
    /\ paid[c] => pc[c] = "move"

IInv == TypeOK /\ LocalInv /\ PaidWhileTiersBusy

USE CreditConsts

LEMMA CappedBound ==
  ASSUME NEW v \in Nat PROVE Capped(v) \in 0 .. CREDIT_MAX
BY DEF Capped

(* The history keeps its range.                                             *)
LEMMA WatchType ==
  IInv /\ [Next]_vars => beaten' \in [Cpus -> 0 .. RETRIES]
<1> SUFFICES ASSUME IInv, Watch \/ UNCHANGED beaten
             PROVE  beaten' \in [Cpus -> 0 .. RETRIES]
  BY DEF Next, vars
<1> QED BY DEF IInv, TypeOK, Watch

LEMMA InitInv == Init => IInv
BY DEF Init, IInv, TypeOK, LocalInv, PaidWhileTiersBusy, PCs

(* One step per action.                                                     *)
LEMMA StepInv == IInv /\ [Next]_vars => IInv'
<1> SUFFICES ASSUME IInv, [Next]_vars PROVE IInv'
  OBVIOUS
<1>0. beaten' \in [Cpus -> 0 .. RETRIES]
  BY WatchType
<1> USE <1>0 DEF IInv, TypeOK, LocalInv, PaidWhileTiersBusy, PCs, Goto
<1>1. CASE UNCHANGED vars
  BY <1>1 DEF vars
<1>2. ASSUME NEW c \in Cpus, AddBegin(c) PROVE IInv'
  BY <1>2 DEF AddBegin
<1>3. ASSUME NEW c \in Cpus, AddLoad(c) PROVE IInv'
  BY <1>3 DEF AddLoad
<1>4. ASSUME NEW c \in Cpus, AddWin(c) PROVE IInv'
  <2>1. credit' \in 0 .. CREDIT_MAX
    BY <1>4, CappedBound DEF AddWin
  <2> QED BY <1>4, <2>1 DEF AddWin, Return
<1>5. ASSUME NEW c \in Cpus, AddLose(c) PROVE IInv'
  BY <1>5 DEF AddLose, Retry
<1>6. ASSUME NEW c \in Cpus, AddDrop(c) PROVE IInv'
  BY <1>6 DEF AddDrop, Return
<1>7. ASSUME NEW c \in Cpus, WalkBegin(c) PROVE IInv'
  BY <1>7 DEF WalkBegin
<1>8. ASSUME NEW c \in Cpus, TryHead(c) PROVE IInv'
  <2>1. PICK h \in Heads :
          \/ /\ h.laxity = 0 \/ (~tiersEmpty[c] /\ ~Funded(c, h))
             /\ UNCHANGED <<pc, arg>>
          \/ /\ Funded(c, h)
             /\ arg' = [arg EXCEPT ![c] = h.exceed]
             /\ pc' = [pc EXCEPT ![c] = "take_load"]
          \/ /\ h.laxity # 0 /\ tiersEmpty[c] /\ ~Funded(c, h)
             /\ pc' = [pc EXCEPT ![c] = "move"]
             /\ UNCHANGED arg
    BY <1>8 DEF TryHead
  <2>2. h.exceed \in Nat
    OBVIOUS
  <2> QED BY <1>8, <2>1, <2>2 DEF TryHead
<1>9. ASSUME NEW c \in Cpus, WalkEnd(c) PROVE IInv'
  BY <1>9 DEF WalkEnd, Return
<1>10. ASSUME NEW c \in Cpus, TakeLoad(c) PROVE IInv'
  BY <1>10 DEF TakeLoad
<1>11. ASSUME NEW c \in Cpus, TakeShort(c) PROVE IInv'
  BY <1>11 DEF TakeShort, NextHead
<1>12. ASSUME NEW c \in Cpus, TakeWin(c) PROVE IInv'
  <2>1. Need(arg[c]) \in Nat /\ cur[c] \in 0 .. CREDIT_MAX /\ ~Short(cur[c], arg[c])
    BY <1>12 DEF TakeWin, Need
  <2>2. credit' \in 0 .. CREDIT_MAX
    BY <1>12, <2>1 DEF TakeWin, Short
  <2> QED BY <1>12, <2>2 DEF TakeWin
<1>13. ASSUME NEW c \in Cpus, TakeLose(c) PROVE IInv'
  BY <1>13 DEF TakeLose, Retry
<1>14. ASSUME NEW c \in Cpus, TakeFail(c) PROVE IInv'
  BY <1>14 DEF TakeFail, NextHead
<1>15. ASSUME NEW c \in Cpus, Move(c) PROVE IInv'
  BY <1>15 DEF Move, Return
<1> QED
  BY <1>1, <1>2, <1>3, <1>4, <1>5, <1>6, <1>7, <1>8, <1>9, <1>10, <1>11,
     <1>12, <1>13, <1>14, <1>15 DEF Next, Step

(* The inductive invariant holds in every behaviour.                        *)
THEOREM Invariance == Spec => []IInv
BY InitInv, StepInv, PTL DEF Spec

(* The slot stays a balance between zero and the one second cap, whatever   *)
(* deposits and reservations interleave.                                    *)
THEOREM TypeCorrect == Spec => []TypeOK
BY Invariance, PTL DEF IInv

(* No reject moves for free while the tiers hold work, for any number of    *)
(* CPUs walking with stale peeks.                                           *)
THEOREM BusyTiersArePaid == Spec => []PaidWhileTiersBusy
BY Invariance, PTL DEF IInv

LEMMA StepSpends ==
  IInv /\ [Next]_vars => [credit' < credit => \E c \in Cpus : Reserves(c)]_vars
<1> SUFFICES ASSUME IInv, Next, credit' < credit
             PROVE  \E c \in Cpus : Reserves(c)
  OBVIOUS
<1>1. PICK c \in Cpus : AddBegin(c) \/ WalkBegin(c) \/ Step(c)
  BY DEF Next
<1>2. credit \in 0 .. CREDIT_MAX /\ cur[c] \in 0 .. CREDIT_MAX /\ arg[c] \in Nat
  BY DEF IInv, TypeOK
<1>3. ~AddWin(c)
  BY <1>2 DEF AddWin, Capped
<1>4. TakeWin(c)
  BY <1>1, <1>2, <1>3
  DEF Step, AddBegin, AddLoad, AddLose, AddDrop, Retry, WalkBegin, TryHead, WalkEnd,
      TakeLoad, TakeShort, TakeLose, TakeFail, NextHead, Move
<1>5. ~paid[c]
  BY <1>4 DEF TakeWin, IInv, LocalInv
<1>6. paid' = [paid EXCEPT ![c] = TRUE] /\ paid \in [Cpus -> BOOLEAN]
  BY <1>4 DEF TakeWin, IInv, TypeOK
<1>7. credit - credit' = Need(arg[c])
  BY <1>2, <1>4 DEF TakeWin, Need
<1> QED BY <1>5, <1>6, <1>7 DEF Reserves

(* Credit never leaves the slot except into the reservation of the one CPU  *)
(* whose swap won, for the full need of the head it is about to move.       *)
THEOREM SpendingReserves == Spec => SpentIsReserved
BY Invariance, StepSpends, PTL DEF Spec, SpentIsReserved

(* Behind the bound on losses: every turn spent saw a change of the slot,    *)
(* and a value that is no longer there saw one more.                         *)
TurnsBeaten ==
  \A c \in Cpus :
    /\ InLoop(pc[c]) => beaten[c] >= tries[c] /\ tries[c] < RETRIES
    /\ pc[c] \in {"idle", "walk"} => tries[c] = 0
    /\ pc[c] \in {"add_cas", "take_cas"} /\ credit # cur[c] => beaten[c] > tries[c]

LEMMA InitTurns == Init => TurnsBeaten
BY DEF Init, TurnsBeaten, InLoop

LEMMA StepTurns == IInv /\ TurnsBeaten /\ [Next]_vars => TurnsBeaten'
<1> SUFFICES ASSUME IInv, TurnsBeaten, [Next]_vars PROVE TurnsBeaten'
  OBVIOUS
<1>1. CASE UNCHANGED vars
  BY <1>1 DEF vars, TurnsBeaten
<1>2. CASE Next
  <2>1. PICK c \in Cpus : AddBegin(c) \/ WalkBegin(c) \/ Step(c)
    BY <1>2 DEF Next
  <2>2. Watch
    BY <1>2 DEF Next
  <2>3. /\ pc \in [Cpus -> PCs] /\ tries \in [Cpus -> 0 .. RETRIES]
        /\ beaten \in [Cpus -> 0 .. RETRIES] /\ cur \in [Cpus -> 0 .. CREDIT_MAX]
    BY DEF IInv, TypeOK
  <2> USE DEF TurnsBeaten, InLoop, PCs, Goto
  (* Another CPU only sees the slot change.                                  *)
  <2>4. ASSUME NEW d \in Cpus, d # c
        PROVE  pc'[d] = pc[d] /\ tries'[d] = tries[d] /\ cur'[d] = cur[d]
    BY <2>1, <2>3, <2>4
    DEF Step, AddBegin, AddLoad, AddWin, AddLose, AddDrop, Retry, Return, WalkBegin, TryHead,
        WalkEnd, TakeLoad, TakeShort, TakeWin, TakeLose, TakeFail, NextHead, Move
  <2>5. ASSUME NEW d \in Cpus, d # c
        PROVE  /\ InLoop(pc'[d]) => beaten'[d] >= tries'[d] /\ tries'[d] < RETRIES
               /\ pc'[d] \in {"idle", "walk"} => tries'[d] = 0
               /\ pc'[d] \in {"add_cas", "take_cas"} /\ credit' # cur'[d] => beaten'[d] > tries'[d]
    <3>1. beaten'[d] = IF ~InLoop(pc[d]) \/ ~InLoop(pc'[d]) THEN 0
                       ELSE IF credit' # credit /\ beaten[d] < RETRIES THEN beaten[d] + 1
                       ELSE beaten[d]
      BY <2>2, <2>5 DEF Watch
    <3>2. beaten[d] \in 0 .. RETRIES /\ tries[d] \in 0 .. RETRIES
      BY <2>3
    <3> QED BY <2>4, <2>5, <3>1, <3>2
  (* This CPU starts, spends or leaves a turn.                               *)
  <2>6. /\ InLoop(pc'[c]) => beaten'[c] >= tries'[c] /\ tries'[c] < RETRIES
        /\ pc'[c] \in {"idle", "walk"} => tries'[c] = 0
        /\ pc'[c] \in {"add_cas", "take_cas"} /\ credit' # cur'[c] => beaten'[c] > tries'[c]
    <3>1. beaten'[c] = IF ~InLoop(pc[c]) \/ ~InLoop(pc'[c]) THEN 0
                       ELSE IF credit' # credit /\ beaten[c] < RETRIES THEN beaten[c] + 1
                       ELSE beaten[c]
      BY <2>2 DEF Watch
    <3>2. beaten[c] \in 0 .. RETRIES /\ tries[c] \in 0 .. RETRIES
      BY <2>3
    <3>3. CASE AddBegin(c) \/ WalkBegin(c) \/ TryHead(c)
      BY <2>3, <3>1, <3>2, <3>3 DEF AddBegin, WalkBegin, TryHead
    <3>4. CASE AddLoad(c) \/ TakeLoad(c)
      BY <2>3, <3>1, <3>2, <3>4 DEF AddLoad, TakeLoad
    <3>5. CASE AddWin(c) \/ AddDrop(c) \/ WalkEnd(c) \/ Move(c)
      BY <2>3, <3>1, <3>2, <3>5 DEF AddWin, AddDrop, WalkEnd, Move, Return
    <3>6. CASE AddLose(c) \/ TakeLose(c)
      BY <2>3, <3>1, <3>2, <3>6 DEF AddLose, TakeLose, Retry
    <3>7. CASE TakeShort(c) \/ TakeFail(c)
      BY <2>3, <3>1, <3>2, <3>7 DEF TakeShort, TakeFail, NextHead
    <3>8. CASE TakeWin(c)
      BY <2>3, <3>1, <3>2, <3>8 DEF TakeWin
    <3> QED BY <2>1, <3>3, <3>4, <3>5, <3>6, <3>7, <3>8 DEF Step
  <2> QED BY <2>5, <2>6
<1> QED BY <1>1, <1>2

(* Nothing is given up while the slot is quiet: a dropped deposit or a lost *)
(* reservation met at least as many changes as it had turns.                *)
THEOREM LostOnlyToOthers == Spec => GivesUpBeaten
<1>1. IInv /\ TurnsBeaten /\ [Next]_vars =>
        [\A c \in Cpus :
           /\ pc[c] \in {"add_cas", "take_cas"} /\ credit # cur[c]
           /\ pc'[c] \in {"idle", "walk"}
           => beaten[c] >= RETRIES]_vars
  <2> SUFFICES ASSUME IInv, TurnsBeaten, Next, NEW c \in Cpus,
                      pc[c] \in {"add_cas", "take_cas"}, credit # cur[c],
                      pc'[c] \in {"idle", "walk"}
               PROVE  beaten[c] >= RETRIES
    OBVIOUS
  <2>1. PICK d \in Cpus : AddBegin(d) \/ WalkBegin(d) \/ Step(d)
    BY DEF Next
  <2>2. /\ pc \in [Cpus -> PCs] /\ tries[c] \in 0 .. RETRIES /\ beaten[c] \in 0 .. RETRIES
    BY DEF IInv, TypeOK
  <2>3. d = c
    BY <2>1, <2>2
    DEF Step, AddBegin, AddLoad, AddWin, AddLose, AddDrop, Retry, Return, WalkBegin, TryHead,
        WalkEnd, TakeLoad, TakeShort, TakeWin, TakeLose, TakeFail, NextHead, Move, Goto
  <2>4. tries[c] + 1 = RETRIES
    BY <2>1, <2>2, <2>3
    DEF Step, AddBegin, AddLoad, AddWin, AddLose, AddDrop, Retry, WalkBegin, TryHead,
        WalkEnd, TakeLoad, TakeShort, TakeWin, TakeLose, TakeFail, Move, Goto
  <2>5. beaten[c] > tries[c]
    BY DEF TurnsBeaten
  <2> QED BY <2>2, <2>4, <2>5
<1>2. Init => TurnsBeaten
  BY InitTurns
<1>3. IInv /\ TurnsBeaten /\ [Next]_vars => TurnsBeaten'
  BY StepTurns
<1> QED BY <1>1, <1>2, <1>3, Invariance, PTL DEF Spec, GivesUpBeaten

------------------------------------------------------------------------------
(* The loops of loads and swaps implement the atomic account.               *)

LEMMA InitRefines == Init => Ledger!Init
BY DEF Init, Ledger!Init, Held

LEMMA StepRefines == IInv /\ [Next]_vars => [Ledger!Next]_(Ledger!vars)
<1> SUFFICES ASSUME IInv, [Next]_vars
             PROVE  Ledger!Next \/ UNCHANGED <<credit, Held>>
  BY DEF Ledger!vars
<1> USE DEF IInv, TypeOK, LocalInv, Goto
<1>1. CASE UNCHANGED vars
  BY <1>1 DEF vars, Held
<1>2. ASSUME NEW c \in Cpus, AddBegin(c) PROVE UNCHANGED <<credit, Held>>
  BY <1>2 DEF AddBegin, Held
<1>3. ASSUME NEW c \in Cpus, AddLoad(c) PROVE UNCHANGED <<credit, Held>>
  BY <1>3 DEF AddLoad, Held
<1>5. ASSUME NEW c \in Cpus, AddLose(c) PROVE UNCHANGED <<credit, Held>>
  BY <1>5 DEF AddLose, Retry, Held
<1>6. ASSUME NEW c \in Cpus, AddDrop(c) PROVE UNCHANGED <<credit, Held>>
  BY <1>6 DEF AddDrop, Return, Held
<1>7. ASSUME NEW c \in Cpus, WalkBegin(c) PROVE UNCHANGED <<credit, Held>>
  BY <1>7 DEF WalkBegin, Held
<1>8. ASSUME NEW c \in Cpus, TryHead(c) PROVE UNCHANGED <<credit, Held>>
  <2>1. \A o \in Cpus : paid[o] => arg'[o] = arg[o]
    BY <1>8 DEF TryHead
  <2> QED BY <1>8, <2>1 DEF TryHead, Held
<1>9. ASSUME NEW c \in Cpus, WalkEnd(c) PROVE UNCHANGED <<credit, Held>>
  BY <1>9 DEF WalkEnd, Return, Held
<1>10. ASSUME NEW c \in Cpus, TakeLoad(c) PROVE UNCHANGED <<credit, Held>>
  BY <1>10 DEF TakeLoad, Held
<1>11. ASSUME NEW c \in Cpus, TakeShort(c) PROVE UNCHANGED <<credit, Held>>
  BY <1>11 DEF TakeShort, NextHead, Held
<1>13. ASSUME NEW c \in Cpus, TakeLose(c) PROVE UNCHANGED <<credit, Held>>
  BY <1>13 DEF TakeLose, Retry, Held
<1>14. ASSUME NEW c \in Cpus, TakeFail(c) PROVE UNCHANGED <<credit, Held>>
  BY <1>14 DEF TakeFail, NextHead, Held
<1>4. ASSUME NEW c \in Cpus, AddWin(c) PROVE Ledger!Next
  <2>1. arg[c] \in Deltas /\ ~paid[c]
    BY <1>4 DEF AddWin
  <2>2. Held' = Held
    BY <1>4, <2>1 DEF AddWin, Return, Held
  <2>3. Ledger!Deposit(arg[c])
    BY <1>4, <2>2 DEF AddWin, Capped, Ledger!Deposit
  <2> QED BY <2>1, <2>3 DEF Ledger!Next
<1>12. ASSUME NEW c \in Cpus, TakeWin(c) PROVE Ledger!Next
  <2>1. PICK h \in Heads : arg[c] = h.exceed
    BY <1>12 DEF TakeWin
  <2>2. ~paid[c] /\ Need(arg[c]) \in Nat /\ ~Short(cur[c], arg[c])
    BY <1>12 DEF TakeWin, Need
  <2>3. Held[c] = 0 /\ Held' = [Held EXCEPT ![c] = Need(arg[c])]
    BY <1>12, <2>2 DEF TakeWin, Held
  <2>4. Ledger!Reserve(c, Need(arg[c]))
    BY <1>12, <2>2, <2>3 DEF TakeWin, Short, Ledger!Reserve
  <2> QED BY <2>1, <2>4 DEF Ledger!Next
<1>15. ASSUME NEW c \in Cpus, Move(c) PROVE Ledger!Next \/ UNCHANGED <<credit, Held>>
  <2>1. CASE paid[c]
    <3>1. Held[c] # 0
      BY <2>1 DEF Held, Need
    <3>2. Held' = [Held EXCEPT ![c] = 0]
      BY <1>15 DEF Move, Return, Held
    <3>3. Ledger!Settle(c)
      BY <1>15, <3>1, <3>2 DEF Move, Ledger!Settle
    <3> QED BY <3>3 DEF Ledger!Next
  <2>2. CASE ~paid[c]
    BY <1>15, <2>2 DEF Move, Return, Held
  <2> QED BY <2>1, <2>2
<1> QED
  BY <1>1, <1>2, <1>3, <1>4, <1>5, <1>6, <1>7, <1>8, <1>9, <1>10, <1>11,
     <1>12, <1>13, <1>14, <1>15 DEF Next, Step

(* Every behaviour of the load and swap loops is a behaviour of the atomic  *)
(* account: no update is lost or spent twice however the CPUs interleave.   *)
THEOREM Refinement == Spec => LedgerSpec
BY InitRefines, StepRefines, Invariance, PTL DEF Spec, LedgerSpec, Ledger!Spec
=============================================================================
