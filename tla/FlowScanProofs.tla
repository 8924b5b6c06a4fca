---------------------------- MODULE FlowScanProofs ----------------------------
(* Proofs about FlowScan for any number of CPUs, any masks, nodes and        *)
(* window sizes.                                                             *)
EXTENDS FlowScan, FiniteSetTheorems, WellFoundedInduction, SequenceTheorems, TLAPS

(* How far CPU p lies ahead of a cursor, from 1 to N.                        *)
Dist(cu, p) == IF p > cu THEN p - cu ELSE p - cu + N

CursorOK ==
  /\ cursor \in [Scanners -> Cpus]
  /\ skipped \in [Scanners -> [Cpus -> Nat]]

(* Every move that leaves p out brings the cursor two closer to it, and one  *)
(* that is closer than the narrowest window is not left out.                 *)
LapInv ==
  /\ CursorOK
  /\ \A w \in Scanners : \A p \in Cpus :
       skipped[w][p] = 0 \/ /\ 2 * skipped[w][p] + Dist(cursor[w], p) <= N
                            /\ Dist(cursor[w], p) >= STEAL_MIN - 1

(* Wrapping once is subtracting N (intf.h:1725-1749).                        *)
LEMMA Wrap ==
  ASSUME NEW x \in Nat, x < N
  PROVE  x % N = x /\ (x + N) % N = x
<1>1. N \in Nat /\ N > 0
  BY ScanConsts
<1> QED BY <1>1

(* Below 2N one subtraction is enough.                                       *)
LEMMA WrapOnce ==
  ASSUME NEW x \in Nat, x < N + N
  PROVE  x % N = IF x < N THEN x ELSE x - N
<1>1. CASE x < N
  BY <1>1, Wrap
<1>2. CASE ~(x < N)
  <2>1. x - N \in Nat /\ x - N < N /\ x = (x - N) + N
    BY <1>2, ScanConsts
  <2>2. ((x - N) + N) % N = x - N
    BY <2>1, Wrap
  <2> QED BY <1>2, <2>1, <2>2
<1> QED BY <1>1, <1>2

LEMMA DistBounds ==
  ASSUME NEW cu \in Cpus, NEW p \in Cpus
  PROVE  Dist(cu, p) \in Nat /\ 1 <= Dist(cu, p) /\ Dist(cu, p) <= N
BY ScanConsts DEF Dist, Cpus

(* Every CPU no farther than the width is in the window.                     *)
LEMMA WindowCovers ==
  ASSUME NEW cu \in Cpus, NEW p \in Cpus, NEW width \in Nat, Dist(cu, p) <= width
  PROVE  p \in Window(cu, width)
<1> USE ScanConsts DEF Cpus
<1> DEFINE i == Dist(cu, p) - 1
<1>1. i \in 0 .. Lesser(width, N) - 1
  BY DEF Dist, Lesser
<1>2. (Start(cu) + i) % N = p
  <2>1. CASE cu + 1 < N
    <3>1. Start(cu) = cu + 1
      BY <2>1, Wrap DEF Start
    <3>2. CASE p > cu
      <4>1. Start(cu) + i = p
        BY <3>1, <3>2 DEF Dist
      <4> QED BY <4>1, Wrap
    <3>3. CASE ~(p > cu)
      <4>1. Start(cu) + i = p + N
        BY <3>1, <3>3 DEF Dist
      <4> QED BY <4>1, Wrap
    <3> QED BY <3>2, <3>3
  <2>2. CASE cu + 1 = N
    <3>1. Start(cu) = 0
      <4>1. cu + 1 = 0 + N
        BY <2>2
      <4> QED BY <4>1, Wrap DEF Start
    <3>2. Start(cu) + i = p
      BY <2>2, <3>1 DEF Dist
    <3> QED BY <3>2, Wrap
  <2> QED BY <2>1, <2>2
<1> QED BY <1>1, <1>2 DEF Window

(* One move takes the cursor two closer to whoever lies farther than two.    *)
LEMMA MoveCloser ==
  ASSUME NEW cu \in Cpus
  PROVE  /\ NextStart(cu) \in Cpus
         /\ \A p \in Cpus : Dist(cu, p) > 2 => Dist(NextStart(cu), p) = Dist(cu, p) - 2
<1> USE ScanConsts DEF Cpus
<1>1. CASE cu + 2 < N
  <2>1. NextStart(cu) = cu + 2
    BY <1>1, Wrap DEF NextStart
  <2> QED BY <1>1, <2>1 DEF Dist
<1>2. CASE ~(cu + 2 < N)
  <2>1. NextStart(cu) = cu + 2 - N
    <3> DEFINE x == cu + 2
    <3>1. x \in Nat /\ x < N + N
      OBVIOUS
    <3> HIDE DEF x
    <3>2. x % N = IF x < N THEN x ELSE x - N
      BY <3>1, WrapOnce
    <3> QED BY <1>2, <3>2 DEF NextStart, x
  <2> QED BY <1>2, <2>1 DEF Dist
<1> QED BY <1>1, <1>2

(* A move over a window no narrower than the narrowest keeps the lap.        *)
LEMMA AdvanceLap ==
  ASSUME LapInv, NEW w \in Scanners, NEW width \in Nat, width >= STEAL_MIN,
         Advance(w, width)
  PROVE  LapInv'
<1> USE ScanConsts
<1>0. cursor[w] \in Cpus /\ NextStart(cursor[w]) \in Cpus
  BY MoveCloser DEF LapInv, CursorOK
<1>1. CursorOK'
  BY <1>0 DEF LapInv, CursorOK, Advance
<1>2. ASSUME NEW v \in Scanners, NEW p \in Cpus, v # w
      PROVE  cursor'[v] = cursor[v] /\ skipped'[v] = skipped[v]
  BY <1>2 DEF Advance, LapInv, CursorOK
<1>3. ASSUME NEW p \in Cpus
      PROVE  skipped'[w][p] = 0 \/ /\ 2 * skipped'[w][p] + Dist(cursor'[w], p) <= N
                                   /\ Dist(cursor'[w], p) >= STEAL_MIN - 1
  <2>1. /\ cursor'[w] = NextStart(cursor[w])
        /\ skipped'[w][p] = IF p \in Window(cursor[w], width) THEN 0 ELSE skipped[w][p] + 1
        /\ skipped[w][p] \in Nat
    BY DEF Advance, LapInv, CursorOK
  <2>2. CASE p \in Window(cursor[w], width)
    BY <2>1, <2>2
  <2>3. CASE p \notin Window(cursor[w], width)
    <3> DEFINE d == Dist(cursor[w], p)
    <3>1. d \in Nat /\ d <= N
      BY <1>0, DistBounds
    <3>2. d > width
      BY <1>0, <2>3, <3>1, WindowCovers
    <3>3. Dist(cursor'[w], p) = d - 2
      BY <1>0, <2>1, <3>1, <3>2, MoveCloser
    <3>4. 2 * skipped[w][p] + d <= N
      BY <2>1, <3>1 DEF LapInv
    <3>5. skipped'[w][p] = skipped[w][p] + 1
      BY <2>1, <2>3
    <3> HIDE DEF d
    <3> QED BY <2>1, <3>1, <3>2, <3>3, <3>4, <3>5
  <2> QED BY <2>2, <2>3
<1> QED BY <1>1, <1>2, <1>3 DEF LapInv

LEMMA WidthIsWide == \A c \in Cpus : Width(c) \in Nat /\ Width(c) >= STEAL_MIN
BY ScanConsts DEF Width, Lesser

LEMMA StepLap == LapInv /\ [Next]_vars => LapInv'
<1> SUFFICES ASSUME LapInv, [Next]_vars PROVE LapInv'
  OBVIOUS
<1>1. CASE UNCHANGED <<cursor, skipped>>
  BY <1>1 DEF LapInv, CursorOK
<1>2. CASE \E w \in Scanners : Scan(w) /\ Advance(w, MAX_VISIT)
  BY <1>2, AdvanceLap, ScanConsts
<1>3. CASE \E w \in Scanners : Advance(w, Width(w))
  BY <1>3, AdvanceLap, WidthIsWide, ScanConsts
<1>4. QED
  BY <1>1, <1>2, <1>3
     DEF Next, vars, WakeIdle, WakeStay, Scan, Steal, Take, Block

LEMMA InitLap == Init => LapInv
BY ScanConsts DEF Init, LapInv, CursorOK, Cpus

(* The narrowest window comes to every CPU within one lap at stride two, for *)
(* any number of CPUs and however wake-ups and steals alternate              *)
(* (scan.bpf.c:410-433, dispatch.bpf.c:541-551).                             *)
THEOREM NobodyPassedOver == Spec => []NeverPassedOver
<1>1. LapInv /\ [Next]_vars => LapInv'
  BY StepLap
<1>2. LapInv => NeverPassedOver
  <2> SUFFICES ASSUME LapInv, NEW w \in Scanners, NEW p \in Cpus
               PROVE  skipped[w][p] = 0 \/ 2 * skipped[w][p] <= N - STEAL_MIN + 1
    BY DEF NeverPassedOver
  <2>1. skipped[w][p] \in Nat /\ Dist(cursor[w], p) \in Nat
    BY DistBounds DEF LapInv, CursorOK
  <2> QED BY <2>1, ScanConsts DEF LapInv
<1> QED BY InitLap, <1>1, <1>2, PTL DEF Spec

(* On a host of at least the two window sizes the two scans of a select      *)
(* visit no CPU twice (scan.bpf.c:13-16, select_cpu.bpf.c:9-12).             *)
THEOREM WindowsDisjoint ==
  ASSUME NEW cu \in Cpus, MAX_VISIT + BSF_MAX <= N,
         NEW i \in 0 .. MAX_VISIT - 1, NEW j \in 0 .. BSF_MAX - 1
  PROVE  (Start(cu) + i) % N # (((Start(cu) + MAX_VISIT) % N) + j) % N
<1> USE ScanConsts
<1>1. Start(cu) \in Nat /\ Start(cu) < N
  <2>1. cu \in Nat /\ cu < N
    BY DEF Cpus
  <2>2. cu + 1 \in Nat /\ cu + 1 < N + N
    BY <2>1
  <2> QED BY <2>1, <2>2, WrapOnce DEF Start
<1> DEFINE s == Start(cu)
           b == (s + MAX_VISIT) % N
<1>2. b = IF s + MAX_VISIT < N THEN s + MAX_VISIT ELSE s + MAX_VISIT - N
  <2> DEFINE x == s + MAX_VISIT
  <2>0. x = s + MAX_VISIT
    OBVIOUS
  <2>1. x \in Nat /\ x < N + N
    BY <1>1
  <2> HIDE DEF x
  <2>2. x % N = IF x < N THEN x ELSE x - N
    BY <2>1, WrapOnce
  <2> QED BY <1>1, <2>0, <2>1, <2>2
<1>3. b \in Nat /\ b < N
  BY <1>1, <1>2
<1> HIDE DEF s, b
<1>4. s \in Nat /\ s < N
  BY <1>1 DEF s
<1>5. (s + i) % N = IF s + i < N THEN s + i ELSE s + i - N
  <2> DEFINE x == s + i
  <2>0. x = s + i
    OBVIOUS
  <2>1. x \in Nat /\ x < N + N
    BY <1>4
  <2> HIDE DEF x
  <2>2. x % N = IF x < N THEN x ELSE x - N
    BY <2>1, WrapOnce
  <2> QED BY <1>4, <2>0, <2>1, <2>2
<1>6. (b + j) % N = IF b + j < N THEN b + j ELSE b + j - N
  <2> DEFINE x == b + j
  <2>0. x = b + j
    OBVIOUS
  <2>1. x \in Nat /\ x < N + N
    BY <1>3
  <2> HIDE DEF x
  <2>2. x % N = IF x < N THEN x ELSE x - N
    BY <2>1, WrapOnce
  <2> QED BY <1>3, <2>0, <2>1, <2>2
<1>7. (s + i) % N # (b + j) % N
  BY <1>2, <1>3, <1>4, <1>5, <1>6
<1> QED BY <1>7 DEF s, b

------------------------------------------------------------------------------
(* The best so far                                                           *)

(* A set of numbers that is not empty has a least one.                       *)
LEMMA HasLeast ==
  ASSUME NEW S, S \subseteq Nat, S # {}
  PROVE  \E i \in S : \A j \in S : i <= j
<1> DEFINE Less == {x \in Nat \X Nat : x[1] < x[2]}
<1>1. IsWellFoundedOn(Less, Nat)
  BY NatLessThanWellFounded, Zenon DEF OpToRel
<1>2. \E i \in S : \A j \in S : <<j, i>> \notin Less
  <2> HIDE DEF Less
  <2> QED BY <1>1, WFMin
<1>3. \A i, j \in Nat : <<j, i>> \notin Less => i <= j
  <2> TAKE i, j \in Nat
  <2> HAVE <<j, i>> \notin Less
  <2>1. <<j, i>> \in Nat \X Nat /\ <<j, i>>[1] = j /\ <<j, i>>[2] = i
    OBVIOUS
  <2>2. ~(j < i)
    BY <2>1
  <2> QED BY <2>2
<1> HIDE DEF Less
<1> QED BY <1>2, <1>3

(* One step of a scan: the best so far, or the peer.                         *)
Better(p, b, fits, beats) == IF p \in fits /\ (b = NoCpu \/ <<p, b>> \in beats) THEN p ELSE b

(* The bests of the first n steps.                                           *)
Bests(f, n, peers, fits, beats) ==
  f = [i \in 0 .. n |-> IF i = 0 THEN NoCpu ELSE Better(peers[i], f[i - 1], fits, beats)]

LEMMA BestsExist ==
  ASSUME NEW n \in Nat, NEW peers, NEW fits, NEW beats
  PROVE  \E f : Bests(f, n, peers, fits, beats)
<1> DEFINE P(k) == \E f : Bests(f, k, peers, fits, beats)
           S == {k \in Nat : ~P(k)}
<1> SUFFICES ASSUME S # {} PROVE FALSE
  OBVIOUS
<1>1. PICK k \in S : \A j \in S : k <= j
  <2>1. S \subseteq Nat
    OBVIOUS
  <2> HIDE DEF S
  <2> QED BY <2>1, HasLeast
<1>2. k # 0
  <2> DEFINE z == [i \in 0 .. 0 |-> NoCpu]
  <2>1. z = [i \in 0 .. 0 |-> IF i = 0 THEN NoCpu ELSE Better(peers[i], z[i - 1], fits, beats)]
    OBVIOUS
  <2>2. P(0)
    BY <2>1 DEF Bests
  <2> QED BY <2>2, <1>1
<1>3. k - 1 \in Nat /\ P(k - 1)
  BY <1>1, <1>2
<1>4. PICK f : Bests(f, k - 1, peers, fits, beats)
  BY <1>3
<1> DEFINE g == [i \in 0 .. k |-> IF i < k THEN f[i] ELSE Better(peers[k], f[k - 1], fits, beats)]
<1>5. \A i \in 0 .. k - 1 : f[i] = IF i = 0 THEN NoCpu ELSE Better(peers[i], f[i - 1], fits, beats)
  BY <1>4 DEF Bests
<1>6. ASSUME NEW i \in 0 .. k
      PROVE  g[i] = IF i = 0 THEN NoCpu ELSE Better(peers[i], g[i - 1], fits, beats)
  <2>1. i # 0 => i - 1 \in 0 .. k - 1 /\ g[i - 1] = f[i - 1]
    BY <1>3
  <2>2. CASE i < k
    BY <1>3, <1>5, <2>1, <2>2
  <2>3. CASE i = k
    BY <1>2, <1>3, <2>1, <2>3
  <2> QED BY <1>3, <2>2, <2>3
<1>7. Bests(g, k, peers, fits, beats)
  <2> HIDE DEF g
  <2>1. g = [i \in 0 .. k |-> g[i]]
    BY DEF g
  <2> QED BY <1>6, <2>1 DEF Bests
<1> HIDE DEF g
<1> QED BY <1>1, <1>7

LEMMA WinnerRec ==
  ASSUME NEW peers, Len(peers) \in Nat, NEW fits, NEW beats
  PROVE  \E f : Bests(f, Len(peers), peers, fits, beats) /\ Winner(peers, fits, beats) = f[Len(peers)]
<1> DEFINE f == CHOOSE f : Bests(f, Len(peers), peers, fits, beats)
<1>1. Bests(f, Len(peers), peers, fits, beats)
  BY BestsExist
<1>2. Winner(peers, fits, beats) = f[Len(peers)]
  BY DEF Winner, Bests, Better
<1> HIDE DEF f
<1> QED BY <1>1, <1>2

(* The peers of the first k steps that fit, and the best of a set.           *)
Met(peers, k, fits) == {peers[i] : i \in 1 .. k} \cap fits
IsBest(b, S, beats) ==
  IF S = {} THEN b = NoCpu ELSE b \in S /\ \A q \in S : q = b \/ <<b, q>> \in beats

(* A scan finds the best of the peers that fit, for any order that compares  *)
(* them all.                                                                 *)
LEMMA WinnerBest ==
  ASSUME NEW peers \in Seq(Cpus), NEW fits \in SUBSET Cpus, NEW beats,
         \A p, q \in fits : p = q \/ <<p, q>> \in beats \/ <<q, p>> \in beats,
         \A p, q, r \in fits : <<p, q>> \in beats /\ <<q, r>> \in beats => <<p, r>> \in beats
  PROVE  IsBest(Winner(peers, fits, beats), Met(peers, Len(peers), fits), beats)
<1> DEFINE L == Len(peers)
<1>1. L \in Nat /\ \A i \in 1 .. L : peers[i] \in Cpus
  BY LenProperties, ElementOfSeq
<1> HIDE DEF L
<1>2. PICK f : Bests(f, L, peers, fits, beats) /\ Winner(peers, fits, beats) = f[L]
  BY <1>1, WinnerRec DEF L
<1>3. /\ f[0] = NoCpu
      /\ \A i \in 1 .. L : f[i] = Better(peers[i], f[i - 1], fits, beats)
  BY <1>1, <1>2 DEF Bests
<1>4. NoCpu \notin fits
  BY ScanConsts DEF NoCpu, Cpus
<1> DEFINE Good(k) == IsBest(f[k], Met(peers, k, fits), beats)
           Bad == {k \in 0 .. L : ~Good(k)}
<1>5. Good(0)
  <2>1. Met(peers, 0, fits) = {}
    BY DEF Met
  <2> QED BY <1>3, <2>1 DEF IsBest
<1>6. ASSUME NEW k \in 1 .. L, Good(k - 1) PROVE Good(k)
  <2> DEFINE b == f[k - 1]
             p == peers[k]
             old == Met(peers, k - 1, fits)
             new == Met(peers, k, fits)
  <2>1. new = IF p \in fits THEN old \cup {p} ELSE old
    <3>1. 1 .. k = (1 .. k - 1) \cup {k}
      BY <1>1
    <3>2. {peers[i] : i \in 1 .. k} = {peers[i] : i \in 1 .. k - 1} \cup {p}
      BY <3>1
    <3> QED BY <3>2 DEF Met
  <2>2. f[k] = Better(p, b, fits, beats)
    BY <1>3
  <2>3. IsBest(b, old, beats) /\ old \subseteq fits
    BY <1>6 DEF Met
  <2> HIDE DEF b, p, old, new
  <2>4. CASE p \notin fits
    BY <2>1, <2>2, <2>3, <2>4 DEF IsBest, Better, new
  <2>5. CASE p \in fits /\ old = {}
    BY <2>1, <2>2, <2>3, <2>5 DEF IsBest, Better, new
  <2>6. CASE p \in fits /\ old # {} /\ <<p, b>> \in beats
    <3>1. f[k] = p /\ b \in old /\ \A q \in old : q = b \/ <<b, q>> \in beats
      BY <2>2, <2>3, <2>6 DEF IsBest, Better
    <3>2. \A q \in old : <<p, q>> \in beats
      BY <2>3, <2>6, <3>1
    <3> QED BY <2>1, <2>6, <3>1, <3>2 DEF IsBest, new
  <2>7. CASE p \in fits /\ old # {} /\ <<p, b>> \notin beats
    <3>1. b \in old /\ (\A q \in old : q = b \/ <<b, q>> \in beats) /\ b # NoCpu
      BY <1>4, <2>3, <2>7 DEF IsBest
    <3>2. f[k] = b
      BY <2>2, <2>7, <3>1 DEF Better
    <3>3. p = b \/ <<b, p>> \in beats
      BY <2>3, <2>7, <3>1
    <3> QED BY <2>1, <2>7, <3>1, <3>2, <3>3 DEF IsBest, new
  <2> QED BY <2>4, <2>5, <2>6, <2>7
<1> HIDE DEF Good
<1>7. Bad = {}
  <2> SUFFICES ASSUME Bad # {} PROVE FALSE
    OBVIOUS
  <2>1. PICK k \in Bad : \A j \in Bad : k <= j
    <3>1. Bad \subseteq Nat
      BY <1>1
    <3> HIDE DEF Bad
    <3> QED BY <3>1, HasLeast
  <2>2. k # 0 /\ k \in 1 .. L
    BY <1>1, <1>5, <2>1
  <2>3. k - 1 \in 0 .. L /\ ~(k <= k - 1)
    BY <1>1, <2>2
  <2>4. Good(k - 1)
    BY <2>1, <2>3
  <2> QED BY <1>6, <2>1, <2>2, <2>4
<1>8. Good(L)
  <2>1. L \in 0 .. L
    BY <1>1
  <2> QED BY <1>7, <2>1
<1> QED BY <1>2, <1>8 DEF Good, L

------------------------------------------------------------------------------
(* The orders of the two scans                                               *)

MinType == minv \in [Cpus -> 0 .. VMAX]

LEMMA LowerOrder ==
  ASSUME MinType, NEW prev
  PROVE  /\ \A p, q \in Cpus : p = q \/ LowerMin(p, q, prev) \/ LowerMin(q, p, prev)
         /\ \A p, q, r \in Cpus :
              LowerMin(p, q, prev) /\ LowerMin(q, r, prev) => LowerMin(p, r, prev)
<1>1. \A p \in Cpus : p \in Int /\ minv[p] \in Int
  BY ScanConsts DEF MinType, Cpus
<1> QED BY <1>1 DEF LowerMin, WinsTie

LEMMA SlowOrder ==
  ASSUME MinType, NEW w, NEW prev
  PROVE  /\ \A p, q \in Cpus : p = q \/ SlowBeats(p, q, w, prev) \/ SlowBeats(q, p, w, prev)
         /\ \A p, q, r \in Cpus :
              SlowBeats(p, q, w, prev) /\ SlowBeats(q, r, w, prev) => SlowBeats(p, r, w, prev)
BY LowerOrder DEF SlowBeats

DrainType == \A p \in Cpus : Drain(p) \in Nat

LEMMA BestOrder ==
  ASSUME MinType, DrainType, NEW prev
  PROVE  /\ \A p, q \in Cpus : p = q \/ BestBeats(p, q, prev) \/ BestBeats(q, p, prev)
         /\ \A p, q, r \in Cpus :
              BestBeats(p, q, prev) /\ BestBeats(q, r, prev) => BestBeats(p, r, prev)
<1>1. \A p \in Cpus : Drain(p) \in Int
  BY DEF DrainType
<1> QED BY <1>1, LowerOrder DEF BestBeats

------------------------------------------------------------------------------
(* Windows                                                                   *)

(* Equal up to whole laps.                                                   *)
Laps(a, b) == \E q \in Int : a = b + q * N

LEMMA LapsOf ==
  ASSUME NEW a \in Int
  PROVE  a % N \in 0 .. N - 1 /\ Laps(a, a % N)
<1>1. N \in Nat /\ N > 0
  BY ScanConsts
<1>2. a % N \in 0 .. N - 1
  BY <1>1
<1>3. a \div N \in Int /\ a = N * (a \div N) + (a % N)
  BY <1>1
<1>4. a = (a % N) + (a \div N) * N
  BY <1>1, <1>2, <1>3
<1> QED BY <1>2, <1>3, <1>4 DEF Laps

LEMMA LapsSame ==
  ASSUME NEW x \in 0 .. N - 1, NEW y \in 0 .. N - 1, Laps(x, y)
  PROVE  x = y
<1>1. N \in Nat /\ N > 0
  BY ScanConsts
<1>2. PICK q \in Int : x = y + q * N
  BY DEF Laps
<1>3. CASE q >= 1
  <2>1. q * N >= N
    BY <1>1, <1>3
  <2> QED BY <1>1, <1>2, <2>1
<1>4. CASE q <= -1
  <2>1. q * N <= -N
    BY <1>1, <1>4
  <2> QED BY <1>1, <1>2, <2>1
<1>5. CASE q = 0
  BY <1>1, <1>2, <1>5
<1> QED BY <1>3, <1>4, <1>5

LEMMA LapsEquiv ==
  ASSUME NEW a \in Int, NEW b \in Int, Laps(a, b)
  PROVE  /\ Laps(b, a)
         /\ \A c \in Int : Laps(a + c, b + c)
         /\ \A c \in Int : Laps(b, c) => Laps(a, c)
<1>1. N \in Int
  BY ScanConsts
<1>2. PICK q \in Int : a = b + q * N
  BY DEF Laps
<1>3. q * N \in Int /\ (-q) * N = -(q * N)
  BY <1>1
<1>4. Laps(b, a)
  <2>1. -q \in Int /\ b = a + (-q) * N
    BY <1>2, <1>3
  <2> QED BY <2>1 DEF Laps
<1>5. ASSUME NEW c \in Int PROVE Laps(a + c, b + c)
  <2>1. a + c = (b + c) + q * N
    BY <1>2, <1>3
  <2> QED BY <2>1 DEF Laps
<1>6. ASSUME NEW c \in Int, Laps(b, c) PROVE Laps(a, c)
  <2>1. PICK r \in Int : b = c + r * N
    BY <1>6 DEF Laps
  <2>2. r * N \in Int /\ (q + r) * N = q * N + r * N
    BY <1>1
  <2>3. q + r \in Int /\ a = c + (q + r) * N
    BY <1>2, <1>3, <2>1, <2>2
  <2> QED BY <2>3 DEF Laps
<1> QED BY <1>4, <1>5, <1>6

LEMMA LapsZero ==
  ASSUME NEW a \in Int
  PROVE  a % N = 0 <=> Laps(a, 0)
<1>1. 0 \in 0 .. N - 1 /\ N \in Int
  BY ScanConsts
<1>2. a % N \in 0 .. N - 1 /\ a % N \in Int /\ Laps(a, a % N)
  BY <1>1, LapsOf
<1>3. ASSUME Laps(a, 0) PROVE a % N = 0
  <2>1. Laps(a % N, a)
    BY <1>2, LapsEquiv
  <2>2. Laps(a % N, 0)
    BY <1>2, <1>3, <2>1, LapsEquiv
  <2> QED BY <1>1, <1>2, <2>2, LapsSame
<1> QED BY <1>2, <1>3

(* The peers a loop visits are the CPUs at a distance of its width or less.  *)
LEMMA PeersAhead ==
  ASSUME NEW cu \in Cpus, NEW start \in Cpus, NEW off \in Nat, NEW width \in Nat,
         Laps(cu + off + 1, start)
  PROVE  LET s == Peers(start, width)
         IN  /\ s \in Seq(Cpus)
             /\ {s[i] : i \in 1 .. Len(s)}
                  = {p \in Cpus : \E k \in off + 1 .. off + width : (cu + k - p) % N = 0}
<1> DEFINE s == Peers(start, width)
           m == Lesser(width, N)
<1>1. /\ N \in Nat /\ N > 0 /\ cu \in Int /\ start \in Int /\ m \in Nat /\ m <= width /\ m <= N
      /\ \A p \in Cpus : p \in Int
  BY ScanConsts DEF Cpus, Lesser
<1>2. s = [i \in 1 .. m |-> (start + i - 1) % N]
  BY DEF Peers
<1> HIDE DEF m
<1>3. \A i \in 1 .. m : start + i - 1 \in Int /\ (start + i - 1) % N \in Cpus
  BY <1>1, LapsOf DEF Cpus
<1>4. s \in Seq(Cpus)
  <2>1. s \in [1 .. m -> Cpus]
    BY <1>2, <1>3
  <2> QED BY <1>1, <2>1, SeqDef
<1>5. Len(s) = m /\ \A i \in 1 .. m : s[i] = (start + i - 1) % N
  <2>1. Len(s) \in Nat /\ DOMAIN s = 1 .. Len(s) /\ DOMAIN s = 1 .. m
    BY <1>2, <1>4, LenProperties
  <2> QED BY <1>1, <1>2, <2>1
<1> HIDE DEF s
<1>6. ASSUME NEW p \in Cpus, NEW k \in Int
      PROVE  (cu + k - p) % N = 0 <=> Laps(start + (k - off) - 1, p)
  <2>1. p \in Int /\ -p \in Int /\ cu + k - p \in Int /\ cu + k \in Int /\ k - off - 1 \in Int
    BY <1>1, <1>6
  <2>2. (cu + k - p) % N = 0 <=> Laps(cu + k - p, 0)
    BY <2>1, LapsZero
  <2>3. Laps(cu + k - p, 0) <=> Laps(cu + k, p)
    <3>1. (cu + k - p) + p = cu + k /\ 0 + p = p /\ (cu + k) + (-p) = cu + k - p /\ p + (-p) = 0
      BY <1>1, <2>1
    <3>2. 0 \in Int
      OBVIOUS
    <3>3. ASSUME Laps(cu + k - p, 0) PROVE Laps(cu + k, p)
      <4>1. Laps((cu + k - p) + p, 0 + p)
        BY <2>1, <3>2, <3>3, LapsEquiv
      <4> QED BY <3>1, <4>1
    <3>4. ASSUME Laps(cu + k, p) PROVE Laps(cu + k - p, 0)
      <4>1. Laps((cu + k) + (-p), p + (-p))
        BY <2>1, <3>4, LapsEquiv
      <4> QED BY <3>1, <4>1
    <3> QED BY <3>3, <3>4
  <2>4. Laps(cu + k, start + (k - off) - 1) /\ Laps(start + (k - off) - 1, cu + k)
    <3>1. cu + off + 1 \in Int /\ start + (k - off) - 1 \in Int
      BY <1>1, <1>6
    <3>2. (cu + off + 1) + (k - off - 1) = cu + k /\ start + (k - off - 1) = start + (k - off) - 1
      BY <1>1, <1>6
    <3>3. Laps(cu + k, start + (k - off) - 1)
      <4>1. Laps((cu + off + 1) + (k - off - 1), start + (k - off - 1))
        BY <1>1, <2>1, <3>1, LapsEquiv
      <4> QED BY <3>2, <4>1
    <3> QED BY <2>1, <3>1, <3>3, LapsEquiv
  <2>5. start + (k - off) - 1 \in Int
    BY <1>1, <1>6
  <2> QED BY <2>1, <2>2, <2>3, <2>4, <2>5, LapsEquiv
<1>7. ASSUME NEW i \in 1 .. m
      PROVE  \E k \in off + 1 .. off + width : (cu + k - s[i]) % N = 0
  <2>1. off + i \in off + 1 .. off + width /\ off + i \in Int /\ (off + i) - off = i
    BY <1>1
  <2>2. Laps(start + i - 1, s[i]) /\ s[i] \in Cpus
    BY <1>3, <1>5, LapsOf
  <2>3. (cu + (off + i) - s[i]) % N = 0
    BY <1>6, <2>1, <2>2
  <2> QED BY <2>1, <2>3
<1>8. ASSUME NEW p \in Cpus, NEW k0 \in off + 1 .. off + width, (cu + k0 - p) % N = 0
      PROVE  \E i \in 1 .. m : s[i] = p
  <2> DEFINE S == {k \in 1 .. width : Laps(start + k - 1, p)}
  <2>1. k0 - off \in S
    BY <1>6, <1>8
  <2>2. PICK k \in S : \A j \in S : k <= j
    <3>1. S \subseteq 1 .. width /\ 1 .. width \subseteq Nat
      OBVIOUS
    <3> HIDE DEF S
    <3>2. S \subseteq Nat /\ S # {}
      BY <2>1, <3>1
    <3> QED BY <3>2, HasLeast
  <2>3. k <= N
    <3> SUFFICES ASSUME k > N PROVE FALSE
      BY <1>1, <2>2
    <3>1. k - N \in 1 .. width /\ ~(k <= k - N)
      BY <1>1, <2>2
    <3>2. start + (k - N) - 1 \in Int /\ start + k - 1 \in Int /\ p \in Int
      BY <1>1, <2>2
    <3>3. Laps(start + (k - N) - 1, start + k - 1)
      <4>1. start + (k - N) - 1 = (start + k - 1) + (-1) * N
        BY <1>1, <2>2
      <4> QED BY <4>1 DEF Laps
    <3>4. Laps(start + (k - N) - 1, p)
      BY <2>2, <3>2, <3>3, LapsEquiv
    <3> QED BY <2>2, <3>1, <3>4
  <2>4. k \in 1 .. m
    BY <1>1, <2>2, <2>3, ScanConsts DEF m, Lesser
  <2>5. s[k] = p
    <3>1. start + k - 1 \in Int /\ p \in Int /\ s[k] = (start + k - 1) % N
      BY <1>1, <1>5, <2>4
    <3>2. s[k] \in Cpus /\ s[k] \in Int /\ Laps(start + k - 1, s[k])
      BY <1>1, <1>3, <2>4, <3>1, LapsOf
    <3>3. Laps(s[k], start + k - 1)
      BY <3>1, <3>2, LapsEquiv
    <3>4. Laps(s[k], p)
      BY <2>2, <3>1, <3>2, <3>3, LapsEquiv
    <3> QED BY <3>2, <3>4, LapsSame DEF Cpus
  <2> QED BY <2>4, <2>5
<1>9. {s[i] : i \in 1 .. m} = {p \in Cpus : \E k \in off + 1 .. off + width : (cu + k - p) % N = 0}
  BY <1>3, <1>5, <1>7, <1>8
<1> QED BY <1>4, <1>5, <1>9 DEF s

------------------------------------------------------------------------------
(* What the two scans pick                                                   *)

Slower(w, prev) == {x \in Cpus \X Cpus : SlowBeats(x[1], x[2], w, prev)}
Sooner(prev) == {x \in Cpus \X Cpus : BestBeats(x[1], x[2], prev)}

(* The CPUs that fit at a distance of lo to hi from the cursor.              *)
InReach(t, w, slack, lo, hi) ==
  {p \in Cpus : Fits(t, w, slack, p) /\ \E k \in lo .. hi : (cursor[w] + k - p) % N = 0}

LEMMA StartAhead ==
  ASSUME NEW cu \in Cpus
  PROVE  /\ Start(cu) \in Cpus /\ Laps(cu + 0 + 1, Start(cu))
         /\ (Start(cu) + MAX_VISIT) % N \in Cpus
         /\ Laps(cu + MAX_VISIT + 1, (Start(cu) + MAX_VISIT) % N)
<1>1. cu + 1 \in Int /\ MAX_VISIT \in Int /\ cu + 0 + 1 = cu + 1
  BY ScanConsts DEF Cpus
<1>2. Start(cu) \in Cpus /\ Start(cu) \in Int /\ Laps(cu + 1, Start(cu))
  <2>1. (cu + 1) % N \in 0 .. N - 1 /\ Laps(cu + 1, (cu + 1) % N)
    BY <1>1, LapsOf, Zenon
  <2>2. \A x \in 0 .. N - 1 : x \in Int
    BY ScanConsts
  <2> QED BY <2>1, <2>2, Zenon DEF Start, Cpus
<1> DEFINE s == Start(cu)
           b == (s + MAX_VISIT) % N
<1>3. s + MAX_VISIT \in Int
  BY <1>1, <1>2
<1>4. b \in Cpus /\ Laps(s + MAX_VISIT, b)
  BY <1>3, LapsOf, Zenon DEF Cpus
<1> HIDE DEF s, b
<1>41. b \in Int
  BY <1>4, ScanConsts DEF Cpus
<1>5. Laps(cu + 1 + MAX_VISIT, s + MAX_VISIT)
  BY <1>1, <1>2, LapsEquiv DEF s
<1>6. cu + 1 + MAX_VISIT \in Int /\ cu + 1 + MAX_VISIT = cu + MAX_VISIT + 1
  BY <1>1, ScanConsts DEF Cpus
<1>7. Laps(cu + MAX_VISIT + 1, b)
  BY <1>3, <1>4, <1>41, <1>5, <1>6, LapsEquiv
<1> QED BY <1>1, <1>2, <1>4, <1>7 DEF s, b

LEMMA SsfBest ==
  ASSUME MinType, CursorOK, NEW w \in Scanners, NEW t, NEW slack, NEW prev
  PROVE  IsBest(SsfPick(t, w, slack, prev), InReach(t, w, slack, 1, MAX_VISIT), Slower(w, prev))
<1> DEFINE s == Peers(Start(cursor[w]), MAX_VISIT)
           fits == Fitting(t, w, slack)
<1>1. cursor[w] \in Cpus /\ 0 \in Nat /\ MAX_VISIT \in Nat /\ 0 + 1 = 1 /\ 0 + MAX_VISIT = MAX_VISIT
  BY ScanConsts DEF CursorOK
<1>2. /\ s \in Seq(Cpus)
      /\ {s[i] : i \in 1 .. Len(s)}
           = {p \in Cpus : \E k \in 0 + 1 .. 0 + MAX_VISIT : (cursor[w] + k - p) % N = 0}
  <2> DEFINE st == Start(cursor[w])
             cu == cursor[w]
  <2>1. cu \in Cpus /\ st \in Cpus /\ Laps(cu + 0 + 1, st)
    BY <1>1, StartAhead, Zenon
  <2>2. s = Peers(st, MAX_VISIT)
    OBVIOUS
  <2> HIDE DEF st, s, cu
  <2>3. /\ Peers(st, MAX_VISIT) \in Seq(Cpus)
        /\ {Peers(st, MAX_VISIT)[i] : i \in 1 .. Len(Peers(st, MAX_VISIT))}
             = {p \in Cpus : \E k \in 0 + 1 .. 0 + MAX_VISIT : (cu + k - p) % N = 0}
    BY <1>1, <2>1, PeersAhead
  <2> QED BY <2>2, <2>3 DEF cu
<1> HIDE DEF s
<1>3. Met(s, Len(s), fits) = InReach(t, w, slack, 1, MAX_VISIT)
  BY <1>1, <1>2 DEF Met, InReach, Fitting
<1>4. /\ fits \in SUBSET Cpus
      /\ \A p, q \in fits : p = q \/ <<p, q>> \in Slower(w, prev) \/ <<q, p>> \in Slower(w, prev)
      /\ \A p, q, r \in fits :
           <<p, q>> \in Slower(w, prev) /\ <<q, r>> \in Slower(w, prev) => <<p, r>> \in Slower(w, prev)
  BY SlowOrder DEF Slower, Fitting
<1> HIDE DEF fits
<1>5. IsBest(Winner(s, fits, Slower(w, prev)), Met(s, Len(s), fits), Slower(w, prev))
  BY <1>2, <1>4, WinnerBest
<1> QED BY <1>3, <1>5 DEF SsfPick, Slower, s, fits

LEMMA BsfBest ==
  ASSUME MinType, DrainType, CursorOK, NEW w \in Scanners, NEW t, NEW slack, NEW prev
  PROVE  IsBest(BsfPick(t, w, slack, prev),
                InReach(t, w, slack, MAX_VISIT + 1, MAX_VISIT + BSF_MAX), Sooner(prev))
<1> DEFINE s == Peers((Start(cursor[w]) + MAX_VISIT) % N, BSF_MAX)
           fits == Fitting(t, w, slack)
<1>1. cursor[w] \in Cpus /\ MAX_VISIT \in Nat /\ BSF_MAX \in Nat
  BY ScanConsts DEF CursorOK
<1>2. /\ s \in Seq(Cpus)
      /\ {s[i] : i \in 1 .. Len(s)}
           = {p \in Cpus : \E k \in MAX_VISIT + 1 .. MAX_VISIT + BSF_MAX : (cursor[w] + k - p) % N = 0}
  <2> DEFINE st == (Start(cursor[w]) + MAX_VISIT) % N
             cu == cursor[w]
  <2>1. cu \in Cpus /\ st \in Cpus /\ Laps(cu + MAX_VISIT + 1, st)
    BY <1>1, StartAhead, Zenon
  <2>2. s = Peers(st, BSF_MAX)
    OBVIOUS
  <2> HIDE DEF st, s, cu
  <2>3. /\ Peers(st, BSF_MAX) \in Seq(Cpus)
        /\ {Peers(st, BSF_MAX)[i] : i \in 1 .. Len(Peers(st, BSF_MAX))}
             = {p \in Cpus : \E k \in MAX_VISIT + 1 .. MAX_VISIT + BSF_MAX : (cu + k - p) % N = 0}
    BY <1>1, <2>1, PeersAhead
  <2> QED BY <2>2, <2>3 DEF cu
<1> HIDE DEF s
<1>3. Met(s, Len(s), fits) = InReach(t, w, slack, MAX_VISIT + 1, MAX_VISIT + BSF_MAX)
  BY <1>2 DEF Met, InReach, Fitting
<1>4. /\ fits \in SUBSET Cpus
      /\ \A p, q \in fits : p = q \/ <<p, q>> \in Sooner(prev) \/ <<q, p>> \in Sooner(prev)
      /\ \A p, q, r \in fits :
           <<p, q>> \in Sooner(prev) /\ <<q, r>> \in Sooner(prev) => <<p, r>> \in Sooner(prev)
  BY BestOrder DEF Sooner, Fitting
<1> HIDE DEF fits
<1>5. IsBest(Winner(s, fits, Sooner(prev)), Met(s, Len(s), fits), Sooner(prev))
  BY <1>2, <1>4, WinnerBest
<1> QED BY <1>3, <1>5 DEF BsfPick, Sooner, s, fits

(* The least of a set by the minimum, and by the drain.                      *)
Lows(S) == {p \in S : \A q \in S : minv[p] <= minv[q]}
Shorts(S) == {p \in S : \A q \in S : Drain(p) <= Drain(q)}

(* Those of the waker's node if any.                                         *)
Near(S, w) == {p \in S : Node[p] = Node[w]}
NearFirst(S, w) == IF Near(S, w) # {} THEN Near(S, w) ELSE S

LEMMA SettledOn ==
  ASSUME NEW L \in SUBSET Cpus, NEW b \in L, NEW prev,
         \A q \in L : q = b \/ WinsTie(b, q, prev)
  PROVE  Settled(L, prev) = b
<1>1. CASE prev \in L
  BY <1>1 DEF Settled, WinsTie
<1>2. CASE prev \notin L
  <2>1. \A q \in L : q \in Int
    BY ScanConsts DEF Cpus
  <2>2. \A q \in L : q = b \/ b < q
    BY <1>2 DEF WinsTie
  <2>3. \A q \in L : b <= q
    BY <2>1, <2>2
  <2>4. \A p \in L : (\A q \in L : p <= q) => p = b
    BY <2>1, <2>3
  <2> QED BY <1>2, <2>3, <2>4 DEF Settled
<1> QED BY <1>1, <1>2

LEMMA LowSettled ==
  ASSUME MinType, NEW S \in SUBSET Cpus, NEW b \in S, NEW prev,
         \A q \in S : q = b \/ LowerMin(b, q, prev)
  PROVE  Settled(Lows(S), prev) = b
<1>1. \A q \in S : minv[q] \in Int
  BY ScanConsts DEF MinType
<1>2. b \in Lows(S)
  BY <1>1 DEF Lows, LowerMin
<1>3. \A q \in Lows(S) : q = b \/ WinsTie(b, q, prev)
  BY <1>1 DEF Lows, LowerMin
<1>4. Lows(S) \in SUBSET Cpus
  BY DEF Lows
<1> QED BY <1>2, <1>3, <1>4, SettledOn

LEMMA SlowSettled ==
  ASSUME MinType, NEW S \in SUBSET Cpus, S # {}, NEW b, NEW w, NEW prev, IsBest(b, S, Slower(w, prev))
  PROVE  Settled(Lows(NearFirst(S, w)), prev) = b
<1>1. b \in S /\ \A q \in S : q = b \/ SlowBeats(b, q, w, prev)
  BY DEF IsBest, Slower
<1>2. b \in NearFirst(S, w) /\ \A q \in NearFirst(S, w) : q = b \/ LowerMin(b, q, prev)
  <2>1. CASE Near(S, w) # {}
    <3>1. b \in Near(S, w)
      BY <1>1, <2>1 DEF SlowBeats, Near
    <3>2. \A q \in Near(S, w) : q = b \/ LowerMin(b, q, prev)
      BY <1>1, <3>1 DEF SlowBeats, Near
    <3> QED BY <2>1, <3>1, <3>2 DEF NearFirst
  <2>2. CASE Near(S, w) = {}
    BY <1>1, <2>2 DEF SlowBeats, Near, NearFirst
  <2> QED BY <2>1, <2>2
<1>3. NearFirst(S, w) \in SUBSET Cpus
  BY DEF NearFirst, Near
<1> QED BY <1>2, <1>3, LowSettled

LEMMA BestSettled ==
  ASSUME MinType, DrainType, NEW S \in SUBSET Cpus, S # {}, NEW b, NEW prev, IsBest(b, S, Sooner(prev))
  PROVE  Settled(Lows(Shorts(S)), prev) = b
<1>1. b \in S /\ \A q \in S : q = b \/ BestBeats(b, q, prev)
  BY DEF IsBest, Sooner
<1>2. \A q \in S : Drain(q) \in Int
  BY DEF DrainType
<1>3. b \in Shorts(S) /\ \A q \in Shorts(S) : q = b \/ LowerMin(b, q, prev)
  BY <1>1, <1>2 DEF Shorts, BestBeats
<1>4. Shorts(S) \in SUBSET Cpus
  BY DEF Shorts
<1> QED BY <1>3, <1>4, LowSettled

(* What a scan answers is the best of what it promises.                      *)
LEMMA AnswerBest ==
  ASSUME MinType, DrainType, CursorOK, NEW w \in Scanners, ask[w].task \in Tasks
  PROVE  LET t   == ask[w].task
             ssf == SsfPick(t, w, ask[w].slack, at[t])
             bsf == BsfPick(t, w, ask[w].slack, at[t])
         IN  BestOf(w) = IF ssf # NoCpu THEN ssf ELSE IF bsf # NoCpu THEN bsf ELSE Fallback(t)
<1> DEFINE t == ask[w].task
           slack == ask[w].slack
           ssf == SsfPick(t, w, slack, at[t])
           bsf == BsfPick(t, w, slack, at[t])
           slow == InReach(t, w, slack, 1, MAX_VISIT)
           best == InReach(t, w, slack, MAX_VISIT + 1, MAX_VISIT + BSF_MAX)
<1>1. /\ slow = Candidates(w, 1, MAX_VISIT)
      /\ best = Candidates(w, MAX_VISIT + 1, MAX_VISIT + BSF_MAX)
  BY DEF InReach, Candidates
<1>2. BestOf(w) = IF slow # {} THEN Settled(Lows(NearFirst(slow, w)), at[t])
                  ELSE IF best # {} THEN Settled(Lows(Shorts(best)), at[t])
                  ELSE Fallback(t)
  BY <1>1 DEF BestOf, Least, Lows, Shorts, Near, NearFirst
<1>3. IsBest(ssf, slow, Slower(w, at[t])) /\ IsBest(bsf, best, Sooner(at[t]))
  BY SsfBest, BsfBest
<1>4. slow \in SUBSET Cpus /\ best \in SUBSET Cpus /\ NoCpu \notin Cpus
  BY ScanConsts DEF InReach, NoCpu, Cpus
<1> HIDE DEF slow, best, ssf, bsf
<1>5. CASE slow # {}
  <2>1. ssf \in slow
    BY <1>3, <1>5 DEF IsBest
  <2>2. Settled(Lows(NearFirst(slow, w)), at[t]) = ssf
    BY <1>3, <1>4, <1>5, SlowSettled
  <2> QED BY <1>2, <1>4, <1>5, <2>1, <2>2 DEF ssf, bsf
<1>6. CASE slow = {} /\ best # {}
  <2>1. Settled(Lows(Shorts(best)), at[t]) = bsf /\ bsf \in best /\ ssf = NoCpu
    BY <1>3, <1>4, <1>6, BestSettled DEF IsBest
  <2> QED BY <1>2, <1>4, <1>6, <2>1 DEF ssf, bsf
<1>7. CASE slow = {} /\ best = {}
  <2>1. ssf = NoCpu /\ bsf = NoCpu
    BY <1>3, <1>7 DEF IsBest
  <2> QED BY <1>2, <1>7, <2>1 DEF ssf, bsf
<1> QED BY <1>5, <1>6, <1>7

------------------------------------------------------------------------------
(* Where the tasks are                                                       *)

(* A task runs on one CPU that its mask allows; its selected CPU is one of   *)
(* the mask from the moment it has been placed until it sleeps.              *)
Placed ==
  /\ state \in [Tasks -> {"asleep", "picking", "local", "node", "running"}]
  /\ at \in [Tasks -> Cpus]
  /\ curr \in [Cpus -> Tasks \cup {None}]
  /\ \A c \in Cpus : curr[c] # None => state[curr[c]] = "running" /\ c \in Mask[curr[c]]
  /\ \A c, d \in Cpus : curr[c] = curr[d] => c = d \/ curr[c] = None
  /\ \A t \in Tasks : state[t] \in {"local", "node", "running"} => at[t] \in Mask[t]

(* A task is placed by one waker at a time, and by nobody while it runs.     *)
AskOK ==
  /\ ask \in [Scanners -> Asks]
  /\ \A w \in Scanners : ask[w] # None => state[ask[w].task] = "picking"
  /\ \A v, w \in Scanners :
       ask[v] # None /\ ask[w] # None /\ ask[v].task = ask[w].task => v = w

ScanInv == Placed /\ AskOK /\ MinType /\ CursorOK

LEMMA DrainIsNat == DrainType
<1> SUFFICES ASSUME NEW p \in Cpus PROVE Drain(p) \in Nat
  BY DEF DrainType
<1>1. IsFiniteSet(Local(p)) /\ IsFiniteSet(OnNode(Node[p]))
  <2>1. Local(p) \subseteq Tasks /\ OnNode(Node[p]) \subseteq Tasks
    BY DEF Local, OnNode
  <2> QED BY <2>1, ScanConsts, FS_Subset
<1>2. Cardinality(Local(p)) \in Nat /\ Cardinality(OnNode(Node[p])) \in Nat
  BY <1>1, FS_CardinalityType
<1> QED BY <1>2 DEF Drain

LEMMA MaskIsCpus == \A t \in Tasks : Mask[t] \subseteq Cpus /\ Mask[t] # {}
BY ScanConsts

LEMMA FallbackAllowed ==
  ASSUME NEW t \in Tasks
  PROVE  Fallback(t) \in Mask[t]
<1>1. Mask[t] \subseteq Nat /\ Mask[t] # {}
  BY MaskIsCpus, ScanConsts DEF Cpus
<1>2. \E c \in Mask[t] : \A d \in Mask[t] : c <= d
  BY <1>1, HasLeast
<1> QED BY <1>2 DEF Fallback, FirstAllowed

(* A scan answers nothing or an allowed CPU.                                 *)
LEMMA PickAllowed ==
  ASSUME MinType, CursorOK, NEW w \in Scanners, NEW t, NEW slack, NEW prev
  PROVE  /\ SsfPick(t, w, slack, prev) # NoCpu => SsfPick(t, w, slack, prev) \in Mask[t]
         /\ BsfPick(t, w, slack, prev) # NoCpu => BsfPick(t, w, slack, prev) \in Mask[t]
<1>1. IsBest(SsfPick(t, w, slack, prev), InReach(t, w, slack, 1, MAX_VISIT), Slower(w, prev))
  BY SsfBest
<1>2. IsBest(BsfPick(t, w, slack, prev),
             InReach(t, w, slack, MAX_VISIT + 1, MAX_VISIT + BSF_MAX), Sooner(prev))
  BY DrainIsNat, BsfBest
<1>3. \A lo, hi : InReach(t, w, slack, lo, hi) \subseteq Mask[t]
  BY DEF InReach, Fits
<1> QED BY <1>1, <1>2, <1>3 DEF IsBest

(* Landing a task that nobody runs keeps every task in its place.            *)
LEMMA LandPlaced ==
  ASSUME Placed, NEW t \in Tasks, NEW c \in Mask[t],
         state[t] \in {"asleep", "picking"}, Land(t, c)
  PROVE  /\ Placed'
         /\ \A u \in Tasks : u # t => state'[u] = state[u]
<1>1. c \in Cpus
  BY MaskIsCpus
<1>2. \A d \in Cpus : curr[d] # t
  BY ScanConsts DEF Placed
<1>3. at' = [at EXCEPT ![t] = c] /\ at' \in [Tasks -> Cpus]
  BY <1>1 DEF Land, Placed
<1>4. ASSUME NEW q \in {"local", "node"}, state' = [state EXCEPT ![t] = q], UNCHANGED curr
      PROVE  Placed' /\ \A u \in Tasks : u # t => state'[u] = state[u]
  BY <1>2, <1>3, <1>4 DEF Placed
<1>5. CASE /\ curr[c] = None
           /\ state' = [state EXCEPT ![t] = "running"]
           /\ curr' = [curr EXCEPT ![c] = t]
  <2>1. /\ \A u \in Tasks : u # t => state'[u] = state[u]
        /\ state'[t] = "running"
        /\ \A d \in Cpus : d # c => curr'[d] = curr[d]
        /\ curr'[c] = t
    BY <1>1, <1>5 DEF Placed
  <2>2. /\ state' \in [Tasks -> {"asleep", "picking", "local", "node", "running"}]
        /\ curr' \in [Cpus -> Tasks \cup {None}]
    BY <1>1, <1>5 DEF Placed
  <2>3. \A d \in Cpus : curr'[d] # None => state'[curr'[d]] = "running" /\ d \in Mask[curr'[d]]
    BY <1>2, <2>1 DEF Placed
  <2>4. \A d, e \in Cpus : curr'[d] = curr'[e] => d = e \/ curr'[d] = None
    BY <1>2, <2>1 DEF Placed
  <2>5. \A u \in Tasks : state'[u] \in {"local", "node", "running"} => at'[u] \in Mask[u]
    BY <1>3, <2>1 DEF Placed
  <2> QED BY <1>3, <2>1, <2>2, <2>3, <2>4, <2>5 DEF Placed
<1> QED BY <1>4, <1>5 DEF Land

(* So does a CPU that goes on with a waiting task it may run.                *)
LEMMA SwitchPlaced ==
  ASSUME Placed, NEW c \in Cpus, NEW t \in Tasks, c \in Mask[t],
         state[t] \in {"local", "node"}, Switch(c, t)
  PROVE  /\ Placed'
         /\ \A u \in Tasks : state[u] = "picking" => state'[u] = "picking"
<1>1. PICK q \in {"local", "node"} :
        state' = [u \in Tasks |-> IF u = t THEN "running" ELSE IF u = curr[c] THEN q ELSE state[u]]
  BY DEF Switch
<1>2. /\ at' = at
      /\ curr'[c] = t
      /\ \A d \in Cpus : d # c => curr'[d] = curr[d]
      /\ curr' \in [Cpus -> Tasks \cup {None}]
  BY DEF Switch, Placed
<1>3. \A d \in Cpus : curr[d] # t
  BY ScanConsts DEF Placed
<1>4. state' \in [Tasks -> {"asleep", "picking", "local", "node", "running"}]
  BY <1>1 DEF Placed
<1>5. \A d \in Cpus : curr'[d] # None => state'[curr'[d]] = "running" /\ d \in Mask[curr'[d]]
  <2> SUFFICES ASSUME NEW d \in Cpus, curr'[d] # None
               PROVE  state'[curr'[d]] = "running" /\ d \in Mask[curr'[d]]
    OBVIOUS
  <2>1. CASE d = c
    BY <1>1, <1>2, <2>1
  <2>2. CASE d # c
    BY <1>1, <1>2, <1>3, <2>2 DEF Placed
  <2> QED BY <2>1, <2>2
<1>6. \A d, e \in Cpus : curr'[d] = curr'[e] => d = e \/ curr'[d] = None
  BY <1>2, <1>3 DEF Placed
<1>7. \A u \in Tasks : state'[u] \in {"local", "node", "running"} => at'[u] \in Mask[u]
  BY <1>1, <1>2, ScanConsts DEF Placed
<1>8. \A u \in Tasks : state[u] = "picking" => state'[u] = "picking"
  BY <1>1, ScanConsts DEF Placed
<1> QED BY <1>2, <1>4, <1>5, <1>6, <1>7, <1>8 DEF Placed

(* A step that asks nothing and leaves the tasks of the askers alone.        *)
LEMMA AskKept ==
  ASSUME AskOK, ask' = ask, \A u \in Tasks : state[u] = "picking" => state'[u] = "picking"
  PROVE  AskOK'
BY DEF AskOK, Asks

LEMMA AdvanceCursor ==
  ASSUME CursorOK, NEW w \in Scanners, NEW width, Advance(w, width)
  PROVE  CursorOK'
<1>1. cursor[w] \in Cpus /\ NextStart(cursor[w]) \in Cpus
  BY MoveCloser, ScanConsts DEF CursorOK
<1> QED BY <1>1 DEF Advance, CursorOK

LEMMA ServedMin ==
  ASSUME MinType, NEW c \in Cpus, Served(c)
  PROVE  MinType'
<1>1. PICK v \in minv[c] .. VMAX : minv' = [minv EXCEPT ![c] = v]
  BY DEF Served
<1>2. v \in 0 .. VMAX
  BY ScanConsts DEF MinType
<1> QED BY <1>1, <1>2 DEF MinType

LEMMA SwitchInv ==
  ASSUME Placed, AskOK, MinType, NEW c \in Cpus, NEW t \in Tasks, c \in Mask[t],
         state[t] \in {"local", "node"}, Switch(c, t)
  PROVE  Placed' /\ AskOK' /\ MinType'
<1>1. Placed' /\ \A u \in Tasks : state[u] = "picking" => state'[u] = "picking"
  BY SwitchPlaced
<1>2. AskOK'
  BY <1>1, AskKept DEF Switch
<1>3. MinType'
  BY ServedMin DEF Switch, MinType
<1> QED BY <1>1, <1>2, <1>3

LEMMA WakeIdleInv ==
  ASSUME ScanInv, NEW w \in Scanners, NEW t \in Tasks, WakeIdle(w, t)
  PROVE  ScanInv'
<1>1. PICK c \in Mask[t] : Land(t, c)
  BY DEF WakeIdle
<1>2. state[t] = "asleep" /\ UNCHANGED <<minv, cursor, ask, skipped>>
  BY DEF WakeIdle
<1>3. Placed' /\ \A u \in Tasks : u # t => state'[u] = state[u]
  BY <1>1, <1>2, LandPlaced DEF ScanInv
<1>4. AskOK'
  BY <1>2, <1>3, AskKept DEF ScanInv
<1> QED BY <1>2, <1>3, <1>4 DEF ScanInv, MinType, CursorOK

LEMMA WakeStayInv ==
  ASSUME ScanInv, NEW w \in Scanners, NEW t \in Tasks, WakeStay(w, t)
  PROVE  ScanInv'
<1>1. state[t] = "asleep" /\ ask[w] = None /\ UNCHANGED <<minv, cursor, skipped>>
  BY DEF WakeStay, Free
<1>2. CASE at[t] \in Mask[t] /\ Land(t, at[t]) /\ UNCHANGED ask
  <2>1. Placed' /\ \A u \in Tasks : u # t => state'[u] = state[u]
    BY <1>1, <1>2, LandPlaced DEF ScanInv
  <2>2. AskOK'
    BY <1>1, <1>2, <2>1, AskKept DEF ScanInv
  <2> QED BY <1>1, <2>1, <2>2 DEF ScanInv, MinType, CursorOK
<1>3. ASSUME NEW slack \in Slacks,
             ask' = [ask EXCEPT ![w] = [task |-> t, slack |-> slack]],
             state' = [state EXCEPT ![t] = "picking"], UNCHANGED <<at, curr>>
      PROVE  ScanInv'
  <2>1. \A c \in Cpus : curr[c] # t
    BY <1>1, ScanConsts DEF ScanInv, Placed
  <2>2. Placed'
    BY <1>3, <2>1 DEF ScanInv, Placed
  <2>3. /\ ask' \in [Scanners -> Asks]
        /\ ask'[w].task = t
        /\ \A v \in Scanners : v # w => ask'[v] = ask[v]
    BY <1>3 DEF ScanInv, AskOK, Asks
  <2>4. \A v \in Scanners : ask[v] # None => ask[v].task \in Tasks /\ ask[v].task # t
    BY <1>1 DEF ScanInv, AskOK, Asks
  <2>5. state'[t] = "picking" /\ \A u \in Tasks : u # t => state'[u] = state[u]
    BY <1>3 DEF ScanInv, Placed
  <2>6. AskOK'
    BY <2>3, <2>4, <2>5 DEF ScanInv, AskOK
  <2> QED BY <1>1, <2>2, <2>6 DEF ScanInv, MinType, CursorOK
<1> QED BY <1>2, <1>3 DEF WakeStay

(* A select answers on an allowed CPU and moves the cursor if it found one.  *)
LEMMA ScanStepInv ==
  ASSUME ScanInv, NEW w \in Scanners, Scan(w)
  PROVE  ScanInv'
<1> DEFINE t == ask[w].task
           ssf == SsfPick(t, w, ask[w].slack, at[t])
           bsf == BsfPick(t, w, ask[w].slack, at[t])
<1>1. /\ ask[w] # None /\ t \in Tasks /\ state[t] = "picking"
      /\ ask' = [ask EXCEPT ![w] = None] /\ UNCHANGED minv
  BY DEF Scan, ScanInv, AskOK, Asks
<1>2. \/ ssf = NoCpu /\ bsf = NoCpu /\ Land(t, Fallback(t)) /\ UNCHANGED <<cursor, skipped>>
      \/ ssf # NoCpu /\ Land(t, ssf) /\ Advance(w, MAX_VISIT)
      \/ bsf # NoCpu /\ Land(t, bsf) /\ Advance(w, MAX_VISIT)
  BY DEF Scan
<1>3. (ssf # NoCpu => ssf \in Mask[t]) /\ (bsf # NoCpu => bsf \in Mask[t])
  BY PickAllowed DEF ScanInv
<1> HIDE DEF ssf, bsf, t
<1>4. \E c \in Mask[t] : Land(t, c)
  BY <1>1, <1>2, <1>3, FallbackAllowed
<1>5. Placed' /\ \A u \in Tasks : u # t => state'[u] = state[u]
  BY <1>1, <1>4, LandPlaced DEF ScanInv
<1>6. CursorOK'
  BY <1>2, AdvanceCursor DEF ScanInv, CursorOK
<1>7. AskOK'
  <2>1. ask'[w] = None /\ \A v \in Scanners : v # w => ask'[v] = ask[v]
    BY <1>1 DEF ScanInv, AskOK
  <2>2. \A v \in Scanners : v # w /\ ask[v] # None => ask[v].task \in Tasks /\ ask[v].task # t
    BY <1>1 DEF ScanInv, AskOK, Asks, t
  <2>3. ask' \in [Scanners -> Asks]
    BY <1>1 DEF ScanInv, AskOK, Asks
  <2> QED BY <1>5, <2>1, <2>2, <2>3 DEF ScanInv, AskOK
<1> QED BY <1>1, <1>5, <1>6, <1>7 DEF ScanInv, MinType

LEMMA TakeInv ==
  ASSUME ScanInv, NEW c \in Cpus, Take(c)
  PROVE  ScanInv'
<1>1. PICK t \in Backlog(c) : c \in Mask[t] /\ Switch(c, t)
  BY DEF Take
<1>2. t \in Tasks /\ state[t] \in {"local", "node"}
  BY DEF Backlog, Local, OnNode
<1>3. Placed' /\ AskOK' /\ MinType'
  BY <1>1, <1>2, SwitchInv DEF ScanInv
<1> QED BY <1>3 DEF ScanInv, Take, CursorOK

LEMMA StealInv ==
  ASSUME ScanInv, NEW c \in Scanners, Steal(c)
  PROVE  ScanInv'
<1>1. PICK t \in Stealable(c) : Switch(c, t)
  BY DEF Steal
<1>2. t \in Tasks /\ state[t] \in {"local", "node"} /\ c \in Mask[t]
  BY DEF Stealable, Local
<1>3. Placed' /\ AskOK' /\ MinType'
  BY <1>1, <1>2, SwitchInv, ScanConsts DEF ScanInv
<1> QED BY <1>3, AdvanceCursor DEF ScanInv, Steal

LEMMA BlockInv ==
  ASSUME ScanInv, NEW c \in Cpus, Block(c)
  PROVE  ScanInv'
<1> DEFINE t == curr[c]
<1>1. /\ t \in Tasks /\ state[t] = "running"
      /\ state' = [state EXCEPT ![t] = "asleep"]
      /\ at' = [at EXCEPT ![t] = c]
      /\ curr' = [curr EXCEPT ![c] = None]
      /\ Served(c) /\ UNCHANGED <<cursor, ask, skipped>>
  BY DEF Block, ScanInv, Placed
<1>2. /\ state'[t] = "asleep" /\ at' \in [Tasks -> Cpus]
      /\ \A u \in Tasks : u # t => state'[u] = state[u] /\ at'[u] = at[u]
      /\ curr'[c] = None /\ \A d \in Cpus : d # c => curr'[d] = curr[d] /\ curr[d] # t
      /\ state' \in [Tasks -> {"asleep", "picking", "local", "node", "running"}]
      /\ curr' \in [Cpus -> Tasks \cup {None}]
  <2>1. \A d \in Cpus : d # c => curr[d] # t
    BY <1>1, ScanConsts DEF ScanInv, Placed
  <2> HIDE DEF t
  <2> QED BY <1>1, <2>1 DEF ScanInv, Placed
<1> HIDE DEF t
<1>3. Placed'
  <2>1. \A d \in Cpus : curr'[d] # None => state'[curr'[d]] = "running" /\ d \in Mask[curr'[d]]
    BY <1>2 DEF ScanInv, Placed
  <2>2. \A d, e \in Cpus : curr'[d] = curr'[e] => d = e \/ curr'[d] = None
    BY <1>2 DEF ScanInv, Placed
  <2>3. \A u \in Tasks : state'[u] \in {"local", "node", "running"} => at'[u] \in Mask[u]
    BY <1>1, <1>2 DEF ScanInv, Placed
  <2> QED BY <1>2, <2>1, <2>2, <2>3 DEF Placed
<1>4. AskOK'
  BY <1>1, <1>2, AskKept DEF ScanInv
<1> QED BY <1>1, <1>3, <1>4, ServedMin DEF ScanInv, CursorOK

LEMMA InitScan == Init => ScanInv
<1> SUFFICES ASSUME Init PROVE ScanInv
  OBVIOUS
<1>1. Placed
  BY DEF Init, Placed
<1>2. AskOK
  BY DEF Init, AskOK, Asks
<1>3. MinType /\ CursorOK
  BY ScanConsts DEF Init, MinType, CursorOK, Cpus
<1> QED BY <1>1, <1>2, <1>3 DEF ScanInv

LEMMA StepScan == ScanInv /\ [Next]_vars => ScanInv'
<1> SUFFICES ASSUME ScanInv, [Next]_vars PROVE ScanInv'
  OBVIOUS
<1>1. CASE UNCHANGED vars
  BY <1>1 DEF vars, ScanInv, Placed, AskOK, MinType, CursorOK
<1>2. CASE \E w \in Scanners, t \in Tasks : WakeIdle(w, t)
  BY <1>2, WakeIdleInv
<1>3. CASE \E w \in Scanners, t \in Tasks : WakeStay(w, t)
  BY <1>3, WakeStayInv
<1>4. CASE \E w \in Scanners : Scan(w)
  BY <1>4, ScanStepInv
<1>5. CASE \E w \in Scanners : Steal(w)
  BY <1>5, StealInv
<1>6. CASE \E c \in Cpus : Take(c)
  BY <1>6, TakeInv
<1>7. CASE \E c \in Cpus : Block(c)
  BY <1>7, BlockInv
<1> QED BY <1>1, <1>2, <1>3, <1>4, <1>5, <1>6, <1>7 DEF Next

LEMMA AlwaysScan == Spec => []ScanInv
BY InitScan, StepScan, PTL DEF Spec

(* Wherever wake-ups and steals of several CPUs put a task, at most one CPU  *)
(* runs it and its mask allows the CPU that runs it or queues it             *)
(* (select_cpu.bpf.c:33-58, dispatch.bpf.c:340-405).                         *)
THEOREM TasksPlaced == Spec => []TypeOK
<1>1. ScanInv => TypeOK
  BY DEF ScanInv, Placed, AskOK, MinType, CursorOK, TypeOK
<1> QED BY AlwaysScan, <1>1, PTL

(* However the CPUs go on between the test of the previous CPU and the scan, *)
(* a scan answers the best CPU of its windows (scan.bpf.c:6-16): the fold of *)
(* flow_ssf_step and flow_bsf_step over the windows, in whatever order they  *)
(* visit the peers, finds what BestOf defines by minima over sets.           *)
THEOREM ScanPicksBest == Spec => PicksBest
<1> DEFINE Picks == \A w \in Scanners :
                      ask[w] # None /\ ask'[w] = None => at'[ask[w].task] = BestOf(w)
<1>1. ScanInv /\ [Next]_vars => [Picks]_vars
  <2> SUFFICES ASSUME ScanInv, Next, NEW w \in Scanners, ask[w] # None, ask'[w] = None
               PROVE  at'[ask[w].task] = BestOf(w)
    OBVIOUS
  <2>1. Scan(w)
    <3>1. CASE UNCHANGED ask
      BY <3>1
    <3>2. CASE \E v \in Scanners, t \in Tasks : WakeStay(v, t)
      BY <3>2 DEF WakeStay, Free, ScanInv, AskOK
    <3>3. CASE \E v \in Scanners : Scan(v)
      BY <3>3 DEF Scan, ScanInv, AskOK
    <3> QED BY <3>1, <3>2, <3>3 DEF Next, WakeIdle, Steal, Take, Switch, Block
  <2> DEFINE t == ask[w].task
             ssf == SsfPick(t, w, ask[w].slack, at[t])
             bsf == BsfPick(t, w, ask[w].slack, at[t])
  <2>2. t \in Tasks
    BY DEF ScanInv, AskOK, Asks
  <2>3. BestOf(w) = IF ssf # NoCpu THEN ssf ELSE IF bsf # NoCpu THEN bsf ELSE Fallback(t)
    BY <2>2, DrainIsNat, AnswerBest DEF ScanInv
  <2>4. Land(t, BestOf(w))
    BY <2>1, <2>3 DEF Scan
  <2> HIDE DEF t
  <2>5. at'[t] = BestOf(w)
    BY <2>2, <2>4 DEF Land, ScanInv, Placed
  <2> QED BY <2>5 DEF t
<1> QED BY AlwaysScan, <1>1, PTL DEF PicksBest, Spec
=============================================================================
