--------------------------- MODULE FlowPlaceProofs ---------------------------
(* Proofs about FlowDispatch: where the tasks are and in which order a pass  *)
(* takes them, for any tasks, masks, CPUs, nodes and bounds.                 *)
EXTENDS FlowDispatchProofs

(* No task is in a queue twice, and the keys of a queue never fall.          *)
Uniq(s) == \A i, j \in DOMAIN s : s[i] = s[j] => i = j
Sorted(s, v) == \A i, j \in DOMAIN s : i < j => v[s[i]] <= v[s[j]]

(* What a queue holds.                                                       *)
Held(s) == {s[i] : i \in DOMAIN s}

Keys == [Tasks -> 0 .. VMAX]

------------------------------------------------------------------------------
(* Queues                                                                    *)

LEMMA HeldIsRange == \A s : Range(s) = Held(s)
BY DEF Range, Held

LEMMA RemoveAtEntries ==
  ASSUME NEW s \in Seq(Tasks), NEW i \in 1 .. Len(s)
  PROVE  LET r == RemoveAt(s, i)
         IN  /\ r \in Seq(Tasks) /\ Len(r) = Len(s) - 1
             /\ \A k \in 1 .. Len(s) - 1 : r[k] = IF k < i THEN s[k] ELSE s[k + 1]
<1>1. Len(s) \in Nat
  BY LenProperties
<1>2. \A k \in 1 .. Len(s) : s[k] \in Tasks
  BY ElementOfSeq
<1> DEFINE p == SubSeq(s, 1, i - 1)
           q == SubSeq(s, i + 1, Len(s))
<1>3. /\ p \in Seq(Tasks) /\ Len(p) = i - 1 /\ \A k \in 1 .. i - 1 : p[k] = s[k]
  <2>1. \A k \in 1 .. i - 1 : s[k] \in Tasks
    BY <1>1, <1>2
  <2>2. /\ p \in Seq(Tasks) /\ Len(p) = IF 1 <= i - 1 THEN i - 1 - 1 + 1 ELSE 0
        /\ \A k \in 1 .. i - 1 - 1 + 1 : p[k] = s[1 + k - 1]
    BY <1>1, <2>1, SubSeqProperties
  <2> HIDE DEF p
  <2> QED BY <1>1, <2>2
<1>4. /\ q \in Seq(Tasks) /\ Len(q) = Len(s) - i
      /\ \A k \in 1 .. Len(s) - i : q[k] = s[i + k]
  <2>1. \A k \in i + 1 .. Len(s) : s[k] \in Tasks
    BY <1>1, <1>2
  <2>2. /\ q \in Seq(Tasks) /\ Len(q) = IF i + 1 <= Len(s) THEN Len(s) - (i + 1) + 1 ELSE 0
        /\ \A k \in 1 .. Len(s) - (i + 1) + 1 : q[k] = s[i + 1 + k - 1]
    BY <1>1, <2>1, SubSeqProperties
  <2> HIDE DEF q
  <2> QED BY <1>1, <2>2
<1> HIDE DEF p, q
<1>5. /\ p \o q \in Seq(Tasks) /\ Len(p \o q) = Len(p) + Len(q)
      /\ \A k \in 1 .. Len(p) + Len(q) : (p \o q)[k] = IF k <= Len(p) THEN p[k] ELSE q[k - Len(p)]
  BY <1>3, <1>4, ConcatProperties
<1>6. RemoveAt(s, i) = p \o q
  BY DEF RemoveAt, p, q
<1>7. ASSUME NEW k \in 1 .. Len(s) - 1
      PROVE  (p \o q)[k] = IF k < i THEN s[k] ELSE s[k + 1]
  <2>1. CASE k < i
    BY <1>1, <1>3, <1>4, <1>5, <2>1
  <2>2. CASE ~(k < i)
    <3>1. k - (i - 1) \in 1 .. Len(s) - i /\ i + (k - (i - 1)) = k + 1
      BY <1>1, <2>2
    <3>2. (p \o q)[k] = q[k - (i - 1)]
      BY <1>1, <1>3, <1>4, <1>5, <2>2
    <3> QED BY <1>4, <2>2, <3>1, <3>2
  <2> QED BY <2>1, <2>2
<1> DEFINE r == p \o q
<1>8. /\ r \in Seq(Tasks) /\ Len(r) = Len(s) - 1
      /\ \A k \in 1 .. Len(s) - 1 : r[k] = IF k < i THEN s[k] ELSE s[k + 1]
  BY <1>1, <1>3, <1>4, <1>5, <1>7
<1> QED BY <1>6, <1>8, Zenon

LEMMA InsertAtEntries ==
  ASSUME NEW s \in Seq(Tasks), NEW t \in Tasks, NEW n \in 0 .. Len(s)
  PROVE  LET r == InsertAt(s, n + 1, t)
         IN  /\ r \in Seq(Tasks) /\ Len(r) = Len(s) + 1
             /\ \A k \in 1 .. Len(s) + 1 :
                  r[k] = IF k <= n THEN s[k] ELSE IF k = n + 1 THEN t ELSE s[k - 1]
<1>1. Len(s) \in Nat
  BY LenProperties
<1>2. \A k \in 1 .. Len(s) : s[k] \in Tasks
  BY ElementOfSeq
<1> DEFINE p == SubSeq(s, 1, (n + 1) - 1)
           q == SubSeq(s, n + 1, Len(s))
           m == p \o <<t>>
<1>3. /\ p \in Seq(Tasks) /\ Len(p) = n /\ \A k \in 1 .. n : p[k] = s[k]
  <2>1. \A k \in 1 .. n + 1 - 1 : s[k] \in Tasks
    BY <1>1, <1>2
  <2>2. /\ p \in Seq(Tasks) /\ Len(p) = IF 1 <= n + 1 - 1 THEN n + 1 - 1 - 1 + 1 ELSE 0
        /\ \A k \in 1 .. n + 1 - 1 - 1 + 1 : p[k] = s[1 + k - 1]
    BY <1>1, <2>1, SubSeqProperties
  <2> HIDE DEF p
  <2> QED BY <1>1, <2>2
<1>4. /\ q \in Seq(Tasks) /\ Len(q) = Len(s) - n
      /\ \A k \in 1 .. Len(s) - n : q[k] = s[n + k]
  <2>1. \A k \in n + 1 .. Len(s) : s[k] \in Tasks
    BY <1>1, <1>2
  <2>2. /\ q \in Seq(Tasks) /\ Len(q) = IF n + 1 <= Len(s) THEN Len(s) - (n + 1) + 1 ELSE 0
        /\ \A k \in 1 .. Len(s) - (n + 1) + 1 : q[k] = s[n + 1 + k - 1]
    BY <1>1, <2>1, SubSeqProperties
  <2> HIDE DEF q
  <2> QED BY <1>1, <2>2
<1> HIDE DEF p, q
<1>5. <<t>> \in Seq(Tasks) /\ Len(<<t>>) = 1 /\ <<t>>[1] = t
  OBVIOUS
<1>6. /\ m \in Seq(Tasks) /\ Len(m) = n + 1
      /\ \A k \in 1 .. n + 1 : m[k] = IF k <= n THEN s[k] ELSE t
  <2>1. /\ m \in Seq(Tasks) /\ Len(m) = Len(p) + Len(<<t>>)
        /\ \A k \in 1 .. Len(p) + Len(<<t>>) :
             m[k] = IF k <= Len(p) THEN p[k] ELSE <<t>>[k - Len(p)]
    BY <1>3, <1>5, ConcatProperties
  <2> HIDE DEF m
  <2>2. ASSUME NEW k \in 1 .. n + 1 PROVE m[k] = IF k <= n THEN s[k] ELSE t
    <3>1. CASE k <= n
      BY <1>1, <1>3, <1>5, <2>1, <3>1
    <3>2. CASE ~(k <= n)
      <4>1. k = n + 1 /\ k - Len(p) = 1
        BY <1>1, <1>3, <3>2
      <4> QED BY <1>1, <1>3, <1>5, <2>1, <4>1
    <3> QED BY <3>1, <3>2
  <2> QED BY <1>1, <1>3, <1>5, <2>1, <2>2
<1> HIDE DEF m
<1>7. /\ m \o q \in Seq(Tasks) /\ Len(m \o q) = Len(m) + Len(q)
      /\ \A k \in 1 .. Len(m) + Len(q) : (m \o q)[k] = IF k <= Len(m) THEN m[k] ELSE q[k - Len(m)]
  BY <1>4, <1>6, ConcatProperties
<1>8. InsertAt(s, n + 1, t) = m \o q
  BY Zenon DEF InsertAt, m, p, q
<1>9. ASSUME NEW k \in 1 .. Len(s) + 1
      PROVE  (m \o q)[k] = IF k <= n THEN s[k] ELSE IF k = n + 1 THEN t ELSE s[k - 1]
  <2>1. CASE k <= n + 1
    BY <1>1, <1>4, <1>6, <1>7, <2>1
  <2>2. CASE ~(k <= n + 1)
    <3>1. k - (n + 1) \in 1 .. Len(s) - n /\ n + (k - (n + 1)) = k - 1
      BY <1>1, <2>2
    <3>2. (m \o q)[k] = q[k - (n + 1)]
      BY <1>1, <1>4, <1>6, <1>7, <2>2
    <3> QED BY <1>1, <1>4, <2>2, <3>1, <3>2
  <2> QED BY <2>1, <2>2
<1> DEFINE r == m \o q
<1>10. /\ r \in Seq(Tasks) /\ Len(r) = Len(s) + 1
       /\ \A k \in 1 .. Len(s) + 1 :
            r[k] = IF k <= n THEN s[k] ELSE IF k = n + 1 THEN t ELSE s[k - 1]
  BY <1>1, <1>4, <1>6, <1>7, <1>9
<1>11. InsertAt(s, n + 1, t) = r
  BY <1>8
<1> HIDE DEF r
<1> QED BY <1>10, <1>11

(* A task put into a queue it is not in keeps it free of doubles, and in     *)
(* order where it goes between the keys.                                     *)
LEMMA InsertPlace ==
  ASSUME NEW s \in Seq(Tasks), NEW t \in Tasks, NEW n \in 0 .. Len(s)
  PROVE  LET r == InsertAt(s, n + 1, t)
         IN  /\ Held(r) = Held(s) \cup {t}
             /\ Uniq(s) /\ t \notin Held(s) => Uniq(r)
             /\ \A v \in Keys :
                  Sorted(s, v) /\ (\A k \in 1 .. Len(s) : k <= n <=> v[s[k]] <= v[t])
                    => Sorted(r, v)
<1> DEFINE r == InsertAt(s, n + 1, t)
<1>1. /\ r \in Seq(Tasks) /\ Len(r) = Len(s) + 1
      /\ \A k \in 1 .. Len(s) + 1 :
           r[k] = IF k <= n THEN s[k] ELSE IF k = n + 1 THEN t ELSE s[k - 1]
  BY InsertAtEntries
<1>2. Len(s) \in Nat /\ DOMAIN s = 1 .. Len(s)
  BY LenProperties
<1> HIDE DEF r
<1>3. DOMAIN r = 1 .. Len(s) + 1
  BY <1>1, LenProperties
<1>4. \A k \in 1 .. Len(s) : s[k] \in Tasks
  BY ElementOfSeq
<1>5. Held(r) = Held(s) \cup {t}
  <2>1. \A k \in DOMAIN r : r[k] \in Held(s) \cup {t}
    <3> SUFFICES ASSUME NEW k \in DOMAIN r, r[k] # t PROVE r[k] \in Held(s)
      OBVIOUS
    <3> DEFINE m == IF k <= n THEN k ELSE k - 1
    <3>1. m \in DOMAIN s /\ r[k] = s[m]
      BY <1>1, <1>2, <1>3
    <3> QED BY <3>1 DEF Held
  <2>2. \A k \in DOMAIN s : \E j \in DOMAIN r : r[j] = s[k]
    <3> SUFFICES ASSUME NEW k \in DOMAIN s PROVE \E j \in DOMAIN r : r[j] = s[k]
      OBVIOUS
    <3>1. CASE k <= n
      BY <1>1, <1>2, <1>3, <3>1
    <3>2. CASE ~(k <= n)
      <4>1. k + 1 \in DOMAIN r /\ r[k + 1] = s[k]
        BY <1>1, <1>2, <1>3, <3>2
      <4> QED BY <4>1
    <3> QED BY <3>1, <3>2
  <2>3. n + 1 \in DOMAIN r /\ r[n + 1] = t
    BY <1>1, <1>2, <1>3
  <2> QED BY <2>1, <2>2, <2>3 DEF Held
<1>6. ASSUME Uniq(s), t \notin Held(s) PROVE Uniq(r)
  <2> SUFFICES ASSUME NEW i \in DOMAIN r, NEW j \in DOMAIN r, i < j PROVE r[i] # r[j]
    BY <1>2, <1>3 DEF Uniq
  <2>1. \A k \in 1 .. Len(s) : s[k] # t
    BY <1>2, <1>6 DEF Held
  <2>2. \A k, l \in 1 .. Len(s) : s[k] = s[l] => k = l
    BY <1>2, <1>6 DEF Uniq
  <2> QED BY <1>1, <1>2, <1>3, <2>1, <2>2
<1>7. ASSUME NEW v \in Keys, Sorted(s, v), \A k \in 1 .. Len(s) : k <= n <=> v[s[k]] <= v[t]
      PROVE  Sorted(r, v)
  <2> SUFFICES ASSUME NEW i \in DOMAIN r, NEW j \in DOMAIN r, i < j PROVE v[r[i]] <= v[r[j]]
    BY DEF Sorted
  <2>1. \A k, l \in 1 .. Len(s) : k < l => v[s[k]] <= v[s[l]]
    BY <1>2, <1>7 DEF Sorted
  <2>2. v[t] \in Int /\ \A k \in 1 .. Len(s) : v[s[k]] \in Int
    BY <1>4, DispatchConsts DEF Keys
  <2>3. CASE i = n + 1
    <3>1. r[i] = t /\ r[j] = s[j - 1] /\ j - 1 \in 1 .. Len(s) /\ ~(j - 1 <= n)
      BY <1>1, <1>2, <1>3, <2>3
    <3> QED BY <1>7, <2>2, <3>1
  <2>4. CASE j = n + 1
    <3>1. r[j] = t /\ r[i] = s[i] /\ i \in 1 .. Len(s) /\ i <= n
      BY <1>1, <1>2, <1>3, <2>4
    <3> QED BY <1>7, <3>1
  <2>5. CASE i # n + 1 /\ j # n + 1
    <3> DEFINE k == IF i <= n THEN i ELSE i - 1
               l == IF j <= n THEN j ELSE j - 1
    <3>1. r[i] = s[k] /\ r[j] = s[l] /\ k \in 1 .. Len(s) /\ l \in 1 .. Len(s) /\ k < l
      BY <1>1, <1>2, <1>3, <2>5
    <3> QED BY <2>1, <3>1
  <2> QED BY <2>3, <2>4, <2>5
<1> QED BY <1>5, <1>6, <1>7 DEF r

(* A task that leaves a queue leaves the others as they were.                *)
LEMMA WithoutPlace ==
  ASSUME NEW s \in Seq(Tasks), NEW t, Uniq(s)
  PROVE  LET r == Without(s, t)
         IN  /\ Held(r) = Held(s) \ {t} /\ Uniq(r)
             /\ \A v \in Keys : Sorted(s, v) => Sorted(r, v)
<1>1. CASE t \notin Held(s)
  BY <1>1, HeldIsRange DEF Without
<1>2. CASE t \in Held(s)
  <2> DEFINE i == CHOOSE i \in DOMAIN s : s[i] = t
             r == RemoveAt(s, i)
  <2>1. Len(s) \in Nat /\ DOMAIN s = 1 .. Len(s)
    BY LenProperties
  <2>2. i \in 1 .. Len(s) /\ s[i] = t
    BY <1>2, <2>1 DEF Held
  <2>3. Without(s, t) = r
    BY <1>2, HeldIsRange DEF Without
  <2> HIDE DEF i
  <2>4. /\ r \in Seq(Tasks) /\ Len(r) = Len(s) - 1
        /\ \A k \in 1 .. Len(s) - 1 : r[k] = IF k < i THEN s[k] ELSE s[k + 1]
    BY <2>2, RemoveAtEntries
  <2> HIDE DEF r
  <2>5. DOMAIN r = 1 .. Len(s) - 1
    BY <2>4, LenProperties
  <2>6. \A k, l \in 1 .. Len(s) : s[k] = s[l] => k = l
    BY <2>1 DEF Uniq
  <2>7. Held(r) = Held(s) \ {t}
    <3>1. \A k \in DOMAIN r : r[k] \in Held(s) \ {t}
      <4> SUFFICES ASSUME NEW k \in DOMAIN r PROVE r[k] \in Held(s) \ {t}
        OBVIOUS
      <4> DEFINE m == IF k < i THEN k ELSE k + 1
      <4>1. m \in 1 .. Len(s) /\ m # i /\ r[k] = s[m]
        BY <2>1, <2>2, <2>4, <2>5
      <4> QED BY <2>1, <2>2, <2>6, <4>1 DEF Held
    <3>2. \A k \in DOMAIN s : s[k] # t => \E j \in DOMAIN r : r[j] = s[k]
      <4> SUFFICES ASSUME NEW k \in DOMAIN s, s[k] # t PROVE \E j \in DOMAIN r : r[j] = s[k]
        OBVIOUS
      <4> DEFINE m == IF k < i THEN k ELSE k - 1
      <4>1. m \in DOMAIN r /\ r[m] = s[k]
        BY <2>1, <2>2, <2>4, <2>5
      <4> QED BY <4>1
    <3> QED BY <3>1, <3>2 DEF Held
  <2>8. Uniq(r)
    <3> SUFFICES ASSUME NEW k \in DOMAIN r, NEW l \in DOMAIN r, k < l PROVE r[k] # r[l]
      BY <2>1, <2>5 DEF Uniq
    <3> QED BY <2>1, <2>2, <2>4, <2>5, <2>6
  <2>9. ASSUME NEW v \in Keys, Sorted(s, v) PROVE Sorted(r, v)
    <3> SUFFICES ASSUME NEW k \in DOMAIN r, NEW l \in DOMAIN r, k < l PROVE v[r[k]] <= v[r[l]]
      BY DEF Sorted
    <3> DEFINE m == IF k < i THEN k ELSE k + 1
               n == IF l < i THEN l ELSE l + 1
    <3>1. m \in 1 .. Len(s) /\ n \in 1 .. Len(s) /\ m < n /\ r[k] = s[m] /\ r[l] = s[n]
      BY <2>1, <2>2, <2>4, <2>5
    <3> QED BY <2>1, <2>9, <3>1 DEF Sorted
  <2> QED BY <2>3, <2>7, <2>8, <2>9
<1> QED BY <1>1, <1>2

(* The head of a queue is its least key and in no other place of it.         *)
LEMMA TailPlace ==
  ASSUME NEW s \in Seq(Tasks), s # <<>>, Uniq(s)
  PROVE  /\ Head(s) \in Held(s) /\ Held(Tail(s)) = Held(s) \ {Head(s)} /\ Uniq(Tail(s))
         /\ \A v \in Keys : Sorted(s, v) =>
              Sorted(Tail(s), v) /\ \A u \in Held(Tail(s)) : v[Head(s)] <= v[u]
<1> DEFINE r == Tail(s)
<1>1. /\ r \in Seq(Tasks) /\ Len(r) = Len(s) - 1
      /\ \A i \in 1 .. Len(r) : r[i] = s[i + 1]
  BY HeadTailProperties
<1>2. Len(s) \in Nat \ {0} /\ DOMAIN s = 1 .. Len(s)
  BY LenProperties, EmptySeq
<1>3. Head(s) = s[1]
  OBVIOUS
<1> HIDE DEF r
<1>4. DOMAIN r = 1 .. Len(s) - 1
  BY <1>1, LenProperties
<1>5. \A k, l \in 1 .. Len(s) : s[k] = s[l] => k = l
  BY <1>2 DEF Uniq
<1>6. Held(r) = Held(s) \ {s[1]}
  <2>1. \A k \in DOMAIN r : k + 1 \in DOMAIN s /\ r[k] = s[k + 1] /\ s[k + 1] # s[1]
    BY <1>1, <1>2, <1>4, <1>5
  <2>2. \A k \in DOMAIN s : k # 1 => k - 1 \in DOMAIN r /\ r[k - 1] = s[k]
    BY <1>1, <1>2, <1>4
  <2> QED BY <2>1, <2>2 DEF Held
<1>7. Uniq(r)
  BY <1>1, <1>2, <1>4, <1>5 DEF Uniq
<1>8. ASSUME NEW v \in Keys, Sorted(s, v)
      PROVE  Sorted(r, v) /\ \A k \in DOMAIN r : v[s[1]] <= v[r[k]]
  <2>1. \A k, l \in 1 .. Len(s) : k < l => v[s[k]] <= v[s[l]]
    BY <1>2, <1>8 DEF Sorted
  <2>2. \A k \in DOMAIN r : k + 1 \in 1 .. Len(s) /\ r[k] = s[k + 1] /\ 1 < k + 1
    BY <1>1, <1>2, <1>4
  <2>3. \A k, l \in DOMAIN r : k < l => k + 1 < l + 1
    BY <1>4
  <2>4. 1 \in 1 .. Len(s)
    BY <1>2
  <2> QED BY <2>1, <2>2, <2>3, <2>4 DEF Sorted
<1>9. s[1] \in Held(s)
  BY <1>2 DEF Held
<1> QED BY <1>3, <1>6, <1>7, <1>8, <1>9 DEF r, Held

LEMMA AppendPlace ==
  ASSUME NEW s \in Seq(Tasks), NEW t \in Tasks
  PROVE  LET r == Append(s, t)
         IN  /\ Held(r) = Held(s) \cup {t}
             /\ Uniq(s) /\ t \notin Held(s) => Uniq(r)
<1> DEFINE r == Append(s, t)
<1>1. /\ r \in Seq(Tasks) /\ Len(r) = Len(s) + 1
      /\ \A i \in 1 .. Len(s) : r[i] = s[i]
      /\ r[Len(s) + 1] = t
  BY AppendProperties
<1>2. Len(s) \in Nat /\ DOMAIN s = 1 .. Len(s)
  BY LenProperties
<1> HIDE DEF r
<1>3. DOMAIN r = 1 .. Len(s) + 1
  BY <1>1, LenProperties
<1>4. Held(r) = Held(s) \cup {t}
  <2>1. \A k \in DOMAIN r : r[k] \in Held(s) \cup {t}
    BY <1>1, <1>2, <1>3 DEF Held
  <2>2. \A k \in DOMAIN s : k \in DOMAIN r /\ r[k] = s[k]
    BY <1>1, <1>2, <1>3
  <2>3. Len(s) + 1 \in DOMAIN r
    BY <1>2, <1>3
  <2> QED BY <1>1, <2>1, <2>2, <2>3 DEF Held
<1>5. ASSUME Uniq(s), t \notin Held(s) PROVE Uniq(r)
  BY <1>1, <1>2, <1>3, <1>5 DEF Uniq, Held
<1> QED BY <1>4, <1>5 DEF r

(* In a queue in order, the entries with a key no later than a given one are *)
(* the first ones, so the kernel finds the place by counting them.           *)
LEMMA PrefixCount ==
  ASSUME NEW n \in Nat, NEW P \in SUBSET (1 .. n),
         \A i, j \in 1 .. n : i < j /\ j \in P => i \in P
  PROVE  \A k \in 1 .. n : k <= Cardinality(P) <=> k \in P
<1>1. CASE P = 1 .. n
  <2>1. Cardinality(1 .. n) = IF 1 > n THEN 0 ELSE n - 1 + 1
    BY FS_Interval
  <2> QED BY <1>1, <2>1
<1>2. CASE P # 1 .. n
  <2> DEFINE Rest == (1 .. n) \ P
             k == Min(Rest)
  <2>1. Rest \subseteq Nat /\ Rest # {}
    <3>1. 1 .. n \subseteq Nat
      OBVIOUS
    <3>2. P \subseteq 1 .. n
      OBVIOUS
    <3> QED BY <1>2, <3>1, <3>2
  <2>2. k \in Rest /\ \A j \in Rest : k <= j
    BY <2>1, Least
  <2> HIDE DEF k
  <2>3. k \in Nat /\ 1 <= k /\ k <= n
    BY <2>2
  <2>4. P = 1 .. k - 1
    <3>1. ASSUME NEW j \in P PROVE j \in 1 .. k - 1
      <4>1. j \in 1 .. n /\ k \in 1 .. n /\ k \notin P
        BY <2>2
      <4>2. ~(k < j) /\ k # j
        BY <4>1
      <4> QED BY <4>1, <4>2
    <3>2. ASSUME NEW j \in 1 .. k - 1 PROVE j \in P
      <4>1. j \in 1 .. n /\ ~(k <= j)
        BY <2>3
      <4> QED BY <2>2, <4>1
    <3> QED BY <3>1, <3>2
  <2>5. Cardinality(1 .. k - 1) = IF 1 > k - 1 THEN 0 ELSE k - 1 - 1 + 1
    BY <2>3, FS_Interval
  <2> QED BY <2>3, <2>4, <2>5
<1> QED BY <1>1, <1>2

------------------------------------------------------------------------------
(* Places                                                                    *)

(* The queues hold the queued tasks, each in one place.                      *)
QueuedOK ==
  /\ \A q \in Queues : Uniq(dsq[q])
  /\ \A q, r \in Queues : \A t \in Tasks :
       t \in Held(dsq[q]) /\ t \in Held(dsq[r]) => q = r
  /\ \A t \in Tasks : state[t] = "queued" <=> \E q \in Queues : t \in Held(dsq[q])

(* The CPUs own the running tasks, and a put task is no one else's.          *)
OwnerOK ==
  /\ \A c \in Cpus : curr[c] # None => state[curr[c]] = "running"
  /\ \A t \in Tasks : state[t] = "running" => \E c \in Cpus : curr[c] = t
  /\ \A c, d \in Cpus : curr[c] = curr[d] /\ curr[c] # None => c = d
  /\ \A c \in Cpus : pc[c] = "put" => state[cand[c]] = "requeue"
  /\ \A c, d \in Cpus : pc[c] = "put" /\ pc[d] = "put" /\ cand[c] = cand[d] => c = d

(* An iterator only ever sees tasks that are still in its queue.             *)
Scanning(c) == pc[c] \in {"scan", "try"}

ScanAt(c) ==
  Scanning(c) =>
    /\ Held(todo[c]) \subseteq Held(dsq[from[c]]) /\ Uniq(todo[c])
    /\ seen[c] \subseteq Held(dsq[from[c]])
    /\ pc[c] = "try" /\ cand[c] # None => cand[c] \in Held(dsq[from[c]]) \ Held(todo[c])

ScanOK == \A c \in Cpus : ScanAt(c)

PlaceOK == QueuedOK /\ OwnerOK /\ ScanOK

LEMMA HeldType ==
  ASSUME NEW s \in Seq(Tasks)
  PROVE  Held(s) \subseteq Tasks
BY LenProperties, ElementOfSeq DEF Held

LEMMA EmptyHolds == Held(<<>>) = {} /\ Uniq(<<>>)
BY DEF Held, Uniq

LEMMA InitPlaced == Init => PlaceOK
<1> SUFFICES ASSUME Init PROVE PlaceOK
  OBVIOUS
<1>1. QueuedOK
  BY EmptyHolds DEF Init, QueuedOK
<1>2. OwnerOK
  BY DispatchConsts DEF Init, OwnerOK
<1>3. ScanOK
  BY DEF Init, ScanOK, ScanAt, Scanning
<1> QED BY <1>1, <1>2, <1>3 DEF PlaceOK

(* A task that was in no queue enters one.                                   *)
LEMMA EnterStep ==
  ASSUME RunsOwn, QueuedOK, NEW t \in Tasks, NEW q \in Queues, NEW new,
         state[t] # "queued", state' = [state EXCEPT ![t] = "queued"],
         dsq' = [dsq EXCEPT ![q] = new], Held(new) = Held(dsq[q]) \cup {t}, Uniq(new)
  PROVE  QueuedOK' /\ \A r \in Queues : Held(dsq[r]) \subseteq Held(dsq'[r])
<1>1. /\ \A r \in Queues : dsq'[r] = IF r = q THEN new ELSE dsq[r]
      /\ \A u \in Tasks : state'[u] = IF u = t THEN "queued" ELSE state[u]
  BY DEF RunsOwn, TypeOK
<1>2. \A r \in Queues : Held(dsq'[r]) = IF r = q THEN Held(dsq[r]) \cup {t} ELSE Held(dsq[r])
  BY <1>1
<1>3. \A r \in Queues : t \notin Held(dsq[r])
  BY DEF QueuedOK
<1>4. \A r \in Queues : Uniq(dsq'[r])
  BY <1>1 DEF QueuedOK
<1>5. \A r, o \in Queues : \A u \in Tasks :
        u \in Held(dsq'[r]) /\ u \in Held(dsq'[o]) => r = o
  BY <1>2, <1>3 DEF QueuedOK
<1>6. \A u \in Tasks : state'[u] = "queued" <=> \E r \in Queues : u \in Held(dsq'[r])
  BY <1>1, <1>2 DEF QueuedOK
<1> QED BY <1>2, <1>4, <1>5, <1>6 DEF QueuedOK

(* What a join leaves: the task queued, the scans as they were.              *)
LEMMA JoinsPlaced ==
  ASSUME RunsOwn, PlaceOK, NEW t \in Tasks, state[t] \in {"waking", "requeue"}, Joins(t)
  PROVE  /\ QueuedOK' /\ \A r \in Queues : Held(dsq[r]) \subseteq Held(dsq'[r])
         /\ state' = [state EXCEPT ![t] = "queued"] /\ curr' = curr
<1> DEFINE q == plan[t].q
           n == Cardinality({i \in DOMAIN dsq[q] : vr[dsq[q][i]] <= vr[t]})
           new == IF q \in Tiers THEN InsertAt(dsq[q], n + 1, t) ELSE Append(dsq[q], t)
<1>1. q \in Queues /\ dsq[q] \in Seq(Tasks)
  BY DEF RunsOwn, TypeOK
<1>2. dsq' = [dsq EXCEPT ![q] = new]
  BY DEF Joins, Insert
<1>3. Uniq(dsq[q]) /\ t \notin Held(dsq[q])
  BY <1>1 DEF PlaceOK, QueuedOK
<1>4. n \in 0 .. Len(dsq[q])
  BY <1>1, BeforeBound
<1> HIDE DEF n
<1>5. Held(new) = Held(dsq[q]) \cup {t} /\ Uniq(new)
  BY <1>1, <1>3, <1>4, InsertPlace, AppendPlace
<1> HIDE DEF new, q
<1>6. state' = [state EXCEPT ![t] = "queued"] /\ curr' = curr /\ state[t] # "queued"
  BY DEF Joins
<1> QED BY <1>1, <1>2, <1>5, <1>6, EnterStep DEF PlaceOK

(* A scan is not disturbed by a step that leaves it and what its queue holds *)
(* in place.                                                                 *)
LEMMA ScanKept ==
  ASSUME NEW c \in Cpus, ScanAt(c), pc'[c] = pc[c], todo'[c] = todo[c],
         from'[c] = from[c], seen'[c] = seen[c],
         pc[c] = "try" => cand'[c] = cand[c],
         Held(dsq[from[c]]) \subseteq Held(dsq'[from[c]])
  PROVE  ScanAt(c)'
BY DEF ScanAt, Scanning

LEMMA WakePlaced ==
  ASSUME RunsOwn, PlaceOK, NEW t \in Tasks, Wake(t)
  PROVE  PlaceOK'
<1>1. /\ state[t] = "asleep" /\ state' = [state EXCEPT ![t] = "waking"]
      /\ UNCHANGED <<dsq, curr, pc, todo, from, seen, cand>>
  BY DEF Wake, passVars, scanVars
<1>2. \A u \in Tasks : state'[u] = IF u = t THEN "waking" ELSE state[u]
  BY <1>1 DEF RunsOwn, TypeOK
<1>3. QueuedOK'
  BY <1>1, <1>2 DEF PlaceOK, QueuedOK
<1>4. OwnerOK'
  <2>1. \A c \in Cpus : curr[c] # None => curr[c] \in Tasks
    BY DEF RunsOwn, TypeOK
  <2>2. \A c \in Cpus : pc[c] = "put" => cand[c] \in Tasks
    BY DEF RunsOwn, PhaseOK
  <2> QED BY <1>1, <1>2, <2>1, <2>2 DEF PlaceOK, OwnerOK
<1>5. ScanOK'
  BY <1>1 DEF PlaceOK, ScanOK, ScanAt, Scanning
<1> QED BY <1>3, <1>4, <1>5 DEF PlaceOK

LEMMA JoinPlaced ==
  ASSUME RunsOwn, PlaceOK, NEW t \in Tasks, Join(t)
  PROVE  PlaceOK'
<1>1. state[t] = "waking" /\ Joins(t) /\ UNCHANGED <<pc, todo, from, seen, cand>>
  BY DEF Join, passVars, scanVars
<1>2. /\ QueuedOK' /\ \A r \in Queues : Held(dsq[r]) \subseteq Held(dsq'[r])
      /\ state' = [state EXCEPT ![t] = "queued"] /\ curr' = curr
  BY <1>1, JoinsPlaced
<1>3. \A u \in Tasks : state'[u] = IF u = t THEN "queued" ELSE state[u]
  BY <1>2 DEF RunsOwn, TypeOK
<1>4. OwnerOK'
  <2>1. \A c \in Cpus : curr[c] # None => curr[c] \in Tasks
    BY DEF RunsOwn, TypeOK
  <2>2. \A c \in Cpus : pc[c] = "put" => cand[c] \in Tasks
    BY DEF RunsOwn, PhaseOK
  <2> QED BY <1>1, <1>2, <1>3, <2>1, <2>2 DEF PlaceOK, OwnerOK
<1>5. ScanOK'
  <2>1. \A c \in Cpus : from[c] \in Queues
    BY DEF RunsOwn, TypeOK
  <2> QED BY <1>1, <1>2, <2>1, ScanKept DEF PlaceOK, ScanOK
<1> QED BY <1>2, <1>4, <1>5 DEF PlaceOK

LEMMA SchedPlaced ==
  ASSUME RunsOwn, PlaceOK, NEW c \in Cpus, Sched(c)
  PROVE  PlaceOK'
<1>1. /\ UNCHANGED <<dsq, state, curr, todo, from, seen, cand>>
      /\ pc' = [pc EXCEPT ![c] = "pass"]
  BY StartStep DEF Sched, taskVars, scanVars
<1>2. pc'[c] = "pass" /\ \A d \in Cpus : d # c => pc'[d] = pc[d]
  BY <1>1 DEF RunsOwn, TypeOK
<1>3. QueuedOK'
  BY <1>1 DEF PlaceOK, QueuedOK
<1>4. OwnerOK'
  BY <1>1, <1>2 DEF PlaceOK, OwnerOK
<1>5. ScanOK'
  BY <1>1, <1>2 DEF PlaceOK, ScanOK, ScanAt, Scanning
<1> QED BY <1>3, <1>4, <1>5 DEF PlaceOK

LEMMA OpenPlaced ==
  ASSUME RunsOwn, PlaceOK, NEW c \in Cpus, Open(c)
  PROVE  PlaceOK'
<1>1. PICK q \in Opens(c) :
        /\ from' = [from EXCEPT ![c] = q]
        /\ todo' = [todo EXCEPT ![c] = dsq[q]]
        /\ seen' = [seen EXCEPT ![c] = Range(dsq[q])]
  BY DEF Open
<1>2. q \in Queues
  BY OpensTiers, QueueIds
<1>3. UNCHANGED <<dsq, state, curr, cand>> /\ pc' = [pc EXCEPT ![c] = "scan"]
  BY DEF Open, taskVars, Goto
<1>4. /\ pc'[c] = "scan" /\ from'[c] = q /\ todo'[c] = dsq[q] /\ seen'[c] = Held(dsq[q])
      /\ \A d \in Cpus : d # c =>
           pc'[d] = pc[d] /\ from'[d] = from[d] /\ todo'[d] = todo[d] /\ seen'[d] = seen[d]
  BY <1>1, <1>3, HeldIsRange DEF RunsOwn, TypeOK
<1>5. QueuedOK'
  BY <1>3 DEF PlaceOK, QueuedOK
<1>6. OwnerOK'
  BY <1>3, <1>4 DEF PlaceOK, OwnerOK
<1>7. ScanOK'
  <2>1. ScanAt(c)'
    BY <1>2, <1>3, <1>4 DEF PlaceOK, QueuedOK, ScanAt
  <2>2. \A d \in Cpus : d # c => ScanAt(d)'
    BY <1>3, <1>4 DEF PlaceOK, ScanOK, ScanAt, Scanning
  <2> QED BY <2>1, <2>2 DEF ScanOK
<1> QED BY <1>5, <1>6, <1>7 DEF PlaceOK

LEMMA VisitPlaced ==
  ASSUME RunsOwn, PlaceOK, NEW c \in Cpus, Visit(c)
  PROVE  PlaceOK'
<1>1. /\ pc[c] = "scan" /\ todo[c] # <<>> /\ todo[c] \in Seq(Tasks)
      /\ cand' = [cand EXCEPT ![c] = Head(todo[c])]
      /\ todo' = [todo EXCEPT ![c] = Tail(@)]
      /\ UNCHANGED <<dsq, state, curr, from, seen>> /\ pc' = [pc EXCEPT ![c] = "try"]
  BY DEF Visit, taskVars, Goto, RunsOwn, TypeOK
<1>2. /\ pc'[c] = "try" /\ cand'[c] = Head(todo[c]) /\ todo'[c] = Tail(todo[c])
      /\ \A d \in Cpus : d # c => pc'[d] = pc[d] /\ cand'[d] = cand[d] /\ todo'[d] = todo[d]
  BY <1>1 DEF RunsOwn, TypeOK
<1>3. QueuedOK'
  BY <1>1 DEF PlaceOK, QueuedOK
<1>4. OwnerOK'
  BY <1>1, <1>2 DEF PlaceOK, OwnerOK
<1>5. ScanOK'
  <2>1. ScanAt(c)'
    <3>1. /\ Held(todo[c]) \subseteq Held(dsq[from[c]]) /\ Uniq(todo[c])
          /\ seen[c] \subseteq Held(dsq[from[c]])
      BY <1>1 DEF PlaceOK, ScanOK, ScanAt, Scanning
    <3>2. /\ Head(todo[c]) \in Held(todo[c]) /\ Uniq(Tail(todo[c]))
          /\ Held(Tail(todo[c])) = Held(todo[c]) \ {Head(todo[c])}
      BY <1>1, <3>1, TailPlace
    <3> QED BY <1>1, <1>2, <3>1, <3>2 DEF ScanAt
  <2>2. \A d \in Cpus : d # c => ScanAt(d)'
    BY <1>1, <1>2 DEF PlaceOK, ScanOK, ScanAt, Scanning
  <2> QED BY <2>1, <2>2 DEF ScanOK
<1> QED BY <1>3, <1>4, <1>5 DEF PlaceOK

LEMMA EndScanPlaced ==
  ASSUME RunsOwn, PlaceOK, NEW c \in Cpus, EndScan(c)
  PROVE  PlaceOK'
<1>1. /\ UNCHANGED <<dsq, state, curr, cand>> /\ pc' = [pc EXCEPT ![c] = "pass"]
      /\ todo' = [todo EXCEPT ![c] = <<>>] /\ seen' = [seen EXCEPT ![c] = {}]
      /\ from' = [from EXCEPT ![c] = Machine]
  BY DEF EndScan, Close, Goto, taskVars
<1>2. /\ pc'[c] = "pass"
      /\ \A d \in Cpus : d # c =>
           pc'[d] = pc[d] /\ from'[d] = from[d] /\ todo'[d] = todo[d] /\ seen'[d] = seen[d]
  BY <1>1 DEF RunsOwn, TypeOK
<1>3. QueuedOK'
  BY <1>1 DEF PlaceOK, QueuedOK
<1>4. OwnerOK'
  BY <1>1, <1>2 DEF PlaceOK, OwnerOK
<1>5. ScanOK'
  BY <1>1, <1>2 DEF PlaceOK, ScanOK, ScanAt, Scanning
<1> QED BY <1>3, <1>4, <1>5 DEF PlaceOK

LEMMA PassPlaced ==
  ASSUME RunsOwn, PlaceOK, NEW c \in Cpus, Pass(c)
  PROVE  PlaceOK'
<1>1. /\ pc[c] = "try" /\ UNCHANGED <<dsq, state, curr, todo, from, seen>>
      /\ pc' = [pc EXCEPT ![c] = "scan"] /\ cand' = [cand EXCEPT ![c] = None]
  BY DEF Pass, Goto, taskVars, scanVars
<1>2. /\ pc'[c] = "scan"
      /\ \A d \in Cpus : d # c => pc'[d] = pc[d] /\ cand'[d] = cand[d]
  BY <1>1 DEF RunsOwn, TypeOK
<1>3. QueuedOK'
  BY <1>1 DEF PlaceOK, QueuedOK
<1>4. OwnerOK'
  BY <1>1, <1>2 DEF PlaceOK, OwnerOK
<1>5. ScanOK'
  BY <1>1, <1>2 DEF PlaceOK, ScanOK, ScanAt, Scanning
<1> QED BY <1>3, <1>4, <1>5 DEF PlaceOK

(* A move takes the task from its tier to the CPU: no other iterator sees it *)
(* any more.                                                                 *)
LEMMA MoveShape ==
  ASSUME RunsOwn, PlaceOK, NEW c \in Cpus, Move(c)
  PROVE  /\ cand[c] \in Tasks /\ pc[c] = "try" /\ from[c] \in Tiers
         /\ cand[c] \in Held(dsq[from[c]])
         /\ dsq'[from[c]] = Without(dsq[from[c]], cand[c])
         /\ dsq'[On(c)] = Append(dsq[On(c)], cand[c])
         /\ \A q \in Queues : q # from[c] /\ q # On(c) => dsq'[q] = dsq[q]
         /\ state' = state /\ curr' = curr /\ vr' = vr
         /\ pc'[c] = "pass" /\ \A d \in Cpus : d # c =>
              /\ pc'[d] = pc[d] /\ from'[d] = from[d]
              /\ todo'[d] = Without(todo[d], cand[c]) /\ seen'[d] = seen[d] \ {cand[c]}
              /\ cand'[d] = IF pc[d] = "try" /\ cand[d] = cand[c] THEN None ELSE cand[d]
<1>1. cand[c] \in Tasks /\ cand[c] # None /\ pc[c] = "try"
  BY DEF Move, Movable, RunsOwn, TypeOK
<1>2. cand[c] \in Held(dsq[from[c]])
  BY <1>1 DEF PlaceOK, ScanOK, ScanAt, Scanning
<1>3. from[c] \in Tiers /\ from[c] \in Queues /\ On(c) \in Queues /\ from[c] # On(c)
  BY QueueIds DEF RunsOwn, TypeOK, PhaseOK
<1>4. /\ dsq'[from[c]] = Without(dsq[from[c]], cand[c])
      /\ dsq'[On(c)] = Append(dsq[On(c)], cand[c])
      /\ \A q \in Queues : q # from[c] /\ q # On(c) => dsq'[q] = dsq[q]
  BY <1>3 DEF Move, RunsOwn, TypeOK
<1>5. /\ Forget(c, cand[c]) /\ pc' = [pc EXCEPT ![c] = "pass"]
      /\ from' = [from EXCEPT ![c] = Machine] /\ state' = state /\ curr' = curr /\ vr' = vr
  BY DEF Move, Close, Goto, taskVars
<1>6. pc'[c] = "pass" /\ \A d \in Cpus : d # c => pc'[d] = pc[d] /\ from'[d] = from[d]
  BY <1>5 DEF RunsOwn, TypeOK
<1>7. \A d \in Cpus : d # c =>
        /\ todo'[d] = Without(todo[d], cand[c]) /\ seen'[d] = seen[d] \ {cand[c]}
        /\ cand'[d] = IF pc[d] = "try" /\ cand[d] = cand[c] THEN None ELSE cand[d]
  BY <1>5 DEF Forget
<1> QED BY <1>1, <1>2, <1>3, <1>4, <1>5, <1>6, <1>7

LEMMA MovePlaced ==
  ASSUME RunsOwn, PlaceOK, NEW c \in Cpus, Move(c)
  PROVE  PlaceOK'
<1> DEFINE t == cand[c]
<1>1. /\ t \in Tasks /\ t \in Held(dsq[from[c]]) /\ from[c] \in Tiers /\ from[c] \in Queues
      /\ On(c) \in Queues /\ from[c] # On(c)
  BY MoveShape, QueueIds
<1>2. \A q \in Queues : dsq[q] \in Seq(Tasks) /\ Uniq(dsq[q])
  BY DEF RunsOwn, TypeOK, PlaceOK, QueuedOK
<1>3. \A q \in Queues : t \in Held(dsq[q]) => q = from[c]
  BY <1>1 DEF PlaceOK, QueuedOK
<1>4. Held(dsq'[from[c]]) = Held(dsq[from[c]]) \ {t} /\ Uniq(dsq'[from[c]])
  BY <1>1, <1>2, MoveShape, WithoutPlace
<1>5. Held(dsq'[On(c)]) = Held(dsq[On(c)]) \cup {t} /\ Uniq(dsq'[On(c)])
  <2>1. dsq'[On(c)] = Append(dsq[On(c)], t)
    BY MoveShape
  <2>2. dsq[On(c)] \in Seq(Tasks) /\ Uniq(dsq[On(c)]) /\ t \notin Held(dsq[On(c)])
    BY <1>1, <1>2, <1>3
  <2> QED BY <1>1, <2>1, <2>2, AppendPlace
<1>6. \A q \in Queues : q # from[c] /\ q # On(c) => dsq'[q] = dsq[q]
  BY MoveShape
<1>7. QueuedOK'
  <2>1. \A q \in Queues : Uniq(dsq'[q])
    BY <1>2, <1>4, <1>5, <1>6
  <2>2. \A q \in Queues : Held(dsq'[q]) =
          IF q = from[c] THEN Held(dsq[q]) \ {t}
          ELSE IF q = On(c) THEN Held(dsq[q]) \cup {t} ELSE Held(dsq[q])
    BY <1>4, <1>5, <1>6
  <2>3. \A q, r \in Queues : \A u \in Tasks :
          u \in Held(dsq'[q]) /\ u \in Held(dsq'[r]) => q = r
    <3> SUFFICES ASSUME NEW q \in Queues, NEW r \in Queues, NEW u \in Tasks,
                        u \in Held(dsq'[q]), u \in Held(dsq'[r])
                 PROVE  q = r
      OBVIOUS
    <3>1. CASE u = t
      BY <1>1, <1>3, <2>2, <3>1
    <3>2. CASE u # t
      <4>1. u \in Held(dsq[q]) /\ u \in Held(dsq[r])
        BY <2>2, <3>2
      <4> QED BY <4>1 DEF PlaceOK, QueuedOK
    <3> QED BY <3>1, <3>2
  <2>4. ASSUME NEW u \in Tasks
        PROVE  state'[u] = "queued" <=> \E q \in Queues : u \in Held(dsq'[q])
    <3>1. state'[u] = "queued" <=> \E q \in Queues : u \in Held(dsq[q])
      BY MoveShape DEF PlaceOK, QueuedOK
    <3>2. CASE u = t
      BY <1>1, <2>2, <3>1, <3>2
    <3>3. CASE u # t
      BY <2>2, <3>1, <3>3
    <3> QED BY <3>2, <3>3
  <2> QED BY <2>1, <2>3, <2>4 DEF QueuedOK
<1>8. OwnerOK'
  <2>1. state' = state /\ curr' = curr
    BY MoveShape
  <2>2. \A d \in Cpus : pc'[d] = "put" => pc[d] = "put" /\ cand'[d] = cand[d]
    BY MoveShape
  <2> QED BY <2>1, <2>2 DEF PlaceOK, OwnerOK
<1>9. ScanOK'
  <2> SUFFICES ASSUME NEW d \in Cpus, Scanning(d)' PROVE ScanAt(d)'
    BY DEF ScanOK, ScanAt
  <2>1. d # c
    BY MoveShape DEF Scanning
  <2>2. /\ pc'[d] = pc[d] /\ from'[d] = from[d] /\ Scanning(d)
        /\ todo'[d] = Without(todo[d], t) /\ seen'[d] = seen[d] \ {t}
        /\ cand'[d] = IF pc[d] = "try" /\ cand[d] = t THEN None ELSE cand[d]
    BY <2>1, MoveShape DEF Scanning
  <2>3. /\ Held(todo[d]) \subseteq Held(dsq[from[d]]) /\ Uniq(todo[d])
        /\ seen[d] \subseteq Held(dsq[from[d]])
        /\ pc[d] = "try" /\ cand[d] # None => cand[d] \in Held(dsq[from[d]]) \ Held(todo[d])
    BY <2>2 DEF PlaceOK, ScanOK, ScanAt
  <2>4. Held(todo'[d]) = Held(todo[d]) \ {t} /\ Uniq(todo'[d])
    BY <2>2, <2>3, WithoutPlace DEF RunsOwn, TypeOK
  <2>5. Held(dsq[from[d]]) \ {t} \subseteq Held(dsq'[from'[d]])
    <3>1. from[d] \in Queues /\ from[d] # On(c)
      BY QueueIds DEF RunsOwn, TypeOK, PhaseOK
    <3> QED BY <1>4, <1>6, <2>2, <3>1
  <2>6. pc'[d] = "try" /\ cand'[d] # None => pc[d] = "try" /\ cand'[d] = cand[d] /\ cand[d] # t
    BY <2>2
  <2> HIDE DEF t
  <2> QED BY <2>2, <2>3, <2>4, <2>5, <2>6 DEF ScanAt
<1> QED BY <1>7, <1>8, <1>9 DEF PlaceOK

LEMMA PutPlaced ==
  ASSUME RunsOwn, PlaceOK, NEW c \in Cpus, Put(c)
  PROVE  PlaceOK'
<1> DEFINE t == curr[c]
<1>1. /\ t \in Tasks /\ t # None /\ state[t] = "running"
      /\ UNCHANGED <<dsq, todo, from, seen>>
      /\ curr' = [curr EXCEPT ![c] = None] /\ state' = [state EXCEPT ![t] = "requeue"]
      /\ cand' = [cand EXCEPT ![c] = t] /\ pc' = [pc EXCEPT ![c] = "put"]
  BY DEF Put, Goto, scanVars, RunsOwn, TypeOK, PlaceOK, OwnerOK
<1>2. /\ pc'[c] = "put" /\ cand'[c] = t /\ curr'[c] = None
      /\ \A d \in Cpus : d # c => pc'[d] = pc[d] /\ cand'[d] = cand[d] /\ curr'[d] = curr[d]
      /\ \A u \in Tasks : state'[u] = IF u = t THEN "requeue" ELSE state[u]
  BY <1>1 DEF RunsOwn, TypeOK
<1>3. \A d \in Cpus : d # c => curr[d] # t
  BY <1>1 DEF PlaceOK, OwnerOK
<1>4. \A d \in Cpus : curr[d] \in Tasks \cup {None} /\ (pc[d] = "put" => cand[d] \in Tasks)
  BY DEF RunsOwn, TypeOK, PhaseOK
<1> HIDE DEF t
<1>5. QueuedOK'
  BY <1>1, <1>2 DEF PlaceOK, QueuedOK
<1>6. OwnerOK'
  <2>1. \A d \in Cpus : curr'[d] # None => state'[curr'[d]] = "running"
    BY <1>1, <1>2, <1>3, <1>4 DEF PlaceOK, OwnerOK
  <2>2. \A u \in Tasks : state'[u] = "running" => \E d \in Cpus : curr'[d] = u
    <3> SUFFICES ASSUME NEW u \in Tasks, state'[u] = "running" PROVE \E d \in Cpus : curr'[d] = u
      OBVIOUS
    <3>1. u # t /\ state[u] = "running"
      BY <1>2
    <3>2. PICK d \in Cpus : curr[d] = u
      BY <3>1 DEF PlaceOK, OwnerOK
    <3>3. d # c
      BY <3>1, <3>2 DEF t
    <3> QED BY <1>2, <3>2, <3>3
  <2>3. \A d, e \in Cpus : curr'[d] = curr'[e] /\ curr'[d] # None => d = e
    BY <1>2 DEF PlaceOK, OwnerOK
  <2>4. \A d \in Cpus : pc'[d] = "put" => state'[cand'[d]] = "requeue"
    BY <1>1, <1>2, <1>4 DEF PlaceOK, OwnerOK
  <2>5. \A d \in Cpus : d # c /\ pc[d] = "put" => cand[d] # t
    BY <1>1 DEF PlaceOK, OwnerOK
  <2>6. \A d, e \in Cpus : pc'[d] = "put" /\ pc'[e] = "put" /\ cand'[d] = cand'[e] => d = e
    BY <1>2, <2>5 DEF PlaceOK, OwnerOK
  <2> QED BY <2>1, <2>2, <2>3, <2>4, <2>6 DEF OwnerOK
<1>7. ScanOK'
  BY <1>1, <1>2 DEF PlaceOK, ScanOK, ScanAt, Scanning
<1> QED BY <1>5, <1>6, <1>7 DEF PlaceOK

LEMMA PutJoinPlaced ==
  ASSUME RunsOwn, PlaceOK, NEW c \in Cpus, PutJoin(c)
  PROVE  PlaceOK'
<1> DEFINE t == cand[c]
<1>1. /\ pc[c] = "put" /\ t \in Tasks /\ state[t] = "requeue" /\ Joins(t)
      /\ UNCHANGED <<todo, from, seen>> /\ cand' = [cand EXCEPT ![c] = None]
  BY DEF PutJoin, scanVars, RunsOwn, PhaseOK, PlaceOK, OwnerOK
<1>2. /\ pc'[c] \in {"idle", "pass"}
      /\ \A d \in Cpus : d # c => pc'[d] = pc[d] /\ cand'[d] = cand[d]
  BY DEF PutJoin, Goto, RunsOwn, TypeOK
<1> HIDE DEF t
<1>3. /\ QueuedOK' /\ \A r \in Queues : Held(dsq[r]) \subseteq Held(dsq'[r])
      /\ state' = [state EXCEPT ![t] = "queued"] /\ curr' = curr
  BY <1>1, JoinsPlaced
<1>4. \A u \in Tasks : state'[u] = IF u = t THEN "queued" ELSE state[u]
  BY <1>3 DEF RunsOwn, TypeOK
<1>5. OwnerOK'
  <2>1. \A d \in Cpus : curr[d] # None => curr[d] \in Tasks
    BY DEF RunsOwn, TypeOK
  <2>2. \A d \in Cpus : pc'[d] = "put" =>
          /\ pc[d] = "put" /\ cand'[d] = cand[d] /\ cand[d] \in Tasks /\ cand[d] # t
    BY <1>1, <1>2 DEF RunsOwn, PhaseOK, PlaceOK, OwnerOK, t
  <2> QED BY <1>1, <1>3, <1>4, <2>1, <2>2 DEF PlaceOK, OwnerOK
<1>6. ScanOK'
  <2>1. \A d \in Cpus : from[d] \in Queues
    BY DEF RunsOwn, TypeOK
  <2>2. ScanAt(c)'
    BY <1>2 DEF ScanAt, Scanning
  <2>3. \A d \in Cpus : d # c => ScanAt(d)'
    BY <1>1, <1>2, <1>3, <2>1, ScanKept DEF PlaceOK, ScanOK
  <2> QED BY <2>2, <2>3 DEF ScanOK
<1> QED BY <1>3, <1>5, <1>6 DEF PlaceOK

(* The head of its own queue leaves for the CPU.                             *)
LEMMA PickPlaced ==
  ASSUME RunsOwn, PlaceOK, NEW c \in Cpus, Pick(c)
  PROVE  PlaceOK'
<1>1. pc[c] = "pass" /\ curr[c] = None /\ UNCHANGED <<todo, from, seen, cand>>
  BY DEF Pick, EndPass, scanVars
<1>2. CASE Empty(On(c))
  <2>1. UNCHANGED <<dsq, curr, state>> /\ pc' = [pc EXCEPT ![c] = "idle"]
    BY <1>2 DEF Pick, Goto
  <2>2. pc'[c] = "idle" /\ \A d \in Cpus : d # c => pc'[d] = pc[d]
    BY <2>1 DEF RunsOwn, TypeOK
  <2>3. QueuedOK'
    BY <2>1 DEF PlaceOK, QueuedOK
  <2>4. OwnerOK'
    BY <1>1, <2>1, <2>2 DEF PlaceOK, OwnerOK
  <2>5. ScanOK'
    BY <1>1, <2>1, <2>2 DEF PlaceOK, ScanOK, ScanAt, Scanning
  <2> QED BY <2>3, <2>4, <2>5 DEF PlaceOK
<1>3. CASE ~Empty(On(c))
  <2> DEFINE s == dsq[On(c)]
             h == Head(s)
  <2>1. On(c) \in Queues /\ s \in Seq(Tasks) /\ s # <<>> /\ Uniq(s)
    BY <1>3, QueueIds DEF Empty, RunsOwn, TypeOK, PlaceOK, QueuedOK
  <2>2. h \in Held(s) /\ Held(Tail(s)) = Held(s) \ {h} /\ Uniq(Tail(s))
    BY <2>1, TailPlace
  <2>3. h \in Tasks /\ state[h] = "queued" /\ h # None
    <3>1. h \in Tasks
      BY <2>1, <2>2, HeldType
    <3> QED BY <2>1, <2>2, <3>1, DispatchConsts DEF PlaceOK, QueuedOK
  <2>4. /\ curr' = [curr EXCEPT ![c] = h] /\ state' = [state EXCEPT ![h] = "running"]
        /\ dsq' = [dsq EXCEPT ![On(c)] = Tail(s)] /\ pc' = [pc EXCEPT ![c] = "run"]
    BY <1>3 DEF Pick, Goto
  <2> HIDE DEF h
  <2>5. /\ \A q \in Queues : Held(dsq'[q]) = Held(dsq[q]) \ {h} /\ Uniq(dsq'[q])
        /\ \A q \in Queues : q # On(c) => dsq'[q] = dsq[q]
    <3>1. \A q \in Queues : dsq'[q] = IF q = On(c) THEN Tail(s) ELSE dsq[q]
      BY <2>4 DEF RunsOwn, TypeOK
    <3>2. \A q \in Queues : q # On(c) => h \notin Held(dsq[q])
      BY <2>1, <2>2, <2>3 DEF PlaceOK, QueuedOK
    <3> QED BY <2>2, <3>1, <3>2 DEF PlaceOK, QueuedOK
  <2>6. /\ pc'[c] = "run" /\ curr'[c] = h
        /\ \A d \in Cpus : d # c => pc'[d] = pc[d] /\ curr'[d] = curr[d]
        /\ \A u \in Tasks : state'[u] = IF u = h THEN "running" ELSE state[u]
    BY <2>4 DEF RunsOwn, TypeOK
  <2>7. QueuedOK'
    BY <2>3, <2>5, <2>6 DEF PlaceOK, QueuedOK
  <2>8. OwnerOK'
    <3>1. \A d \in Cpus : curr[d] # None => curr[d] \in Tasks /\ curr[d] # h
      BY <2>3 DEF RunsOwn, TypeOK, PlaceOK, OwnerOK
    <3>2. \A d \in Cpus : curr'[d] # None => state'[curr'[d]] = "running"
      BY <2>3, <2>6, <3>1 DEF PlaceOK, OwnerOK
    <3>3. \A u \in Tasks : state'[u] = "running" => \E d \in Cpus : curr'[d] = u
      <4> SUFFICES ASSUME NEW u \in Tasks, state'[u] = "running", u # h
                   PROVE  \E d \in Cpus : curr'[d] = u
        BY <2>6
      <4>1. PICK d \in Cpus : curr[d] = u
        BY <2>6 DEF PlaceOK, OwnerOK
      <4>2. d # c
        BY <1>1, <4>1, DispatchConsts
      <4> QED BY <2>6, <4>1, <4>2
    <3>4. \A d, e \in Cpus : curr'[d] = curr'[e] /\ curr'[d] # None => d = e
      BY <2>3, <2>6, <3>1 DEF PlaceOK, OwnerOK
    <3>5. \A d \in Cpus : pc'[d] = "put" => pc[d] = "put" /\ cand[d] \in Tasks /\ cand[d] # h
      BY <2>3, <2>6 DEF RunsOwn, PhaseOK, PlaceOK, OwnerOK
    <3>6. \A d \in Cpus : pc'[d] = "put" => state'[cand'[d]] = "requeue"
      BY <1>1, <2>6, <3>5 DEF PlaceOK, OwnerOK
    <3>7. \A d, e \in Cpus : pc'[d] = "put" /\ pc'[e] = "put" /\ cand'[d] = cand'[e] => d = e
      BY <1>1, <3>5 DEF PlaceOK, OwnerOK
    <3> QED BY <3>2, <3>3, <3>4, <3>6, <3>7 DEF OwnerOK
  <2>9. ScanOK'
    <3> SUFFICES ASSUME NEW d \in Cpus PROVE ScanAt(d)'
      BY DEF ScanOK
    <3>1. CASE d = c
      BY <2>6, <3>1 DEF ScanAt, Scanning
    <3>2. CASE d # c
      <4>1. dsq'[from[d]] = dsq[from[d]]
        BY <2>5, QueueIds DEF RunsOwn, TypeOK, PhaseOK
      <4> QED BY <1>1, <2>6, <3>2, <4>1, ScanKept DEF PlaceOK, ScanOK
    <3> QED BY <3>1, <3>2
  <2> QED BY <2>7, <2>8, <2>9 DEF PlaceOK
<1> QED BY <1>2, <1>3

LEMMA BlockPlaced ==
  ASSUME RunsOwn, PlaceOK, NEW c \in Cpus, Block(c)
  PROVE  PlaceOK'
<1> DEFINE t == curr[c]
<1>1. /\ pc[c] = "run" /\ t \in Tasks /\ t # None /\ state[t] = "running"
      /\ UNCHANGED <<dsq, todo, from, seen, cand>>
      /\ curr' = [curr EXCEPT ![c] = None] /\ state' = [state EXCEPT ![t] = "asleep"]
      /\ pc' = [pc EXCEPT ![c] = "pass"]
  BY StartStep, DispatchConsts DEF Block, Charge, scanVars, RunsOwn, PhaseOK, PlaceOK, OwnerOK
<1>2. /\ pc'[c] = "pass" /\ curr'[c] = None
      /\ \A d \in Cpus : d # c => pc'[d] = pc[d] /\ curr'[d] = curr[d]
      /\ \A u \in Tasks : state'[u] = IF u = t THEN "asleep" ELSE state[u]
  BY <1>1 DEF RunsOwn, TypeOK
<1>3. \A d \in Cpus : d # c => curr[d] # t
  BY <1>1 DEF PlaceOK, OwnerOK
<1>4. \A d \in Cpus : curr[d] \in Tasks \cup {None} /\ (pc[d] = "put" => cand[d] \in Tasks)
  BY DEF RunsOwn, TypeOK, PhaseOK
<1> HIDE DEF t
<1>5. QueuedOK'
  BY <1>1, <1>2 DEF PlaceOK, QueuedOK
<1>6. OwnerOK'
  <2>1. \A d \in Cpus : curr'[d] # None => state'[curr'[d]] = "running"
    BY <1>1, <1>2, <1>3, <1>4 DEF PlaceOK, OwnerOK
  <2>2. \A u \in Tasks : state'[u] = "running" => \E d \in Cpus : curr'[d] = u
    <3> SUFFICES ASSUME NEW u \in Tasks, state'[u] = "running" PROVE \E d \in Cpus : curr'[d] = u
      OBVIOUS
    <3>1. u # t /\ state[u] = "running"
      BY <1>2
    <3>2. PICK d \in Cpus : curr[d] = u
      BY <3>1 DEF PlaceOK, OwnerOK
    <3>3. d # c
      BY <3>1, <3>2 DEF t
    <3> QED BY <1>2, <3>2, <3>3
  <2>3. \A d, e \in Cpus : curr'[d] = curr'[e] /\ curr'[d] # None => d = e
    BY <1>2 DEF PlaceOK, OwnerOK
  <2>4. \A d \in Cpus : pc'[d] = "put" =>
          /\ pc[d] = "put" /\ cand'[d] = cand[d] /\ cand[d] \in Tasks /\ cand[d] # t
    BY <1>1, <1>2, <1>4 DEF PlaceOK, OwnerOK
  <2> QED BY <1>2, <2>1, <2>2, <2>3, <2>4 DEF PlaceOK, OwnerOK
<1>7. ScanOK'
  BY <1>1, <1>2 DEF PlaceOK, ScanOK, ScanAt, Scanning
<1> QED BY <1>5, <1>6, <1>7 DEF PlaceOK

LEMMA AlwaysPlaced == Spec => [](RunsOwn /\ PlaceOK)
<1>1. Init => RunsOwn /\ PlaceOK
  BY InitRunsOwn, InitPlaced
<1>2. RunsOwn /\ PlaceOK /\ [Next]_vars => RunsOwn' /\ PlaceOK'
  <2> SUFFICES ASSUME RunsOwn, PlaceOK, [Next]_vars PROVE PlaceOK'
    BY NextRunsOwn
  <2>1. CASE \E t \in Tasks : Wake(t) \/ Join(t)
    BY <2>1, WakePlaced, JoinPlaced
  <2>2. CASE \E c \in Cpus : Runs(c) \/ Block(c)
    BY <2>2, SchedPlaced, OpenPlaced, VisitPlaced, EndScanPlaced, MovePlaced, PassPlaced,
       PutPlaced, PutJoinPlaced, PickPlaced, BlockPlaced DEF Runs
  <2>3. CASE UNCHANGED vars
    <3>1. UNCHANGED <<dsq, state, curr, pc, cand, from, todo, seen>>
      BY <2>3 DEF vars, taskVars, passVars, scanVars
    <3>2. QueuedOK' /\ OwnerOK'
      BY <3>1 DEF PlaceOK, QueuedOK, OwnerOK
    <3>3. ScanOK'
      BY <3>1 DEF PlaceOK, ScanOK, ScanAt, Scanning
    <3> QED BY <3>2, <3>3 DEF PlaceOK
  <2> QED BY <2>1, <2>2, <2>3 DEF Next
<1> QED BY <1>1, <1>2, PTL DEF Spec

(* A task is in one place of one queue, on one CPU or in one handler,        *)
(* whatever passes run over one queue at once and whatever they leave.       *)
THEOREM NeverTwice == Spec => []OnePlace
<1>1. RunsOwn /\ PlaceOK => OnePlace
  <2> SUFFICES ASSUME RunsOwn, PlaceOK, NEW t \in Tasks
               PROVE  /\ Cardinality(UNION {{q} \X {i \in DOMAIN dsq[q] : dsq[q][i] = t} : q \in Queues})
                         = IF state[t] = "queued" THEN 1 ELSE 0
                      /\ Cardinality({c \in Cpus : curr[c] = t}) = IF state[t] = "running" THEN 1 ELSE 0
    BY DEF OnePlace
  <2> DEFINE P == UNION {{q} \X {i \in DOMAIN dsq[q] : dsq[q][i] = t} : q \in Queues}
             O == {c \in Cpus : curr[c] = t}
  <2>1. Cardinality({}) = 0 /\ \A x : Cardinality({x}) = 1
    BY FS_EmptySet, FS_Singleton
  <2>2. state[t] = "queued" => \E x : P = {x}
    <3> SUFFICES ASSUME state[t] = "queued" PROVE \E x : P = {x}
      OBVIOUS
    <3>1. PICK q \in Queues : t \in Held(dsq[q])
      BY DEF PlaceOK, QueuedOK
    <3>2. PICK i \in DOMAIN dsq[q] : dsq[q][i] = t
      BY <3>1 DEF Held
    <3>3. \A r \in Queues : \A j \in DOMAIN dsq[r] : dsq[r][j] = t => r = q /\ j = i
      BY <3>1, <3>2 DEF PlaceOK, QueuedOK, Held, Uniq
    <3>4. <<q, i>> \in P
      BY <3>2
    <3>5. \A x \in P : x = <<q, i>>
      BY <3>3
    <3> HIDE DEF P
    <3>6. P = {<<q, i>>}
      BY <3>4, <3>5
    <3> QED BY <3>6
  <2>3. state[t] # "queued" => P = {}
    <3> SUFFICES ASSUME state[t] # "queued", NEW x \in P PROVE FALSE
      OBVIOUS
    <3>1. PICK q \in Queues : \E i \in DOMAIN dsq[q] : dsq[q][i] = t
      OBVIOUS
    <3> QED BY <3>1 DEF PlaceOK, QueuedOK, Held
  <2>4. t # None
    BY DispatchConsts
  <2>5. state[t] = "running" => \E x : O = {x}
    <3> SUFFICES ASSUME state[t] = "running" PROVE \E x : O = {x}
      OBVIOUS
    <3>1. PICK c \in Cpus : curr[c] = t
      BY DEF PlaceOK, OwnerOK
    <3>2. O = {c}
      BY <2>4, <3>1 DEF PlaceOK, OwnerOK
    <3> QED BY <3>2
  <2>6. state[t] # "running" => O = {}
    BY <2>4 DEF PlaceOK, OwnerOK
  <2> HIDE DEF P, O
  <2>7. Cardinality(P) = IF state[t] = "queued" THEN 1 ELSE 0
    BY <2>1, <2>2, <2>3
  <2>8. Cardinality(O) = IF state[t] = "running" THEN 1 ELSE 0
    BY <2>1, <2>5, <2>6
  <2> QED BY <2>7, <2>8 DEF P, O
<1> QED BY <1>1, AlwaysPlaced, PTL

------------------------------------------------------------------------------
(* Order                                                                     *)

(* What a scan has yet to visit is in order and holds every task it saw that *)
(* may run here, but for the one it tries, which comes before the others.    *)
OrderAt(c) ==
  Scanning(c) =>
    /\ Sorted(todo[c], vr)
    /\ \A u \in seen[c] : c \in Mask[u] =>
         u \in Held(todo[c]) \/ (pc[c] = "try" /\ u = cand[c])
    /\ pc[c] = "try" /\ cand[c] # None => \A u \in Held(todo[c]) : vr[cand[c]] <= vr[u]

OrderOK ==
  /\ \A q \in Tiers : Sorted(dsq[q], vr)
  /\ \A c \in Cpus : OrderAt(c)

LEMMA InitOrdered == Init => OrderOK
<1> SUFFICES ASSUME Init PROVE OrderOK
  OBVIOUS
<1>1. \A q \in Tiers : dsq[q] = <<>>
  BY QueueIds DEF Init
<1>2. \A c \in Cpus : ~Scanning(c)
  BY DEF Init, Scanning
<1> QED BY <1>1, <1>2 DEF OrderOK, OrderAt, Sorted

(* What a scan holds is queued, so its keys stand still.                     *)
LEMMA ScanQueued ==
  ASSUME RunsOwn, PlaceOK, NEW c \in Cpus, Scanning(c)
  PROVE  /\ \A u \in Held(todo[c]) : u \in Tasks /\ state[u] = "queued"
         /\ pc[c] = "try" /\ cand[c] # None => cand[c] \in Tasks /\ state[cand[c]] = "queued"
<1>1. from[c] \in Queues /\ dsq[from[c]] \in Seq(Tasks)
  BY DEF RunsOwn, TypeOK
<1>2. \A u \in Held(dsq[from[c]]) : u \in Tasks /\ state[u] = "queued"
  BY <1>1, HeldType DEF PlaceOK, QueuedOK
<1> QED BY <1>2 DEF PlaceOK, ScanOK, ScanAt

(* Keys that stand still leave a queue in order.                             *)
LEMMA SortedKept ==
  ASSUME NEW s \in Seq(Tasks), Sorted(s, vr), \A u \in Held(s) : vr'[u] = vr[u]
  PROVE  Sorted(s, vr')
BY DEF Sorted, Held

LEMMA TierKept ==
  ASSUME RunsOwn, PlaceOK, OrderOK, NEW q \in Tiers, dsq'[q] = dsq[q],
         \A u \in Tasks : state[u] = "queued" => vr'[u] = vr[u]
  PROVE  Sorted(dsq'[q], vr')
<1>1. q \in Queues /\ dsq[q] \in Seq(Tasks)
  BY QueueIds DEF RunsOwn, TypeOK
<1>2. \A u \in Held(dsq[q]) : vr'[u] = vr[u]
  BY <1>1, HeldType DEF PlaceOK, QueuedOK
<1>3. Sorted(dsq[q], vr)
  BY DEF OrderOK
<1> QED BY <1>1, <1>2, <1>3, SortedKept

LEMMA OrderAtKept ==
  ASSUME RunsOwn, PlaceOK, OrderOK, NEW c \in Cpus,
         \A u \in Tasks : state[u] = "queued" => vr'[u] = vr[u],
         pc'[c] = pc[c], todo'[c] = todo[c], seen'[c] = seen[c],
         pc[c] = "try" => cand'[c] = cand[c]
  PROVE  OrderAt(c)'
<1> SUFFICES ASSUME Scanning(c) PROVE OrderAt(c)'
  BY DEF OrderAt, Scanning
<1>1. /\ \A u \in Held(todo[c]) : vr'[u] = vr[u]
      /\ pc[c] = "try" /\ cand[c] # None => vr'[cand[c]] = vr[cand[c]]
  BY ScanQueued
<1>2. /\ Sorted(todo[c], vr)
      /\ \A u \in seen[c] : c \in Mask[u] =>
           u \in Held(todo[c]) \/ (pc[c] = "try" /\ u = cand[c])
      /\ pc[c] = "try" /\ cand[c] # None => \A u \in Held(todo[c]) : vr[cand[c]] <= vr[u]
  BY DEF OrderOK, OrderAt
<1>3. Sorted(todo[c], vr')
  BY <1>1, <1>2, SortedKept DEF RunsOwn, TypeOK
<1> QED BY <1>1, <1>2, <1>3 DEF OrderAt

(* A step that leaves the tiers, the keys of queued tasks and every scan     *)
(* that goes on alone.                                                       *)
LEMMA OrderKept ==
  ASSUME RunsOwn, PlaceOK, OrderOK,
         \A q \in Tiers : dsq'[q] = dsq[q],
         \A u \in Tasks : state[u] = "queued" => vr'[u] = vr[u],
         \A d \in Cpus : \/ pc'[d] \notin {"scan", "try"}
                         \/ /\ pc'[d] = pc[d] /\ todo'[d] = todo[d]
                            /\ seen'[d] = seen[d] /\ cand'[d] = cand[d]
  PROVE  OrderOK'
<1>1. \A q \in Tiers : Sorted(dsq'[q], vr')
  BY TierKept
<1>2. ASSUME NEW d \in Cpus PROVE OrderAt(d)'
  <2>1. CASE pc'[d] \notin {"scan", "try"}
    BY <2>1 DEF OrderAt, Scanning
  <2>2. CASE pc'[d] \in {"scan", "try"}
    BY <2>2, OrderAtKept
  <2> QED BY <2>1, <2>2
<1> QED BY <1>1, <1>2 DEF OrderOK

LEMMA WakeOrdered ==
  ASSUME RunsOwn, PlaceOK, OrderOK, NEW t \in Tasks, Wake(t)
  PROVE  OrderOK'
<1>1. state[t] = "asleep" /\ UNCHANGED <<dsq, pc, todo, seen, cand>>
  BY DEF Wake, passVars, scanVars
<1>2. \A u \in Tasks : u # t => vr'[u] = vr[u]
  BY DEF Wake, RunsOwn, TypeOK
<1> QED BY <1>1, <1>2, OrderKept

(* The place a join counts its way to is the right one.                      *)
LEMMA JoinsOrdered ==
  ASSUME RunsOwn, PlaceOK, OrderOK, NEW t \in Tasks, Joins(t)
  PROVE  vr' = vr /\ \A q \in Tiers : Sorted(dsq'[q], vr')
<1> DEFINE p == plan[t].q
           s == dsq[p]
           P == {i \in DOMAIN s : vr[s[i]] <= vr[t]}
           n == Cardinality(P)
<1>1. p \in Queues /\ s \in Seq(Tasks)
  BY DEF RunsOwn, TypeOK
<1>2. dsq' = [dsq EXCEPT ![p] = IF p \in Tiers THEN InsertAt(s, n + 1, t) ELSE Append(s, t)]
  BY DEF Joins, Insert
<1>3. vr' = vr
  BY DEF Joins
<1> SUFFICES ASSUME NEW q \in Tiers PROVE Sorted(dsq'[q], vr)
  BY <1>3
<1>4. CASE q # p
  <2>1. dsq'[q] = dsq[q]
    BY <1>2, <1>4, QueueIds DEF RunsOwn, TypeOK
  <2> QED BY <2>1 DEF OrderOK
<1>5. CASE q = p
  <2>1. dsq'[q] = InsertAt(s, n + 1, t)
    BY <1>1, <1>2, <1>5 DEF RunsOwn, TypeOK
  <2>2. Sorted(s, vr)
    BY <1>5 DEF OrderOK
  <2>3. Len(s) \in Nat /\ DOMAIN s = 1 .. Len(s) /\ \A k \in 1 .. Len(s) : s[k] \in Tasks
    BY <1>1, LenProperties, ElementOfSeq
  <2>4. vr \in Keys /\ \A u \in Tasks : vr[u] \in Int
    BY DispatchConsts DEF RunsOwn, TypeOK, Keys
  <2> HIDE DEF s, p
  <2>5. \A i, j \in 1 .. Len(s) : i < j /\ j \in P => i \in P
    BY <2>2, <2>3, <2>4 DEF Sorted
  <2>6. P \in SUBSET (1 .. Len(s))
    BY <2>3
  <2>7. \A k \in 1 .. Len(s) : k \in P <=> vr[s[k]] <= vr[t]
    BY <2>3
  <2>8. n \in 0 .. Len(s)
    BY <1>1, BeforeBound
  <2> HIDE DEF P
  <2>9. \A k \in 1 .. Len(s) : k <= n <=> vr[s[k]] <= vr[t]
    BY <2>3, <2>5, <2>6, <2>7, PrefixCount
  <2> HIDE DEF n
  <2>10. Sorted(InsertAt(s, n + 1, t), vr)
    BY <1>1, <2>2, <2>4, <2>8, <2>9, InsertPlace
  <2> QED BY <2>1, <2>10
<1> QED BY <1>4, <1>5

LEMMA JoinOrdered ==
  ASSUME RunsOwn, PlaceOK, OrderOK, NEW t \in Tasks, Join(t)
  PROVE  OrderOK'
<1>1. Joins(t) /\ UNCHANGED <<pc, todo, seen, cand>>
  BY DEF Join, passVars, scanVars
<1>2. vr' = vr /\ \A q \in Tiers : Sorted(dsq'[q], vr')
  BY <1>1, JoinsOrdered
<1>3. \A c \in Cpus : OrderAt(c)'
  BY <1>1, <1>2, OrderAtKept
<1> QED BY <1>2, <1>3 DEF OrderOK

LEMMA PutJoinOrdered ==
  ASSUME RunsOwn, PlaceOK, OrderOK, NEW c \in Cpus, PutJoin(c)
  PROVE  OrderOK'
<1>1. Joins(cand[c]) /\ cand[c] \in Tasks /\ UNCHANGED <<todo, seen>>
  BY DEF PutJoin, scanVars, RunsOwn, PhaseOK
<1>2. /\ pc'[c] \in {"idle", "pass"}
      /\ \A d \in Cpus : d # c => pc'[d] = pc[d] /\ cand'[d] = cand[d]
  BY DEF PutJoin, Goto, RunsOwn, TypeOK
<1>3. vr' = vr /\ \A q \in Tiers : Sorted(dsq'[q], vr')
  BY <1>1, JoinsOrdered
<1>4. OrderAt(c)'
  BY <1>2 DEF OrderAt, Scanning
<1>5. \A d \in Cpus : d # c => OrderAt(d)'
  BY <1>1, <1>2, <1>3, OrderAtKept
<1> QED BY <1>3, <1>4, <1>5 DEF OrderOK

LEMMA SchedOrdered ==
  ASSUME RunsOwn, PlaceOK, OrderOK, NEW c \in Cpus, Sched(c)
  PROVE  OrderOK'
<1>1. UNCHANGED <<dsq, vr, todo, seen, cand>> /\ pc' = [pc EXCEPT ![c] = "pass"]
  BY StartStep DEF Sched, taskVars, scanVars
<1>2. pc'[c] = "pass" /\ \A d \in Cpus : d # c => pc'[d] = pc[d]
  BY <1>1 DEF RunsOwn, TypeOK
<1> QED BY <1>1, <1>2, OrderKept

LEMMA OpenOrdered ==
  ASSUME RunsOwn, PlaceOK, OrderOK, NEW c \in Cpus, Open(c)
  PROVE  OrderOK'
<1>1. PICK q \in Opens(c) :
        /\ todo' = [todo EXCEPT ![c] = dsq[q]]
        /\ seen' = [seen EXCEPT ![c] = Range(dsq[q])]
  BY DEF Open
<1>2. q \in Tiers
  BY OpensTiers
<1>3. UNCHANGED <<dsq, vr, cand>> /\ pc' = [pc EXCEPT ![c] = "scan"]
  BY DEF Open, taskVars, Goto
<1>4. /\ pc'[c] = "scan" /\ todo'[c] = dsq[q] /\ seen'[c] = Held(dsq[q])
      /\ \A d \in Cpus : d # c => pc'[d] = pc[d] /\ todo'[d] = todo[d] /\ seen'[d] = seen[d]
  BY <1>1, <1>3, HeldIsRange DEF RunsOwn, TypeOK
<1>5. OrderAt(c)'
  BY <1>2, <1>3, <1>4 DEF OrderOK, OrderAt
<1>6. \A d \in Cpus : d # c => OrderAt(d)'
  BY <1>3, <1>4, OrderAtKept
<1> QED BY <1>3, <1>5, <1>6 DEF OrderOK

LEMMA VisitOrdered ==
  ASSUME RunsOwn, PlaceOK, OrderOK, NEW c \in Cpus, Visit(c)
  PROVE  OrderOK'
<1>1. /\ pc[c] = "scan" /\ todo[c] # <<>> /\ todo[c] \in Seq(Tasks) /\ vr \in Keys
      /\ cand' = [cand EXCEPT ![c] = Head(todo[c])]
      /\ todo' = [todo EXCEPT ![c] = Tail(@)]
      /\ UNCHANGED <<dsq, vr, seen>> /\ pc' = [pc EXCEPT ![c] = "try"]
  BY DEF Visit, taskVars, Goto, RunsOwn, TypeOK, Keys
<1>2. /\ pc'[c] = "try" /\ cand'[c] = Head(todo[c]) /\ todo'[c] = Tail(todo[c])
      /\ \A d \in Cpus : d # c => pc'[d] = pc[d] /\ cand'[d] = cand[d] /\ todo'[d] = todo[d]
  BY <1>1 DEF RunsOwn, TypeOK
<1>3. Uniq(todo[c]) /\ Sorted(todo[c], vr)
  BY <1>1 DEF PlaceOK, ScanOK, ScanAt, Scanning, OrderOK, OrderAt
<1>4. /\ Held(Tail(todo[c])) = Held(todo[c]) \ {Head(todo[c])} /\ Sorted(Tail(todo[c]), vr)
      /\ \A u \in Held(Tail(todo[c])) : vr[Head(todo[c])] <= vr[u]
  BY <1>1, <1>3, TailPlace
<1>5. \A u \in seen[c] : c \in Mask[u] => u \in Held(todo[c])
  BY <1>1 DEF OrderOK, OrderAt, Scanning
<1>6. OrderAt(c)'
  BY <1>1, <1>2, <1>4, <1>5 DEF OrderAt
<1>7. \A d \in Cpus : d # c => OrderAt(d)'
  BY <1>1, <1>2, OrderAtKept
<1> QED BY <1>1, <1>6, <1>7 DEF OrderOK

LEMMA EndScanOrdered ==
  ASSUME RunsOwn, PlaceOK, OrderOK, NEW c \in Cpus, EndScan(c)
  PROVE  OrderOK'
<1>1. /\ UNCHANGED <<dsq, vr, cand>> /\ pc' = [pc EXCEPT ![c] = "pass"]
      /\ todo' = [todo EXCEPT ![c] = <<>>] /\ seen' = [seen EXCEPT ![c] = {}]
  BY DEF EndScan, Close, Goto, taskVars
<1>2. /\ pc'[c] = "pass"
      /\ \A d \in Cpus : d # c => pc'[d] = pc[d] /\ todo'[d] = todo[d] /\ seen'[d] = seen[d]
  BY <1>1 DEF RunsOwn, TypeOK
<1> QED BY <1>1, <1>2, OrderKept

(* An entry is passed over because it may not run here.                      *)
LEMMA PassOrdered ==
  ASSUME RunsOwn, PlaceOK, OrderOK, NEW c \in Cpus, Pass(c)
  PROVE  OrderOK'
<1>1. /\ pc[c] = "try" /\ ~Movable(c) /\ UNCHANGED <<dsq, vr, todo, seen>>
      /\ pc' = [pc EXCEPT ![c] = "scan"] /\ cand' = [cand EXCEPT ![c] = None]
  BY DEF Pass, Goto, taskVars, scanVars
<1>2. /\ pc'[c] = "scan"
      /\ \A d \in Cpus : d # c => pc'[d] = pc[d] /\ cand'[d] = cand[d]
  BY <1>1 DEF RunsOwn, TypeOK
<1>3. /\ Sorted(todo[c], vr)
      /\ \A u \in seen[c] : c \in Mask[u] => u \in Held(todo[c]) \/ u = cand[c]
  BY <1>1 DEF OrderOK, OrderAt, Scanning
<1>4. \A u \in seen[c] : u \in Tasks
  BY DEF RunsOwn, TypeOK
<1>5. \A u \in seen[c] : c \in Mask[u] => u # cand[c]
  BY <1>1, <1>4, DispatchConsts DEF Movable
<1>6. OrderAt(c)'
  BY <1>1, <1>2, <1>3, <1>5 DEF OrderAt
<1>7. \A d \in Cpus : d # c => OrderAt(d)'
  BY <1>1, <1>2, OrderAtKept
<1> QED BY <1>1, <1>6, <1>7 DEF OrderOK

LEMMA MoveOrdered ==
  ASSUME RunsOwn, PlaceOK, OrderOK, NEW c \in Cpus, Move(c)
  PROVE  OrderOK'
<1> DEFINE t == cand[c]
<1>1. vr' = vr /\ vr \in Keys /\ pc'[c] = "pass"
  BY MoveShape DEF RunsOwn, TypeOK, Keys
<1>2. ASSUME NEW q \in Tiers PROVE Sorted(dsq'[q], vr)
  <2>1. q \in Queues /\ q # On(c) /\ dsq[q] \in Seq(Tasks) /\ Uniq(dsq[q]) /\ Sorted(dsq[q], vr)
    BY QueueIds DEF RunsOwn, TypeOK, PlaceOK, QueuedOK, OrderOK
  <2>2. CASE q = from[c]
    <3>1. dsq'[q] = Without(dsq[q], t)
      BY <2>2, MoveShape
    <3> QED BY <1>1, <2>1, <3>1, WithoutPlace
  <2>3. CASE q # from[c]
    BY <2>1, <2>3, MoveShape
  <2> QED BY <2>2, <2>3
<1>3. ASSUME NEW d \in Cpus PROVE OrderAt(d)'
  <2> SUFFICES ASSUME Scanning(d)' PROVE OrderAt(d)'
    BY DEF OrderAt
  <2>1. d # c
    BY <1>1 DEF Scanning
  <2>2. /\ pc'[d] = pc[d] /\ Scanning(d)
        /\ todo'[d] = Without(todo[d], t) /\ seen'[d] = seen[d] \ {t}
        /\ cand'[d] = IF pc[d] = "try" /\ cand[d] = t THEN None ELSE cand[d]
    BY <2>1, MoveShape DEF Scanning
  <2>3. /\ Sorted(todo[d], vr) /\ Uniq(todo[d]) /\ todo[d] \in Seq(Tasks)
        /\ \A u \in seen[d] : d \in Mask[u] =>
             u \in Held(todo[d]) \/ (pc[d] = "try" /\ u = cand[d])
        /\ pc[d] = "try" /\ cand[d] # None => \A u \in Held(todo[d]) : vr[cand[d]] <= vr[u]
    BY <2>2 DEF OrderOK, OrderAt, PlaceOK, ScanOK, ScanAt, RunsOwn, TypeOK
  <2>4. Held(todo'[d]) = Held(todo[d]) \ {t} /\ Sorted(todo'[d], vr)
    BY <1>1, <2>2, <2>3, WithoutPlace
  <2>5. \A u \in seen'[d] : d \in Mask[u] =>
          u \in Held(todo'[d]) \/ (pc'[d] = "try" /\ u = cand'[d])
    BY <2>2, <2>3, <2>4
  <2>6. pc'[d] = "try" /\ cand'[d] # None =>
          \A u \in Held(todo'[d]) : vr[cand'[d]] <= vr[u]
    BY <2>2, <2>3, <2>4
  <2> QED BY <1>1, <2>4, <2>5, <2>6 DEF OrderAt
<1> QED BY <1>1, <1>2, <1>3 DEF OrderOK

LEMMA PutOrdered ==
  ASSUME RunsOwn, PlaceOK, OrderOK, NEW c \in Cpus, Put(c)
  PROVE  OrderOK'
<1>1. /\ curr[c] \in Tasks /\ state[curr[c]] = "running" /\ UNCHANGED <<dsq, todo, seen>>
      /\ cand' = [cand EXCEPT ![c] = curr[c]] /\ pc' = [pc EXCEPT ![c] = "put"]
  BY DEF Put, Goto, scanVars, RunsOwn, TypeOK, PlaceOK, OwnerOK
<1>2. \A u \in Tasks : u # curr[c] => vr'[u] = vr[u]
  BY DEF Put, RunsOwn, TypeOK
<1>3. /\ pc'[c] = "put" /\ \A d \in Cpus : d # c => pc'[d] = pc[d] /\ cand'[d] = cand[d]
  BY <1>1 DEF RunsOwn, TypeOK
<1> QED BY <1>1, <1>2, <1>3, OrderKept

LEMMA PickOrdered ==
  ASSUME RunsOwn, PlaceOK, OrderOK, NEW c \in Cpus, Pick(c)
  PROVE  OrderOK'
<1>1. UNCHANGED <<vr, todo, seen, cand>>
  BY DEF Pick, scanVars
<1>2. \A q \in Tiers : dsq'[q] = dsq[q]
  BY QueueIds DEF Pick, RunsOwn, TypeOK
<1>3. pc'[c] \in {"idle", "run"} /\ \A d \in Cpus : d # c => pc'[d] = pc[d]
  BY DEF Pick, Goto, RunsOwn, TypeOK
<1> QED BY <1>1, <1>2, <1>3, OrderKept

LEMMA BlockOrdered ==
  ASSUME RunsOwn, PlaceOK, OrderOK, NEW c \in Cpus, Block(c)
  PROVE  OrderOK'
<1>1. /\ curr[c] \in Tasks /\ state[curr[c]] = "running"
      /\ UNCHANGED <<dsq, todo, seen, cand>> /\ pc' = [pc EXCEPT ![c] = "pass"]
  BY StartStep, DispatchConsts DEF Block, scanVars, RunsOwn, PhaseOK, PlaceOK, OwnerOK
<1>2. \A u \in Tasks : u # curr[c] => vr'[u] = vr[u]
  BY DEF Block, Charge, RunsOwn, TypeOK
<1>3. pc'[c] = "pass" /\ \A d \in Cpus : d # c => pc'[d] = pc[d]
  BY <1>1 DEF RunsOwn, TypeOK
<1> QED BY <1>1, <1>2, <1>3, OrderKept

LEMMA AlwaysOrdered == Spec => [](RunsOwn /\ PlaceOK /\ OrderOK)
<1>1. Init => OrderOK
  BY InitOrdered
<1>2. RunsOwn /\ PlaceOK /\ OrderOK /\ [Next]_vars => OrderOK'
  <2> SUFFICES ASSUME RunsOwn, PlaceOK, OrderOK, [Next]_vars PROVE OrderOK'
    OBVIOUS
  <2>1. CASE \E t \in Tasks : Wake(t) \/ Join(t)
    BY <2>1, WakeOrdered, JoinOrdered
  <2>2. CASE \E c \in Cpus : Runs(c) \/ Block(c)
    BY <2>2, SchedOrdered, OpenOrdered, VisitOrdered, EndScanOrdered, MoveOrdered, PassOrdered,
       PutOrdered, PutJoinOrdered, PickOrdered, BlockOrdered DEF Runs
  <2>3. CASE UNCHANGED vars
    BY <2>3, OrderKept DEF vars, taskVars, passVars, scanVars
  <2> QED BY <2>1, <2>2, <2>3 DEF Next
<1> QED BY <1>1, <1>2, AlwaysPlaced, PTL DEF Spec

(* Only a move counts.                                                       *)
LEMMA MovesCount ==
  ASSUME RunsOwn, [Next]_vars, NEW c \in Cpus, pc[c] = "try", moved'[c] > moved[c]
  PROVE  Move(c)
<1>1. moved'[c] # moved[c]
  BY DEF RunsOwn, TypeOK
<1>2. CASE \E t \in Tasks : Wake(t) \/ Join(t)
  BY <1>1, <1>2 DEF Wake, Join, passVars
<1>3. CASE \E d \in Cpus : Runs(d) \/ Block(d)
  <2>1. PICK d \in Cpus : Runs(d) \/ Block(d)
    BY <1>3
  <2>2. CASE Move(d)
    BY <1>1, <2>2 DEF Move, RunsOwn, TypeOK
  <2>3. CASE EndPass(d)
    BY <1>1, <2>3 DEF EndPass, RunsOwn, TypeOK
  <2>4. CASE ~Move(d) /\ ~EndPass(d)
    <3>1. moved' = moved
      BY <2>1, <2>4 DEF Runs, Sched, Open, Visit, EndScan, Pass, Put, PutJoin, Pick, Block
    <3> QED BY <1>1, <3>1
  <2> QED BY <2>2, <2>3, <2>4
<1>4. CASE UNCHANGED vars
  BY <1>1, <1>4 DEF vars, passVars
<1> QED BY <1>2, <1>3, <1>4 DEF Next

(* Every move takes the earliest key among the tasks its scan saw that are   *)
(* still there and may run on the CPU, whatever joined or left meanwhile.    *)
THEOREM EarliestFirst == Spec => TakesEarliest
<1> DEFINE A == \A c \in Cpus :
                  pc[c] = "try" /\ moved'[c] > moved[c] =>
                    \A u \in seen[c] \cap Range(dsq[from[c]]) :
                      c \in Mask[u] => vr[cand[c]] <= vr[u]
<1>1. RunsOwn /\ PlaceOK /\ OrderOK /\ [Next]_vars => A
  <2> SUFFICES ASSUME RunsOwn, PlaceOK, OrderOK, [Next]_vars, NEW c \in Cpus,
                      pc[c] = "try", moved'[c] > moved[c],
                      NEW u \in seen[c], c \in Mask[u]
               PROVE  vr[cand[c]] <= vr[u]
    OBVIOUS
  <2>1. Move(c)
    BY MovesCount
  <2>2. cand[c] \in Tasks /\ cand[c] # None /\ vr[cand[c]] \in Int
    BY <2>1, DispatchConsts DEF Move, Movable, RunsOwn, TypeOK
  <2>3. u \in Held(todo[c]) \/ u = cand[c]
    BY DEF OrderOK, OrderAt, Scanning
  <2>4. \A w \in Held(todo[c]) : vr[cand[c]] <= vr[w]
    BY <2>2 DEF OrderOK, OrderAt, Scanning
  <2> QED BY <2>2, <2>3, <2>4
<1>2. A => [A]_vars
  OBVIOUS
<1> QED BY <1>1, AlwaysOrdered, PTL DEF Spec, TakesEarliest

------------------------------------------------------------------------------
(* The pool the queues implement                                             *)

LEMMA LineKept ==
  ASSUME \A c \in Cpus : dsq'[On(c)] = dsq[On(c)]
  PROVE  Line' = Line
BY DEF Line

LEMMA LineSet ==
  ASSUME NEW c \in Cpus, \A d \in Cpus : d # c => dsq'[On(d)] = dsq[On(d)]
  PROVE  Line' = [Line EXCEPT ![c] = dsq'[On(c)]]
BY DEF Line

(* Who is in a tier or out of every queue is in no line.                     *)
LEMMA NotInLine ==
  ASSUME PlaceOK, NEW t \in Tasks,
         state[t] # "queued" \/ \E q \in Tiers : t \in Held(dsq[q])
  PROVE  ~Pool!InLine(t)
<1>1. \A c \in Cpus : t \notin Held(dsq[On(c)])
  BY QueueIds DEF PlaceOK, QueuedOK
<1> QED BY <1>1 DEF Pool!InLine, Line, Held

(* A join enters a tier, or passes them all and is claimed at once.          *)
LEMMA JoinsImplement ==
  ASSUME RunsOwn, PlaceOK, NEW t \in Tasks, state[t] \in {"waking", "requeue"}, Joins(t)
  PROVE  Pool!Next
<1> DEFINE q == plan[t].q
<1>1. /\ state' = [state EXCEPT ![t] = "queued"] /\ curr' = curr
      /\ Insert(q, t) /\ q \in Queues /\ dsq \in [Queues -> Seq(Tasks)]
      /\ \A c \in Cpus : q = On(c) => c \in Mask[t]
  BY DEF Joins, RunsOwn, TypeOK, OwnOK
<1> HIDE DEF q
<1>2. CASE q \in Tiers
  <2>1. \A c \in Cpus : dsq'[On(c)] = dsq[On(c)]
    BY <1>1, <1>2, QueueIds DEF Insert
  <2>2. Pool!Join(t)
    BY <1>1, <2>1, LineKept DEF Pool!Join
  <2> QED BY <2>2 DEF Pool!Next
<1>3. CASE \E c \in Cpus : q = On(c)
  <2>1. PICK c \in Cpus : q = On(c)
    BY <1>3
  <2>2. /\ dsq'[On(c)] = Append(dsq[On(c)], t)
        /\ \A d \in Cpus : d # c => dsq'[On(d)] = dsq[On(d)]
    BY <1>1, <2>1, QueueIds DEF Insert
  <2>3. Line' = [Line EXCEPT ![c] = Append(Line[c], t)]
    BY <2>2, LineSet DEF Line
  <2>4. Pool!Claim(c, t)
    BY <1>1, <2>1, <2>3, NotInLine DEF Pool!Claim
  <2> QED BY <2>4 DEF Pool!Next
<1> QED BY <1>1, <1>2, <1>3 DEF Queues

(* A move claims the task for the CPU, though others scan the same queue.    *)
LEMMA MoveImplements ==
  ASSUME RunsOwn, PlaceOK, NEW c \in Cpus, Move(c)
  PROVE  Pool!Next
<1> DEFINE t == cand[c]
<1>1. /\ t \in Tasks /\ c \in Mask[t] /\ from[c] \in Tiers /\ t \in Held(dsq[from[c]])
      /\ state' = state /\ curr' = curr
  BY MoveShape DEF Move, Movable
<1>2. /\ dsq'[On(c)] = Append(dsq[On(c)], t)
      /\ \A d \in Cpus : d # c => dsq'[On(d)] = dsq[On(d)]
  BY <1>1, MoveShape, QueueIds
<1> HIDE DEF t
<1>3. state[t] = "queued" /\ state' = [state EXCEPT ![t] = "queued"]
  BY <1>1, QueueIds DEF RunsOwn, TypeOK, PlaceOK, QueuedOK
<1>4. Line' = [Line EXCEPT ![c] = Append(Line[c], t)]
  BY <1>2, LineSet DEF Line
<1>5. Pool!Claim(c, t)
  BY <1>1, <1>3, <1>4, NotInLine DEF Pool!Claim
<1> QED BY <1>1, <1>5 DEF Pool!Next

LEMMA PickImplements ==
  ASSUME RunsOwn, NEW c \in Cpus, Pick(c)
  PROVE  Pool!Next \/ UNCHANGED <<state, Line, curr>>
<1>1. CASE Empty(On(c))
  BY <1>1, LineKept DEF Pick
<1>2. CASE ~Empty(On(c))
  <2>1. /\ curr[c] = None /\ dsq[On(c)] # <<>>
        /\ curr' = [curr EXCEPT ![c] = Head(dsq[On(c)])]
        /\ state' = [state EXCEPT ![Head(dsq[On(c)])] = "running"]
        /\ dsq' = [dsq EXCEPT ![On(c)] = Tail(@)]
    BY <1>2 DEF Pick, EndPass, Empty
  <2>2. /\ dsq'[On(c)] = Tail(dsq[On(c)])
        /\ \A d \in Cpus : d # c => dsq'[On(d)] = dsq[On(d)]
    BY <2>1, QueueIds DEF RunsOwn, TypeOK
  <2>3. Line[c] = dsq[On(c)] /\ Line' = [Line EXCEPT ![c] = Tail(Line[c])]
    BY <2>2, LineSet DEF Line
  <2>4. Pool!Start(c)
    BY <2>1, <2>3 DEF Pool!Start
  <2> QED BY <2>4 DEF Pool!Next
<1> QED BY <1>1, <1>2

LEMMA InitImplements == Init => Pool!Init
BY QueueIds DEF Init, Pool!Init, Line

LEMMA StepImplements ==
  RunsOwn /\ PlaceOK /\ [Next]_vars => [Pool!Next]_(Pool!vars)
<1> SUFFICES ASSUME RunsOwn, PlaceOK, [Next]_vars
             PROVE  Pool!Next \/ UNCHANGED <<state, Line, curr>>
  BY DEF Pool!vars
<1>1. CASE UNCHANGED <<dsq, state, curr>>
  BY <1>1, LineKept
<1>2. ASSUME NEW t \in Tasks, Wake(t) PROVE Pool!Next
  <2>1. Pool!Wake(t)
    BY <1>2, LineKept DEF Wake, Pool!Wake
  <2> QED BY <2>1 DEF Pool!Next
<1>3. ASSUME NEW t \in Tasks, Join(t) PROVE Pool!Next
  BY <1>3, JoinsImplement DEF Join
<1>4. ASSUME NEW c \in Cpus, PutJoin(c) PROVE Pool!Next
  <2>1. cand[c] \in Tasks /\ state[cand[c]] = "requeue" /\ Joins(cand[c])
    BY <1>4 DEF PutJoin, RunsOwn, PhaseOK, PlaceOK, OwnerOK
  <2> QED BY <2>1, JoinsImplement
<1>5. ASSUME NEW c \in Cpus, Put(c) PROVE Pool!Next
  <2>1. Pool!Stop(c, "requeue")
    BY <1>5, LineKept DEF Put, Pool!Stop
  <2> QED BY <2>1 DEF Pool!Next
<1>6. ASSUME NEW c \in Cpus, Block(c) PROVE Pool!Next
  <2>1. Pool!Stop(c, "asleep")
    BY <1>6, LineKept, DispatchConsts DEF Block, Charge, RunsOwn, PhaseOK, Pool!Stop
  <2> QED BY <2>1 DEF Pool!Next
<1>7. ASSUME NEW c \in Cpus, Sched(c) \/ Open(c) \/ Visit(c) \/ EndScan(c) \/ Pass(c)
      PROVE  UNCHANGED <<dsq, state, curr>>
  BY <1>7 DEF Sched, Open, Visit, EndScan, Pass, taskVars
<1>8. CASE UNCHANGED vars
  BY <1>1, <1>8 DEF vars, taskVars
<1> QED BY <1>1, <1>2, <1>3, <1>4, <1>5, <1>6, <1>7, <1>8, MoveImplements, PickImplements
        DEF Next, Runs

(* Every behaviour of the queues is one of the pool: whatever passes, steals *)
(* and joins interleave, each task is claimed once, by a CPU its mask allows,*)
(* and runs there in the order of the claims.                                *)
THEOREM QueuesImplementPool == Spec => PoolSpec
BY InitImplements, StepImplements, AlwaysPlaced, PTL DEF Spec, PoolSpec, Pool!Spec
=============================================================================
