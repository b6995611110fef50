-------------------------- MODULE WimSplit_proofs --------------------------
(***************************************************************************)
(* What a split keeps for any size of the source and of its resources, any *)
(* limit of a file and any faults, also when the number of parts wraps:    *)
(* the parts are planned and written within what the array holds, a split  *)
(* that succeeds leaves a complete set of parts, and the progress only     *)
(* advances.                                                               *)
(***************************************************************************)
EXTENDS WimSplit, SequenceTheorems, WellFoundedInduction, TLAPS

(***************************************************************************)
(* Induction over the naturals for a set instead of a predicate: the least *)
(* number outside of the set would have a predecessor in it.               *)
(***************************************************************************)
LEMMA NatSetInduction ==
    ASSUME NEW S, 0 \in S, \A n \in Nat : n \in S => n + 1 \in S
    PROVE  \A n \in Nat : n \in S
<1> DEFINE T == {n \in Nat : n \notin S}
           R == {ss \in Nat \X Nat : ss[1] < ss[2]}
<1>1. SUFFICES ASSUME T # {} PROVE FALSE
  OBVIOUS
<1>2. IsWellFoundedOn(R, Nat)
  BY NatLessThanWellFounded DEF OpToRel
<1>3. PICK x \in T : \A y \in T : <<y, x>> \notin R
  <2>1. T \subseteq Nat
    OBVIOUS
  <2> HIDE DEF T, R
  <2> QED
    BY <1>1, <1>2, <2>1, WFMin
<1>4. \A y \in T : ~(y < x)
  <2> TAKE y \in T
  <2>1. y < x => <<y, x>> \in R
    OBVIOUS
  <2> QED
    BY <2>1, <1>3
<1>5. x - 1 \in Nat /\ x - 1 < x /\ (x - 1) + 1 = x
  OBVIOUS
<1>6. x - 1 \in S
  BY <1>4, <1>5
<1> QED
  BY <1>5, <1>6

-----------------------------------------------------------------------------
(* Total, the sum of a sequence: it is the last of its partial sums.       *)

IsSums(p, list) ==
    /\ p \in [0..Len(list) -> Nat]
    /\ p[0] = 0
    /\ \A k \in 1..Len(list) : p[k] = p[k - 1] + list[k]

(* The equation of the function FoldLeft defines, on the subsets of D. *)
Folded(g, list, D) ==
    g = [s \in SUBSET D |-> IF s = {} THEN 0 ELSE g[s \ {Max(s)}] + list[Max(s)]]

LEMMA MaxOfInterval ==
    ASSUME NEW k \in Nat, NEW s \in SUBSET (1..(k + 1)), k + 1 \in s
    PROVE  Max(s) = k + 1
<1>1. \A y \in s : y \in Int /\ k + 1 >= y
  OBVIOUS
<1>2. \A x \in s : (\A y \in s : x >= y) => x = k + 1
  BY <1>1
<1> QED
  BY <1>1, <1>2 DEF Max

LEMMA FoldedExists ==
    ASSUME NEW list
    PROVE  \A k \in Nat : \E g : Folded(g, list, 1..k)
<1> DEFINE S == {k \in Nat : \E g : Folded(g, list, 1..k)}
<1>1. 0 \in S
  <2>1. Folded([s \in SUBSET (1..0) |-> 0], list, 1..0)
    BY DEF Folded
  <2> QED
    BY <2>1
<1>2. ASSUME NEW k \in Nat, k \in S PROVE k + 1 \in S
  <2>1. PICK g : Folded(g, list, 1..k)
    BY <1>2
  <2> DEFINE G(s) == IF s = {} THEN 0 ELSE g[s \ {Max(s)}] + list[Max(s)]
             H(s) == IF k + 1 \in s THEN g[s \ {k + 1}] + list[k + 1] ELSE g[s]
             h == [s \in SUBSET (1..(k + 1)) |-> H(s)]
  <2>2. \A s \in SUBSET (1..k) : g[s] = G(s)
    BY <2>1 DEF Folded
  <2>3. ASSUME NEW s \in SUBSET (1..(k + 1))
        PROVE  h[s] = IF s = {} THEN 0 ELSE h[s \ {Max(s)}] + list[Max(s)]
    <3>1. CASE k + 1 \in s
      <4>1. Max(s) = k + 1
        BY <3>1, MaxOfInterval
      <4>2. s \ {k + 1} \in SUBSET (1..(k + 1)) /\ k + 1 \notin s \ {k + 1}
        OBVIOUS
      <4>3. h[s \ {k + 1}] = g[s \ {k + 1}]
        BY <4>2
      <4>4. h[s] = g[s \ {k + 1}] + list[k + 1]
        BY <3>1
      <4> QED
        BY <3>1, <4>1, <4>3, <4>4
    <3>2. CASE k + 1 \notin s
      <4>1. s \in SUBSET (1..k)
        BY <3>2
      <4>2. s \ {Max(s)} \in SUBSET (1..(k + 1)) /\ k + 1 \notin s \ {Max(s)}
        BY <3>2
      <4>3. h[s \ {Max(s)}] = g[s \ {Max(s)}]
        BY <4>2
      <4>4. h[s] = G(s)
        BY <3>2, <4>1, <2>2
      <4> QED
        BY <4>3, <4>4
    <3> QED
      BY <3>1, <3>2
  <2>4. Folded(h, list, 1..(k + 1))
    BY <2>3 DEF Folded
  <2> QED
    BY <2>4
<1> HIDE DEF S
<1>3. \A k \in Nat : k \in S
  BY <1>1, <1>2, NatSetInduction
<1> QED
  BY <1>3 DEF S

LEMMA TotalIsFolded ==
    ASSUME NEW list
    PROVE  Total(list) = (CHOOSE g : Folded(g, list, DOMAIN list))[DOMAIN list]
BY DEF Total, FoldLeft, MapThenFoldSet, Folded

(* The sum is the last of the partial sums, which exist. *)
LEMMA TotalIsLastSum ==
    ASSUME NEW list \in Seq(Nat)
    PROVE  \E p : IsSums(p, list) /\ Total(list) = p[Len(list)]
<1> DEFINE n == Len(list)
<1>1. n \in Nat /\ DOMAIN list = 1..n
  OBVIOUS
<1> HIDE DEF n
<1>2. PICK g : Folded(g, list, 1..n) /\ Total(list) = g[1..n]
  BY <1>1, FoldedExists, TotalIsFolded
<1> DEFINE p == [k \in 0..n |-> g[1..k]]
<1>3. p[0] = 0
  <2>1. 1..0 = {} /\ {} \in SUBSET (1..n)
    BY <1>1
  <2>2. g[{}] = 0
    BY <1>2, <2>1 DEF Folded
  <2> QED
    BY <2>1, <2>2, <1>1
<1>4. ASSUME NEW k \in 1..n PROVE p[k] = p[k - 1] + list[k]
  <2>1. k - 1 \in Nat /\ (k - 1) + 1 = k /\ 1..k \in SUBSET (1..n) /\ k \in 1..k
    BY <1>1
  <2>2. Max(1..k) = k
    <3>1. 1..k \in SUBSET (1..((k - 1) + 1)) /\ (k - 1) + 1 \in 1..k
      BY <2>1
    <3> QED
      BY <2>1, <3>1, MaxOfInterval
  <2>3. (1..k) \ {k} = 1..(k - 1) /\ 1..k # {}
    <3>1. \A x : x \in (1..k) \ {k} <=> x \in 1..(k - 1)
      BY <2>1
    <3> QED
      BY <3>1, <2>1
  <2>4. g[1..k] = g[1..(k - 1)] + list[k]
    <3>1. g[1..k] = g[(1..k) \ {Max(1..k)}] + list[Max(1..k)]
      BY <1>2, <2>1, <2>3 DEF Folded
    <3> QED
      BY <3>1, <2>2, <2>3
  <2> QED
    BY <2>4, <1>1
<1>5. \A k \in 0..n : p[k] \in Nat
  <2> DEFINE S == {j \in Nat : j \in 0..n => p[j] \in Nat}
  <2> HIDE DEF p
  <2>1. 0 \in S
    BY <1>3
  <2>2. ASSUME NEW k \in Nat, k \in S PROVE k + 1 \in S
    <3> SUFFICES ASSUME k + 1 \in 0..n PROVE p[k + 1] \in Nat
      OBVIOUS
    <3>1. k \in 0..n /\ k + 1 \in 1..n /\ (k + 1) - 1 = k
      BY <1>1
    <3>2. p[k] \in Nat /\ list[k + 1] \in Nat
      BY <3>1, <2>2, <1>1 DEF n
    <3> QED
      BY <3>1, <3>2, <1>4
  <2> HIDE DEF S
  <2>3. \A k \in Nat : k \in S
    BY <2>1, <2>2, NatSetInduction
  <2> QED
    BY <2>3, <1>1 DEF S
<1>6. IsSums(p, list)
  <2>1. p \in [0..n -> Nat]
    BY <1>5
  <2> QED
    BY <2>1, <1>3, <1>4 DEF IsSums, n
<1>7. Total(list) = p[n]
  BY <1>2, <1>1
<1> QED
  BY <1>6, <1>7 DEF n
(* Partial sums are what the list says. *)
LEMMA SumsAgree ==
    ASSUME NEW s \in Seq(Nat), NEW t \in Seq(Nat), NEW p, NEW q,
           IsSums(p, s), IsSums(q, t),
           NEW n \in Nat, n <= Len(s), n <= Len(t), \A i \in 1..n : s[i] = t[i]
    PROVE  \A k \in 0..n : p[k] = q[k]
<1> DEFINE S == {k \in Nat : k <= n => p[k] = q[k]}
<1>1. 0 \in S
  BY DEF IsSums
<1>2. ASSUME NEW k \in Nat, k \in S PROVE k + 1 \in S
  <2> SUFFICES ASSUME k + 1 <= n PROVE p[k + 1] = q[k + 1]
    OBVIOUS
  <2>1. k + 1 \in 1..Len(s) /\ k + 1 \in 1..Len(t) /\ k + 1 \in 1..n /\ (k + 1) - 1 = k
    OBVIOUS
  <2>2. p[k] = q[k] /\ s[k + 1] = t[k + 1]
    BY <1>2, <2>1
  <2>3. p[k + 1] = p[k] + s[k + 1]
    BY <2>1 DEF IsSums
  <2>4. q[k + 1] = q[k] + t[k + 1]
    BY <2>1 DEF IsSums
  <2> QED
    BY <2>2, <2>3, <2>4
<1> HIDE DEF S
<1>3. \A k \in Nat : k \in S
  BY <1>1, <1>2, NatSetInduction
<1> QED
  BY <1>3 DEF S

LEMMA TotalIsSum ==
    ASSUME NEW list \in Seq(Nat), NEW p, IsSums(p, list)
    PROVE  Total(list) = p[Len(list)] /\ Total(list) \in Nat
<1>1. PICK q : IsSums(q, list) /\ Total(list) = q[Len(list)]
  BY TotalIsLastSum
<1>2. \A k \in 0..Len(list) : p[k] = q[k]
  BY <1>1, SumsAgree
<1>3. Len(list) \in 0..Len(list)
  OBVIOUS
<1> QED
  BY <1>1, <1>2, <1>3 DEF IsSums

LEMMA TotalEmpty == Total(<<>>) = 0
<1>1. <<>> \in Seq(Nat) /\ Len(<<>>) = 0
  OBVIOUS
<1>2. PICK p : IsSums(p, <<>>) /\ Total(<<>>) = p[0]
  BY <1>1, TotalIsLastSum
<1> QED
  BY <1>2 DEF IsSums

LEMMA TotalType ==
    ASSUME NEW list \in Seq(Nat)
    PROVE  Total(list) \in Nat
BY TotalIsLastSum, TotalIsSum

LEMMA TotalConcat ==
    ASSUME NEW s \in Seq(Nat), NEW t \in Seq(Nat)
    PROVE  Total(s \o t) = Total(s) + Total(t)
<1>1. PICK p : IsSums(p, s) /\ Total(s) = p[Len(s)]
  BY TotalIsLastSum
<1>2. PICK q : IsSums(q, t) /\ Total(t) = q[Len(t)]
  BY TotalIsLastSum
<1> DEFINE m == Len(s)
           n == Len(t)
           r == [k \in 0..(m + n) |-> IF k <= m THEN p[k] ELSE p[m] + q[k - m]]
<1>3. m \in Nat /\ n \in Nat /\ s \o t \in Seq(Nat) /\ Len(s \o t) = m + n
  OBVIOUS
<1>4. /\ p \in [0..m -> Nat] /\ p[0] = 0 /\ \A k \in 1..m : p[k] = p[k - 1] + s[k]
      /\ q \in [0..n -> Nat] /\ q[0] = 0 /\ \A k \in 1..n : q[k] = q[k - 1] + t[k]
  BY <1>1, <1>2 DEF IsSums
<1>5. /\ \A i \in 1..m : (s \o t)[i] = s[i]
      /\ \A i \in (m + 1)..(m + n) : (s \o t)[i] = t[i - m]
  OBVIOUS
<1>6. PICK u : u = s \o t
  OBVIOUS
<1> HIDE DEF m, n
<1>7. \A k \in 0..(m + n) : r[k] = IF k <= m THEN p[k] ELSE p[m] + q[k - m]
  OBVIOUS
<1>8. r \in [0..(m + n) -> Nat]
  <2> SUFFICES ASSUME NEW k \in 0..(m + n) PROVE r[k] \in Nat
    OBVIOUS
  <2>1. CASE k <= m
    BY <2>1, <1>3, <1>4
  <2>2. CASE ~(k <= m)
    <3>1. k - m \in 0..n /\ m \in 0..m
      BY <2>2, <1>3
    <3> QED
      BY <2>2, <3>1, <1>4
  <2> QED
    BY <2>1, <2>2
<1> HIDE DEF r
<1>9. ASSUME NEW k \in 1..(m + n) PROVE r[k] = r[k - 1] + u[k]
  <2>0. k - 1 \in 0..(m + n) /\ k \in 0..(m + n)
    BY <1>3
  <2>1. CASE k <= m
    <3>1. k \in 1..m /\ k - 1 <= m
      BY <2>1, <1>3
    <3>2. r[k] = p[k] /\ r[k - 1] = p[k - 1] /\ u[k] = s[k]
      BY <2>0, <2>1, <3>1, <1>5, <1>6, <1>7
    <3> QED
      BY <3>1, <3>2, <1>4
  <2>2. CASE k = m + 1
    <3>1. 1 \in 1..n /\ k - 1 = m /\ k - m = 1 /\ k \in (m + 1)..(m + n) /\ ~(k <= m) /\ m <= m
      BY <2>2, <1>3
    <3>2. r[k] = p[m] + q[1] /\ r[k - 1] = p[m] /\ u[k] = t[1]
      BY <2>0, <3>1, <1>5, <1>6, <1>7
    <3>3. q[1] = t[1]
      <4>1. q[1] = q[1 - 1] + t[1] /\ 1 - 1 = 0
        BY <3>1, <1>4
      <4>2. q[1] \in Nat /\ t[1] \in Nat
        BY <3>1, <1>4, <1>3 DEF n
      <4> QED
        BY <4>1, <4>2, <1>4
    <3> QED
      BY <3>2, <3>3
  <2>3. CASE k > m + 1
    <3>1. /\ k - m \in 1..n /\ (k - 1) - m = (k - m) - 1 /\ k \in (m + 1)..(m + n)
          /\ ~(k <= m) /\ ~(k - 1 <= m)
      BY <2>3, <1>3
    <3>2. r[k] = p[m] + q[k - m] /\ r[k - 1] = p[m] + q[(k - m) - 1] /\ u[k] = t[k - m]
      BY <2>0, <3>1, <1>5, <1>6, <1>7
    <3>3. q[k - m] = q[(k - m) - 1] + t[k - m]
      BY <3>1, <1>4
    <3>4. p[m] \in Nat /\ q[(k - m) - 1] \in Nat
      <4>1. m \in 0..m /\ (k - m) - 1 \in 0..n
        BY <3>1, <1>3
      <4> QED
        BY <4>1, <1>4
    <3>5. t[k - m] \in Nat
      BY <3>1 DEF n
    <3> QED
      BY <3>2, <3>3, <3>4, <3>5
  <2> QED
    BY <2>1, <2>2, <2>3, <1>3
<1>10. r[0] = 0
  BY <1>3, <1>4, <1>7
<1>11. IsSums(r, u) /\ u \in Seq(Nat) /\ Len(u) = m + n
  BY <1>3, <1>6, <1>8, <1>9, <1>10 DEF IsSums
<1>12. Total(u) = r[m + n]
  BY <1>11, TotalIsSum
<1>13. r[m + n] = p[m] + q[n]
  <2>1. m + n \in 0..(m + n)
    BY <1>3
  <2>2. CASE n = 0
    <3>1. m + n = m /\ m + n <= m
      BY <2>2, <1>3
    <3>2. r[m + n] = p[m] /\ p[m] \in Nat /\ q[n] = 0
      BY <2>1, <2>2, <3>1, <1>3, <1>4, <1>7
    <3> QED
      BY <3>2
  <2>3. CASE n # 0
    <3>1. ~(m + n <= m) /\ (m + n) - m = n
      BY <2>3, <1>3
    <3> QED
      BY <2>1, <3>1, <1>7
  <2> QED
    BY <2>2, <2>3
<1> QED
  BY <1>1, <1>2, <1>6, <1>12, <1>13 DEF m, n

LEMMA TotalSingle ==
    ASSUME NEW x \in Nat
    PROVE  Total(<<x>>) = x
<1>1. <<x>> \in Seq(Nat) /\ Len(<<x>>) = 1 /\ <<x>>[1] = x
  OBVIOUS
<1>2. PICK p : IsSums(p, <<x>>) /\ Total(<<x>>) = p[1]
  BY <1>1, TotalIsLastSum
<1>3. p[1] = p[1 - 1] + x /\ p[0] = 0
  BY <1>1, <1>2 DEF IsSums
<1> QED
  BY <1>2, <1>3

LEMMA TotalAppend ==
    ASSUME NEW s \in Seq(Nat), NEW x \in Nat
    PROVE  Total(Append(s, x)) = Total(s) + x
<1>1. Append(s, x) = s \o <<x>> /\ <<x>> \in Seq(Nat)
  OBVIOUS
<1> QED
  BY <1>1, TotalConcat, TotalSingle

LEMMA TotalOfPrefix ==
    ASSUME NEW s \in Seq(Nat), NEW k \in 0..Len(s)
    PROVE  /\ SubSeq(s, 1, k) \in Seq(Nat)
           /\ Total(SubSeq(s, 1, k)) \in Nat
           /\ Total(SubSeq(s, 1, k)) <= Total(s)
<1>1. PICK n : n = Len(s) /\ n \in Nat
  OBVIOUS
<1>2. PICK a \in Seq(Nat) : a = SubSeq(s, 1, k)
  <2>1. 1 \in Int /\ k \in Int /\ \A i \in 1..k : s[i] \in Nat
    OBVIOUS
  <2>2. SubSeq(s, 1, k) \in Seq(Nat)
    BY ONLY <2>1, SubSeqProperties
  <2> QED
    BY <2>2
<1>3. PICK b \in Seq(Nat) : b = SubSeq(s, k + 1, n)
  <2>1. k + 1 \in Int /\ n \in Int /\ \A i \in (k + 1)..n : s[i] \in Nat
    BY <1>1
  <2> QED
    BY <2>1, SubSeqProperties
<1>4. s = a \o b
  <2>1. Len(a) = k /\ Len(b) = n - k
    BY <1>1, <1>2, <1>3
  <2>2. Len(a \o b) = Len(s)
    BY <1>1, <2>1
  <2>3. ASSUME NEW i \in 1..Len(s) PROVE (a \o b)[i] = s[i]
    <3>1. CASE i <= k
      BY <3>1, <1>2, <2>1
    <3>2. CASE ~(i <= k)
      <4>1. i - k \in 1..Len(b) /\ (a \o b)[i] = b[i - k]
        BY <3>2, <2>1, <1>1
      <4>2. b[i - k] = s[(k + 1) + (i - k) - 1]
        BY <4>1, <1>3, <1>1, <2>1
      <4>3. (k + 1) + (i - k) - 1 = i
        BY <1>1
      <4> QED
        BY <4>1, <4>2, <4>3
    <3> QED
      BY <3>1, <3>2
  <2>4. a \o b \in Seq(Nat)
    OBVIOUS
  <2> QED
    BY <2>2, <2>3, <2>4, SeqEqual
<1>5. Total(s) = Total(a) + Total(b) /\ Total(a) \in Nat /\ Total(b) \in Nat
  BY <1>4, TotalConcat, TotalType
<1> QED
  BY <1>2, <1>5

LEMMA TotalOfNext ==
    ASSUME NEW s \in Seq(Nat), NEW k \in Nat, k < Len(s)
    PROVE  Total(SubSeq(s, 1, k + 1)) = Total(SubSeq(s, 1, k)) + s[k + 1]
<1>1. SubSeq(s, 1, k) \in Seq(Nat) /\ s[k + 1] \in Nat
  OBVIOUS
<1>2. SubSeq(s, 1, k + 1) = Append(SubSeq(s, 1, k), s[k + 1])
  OBVIOUS
<1> QED
  BY <1>1, <1>2, TotalAppend

LEMMA TotalIsPositive ==
    ASSUME NEW s \in Seq(Nat \ {0}), s # <<>>
    PROVE  Total(s) > 0
<1>1. s \in Seq(Nat) /\ Len(s) \in Nat \ {0}
  OBVIOUS
<1>2. PICK p : IsSums(p, s) /\ Total(s) = p[Len(s)]
  BY <1>1, TotalIsLastSum
<1>3. Len(s) \in 1..Len(s) /\ Len(s) - 1 \in 0..Len(s)
  BY <1>1
<1>4. p[Len(s)] = p[Len(s) - 1] + s[Len(s)] /\ p[Len(s) - 1] \in Nat
  BY <1>2, <1>3 DEF IsSums
<1>5. s[Len(s)] \in Nat \ {0}
  BY <1>3
<1> QED
  BY <1>2, <1>4, <1>5

(* One element more, at any place, and the sum of nothing but zeros. *)
LEMMA TotalOneMore ==
    ASSUME NEW s \in Seq(Nat), NEW t \in Seq(Nat), Len(s) = Len(t), NEW k \in 1..Len(s),
           NEW x \in Nat, s[k] = t[k] + x, \A i \in 1..Len(s) : i # k => s[i] = t[i]
    PROVE  Total(s) = Total(t) + x
<1>1. PICK n \in Nat : n = Len(s) /\ n = Len(t)
  OBVIOUS
<1>2. PICK p : IsSums(p, t) /\ Total(t) = p[n]
  BY <1>1, TotalIsLastSum
<1>3. /\ p \in [0..n -> Nat] /\ p[0] = 0
      /\ \A j \in 1..n : p[j] = p[j - 1] + t[j]
  BY <1>1, <1>2 DEF IsSums
<1>4. PICK q : q = [j \in 0..n |-> IF j < k THEN p[j] ELSE p[j] + x]
  OBVIOUS
<1>5. k \in 1..n /\ \A j \in 1..n : s[j] \in Nat /\ t[j] \in Nat
  BY <1>1
<1>6. q \in [0..n -> Nat] /\ q[0] = 0
  <2>1. 0 \in 0..n /\ 0 < k
    BY <1>5
  <2>2. q[0] = 0
    BY <1>3, <1>4, <2>1
  <2>3. ASSUME NEW j \in 0..n PROVE (IF j < k THEN p[j] ELSE p[j] + x) \in Nat
    <3>1. p[j] \in Nat
      BY <1>3
    <3> QED
      BY <3>1
  <2> QED
    BY <1>4, <2>2, <2>3
<1>7. ASSUME NEW j \in 1..n PROVE q[j] = q[j - 1] + s[j]
  <2>1. j - 1 \in 0..n /\ j \in 0..n /\ j - 1 \in Nat
    OBVIOUS
  <2>2. p[j] = p[j - 1] + t[j] /\ p[j - 1] \in Nat /\ t[j] \in Nat
    BY <1>3, <1>5, <2>1
  <2>3. q[j] = IF j < k THEN p[j] ELSE p[j] + x
    BY <1>4, <2>1
  <2>4. q[j - 1] = IF j - 1 < k THEN p[j - 1] ELSE p[j - 1] + x
    BY <1>4, <2>1
  <2>5. CASE j < k
    BY <2>2, <2>3, <2>4, <2>5, <1>1
  <2>6. CASE j = k
    BY <2>2, <2>3, <2>4, <2>6, <1>1
  <2>7. CASE j > k
    <3>1. s[j] = t[j] /\ ~(j < k) /\ ~(j - 1 < k)
      BY <2>7, <1>1
    <3>2. q[j] = p[j] + x /\ q[j - 1] = p[j - 1] + x
      BY <3>1, <2>3, <2>4
    <3>3. PICK a \in Nat, b \in Nat : a = p[j - 1] /\ b = t[j]
      BY <2>2
    <3>4. p[j] = a + b /\ q[j - 1] = a + x /\ s[j] = b
      BY <3>1, <3>2, <3>3, <2>2
    <3>5. q[j] = (a + b) + x
      BY <3>2, <3>4
    <3>6. (a + b) + x = (a + x) + b
      OBVIOUS
    <3> QED
      BY <3>4, <3>5, <3>6
  <2> QED
    BY <2>5, <2>6, <2>7
<1>8. IsSums(q, s)
  BY <1>1, <1>6, <1>7 DEF IsSums
<1>9. Total(s) = q[n]
  BY <1>1, <1>8, TotalIsSum
<1>10. q[n] = p[n] + x
  <2>1. n \in 0..n /\ ~(n < k)
    BY <1>5
  <2> QED
    BY <2>1, <1>4
<1> QED
  BY <1>2, <1>9, <1>10

LEMMA TotalZeros ==
    ASSUME NEW s \in Seq(Nat), \A i \in 1..Len(s) : s[i] = 0
    PROVE  Total(s) = 0
<1>1. PICK n \in Nat : n = Len(s)
  OBVIOUS
<1>2. PICK q : q = [j \in 0..n |-> 0]
  OBVIOUS
<1>3. IsSums(q, s)
  BY <1>1, <1>2 DEF IsSums
<1> QED
  BY <1>1, <1>2, <1>3, TotalIsSum

-----------------------------------------------------------------------------
(* The size of a slice.                                                    *)

LEMMA DivBounds ==
    ASSUME NEW a \in Nat, NEW b \in Nat \ {0}
    PROVE  a \div b \in Nat /\ b * (a \div b) <= a /\ a < b * (a \div b) + b
OBVIOUS

LEMMA ModSmall ==
    ASSUME NEW a \in Nat, NEW b \in Nat \ {0}, a < b
    PROVE  a % b = a
OBVIOUS

LEMMA TimesGrows ==
    ASSUME NEW a \in Nat, NEW b \in Nat, NEW c \in Nat, a <= b
    PROVE  c * a <= c * b
OBVIOUS

(* As many slices as there are parts are enough for everything. *)
LEMMA SliceFits ==
    ASSUME NEW size \in Nat, size > FatMax, size <= FatMax * (ByteRange - 1)
    PROVE  /\ PartsCount(size) = (size + FatMax - 1) \div FatMax
           /\ PartsCount(size) \in Nat \ {0}
           /\ size \div PartsCount(size) \in 1..FatMax
<1> USE SizesAssumption
<1>1. PICK F \in Nat \ {0} : F = FatMax
  OBVIOUS
<1>2. PICK B \in Nat \ {0} : B = ByteRange
  OBVIOUS
<1>3. PICK c \in Nat : c = (size + F - 1) \div F /\ F * c <= size + F - 1 /\ size + F - 1 < F * c + F
  <2>1. size + F - 1 \in Nat
    OBVIOUS
  <2> QED
    BY <2>1, DivBounds
<1>4. c < B
  <2> SUFFICES ASSUME B <= c PROVE FALSE
    OBVIOUS
  <2>1. F * B <= F * c
    BY TimesGrows
  <2>2. F * (B - 1) = F * B - F
    OBVIOUS
  <2> QED
    BY <1>1, <1>2, <1>3, <2>1, <2>2
<1>5. c # 0
  <2> SUFFICES ASSUME c = 0 PROVE FALSE
    OBVIOUS
  <2>1. F * c = 0
    OBVIOUS
  <2> QED
    BY <1>1, <1>3, <2>1
<1>6. c <= size
  <2> SUFFICES ASSUME size + 1 <= c PROVE FALSE
    OBVIOUS
  <2>1. F * (size + 1) <= F * c
    BY TimesGrows
  <2>2. F * (size + 1) = F * size + F
    OBVIOUS
  <2>3. size * 1 <= size * F /\ size * F = F * size
    BY TimesGrows
  <2> QED
    BY <1>3, <2>1, <2>2, <2>3
<1>7. PartsCount(size) = c
  BY <1>1, <1>2, <1>3, <1>4, ModSmall DEF PartsCount
<1>8. PICK q \in Nat : q = size \div c /\ c * q <= size /\ size < c * q + c
  BY <1>5, DivBounds
<1>9. q # 0
  <2> SUFFICES ASSUME q = 0 PROVE FALSE
    OBVIOUS
  <2>1. c * q = 0
    OBVIOUS
  <2> QED
    BY <1>6, <1>8, <2>1
<1>10. q <= F
  <2> SUFFICES ASSUME F + 1 <= q PROVE FALSE
    OBVIOUS
  <2>1. c * (F + 1) <= c * q
    BY TimesGrows
  <2>2. c * (F + 1) = F * c + c
    OBVIOUS
  <2> QED
    BY <1>3, <1>5, <1>8, <2>1, <2>2
<1> QED
  BY <1>1, <1>3, <1>5, <1>7, <1>8, <1>9, <1>10

LEMMA ModType ==
    ASSUME NEW a \in Nat, NEW b \in Nat \ {0}
    PROVE  a % b \in 0..(b - 1)
OBVIOUS

(* What the UInt32 keeps of the quotient. *)
LEMMA SliceType ==
    ASSUME NEW size \in Nat, PartsCount(size) # 0
    PROVE  (size \div PartsCount(size)) % (FatMax + 1) \in 0..FatMax
<1> USE SizesAssumption
<1>1. PICK F \in Nat \ {0} : F = FatMax
  OBVIOUS
<1>2. PICK B \in Nat \ {0} : B = ByteRange
  OBVIOUS
<1>3. PICK c \in Nat : c = (size + F - 1) \div F
  <2>1. size + F - 1 \in Nat
    OBVIOUS
  <2> QED
    BY <2>1, DivBounds
<1>4. PICK d \in Nat \ {0} : d = PartsCount(size)
  BY <1>1, <1>2, <1>3, ModType DEF PartsCount
<1>5. PICK q \in Nat : q = size \div d
  BY <1>4, DivBounds
<1>6. q % (F + 1) \in 0..((F + 1) - 1)
  BY ModType
<1> QED
  BY <1>1, <1>4, <1>5, <1>6

LEMMA SliceUncut ==
    ASSUME NEW q \in 1..FatMax
    PROVE  q % (FatMax + 1) = q
<1>1. FatMax \in Nat
  BY SizesAssumption
<1>2. FatMax + 1 \in Nat \ {0} /\ q \in Nat /\ q < FatMax + 1
  BY <1>1
<1> QED
  BY <1>2, ModSmall

-----------------------------------------------------------------------------
(* The sizes of the resources in a list of their numbers.                  *)

LEMMA SizesOfType ==
    ASSUME blobs \in Seq(Nat \ {0}), NEW l \in Seq(1..Len(blobs))
    PROVE  /\ SizesOf(l) \in Seq(Nat \ {0}) /\ SizesOf(l) \in Seq(Nat)
           /\ Len(SizesOf(l)) = Len(l)
           /\ \A i \in 1..Len(l) : SizesOf(l)[i] = blobs[l[i]]
<1>1. DOMAIN l = 1..Len(l) /\ Len(l) \in Nat
  OBVIOUS
<1>2. \A i \in 1..Len(l) : blobs[l[i]] \in Nat \ {0}
  OBVIOUS
<1>3. SizesOf(l) = [i \in 1..Len(l) |-> blobs[l[i]]]
  BY <1>1 DEF SizesOf
<1> QED
  BY <1>1, <1>2, <1>3

LEMMA SizesOfAppend ==
    ASSUME blobs \in Seq(Nat \ {0}), NEW l \in Seq(1..Len(blobs)), NEW k \in 1..Len(blobs)
    PROVE  SizesOf(Append(l, k)) = Append(SizesOf(l), blobs[k])
<1>1. PICK m : m = Append(l, k)
  OBVIOUS
<1>2. m \in Seq(1..Len(blobs)) /\ Len(m) = Len(l) + 1
  BY <1>1, AppendProperties
<1>3. \A i \in 1..Len(l) : m[i] = l[i]
  BY <1>1
<1>4. m[Len(l) + 1] = k
  BY <1>1
<1>5. PICK n \in Nat : n = Len(l)
  OBVIOUS
<1>6. PICK a \in Seq(Nat) : a = SizesOf(l) /\ Len(a) = n /\ \A i \in 1..n : a[i] = blobs[l[i]]
  BY <1>5, SizesOfType
<1>7. PICK b \in Seq(Nat) : b = SizesOf(m) /\ Len(b) = n + 1 /\ \A i \in 1..(n + 1) : b[i] = blobs[m[i]]
  BY <1>2, <1>5, SizesOfType
<1>8. PICK x \in Nat : x = blobs[k]
  OBVIOUS
<1>9. PICK c : c = Append(a, x)
  OBVIOUS
<1>10. /\ c \in Seq(Nat) /\ Len(c) = n + 1 /\ c[n + 1] = x
       /\ \A i \in 1..n : c[i] = a[i]
  <2>1. /\ c \in Seq(Nat) /\ Len(c) = Len(a) + 1 /\ c[Len(a) + 1] = x
        /\ \A i \in 1..Len(a) : c[i] = a[i]
    BY ONLY a \in Seq(Nat), x \in Nat, <1>9, AppendProperties
  <2> QED
    BY <2>1, <1>6
<1>11. ASSUME NEW i \in 1..(n + 1) PROVE b[i] = c[i]
  <2>1. CASE i = n + 1
    BY <2>1, <1>4, <1>5, <1>7, <1>8, <1>10
  <2>2. CASE i # n + 1
    <3>1. i \in 1..n
      BY <2>2
    <3> QED
      BY <3>1, <1>3, <1>5, <1>6, <1>7, <1>10
  <2> QED
    BY <2>1, <2>2
<1>12. b = c
  BY <1>7, <1>10, <1>11, SeqEqual
<1> QED
  BY <1>1, <1>6, <1>7, <1>8, <1>9, <1>12

LEMMA SizesOfEmpty == SizesOf(<<>>) = <<>>
BY DEF SizesOf

-----------------------------------------------------------------------------
(* The inductive invariant.                                                *)

Sizes == [p \in DOMAIN parts |-> parts[p].size]
MetadataOf(p) == IF p = 1 THEN metadata ELSE <<>>
InPart(p) == SizesOf(parts[p].list) \o MetadataOf(p)

PartRecord == [list : Seq(1..Len(blobs)), size : Nat]
FileRecord == [number : Nat, total : Nat, list : Seq(1..Len(blobs)),
               metadata : Seq(Nat \ {0}), finished : BOOLEAN]

(* The slice the division gives, while a source of that size is split. *)
SliceIsQuotient ==
    fileSize <= FatMax * (ByteRange - 1) =>
        /\ result # "crashed"
        /\ pc \notin {"divide", "done"} =>
              slice # 0 /\ slice = fileSize \div ((fileSize + FatMax - 1) \div FatMax)

PlanType ==
    /\ metadata \in Seq(Nat \ {0}) /\ blobs \in Seq(Nat \ {0})
    /\ fileSize \in Nat /\ fileSize > FatMax /\ slice \in 0..FatMax
    /\ pc \in {"divide", "plan", "distribute", "part", "report", "write", "done"}
    /\ result \in {"none", "success", "failure", "skipped", "crashed"}
    /\ pc # "done" => result = "none"
    /\ parts \in Seq(PartRecord) /\ added \in 0..Len(blobs)
    /\ pc \in {"divide", "plan"} => parts = <<>> /\ added = 0
    /\ pc \in {"distribute", "part", "report", "write"} => parts # <<>>
    /\ SliceIsQuotient

(* Every list is linked to a head in the array there is. *)
HeadsFit ==
    /\ array \in Nat /\ heads \in Seq(Nat)
    /\ DOMAIN heads = DOMAIN parts /\ \A p \in DOMAIN parts : heads[p] = array

Increasing(l) == \A k, j \in 1..Len(l) : k < j => l[k] < l[j]

(* The parts hold the first resources, in order; a part that is too large  *)
(* was begun with its only resource, or has the metadata alone.            *)
PartsFit ==
    /\ \A i \in 1..added : \E p \in DOMAIN parts :
          \E k \in 1..Len(parts[p].list) : parts[p].list[k] = i
    /\ \A p \in DOMAIN parts :
          /\ \A k \in 1..Len(parts[p].list) : parts[p].list[k] <= added
          /\ Increasing(parts[p].list)
          /\ parts[p].size = Total(InPart(p))
          /\ parts[p].size < slice \/ Len(InPart(p)) = 1 \/ parts[p].list = <<>>
    /\ \A p, q \in DOMAIN parts : p < q =>
          \A k \in 1..Len(parts[p].list), j \in 1..Len(parts[q].list) :
             parts[p].list[k] < parts[q].list[j]

(* The order in which the resources of a part get to the medium. *)
Ordered(m) == \A a, b \in 1..Len(m) : a < b => Before(m[a], m[b])

(* The file m has the resources of the list l, in the order of writing. *)
WholeList(m, l) ==
    /\ \A a \in 1..Len(m) : \E k \in 1..Len(l) : m[a] = l[k]
    /\ \A k \in 1..Len(l) : \E a \in 1..Len(m) : m[a] = l[k]
    /\ Ordered(m)
    /\ Total(SizesOf(m)) = Total(SizesOf(l))

(* What is not complete of the list l when lf is still to be written. *)
Incomplete(l, lf) == [k \in 1..Len(l) |-> IF lf[k] = 0 THEN 0 ELSE blobs[l[k]]]

(* The file m has those resources of the list l that are done. *)
UnderWay(m, l, lf) ==
    /\ lf \in Seq(Nat) /\ Len(lf) = Len(l)
    /\ \A a \in 1..Len(m) : \E k \in 1..Len(l) : m[a] = l[k] /\ lf[k] = 0
    /\ \A k \in 1..Len(l) : lf[k] = 0 => \E a \in 1..Len(m) : m[a] = l[k]
    /\ Ordered(m)
    /\ \A k, j \in 1..Len(l) : lf[k] = 0 /\ lf[j] > 0 => Before(l[k], l[j])
    /\ Total(SizesOf(m)) + Total(Incomplete(l, lf)) = Total(SizesOf(l))

(* The part files follow the plan; all but the one that is written are     *)
(* whole.                                                                  *)
IsWhole(p) ==
    /\ WholeList(medium[p].list, parts[p].list)
    /\ medium[p].metadata = MetadataOf(p) /\ medium[p].finished

MediumFits ==
    /\ medium \in Seq(FileRecord)
    /\ current <= Len(parts)
    /\ pc \in {"divide", "plan", "distribute"} => medium = <<>>
    /\ pc \in {"part", "report", "write"} => added = Len(blobs)
    /\ \A p \in DOMAIN medium : medium[p].number = p /\ medium[p].total = Len(parts)
    /\ \A p \in DOMAIN medium : p < current \/ pc = "part" => IsWhole(p)
    /\ pc \in {"report", "write"} =>
          /\ current > 0 /\ medium[current].metadata = <<>>
          /\ UnderWay(medium[current].list, parts[current].list, left)
          /\ bytes \in Nat /\ bytes + Total(left) <= Total(SizesOf(parts[current].list))
    /\ result = "success" =>
          /\ pc = "done" /\ parts # <<>> /\ added = Len(blobs) /\ current = Len(parts)
          /\ \A p \in DOMAIN medium : IsWhole(p)

(* What is reported is at most what has been written. *)
ProgressFits ==
    /\ reported \in Nat /\ completed \in Nat /\ lastPart \in Nat
    /\ pc \in {"divide", "plan", "distribute"} => reported = 0 /\ completed = 0
    /\ pc = "part" => completed = Total(SubSeq(Sizes, 1, current)) /\ reported <= completed
    /\ pc \in {"report", "write"} =>
          /\ completed = Total(SubSeq(Sizes, 1, current - 1)) /\ lastPart = completed
          /\ reported <= BytesWritten

IInv == PlanType /\ HeadsFit /\ PartsFit /\ MediumFits /\ ProgressFits

-----------------------------------------------------------------------------
(* Facts of every state.                                                   *)

LEMMA PartTypes ==
    ASSUME PlanType, NEW p \in DOMAIN parts
    PROVE  /\ parts[p].list \in Seq(1..Len(blobs)) /\ parts[p].size \in Nat
           /\ SizesOf(parts[p].list) \in Seq(Nat) /\ SizesOf(parts[p].list) \in Seq(Nat \ {0})
           /\ MetadataOf(p) \in Seq(Nat) /\ MetadataOf(p) \in Seq(Nat \ {0})
           /\ InPart(p) \in Seq(Nat \ {0})
           /\ Total(InPart(p)) = Total(SizesOf(parts[p].list)) + Total(MetadataOf(p))
           /\ Total(SizesOf(parts[p].list)) \in Nat /\ Total(MetadataOf(p)) \in Nat
<1>1. parts[p] \in PartRecord /\ blobs \in Seq(Nat \ {0})
  <2>1. parts \in Seq(PartRecord) /\ blobs \in Seq(Nat \ {0})
    BY DEF PlanType
  <2> QED
    BY <2>1
<1>2. parts[p].list \in Seq(1..Len(blobs)) /\ parts[p].size \in Nat
  BY <1>1 DEF PartRecord
<1>3. /\ SizesOf(parts[p].list) \in Seq(Nat)
      /\ SizesOf(parts[p].list) \in Seq(Nat \ {0})
  BY <1>1, <1>2, SizesOfType
<1>4. MetadataOf(p) \in Seq(Nat) /\ MetadataOf(p) \in Seq(Nat \ {0})
  <2>1. metadata \in Seq(Nat) /\ metadata \in Seq(Nat \ {0})
    BY DEF PlanType
  <2>2. <<>> \in Seq(Nat) /\ <<>> \in Seq(Nat \ {0})
    OBVIOUS
  <2> QED
    BY <2>1, <2>2 DEF MetadataOf
<1>5. InPart(p) \in Seq(Nat \ {0})
  BY <1>3, <1>4, ConcatProperties DEF InPart
<1>6. Total(InPart(p)) = Total(SizesOf(parts[p].list)) + Total(MetadataOf(p))
  BY <1>3, <1>4, TotalConcat DEF InPart
<1>7. Total(SizesOf(parts[p].list)) \in Nat /\ Total(MetadataOf(p)) \in Nat
  BY <1>3, <1>4, TotalType
<1> QED
  BY <1>2, <1>3, <1>4, <1>5, <1>6, <1>7

LEMMA SizesTypes ==
    ASSUME PlanType
    PROVE  /\ Sizes \in Seq(Nat) /\ Len(Sizes) = Len(parts)
           /\ \A p \in 1..Len(parts) : Sizes[p] = parts[p].size
<1>1. DOMAIN parts = 1..Len(parts) /\ Len(parts) \in Nat
  <2>1. parts \in Seq(PartRecord)
    BY DEF PlanType
  <2> QED
    BY <2>1
<1>2. \A p \in 1..Len(parts) : parts[p].size \in Nat
  BY <1>1, PartTypes
<1>3. Sizes = [p \in 1..Len(parts) |-> parts[p].size]
  BY <1>1 DEF Sizes
<1> QED
  BY <1>1, <1>2, <1>3

LEMMA CurrentTypes ==
    ASSUME PlanType, MediumFits
    PROVE  /\ DOMAIN parts = 1..Len(parts) /\ Len(parts) \in Nat
           /\ DOMAIN medium = 1..current /\ current \in 0..Len(parts)
<1>1. parts \in Seq(PartRecord) /\ medium \in Seq(FileRecord) /\ current <= Len(parts)
  BY DEF PlanType, MediumFits
<1> QED
  BY <1>1 DEF current

(* The part under way: its list and its file. *)
LEMMA CurrentPart ==
    ASSUME PlanType, MediumFits, pc \in {"report", "write"}
    PROVE  /\ current \in DOMAIN parts /\ current \in DOMAIN medium /\ current \in Nat \ {0}
           /\ parts[current].list \in Seq(1..Len(blobs))
           /\ medium[current] \in FileRecord
           /\ medium[current].list \in Seq(1..Len(blobs))
<1>1. current > 0
  BY DEF MediumFits
<1>2. current \in DOMAIN parts /\ current \in DOMAIN medium /\ current \in Nat \ {0}
  BY <1>1, CurrentTypes
<1>3. medium[current] \in FileRecord
  <2>1. medium \in Seq(FileRecord)
    BY DEF MediumFits
  <2> QED
    BY <1>2, <2>1
<1>4. medium[current].list \in Seq(1..Len(blobs))
  BY <1>3 DEF FileRecord
<1> QED
  BY <1>2, <1>3, <1>4, PartTypes

(* The bytes of the part under way. *)
LEMMA BytesTypes ==
    ASSUME PlanType, MediumFits, ProgressFits, pc \in {"report", "write"}
    PROVE  /\ BytesWritten \in Nat
           /\ BytesWritten <= Total(SizesOf(parts[current].list)) + lastPart
<1>1. left \in Seq(Nat) /\ bytes \in Nat /\ bytes + Total(left) <= Total(SizesOf(parts[current].list))
  BY DEF MediumFits, UnderWay
<1>2. Total(left) \in Nat
  BY <1>1, TotalType
<1>3. Total(SizesOf(parts[current].list)) \in Nat
  BY CurrentPart, PartTypes
<1>4. lastPart \in Nat
  BY DEF ProgressFits
<1> QED
  BY <1>1, <1>2, <1>3, <1>4 DEF BytesWritten

(* It is never more than what all the parts have together. *)
LEMMA ReportedFits ==
    ASSUME IInv, pc # "done"
    PROVE  /\ reported <= Total(Sizes)
           /\ pc \in {"report", "write"} => BytesWritten <= Total(Sizes)
<1> USE DEF IInv
<1>1. Sizes \in Seq(Nat) /\ Total(Sizes) \in Nat /\ reported \in Nat
  BY SizesTypes, TotalType DEF ProgressFits
<1>2. CASE pc \in {"divide", "plan", "distribute"}
  BY <1>1, <1>2 DEF ProgressFits
<1>3. CASE pc = "part"
  <2>1. current \in 0..Len(Sizes)
    BY SizesTypes, CurrentTypes
  <2>2. Total(SubSeq(Sizes, 1, current)) <= Total(Sizes) /\ Total(SubSeq(Sizes, 1, current)) \in Nat
    BY <1>1, <2>1, TotalOfPrefix
  <2> QED
    BY <1>1, <1>3, <2>2 DEF ProgressFits
<1>4. CASE pc \in {"report", "write"}
  <2>1. PICK c \in DOMAIN parts : c = current /\ c \in 1..Len(Sizes) /\ c - 1 \in Nat /\ c - 1 < Len(Sizes)
    <3>1. current > 0
      BY <1>4 DEF MediumFits
    <3> QED
      BY <3>1, SizesTypes, CurrentTypes
  <2>2. Total(SubSeq(Sizes, 1, (c - 1) + 1)) = Total(SubSeq(Sizes, 1, c - 1)) + Sizes[(c - 1) + 1]
    BY <1>1, <2>1, TotalOfNext
  <2>3. (c - 1) + 1 = c /\ Sizes[c] = parts[c].size
    BY <2>1, SizesTypes
  <2>4. Total(SubSeq(Sizes, 1, c)) <= Total(Sizes) /\ Total(SubSeq(Sizes, 1, c)) \in Nat
    BY <1>1, <2>1, TotalOfPrefix
  <2>5. BytesWritten \in Nat /\ BytesWritten <= Total(SizesOf(parts[c].list)) + lastPart
    BY <1>4, <2>1, BytesTypes
  <2>6. parts[c].size = Total(SizesOf(parts[c].list)) + Total(MetadataOf(c))
    BY <2>1, PartTypes DEF PartsFit
  <2>7. /\ parts[c].size \in Nat /\ Total(MetadataOf(c)) \in Nat
        /\ Total(SizesOf(parts[c].list)) \in Nat
    BY <2>1, PartTypes
  <2>8. /\ lastPart = Total(SubSeq(Sizes, 1, c - 1)) /\ lastPart \in Nat
        /\ reported <= BytesWritten
    BY <1>4, <2>1 DEF ProgressFits
  <2>9. BytesWritten <= Total(Sizes)
    BY <1>1, <2>2, <2>3, <2>4, <2>5, <2>6, <2>7, <2>8
  <2> QED
    BY <1>1, <2>5, <2>8, <2>9
<1> QED
  BY <1>2, <1>3, <1>4 DEF PlanType

-----------------------------------------------------------------------------
(* How the file of a part fills.                                           *)

LEMMA IncompleteType ==
    ASSUME blobs \in Seq(Nat \ {0}), NEW l \in Seq(1..Len(blobs)), NEW lf \in Seq(Nat)
    PROVE  /\ Incomplete(l, lf) \in Seq(Nat) /\ Len(Incomplete(l, lf)) = Len(l)
           /\ \A k \in 1..Len(l) :
                 Incomplete(l, lf)[k] = IF lf[k] = 0 THEN 0 ELSE blobs[l[k]]
<1>1. PICK n \in Nat : n = Len(l)
  OBVIOUS
<1>2. ASSUME NEW k \in 1..n PROVE (IF lf[k] = 0 THEN 0 ELSE blobs[l[k]]) \in Nat
  <2>1. l[k] \in 1..Len(blobs)
    BY <1>1
  <2>2. blobs[l[k]] \in Nat
    BY <2>1
  <2> QED
    BY <2>2
<1>3. Incomplete(l, lf) = [k \in 1..n |-> IF lf[k] = 0 THEN 0 ELSE blobs[l[k]]]
  BY <1>1 DEF Incomplete
<1> HIDE DEF Incomplete
<1> QED
  BY <1>1, <1>2, <1>3

(* At first there is nothing in the file. *)
LEMMA NothingDone ==
    ASSUME blobs \in Seq(Nat \ {0}), NEW l \in Seq(1..Len(blobs))
    PROVE  UnderWay(<<>>, l, SizesOf(l))
<1>1. PICK lf \in Seq(Nat) : lf = SizesOf(l) /\ Len(lf) = Len(l)
                             /\ \A k \in 1..Len(l) : lf[k] = blobs[l[k]]
  BY SizesOfType
<1>2. \A k \in 1..Len(l) : l[k] \in 1..Len(blobs)
  OBVIOUS
<1>3. \A k \in 1..Len(l) : lf[k] # 0
  BY <1>1, <1>2
<1>4. PICK r \in Seq(Nat) : r = Incomplete(l, lf) /\ Len(r) = Len(l)
          /\ \A k \in 1..Len(l) : r[k] = IF lf[k] = 0 THEN 0 ELSE blobs[l[k]]
  BY IncompleteType
<1>5. r = lf
  <2>1. \A k \in 1..Len(l) : r[k] = lf[k]
    BY <1>1, <1>3, <1>4
  <2>2. Len(r) = Len(lf) /\ \A k \in 1..Len(r) : r[k] = lf[k]
    BY <2>1, <1>1, <1>4
  <2> QED
    BY ONLY <2>2, r \in Seq(Nat), lf \in Seq(Nat), SeqEqual
<1>6. Total(SizesOf(<<>>)) = 0
  BY SizesOfEmpty, TotalEmpty
<1>7. Total(lf) \in Nat
  BY TotalType
<1>8. Len(<<>>) = 0 /\ 1..0 = {}
  OBVIOUS
<1>9. Total(SizesOf(<<>>)) + Total(Incomplete(l, lf)) = Total(SizesOf(l))
  BY <1>1, <1>4, <1>5, <1>6, <1>7
<1> QED
  BY <1>1, <1>3, <1>8, <1>9 DEF UnderWay, Ordered

(* The next resource is complete. *)
LEMMA BlobDone ==
    ASSUME blobs \in Seq(Nat \ {0}), NEW l \in Seq(1..Len(blobs)), NEW m \in Seq(1..Len(blobs)),
           NEW lf, UnderWay(m, l, lf), NEW k \in 1..Len(l), lf[k] > 0,
           \A j \in 1..Len(l) : lf[j] > 0 /\ j # k => Before(l[k], l[j]),
           NEW lg, lg = [lf EXCEPT ![k] = 0], NEW n, n = Append(m, l[k])
    PROVE  UnderWay(n, l, lg) /\ n \in Seq(1..Len(blobs))
<1>1. /\ lf \in Seq(Nat) /\ Len(lf) = Len(l)
      /\ \A a \in 1..Len(m) : \E j \in 1..Len(l) : m[a] = l[j] /\ lf[j] = 0
      /\ \A j \in 1..Len(l) : lf[j] = 0 => \E a \in 1..Len(m) : m[a] = l[j]
      /\ Ordered(m)
      /\ \A i, j \in 1..Len(l) : lf[i] = 0 /\ lf[j] > 0 => Before(l[i], l[j])
      /\ Total(SizesOf(m)) + Total(Incomplete(l, lf)) = Total(SizesOf(l))
  BY DEF UnderWay
<1>2. /\ lg \in Seq(Nat) /\ Len(lg) = Len(l)
      /\ \A j \in 1..Len(l) : lg[j] = IF j = k THEN 0 ELSE lf[j]
  <2>1. k \in 1..Len(lf) /\ 0 \in Nat /\ lf \in Seq(Nat) /\ Len(lf) = Len(l)
    BY <1>1
  <2>2. /\ lg \in Seq(Nat) /\ Len(lg) = Len(lf)
        /\ \A j \in 1..Len(lf) : lg[j] = IF j = k THEN 0 ELSE lf[j]
    BY ONLY <2>1, lg = [lf EXCEPT ![k] = 0], ExceptSeq
  <2> QED
    BY ONLY <2>1, <2>2
<1>3. PICK x \in 1..Len(blobs) : x = l[k]
  OBVIOUS
<1>4. PICK c \in Nat : c = Len(m)
  OBVIOUS
<1>5. /\ n \in Seq(1..Len(blobs)) /\ Len(n) = c + 1 /\ n[c + 1] = x
      /\ \A a \in 1..c : n[a] = m[a]
  BY <1>3, <1>4, AppendProperties
<1>6. ASSUME NEW a \in 1..Len(n) PROVE \E j \in 1..Len(l) : n[a] = l[j] /\ lg[j] = 0
  <2>1. CASE a = c + 1
    BY <2>1, <1>2, <1>3, <1>5
  <2>2. CASE a # c + 1
    <3>1. a \in 1..c
      BY <2>2, <1>5
    <3>2. PICK j \in 1..Len(l) : m[a] = l[j] /\ lf[j] = 0
      BY <3>1, <1>1, <1>4
    <3> QED
      BY <3>1, <3>2, <1>2, <1>5
  <2> QED
    BY <2>1, <2>2
<1>7. ASSUME NEW j \in 1..Len(l), lg[j] = 0 PROVE \E a \in 1..Len(n) : n[a] = l[j]
  <2>1. CASE j = k
    BY <2>1, <1>3, <1>5
  <2>2. CASE j # k
    <3>1. lf[j] = 0
      BY <2>2, <1>2, <1>7
    <3>2. PICK a \in 1..c : m[a] = l[j]
      BY <3>1, <1>1, <1>4
    <3> QED
      BY <3>2, <1>5
  <2> QED
    BY <2>1, <2>2
<1>8. ASSUME NEW a \in 1..Len(n), NEW b \in 1..Len(n), a < b PROVE Before(n[a], n[b])
  <2>0. a \in 1..c
    BY <1>5, <1>8
  <2>1. CASE b = c + 1
    <3>1. PICK j \in 1..Len(l) : m[a] = l[j] /\ lf[j] = 0
      BY <2>0, <1>1, <1>4
    <3>2. Before(l[j], l[k])
      BY <3>1, <1>1
    <3> QED
      BY <2>0, <2>1, <3>1, <3>2, <1>3, <1>5
  <2>2. CASE b # c + 1
    <3>1. b \in 1..c
      BY <2>2, <1>5
    <3>2. Before(m[a], m[b])
      BY <2>0, <3>1, <1>1, <1>4, <1>8 DEF Ordered
    <3> QED
      BY <2>0, <3>1, <3>2, <1>5
  <2> QED
    BY <2>1, <2>2
<1>9. ASSUME NEW i \in 1..Len(l), NEW j \in 1..Len(l), lg[i] = 0, lg[j] > 0
      PROVE  Before(l[i], l[j])
  <2>0. lg[k] = 0
    BY <1>2
  <2>1. j # k
    BY <2>0, <1>9
  <2>2. lf[j] > 0
    BY <2>1, <1>2, <1>9
  <2>3. CASE i = k
    BY <2>1, <2>2, <2>3
  <2>4. CASE i # k
    BY <2>2, <2>4, <1>1, <1>2, <1>9
  <2> QED
    BY <2>3, <2>4
<1>10. Total(SizesOf(n)) + Total(Incomplete(l, lg)) = Total(SizesOf(l))
  <2>1. PICK y \in Nat : y = blobs[x]
    OBVIOUS
  <2>2. SizesOf(m) \in Seq(Nat)
    BY SizesOfType
  <2>3. Total(SizesOf(n)) = Total(SizesOf(m)) + y
    <3>1. SizesOf(n) = Append(SizesOf(m), y)
      BY <1>3, <2>1, SizesOfAppend
    <3> QED
      BY <3>1, <2>2, TotalAppend
  <2>4. PICK s \in Seq(Nat) : s = Incomplete(l, lf) /\ Len(s) = Len(l)
            /\ \A j \in 1..Len(l) : s[j] = IF lf[j] = 0 THEN 0 ELSE blobs[l[j]]
    BY <1>1, IncompleteType
  <2>5. PICK t \in Seq(Nat) : t = Incomplete(l, lg) /\ Len(t) = Len(l)
            /\ \A j \in 1..Len(l) : t[j] = IF lg[j] = 0 THEN 0 ELSE blobs[l[j]]
    <3>1. lg \in Seq(Nat)
      BY <1>2
    <3> QED
      BY <3>1, IncompleteType
  <2>6. s[k] = y /\ t[k] = 0
    <3>0. lg[k] = 0
      BY <1>2
    <3>1. lg[k] = 0 /\ lf[k] # 0
      BY ONLY <3>0, lf[k] > 0
    <3>2. s[k] = blobs[l[k]] /\ t[k] = 0
      BY ONLY <3>1, <2>4, <2>5, k \in 1..Len(l)
    <3> QED
      BY <3>2, <2>1, <1>3
  <2>7. \A i \in 1..Len(s) : i # k => s[i] = t[i]
    <3> SUFFICES ASSUME NEW i \in 1..Len(l), i # k PROVE s[i] = t[i]
      BY <2>4
    <3>1. lg[i] = lf[i]
      BY <1>2
    <3> QED
      BY <3>1, <2>4, <2>5
  <2>8. Total(s) = Total(t) + y
    <3>1. Len(s) = Len(t) /\ k \in 1..Len(s)
      BY ONLY <2>4, <2>5, k \in 1..Len(l)
    <3>2. s[k] = t[k] + y
      BY ONLY <2>6, y \in Nat
    <3> QED
      BY <3>1, <3>2, <2>7, TotalOneMore
  <2>9. Total(t) \in Nat /\ Total(SizesOf(m)) \in Nat
    BY <2>2, TotalType
  <2> QED
    BY <2>3, <2>4, <2>5, <2>8, <2>9, <1>1
<1> QED
  BY <1>2, <1>5, <1>6, <1>7, <1>8, <1>9, <1>10 DEF UnderWay, Ordered

(* A chunk is written that is not the last of its resource. *)
LEMMA ChunkDone ==
    ASSUME blobs \in Seq(Nat \ {0}), NEW l \in Seq(1..Len(blobs)), NEW m,
           NEW lf, UnderWay(m, l, lf), NEW k \in 1..Len(l), lf[k] > 0,
           NEW y \in Nat \ {0}, NEW lg, lg = [lf EXCEPT ![k] = y]
    PROVE  UnderWay(m, l, lg)
<1>1. /\ lf \in Seq(Nat) /\ Len(lf) = Len(l)
      /\ \A a \in 1..Len(m) : \E j \in 1..Len(l) : m[a] = l[j] /\ lf[j] = 0
      /\ \A j \in 1..Len(l) : lf[j] = 0 => \E a \in 1..Len(m) : m[a] = l[j]
      /\ Ordered(m)
      /\ \A i, j \in 1..Len(l) : lf[i] = 0 /\ lf[j] > 0 => Before(l[i], l[j])
      /\ Total(SizesOf(m)) + Total(Incomplete(l, lf)) = Total(SizesOf(l))
  BY DEF UnderWay
<1>2. /\ lg \in Seq(Nat) /\ Len(lg) = Len(l)
      /\ \A j \in 1..Len(l) : lg[j] = IF j = k THEN y ELSE lf[j]
  <2>1. k \in 1..Len(lf) /\ y \in Nat /\ lf \in Seq(Nat) /\ Len(lf) = Len(l)
    BY <1>1
  <2>2. /\ lg \in Seq(Nat) /\ Len(lg) = Len(lf)
        /\ \A j \in 1..Len(lf) : lg[j] = IF j = k THEN y ELSE lf[j]
    BY ONLY <2>1, lg = [lf EXCEPT ![k] = y], ExceptSeq
  <2> QED
    BY ONLY <2>1, <2>2
<1>3. \A j \in 1..Len(l) : (lg[j] = 0 <=> lf[j] = 0) /\ (lg[j] > 0 <=> lf[j] > 0)
  <2> SUFFICES ASSUME NEW j \in 1..Len(l)
               PROVE  (lg[j] = 0 <=> lf[j] = 0) /\ (lg[j] > 0 <=> lf[j] > 0)
    OBVIOUS
  <2>1. CASE j = k
    <3>1. lg[j] = y
      BY <2>1, <1>2
    <3>2. lf[j] > 0
      BY <2>1
    <3> QED
      BY ONLY <3>1, <3>2, y \in Nat \ {0}
  <2>2. CASE j # k
    <3>1. lg[j] = lf[j]
      BY <2>2, <1>2
    <3> QED
      BY ONLY <3>1
  <2> QED
    BY <2>1, <2>2
<1>4. Incomplete(l, lg) = Incomplete(l, lf)
  <2>1. \A j \in 1..Len(l) : lg[j] = 0 <=> lf[j] = 0
    BY <1>3
  <2> QED
    BY ONLY <2>1 DEF Incomplete
<1> QED
  BY ONLY <1>1, <1>2, <1>3, <1>4 DEF UnderWay

(* What is still to be written becomes less. *)
LEMMA LeftShrinks ==
    ASSUME NEW lf \in Seq(Nat), NEW lg \in Seq(Nat), Len(lg) = Len(lf),
           NEW k \in 1..Len(lf), lg[k] <= lf[k],
           \A j \in 1..Len(lf) : j # k => lg[j] = lf[j]
    PROVE  Total(lf) = Total(lg) + (lf[k] - lg[k]) /\ Total(lg) \in Nat
<1>1. PICK y \in Nat : y = lg[k]
  OBVIOUS
<1>2. PICK x \in Nat : lf[k] = y + x /\ x = lf[k] - lg[k]
  <2>1. PICK z \in Nat : z = lf[k]
    OBVIOUS
  <2>2. z - y \in Nat /\ z = y + (z - y)
    BY <1>1, <2>1
  <2> QED
    BY <1>1, <2>1, <2>2
<1>3. lf[k] = lg[k] + x /\ \A j \in 1..Len(lf) : j # k => lf[j] = lg[j]
  BY <1>1, <1>2
<1>4. Total(lf) = Total(lg) + x
  BY <1>3, TotalOneMore
<1> QED
  BY <1>2, <1>4, TotalType

(* Nothing is left: the file has the whole list. *)
LEMMA AllDone ==
    ASSUME blobs \in Seq(Nat \ {0}), NEW l \in Seq(1..Len(blobs)), NEW m \in Seq(1..Len(blobs)),
           NEW lf, UnderWay(m, l, lf), \A k \in 1..Len(l) : lf[k] = 0
    PROVE  WholeList(m, l)
<1>1. /\ lf \in Seq(Nat)
      /\ \A a \in 1..Len(m) : \E k \in 1..Len(l) : m[a] = l[k]
      /\ \A k \in 1..Len(l) : \E a \in 1..Len(m) : m[a] = l[k]
      /\ Ordered(m)
      /\ Total(SizesOf(m)) + Total(Incomplete(l, lf)) = Total(SizesOf(l))
  BY DEF UnderWay
<1>2. PICK t \in Seq(Nat) : t = Incomplete(l, lf) /\ Len(t) = Len(l)
          /\ \A k \in 1..Len(l) : t[k] = IF lf[k] = 0 THEN 0 ELSE blobs[l[k]]
  BY <1>1, IncompleteType
<1>3. \A k \in 1..Len(t) : t[k] = 0
  BY <1>2
<1>4. Total(t) = 0
  BY <1>3, TotalZeros
<1>5. Total(SizesOf(m)) \in Nat
  BY SizesOfType, TotalType
<1>6. Total(SizesOf(m)) = Total(SizesOf(l))
  BY <1>1, <1>2, <1>4, <1>5
<1> QED
  BY <1>1, <1>6 DEF WholeList

(* A file has as many resources as its list, if that has one or none. *)
LEMMA WholeSingle ==
    ASSUME NEW l \in Seq(1..Len(blobs)), NEW m \in Seq(1..Len(blobs)), WholeList(m, l)
    PROVE  /\ l = <<>> => m = <<>>
           /\ Len(l) = 1 => Len(m) = 1
<1>1. /\ \A a \in 1..Len(m) : \E k \in 1..Len(l) : m[a] = l[k]
      /\ \A k \in 1..Len(l) : \E a \in 1..Len(m) : m[a] = l[k]
      /\ \A a, b \in 1..Len(m) : a < b => Before(m[a], m[b])
  BY DEF WholeList, Ordered
<1>2. PICK n \in Nat : n = Len(m)
  OBVIOUS
<1>3. ASSUME l = <<>> PROVE m = <<>>
  <2>1. 1..Len(l) = {}
    BY <1>3
  <2>2. 1 \notin 1..n
    BY <2>1, <1>1, <1>2
  <2> QED
    BY <2>2, <1>2, EmptySeq
<1>4. ASSUME Len(l) = 1 PROVE n = 1
  <2>1. 1 \in 1..Len(l) /\ \A k \in 1..Len(l) : k = 1
    BY <1>4
  <2>2. n >= 1
    BY <2>1, <1>1, <1>2
  <2>3. \A a \in 1..n : m[a] = l[1]
    BY <2>1, <1>1, <1>2
  <2>4. ~Before(l[1], l[1])
    <3>1. l[1] \in Int
      BY <2>1
    <3> QED
      BY <3>1 DEF Before
  <2>5. n < 2
    <3> SUFFICES ASSUME n >= 2 PROVE FALSE
      BY <1>2
    <3>1. 1 \in 1..n /\ 2 \in 1..n /\ 1 < 2
      OBVIOUS
    <3>2. Before(m[1], m[2])
      BY <3>1, <1>1, <1>2
    <3> QED
      BY <3>1, <3>2, <2>3, <2>4
  <2> QED
    BY <2>2, <2>5
<1> QED
  BY <1>2, <1>3, <1>4

-----------------------------------------------------------------------------
(* The invariant holds at first, and every step keeps it.                  *)

LEMMA InitFits == Init => IInv
<1> SUFFICES ASSUME Init PROVE IInv
  OBVIOUS
<1> USE SizesAssumption
<1>1. metadata \in Seq(Nat \ {0}) /\ blobs \in Seq(Nat \ {0})
  BY DEF Init
<1>2. fileSize \in Nat /\ fileSize > FatMax
  <2>1. PICK waste \in Waste : fileSize = Total(metadata) + Total(blobs) + waste
    BY DEF Init
  <2>2. metadata \in Seq(Nat) /\ blobs \in Seq(Nat)
    BY <1>1
  <2>3. Total(metadata) \in Nat /\ Total(blobs) \in Nat /\ waste \in Int
    BY <2>2, TotalType
  <2>4. fileSize \in Int
    BY <2>1, <2>3
  <2>5. fileSize > FatMax
    BY DEF Init
  <2> QED
    BY <2>4, <2>5
<1>3. /\ pc = "divide" /\ slice = 0 /\ parts = <<>> /\ array = 0 /\ heads = <<>> /\ added = 0
      /\ medium = <<>> /\ completed = 0 /\ lastPart = 0 /\ reported = 0 /\ result = "none"
  BY DEF Init
<1>4. PlanType
  <2>1. <<>> \in Seq(PartRecord)
    OBVIOUS
  <2>2. Len(blobs) \in Nat
    BY <1>1
  <2> QED
    BY <1>1, <1>2, <1>3, <2>1, <2>2 DEF PlanType, SliceIsQuotient
<1>5. PartsFit /\ HeadsFit
  BY <1>3 DEF PartsFit, HeadsFit
<1>6. MediumFits
  <2>1. <<>> \in Seq(FileRecord)
    OBVIOUS
  <2>2. Len(<<>>) = 0 /\ DOMAIN <<>> = {}
    OBVIOUS
  <2> QED
    BY <1>3, <2>1, <2>2 DEF MediumFits, current
<1>7. ProgressFits
  BY <1>3 DEF ProgressFits
<1> QED
  BY <1>4, <1>5, <1>6, <1>7 DEF IInv

(* What does not change with the source and the plan. *)
LEMMA SameParts ==
    ASSUME UNCHANGED <<source, parts>>
    PROVE  /\ Sizes' = Sizes
           /\ \A p : MetadataOf(p)' = MetadataOf(p) /\ InPart(p)' = InPart(p)
           /\ \A l : SizesOf(l)' = SizesOf(l)
BY DEF source, Sizes, MetadataOf, InPart, SizesOf

LEMMA SameLists ==
    ASSUME UNCHANGED source
    PROVE  \A m, l : WholeList(m, l)' = WholeList(m, l)
                     /\ \A lf : UnderWay(m, l, lf)' = UnderWay(m, l, lf)
<1>1. UNCHANGED <<blobs, uncompressed>>
  BY DEF source
<1>2. \A i, j : Before(i, j)' = Before(i, j)
  BY <1>1 DEF Before
<1>3. \A m : Ordered(m)' = Ordered(m)
  BY <1>2 DEF Ordered
<1>4. \A l : SizesOf(l)' = SizesOf(l)
  BY <1>1 DEF SizesOf
<1>5. \A l, lf : Incomplete(l, lf)' = Incomplete(l, lf)
  BY <1>1 DEF Incomplete
<1>6. \A m, l : WholeList(m, l)' = WholeList(m, l)
  BY <1>3, <1>4 DEF WholeList
<1>7. \A m, l, lf : UnderWay(m, l, lf)' = UnderWay(m, l, lf)
  <2> SUFFICES ASSUME NEW m, NEW l, NEW lf PROVE UnderWay(m, l, lf)' = UnderWay(m, l, lf)
    OBVIOUS
  <2>1. Ordered(m)' = Ordered(m) /\ Incomplete(l, lf)' = Incomplete(l, lf)
    BY <1>3, <1>5
  <2>2. SizesOf(m)' = SizesOf(m) /\ SizesOf(l)' = SizesOf(l)
    BY <1>4
  <2>3. (\A k, j \in 1..Len(l) : lf[k] = 0 /\ lf[j] > 0 => Before(l[k], l[j])')
        <=> (\A k, j \in 1..Len(l) : lf[k] = 0 /\ lf[j] > 0 => Before(l[k], l[j]))
    BY <1>2
  <2>4. Total(SizesOf(m)') + Total(Incomplete(l, lf)') = Total(SizesOf(l)')
        <=> Total(SizesOf(m)) + Total(Incomplete(l, lf)) = Total(SizesOf(l))
    BY <2>1, <2>2
  <2>5. UnderWay(m, l, lf) => UnderWay(m, l, lf)'
    BY ONLY <2>1, <2>3, <2>4 DEF UnderWay
  <2>6. UnderWay(m, l, lf)' => UnderWay(m, l, lf)
    BY ONLY <2>1, <2>3, <2>4 DEF UnderWay
  <2> QED
    BY <2>5, <2>6 DEF UnderWay
<1> QED
  BY <1>6, <1>7

LEMMA SameMedium ==
    ASSUME UNCHANGED <<source, parts, medium>>
    PROVE  \A p : IsWhole(p)' = IsWhole(p)
BY SameParts, SameLists DEF IsWhole

LEMMA SamePlan ==
    ASSUME PlanType, HeadsFit, PartsFit, UNCHANGED <<source, slice, plan>>,
           pc \notin {"divide", "done"}, pc' \in {"part", "report", "write", "done"},
           result' \in {"none", "success", "failure", "skipped"},
           (result' = result /\ parts # <<>>) \/ pc' = "done"
    PROVE  PlanType' /\ HeadsFit' /\ PartsFit'
<1>1. UNCHANGED <<fileSize, metadata, blobs, slice, parts, array, heads, added>>
  BY DEF source, plan
<1>2. PartRecord' = PartRecord
  BY <1>1 DEF PartRecord
<1>3. SliceIsQuotient'
  BY <1>1 DEF PlanType, SliceIsQuotient
<1>4. PlanType'
  BY <1>1, <1>2, <1>3 DEF PlanType
<1>5. HeadsFit'
  BY <1>1 DEF HeadsFit
<1>6. PartsFit'
  BY <1>1, SameParts DEF PartsFit, Increasing
<1> QED
  BY <1>4, <1>5, <1>6

(* Nothing is written before the plan is complete. *)
LEMMA NothingWritten ==
    ASSUME IInv, pc \in {"divide", "plan", "distribute"}, PlanType',
           UNCHANGED <<source, writing, progress>>, result' # "success",
           pc' \in {"divide", "plan", "distribute", "done"}
    PROVE  MediumFits' /\ ProgressFits'
<1> USE DEF IInv
<1>1. /\ UNCHANGED <<blobs, medium, completed, reported, lastPart>>
      /\ medium = <<>> /\ reported = 0 /\ completed = 0 /\ lastPart \in Nat
  BY DEF source, writing, progress, MediumFits, ProgressFits
<1>2. Len(medium') = 0 /\ DOMAIN medium' = {}
  BY <1>1
<1>3. medium' \in Seq(FileRecord)'
  BY <1>1 DEF FileRecord
<1>4. Len(parts') \in Nat
  <2>1. parts' \in Seq(PartRecord')
    BY DEF PlanType
  <2> QED
    BY <2>1
<1>5. MediumFits'
  BY <1>1, <1>2, <1>3, <1>4 DEF MediumFits, current
<1>6. ProgressFits'
  BY <1>1 DEF ProgressFits
<1> QED
  BY <1>5, <1>6

LEMMA DivideFits ==
    ASSUME IInv, Divide
    PROVE  IInv'
<1> USE DEF IInv
<1>1. /\ pc = "divide" /\ UNCHANGED <<source, plan, writing, progress>>
      /\ UNCHANGED <<fileSize, metadata, blobs, parts, array, heads, added>>
  BY DEF Divide, source, plan
<1>2. /\ fileSize \in Nat /\ fileSize > FatMax /\ FatMax \in Nat
      /\ parts = <<>> /\ added = 0 /\ result # "success"
  BY <1>1, SizesAssumption DEF PlanType, MediumFits
<1>3. /\ slice' \in 0..FatMax /\ pc' \in {"plan", "done"}
      /\ result' = result \/ (pc' = "done" /\ result' = "crashed")
      /\ SliceIsQuotient'
  <2>1. CASE PartsCount(fileSize) # 0
    <3>1. /\ slice' = (fileSize \div PartsCount(fileSize)) % (FatMax + 1)
          /\ pc' = "plan" /\ result' = result
      BY <2>1 DEF Divide
    <3>2. slice' \in 0..FatMax
      BY <2>1, <3>1, <1>2, SliceType
    <3>3. ASSUME fileSize <= FatMax * (ByteRange - 1)
          PROVE  slice' # 0 /\ slice' = fileSize \div ((fileSize + FatMax - 1) \div FatMax)
      <4>1. /\ PartsCount(fileSize) = (fileSize + FatMax - 1) \div FatMax
            /\ fileSize \div PartsCount(fileSize) \in 1..FatMax
        BY <3>3, <1>2, SliceFits
      <4>2. PICK q \in 1..FatMax : q = fileSize \div PartsCount(fileSize)
        BY <4>1
      <4>3. slice' = q
        BY <3>1, <4>2, SliceUncut
      <4>4. q # 0
        BY <1>2
      <4> QED
        BY <4>1, <4>2, <4>3, <4>4
    <3> QED
      BY <3>1, <3>2, <3>3, <1>1 DEF PlanType, SliceIsQuotient
  <2>2. CASE PartsCount(fileSize) = 0
    <3>1. slice' = 0 /\ (Return("crashed") \/ (pc' = "plan" /\ result' = result))
      BY <2>2 DEF Divide
    <3>2. ~(fileSize <= FatMax * (ByteRange - 1))
      BY <2>2, <1>2, SliceFits
    <3> QED
      BY <3>1, <3>2, <1>1, <1>2 DEF Return, SliceIsQuotient
  <2> QED
    BY <2>1, <2>2
<1>4. PlanType'
  <2>1. PartRecord' = PartRecord
    BY <1>1 DEF PartRecord
  <2> QED
    BY <1>1, <1>2, <1>3, <2>1 DEF PlanType
<1>5. HeadsFit' /\ PartsFit'
  <2>1. HeadsFit'
    BY <1>1 DEF HeadsFit
  <2>2. parts' = <<>> /\ added' = 0 /\ DOMAIN <<>> = {} /\ 1..0 = {}
    BY <1>1, <1>2
  <2>3. PartsFit'
    BY <2>2 DEF PartsFit
  <2> QED
    BY <2>1, <2>3
<1>6. MediumFits' /\ ProgressFits'
  BY <1>1, <1>2, <1>3, <1>4, NothingWritten
<1> QED
  BY <1>4, <1>5, <1>6

LEMMA RefuseSliceFits ==
    ASSUME IInv, RefuseSlice
    PROVE  IInv'
<1> USE DEF IInv
<1>1. /\ pc = "plan" /\ pc' = "done" /\ result' = "failure"
      /\ UNCHANGED <<source, slice, plan, writing, progress>>
  BY DEF RefuseSlice, Return
<1>2. PlanType' /\ HeadsFit' /\ PartsFit'
  BY <1>1, SamePlan
<1>3. MediumFits' /\ ProgressFits'
  BY <1>1, <1>2, NothingWritten
<1> QED
  BY <1>2, <1>3

LEMMA OutOfMemoryFits ==
    ASSUME IInv, OutOfMemory
    PROVE  IInv'
<1> USE DEF IInv
<1>1. /\ pc \in {"plan", "distribute"} /\ pc' = "done" /\ result' = "failure"
      /\ UNCHANGED <<source, slice, plan, writing, progress>>
  BY DEF OutOfMemory, StartsPart, Return
<1>2. PlanType' /\ HeadsFit' /\ PartsFit'
  BY <1>1, SamePlan
<1>3. MediumFits' /\ ProgressFits'
  BY <1>1, <1>2, NothingWritten
<1> QED
  BY <1>2, <1>3

(* The array, when a part is begun. *)
LEMMA MoveArrayFits ==
    ASSUME HeadsFit, MoveArray, NEW n \in Nat, n = Len(parts), DOMAIN parts = 1..n,
           DOMAIN parts' = 1..(n + 1)
    PROVE  HeadsFit'
<1>1. CASE NeedsMemory
  <2>1. array' = array + 1 /\ heads' = [p \in 1..(n + 1) |-> array + 1]
    BY <1>1 DEF MoveArray
  <2> QED
    BY <2>1 DEF HeadsFit
<1>2. CASE ~NeedsMemory
  <2>1. heads' = Append(heads, array) /\ array' = array /\ array \in Nat
    BY <1>2 DEF MoveArray, HeadsFit
  <2>2. heads \in Seq(Nat) /\ DOMAIN heads = 1..n /\ \A p \in 1..n : heads[p] = array
    BY DEF HeadsFit
  <2>3. Len(heads) = n
    BY <2>2
  <2>4. /\ heads' \in Seq(Nat) /\ DOMAIN heads' = 1..(n + 1) /\ heads'[n + 1] = array
        /\ \A p \in 1..n : heads'[p] = heads[p]
    <3>1. /\ heads' \in Seq(Nat) /\ Len(heads') = Len(heads) + 1 /\ heads'[Len(heads) + 1] = array
          /\ \A p \in 1..Len(heads) : heads'[p] = heads[p]
      BY <2>1, <2>2, AppendProperties
    <3> QED
      BY <2>3, <3>1
  <2>5. \A p \in 1..(n + 1) : heads'[p] = array
    BY <2>2, <2>4
  <2> QED
    BY <2>1, <2>4, <2>5 DEF HeadsFit
<1> QED
  BY <1>1, <1>2

LEMMA AddMetadataFits ==
    ASSUME IInv, AddMetadata
    PROVE  IInv'
<1> USE DEF IInv
<1>1. /\ pc = "plan" /\ pc' = "distribute" /\ parts = <<>> /\ added = 0
      /\ UNCHANGED <<source, slice, added, writing, progress, result>>
      /\ UNCHANGED <<fileSize, metadata, blobs>>
  BY DEF AddMetadata, source, PlanType
<1>2. PICK part : part = [list |-> <<>>, size |-> Total(metadata)]
  OBVIOUS
<1>3. parts' = <<part>> /\ part.list = <<>> /\ part.size = Total(metadata)
  BY <1>2 DEF AddMetadata
<1>4. Total(metadata) \in Nat
  BY TotalType DEF PlanType
<1>5. Len(parts') = 1 /\ parts'[1] = part /\ DOMAIN parts' = {1} /\ parts' # <<>>
  BY <1>3
<1>6. PlanType'
  <2>1. part \in PartRecord
    BY <1>2, <1>4 DEF PartRecord
  <2>2. parts' \in Seq(PartRecord)
    BY <1>3, <2>1
  <2>3. PartRecord' = PartRecord
    BY <1>1 DEF PartRecord
  <2>4. SliceIsQuotient'
    BY <1>1 DEF PlanType, SliceIsQuotient
  <2> QED
    BY <1>1, <1>5, <2>2, <2>3, <2>4 DEF PlanType
<1>7. HeadsFit'
  <2>1. 0 = Len(parts) /\ DOMAIN parts = 1..0 /\ DOMAIN parts' = 1..(0 + 1) /\ 0 \in Nat
    BY <1>1, <1>5
  <2>2. MoveArray
    BY DEF AddMetadata
  <2> QED
    BY <2>1, <2>2, MoveArrayFits
<1>8. PartsFit'
  <2>1. InPart(1)' = SizesOf(<<>>)' \o metadata
    BY <1>1, <1>3, <1>5 DEF InPart, MetadataOf
  <2>2. SizesOf(<<>>)' = <<>>
    BY DEF SizesOf
  <2>3. <<>> \o metadata = metadata
    BY ConcatEmptySeq DEF PlanType
  <2>4. parts'[1].size = Total(InPart(1)') /\ parts'[1].list = <<>>
    BY <1>3, <1>5, <2>1, <2>2, <2>3
  <2>5. Len(<<>>) = 0 /\ 1..0 = {} /\ 1..added' = {}
    BY <1>1
  <2> QED
    BY <1>5, <2>4, <2>5 DEF PartsFit, Increasing
<1>9. result' # "success"
  BY <1>1 DEF MediumFits
<1>10. MediumFits' /\ ProgressFits'
  BY <1>1, <1>6, <1>9, NothingWritten
<1> QED
  BY <1>6, <1>7, <1>8, <1>10

LEMMA AllAddedFits ==
    ASSUME IInv, AllAdded
    PROVE  IInv'
<1> USE DEF IInv
<1>1. /\ pc = "distribute" /\ pc' = "part" /\ added = Len(blobs)
      /\ UNCHANGED <<source, slice, plan, writing, progress, result>>
      /\ UNCHANGED <<blobs, parts, added, medium, completed, lastPart, reported>>
  BY DEF AllAdded, source, plan, writing, progress
<1>2. parts # <<>> /\ result = "none"
  BY <1>1 DEF PlanType
<1>3. PlanType' /\ HeadsFit' /\ PartsFit'
  BY <1>1, <1>2, SamePlan
<1>4. medium = <<>> /\ reported = 0 /\ completed = 0 /\ lastPart \in Nat
  BY <1>1 DEF MediumFits, ProgressFits
<1>5. Len(medium) = 0 /\ DOMAIN medium = {} /\ Len(parts) \in Nat
  BY <1>4, CurrentTypes
<1>6. MediumFits'
  <2>1. medium' \in Seq(FileRecord)'
    BY <1>1 DEF MediumFits, FileRecord
  <2> QED
    BY <1>1, <1>2, <1>4, <1>5, <2>1 DEF MediumFits, current
<1>7. Total(SubSeq(Sizes, 1, 0)) = 0
  <2>1. SubSeq(Sizes, 1, 0) = <<>>
    BY SizesTypes, SubSeqEmpty
  <2> QED
    BY <2>1, TotalEmpty
<1>8. ProgressFits'
  <2>1. Sizes' = Sizes
    BY <1>1, SameParts
  <2> QED
    BY <1>1, <1>4, <1>5, <1>7, <2>1 DEF ProgressFits, current
<1> QED
  BY <1>3, <1>6, <1>8

(* A resource is put at the end of the last part, or of a new one. *)
LEMMA PartGrows ==
    ASSUME PlanType, PartsFit, UNCHANGED <<source, slice>>, added' = added + 1, added < Len(blobs),
           NEW n \in Nat, n = Len(parts), NEW q \in Nat \ {0}, DOMAIN parts' = 1..q,
           \A p \in 1..(q - 1) : parts'[p] = parts[p],
           NEW base, \/ q = n /\ base = parts[q].list
                     \/ q = n + 1 /\ base = <<>>,
           parts'[q].list = Append(base, added + 1),
           parts'[q].size = Total(InPart(q)'),
           parts'[q].size < slice \/ Len(InPart(q)') = 1
    PROVE  PartsFit'
<1>1. DOMAIN parts = 1..n /\ q - 1 \in Nat /\ q - 1 <= n
  <2>1. parts \in Seq(PartRecord)
    BY DEF PlanType
  <2>2. DOMAIN parts = 1..n
    BY <2>1
  <2> QED
    BY <2>2
<1>2. PICK k : k = added + 1 /\ k \in 1..Len(blobs) /\ k \in Nat /\ added \in Nat /\ added < k
  <2>1. blobs \in Seq(Nat \ {0}) /\ added \in 0..Len(blobs)
    BY DEF PlanType
  <2>2. Len(blobs) \in Nat
    BY <2>1
  <2>3. added + 1 \in 1..Len(blobs) /\ added + 1 \in Nat /\ added \in Nat /\ added < added + 1
    BY <2>1, <2>2
  <2> QED
    BY <2>3
<1>3. ASSUME NEW p \in 1..n
      PROVE  /\ parts[p].list \in Seq(1..Len(blobs))
             /\ \A i \in 1..Len(parts[p].list) : parts[p].list[i] \in Nat /\ parts[p].list[i] < k
             /\ Increasing(parts[p].list)
  <2>1. p \in DOMAIN parts
    BY <1>1
  <2>2. parts[p].list \in Seq(1..Len(blobs))
    BY <2>1, PartTypes
  <2>3. /\ \A i \in 1..Len(parts[p].list) : parts[p].list[i] <= added
        /\ Increasing(parts[p].list)
    BY <2>1 DEF PartsFit
  <2>4. ASSUME NEW i \in 1..Len(parts[p].list)
        PROVE  parts[p].list[i] \in Nat /\ parts[p].list[i] < k
    <3>1. parts[p].list[i] \in Nat /\ parts[p].list[i] <= added
      BY <2>2, <2>3
    <3> QED
      BY <3>1, <1>2
  <2> QED
    BY <2>2, <2>3, <2>4
<1>4. /\ base \in Seq(1..Len(blobs)) /\ Increasing(base)
      /\ \A j \in 1..Len(base) : base[j] \in Nat /\ base[j] < k
      /\ \A p \in 1..(q - 1) : \A i \in 1..Len(parts[p].list), j \in 1..Len(base) :
            parts[p].list[i] < base[j]
  <2>1. CASE q = n /\ base = parts[q].list
    <3>1. q \in 1..n
      BY <2>1
    <3>2. ASSUME NEW p \in 1..(q - 1), NEW i \in 1..Len(parts[p].list), NEW j \in 1..Len(base)
          PROVE  parts[p].list[i] < base[j]
      <4>1. p \in DOMAIN parts /\ q \in DOMAIN parts /\ p < q
        BY <3>1, <1>1
      <4> QED
        BY <4>1, <2>1 DEF PartsFit
    <3> QED
      BY <2>1, <3>1, <3>2, <1>3
  <2>2. CASE q = n + 1 /\ base = <<>>
    <3>1. <<>> \in Seq(1..Len(blobs)) /\ Len(<<>>) = 0 /\ 1..0 = {}
      OBVIOUS
    <3> QED
      BY <2>2, <3>1 DEF Increasing
  <2> QED
    BY <2>1, <2>2
<1>5. PICK c \in Nat : c = Len(base)
  BY <1>4
<1>6. PICK m : m = Append(base, k)
  OBVIOUS
<1>7. parts'[q].list = m /\ Len(m) = c + 1 /\ m[c + 1] = k /\ \A j \in 1..c : m[j] = base[j]
  <2>1. Len(m) = c + 1 /\ m[c + 1] = k /\ \A j \in 1..c : m[j] = base[j]
    BY ONLY <1>2, <1>4, <1>5, <1>6, AppendProperties
  <2> QED
    BY <2>1, <1>2, <1>6
<1>8. \A j \in 1..(c + 1) : j \in 1..c \/ j = c + 1
  OBVIOUS
<1>9. ASSUME NEW i \in 1..k
      PROVE  \E p \in 1..q : \E j \in 1..Len(parts'[p].list) : parts'[p].list[j] = i
  <2>1. CASE i = k
    <3>1. q \in 1..q /\ c + 1 \in 1..(c + 1)
      OBVIOUS
    <3> QED
      BY <2>1, <3>1, <1>7
  <2>2. CASE i # k
    <3>1. i \in 1..added
      BY <2>2, <1>2
    <3>2. PICK p \in 1..n : \E j \in 1..Len(parts[p].list) : parts[p].list[j] = i
      BY <3>1, <1>1 DEF PartsFit
    <3>3. PICK j \in 1..Len(parts[p].list) : parts[p].list[j] = i
      BY <3>2
    <3>4. CASE p \in 1..(q - 1)
      <4>1. p \in 1..q /\ parts'[p] = parts[p]
        BY <3>4
      <4> QED
        BY <4>1, <3>3
    <3>5. CASE p \notin 1..(q - 1)
      <4>1. q = n /\ p = q
        BY <3>5
      <4>2. base = parts[p].list
        BY <4>1
      <4>3. j \in 1..c /\ base[j] = i
        BY <4>2, <3>3, <1>5
      <4>4. j \in 1..(c + 1) /\ m[j] = i
        BY <4>3, <1>7
      <4> QED
        BY <4>1, <4>4, <1>7
    <3> QED
      BY <3>4, <3>5
  <2> QED
    BY <2>1, <2>2
<1>10. ASSUME NEW p \in 1..q
       PROVE  /\ \A i \in 1..Len(parts'[p].list) : parts'[p].list[i] <= k
              /\ Increasing(parts'[p].list)
              /\ parts'[p].size = Total(InPart(p)')
              /\ parts'[p].size < slice \/ Len(InPart(p)') = 1 \/ parts'[p].list = <<>>
  <2>1. CASE p = q
    <3>1. ASSUME NEW i \in 1..(c + 1) PROVE m[i] <= k
      <4>1. CASE i \in 1..c
        <5>1. m[i] = base[i] /\ base[i] \in Nat /\ base[i] < k
          BY ONLY <4>1, <1>4, <1>5, <1>7
        <5> QED
          BY ONLY <5>1, <1>2
      <4>2. CASE i = c + 1
        BY ONLY <4>2, <1>7, <1>2
      <4> QED
        BY <4>1, <4>2, <1>8
    <3>2. ASSUME NEW i \in 1..(c + 1), NEW j \in 1..(c + 1), i < j PROVE m[i] < m[j]
      <4>1. i \in 1..c
        BY <3>2
      <4>2. CASE j = c + 1
        <5>1. m[i] = base[i] /\ base[i] < k /\ m[j] = k
          BY ONLY <4>1, <4>2, <1>4, <1>5, <1>7
        <5> QED
          BY ONLY <5>1
      <4>3. CASE j \in 1..c
        BY <4>1, <4>3, <3>2, <1>4, <1>5, <1>7 DEF Increasing
      <4> QED
        BY <4>2, <4>3, <1>8
    <3>3. Increasing(m)
      BY <3>2, <1>7 DEF Increasing
    <3> QED
      BY <2>1, <3>1, <3>3, <1>7
  <2>2. CASE p # q
    <3>1. p \in 1..(q - 1) /\ p \in 1..n /\ p \in DOMAIN parts
      BY <2>2, <1>1
    <3>2. parts'[p] = parts[p] /\ UNCHANGED <<blobs, metadata>>
      BY <3>1 DEF source
    <3>3. InPart(p)' = InPart(p)
      BY <3>2 DEF InPart, SizesOf, MetadataOf
    <3>4. \A i \in 1..Len(parts[p].list) : parts[p].list[i] <= k
      BY <3>1, <1>2, <1>3
    <3> QED
      BY <3>1, <3>2, <3>3, <3>4 DEF PartsFit
  <2> QED
    BY <2>1, <2>2
<1>11. ASSUME NEW p \in 1..q, NEW r \in 1..q, p < r,
              NEW i \in 1..Len(parts'[p].list), NEW j \in 1..Len(parts'[r].list)
       PROVE  parts'[p].list[i] < parts'[r].list[j]
  <2>1. p \in 1..(q - 1) /\ p \in 1..n /\ parts'[p] = parts[p]
    BY <1>1, <1>11
  <2>2. CASE r = q
    <3>1. j \in 1..(c + 1)
      BY <2>2, <1>7
    <3>2. CASE j = c + 1
      BY <2>1, <2>2, <3>2, <1>3, <1>7
    <3>3. CASE j \in 1..c
      BY <2>1, <2>2, <3>3, <1>4, <1>5, <1>7
    <3> QED
      BY <3>1, <3>2, <3>3, <1>8
  <2>3. CASE r # q
    <3>1. r \in 1..(q - 1) /\ parts'[r] = parts[r] /\ p \in DOMAIN parts /\ r \in DOMAIN parts
      BY <2>1, <2>3, <1>1
    <3> QED
      BY <2>1, <3>1, <1>11 DEF PartsFit
  <2> QED
    BY <2>2, <2>3
<1> QED
  BY <1>2, <1>9, <1>10, <1>11 DEF PartsFit

LEMMA PartReplaced ==
    ASSUME NEW L, NEW N, NEW a \in [list : L, size : N], NEW l \in L, NEW n \in N, NEW e,
           e = [a EXCEPT !.size = n, !.list = l]
    PROVE  e \in [list : L, size : N] /\ e.list = l /\ e.size = n
OBVIOUS

LEMMA AddBlobFits ==
    ASSUME IInv, AddBlob
    PROVE  IInv'
<1> USE DEF IInv
<1>1. /\ pc = "distribute" /\ added < Len(blobs) /\ added' = added + 1 /\ parts # <<>>
      /\ UNCHANGED <<pc, source, slice, writing, progress, result>>
      /\ UNCHANGED <<fileSize, metadata, blobs>>
  BY DEF AddBlob, source, PlanType
<1>2. PICK n \in Nat \ {0} : n = Len(parts) /\ DOMAIN parts = 1..n
  <2>1. parts \in Seq(PartRecord)
    BY DEF PlanType
  <2> QED
    BY <1>1, <2>1, EmptySeq
<1>3. PICK k : k = added + 1 /\ k \in 1..Len(blobs) /\ k \in Nat /\ added \in Nat
  <2>1. blobs \in Seq(Nat \ {0}) /\ added \in 0..Len(blobs)
    BY DEF PlanType
  <2>2. Len(blobs) \in Nat
    BY <2>1
  <2>3. added + 1 \in 1..Len(blobs) /\ added + 1 \in Nat /\ added \in Nat
    BY <1>1, <2>1, <2>2
  <2> QED
    BY <2>3
<1>4. PICK b \in Nat \ {0} : b = blobs[k]
  <2>1. blobs \in Seq(Nat \ {0})
    BY DEF PlanType
  <2> QED
    BY <1>3, <2>1
<1>5. PICK z \in Nat : z = parts[n].size /\ slice \in Nat
  <2>1. n \in DOMAIN parts /\ slice \in 0..FatMax /\ FatMax \in Nat
    BY <1>2, SizesAssumption DEF PlanType
  <2>2. slice \in Nat
    BY ONLY <2>1
  <2>3. parts[n].size \in Nat
    BY <2>1, PartTypes
  <2> QED
    BY <2>2, <2>3
<1>6. \/ parts' = NewPart(b) /\ MoveArray
      \/ /\ z + b < slice \/ z = 0
         /\ parts' = [parts EXCEPT ![n].size = @ + b, ![n].list = Append(@, k)]
         /\ UNCHANGED <<array, heads>>
  <2>1. \/ parts' = NewPart(b) /\ MoveArray
        \/ /\ ~(z + b >= slice /\ z # 0)
           /\ parts' = [parts EXCEPT ![n].size = @ + b, ![n].list = Append(@, k)]
           /\ UNCHANGED <<array, heads>>
    BY <1>2, <1>3, <1>4, <1>5 DEF AddBlob, NeedsPart
  <2> QED
    BY <1>5, <2>1
<1>7. PartRecord' = PartRecord
  BY <1>1 DEF PartRecord
<1>8. ASSUME parts' \in Seq(PartRecord), parts' # <<>>, PartsFit', HeadsFit'
      PROVE  IInv'
  <2>1. SliceIsQuotient'
    BY <1>1 DEF PlanType, SliceIsQuotient
  <2>2. added' \in 0..Len(blobs')
    BY <1>1, <1>3
  <2>3. PlanType'
    BY <1>1, <1>7, <1>8, <2>1, <2>2 DEF PlanType
  <2>4. result' # "success"
    BY <1>1 DEF MediumFits
  <2>5. MediumFits' /\ ProgressFits'
    BY <1>1, <2>3, <2>4, NothingWritten
  <2> QED
    BY <1>8, <2>3, <2>5
<1>9. CASE parts' = NewPart(b) /\ MoveArray
  <2>1. PICK part : part = [list |-> <<k>>, size |-> b]
    OBVIOUS
  <2>2. part \in PartRecord /\ part.list = <<k>> /\ part.size = b
    <3>1. <<k>> \in Seq(1..Len(blobs))
      BY <1>3
    <3> QED
      BY <3>1, <2>1 DEF PartRecord
  <2>3. parts' = Append(parts, part)
    BY <1>3, <1>9, <2>1 DEF NewPart
  <2>4. /\ parts' \in Seq(PartRecord) /\ Len(parts') = n + 1 /\ parts'[n + 1] = part
        /\ \A p \in 1..n : parts'[p] = parts[p]
    <3>1. parts \in Seq(PartRecord)
      BY DEF PlanType
    <3> QED
      BY <1>2, <2>2, <2>3, <3>1, AppendProperties
  <2>5. DOMAIN parts' = 1..(n + 1) /\ parts' # <<>>
    BY <2>4
  <2>6. InPart(n + 1)' = <<b>>
    <3>1. n + 1 # 1
      OBVIOUS
    <3>2. SizesOf(<<k>>)' = <<b>>
      BY <1>1, <1>4 DEF SizesOf
    <3>3. InPart(n + 1)' = SizesOf(<<k>>)' \o <<>>
      BY <2>2, <2>4, <3>1 DEF InPart, MetadataOf
    <3> QED
      BY <3>2, <3>3
  <2>7. Total(<<b>>) = b /\ Len(<<b>>) = 1
    BY TotalSingle
  <2>8. PartsFit'
    <3>1. PICK q \in Nat \ {0} : q = n + 1
      OBVIOUS
    <3>2. q - 1 = n /\ DOMAIN parts' = 1..q
      BY <3>1, <2>5
    <3>3. parts'[q].list = Append(<<>>, added + 1)
      BY <3>1, <2>2, <2>4, <1>3
    <3>4. parts'[q].size = Total(InPart(q)') /\ Len(InPart(q)') = 1
      BY <3>1, <2>2, <2>4, <2>6, <2>7
    <3>5. \A p \in 1..(q - 1) : parts'[p] = parts[p]
      BY <3>2, <2>4
    <3> QED
      BY <1>1, <1>2, <3>1, <3>2, <3>3, <3>4, <3>5, PartGrows
  <2>9. HeadsFit'
    BY <1>2, <1>9, <2>5, MoveArrayFits
  <2> QED
    BY <2>4, <2>5, <2>8, <2>9, <1>8
<1>10. CASE /\ z + b < slice \/ z = 0
            /\ parts' = [parts EXCEPT ![n].size = @ + b, ![n].list = Append(@, k)]
            /\ UNCHANGED <<array, heads>>
  <2>1. n \in DOMAIN parts /\ n \in 1..n
    BY <1>2
  <2>2. PICK l \in Seq(1..Len(blobs)) : l = parts[n].list
    BY <2>1, PartTypes
  <2>3. PICK m : m = Append(l, k)
    OBVIOUS
  <2>4. m \in Seq(1..Len(blobs)) /\ m # <<>>
    BY <1>3, <2>3, AppendProperties
  <2>5. PICK a \in [list : Seq(1..Len(blobs)), size : Nat] :
            a = parts[n] /\ a.list = l /\ a.size = z
    <3>1. parts \in Seq(PartRecord)
      BY DEF PlanType
    <3>2. parts[n] \in PartRecord
      BY <2>1, <3>1
    <3> QED
      BY <3>2, <1>5, <2>2 DEF PartRecord
  <2>6. PICK part : part = [a EXCEPT !.size = @ + b, !.list = Append(@, k)]
    OBVIOUS
  <2>7. part \in PartRecord /\ part.list = m /\ part.size = z + b
    <3>1. part = [a EXCEPT !.size = z + b, !.list = m]
      BY <2>3, <2>5, <2>6
    <3>2. z + b \in Nat
      OBVIOUS
    <3> QED
      BY <3>1, <3>2, <2>4, PartReplaced DEF PartRecord
  <2>8. parts' = [parts EXCEPT ![n] = part]
    BY <1>10, <2>5, <2>6
  <2>9. /\ parts' \in Seq(PartRecord) /\ Len(parts') = n /\ parts'[n] = part
        /\ \A p \in 1..n : p # n => parts'[p] = parts[p]
    <3>1. parts \in Seq(PartRecord) /\ n \in 1..Len(parts)
      BY <1>2 DEF PlanType
    <3>2. /\ parts' \in Seq(PartRecord) /\ Len(parts') = n
          /\ \A p \in 1..n : parts'[p] = IF p = n THEN part ELSE parts[p]
      BY <1>2, <2>7, <2>8, <3>1, ExceptSeq
    <3> QED
      BY <3>2, <2>1
  <2>10. DOMAIN parts' = 1..n /\ parts' # <<>>
    BY <2>9
  <2>11. parts[n].size = Total(InPart(n))
    BY <2>1 DEF PartsFit
  <2>12. PICK u \in Seq(Nat \ {0}) : u = SizesOf(l) /\ u \in Seq(Nat)
    BY SizesOfType DEF PlanType
  <2>13. PICK md \in Seq(Nat \ {0}) : md = MetadataOf(n) /\ md \in Seq(Nat)
    BY <2>1, PartTypes
  <2>14. InPart(n) = u \o md
    BY <2>2, <2>12, <2>13 DEF InPart
  <2>15. InPart(n)' = Append(u, b) \o md
    <3>1. SizesOf(m) = Append(u, b)
      BY <1>3, <1>4, <2>3, <2>12, SizesOfAppend DEF PlanType
    <3>2. SizesOf(m)' = SizesOf(m) /\ MetadataOf(n)' = MetadataOf(n)
      BY <1>1 DEF SizesOf, MetadataOf
    <3>3. InPart(n)' = SizesOf(m)' \o MetadataOf(n)'
      BY <2>7, <2>9 DEF InPart
    <3> QED
      BY <3>1, <3>2, <3>3, <2>13
  <2>16. Append(u, b) \in Seq(Nat)
    BY <2>12, AppendProperties
  <2>17. Total(InPart(n)') = z + b
    <3>1. Total(InPart(n)') = Total(Append(u, b)) + Total(md)
      BY <2>13, <2>15, <2>16, TotalConcat
    <3>2. Total(Append(u, b)) = Total(u) + b
      BY <2>12, TotalAppend
    <3>3. z = Total(u) + Total(md)
      <4>1. Total(u \o md) = Total(u) + Total(md)
        BY <2>12, <2>13, TotalConcat
      <4> QED
        BY <4>1, <2>11, <1>5, <2>14
    <3>4. Total(u) \in Nat /\ Total(md) \in Nat
      BY <2>12, <2>13, TotalType
    <3> QED
      BY <3>1, <3>2, <3>3, <3>4
  <2>18. z + b < slice \/ Len(InPart(n)') = 1
    <3>1. CASE z = 0
      <4>1. PICK w : w = u \o md
        OBVIOUS
      <4>2. w \in Seq(Nat \ {0})
        BY <4>1, ConcatProperties
      <4>3. Total(w) = 0
        BY <3>1, <4>1, <2>11, <1>5, <2>14
      <4>4. u \o md = <<>>
        <5>1. w # <<>> => Total(w) > 0
          BY <4>2, TotalIsPositive
        <5> QED
          BY <5>1, <4>1, <4>3
      <4>5. u = <<>> /\ md = <<>>
        BY <4>4, ConcatEqualIffEmpty
      <4>6. InPart(n)' = <<b>>
        BY <4>5, <2>15
      <4> QED
        BY <4>6
    <3>2. CASE z # 0
      BY <3>2, <1>10
    <3> QED
      BY <3>1, <3>2
  <2>19. PartsFit'
    <3>1. PICK q \in Nat \ {0} : q = n
      OBVIOUS
    <3>2. \A p \in 1..(q - 1) : parts'[p] = parts[p]
      <4> TAKE p \in 1..(q - 1)
      <4>1. p \in 1..n /\ p # n
        BY <3>1
      <4> QED
        BY <4>1, <2>9
    <3>3. parts'[q].list = Append(l, added + 1) /\ l = parts[q].list
      BY <3>1, <1>3, <2>2, <2>3, <2>7, <2>9
    <3>4. /\ parts'[q].size = Total(InPart(q)')
          /\ parts'[q].size < slice \/ Len(InPart(q)') = 1
      BY <3>1, <2>7, <2>9, <2>17, <2>18
    <3> QED
      BY <1>1, <1>2, <2>10, <3>1, <3>2, <3>3, <3>4, PartGrows
  <2>20. HeadsFit'
    BY <1>2, <1>10, <2>10 DEF HeadsFit
  <2> QED
    BY <2>9, <2>10, <2>19, <2>20, <1>8
<1> QED
  BY <1>6, <1>9, <1>10

(* A split that breaks off leaves what is on the medium. *)
LEMMA BreakingOff ==
    ASSUME IInv, pc \in {"part", "report", "write"},
           UNCHANGED <<source, slice, plan, medium, completed>>,
           lastPart' \in Nat, reported' \in Nat,
           pc' = "done", result' \in {"failure", "skipped"}
    PROVE  IInv'
<1> USE DEF IInv
<1>1. UNCHANGED <<blobs, parts, added>>
  BY DEF source, plan
<1>2. PlanType' /\ HeadsFit' /\ PartsFit'
  BY SamePlan
<1>3. \A p : IsWhole(p)' = IsWhole(p)
  BY <1>1, SameMedium
<1>4. medium' \in Seq(FileRecord)'
  BY <1>1 DEF MediumFits, FileRecord
<1>5. MediumFits'
  BY <1>1, <1>3, <1>4 DEF MediumFits, current
<1>6. ProgressFits'
  BY DEF ProgressFits
<1> QED
  BY <1>2, <1>5, <1>6

LEMMA ReportFits ==
    ASSUME IInv, Report
    PROVE  IInv' /\ reported' >= reported /\ reported' <= Total(Sizes)
<1> USE DEF IInv
<1>1. /\ pc = "report" /\ UNCHANGED <<source, slice, plan, writing, completed, lastPart>>
      /\ UNCHANGED <<blobs, parts, added, medium, left, bytes>>
  BY DEF Report, source, plan, writing
<1>2. /\ BytesWritten \in Nat /\ reported <= BytesWritten /\ reported \in Nat
      /\ BytesWritten <= Total(Sizes) /\ reported <= Total(Sizes)
      /\ completed \in Nat /\ lastPart \in Nat
  BY <1>1, BytesTypes, ReportedFits DEF ProgressFits
<1>3. reported' = BytesWritten \/ reported' = reported
  BY DEF Report
<1>4. reported' \in Nat /\ reported' >= reported /\ reported' <= Total(Sizes) /\ reported' <= BytesWritten
  BY <1>2, <1>3
<1>5. CASE pc' = "write" /\ result' = result
  <2>1. result = "none" /\ parts # <<>>
    BY <1>1 DEF PlanType
  <2>2. PlanType' /\ HeadsFit' /\ PartsFit'
    BY <1>1, <1>5, <2>1, SamePlan
  <2>3. \A p : IsWhole(p)' = IsWhole(p)
    BY <1>1, SameMedium
  <2>4. Sizes' = Sizes /\ BytesWritten' = BytesWritten /\ current' = current
    BY <1>1, SameParts DEF BytesWritten, current
  <2>5. MediumFits'
    <3>1. medium' \in Seq(FileRecord)'
      BY <1>1 DEF MediumFits, FileRecord
    <3>2. \A m, l, lf : UnderWay(m, l, lf)' = UnderWay(m, l, lf)
      BY <1>1, SameLists
    <3>3. UnderWay(medium[current].list, parts[current].list, left)'
      BY <1>1, <2>4, <3>2 DEF MediumFits
    <3>4. bytes' + Total(left)' <= Total(SizesOf(parts[current].list))'
      <4>1. SizesOf(parts[current].list)' = SizesOf(parts[current].list)
        BY <1>1, <2>4 DEF SizesOf
      <4> QED
        BY <1>1, <4>1 DEF MediumFits
    <3> QED
      BY <1>1, <1>5, <2>1, <2>3, <2>4, <3>1, <3>3, <3>4 DEF MediumFits
  <2>6. ProgressFits'
    BY <1>1, <1>2, <1>4, <1>5, <2>4 DEF ProgressFits
  <2> QED
    BY <1>4, <2>2, <2>5, <2>6
<1>6. CASE Return("skipped")
  <2>1. pc' = "done" /\ result' = "skipped"
    BY <1>6 DEF Return
  <2>2. IInv'
    BY <1>1, <1>2, <1>4, <2>1, BreakingOff
  <2> QED
    BY <1>4, <2>2
<1> QED
  BY <1>5, <1>6 DEF Report

LEMMA AllWrittenFits ==
    ASSUME IInv, AllWritten
    PROVE  IInv'
<1> USE DEF IInv
<1>1. /\ pc = "part" /\ pc' = "done" /\ result' = "success" /\ current = Len(parts)
      /\ UNCHANGED <<source, slice, plan, writing, progress>>
      /\ UNCHANGED <<blobs, parts, added, medium, completed, lastPart, reported>>
  BY DEF AllWritten, Return, source, plan, writing, progress
<1>2. PlanType' /\ HeadsFit' /\ PartsFit'
  BY <1>1, SamePlan
<1>3. \A p : IsWhole(p)' = IsWhole(p)
  BY <1>1, SameMedium
<1>4. parts # <<>> /\ added = Len(blobs)
  BY <1>1 DEF PlanType, MediumFits
<1>5. medium' \in Seq(FileRecord)'
  BY <1>1 DEF MediumFits, FileRecord
<1>6. MediumFits'
  BY <1>1, <1>3, <1>4, <1>5 DEF MediumFits, current
<1>7. ProgressFits'
  BY <1>1 DEF ProgressFits
<1> QED
  BY <1>2, <1>6, <1>7

LEMMA BeginPartFits ==
    ASSUME IInv, BeginPart
    PROVE  IInv'
<1> USE DEF IInv
<1>1. /\ pc = "part" /\ current < Len(parts) /\ lastPart' = completed
      /\ left' = SizesOf(parts[current + 1].list) /\ bytes' = 0
      /\ UNCHANGED <<source, slice, plan, completed, reported>>
      /\ UNCHANGED <<metadata, blobs, parts, added>>
  BY DEF BeginPart, source, plan
<1>2. reported \in Nat /\ completed \in Nat /\ result = "none" /\ parts # <<>>
  BY <1>1 DEF ProgressFits, PlanType
<1>3. CASE Return("failure") /\ UNCHANGED medium
  <2>1. pc' = "done" /\ result' = "failure"
    BY <1>3 DEF Return
  <2> QED
    BY <1>1, <1>2, <1>3, <2>1, BreakingOff
<1>4. CASE pc' \in {"report", "write"} /\ result' = result /\ medium' =
             Append(medium, [number |-> current + 1, total |-> Len(parts), list |-> <<>>,
                             metadata |-> <<>>, finished |-> FALSE])
  <2>1. PlanType' /\ HeadsFit' /\ PartsFit'
    BY <1>1, <1>2, <1>4, SamePlan
  <2>2. PICK c \in Nat : c = current /\ DOMAIN medium = 1..c /\ c + 1 \in 1..Len(parts)
    BY <1>1, CurrentTypes
  <2>3. PICK file : file = [number |-> c + 1, total |-> Len(parts), list |-> <<>>,
                            metadata |-> <<>>, finished |-> FALSE]
    OBVIOUS
  <2>4. /\ file \in FileRecord /\ file.number = c + 1 /\ file.total = Len(parts)
        /\ file.list = <<>> /\ file.metadata = <<>>
    <3>1. Len(parts) \in Nat /\ <<>> \in Seq(1..Len(blobs)) /\ <<>> \in Seq(Nat \ {0})
      BY CurrentTypes
    <3> QED
      BY <2>3, <3>1 DEF FileRecord
  <2>5. medium \in Seq(FileRecord)
    BY DEF MediumFits
  <2>6. /\ medium' \in Seq(FileRecord) /\ Len(medium') = c + 1 /\ medium'[c + 1] = file
        /\ \A p \in 1..c : medium'[p] = medium[p]
    <3>1. medium' = Append(medium, file) /\ Len(medium) = c
      BY <1>4, <2>2, <2>3 DEF current
    <3> QED
      BY <2>4, <2>5, <3>1, AppendProperties
  <2>7. current' = c + 1 /\ DOMAIN medium' = 1..(c + 1)
    BY <2>6 DEF current
  <2>8. ASSUME NEW p \in 1..c PROVE IsWhole(p)'
    <3>1. IsWhole(p)
      BY <1>1, <2>2 DEF MediumFits
    <3> QED
      BY <3>1, <2>6, <1>1, SameParts, SameLists DEF IsWhole
  <2>9. \A p \in 1..(c + 1) : medium'[p].number = p /\ medium'[p].total = Len(parts)
    <3>1. \A p \in 1..c : medium[p].number = p /\ medium[p].total = Len(parts)
      BY <2>2 DEF MediumFits
    <3> TAKE p \in 1..(c + 1)
    <3>2. CASE p = c + 1
      BY <3>2, <2>4, <2>6
    <3>3. CASE p # c + 1
      <4>1. p \in 1..c
        BY <3>3
      <4> QED
        BY <4>1, <3>1, <2>6
    <3> QED
      BY <3>2, <3>3
  <2>10. PICK l \in Seq(1..Len(blobs)) : l = parts[c + 1].list
    BY <2>2, CurrentTypes, PartTypes
  <2>11. MediumFits'
    <3>1. medium' \in Seq(FileRecord)'
      BY <1>1, <2>6 DEF FileRecord
    <3>2. added' = Len(blobs') /\ result' # "success"
      BY <1>1, <1>2, <1>4 DEF MediumFits
    <3>3. /\ parts'[current'].list = l /\ medium'[current'].list = <<>>
          /\ medium'[current'].metadata = <<>>
      BY <1>1, <2>4, <2>6, <2>7, <2>10
    <3>4. \A p \in 1..(c + 1) : p < current' => IsWhole(p)'
      BY <2>7, <2>8
    <3>5. current' <= Len(parts') /\ current' > 0
      BY <1>1, <2>2, <2>7
    <3>6. left' = SizesOf(l)
      BY <1>1, <2>2, <2>10
    <3>7. UnderWay(medium[current].list, parts[current].list, left)'
      <4>1. UnderWay(<<>>, l, SizesOf(l))
        BY NothingDone DEF PlanType
      <4>2. \A m, k, lf : UnderWay(m, k, lf)' = UnderWay(m, k, lf)
        BY <1>1, SameLists
      <4>3. PICK lf : lf = SizesOf(l)
        OBVIOUS
      <4>4. UnderWay(<<>>, l, lf)'
        BY <4>1, <4>2, <4>3
      <4> QED
        BY <4>3, <4>4, <3>3, <3>6
    <3>8. bytes' \in Nat /\ bytes' + Total(left)' <= Total(SizesOf(parts[current].list))'
      <4>1. SizesOf(l)' = SizesOf(l)
        BY <1>1 DEF SizesOf
      <4>2. Total(SizesOf(parts[current].list))' = Total(SizesOf(l))
        BY <3>3, <4>1
      <4>3. Total(SizesOf(l)) \in Nat
        BY SizesOfType, TotalType DEF PlanType
      <4> QED
        BY <1>1, <3>6, <4>2, <4>3
    <3> QED
      BY <3>1, <3>2, <3>3, <3>4, <3>5, <3>7, <3>8, <1>1, <1>4, <2>7, <2>9 DEF MediumFits
  <2>12. ProgressFits'
    <3>1. completed = Total(SubSeq(Sizes, 1, c)) /\ reported <= completed
      BY <1>1, <2>2 DEF ProgressFits
    <3>2. Sizes' = Sizes /\ current' - 1 = c
      BY <1>1, <2>7, SameParts
    <3>3. BytesWritten' = completed
      BY <1>1, <1>2 DEF BytesWritten
    <3> QED
      BY <1>1, <1>2, <1>4, <3>1, <3>2, <3>3 DEF ProgressFits
  <2> QED
    BY <2>1, <2>11, <2>12
<1> QED
  BY <1>3, <1>4 DEF BeginPart

(* Another file takes the place of the one under way. *)
LEMMA FileChanges ==
    ASSUME IInv, pc = "write", UNCHANGED <<source, parts>>,
           NEW file \in FileRecord, file.number = medium[current].number,
           file.total = medium[current].total, medium' = [medium EXCEPT ![current] = file]
    PROVE  /\ medium' \in Seq(FileRecord)' /\ current' = current /\ DOMAIN medium' = DOMAIN medium
           /\ medium'[current] = file
           /\ \A p \in DOMAIN medium : p < current => IsWhole(p)'
           /\ \A p \in DOMAIN medium : medium'[p].number = p /\ medium'[p].total = Len(parts)
<1> USE DEF IInv
<1>1. PICK c \in Nat \ {0} : c = current /\ DOMAIN medium = 1..c /\ Len(medium) = c /\ c \in 1..c
  <2>1. current \in Nat \ {0} /\ DOMAIN medium = 1..current
    BY CurrentPart, CurrentTypes
  <2>2. PICK c \in Nat \ {0} : c = current
    BY <2>1
  <2>3. c \in 1..c
    OBVIOUS
  <2>4. Len(medium) = c
    BY <2>2 DEF current
  <2> QED
    BY <2>1, <2>2, <2>3, <2>4
<1>2. medium \in Seq(FileRecord)
  BY DEF MediumFits
<1>3. /\ medium' \in Seq(FileRecord) /\ Len(medium') = c
      /\ \A p \in 1..c : medium'[p] = IF p = c THEN file ELSE medium[p]
  BY <1>1, <1>2, ExceptSeq
<1>4. DOMAIN medium' = 1..c /\ current' = c
  BY <1>3 DEF current
<1>5. FileRecord' = FileRecord
  BY DEF FileRecord, source
<1>6. ASSUME NEW p \in 1..c, p < c PROVE IsWhole(p)'
  <2>1. IsWhole(p)
    BY <1>1, <1>6 DEF MediumFits
  <2>2. medium'[p] = medium[p]
    BY <1>3, <1>6
  <2> QED
    BY <2>1, <2>2, SameParts, SameLists DEF IsWhole
<1>7. ASSUME NEW p \in 1..c PROVE medium'[p].number = p /\ medium'[p].total = Len(parts)
  <2>1. medium[p].number = p /\ medium[p].total = Len(parts)
    BY <1>1 DEF MediumFits
  <2>2. CASE p = c
    BY <2>1, <2>2, <1>1, <1>3
  <2>3. CASE p # c
    BY <2>1, <2>3, <1>3
  <2> QED
    BY <2>2, <2>3
<1> QED
  BY <1>1, <1>3, <1>4, <1>5, <1>6, <1>7

(* What a step that writes has to leave. *)
LEMMA WritingFits ==
    ASSUME IInv, pc = "write", pc' = "report", UNCHANGED <<source, slice, plan, progress, result>>,
           medium' \in Seq(FileRecord)', current' = current, DOMAIN medium' = DOMAIN medium,
           \A p \in DOMAIN medium : p < current => IsWhole(p)',
           \A p \in DOMAIN medium : medium'[p].number = p /\ medium'[p].total = Len(parts),
           medium'[current].metadata = <<>>,
           NEW n, n = medium'[current].list, NEW l, l = parts[current].list,
           NEW lf, lf = left', UnderWay(n, l, lf),
           bytes' \in Nat, bytes' >= bytes, bytes' + Total(lf) <= Total(SizesOf(l))
    PROVE  IInv'
<1> USE DEF IInv
<1>1. UNCHANGED <<blobs, parts, added, completed, lastPart, reported>>
  BY DEF source, plan, progress
<1>2. result = "none" /\ parts # <<>>
  BY DEF PlanType
<1>3. PlanType' /\ HeadsFit' /\ PartsFit'
  BY <1>2, SamePlan
<1>4. UnderWay(medium[current].list, parts[current].list, left)'
  <2>1. UnderWay(n, l, lf)'
    BY SameLists
  <2>2. medium'[current'].list = n /\ parts'[current'].list = l
    BY <1>1
  <2> QED
    BY <2>1, <2>2
<1>5. bytes' + Total(left)' <= Total(SizesOf(parts[current].list))'
  <2>1. SizesOf(l)' = SizesOf(l)
    BY <1>1 DEF SizesOf
  <2>2. parts'[current'].list = l
    BY <1>1
  <2> QED
    BY <2>1, <2>2
<1>6. MediumFits'
  <2>1. current' <= Len(parts') /\ current' > 0 /\ added' = Len(blobs')
    BY <1>1 DEF MediumFits
  <2> QED
    BY <1>1, <1>2, <1>4, <1>5, <2>1 DEF MediumFits
<1>7. ProgressFits'
  <2>1. /\ completed = Total(SubSeq(Sizes, 1, current - 1)) /\ lastPart = completed
        /\ reported <= BytesWritten /\ reported \in Nat /\ completed \in Nat
    BY DEF ProgressFits
  <2>2. Sizes' = Sizes
    BY <1>1, SameParts
  <2>3. BytesWritten \in Nat /\ bytes \in Nat /\ lastPart \in Nat
    BY BytesTypes DEF MediumFits, ProgressFits
  <2>4. reported <= BytesWritten'
    BY <1>1, <2>1, <2>3 DEF BytesWritten
  <2> QED
    BY <1>1, <2>1, <2>2, <2>4 DEF ProgressFits
<1> QED
  BY <1>3, <1>6, <1>7

(* The file of the part has one resource more. *)
LEMMA BlobWrittenFits ==
    ASSUME IInv, pc = "write", UNCHANGED <<source, parts>>, NEW k \in DOMAIN left, IsNext(k),
           BlobWritten(k), NEW lg, lg = [left EXCEPT ![k] = 0]
    PROVE  \E file \in FileRecord :
              /\ medium' = [medium EXCEPT ![current] = file]
              /\ file.number = medium[current].number /\ file.total = medium[current].total
              /\ file.metadata = <<>>
              /\ UnderWay(file.list, parts[current].list, lg)
<1> USE DEF IInv
<1>1. PICK l \in Seq(1..Len(blobs)) : l = parts[current].list
  BY CurrentPart
<1>2. PICK a \in FileRecord : a = medium[current] /\ a.list \in Seq(1..Len(blobs)) /\ a.metadata = <<>>
  <2>1. medium[current].metadata = <<>>
    BY DEF MediumFits
  <2> QED
    BY <2>1, CurrentPart
<1>3. PICK m \in Seq(1..Len(blobs)) : m = a.list
  BY <1>2
<1>4. UnderWay(m, l, left) /\ blobs \in Seq(Nat \ {0})
  BY <1>1, <1>2, <1>3 DEF MediumFits, PlanType
<1>5. left \in Seq(Nat) /\ DOMAIN left = 1..Len(l)
  BY <1>4 DEF UnderWay
<1>6. left[k] > 0 /\ \A j \in 1..Len(l) : left[j] > 0 /\ j # k => Before(l[k], l[j])
  BY <1>1, <1>5 DEF IsNext
<1>7. PICK n : n = Append(m, l[k])
  OBVIOUS
<1>8. UnderWay(n, l, lg) /\ n \in Seq(1..Len(blobs))
  BY <1>4, <1>5, <1>6, <1>7, BlobDone
<1>9. PICK file : file = [a EXCEPT !.list = n]
  OBVIOUS
<1>10. /\ file \in FileRecord /\ file.number = a.number /\ file.total = a.total
       /\ file.list = n /\ file.metadata = a.metadata
  BY <1>8, <1>9 DEF FileRecord
<1>11. medium' = [medium EXCEPT ![current] = file]
  BY <1>1, <1>2, <1>3, <1>7, <1>9 DEF BlobWritten
<1> QED
  BY <1>1, <1>2, <1>8, <1>10, <1>11

(* What a step that writes has before it. *)
LEMMA LeftTypes ==
    ASSUME IInv, pc = "write"
    PROVE  /\ left \in Seq(Nat) /\ DOMAIN left = 1..Len(parts[current].list)
           /\ parts[current].list \in Seq(1..Len(blobs))
           /\ bytes \in Nat /\ bytes + Total(left) <= Total(SizesOf(parts[current].list))
           /\ Total(SizesOf(parts[current].list)) \in Nat
<1>1. /\ left \in Seq(Nat) /\ Len(left) = Len(parts[current].list)
      /\ bytes \in Nat /\ bytes + Total(left) <= Total(SizesOf(parts[current].list))
  BY DEF IInv, MediumFits, UnderWay
<1>2. current \in DOMAIN parts /\ parts[current].list \in Seq(1..Len(blobs))
  BY CurrentPart DEF IInv
<1> QED
  BY <1>1, <1>2, PartTypes DEF IInv

(* The last of a resource is written. *)
LEMMA LastOfBlobFits ==
    ASSUME IInv, pc = "write", pc' = "report",
           UNCHANGED <<source, slice, plan, progress, result>>,
           NEW k \in DOMAIN left, IsNext(k), left' = [left EXCEPT ![k] = 0], BlobWritten(k),
           NEW x \in 0..left[k], bytes' = bytes + x
    PROVE  IInv'
<1>1. UNCHANGED <<source, parts>>
  BY DEF plan
<1>2. PICK lg : lg = [left EXCEPT ![k] = 0] /\ lg = left'
  OBVIOUS
<1>3. PICK file \in FileRecord :
              /\ medium' = [medium EXCEPT ![current] = file]
              /\ file.number = medium[current].number /\ file.total = medium[current].total
              /\ file.metadata = <<>>
              /\ UnderWay(file.list, parts[current].list, lg)
  BY <1>1, <1>2, BlobWrittenFits
<1>4. /\ medium' \in Seq(FileRecord)' /\ current' = current /\ DOMAIN medium' = DOMAIN medium
      /\ medium'[current] = file
      /\ \A p \in DOMAIN medium : p < current => IsWhole(p)'
      /\ \A p \in DOMAIN medium : medium'[p].number = p /\ medium'[p].total = Len(parts)
  BY <1>1, <1>3, FileChanges
<1>5. PICK z \in Nat : z = left[k] /\ k \in 1..Len(left)
  BY LeftTypes
<1>6. PICK t \in Nat : t = Total(lg) /\ Total(left) = t + z
  <2>1. left \in Seq(Nat)
    BY LeftTypes
  <2>2. /\ lg \in Seq(Nat) /\ Len(lg) = Len(left)
        /\ \A j \in 1..Len(left) : lg[j] = IF j = k THEN 0 ELSE left[j]
    BY <1>2, <1>5, <2>1, ExceptSeq
  <2>3. lg[k] = 0 /\ left[k] - lg[k] = z /\ lg[k] <= left[k]
    BY <1>5, <2>2
  <2>4. \A j \in 1..Len(left) : j # k => lg[j] = left[j]
    BY <2>2
  <2>5. Total(left) = Total(lg) + (left[k] - lg[k]) /\ Total(lg) \in Nat
    BY ONLY <1>5, <2>1, <2>2, <2>3, <2>4, LeftShrinks
  <2> QED
    BY <2>3, <2>5
<1>7. /\ bytes' \in Nat /\ bytes' >= bytes
      /\ bytes' + Total(lg) <= Total(SizesOf(parts[current].list))
  <2>1. PICK b \in Nat, w \in Nat : b = bytes /\ w = Total(SizesOf(parts[current].list))
                                    /\ b + (t + z) <= w
    BY <1>6, LeftTypes
  <2>2. bytes' = b + x /\ x \in 0..z
    BY <2>1, <1>5
  <2>3. (b + x) + t <= w /\ b + x \in Nat /\ b + x >= b
    BY ONLY <2>1, <2>2
  <2> QED
    BY <2>1, <2>2, <2>3, <1>6
<1>8. medium'[current].metadata = <<>>
  BY <1>3, <1>4
<1>9. PICK n : n = medium'[current].list
  OBVIOUS
<1>10. PICK l : l = parts[current].list
  OBVIOUS
<1>11. UnderWay(n, l, lg)
  BY <1>3, <1>4, <1>9, <1>10
<1> QED
  BY <1>2, <1>4, <1>7, <1>8, <1>9, <1>10, <1>11, WritingFits

(* A chunk is written, and there are more of its resource. *)
LEMMA ChunkFits ==
    ASSUME IInv, pc = "write", pc' = "report",
           UNCHANGED <<source, slice, plan, progress, result, medium>>,
           NEW k \in DOMAIN left, NEW x \in Nat, NEW y \in Nat \ {0}, left[k] = y + x,
           left' = [left EXCEPT ![k] = y], NEW c \in 0..x, bytes' = bytes + c
    PROVE  IInv'
<1> USE DEF IInv
<1>1. UNCHANGED <<source, parts>> /\ UNCHANGED <<blobs, parts>>
  BY DEF source, plan
<1>2. PICK lg : lg = [left EXCEPT ![k] = y] /\ lg = left'
  OBVIOUS
<1>3. PICK l \in Seq(1..Len(blobs)) : l = parts[current].list
  BY LeftTypes
<1>4. PICK n : n = medium'[current].list
  OBVIOUS
<1>5. UnderWay(n, l, left) /\ k \in 1..Len(l) /\ left[k] > 0 /\ blobs \in Seq(Nat \ {0})
  <2>1. UnderWay(n, l, left)
    BY <1>3, <1>4 DEF MediumFits
  <2>2. k \in 1..Len(l)
    BY <1>3, LeftTypes
  <2>3. left[k] > 0
    <3>1. y + x > 0
      OBVIOUS
    <3> QED
      BY <3>1
  <2> QED
    BY <2>1, <2>2, <2>3 DEF PlanType
<1>6. UnderWay(n, l, lg)
  BY <1>2, <1>5, ChunkDone
<1>7. PICK t \in Nat : t = Total(lg) /\ Total(left) = t + x
  <2>1. left \in Seq(Nat) /\ k \in 1..Len(left) /\ y \in Nat
    BY LeftTypes
  <2>2. /\ lg \in Seq(Nat) /\ Len(lg) = Len(left)
        /\ \A j \in 1..Len(left) : lg[j] = IF j = k THEN y ELSE left[j]
    BY <1>2, <2>1, ExceptSeq
  <2>3. lg[k] = y /\ left[k] - lg[k] = x /\ lg[k] <= left[k]
    BY <2>1, <2>2
  <2>4. \A j \in 1..Len(left) : j # k => lg[j] = left[j]
    BY <2>2
  <2>5. Total(left) = Total(lg) + (left[k] - lg[k]) /\ Total(lg) \in Nat
    BY ONLY <2>1, <2>2, <2>3, <2>4, LeftShrinks
  <2> QED
    BY <2>3, <2>5
<1>8. bytes' \in Nat /\ bytes' >= bytes /\ bytes' + Total(lg) <= Total(SizesOf(l))
  <2>1. PICK b \in Nat, w \in Nat : b = bytes /\ w = Total(SizesOf(l)) /\ b + (t + x) <= w
    BY <1>3, <1>7, LeftTypes
  <2>2. bytes' = b + c
    BY <2>1
  <2>3. (b + c) + t <= w /\ b + c \in Nat /\ b + c >= b
    BY ONLY <2>1, c \in 0..x, x \in Nat, t \in Nat
  <2> QED
    BY <2>1, <2>2, <2>3, <1>7
<1>9. /\ medium' \in Seq(FileRecord)' /\ current' = current /\ medium'[current].metadata = <<>>
      /\ \A p \in DOMAIN medium : medium'[p].number = p /\ medium'[p].total = Len(parts)
  BY <1>1 DEF MediumFits, FileRecord, current
<1>10. \A p \in DOMAIN medium : p < current => IsWhole(p)'
  <2>1. \A p : IsWhole(p)' = IsWhole(p)
    BY <1>1, SameMedium
  <2> QED
    BY <2>1 DEF MediumFits
<1> QED
  BY <1>2, <1>3, <1>4, <1>6, <1>8, <1>9, <1>10, WritingFits

LEMMA WriteFailsFits ==
    ASSUME IInv, pc = "write", UNCHANGED <<source, slice, plan, progress>>, WriteFails
    PROVE  IInv'
<1>1. pc' = "done" /\ result' = "failure" /\ UNCHANGED <<medium, completed, lastPart, reported>>
  BY DEF WriteFails, Return, writing, progress
<1>2. lastPart' \in Nat /\ reported' \in Nat
  BY <1>1 DEF IInv, ProgressFits
<1> QED
  BY <1>1, <1>2, BreakingOff

LEMMA CopyBlobFits ==
    ASSUME IInv, CopyBlob
    PROVE  IInv'
<1>1. pc = "write" /\ UNCHANGED <<source, slice, plan, progress>>
  BY DEF CopyBlob
<1>2. PICK k \in DOMAIN left :
          /\ IsNext(k)
          /\ \/ /\ left' = [left EXCEPT ![k] = 0]
                /\ bytes' = bytes + left[k]
                /\ BlobWritten(k)
                /\ pc' = "report" /\ UNCHANGED result
             \/ WriteFails
  BY DEF CopyBlob
<1>3. CASE WriteFails
  BY <1>1, <1>3, WriteFailsFits
<1>4. CASE /\ left' = [left EXCEPT ![k] = 0] /\ bytes' = bytes + left[k]
           /\ BlobWritten(k) /\ pc' = "report" /\ UNCHANGED result
  <2>1. left[k] \in Nat
    BY <1>1, LeftTypes
  <2>2. left[k] \in 0..left[k]
    BY <2>1
  <2> QED
    BY <1>1, <1>2, <1>4, <2>2, LastOfBlobFits
<1> QED
  BY <1>2, <1>3, <1>4

LEMMA WriteChunkFits ==
    ASSUME IInv, WriteChunk
    PROVE  IInv'
<1>1. pc = "write" /\ UNCHANGED <<source, slice, plan, progress>>
  BY DEF WriteChunk
<1>2. PICK k \in DOMAIN left :
          /\ IsNext(k)
          /\ \/ /\ left' = [left EXCEPT ![k] = @ - ChunkOf(k)]
                /\ \E csize \in 1..ChunkOf(k) : bytes' = bytes + csize
                /\ IF left[k] = ChunkOf(k) THEN BlobWritten(k) ELSE UNCHANGED medium
                /\ pc' = "report" /\ UNCHANGED result
             \/ WriteFails
  BY DEF WriteChunk
<1>3. CASE WriteFails
  BY <1>1, <1>3, WriteFailsFits
<1>4. CASE /\ left' = [left EXCEPT ![k] = @ - ChunkOf(k)]
           /\ \E csize \in 1..ChunkOf(k) : bytes' = bytes + csize
           /\ IF left[k] = ChunkOf(k) THEN BlobWritten(k) ELSE UNCHANGED medium
           /\ pc' = "report" /\ UNCHANGED result
  <2>1. PICK z \in Nat : z = left[k] /\ z > 0
    <3>1. left[k] \in Nat
      BY <1>1, LeftTypes
    <3>2. left[k] > 0
      BY <1>2 DEF IsNext
    <3> QED
      BY <3>1, <3>2
  <2>2. PICK x \in Nat : x = ChunkOf(k) /\ x <= z
    <3>1. PICK s \in Nat : s = ChunkSize
      BY SizesAssumption
    <3> QED
      BY <2>1, <3>1 DEF ChunkOf
  <2>3. PICK c \in 1..x : bytes' = bytes + c
    BY <1>4, <2>2
  <2>4. PICK y \in Nat : y = z - x /\ left' = [left EXCEPT ![k] = y] /\ left[k] = y + x
    <3>1. z - x \in Nat /\ z = (z - x) + x
      BY <2>1, <2>2
    <3>2. left' = [left EXCEPT ![k] = z - x]
      BY <1>4, <2>1, <2>2
    <3> QED
      BY <2>1, <3>1, <3>2
  <2>5. CASE y = 0
    <3>1. left[k] = ChunkOf(k) /\ c \in 0..left[k]
      BY <2>2, <2>4, <2>5
    <3>2. BlobWritten(k)
      BY <1>4, <3>1
    <3>3. left' = [left EXCEPT ![k] = 0]
      BY <2>4, <2>5
    <3> QED
      BY <1>1, <1>2, <1>4, <2>3, <3>1, <3>2, <3>3, LastOfBlobFits
  <2>6. CASE y # 0
    <3>1. left[k] # ChunkOf(k) /\ y \in Nat \ {0} /\ c \in 0..x
      BY <2>2, <2>4, <2>6
    <3>2. UNCHANGED medium
      BY <1>4, <3>1
    <3> QED
      BY <1>1, <1>4, <2>3, <2>4, <3>1, <3>2, ChunkFits
  <2> QED
    BY <2>5, <2>6
<1> QED
  BY <1>2, <1>3, <1>4

LEMMA EndPartFits ==
    ASSUME IInv, EndPart
    PROVE  IInv'
<1> USE DEF IInv
<1>1. /\ pc = "write" /\ \A k \in DOMAIN left : left[k] = 0
      /\ UNCHANGED <<source, slice, plan, left, bytes, reported>>
      /\ UNCHANGED <<metadata, blobs, parts, added>>
  BY DEF EndPart, source, plan
<1>2. reported \in Nat /\ completed \in Nat /\ lastPart \in Nat /\ result = "none" /\ parts # <<>>
  BY <1>1 DEF ProgressFits, PlanType
<1>3. CASE Return("failure") /\ UNCHANGED <<medium, completed, lastPart>>
  <2>1. pc' = "done" /\ result' = "failure"
    BY <1>3 DEF Return
  <2> QED
    BY <1>1, <1>2, <1>3, <2>1, BreakingOff
<1>4. CASE /\ pc' = "part" /\ result' = result
           /\ medium' = [medium EXCEPT ![current].finished = TRUE,
                             ![current].metadata = IF current = 1 THEN metadata ELSE <<>>]
           /\ completed' = completed + parts[current].size
           /\ lastPart' = completed'
  <2>1. PlanType' /\ HeadsFit' /\ PartsFit'
    BY <1>1, <1>2, <1>4, SamePlan
  <2>2. PICK c \in DOMAIN parts : /\ c = current /\ DOMAIN medium = 1..c /\ c \in Nat \ {0}
                                  /\ c \in 1..Len(parts)
    BY <1>1, CurrentPart, CurrentTypes
  <2>3. PICK l \in Seq(1..Len(blobs)) : l = parts[c].list
    BY <2>2, PartTypes
  <2>4. PICK a \in FileRecord : a = medium[c] /\ a.list \in Seq(1..Len(blobs))
    BY <1>1, <2>2, CurrentPart
  <2>5. PICK m \in Seq(1..Len(blobs)) : m = a.list
    BY <2>4
  <2>6. WholeList(m, l)
    <3>1. UnderWay(m, l, left) /\ blobs \in Seq(Nat \ {0})
      BY <1>1, <2>2, <2>3, <2>4, <2>5 DEF MediumFits, PlanType
    <3>2. \A k \in 1..Len(l) : left[k] = 0
      BY <1>1, <2>2, <2>3, LeftTypes
    <3> QED
      BY <3>1, <3>2, AllDone
  <2>7. PICK md \in Seq(Nat \ {0}) : md = MetadataOf(c)
    BY <2>2, PartTypes
  <2>8. PICK file : file = [a EXCEPT !.finished = TRUE, !.metadata = md]
    OBVIOUS
  <2>9. /\ file \in FileRecord /\ file.number = a.number /\ file.total = a.total
        /\ file.list = a.list /\ file.metadata = md /\ file.finished = TRUE
    BY <2>8 DEF FileRecord
  <2>10. medium' = [medium EXCEPT ![c] = file]
    <3>1. medium' = [medium EXCEPT ![c].finished = TRUE, ![c].metadata = md]
      BY <1>4, <2>2, <2>7 DEF MetadataOf
    <3> QED
      BY <3>1, <2>4, <2>8
  <2>11. /\ medium' \in Seq(FileRecord)' /\ current' = current /\ DOMAIN medium' = DOMAIN medium
         /\ medium'[current] = file
         /\ \A p \in DOMAIN medium : p < current => IsWhole(p)'
         /\ \A p \in DOMAIN medium : medium'[p].number = p /\ medium'[p].total = Len(parts)
    <3>1. file.number = medium[current].number /\ file.total = medium[current].total
      BY <2>2, <2>4, <2>9
    <3>2. medium' = [medium EXCEPT ![current] = file]
      BY <2>2, <2>10
    <3> QED
      BY <1>1, <2>9, <3>1, <3>2, FileChanges
  <2>12. ASSUME NEW p \in 1..c PROVE IsWhole(p)'
    <3>1. CASE p = c
      <4>1. MetadataOf(c)' = md
        BY <1>1, <2>7, SameParts
      <4>2. WholeList(m, l)'
        BY <1>1, <2>6, SameLists
      <4>3. medium'[c] = file /\ file.list = m /\ parts'[c].list = l
        BY <1>1, <2>2, <2>3, <2>5, <2>9, <2>11
      <4> QED
        BY <3>1, <4>1, <4>2, <4>3, <2>9 DEF IsWhole
    <3>2. CASE p # c
      <4>1. p < current /\ p \in DOMAIN medium
        BY <2>2, <3>2
      <4> QED
        BY <4>1, <2>11
    <3> QED
      BY <3>1, <3>2
  <2>13. MediumFits'
    <3>1. added' = Len(blobs') /\ result' # "success"
      BY <1>1, <1>2, <1>4 DEF MediumFits
    <3>2. current' <= Len(parts')
      BY <1>1, <2>11 DEF MediumFits
    <3> QED
      BY <3>1, <3>2, <1>1, <1>4, <2>2, <2>11, <2>12 DEF MediumFits
  <2>14. PICK z \in Nat : /\ z = parts[c].size /\ completed' = completed + z
                          /\ Total(SizesOf(l)) \in Nat /\ Total(SizesOf(l)) <= z
    <3>1. /\ parts[c].size \in Nat /\ Total(SizesOf(l)) \in Nat /\ Total(MetadataOf(c)) \in Nat
          /\ Total(InPart(c)) = Total(SizesOf(l)) + Total(MetadataOf(c))
      BY <2>2, <2>3, PartTypes
    <3>2. parts[c].size = Total(InPart(c))
      BY <2>2 DEF PartsFit
    <3> QED
      BY <3>1, <3>2, <1>4, <2>2
  <2>15. ProgressFits'
    <3>1. /\ completed = Total(SubSeq(Sizes, 1, c - 1)) /\ lastPart = completed
          /\ reported <= BytesWritten
      BY <1>1, <2>2 DEF ProgressFits
    <3>2. completed' = Total(SubSeq(Sizes, 1, c))
      <4>1. Sizes \in Seq(Nat) /\ Len(Sizes) = Len(parts) /\ Sizes[c] = z
        BY <2>2, <2>14, SizesTypes
      <4>2. c - 1 \in Nat /\ c - 1 < Len(Sizes) /\ (c - 1) + 1 = c
        BY <2>2, <4>1, CurrentTypes
      <4>3. Total(SubSeq(Sizes, 1, (c - 1) + 1)) = Total(SubSeq(Sizes, 1, c - 1)) + Sizes[(c - 1) + 1]
        BY <4>1, <4>2, TotalOfNext
      <4> QED
        BY <4>1, <4>2, <4>3, <2>14, <3>1
    <3>3. BytesWritten \in Nat /\ BytesWritten <= Total(SizesOf(l)) + lastPart
      BY <1>1, <2>2, <2>3, BytesTypes
    <3>4. reported <= completed + z
      <4>1. PICK x \in Nat : x = Total(SizesOf(l)) /\ x <= z
        BY <2>14
      <4>2. PICK y \in Nat : y = BytesWritten /\ y <= x + lastPart
        BY <3>3, <4>1
      <4>3. reported \in Nat /\ completed \in Nat
        BY <1>2
      <4>4. reported <= y
        BY <3>1, <4>2
      <4>5. y <= x + completed
        BY <3>1, <4>2
      <4> QED
        BY <2>14, <4>1, <4>2, <4>3, <4>4, <4>5
    <3>5. Sizes' = Sizes
      BY <1>1, SameParts
    <3>6. completed' \in Nat /\ reported <= completed'
      BY <1>2, <2>14, <3>4
    <3>7. /\ pc' = "part" /\ completed' = Total(SubSeq(Sizes', 1, current')) /\ reported' = reported
          /\ lastPart' = completed'
      BY <1>1, <1>4, <2>2, <2>11, <3>2, <3>5
    <3> QED
      BY <1>2, <3>6, <3>7 DEF ProgressFits
  <2> QED
    BY <2>1, <2>13, <2>15
<1> QED
  BY <1>3, <1>4 DEF EndPart

(* A step keeps the invariant; only a report changes what is reported. *)
LEMMA NextFits ==
    ASSUME IInv, [Next]_vars
    PROVE  IInv' /\ (Report \/ reported' = reported)
<1>1. CASE Divide
  BY <1>1, DivideFits DEF Divide, progress
<1>2. CASE RefuseSlice
  BY <1>2, RefuseSliceFits DEF RefuseSlice, progress
<1>3. CASE OutOfMemory
  BY <1>3, OutOfMemoryFits DEF OutOfMemory, progress
<1>4. CASE AddMetadata
  BY <1>4, AddMetadataFits DEF AddMetadata, progress
<1>5. CASE AddBlob
  BY <1>5, AddBlobFits DEF AddBlob, progress
<1>6. CASE AllAdded
  BY <1>6, AllAddedFits DEF AllAdded, progress
<1>7. CASE BeginPart
  BY <1>7, BeginPartFits DEF BeginPart
<1>8. CASE Report
  BY <1>8, ReportFits
<1>9. CASE CopyBlob
  BY <1>9, CopyBlobFits DEF CopyBlob, progress
<1>10. CASE WriteChunk
  BY <1>10, WriteChunkFits DEF WriteChunk, progress
<1>11. CASE EndPart
  BY <1>11, EndPartFits DEF EndPart
<1>12. CASE AllWritten
  BY <1>12, AllWrittenFits DEF AllWritten, progress
<1>13. CASE UNCHANGED vars
  <2>1. /\ UNCHANGED <<pc, source, slice, plan, writing, progress, result>>
        /\ UNCHANGED <<fileSize, metadata, blobs, parts, array, heads, added, medium, left, bytes>>
        /\ UNCHANGED <<completed, lastPart, reported>>
    BY <1>13 DEF vars, source, plan, writing, progress
  <2>2. PlanType' /\ HeadsFit' /\ PartsFit'
    <3>1. PartRecord' = PartRecord /\ SliceIsQuotient'
      BY <2>1 DEF PartRecord, IInv, PlanType, SliceIsQuotient
    <3>2. PlanType' /\ HeadsFit'
      BY <2>1, <3>1 DEF IInv, PlanType, HeadsFit
    <3> QED
      BY <2>1, <3>2, SameParts DEF IInv, PartsFit, Increasing
  <2>3. Sizes' = Sizes /\ BytesWritten' = BytesWritten /\ current' = current
    BY <2>1, SameParts DEF BytesWritten, current
  <2>4. MediumFits'
    <3>1. medium' \in Seq(FileRecord)'
      BY <2>1 DEF IInv, MediumFits, FileRecord
    <3>2. \A p : IsWhole(p)' = IsWhole(p)
      BY <2>1, SameMedium
    <3>3. ASSUME pc \in {"report", "write"}
          PROVE  UnderWay(medium[current].list, parts[current].list, left)'
      BY <2>1, <2>3, <3>3, SameLists DEF IInv, MediumFits
    <3>4. SizesOf(parts[current].list)' = SizesOf(parts[current].list)
      BY <2>1, <2>3 DEF SizesOf
    <3> QED
      BY <2>1, <2>3, <3>1, <3>2, <3>3, <3>4 DEF IInv, MediumFits
  <2>5. ProgressFits'
    BY <2>1, <2>3 DEF IInv, ProgressFits
  <2> QED
    BY <2>1, <2>2, <2>4, <2>5 DEF IInv
<1> QED
  BY <1>1, <1>2, <1>3, <1>4, <1>5, <1>6, <1>7, <1>8, <1>9, <1>10, <1>11, <1>12, <1>13 DEF Next

LEMMA InvariantHolds == Spec => []IInv
<1>1. Init => IInv
  BY InitFits
<1>2. IInv /\ [Next]_vars => IInv'
  BY NextFits
<1> QED
  BY <1>1, <1>2, PTL DEF Spec

-----------------------------------------------------------------------------
(* The size of a slice is within what FAT32 allows whatever the size of    *)
(* the source; one of at most 255 times that is cut by the quotient of the *)
(* division, and only a larger one can crash writeWindowsInstall.  Every   *)
(* list stays linked to a head in the array of the parts, and no part is   *)
(* begun that was not planned.                                             *)
THEOREM PlanStaysSound == Spec => []PlanIsSound
<1>1. IInv => PlanIsSound
  <2> SUFFICES ASSUME IInv PROVE PlanIsSound
    OBVIOUS
  <2> USE DEF IInv
  <2>1. /\ pc \in {"divide", "plan", "distribute", "part", "report", "write", "done"}
        /\ result \in {"none", "success", "failure", "skipped", "crashed"}
        /\ slice \in 0..FatMax /\ added \in 0..Len(blobs) /\ SliceIsQuotient
    BY DEF PlanType
  <2>2. DOMAIN heads = DOMAIN parts /\ \A p \in DOMAIN parts : heads[p] = array
    BY DEF HeadsFit
  <2>3. current <= Len(parts)
    BY DEF MediumFits
  <2>4. ASSUME pc \in {"report", "write"}
        PROVE  current > 0 /\ DOMAIN left = DOMAIN parts[current].list
    <3>1. current > 0 /\ parts[current].list \in Seq(1..Len(blobs))
      BY <2>4, CurrentPart DEF MediumFits
    <3>2. left \in Seq(Nat) /\ Len(left) = Len(parts[current].list)
      BY <2>4 DEF MediumFits, UnderWay
    <3> QED
      BY <3>1, <3>2
  <2> QED
    BY <2>1, <2>2, <2>3, <2>4 DEF PlanIsSound, TypeOK, SliceIsQuotient
<1> QED
  BY <1>1, InvariantHolds, PTL

(* A split that succeeds leaves a complete set of parts, in which every    *)
(* file resource is in exactly one part, in the order of writing.          *)
THEOREM SplitIsComplete == Spec => []PartsMakeTheImage
<1>1. IInv => PartsMakeTheImage
  <2> SUFFICES ASSUME IInv, result = "success" PROVE PartsMakeTheImage
    BY DEF PartsMakeTheImage
  <2> USE DEF IInv
  <2>1. /\ added = Len(blobs) /\ current = Len(parts)
        /\ \A p \in DOMAIN medium : IsWhole(p)
        /\ \A p \in DOMAIN medium : medium[p].number = p /\ medium[p].total = Len(parts)
    BY DEF MediumFits
  <2>2. DOMAIN medium = DOMAIN parts /\ DOMAIN medium \subseteq Int /\ Len(medium) = Len(parts)
    BY <2>1, CurrentTypes DEF current
  <2>3. ASSUME NEW p \in DOMAIN medium
        PROVE  /\ WholeList(medium[p].list, parts[p].list)
               /\ medium[p].list \in Seq(1..Len(blobs)) /\ parts[p].list \in Seq(1..Len(blobs))
               /\ DOMAIN medium[p].list = 1..Len(medium[p].list)
               /\ medium[p].metadata = MetadataOf(p) /\ medium[p].finished
    <3>1. medium[p] \in FileRecord
      <4>1. medium \in Seq(FileRecord)
        BY DEF MediumFits
      <4> QED
        BY <4>1
    <3>2. medium[p].list \in Seq(1..Len(blobs))
      BY <3>1 DEF FileRecord
    <3>3. parts[p].list \in Seq(1..Len(blobs))
      BY <2>2, PartTypes
    <3> QED
      BY <2>1, <3>2, <3>3 DEF IsWhole
  <2>4. ASSUME NEW p \in DOMAIN medium
        PROVE  LET sizes == SizesOf(medium[p].list) \o medium[p].metadata IN
               Total(sizes) < slice \/ Len(sizes) = 1 \/ medium[p].list = <<>>
    <3>1. PICK m, l, md : /\ m = medium[p].list /\ l = parts[p].list /\ md = MetadataOf(p)
                          /\ m \in Seq(1..Len(blobs)) /\ l \in Seq(1..Len(blobs))
                          /\ md \in Seq(Nat \ {0}) /\ WholeList(m, l)
      BY <2>2, <2>3, PartTypes
    <3>2. /\ SizesOf(m) \in Seq(Nat \ {0}) /\ Len(SizesOf(m)) = Len(m) /\ SizesOf(m) \in Seq(Nat)
          /\ SizesOf(l) \in Seq(Nat \ {0}) /\ Len(SizesOf(l)) = Len(l)
      BY <3>1, SizesOfType DEF PlanType
    <3>3. /\ Len(SizesOf(m) \o md) = Len(m) + Len(md)
          /\ Len(SizesOf(l) \o md) = Len(l) + Len(md)
      <4>1. PICK u, v \in Seq(Nat \ {0}) : u = SizesOf(m) /\ v = SizesOf(l)
        BY <3>2
      <4>2. Len(u \o md) = Len(u) + Len(md) /\ Len(v \o md) = Len(v) + Len(md)
        <5>1. md \in Seq(Nat \ {0}) /\ u \in Seq(Nat \ {0}) /\ v \in Seq(Nat \ {0})
          BY <3>1
        <5> QED
          BY ONLY <5>1, ConcatProperties
      <4> QED
        BY <3>2, <4>1, <4>2
    <3>4. Total(SizesOf(m) \o md) = Total(SizesOf(l) \o md)
      <4>1. Total(SizesOf(m)) = Total(SizesOf(l))
        BY <3>1 DEF WholeList
      <4>2. md \in Seq(Nat) /\ SizesOf(l) \in Seq(Nat)
        BY <3>1, <3>2
      <4> QED
        BY <4>1, <4>2, <3>2, TotalConcat
    <3>5. /\ parts[p].size = Total(SizesOf(l) \o md)
          /\ parts[p].size < slice \/ Len(SizesOf(l) \o md) = 1 \/ l = <<>>
      BY <2>2, <3>1 DEF PartsFit, InPart
    <3>6. Total(SizesOf(m) \o md) < slice \/ Len(SizesOf(m) \o md) = 1 \/ m = <<>>
      <4>1. l = <<>> => m = <<>>
        BY <3>1, WholeSingle
      <4>2. Len(l) = 1 => Len(m) = 1
        BY <3>1, WholeSingle
      <4>3. Len(l) \in Nat /\ Len(md) \in Nat /\ (Len(l) = 0 => l = <<>>)
        BY <3>1, EmptySeq
      <4>4. CASE parts[p].size < slice
        BY <4>4, <3>4, <3>5
      <4>5. CASE Len(SizesOf(l) \o md) = 1 \/ l = <<>>
        <5>1. l = <<>> \/ (Len(l) = 1 /\ Len(md) = 0)
          BY <4>3, <4>5, <3>3
        <5>2. CASE l = <<>>
          BY <5>2, <4>1
        <5>3. CASE Len(l) = 1 /\ Len(md) = 0
          <6>1. Len(SizesOf(m) \o md) = 1 + 0
            BY <5>3, <4>2, <3>3
          <6> QED
            BY <6>1
        <5> QED
          BY <5>1, <5>2, <5>3
      <4> QED
        BY <4>4, <4>5, <3>5
    <3> QED
      BY <2>3, <3>1, <3>6
  <2>5. ASSUME NEW i \in DOMAIN blobs
        PROVE  \E p \in DOMAIN medium : \E a \in DOMAIN medium[p].list : medium[p].list[a] = i
    <3>1. i \in 1..added
      BY <2>1 DEF PlanType
    <3>2. PICK p \in DOMAIN parts : \E k \in 1..Len(parts[p].list) : parts[p].list[k] = i
      BY <3>1 DEF PartsFit
    <3>3. PICK k \in 1..Len(parts[p].list) : parts[p].list[k] = i
      BY <3>2
    <3>4. /\ \A j \in 1..Len(parts[p].list) : \E a \in 1..Len(medium[p].list) :
                medium[p].list[a] = parts[p].list[j]
          /\ p \in DOMAIN medium /\ DOMAIN medium[p].list = 1..Len(medium[p].list)
      BY <2>2, <2>3 DEF WholeList
    <3>5. PICK a \in 1..Len(medium[p].list) : medium[p].list[a] = parts[p].list[k]
      BY <3>4
    <3> QED
      BY <3>3, <3>4, <3>5
  <2>6. ASSUME NEW p \in DOMAIN medium, NEW q \in DOMAIN medium, p < q,
               NEW a \in DOMAIN medium[p].list, NEW b \in DOMAIN medium[q].list
        PROVE  medium[p].list[a] < medium[q].list[b]
    <3>1. PICK k \in 1..Len(parts[p].list) : medium[p].list[a] = parts[p].list[k]
      BY <2>3 DEF WholeList
    <3>2. PICK j \in 1..Len(parts[q].list) : medium[q].list[b] = parts[q].list[j]
      BY <2>3 DEF WholeList
    <3>3. parts[p].list[k] < parts[q].list[j]
      BY <2>2, <2>6 DEF PartsFit
    <3> QED
      BY <3>1, <3>2, <3>3
  <2>7. ASSUME NEW p \in DOMAIN medium, NEW a \in DOMAIN medium[p].list,
               NEW b \in DOMAIN medium[p].list, a < b
        PROVE  Before(medium[p].list[a], medium[p].list[b])
    BY <2>3, <2>7 DEF WholeList, Ordered
  <2>8. ASSUME NEW p \in DOMAIN medium
        PROVE  /\ medium[p].number = p /\ medium[p].total = Len(medium) /\ medium[p].finished
               /\ medium[p].metadata = IF p = 1 THEN metadata ELSE <<>>
    BY <2>1, <2>2, <2>3 DEF MetadataOf
  <2> QED
    BY <2>4, <2>5, <2>6, <2>7, <2>8 DEF PartsMakeTheImage
<1> QED
  BY <1>1, InvariantHolds, PTL

(* The bytes that are reported over all the parts only grow and stay       *)
(* within the total, also while what is compressed again gets smaller.     *)
THEOREM ProgressGrows == Spec => ProgressOnlyAdvances
<1>1. ASSUME IInv, [Next]_vars
      PROVE  [/\ reported' >= reported
              /\ reported' <= Total([p \in DOMAIN parts |-> parts[p].size])]_vars
  <2>1. CASE UNCHANGED vars
    BY <2>1
  <2>2. CASE Report
    BY <1>1, <2>2, ReportFits DEF Sizes
  <2>3. CASE Next /\ reported' = reported
    <3>1. pc # "done"
      BY <2>3 DEF Next, Divide, RefuseSlice, OutOfMemory, StartsPart, AddMetadata, AddBlob, AllAdded,
                  BeginPart, Report, CopyBlob, WriteChunk, EndPart, AllWritten
    <3>2. reported <= Total(Sizes) /\ reported \in Nat
      BY <1>1, <3>1, ReportedFits DEF IInv, ProgressFits
    <3> QED
      BY <2>3, <3>2 DEF Sizes
  <2> QED
    BY <1>1, <2>1, <2>2, <2>3, NextFits
<1> QED
  BY <1>1, InvariantHolds, PTL DEF Spec, ProgressOnlyAdvances
=============================================================================
