-------------------------- MODULE PacketTimeProofs --------------------------
(***************************************************************************)
(* What operator< and std::min_element give, for every stamp and every     *)
(* container: operator< is a strict weak order on stamps that fill in the  *)
(* same members, and over such an order the scan ends on the first least   *)
(* element.                                                                *)
(***************************************************************************)
EXTENDS PacketTime, WellFoundedInduction, TLAPS

(* A nonempty set of naturals has a least element. *)
LEMMA LeastNatural ==
    ASSUME NEW S \in SUBSET Nat, S # {}
    PROVE  \E m \in S : \A k \in S : m <= k
<1>1. PICK m \in S : \A k \in S : <<k, m>> \notin OpToRel(<, Nat)
  BY NatLessThanWellFounded, WFMin
<1>2. \A k \in S : ~(k < m)
  BY <1>1 DEF OpToRel
<1> QED BY <1>2

(* The ranks number the members 1 to 7, so no two members are compared at once. *)
LEMMA RankProperties ==
    /\ \A f \in Field : Rank[f] \in 1..7
    /\ \A f, g \in Field : Rank[f] = Rank[g] => f = g
BY DEF Field, Rank

(* If any member settles a comparison, one is looked at first. *)
LEMMA FirstDecider ==
    ASSUME NEW a, NEW b, NEW f \in Field, Decides(f, a, b)
    PROVE  \E g \in Field :
              /\ Decides(g, a, b)
              /\ \A h \in Field : Rank[h] < Rank[g] => ~Decides(h, a, b)
<1> DEFINE S == {Rank[g] : g \in {h \in Field : Decides(h, a, b)}}
<1>1. S \in SUBSET Nat /\ Rank[f] \in S
  BY RankProperties
<1>2. PICK m \in S : \A k \in S : m <= k
  BY <1>1, LeastNatural
<1>3. PICK g \in Field : Decides(g, a, b) /\ m = Rank[g]
  BY <1>2
<1>4. ASSUME NEW h \in Field, Rank[h] < Rank[g] PROVE ~Decides(h, a, b)
  <2>1. Rank[h] \notin S
    BY <1>2, <1>3, <1>4, RankProperties
  <2> QED BY <2>1
<1> QED BY <1>3, <1>4

(* A stamp is never before itself, and no two stamps are before each other. *)
LEMMA LessAsymmetric ==
    ASSUME NEW a \in PacketTimes, NEW b \in PacketTimes, Less(a, b)
    PROVE  ~Less(b, a)
<1>1. \A f \in Field : Decides(f, a, b) <=> Decides(f, b, a)
  BY DEF Decides
<1>2. PICK f \in Field : /\ Decides(f, a, b)
                         /\ a[f] < b[f]
                         /\ \A g \in Field : Rank[g] < Rank[f] => ~Decides(g, a, b)
  BY DEF Less
<1>3. SUFFICES ASSUME Less(b, a) PROVE FALSE
  OBVIOUS
<1>4. PICK g \in Field : /\ Decides(g, b, a)
                         /\ b[g] < a[g]
                         /\ \A h \in Field : Rank[h] < Rank[g] => ~Decides(h, b, a)
  BY <1>3 DEF Less
<1>5. f = g
  BY <1>1, <1>2, <1>4, RankProperties
<1> QED BY <1>2, <1>4, <1>5 DEF PacketTimes, Stamp, Missing

-----------------------------------------------------------------------------
(* On stamps of one shape the optional members never get in the way. *)
LEMMA SameShapeDecides ==
    ASSUME NEW a \in PacketTimes, NEW b \in PacketTimes, Shape(a) = Shape(b), NEW f \in Field
    PROVE  Decides(f, a, b) <=> a[f] # b[f]
BY DEF Decides, Shape, Has, PacketTimes, Stamp, Missing

(* Stamps of one shape are ordered transitively. *)
LEMMA LessTransitive ==
    ASSUME NEW a \in PacketTimes, NEW b \in PacketTimes, NEW c \in PacketTimes,
           Shape(a) = Shape(b), Shape(b) = Shape(c), Less(a, b), Less(b, c)
    PROVE  Less(a, c)
<1>1. PICK f \in Field : /\ a[f] # b[f]
                         /\ a[f] < b[f]
                         /\ \A g \in Field : Rank[g] < Rank[f] => a[g] = b[g]
  BY SameShapeDecides DEF Less
<1>2. PICK g \in Field : /\ b[g] # c[g]
                         /\ b[g] < c[g]
                         /\ \A h \in Field : Rank[h] < Rank[g] => b[h] = c[h]
  BY SameShapeDecides DEF Less
<1> DEFINE e == IF Rank[f] < Rank[g] THEN f ELSE g
<1>3. e \in Field /\ a[e] < c[e] /\ a[e] # c[e]
  BY <1>1, <1>2, RankProperties DEF PacketTimes, Stamp, Missing
<1>4. \A h \in Field : Rank[h] < Rank[e] => a[h] = c[h]
  BY <1>1, <1>2, RankProperties
<1> QED BY <1>3, <1>4, SameShapeDecides DEF Less

(* Two stamps of one shape that are not ordered agree on every member. *)
LEMMA LessTotal ==
    ASSUME NEW a \in PacketTimes, NEW b \in PacketTimes, Shape(a) = Shape(b),
           ~Less(a, b), ~Less(b, a)
    PROVE  a = b
<1>1. \A f \in Field : a[f] = b[f]
  <2>1. SUFFICES ASSUME NEW f \in Field, a[f] # b[f] PROVE FALSE
    OBVIOUS
  <2>2. PICK g \in Field : /\ Decides(g, a, b)
                           /\ \A h \in Field : Rank[h] < Rank[g] => ~Decides(h, a, b)
    BY <2>1, SameShapeDecides, FirstDecider
  <2>3. a[g] < b[g] \/ b[g] < a[g]
    BY <2>2 DEF Decides, PacketTimes, Stamp, Missing
  <2>4. \A f2 \in Field : Decides(f2, a, b) <=> Decides(f2, b, a)
    BY DEF Decides
  <2> QED BY <2>2, <2>3, <2>4 DEF Less
<1> QED BY <1>1 DEF PacketTimes

(* Hence "not before" is transitive too: operator< is a strict weak order. *)
THEOREM SameShapeOrdered ==
    ASSUME NEW a \in PacketTimes, NEW b \in PacketTimes, NEW c \in PacketTimes,
           Shape(a) = Shape(b), Shape(b) = Shape(c), ~Less(a, b), ~Less(b, c)
    PROVE  ~Less(a, c)
<1>1. CASE Less(b, a)
  BY <1>1, LessTransitive
<1>2. CASE ~Less(b, a)
  BY <1>2, LessTotal
<1> QED BY <1>1, <1>2

-----------------------------------------------------------------------------
(* The loop of std::min_element, as an equation for the iterators it holds. *)
IsScan(best, t, n) ==
    best = [i \in 0..n |-> IF i = 0 THEN 0 ELSE ScanStep(t, i, best[i - 1])]

(* The loop can be run on any container: the recursion is well defined. *)
LEMMA ScanExists ==
    ASSUME NEW t, NEW n \in Nat
    PROVE  \E best : IsScan(best, t, n)
<1> DEFINE Bad == {k \in Nat : ~ \E best : IsScan(best, t, k)}
<1>1. SUFFICES ASSUME Bad # {} PROVE FALSE
  OBVIOUS
<1>2. PICK m \in Bad : \A k \in Bad : m <= k
  BY <1>1, LeastNatural
<1>3. IsScan([i \in 0..0 |-> 0], t, 0)
  BY DEF IsScan
<1>4. m # 0
  BY <1>3
<1>5. PICK f : IsScan(f, t, m - 1)
  BY <1>2, <1>4
<1> DEFINE g == [i \in 0..m |-> IF i = m THEN ScanStep(t, m, f[m - 1]) ELSE f[i]]
           h == [i \in 0..m |-> IF i = 0 THEN 0 ELSE ScanStep(t, i, g[i - 1])]
<1>6. ASSUME NEW i \in 0..m PROVE g[i] = h[i]
  <2>1. CASE i = 0
    BY <2>1, <1>4, <1>5 DEF IsScan
  <2>2. CASE i = m
    <3>1. h[i] = ScanStep(t, m, g[m - 1])
      BY <2>2, <1>4
    <3>2. g[m - 1] = f[m - 1]
      BY <1>4
    <3> QED BY <3>1, <3>2, <2>2
  <2>3. CASE i # 0 /\ i # m
    <3>1. i \in 1..(m - 1) /\ g[i] = f[i] /\ g[i - 1] = f[i - 1]
      BY <2>3
    <3>2. f[i] = ScanStep(t, i, f[i - 1])
      BY <3>1, <1>5 DEF IsScan
    <3> QED BY <3>1, <3>2
  <2> QED BY <2>1, <2>2, <2>3
<1>7. g = h
  BY <1>6
<1>8. IsScan(g, t, m)
  BY <1>7 DEF IsScan
<1> QED BY <1>2, <1>8

(* In any container, ordered or not, the scan ends on an element if there is one. *)
LEMMA MinElementInDomain ==
    ASSUME NEW n \in Nat, NEW t, DOMAIN t \subseteq 1..n
    PROVE  IF DOMAIN t = {} THEN MinElement(t, n) = 0 ELSE MinElement(t, n) \in DOMAIN t
<1> DEFINE best == CHOOSE best : IsScan(best, t, n)
<1>1. IsScan(best, t, n)
  BY ScanExists
<1>2. MinElement(t, n) = best[n]
  BY DEF MinElement, IsScan
<1> HIDE DEF best
<1> DEFINE Good(k) == IF best[k] = 0 THEN \A i \in 1..k : i \notin DOMAIN t
                                   ELSE best[k] \in DOMAIN t
           Bad == {k \in 0..n : ~Good(k)}
<1>3. ASSUME Bad # {} PROVE FALSE
  <2>0. Bad \in SUBSET Nat
    OBVIOUS
  <2>1. PICK m \in Bad : \A k \in Bad : m <= k
    <3> HIDE DEF Bad
    <3> QED BY <1>3, <2>0, LeastNatural
  <2>2. Good(0)
    BY <1>1 DEF IsScan
  <2>3. m \in 1..n /\ Good(m - 1)
    BY <2>1, <2>2
  <2>4. best[m] = ScanStep(t, m, best[m - 1])
    BY <1>1, <2>3 DEF IsScan
  <2>5. Good(m)
    BY <2>3, <2>4 DEF ScanStep
  <2> QED BY <2>1, <2>5
<1>4. Good(n)
  BY <1>3
<1> QED BY <1>2, <1>4

(* What the loop knows after visiting k, when the stamps are weakly ordered. *)
ScanInv(best, t, k) ==
    \/ best[k] = 0 /\ \A i \in 1..k : i \notin DOMAIN t
    \/ /\ best[k] \in 1..k
       /\ best[k] \in DOMAIN t
       /\ \A i \in DOMAIN t : i <= k =>
              /\ ~Less(t[i], t[best[k]])
              /\ i < best[k] => Less(t[best[k]], t[i])

(***************************************************************************)
(* std::min_element finds the first least element of any container of      *)
(* stamps over which operator< is a strict weak order, end() exactly when  *)
(* the container is empty.  xcast picks the packet to send and the pause   *)
(* to look at with it.                                                     *)
(***************************************************************************)
THEOREM MinElementFirstLeast ==
    ASSUME NEW n \in Nat, NEW D \in SUBSET (1..n), NEW t \in [D -> PacketTimes],
           \A i, j, k \in D : ~Less(t[i], t[j]) /\ ~Less(t[j], t[k]) => ~Less(t[i], t[k])
    PROVE  IF D = {} THEN MinElement(t, n) = 0 ELSE IsFirstLeast(t, MinElement(t, n))
<1> DEFINE best == CHOOSE best : IsScan(best, t, n)
<1>1. IsScan(best, t, n)
  BY ScanExists
<1>2. MinElement(t, n) = best[n]
  BY DEF MinElement, IsScan
<1> HIDE DEF best
<1> DEFINE Bad == {k \in 0..n : ~ScanInv(best, t, k)}
<1>3. ASSUME Bad # {} PROVE FALSE
  <2>0. Bad \in SUBSET Nat
    OBVIOUS
  <2>1. PICK m \in Bad : \A k \in Bad : m <= k
    <3> HIDE DEF Bad
    <3> QED BY <1>3, <2>0, LeastNatural
  <2>2. ScanInv(best, t, 0)
    BY <1>1 DEF IsScan, ScanInv
  <2>3. m \in 1..n /\ ScanInv(best, t, m - 1)
    BY <2>1, <2>2
  <2> DEFINE b == best[m - 1]
  <2>4. best[m] = ScanStep(t, m, b)
    BY <1>1, <2>3 DEF IsScan
  <2> HIDE DEF b
  <2>5. CASE best[m] = b /\ b = 0
    BY <2>1, <2>3, <2>4, <2>5 DEF ScanStep, ScanInv, b
  <2>6. CASE best[m] = b /\ b # 0
    <3>1. \A i \in DOMAIN t : i <= m - 1 \/ i = m \/ m < i
      BY <2>3
    <3>2. m \in DOMAIN t => ~Less(t[m], t[b])
      BY <2>3, <2>4, <2>6, LessAsymmetric DEF ScanStep, ScanInv, b
    <3> QED BY <2>1, <2>3, <2>6, <3>1, <3>2 DEF ScanInv, b
  <2>7. CASE best[m] # b
    <3>1. best[m] = m /\ m \in D /\ (b = 0 \/ Less(t[m], t[b]))
      BY <2>4, <2>7 DEF ScanStep
    <3>2. ASSUME NEW i \in D, i < m PROVE ~Less(t[i], t[m]) /\ Less(t[m], t[i])
      <4>1. b \in D /\ ~Less(t[i], t[b]) /\ Less(t[m], t[b])
        BY <3>1, <3>2, <2>3 DEF ScanInv, b
      <4>2. Less(t[m], t[i])
        BY <3>1, <4>1
      <4> QED BY <3>1, <4>2, LessAsymmetric
    <3>3. ~Less(t[m], t[m])
      BY <3>1, LessAsymmetric
    <3> QED BY <2>1, <2>3, <3>1, <3>2, <3>3 DEF ScanInv
  <2> QED BY <2>5, <2>6, <2>7
<1>4. ScanInv(best, t, n)
  BY <1>3
<1> QED BY <1>2, <1>4 DEF ScanInv, IsFirstLeast
=============================================================================
