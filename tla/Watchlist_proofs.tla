--------------------------- MODULE Watchlist_proofs ---------------------------
(***************************************************************************)
(* Theorems about the list of symbols and about the price band: the list   *)
(* stays within its budget and recovers from failures, the file beside it  *)
(* loses nothing, and what the band lets pass is what can be bought, for   *)
(* any lists, rankings, markets, amounts and limits.                       *)
(***************************************************************************)
EXTENDS Watchlist, PriceBand, FiniteSetTheorems, SequenceTheorems,
        FunctionTheorems, WellFoundedInduction, TLAPS

-----------------------------------------------------------------------------
(* Sequences of any elements, and what the filters leave of them *)

AnySeq(s) == s \in Seq(ToSet(s))

\* A sequence is known by its elements.
LEMMA SequenceFacts ==
    ASSUME NEW s, AnySeq(s)
    PROVE  /\ Len(s) \in Nat /\ DOMAIN s = 1..Len(s)
           /\ s = [i \in 1..Len(s) |-> s[i]]
           /\ \A x : Contains(s, x) <=> x \in ToSet(s)
<1>1. Len(s) \in Nat /\ DOMAIN s = 1..Len(s) /\ s = [i \in 1..Len(s) |-> s[i]]
  BY DEF AnySeq
<1>. QED  BY <1>1 DEF Contains, ToSet

\* A function on 1..n is a sequence of length n.
LEMMA SequenceMade ==
    ASSUME NEW n \in Nat, NEW s, s = [i \in 1..n |-> s[i]]
    PROVE  AnySeq(s) /\ Len(s) = n
<1>. DEFINE S == ToSet(s)
<1>1. DOMAIN s = 1..n
  OBVIOUS
<1>2. \A i \in 1..n : s[i] \in S
  BY <1>1 DEF ToSet
<1>. HIDE DEF S
<1>3. s \in [1..n -> S]
  BY <1>2
<1>4. s \in Seq(S) /\ Len(s) = n
  BY <1>1, <1>3
<1>. QED  BY <1>4 DEF AnySeq, S

\* The members of a sequence are its entries.
LEMMA MembersOfASeq ==
    ASSUME NEW T, NEW s \in Seq(T)
    PROVE  AnySeq(s)
<1>1. Len(s) \in Nat /\ s = [i \in 1..Len(s) |-> s[i]]
  OBVIOUS
<1>. QED  BY <1>1, SequenceMade

\* Two sequences joined.
LEMMA Joined ==
    ASSUME NEW s, AnySeq(s), NEW t, AnySeq(t)
    PROVE  /\ AnySeq(s \o t) /\ Len(s \o t) = Len(s) + Len(t)
           /\ ToSet(s \o t) = ToSet(s) \cup ToSet(t)
<1>. DEFINE S == ToSet(s) \cup ToSet(t)
            m == Len(s)
            n == Len(t)
            q == s \o t
<1>1. s \in Seq(S) /\ t \in Seq(S)
  BY DEF AnySeq
<1>. HIDE DEF S
<1>2. /\ q \in Seq(S) /\ m \in Nat /\ n \in Nat /\ Len(q) = m + n
      /\ \A i \in 1..m : q[i] = s[i]
      /\ \A i \in 1..n : q[m + i] = t[i]
      /\ \A i \in 1..(m + n) : i > m => q[i] = t[i - m]
  BY <1>1
<1>3. DOMAIN q = 1..(m + n) /\ DOMAIN s = 1..m /\ DOMAIN t = 1..n
  BY <1>1, <1>2
<1>4. ToSet(s) \subseteq ToSet(q)
  BY <1>2, <1>3 DEF ToSet
<1>5. ToSet(t) \subseteq ToSet(q)
  <2>. SUFFICES ASSUME NEW i \in 1..n PROVE t[i] \in ToSet(q)
    BY <1>3 DEF ToSet
  <2>1. q[m + i] = t[i] /\ m + i \in 1..(m + n)
    BY <1>2
  <2>. QED  BY <1>3, <2>1 DEF ToSet
<1>6. ToSet(q) \subseteq ToSet(s) \cup ToSet(t)
  <2>. SUFFICES ASSUME NEW i \in 1..(m + n) PROVE q[i] \in ToSet(s) \cup ToSet(t)
    BY <1>3 DEF ToSet
  <2>1. CASE i <= m
    BY <1>2, <1>3, <2>1 DEF ToSet
  <2>2. CASE i > m
    <3>1. q[i] = t[i - m] /\ i - m \in 1..n
      BY <1>2, <2>2
    <3>. QED  BY <1>3, <3>1 DEF ToSet
  <2>. QED  BY <1>2, <2>1, <2>2
<1>. QED  BY <1>2, <1>4, <1>5, <1>6, MembersOfASeq

\* The first n elements.
LEMMA FirstOfThem ==
    ASSUME NEW n \in Nat, NEW s, AnySeq(s)
    PROVE  /\ AnySeq(First(n, s)) /\ Len(First(n, s)) <= n
           /\ Len(First(n, s)) < n => First(n, s) = s
           /\ ToSet(First(n, s)) \subseteq ToSet(s)
<1>. DEFINE S == ToSet(s)
            k == IF n < Len(s) THEN n ELSE Len(s)
            q == First(n, s)
<1>1. s \in Seq(S) /\ Len(s) \in Nat /\ DOMAIN s = 1..Len(s)
  BY DEF AnySeq
<1>. HIDE DEF S
<1>2. k \in 0..Len(s) /\ k <= n /\ (k < n => k = Len(s))
  <2>. DEFINE l == Len(s)
  <2>. HIDE DEF l
  <2>1. n \in Nat /\ l \in Nat /\ k = IF n < l THEN n ELSE l
    BY <1>1 DEF l
  <2>. HIDE DEF k
  <2>2. k \in 0..l /\ k <= n /\ (k < n => k = l)
    BY <2>1
  <2>. QED  BY <2>2 DEF l
<1>3. q = SubSeq(s, 1, k)
  BY DEF First
<1>. HIDE DEF k
<1>4. q = [i \in 1..k |-> s[i]]
  <2>1. SubSeq(s, 1, k) = [i \in 1..(k - 1 + 1) |-> s[i + 1 - 1]]
    BY <1>2
  <2>2. k \in Int /\ (k - 1) + 1 = k
    BY <1>2
  <2>. QED  BY <1>2, <1>3, <2>1, <2>2
<1>5. AnySeq(q) /\ Len(q) = k
  <2>1. q = [i \in 1..k |-> q[i]] /\ k \in Nat
    BY <1>2, <1>4
  <2>. HIDE DEF q
  <2>. QED  BY <2>1, SequenceMade
<1>6. k < n => q = s
  BY <1>1, <1>2, <1>4
<1>7. ToSet(q) \subseteq ToSet(s)
  <2>1. 1..k \subseteq DOMAIN s
    <3>. DEFINE l == Len(s)
    <3>1. DOMAIN s = 1..l /\ l \in Nat /\ k \in 0..l
      BY <1>1, <1>2
    <3>. HIDE DEF l
    <3>2. 1..k \subseteq 1..l
      BY <3>1
    <3>. QED  BY <3>1, <3>2
  <2>2. DOMAIN q = 1..k /\ (\A i \in 1..k : q[i] = s[i])
    BY <1>4
  <2>. HIDE DEF q
  <2>. QED  BY <2>1, <2>2 DEF ToSet
<1>. QED  BY <1>2, <1>5, <1>6, <1>7

\* The last n elements.
LEMMA LastOfThem ==
    ASSUME NEW n \in Nat \ {0}, NEW s, AnySeq(s)
    PROVE  /\ AnySeq(LastOf(n, s)) /\ Len(LastOf(n, s)) <= n
           /\ \E d \in Nat : /\ Len(LastOf(n, s)) + d = Len(s)
                             /\ \A i \in 1..Len(LastOf(n, s)) : LastOf(n, s)[i] = s[i + d]
<1>. DEFINE S == ToSet(s)
            d == IF n < Len(s) THEN Len(s) - n ELSE 0
            q == LastOf(n, s)
<1>1. s \in Seq(S) /\ Len(s) \in Nat /\ DOMAIN s = 1..Len(s)
  BY DEF AnySeq
<1>. HIDE DEF S
<1>2. d \in 0..Len(s) /\ Len(s) - d <= n
  BY <1>1
<1>3. q = SubSeq(s, d + 1, Len(s))
  BY <1>1 DEF LastOf
<1>. HIDE DEF d
<1>4. q = [i \in 1..(Len(s) - d) |-> s[i + d]]
  BY <1>1, <1>2, <1>3
<1>5. AnySeq(q) /\ Len(q) = Len(s) - d
  <2>1. q = [i \in 1..(Len(s) - d) |-> q[i]] /\ Len(s) - d \in Nat
    BY <1>1, <1>2, <1>4
  <2>. HIDE DEF q
  <2>. QED  BY <2>1, SequenceMade
<1>6. Len(q) + d = Len(s) /\ (\A i \in 1..Len(q) : q[i] = s[i + d])
  BY <1>1, <1>2, <1>4, <1>5
<1>. QED  BY <1>1, <1>2, <1>5, <1>6

\* A non-empty set of naturals has a least element.
LEMMA LeastIndex ==
    ASSUME NEW T \in SUBSET Nat, T # {}
    PROVE  \E n \in T : \A m \in T : n <= m
<1>1. PICK n \in T : \A m \in T : ~(<<m, n>> \in OpToRel(<, Nat))
  BY NatLessThanWellFounded, WFMin
<1>2. ASSUME NEW m \in T, m < n PROVE FALSE
  <2>1. <<m, n>> \in OpToRel(<, Nat)
    BY <1>2 DEF OpToRel
  <2>. QED  BY <1>1, <2>1
<1>. QED  BY <1>2

\* The place of an index among the chosen ones.
Place(D, j) == Cardinality({k \in D : k <= j})

\* The chosen indices take the places 1, 2, ... in their order.
LEMMA PlacesAreTaken ==
    ASSUME NEW n \in Nat, NEW D \in SUBSET (1..n)
    PROVE  /\ IsFiniteSet(D) /\ Cardinality(D) \in Nat
           /\ \A j \in D : Place(D, j) \in 1..Cardinality(D)
           /\ \A j, k \in D : j < k => Place(D, j) < Place(D, k)
           /\ \A i \in 1..Cardinality(D) : \E j \in D : Place(D, j) = i
<1>1. IsFiniteSet(1..n)
  BY FS_Interval
<1>2. IsFiniteSet(D) /\ Cardinality(D) \in Nat
  BY <1>1, FS_Subset, FS_CardinalityType
<1>. DEFINE Upto(j) == {k \in D : k <= j}
<1>3. \A j \in D : /\ IsFiniteSet(Upto(j)) /\ Cardinality(Upto(j)) \in Nat \ {0}
                   /\ Cardinality(Upto(j)) <= Cardinality(D)
  <2>. SUFFICES ASSUME NEW j \in D
                PROVE  /\ IsFiniteSet(Upto(j)) /\ Cardinality(Upto(j)) \in Nat \ {0}
                       /\ Cardinality(Upto(j)) <= Cardinality(D)
    OBVIOUS
  <2>1. Upto(j) \in SUBSET D /\ j \in Upto(j)
    OBVIOUS
  <2>. HIDE DEF Upto
  <2>2. /\ IsFiniteSet(Upto(j)) /\ Cardinality(Upto(j)) \in Nat
        /\ Cardinality(Upto(j)) <= Cardinality(D)
    BY <1>2, <2>1, FS_Subset, FS_CardinalityType
  <2>3. Cardinality(Upto(j)) # 0
    BY <2>1, <2>2, FS_EmptySet
  <2>. QED  BY <2>2, <2>3
<1>4. \A j, k \in D : j < k => Cardinality(Upto(j)) < Cardinality(Upto(k))
  <2>. SUFFICES ASSUME NEW j \in D, NEW k \in D, j < k
                PROVE  Cardinality(Upto(j)) < Cardinality(Upto(k))
    OBVIOUS
  <2>1. Upto(j) \in SUBSET Upto(k) /\ k \in Upto(k) /\ k \notin Upto(j)
    <3>1. j \in Int /\ k \in Int /\ (\A x \in D : x \in Int)
      OBVIOUS
    <3>2. k <= k /\ ~(k <= j) /\ (\A x \in D : x <= j => x <= k)
      BY <3>1
    <3>. QED  BY <3>2
  <2>. HIDE DEF Upto
  <2>2. /\ Cardinality(Upto(j)) <= Cardinality(Upto(k))
        /\ Cardinality(Upto(j)) # Cardinality(Upto(k))
    BY <1>3, <2>1, FS_Subset
  <2>. QED  BY <1>3, <2>2
<1>5. \A i \in 1..Cardinality(D) : \E j \in D : Cardinality(Upto(j)) = i
  <2>. DEFINE f == [j \in D |-> Cardinality(Upto(j))]
              I == 1..Cardinality(D)
  <2>1. \A j \in D : f[j] \in I
    BY <1>2, <1>3
  <2>2. \A j, k \in D : f[j] = f[k] => j = k
    <3>. SUFFICES ASSUME NEW j \in D, NEW k \in D, j < k PROVE f[j] # f[k]
      OBVIOUS
    <3>1. Cardinality(Upto(j)) < Cardinality(Upto(k))
      BY <1>4
    <3>2. Cardinality(Upto(j)) \in Nat /\ Cardinality(Upto(k)) \in Nat
      BY <1>3
    <3>. HIDE DEF Upto
    <3>. QED  BY <3>1, <3>2
  <2>3. f \in Injection(D, I)
    <3>1. f \in [D -> I]
      BY <2>1
    <3>. HIDE DEF f, I
    <3>2. \A j, k \in D : f[j] = f[k] => j = k
      BY <2>2 DEF f
    <3>. QED  BY <3>1, <3>2, Fun_IsInj
  <2>4. IsFiniteSet(I) /\ Cardinality(I) = Cardinality(D)
    BY <1>2, FS_Interval
  <2>5. f \in Surjection(D, I)
    <3>. HIDE DEF f, I
    <3>. QED  BY <2>3, <2>4, FS_Injection
  <2>6. \A i \in I : \E j \in D : f[j] = i
    BY <2>5 DEF Surjection
  <2>. QED  BY <2>6
<1>6. \A j \in D : Place(D, j) = Cardinality(Upto(j))
  BY DEF Place
<1>7. \A j \in D : Cardinality(Upto(j)) \in 1..Cardinality(D)
  BY <1>2, <1>3
<1>. HIDE DEF Upto
<1>. QED  BY <1>2, <1>4, <1>5, <1>6, <1>7

\* What is picked from a sequence is what stands at the indices, in order.
LEMMA PickedInOrder ==
    ASSUME NEW s, AnySeq(s), NEW D \in SUBSET DOMAIN s
    PROVE  /\ AnySeq(Picked(s, D)) /\ Len(Picked(s, D)) <= Len(s)
           /\ ToSet(Picked(s, D)) = {s[j] : j \in D}
           /\ \A a, b \in 1..Len(Picked(s, D)) : a < b =>
                  \E j, k \in D : /\ j < k /\ Picked(s, D)[a] = s[j]
                                  /\ Picked(s, D)[b] = s[k]
<1>. DEFINE n == Cardinality(D)
            at == [i \in 1..n |-> CHOOSE j \in D : Cardinality({k \in D : k <= j}) = i]
            q == Picked(s, D)
<1>1. Len(s) \in Nat /\ D \in SUBSET (1..Len(s))
  BY SequenceFacts
<1>2. /\ n \in Nat
      /\ \A j \in D : Place(D, j) \in 1..n
      /\ \A j, k \in D : j < k => Place(D, j) < Place(D, k)
      /\ \A i \in 1..n : \E j \in D : Place(D, j) = i
  <2>. DEFINE l == Len(s)
  <2>1. l \in Nat /\ D \in SUBSET (1..l)
    BY <1>1
  <2>. HIDE DEF l
  <2>. QED  BY <2>1, PlacesAreTaken
<1>3. n <= Len(s)
  <2>. DEFINE l == Len(s)
  <2>1. l \in Nat /\ D \in SUBSET (1..l)
    BY <1>1
  <2>. HIDE DEF l
  <2>2. IsFiniteSet(1..l) /\ Cardinality(1..l) = l
    BY <2>1, FS_Interval
  <2>3. n <= l
    BY <2>1, <2>2, FS_Subset
  <2>. QED  BY <2>3 DEF l
<1>4. \A i \in 1..n : at[i] \in D /\ Place(D, at[i]) = i
  BY <1>2 DEF Place
<1>5. q = [i \in 1..n |-> s[at[i]]]
  BY DEF Picked
<1>. HIDE DEF q, at, n
<1>6. AnySeq(q) /\ Len(q) = n
  <2>1. q = [i \in 1..n |-> q[i]]
    BY <1>5
  <2>. QED  BY <1>2, <2>1, SequenceMade
<1>7. \A i \in 1..n : q[i] = s[at[i]]
  BY <1>5
<1>8. \A j \in D : j \in Int /\ Place(D, j) \in Int
  BY <1>1, <1>2
<1>9. \A j \in D : at[Place(D, j)] = j
  <2>. SUFFICES ASSUME NEW j \in D PROVE at[Place(D, j)] = j
    OBVIOUS
  <2>. DEFINE k == at[Place(D, j)]
  <2>1. k \in D /\ Place(D, k) = Place(D, j)
    BY <1>2, <1>4
  <2>. HIDE DEF k
  <2>2. ~(j < k) /\ ~(k < j)
    BY <1>2, <1>8, <2>1
  <2>3. j \in Int /\ k \in Int
    BY <1>8, <2>1
  <2>4. k = j
    BY <2>2, <2>3
  <2>. QED  BY <2>4 DEF k
<1>10. \A a, b \in 1..n : a < b => at[a] < at[b]
  <2>. SUFFICES ASSUME NEW a \in 1..n, NEW b \in 1..n, a < b PROVE at[a] < at[b]
    OBVIOUS
  <2>. DEFINE j == at[a]
              k == at[b]
  <2>1. j \in D /\ k \in D /\ Place(D, j) = a /\ Place(D, k) = b
    BY <1>4
  <2>. HIDE DEF j, k
  <2>2. j # k /\ ~(k < j)
    BY <1>2, <1>8, <2>1
  <2>3. j \in Int /\ k \in Int
    BY <1>8, <2>1
  <2>4. j < k
    BY <2>2, <2>3
  <2>. QED  BY <2>4 DEF j, k
<1>11. ToSet(q) = {s[j] : j \in D}
  <2>1. DOMAIN q = 1..n
    BY <1>5
  <2>2. ToSet(q) \subseteq {s[j] : j \in D}
    BY <1>4, <1>7, <2>1 DEF ToSet
  <2>3. ASSUME NEW j \in D PROVE s[j] \in ToSet(q)
    <3>1. Place(D, j) \in 1..n /\ q[Place(D, j)] = s[j]
      BY <1>2, <1>7, <1>9
    <3>. QED  BY <2>1, <3>1 DEF ToSet
  <2>. QED  BY <2>2, <2>3
<1>12. \A a, b \in 1..n : a < b =>
           \E j, k \in D : j < k /\ q[a] = s[j] /\ q[b] = s[k]
  BY <1>4, <1>7, <1>10
<1>13. Len(q) <= Len(s)
  BY <1>3, <1>6
<1>. QED  BY <1>6, <1>11, <1>12, <1>13 DEF q

\* dict.fromkeys loses no symbol.
LEMMA DistinctKeepsAll ==
    ASSUME NEW s, AnySeq(s)
    PROVE  AnySeq(Distinct(s)) /\ ToSet(Distinct(s)) = ToSet(s)
<1>. DEFINE D == {i \in DOMAIN s : \A j \in 1..(i - 1) : s[j] # s[i]}
<1>1. Distinct(s) = Picked(s, D) /\ D \in SUBSET DOMAIN s
  BY DEF Distinct
<1>2. \A i \in DOMAIN s : \E j \in D : s[j] = s[i]
  <2>. SUFFICES ASSUME NEW i \in DOMAIN s PROVE \E j \in D : s[j] = s[i]
    OBVIOUS
  <2>. DEFINE T == {j \in DOMAIN s : s[j] = s[i]}
              l == Len(s)
  <2>1. DOMAIN s = 1..l /\ l \in Nat
    BY SequenceFacts
  <2>. HIDE DEF l
  <2>2. PICK n \in T : \A m \in T : n <= m
    <3>1. T \in SUBSET Nat /\ T # {}
      BY <2>1
    <3>. HIDE DEF T
    <3>. QED  BY <3>1, LeastIndex
  <2>3. n \in DOMAIN s /\ s[n] = s[i] /\ n \in 1..l
    BY <2>1, <2>2
  <2>4. ASSUME NEW j \in 1..(n - 1), s[j] = s[n] PROVE FALSE
    <3>1. j \in 1..l /\ j < n /\ j \in Int /\ n \in Int
      BY <2>1, <2>3
    <3>2. j \in T
      BY <2>1, <2>3, <2>4, <3>1
    <3>3. n <= j
      BY <2>2, <3>2
    <3>. QED  BY <3>1, <3>3
  <2>5. n \in D
    BY <2>3, <2>4
  <2>. QED  BY <2>3, <2>5
<1>. HIDE DEF D
<1>3. AnySeq(Picked(s, D)) /\ ToSet(Picked(s, D)) = {s[j] : j \in D}
  BY <1>1, PickedInOrder
<1>4. {s[j] : j \in D} = ToSet(s)
  BY <1>1, <1>2 DEF ToSet
<1>. QED  BY <1>1, <1>3, <1>4

\* The band keeps what is tradeable, adds nothing and loses no order.
LEMMA BandKeepsTradeable ==
    ASSUME NEW w, NEW banded \in BOOLEAN, NEW s, AnySeq(s)
    PROVE  /\ AnySeq(InBand(w, banded, s)) /\ Len(InBand(w, banded, s)) <= Len(s)
           /\ ToSet(InBand(w, banded, s)) \subseteq ToSet(s)
           /\ \A x \in ToSet(s) : w[x] = "ok" => x \in ToSet(InBand(w, banded, s))
<1>. DEFINE D == {i \in DOMAIN s : w[s[i]] \in {"ok", "down", "short"}}
<1>1. InBand(w, banded, s) = IF banded THEN Picked(s, D) ELSE s
  BY DEF InBand
<1>2. D \in SUBSET DOMAIN s
  OBVIOUS
<1>3. \A i \in DOMAIN s : w[s[i]] = "ok" => i \in D
  OBVIOUS
<1>. HIDE DEF D
<1>4. /\ AnySeq(Picked(s, D)) /\ Len(Picked(s, D)) <= Len(s)
      /\ ToSet(Picked(s, D)) = {s[j] : j \in D}
  BY <1>2, PickedInOrder
<1>5. ToSet(Picked(s, D)) \subseteq ToSet(s)
  BY <1>2, <1>4 DEF ToSet
<1>6. \A x \in ToSet(s) : w[x] = "ok" => x \in ToSet(Picked(s, D))
  BY <1>3, <1>4 DEF ToSet
<1>7. Len(s) \in Nat
  BY SequenceFacts
<1>. QED  BY <1>1, <1>4, <1>5, <1>6, <1>7

-----------------------------------------------------------------------------
(* The helpers of the list *)

\* The configured lists are sequences, and the slots are numbers.
LEMMA ListsAreSequences ==
    /\ AnySeq(Fixed) /\ AnySeq(Growth) /\ AnySeq(Candidates)
    /\ Slots \in Nat /\ GrowthSlots \in Nat /\ GrowthSlots <= Slots
<1>1. Fixed \in Seq(ListSymbols) /\ Growth \in Seq(ListSymbols)
      /\ Candidates \in Seq(ListSymbols)
  BY WatchlistAssumption DEF WatchlistAssumption
<1>2. Slots \in Nat /\ GrowthSlots \in 0..Slots
  BY WatchlistAssumption DEF WatchlistAssumption
<1>. QED  BY <1>1, <1>2, MembersOfASeq

\* The growth symbols leave the rest of the slots to the others.
LEMMA GrowthLeavesRoom ==
    ASSUME NEW w, NEW banded \in BOOLEAN
    PROVE  /\ AnySeq(GrowthWatchlist(w, banded))
           /\ Len(GrowthWatchlist(w, banded)) \in Nat
           /\ Slots - Len(GrowthWatchlist(w, banded)) \in Nat
<1>. DEFINE g == GrowthWatchlist(w, banded)
<1>1. g = First(GrowthSlots, InBand(w, banded, Growth))
  BY DEF GrowthWatchlist
<1>2. AnySeq(InBand(w, banded, Growth))
  BY ListsAreSequences, BandKeepsTradeable
<1>. HIDE DEF g
<1>3. AnySeq(g) /\ Len(g) <= GrowthSlots
  BY <1>1, <1>2, ListsAreSequences, FirstOfThem
<1>4. Len(g) \in Nat
  BY <1>3, SequenceFacts
<1>5. Slots - Len(g) \in Nat
  BY <1>3, <1>4, ListsAreSequences
<1>. QED  BY <1>3, <1>4, <1>5 DEF g

\* What fills the slots that are left, and the growth symbols behind it.
LEMMA ListFitsSlots ==
    ASSUME NEW w, NEW banded \in BOOLEAN, NEW s, AnySeq(s)
    PROVE  LET growth == GrowthWatchlist(w, banded)
               cut == First(Slots - Len(growth), s)
               list == cut \o growth
           IN  /\ AnySeq(list) /\ Len(list) <= Slots
               /\ Len(list) < Slots => ToSet(s) \subseteq ToSet(list)
<1>. DEFINE growth == GrowthWatchlist(w, banded)
            cut == First(Slots - Len(growth), s)
            list == cut \o growth
<1>1. /\ AnySeq(growth) /\ Len(growth) \in Nat /\ Slots - Len(growth) \in Nat
      /\ Slots \in Nat
  BY GrowthLeavesRoom, ListsAreSequences
<1>2. /\ AnySeq(cut) /\ Len(cut) <= Slots - Len(growth)
      /\ Len(cut) < Slots - Len(growth) => cut = s
  <2>. HIDE DEF growth
  <2>. QED  BY <1>1, FirstOfThem
<1>. HIDE DEF growth, cut
<1>3. /\ AnySeq(list) /\ Len(list) = Len(cut) + Len(growth)
      /\ ToSet(list) = ToSet(cut) \cup ToSet(growth)
  BY <1>1, <1>2, Joined
<1>4. Len(cut) \in Nat
  BY <1>2, SequenceFacts
<1>. HIDE DEF list
<1>5. Len(list) <= Slots
  BY <1>1, <1>2, <1>3, <1>4
<1>6. Len(list) < Slots => cut = s
  BY <1>1, <1>2, <1>3, <1>4
<1>. QED  BY <1>3, <1>5, <1>6 DEF list, cut, growth

\* What passes the screening is a sequence.
LEMMA ScreenedIsASeq ==
    ASSUME NEW pe, DOMAIN pe = DOMAIN Candidates
    PROVE  AnySeq(Screened(pe))
<1>. DEFINE GivenUp(i) == \E j \in 1..(i - MaxPEFailures) :
                            \A k \in j..(j + MaxPEFailures - 1) : pe[k] = "fails"
            D == {i \in DOMAIN pe : /\ pe[i] = "low" /\ ~GivenUp(i)
                                    /\ world'[Candidates[i]] \in {"ok", "short"}}
<1>1. Screened(pe) = Picked(Candidates, D)
  BY DEF Screened
<1>2. D \in SUBSET DOMAIN Candidates
  OBVIOUS
<1>. HIDE DEF D
<1>. QED  BY <1>1, <1>2, ListsAreSequences, PickedInOrder

\* Sorting a finite set by a total order without circles leaves no place empty:
\* the members have different numbers of others ahead of them.
LEMMA RankedMembers ==
    ASSUME NEW S, IsFiniteSet(S), NEW ahead \in [S -> SUBSET S],
           \A s \in S : s \notin ahead[s],
           \A s, t \in S : s # t => \/ s \in ahead[t] /\ ahead[s] \subseteq ahead[t]
                                    \/ t \in ahead[s] /\ ahead[t] \subseteq ahead[s]
    PROVE  \A i \in 1..Cardinality(S) : Ranked(S, ahead)[i] \in S
<1>. DEFINE n == Cardinality(S)
            f == [s \in S |-> Cardinality(ahead[s])]
<1>1. n \in Nat
  BY FS_CardinalityType
<1>2. \A s \in S : IsFiniteSet(ahead[s]) /\ f[s] \in Nat /\ f[s] < n
  <2>. SUFFICES ASSUME NEW s \in S
                PROVE  IsFiniteSet(ahead[s]) /\ f[s] \in Nat /\ f[s] < n
    OBVIOUS
  <2>1. ahead[s] \in SUBSET S /\ ahead[s] # S
    OBVIOUS
  <2>2. /\ IsFiniteSet(ahead[s]) /\ Cardinality(ahead[s]) <= n
        /\ n # Cardinality(ahead[s])
    BY <2>1, FS_Subset
  <2>3. Cardinality(ahead[s]) \in Nat
    BY <2>2, FS_CardinalityType
  <2>. QED  BY <1>1, <2>2, <2>3
<1>3. \A s, t \in S : s \in ahead[t] /\ ahead[s] \subseteq ahead[t] => f[s] # f[t]
  <2>. SUFFICES ASSUME NEW s \in S, NEW t \in S, s \in ahead[t], ahead[s] \subseteq ahead[t]
                PROVE  f[s] # f[t]
    OBVIOUS
  <2>1. ahead[s] # ahead[t] /\ IsFiniteSet(ahead[t])
    BY <1>2
  <2>2. Cardinality(ahead[t]) # Cardinality(ahead[s])
    BY <2>1, FS_Subset
  <2>. QED  BY <2>2
<1>4. \A s, t \in S : s # t => f[s] # f[t]
  BY <1>3
<1>5. ASSUME NEW i \in 1..n PROVE \E s \in S : f[s] = i - 1
  <2>. SUFFICES ASSUME \A s \in S : f[s] # i - 1 PROVE FALSE
    OBVIOUS
  <2>. DEFINE T == (0..(n - 1)) \ {i - 1}
  <2>1. IsFiniteSet(0..(n - 1)) /\ Cardinality(0..(n - 1)) = n
    <3>. HIDE DEF n
    <3>1. 0 \in Int /\ n - 1 \in Int /\ ~(0 > n - 1) /\ n - 1 - 0 + 1 = n
      BY <1>1
    <3>. QED  BY <3>1, FS_Interval
  <2>2. i - 1 \in 0..(n - 1)
    BY <1>1
  <2>3. IsFiniteSet(T) /\ Cardinality(T) = n - 1
    <3>. DEFINE I == 0..(n - 1)
                x == i - 1
    <3>1. IsFiniteSet(I) /\ Cardinality(I) = n /\ x \in I
      BY <2>1, <2>2
    <3>. HIDE DEF I, x
    <3>2. IsFiniteSet(I \ {x}) /\ Cardinality(I \ {x}) = n - 1
      BY <3>1, FS_RemoveElement
    <3>. QED  BY <3>2 DEF I, x
  <2>4. f \in [S -> T]
    <3>1. \A s \in S : f[s] \in T
      BY <1>1, <1>2
    <3>. QED  BY <3>1
  <2>5. Cardinality(T) < n
    BY <1>1, <2>3
  <2>. HIDE DEF f, T
  <2>6. \E x, y \in S : x # y /\ f[x] = f[y]
    BY <2>3, <2>4, <2>5, FS_PigeonHole
  <2>. QED  BY <1>4, <2>6
<1>6. ASSUME NEW i \in 1..n PROVE Ranked(S, ahead)[i] \in S
  <2>1. \E s \in S : Cardinality(ahead[s]) = i - 1
    BY <1>5
  <2>2. Ranked(S, ahead)[i] = CHOOSE s \in S : Cardinality(ahead[s]) = i - 1
    BY DEF Ranked
  <2>. QED  BY <2>1, <2>2
<1>. QED  BY <1>6

\* What sorting makes is a sequence, whatever the order.
LEMMA RankedIsASeq ==
    ASSUME NEW S, IsFiniteSet(S), NEW ahead
    PROVE  AnySeq(Ranked(S, ahead)) /\ Len(Ranked(S, ahead)) = Cardinality(S)
<1>. DEFINE q == Ranked(S, ahead)
            n == Cardinality(S)
<1>1. n \in Nat
  BY FS_CardinalityType
<1>2. q = [i \in 1..n |-> q[i]]
  BY DEF Ranked
<1>. HIDE DEF q, n
<1>3. AnySeq(q) /\ Len(q) = n
  BY <1>1, <1>2, SequenceMade
<1>. QED  BY <1>3 DEF q, n

\* What rises in the ranking is a sequence.
LEMMA SurgesAreASeq ==
    ASSUME NEW today \in Rankings, NEW days
    PROVE  AnySeq(RankSurges(today, days))
<1>. DEFINE Improvement2(s) == BaselineRank2(s, days) - 2 * today[s]
            risers == {s \in DOMAIN today : /\ today[s] <= RankCeiling
                                            /\ Improvement2(s) >= 2 * MinImprovement}
            Before(s, t) == \/ Improvement2(s) > Improvement2(t)
                            \/ Improvement2(s) = Improvement2(t) /\ today[s] < today[t]
            ahead == [s \in risers |-> {t \in risers : Before(t, s)}]
<1>1. IsFiniteSet(risers)
  <2>1. IsFiniteSet(DOMAIN today) /\ risers \in SUBSET DOMAIN today
    BY WatchlistAssumption DEF WatchlistAssumption
  <2>. HIDE DEF risers
  <2>. QED  BY <2>1, FS_Subset
<1>2. RankSurges(today, days) = Ranked(risers, ahead)
  BY DEF RankSurges
<1>. HIDE DEF risers, ahead
<1>. QED  BY <1>1, <1>2, RankedIsASeq

\* The rows of a history hold rankings.
HoldsRankings(days) ==
    AnySeq(days) /\ \A i \in DOMAIN days : days[i].ranks \in Rankings

\* The middle of the ranks of the window is there, whatever the window holds.
LEMMA BaselineIsANumber ==
    ASSUME NEW days, HoldsRankings(days), NEW s
    PROVE  BaselineRank2(s, days) \in Int
<1>. DEFINE window == LastOf(HistoryWindow, days)
            n == Len(window)
            rank == [i \in DOMAIN window |->
                        IF s \in DOMAIN window[i].ranks THEN window[i].ranks[s]
                        ELSE AbsentRank]
            ahead == [i \in DOMAIN rank |->
                        {j \in DOMAIN rank : \/ rank[j] < rank[i]
                                             \/ rank[j] = rank[i] /\ j < i}]
            ordered == Ranked(DOMAIN rank, ahead)
<1>1. BaselineRank2(s, days) =
        IF n = 0 THEN 2 * AbsentRank
        ELSE rank[ordered[(n + 1) \div 2]] + rank[ordered[(n + 2) \div 2]]
  BY DEF BaselineRank2
<1>2. HistoryWindow \in Nat \ {0} /\ AbsentRank \in Nat
  BY WatchlistAssumption DEF WatchlistAssumption
<1>3. AnySeq(window) /\ \A i \in DOMAIN window : window[i].ranks \in Rankings
  <2>1. AnySeq(window) /\ \E d \in Nat : /\ Len(window) + d = Len(days)
                                         /\ \A i \in 1..Len(window) : window[i] = days[i + d]
    BY <1>2, LastOfThem DEF HoldsRankings
  <2>2. DOMAIN window = 1..Len(window) /\ Len(window) \in Nat
    BY <2>1, SequenceFacts
  <2>3. DOMAIN days = 1..Len(days) /\ Len(days) \in Nat
    BY SequenceFacts DEF HoldsRankings
  <2>. HIDE DEF window
  <2>4. PICK d \in Nat : /\ Len(window) + d = Len(days)
                         /\ \A i \in 1..Len(window) : window[i] = days[i + d]
    BY <2>1
  <2>5. \A i \in 1..Len(window) : i + d \in DOMAIN days
    BY <2>2, <2>3, <2>4
  <2>. QED  BY <2>1, <2>2, <2>4, <2>5 DEF HoldsRankings
<1>4. n \in Nat /\ DOMAIN window = 1..n
  BY <1>3, SequenceFacts
<1>5. DOMAIN rank = 1..n /\ \A i \in 1..n : rank[i] \in Nat
  <2>1. \A r \in Rankings : r \in [DOMAIN r -> Nat \ {0}]
    BY WatchlistAssumption DEF WatchlistAssumption
  <2>. HIDE DEF window, n
  <2>. QED  BY <1>2, <1>3, <1>4, <2>1
<1>6. ASSUME n # 0, NEW k \in 1..n PROVE ordered[k] \in 1..n
  <2>. HIDE DEF n, rank
  <2>1. ahead \in [1..n -> SUBSET (1..n)] /\ (\A i \in 1..n : i \notin ahead[i])
    BY <1>4, <1>5
  <2>2. \A i, j \in 1..n : i # j =>
            \/ i \in ahead[j] /\ ahead[i] \subseteq ahead[j]
            \/ j \in ahead[i] /\ ahead[j] \subseteq ahead[i]
    BY <1>4, <1>5
  <2>3. IsFiniteSet(1..n) /\ Cardinality(1..n) = n
    <3>1. 1 \in Int /\ n \in Int /\ ~(1 > n) /\ n - 1 + 1 = n
      BY <1>4, <1>6
    <3>. QED  BY <3>1, FS_Interval
  <2>. HIDE DEF ahead
  <2>4. \A i \in 1..n : Ranked(1..n, ahead)[i] \in 1..n
    BY <2>1, <2>2, <2>3, RankedMembers
  <2>. QED  BY <1>5, <2>4
<1>. HIDE DEF n, rank, ordered, window, ahead
<1>7. n # 0 => (n + 1) \div 2 \in 1..n /\ (n + 2) \div 2 \in 1..n
  BY <1>4
<1>. QED  BY <1>1, <1>2, <1>5, <1>6, <1>7

\* Only symbols of the ranking rise in it.
LEMMA SurgesAreRanked ==
    ASSUME NEW today \in Rankings, NEW days, HoldsRankings(days)
    PROVE  ToSet(RankSurges(today, days)) \subseteq DOMAIN today
<1>. DEFINE Improvement2(s) == BaselineRank2(s, days) - 2 * today[s]
            risers == {s \in DOMAIN today : /\ today[s] <= RankCeiling
                                            /\ Improvement2(s) >= 2 * MinImprovement}
            Before(s, t) == \/ Improvement2(s) > Improvement2(t)
                            \/ Improvement2(s) = Improvement2(t) /\ today[s] < today[t]
            ahead == [s \in risers |-> {t \in risers : Before(t, s)}]
            better == [s \in risers |-> Improvement2(s)]
            n == Cardinality(risers)
<1>1. /\ IsFiniteSet(DOMAIN today) /\ (\A s \in DOMAIN today : today[s] \in Nat)
      /\ \A s, t \in DOMAIN today : today[s] = today[t] => s = t
  BY WatchlistAssumption DEF WatchlistAssumption, IsInjective
<1>2. RankSurges(today, days) = Ranked(risers, ahead)
  BY DEF RankSurges
<1>3. \A s \in DOMAIN today : Improvement2(s) \in Int
  <2>1. \A s : BaselineRank2(s, days) \in Int
    BY BaselineIsANumber
  <2>. QED  BY <1>1, <2>1
<1>. HIDE DEF Improvement2
<1>4. risers \in SUBSET DOMAIN today
  OBVIOUS
<1>5. \A s \in risers : better[s] \in Int /\ today[s] \in Nat
  BY <1>1, <1>3
<1>6. /\ DOMAIN ahead = risers
      /\ \A s, t \in risers : t \in ahead[s] <=>
            better[t] > better[s] \/ (better[t] = better[s] /\ today[t] < today[s])
      /\ \A s \in risers : ahead[s] \subseteq risers
  OBVIOUS
<1>7. ahead \in [risers -> SUBSET risers]
  OBVIOUS
<1>8. IsFiniteSet(risers)
  BY <1>1, <1>4, FS_Subset
<1>. HIDE DEF risers, ahead, better
<1>9. \A s \in risers : s \notin ahead[s]
  BY <1>5, <1>6
<1>10. ASSUME NEW s \in risers, NEW t \in risers, t \in ahead[s]
       PROVE  ahead[t] \subseteq ahead[s]
  <2>. SUFFICES ASSUME NEW u \in ahead[t] PROVE u \in ahead[s]
    OBVIOUS
  <2>1. u \in risers
    BY <1>6
  <2>. QED  BY <1>5, <1>6, <1>10, <2>1
<1>11. \A s, t \in risers : s # t => s \in ahead[t] \/ t \in ahead[s]
  <2>. SUFFICES ASSUME NEW s \in risers, NEW t \in risers, s # t
                PROVE  s \in ahead[t] \/ t \in ahead[s]
    OBVIOUS
  <2>1. today[s] # today[t]
    BY <1>1, <1>4
  <2>2. /\ better[s] \in Int /\ better[t] \in Int
        /\ today[s] \in Nat /\ today[t] \in Nat
    BY <1>5
  <2>3. /\ s \in ahead[t] <=>
            better[s] > better[t] \/ (better[s] = better[t] /\ today[s] < today[t])
        /\ t \in ahead[s] <=>
            better[t] > better[s] \/ (better[t] = better[s] /\ today[t] < today[s])
    BY <1>6
  <2>. QED  BY <2>1, <2>2, <2>3
<1>12. \A i \in 1..n : Ranked(risers, ahead)[i] \in risers
  BY <1>7, <1>8, <1>9, <1>10, <1>11, RankedMembers
<1>13. DOMAIN Ranked(risers, ahead) = 1..n
  BY DEF Ranked
<1>. QED  BY <1>2, <1>4, <1>12, <1>13 DEF ToSet

\* A ranking is written beside the symbols, which stay.
LEMMA RanksBesideSymbols ==
    ASSUME NEW f, f = [days |-> f.days, symbols |-> f.symbols], NEW d, NEW ranks
    PROVE  /\ WithRanks(f, d, ranks).symbols = f.symbols
           /\ WithRanks(f, d, ranks) = [days |-> WithRanks(f, d, ranks).days,
                                        symbols |-> WithRanks(f, d, ranks).symbols]
           /\ WithRanks(f, d, ranks).days =
                  LastOf(MaxHistoryDays, Append(RowsOfOtherDays(f, d),
                                                [date |-> d, ranks |-> ranks]))
BY DEF WithRanks

\* What is stored of the symbols leaves the stored ranks alone.
LEMMA SymbolsBesideRanks ==
    ASSUME NEW f, f = [days |-> f.days, symbols |-> f.symbols], NEW symbols
    PROVE  /\ WithSymbols(f, symbols).symbols = symbols
           /\ WithSymbols(f, symbols).days = f.days
           /\ WithSymbols(f, symbols) = [days |-> WithSymbols(f, symbols).days,
                                         symbols |-> WithSymbols(f, symbols).symbols]
BY DEF WithSymbols

\* The rows of a file stand in the order of days, none is of a later day.
RowsInOrder(f, d) ==
    /\ AnySeq(f.days) /\ Len(f.days) <= MaxHistoryDays
    /\ \A i \in DOMAIN f.days : f.days[i].date \in Nat /\ f.days[i].date <= d
    /\ \A i, j \in DOMAIN f.days : i < j => f.days[i].date < f.days[j].date

\* However often a day is recorded, the rows stay in order.
LEMMA RowsStayInOrder ==
    ASSUME NEW d \in Nat, NEW f, f = [days |-> f.days, symbols |-> f.symbols],
           RowsInOrder(f, d), NEW ranks
    PROVE  RowsInOrder(WithRanks(f, d, ranks), d)
<1>. DEFINE row == [date |-> d, ranks |-> ranks]
            D == {i \in DOMAIN f.days : f.days[i].date # d}
            others == RowsOfOtherDays(f, d)
            all == Append(others, row)
            n == Len(others)
            q == LastOf(MaxHistoryDays, all)
<1>1. /\ AnySeq(f.days)
      /\ \A i \in DOMAIN f.days : f.days[i].date \in Nat /\ f.days[i].date <= d
      /\ \A i, j \in DOMAIN f.days : i < j => f.days[i].date < f.days[j].date
  BY DEF RowsInOrder
<1>2. D \in SUBSET DOMAIN f.days /\ others = Picked(f.days, D)
  BY DEF RowsOfOtherDays
<1>3. \A i \in D : f.days[i].date \in Nat /\ f.days[i].date < d
  BY <1>1
<1>. HIDE DEF D, others
<1>4. /\ AnySeq(others)
      /\ ToSet(others) = {f.days[j] : j \in D}
      /\ \A a, b \in 1..n : a < b =>
             \E j, k \in D : /\ j < k /\ others[a] = f.days[j]
                             /\ others[b] = f.days[k]
  BY <1>1, <1>2, PickedInOrder
<1>5. n \in Nat /\ DOMAIN others = 1..n
  BY <1>4, SequenceFacts
<1>6. \A a \in 1..n : others[a].date \in Nat /\ others[a].date < d
  <2>1. \A a \in 1..n : others[a] \in ToSet(others)
    BY <1>5 DEF ToSet
  <2>. QED  BY <1>3, <1>4, <2>1
<1>7. \A a, b \in 1..n : a < b => others[a].date < others[b].date
  BY <1>1, <1>2, <1>4
<1>8. /\ AnySeq(all) /\ Len(all) = n + 1
      /\ all[n + 1] = row /\ (\A a \in 1..n : all[a] = others[a])
  <2>. DEFINE S == ToSet(others) \cup {row}
  <2>1. others \in Seq(S) /\ row \in S
    BY <1>4 DEF AnySeq
  <2>. HIDE DEF S, row
  <2>2. /\ all \in Seq(S) /\ Len(all) = n + 1
        /\ all[n + 1] = row /\ (\A a \in 1..n : all[a] = others[a])
    BY <2>1
  <2>. QED  BY <2>2, MembersOfASeq
<1>9. row.date = d
  OBVIOUS
<1>. HIDE DEF n, row, all, q
<1>10. \A a \in 1..(n + 1) : all[a].date \in Nat /\ all[a].date <= d
  <2>. SUFFICES ASSUME NEW a \in 1..(n + 1)
                PROVE  all[a].date \in Nat /\ all[a].date <= d
    OBVIOUS
  <2>1. CASE a = n + 1
    BY <1>8, <1>9, <2>1
  <2>2. CASE a # n + 1
    <3>1. a \in 1..n
      BY <1>5, <2>2
    <3>2. all[a] = others[a] /\ others[a].date \in Nat /\ others[a].date < d
      BY <1>6, <1>8, <3>1
    <3>. QED  BY <3>2
  <2>. QED  BY <2>1, <2>2
<1>11. \A a, b \in 1..(n + 1) : a < b => all[a].date < all[b].date
  <2>. SUFFICES ASSUME NEW a \in 1..(n + 1), NEW b \in 1..(n + 1), a < b
                PROVE  all[a].date < all[b].date
    OBVIOUS
  <2>1. a \in 1..n
    BY <1>5
  <2>2. CASE b = n + 1
    BY <1>6, <1>8, <1>9, <2>1, <2>2
  <2>3. CASE b # n + 1
    <3>1. b \in 1..n
      BY <1>5, <2>3
    <3>. QED  BY <1>7, <1>8, <2>1, <3>1
  <2>. QED  BY <2>2, <2>3
<1>12. MaxHistoryDays \in Nat \ {0}
  BY WatchlistAssumption DEF WatchlistAssumption
<1>13. /\ AnySeq(q) /\ Len(q) <= MaxHistoryDays
       /\ \E c \in Nat : /\ Len(q) + c = n + 1
                         /\ \A i \in 1..Len(q) : q[i] = all[i + c]
  BY <1>8, <1>12, LastOfThem DEF q
<1>14. PICK c \in Nat : /\ Len(q) + c = n + 1
                        /\ \A i \in 1..Len(q) : q[i] = all[i + c]
  BY <1>13
<1>15. Len(q) \in Nat /\ DOMAIN q = 1..Len(q)
  BY <1>13, SequenceFacts
<1>. DEFINE l == Len(q)
<1>16. /\ l \in Nat /\ l + c = n + 1 /\ DOMAIN q = 1..l
       /\ \A i \in 1..l : q[i] = all[i + c]
  BY <1>14, <1>15
<1>. HIDE DEF l
<1>17. \A i \in 1..l : i + c \in 1..(n + 1)
  BY <1>5, <1>16
<1>18. /\ \A i \in DOMAIN q : q[i].date \in Nat /\ q[i].date <= d
       /\ \A i, j \in DOMAIN q : i < j => q[i].date < q[j].date
  <2>1. \A i \in DOMAIN q : q[i].date \in Nat /\ q[i].date <= d
    BY <1>10, <1>16, <1>17
  <2>2. ASSUME NEW i \in 1..l, NEW j \in 1..l, i < j PROVE q[i].date < q[j].date
    <3>1. i + c < j + c
      BY <1>16, <2>2
    <3>. QED  BY <1>11, <1>16, <1>17, <3>1
  <2>. QED  BY <1>16, <2>1, <2>2
<1>19. WithRanks(f, d, ranks).days = q
  BY RanksBesideSymbols DEF q, all, row, others
<1>. QED  BY <1>13, <1>18, <1>19 DEF RowsInOrder

-----------------------------------------------------------------------------
(* What every step keeps: the shapes of the lists and of the file *)

FileShape == file = [days |-> file.days, symbols |-> file.symbols] /\ AnySeq(file.symbols)

ListShape ==
    /\ listDay \in Nat \ {0} /\ waiting \in BOOLEAN
    /\ point \in {"top", "attend", "scan", "add", "cycle"}
    /\ AnySeq(watchlist) /\ AnySeq(fallback)
    /\ AnySeq(kept) /\ AnySeq(surviving) /\ AnySeq(surges)
    /\ point \in {"scan", "add"} => Len(kept) <= Slots
    /\ FileShape

\* The empty list is a sequence.
LEMMA EmptyIsASeq == AnySeq(<<>>) /\ Len(<<>>) = 0
<1>1. <<>> \in Seq({})
  OBVIOUS
<1>. QED  BY <1>1, MembersOfASeq

\* What is read of the file is a file, and each half of it whole or empty.
LEMMA ReadFile ==
    ASSUME FileShape, NEW f \in AsRead(file)
    PROVE  /\ f = [days |-> f.days, symbols |-> f.symbols] /\ AnySeq(f.symbols)
           /\ f.symbols \in {file.symbols, <<>>} /\ f.days \in {file.days, <<>>}
BY EmptyIsASeq DEF FileShape, AsRead, NoFile

\* What a refresh makes of the two lists.
LEMMA Refreshed ==
    ASSUME ListShape, Refresh
    PROVE  /\ AnySeq(watchlist') /\ AnySeq(fallback') /\ waiting' \in BOOLEAN
           /\ Len(watchlist') <= Slots
           /\ ~everScreened' => fallback' = fallback /\ ~everScreened
           /\ ~everScreened' /\ Len(watchlist') < Slots =>
                  \A s \in ToSet(fallback) : world'[s] = "ok" => s \in ToSet(watchlist')
<1>1. CASE Screen
  <2>1. PICK pe \in [DOMAIN Candidates -> {"fails", "high", "low"}], banded \in BOOLEAN :
            LET growth == GrowthWatchlist(world', banded)
                list == First(Slots - Len(growth), Screened(pe)) \o growth
            IN  watchlist' = list /\ fallback' = list /\ everScreened' = TRUE
                /\ waiting' = FALSE
    BY <1>1 DEF Screen
  <2>2. AnySeq(Screened(pe))
    BY ScreenedIsASeq
  <2>. QED  BY <2>1, <2>2, ListFitsSlots
<1>2. CASE FallBack
  <2>1. PICK banded \in BOOLEAN :
            LET growth == GrowthWatchlist(world', banded)
                band == InBand(world', banded, fallback)
            IN  watchlist' = IF band = <<>> THEN <<>>
                             ELSE First(Slots - Len(growth), band) \o growth
    BY <1>2 DEF FallBack
  <2>2. waiting' = TRUE /\ UNCHANGED <<fallback, everScreened>>
    BY <1>2 DEF FallBack
  <2>. DEFINE band == InBand(world', banded, fallback)
              growth == GrowthWatchlist(world', banded)
              list == First(Slots - Len(growth), band) \o growth
  <2>3. /\ AnySeq(band)
        /\ \A s \in ToSet(fallback) : world'[s] = "ok" => s \in ToSet(band)
    BY BandKeepsTradeable DEF ListShape
  <2>4. watchlist' = IF band = <<>> THEN <<>> ELSE list
    BY <2>1
  <2>5. /\ AnySeq(list) /\ Len(list) <= Slots
        /\ Len(list) < Slots => ToSet(band) \subseteq ToSet(list)
    BY <2>3, ListFitsSlots
  <2>. HIDE DEF band, list
  <2>6. CASE band = <<>>
    <3>1. ToSet(band) = {}
      BY <2>6 DEF ToSet
    <3>2. watchlist' = <<>> /\ Slots \in Nat
      BY <2>4, <2>6, ListsAreSequences
    <3>. QED  BY <2>2, <2>3, <3>1, <3>2, EmptyIsASeq DEF ListShape
  <2>7. CASE band # <<>>
    BY <2>2, <2>3, <2>4, <2>5, <2>7 DEF ListShape
  <2>. QED  BY <2>6, <2>7
<1>. QED  BY <1>1, <1>2 DEF Refresh

\* What the judgement of the carried symbols makes of the list and the file.
LEMMA Carried ==
    ASSUME ListShape, Carry
    PROVE  /\ AnySeq(kept') /\ AnySeq(surviving') /\ FileShape'
           /\ Len(kept') <= Slots /\ file'.days \in {file.days, <<>>}
           /\ judged' = [survived |-> judged'.survived, dropped |-> judged'.dropped,
                         unread |-> judged'.unread]
           /\ \/ judged' = NotJudged
              \/ /\ file'.symbols = surviving' /\ judged'.survived = ToSet(surviving')
                 /\ judged'.dropped \cap ToSet(surviving') = {}
                 /\ \/ Len(kept') = Slots
                    \/ judged'.dropped \subseteq ToSet(kept')
<1>1. PICK held \in Holdings, written \in BOOLEAN, f \in AsRead(file) :
        /\ kept' = First(Slots, Distinct(watchlist \o f.symbols))
        /\ surviving' = Picked(kept', {i \in DOMAIN kept' :
                /\ Contains(f.symbols, kept'[i])
                /\ ~Untradeable(kept'[i], held)})
        /\ file' = IF written THEN Recorded(f, surviving') ELSE file
        /\ judged' = IF ~written THEN NotJudged
                     ELSE [survived |-> ToSet(surviving'),
                           dropped |-> {s \in ToSet(f.symbols) :
                                            Untradeable(s, held)},
                           unread |-> FALSE]
  BY DEF Carry
<1>. DEFINE both == Distinct(watchlist \o f.symbols)
            D == {i \in DOMAIN kept' : /\ Contains(f.symbols, kept'[i])
                                       /\ ~Untradeable(kept'[i], held)}
<1>0. /\ f = [days |-> f.days, symbols |-> f.symbols] /\ AnySeq(f.symbols)
      /\ f.days \in {file.days, <<>>}
  BY ReadFile DEF ListShape
<1>2. AnySeq(both) /\ ToSet(f.symbols) \subseteq ToSet(both)
  BY <1>0, Joined, DistinctKeepsAll DEF ListShape
<1>3. kept' = First(Slots, both) /\ surviving' = Picked(kept', D)
  BY <1>1
<1>. HIDE DEF both
<1>4. /\ AnySeq(kept') /\ Len(kept') <= Slots
      /\ Len(kept') < Slots => kept' = both
  BY <1>2, <1>3, FirstOfThem, ListsAreSequences
<1>5. D \in SUBSET DOMAIN kept' /\ (\A i \in D : ~Untradeable(kept'[i], held))
  OBVIOUS
<1>. HIDE DEF D
<1>6. AnySeq(surviving') /\ ToSet(surviving') = {kept'[j] : j \in D}
  BY <1>3, <1>4, <1>5, PickedInOrder
<1>7. /\ FileShape' /\ file'.days \in {file.days, <<>>}
      /\ written => file'.symbols = surviving'
  <2>. DEFINE new == WithSymbols(f, surviving')
  <2>1. /\ new.symbols = surviving' /\ new.days = f.days
        /\ new = [days |-> new.days, symbols |-> new.symbols]
    BY <1>0, SymbolsBesideRanks
  <2>2. file' = IF written THEN new ELSE file
    BY <1>1 DEF Recorded
  <2>3. AnySeq(new.symbols)
    BY <1>6, <2>1
  <2>. HIDE DEF new
  <2>. QED  BY <1>0, <2>1, <2>2, <2>3 DEF ListShape, FileShape
<1>8. Len(kept') = Slots \/ ToSet(f.symbols) \subseteq ToSet(kept')
  <2>1. Len(kept') \in Nat /\ Slots \in Nat
    BY <1>4, SequenceFacts, ListsAreSequences
  <2>. QED  BY <1>2, <1>4, <2>1
<1>9. judged' = [survived |-> judged'.survived, dropped |-> judged'.dropped,
                  unread |-> judged'.unread]
  BY <1>1 DEF NotJudged
<1>10. CASE written
  <2>1. /\ judged'.survived = ToSet(surviving')
        /\ judged'.dropped = {s \in ToSet(f.symbols) : Untradeable(s, held)}
    BY <1>1, <1>10
  <2>2. judged'.dropped \cap ToSet(surviving') = {}
    BY <1>5, <1>6, <2>1
  <2>3. judged'.dropped \subseteq ToSet(f.symbols)
    BY <2>1
  <2>. QED  BY <1>4, <1>6, <1>7, <1>8, <1>10, <1>9, <2>1, <2>2, <2>3
<1>11. CASE ~written
  BY <1>1, <1>4, <1>6, <1>7, <1>11, <1>9
<1>. QED  BY <1>10, <1>11

\* What is added to the list behind the kept symbols.
LEMMA Added ==
    ASSUME ListShape, AddSurges
    PROVE  \E added : /\ AnySeq(added) /\ watchlist' = kept \o added
                      /\ FileShape' /\ file'.days \in {file.days, <<>>}
                      /\ file'.symbols \in {file.symbols, surviving \o added}
                      /\ Len(kept) + Len(added) <= Slots
                      /\ ToSet(added) \cap ToSet(kept) = {}
                      /\ Len(kept) = Slots => ToSet(added) = {}
<1>. DEFINE D == {i \in DOMAIN surges : ~Contains(kept, surges[i])}
            fresh == Picked(surges, D)
            room == Slots - Len(kept)
            cut == First(room, fresh)
<1>0. Len(kept) <= Slots
  BY DEF ListShape, AddSurges
<1>1. PICK banded \in BOOLEAN :
        /\ watchlist' = kept \o InBand(world, banded, cut)
        /\ file' \in {file} \cup {WithSymbols(f, surviving \o InBand(world, banded, cut)) :
                                    f \in AsRead(file)}
  BY DEF AddSurges
<1>. DEFINE added == InBand(world, banded, cut)
<1>2. AnySeq(fresh) /\ ToSet(fresh) \cap ToSet(kept) = {}
  <2>1. D \in SUBSET DOMAIN surges /\ (\A i \in D : ~Contains(kept, surges[i]))
    OBVIOUS
  <2>. HIDE DEF D
  <2>2. AnySeq(fresh) /\ ToSet(fresh) = {surges[j] : j \in D}
    BY <2>1, PickedInOrder DEF ListShape
  <2>3. \A j \in D : surges[j] \notin ToSet(kept)
    BY <2>1, SequenceFacts DEF ListShape
  <2>. QED  BY <2>2, <2>3
<1>3. room \in Nat /\ Len(kept) \in Nat /\ Slots \in Nat
  <2>1. Len(kept) \in Nat /\ Slots \in Nat
    BY SequenceFacts, ListsAreSequences DEF ListShape
  <2>. QED  BY <1>0, <2>1
<1>. HIDE DEF fresh
<1>4. AnySeq(cut) /\ Len(cut) <= room /\ ToSet(cut) \subseteq ToSet(fresh)
  <2>. HIDE DEF room
  <2>. QED  BY <1>2, <1>3, FirstOfThem
<1>. HIDE DEF cut
<1>5. AnySeq(added) /\ Len(added) <= Len(cut) /\ ToSet(added) \subseteq ToSet(cut)
  BY <1>4, BandKeepsTradeable
<1>6. Len(added) \in Nat /\ Len(cut) \in Nat /\ DOMAIN added = 1..Len(added)
  BY <1>4, <1>5, SequenceFacts
<1>. HIDE DEF added
<1>7. Len(kept) + Len(added) <= Slots
  BY <1>0, <1>3, <1>4, <1>5, <1>6
<1>8. Len(kept) = Slots => ToSet(added) = {}
  <2>. SUFFICES ASSUME Len(kept) = Slots PROVE ToSet(added) = {}
    OBVIOUS
  <2>1. Len(added) = 0
    BY <1>3, <1>6, <1>7
  <2>2. DOMAIN added = {}
    BY <1>6, <2>1
  <2>. QED  BY <2>2 DEF ToSet
<1>9. ToSet(added) \cap ToSet(kept) = {}
  BY <1>2, <1>4, <1>5
<1>10. /\ FileShape' /\ file'.days \in {file.days, <<>>}
       /\ file'.symbols \in {file.symbols, surviving \o added}
  <2>1. AnySeq(surviving \o added)
    BY <1>5, Joined DEF ListShape
  <2>2. CASE file' = file
    BY <2>2 DEF ListShape, FileShape
  <2>3. ASSUME NEW f \in AsRead(file), file' = WithSymbols(f, surviving \o added)
        PROVE  /\ FileShape' /\ file'.days \in {file.days, <<>>}
               /\ file'.symbols = surviving \o added
    <3>1. f = [days |-> f.days, symbols |-> f.symbols] /\ f.days \in {file.days, <<>>}
      BY ReadFile DEF ListShape
    <3>. QED  BY <2>1, <2>3, <3>1, SymbolsBesideRanks DEF FileShape
  <2>. QED  BY <1>1, <2>2, <2>3 DEF added
<1>. QED  BY <1>1, <1>5, <1>7, <1>8, <1>9, <1>10 DEF added

\* Another ranking in the file leaves its shape, and its symbols as they could
\* be read.
LEMMA RankedFile ==
    ASSUME FileShape, NEW ranks, AppendRanks(ranks)
    PROVE  FileShape' /\ file'.symbols \in {file.symbols, <<>>}
<1>1. CASE UNCHANGED <<file, judged>>
  BY <1>1 DEF FileShape
<1>2. ASSUME NEW f \in AsRead(file), file' = WithRanks(f, listDay, ranks)
      PROVE  FileShape' /\ file'.symbols \in {file.symbols, <<>>}
  <2>1. /\ f = [days |-> f.days, symbols |-> f.symbols] /\ AnySeq(f.symbols)
        /\ f.symbols \in {file.symbols, <<>>}
    BY ReadFile
  <2>2. /\ file'.symbols = f.symbols
        /\ file' = [days |-> file'.days, symbols |-> file'.symbols]
    BY <1>2, <2>1 DEF WithRanks
  <2>. QED  BY <2>1, <2>2 DEF FileShape
<1>. QED  BY <1>1, <1>2 DEF AppendRanks

\* A later day is a day.
LEMMA DaysGoOn ==
    ASSUME listDay \in Nat \ {0}, listDay' \in {listDay, listDay + 1} \cap 1..LastListDay
    PROVE  listDay' \in Nat \ {0} /\ listDay <= listDay'
OBVIOUS

\* The lists are sequences at first.
LEMMA ShapeAtStart == ListInit => ListShape
<1>. SUFFICES ASSUME ListInit PROVE ListShape
  OBVIOUS
<1>1. file = NoFile
  BY DEF ListInit
<1>2. FileShape
  BY <1>1, EmptyIsASeq DEF FileShape, NoFile
<1>3. AnySeq(watchlist) /\ AnySeq(fallback)
  BY ListsAreSequences DEF ListInit
<1>4. AnySeq(kept) /\ AnySeq(surviving) /\ AnySeq(surges)
  BY EmptyIsASeq DEF ListInit
<1>5. listDay \in Nat \ {0} /\ waiting \in BOOLEAN /\ point = "top"
  <2>1. listDay = 1 /\ waiting = FALSE /\ point = "top"
    BY DEF ListInit
  <2>2. listDay \in Nat \ {0}
    BY <2>1
  <2>3. waiting \in BOOLEAN
    BY <2>1, Zenon
  <2>. QED  BY <2>1, <2>2, <2>3
<1>. QED  BY <1>2, <1>3, <1>4, <1>5 DEF ListShape

\* The lists stay sequences.
LEMMA ShapeStays == ListShape /\ [ListNext]_listVars => ListShape'
<1>. SUFFICES ASSUME ListShape, [ListNext]_listVars PROVE ListShape'
  OBVIOUS
<1>. USE DEF ListShape
<1>1. CASE Refresh
  BY <1>1, Refreshed DEF Refresh, applyVars, FileShape
<1>2. CASE KeepList
  BY <1>2 DEF KeepList, applyVars, FileShape
<1>3. CASE Carry
  <2>1. AnySeq(kept') /\ AnySeq(surviving') /\ FileShape' /\ Len(kept') <= Slots
    BY <1>3, Carried
  <2>2. surges' = <<>> /\ point' = "scan"
        /\ UNCHANGED <<listDay, watchlist, fallback, waiting>>
    BY <1>3 DEF Carry
  <2>. QED  BY <2>1, <2>2, EmptyIsASeq
<1>4. CASE Scan
  <2>1. PICK today \in Rankings, history \in {file.days, <<>>} :
          /\ AppendRanks(today)
          /\ \/ /\ point' = "add" /\ surges' = RankSurges(today, history)
                /\ UNCHANGED <<watchlist, kept, surviving>>
             \/ Returns /\ watchlist' = kept
    BY <1>4 DEF Scan
  <2>2. UNCHANGED <<listDay, fallback, waiting>>
    BY <1>4 DEF Scan
  <2>3. FileShape'
    BY <2>1, RankedFile
  <2>4. AnySeq(RankSurges(today, history))
    BY SurgesAreASeq
  <2>5. CASE /\ point' = "add" /\ surges' = RankSurges(today, history)
             /\ UNCHANGED <<watchlist, kept, surviving>>
    <3>1. Len(kept') <= Slots
      BY <1>4, <2>5 DEF Scan
    <3>. QED  BY <2>2, <2>3, <2>4, <2>5, <3>1
  <2>6. CASE Returns /\ watchlist' = kept
    BY <2>2, <2>3, <2>6, EmptyIsASeq DEF Returns
  <2>. QED  BY <2>1, <2>5, <2>6
<1>5. CASE ScanFails
  BY <1>5, EmptyIsASeq DEF ScanFails, Returns, FileShape
<1>6. CASE AddSurges
  <2>1. PICK added : AnySeq(added) /\ watchlist' = kept \o added /\ FileShape'
    BY <1>6, Added
  <2>2. AnySeq(kept \o added)
    BY <2>1, Joined
  <2>. QED  BY <1>6, <2>1, <2>2, EmptyIsASeq DEF AddSurges, Returns
<1>7. CASE ApplyFails
  BY <1>7, EmptyIsASeq DEF ApplyFails, Returns, FileShape
<1>8. CASE RunCycle
  <2>1. listDay' \in Nat \ {0}
    BY <1>8, DaysGoOn DEF RunCycle
  <2>. QED  BY <1>8, <2>1 DEF RunCycle, applyVars, FileShape
<1>9. CASE RestartBot
  <2>1. listDay' \in Nat \ {0}
    BY <1>9, DaysGoOn DEF RestartBot
  <2>2. AnySeq(watchlist') /\ AnySeq(fallback')
    BY <1>9, ListsAreSequences DEF RestartBot
  <2>3. AnySeq(kept') /\ AnySeq(surviving') /\ AnySeq(surges')
    BY <1>9, EmptyIsASeq DEF RestartBot
  <2>. QED  BY <1>9, <2>1, <2>2, <2>3 DEF RestartBot, FileShape
<1>10. CASE RankTurnover
  <2>1. PICK ranks \in Rankings : AppendRanks(ranks)
    BY <1>10 DEF RankTurnover
  <2>2. FileShape'
    BY <2>1, RankedFile
  <2>. QED  BY <1>10, <2>2 DEF RankTurnover, applyVars
<1>11. CASE UNCHANGED listVars
  BY <1>11 DEF listVars, applyVars, FileShape
<1>. QED  BY <1>1, <1>2, <1>3, <1>4, <1>5, <1>6, <1>7, <1>8, <1>9,
             <1>10, <1>11
          DEF ListNext

-----------------------------------------------------------------------------
(* Where the members of the lists and the rows come from *)

Rows == [date : 1..LastListDay, ranks : Rankings]

OfSymbols(s) == AnySeq(s) /\ ToSet(s) \subseteq ListSymbols

\* What a judgement can be.
Judgements == [survived : SUBSET ListSymbols, dropped : SUBSET ListSymbols,
               unread : BOOLEAN]

\* The types that the shapes leave open.
ListTypes ==
    /\ listDay \in 1..LastListDay /\ screenedOn \in 0..LastListDay
    /\ everScreened \in BOOLEAN /\ world \in Worlds
    /\ OfSymbols(watchlist) /\ OfSymbols(fallback)
    /\ OfSymbols(kept) /\ OfSymbols(surviving) /\ OfSymbols(surges)
    /\ OfSymbols(file.symbols) /\ file.days \in Seq(Rows)
    /\ judged \in Judgements

\* A sequence is one of whatever its members are in.
LEMMA SeqOfMembers ==
    ASSUME NEW T, NEW s, AnySeq(s), ToSet(s) \subseteq T
    PROVE  s \in Seq(T)
<1>1. /\ Len(s) \in Nat /\ DOMAIN s = 1..Len(s)
      /\ s = [i \in 1..Len(s) |-> s[i]]
  BY SequenceFacts
<1>2. \A i \in 1..Len(s) : s[i] \in T
  BY <1>1 DEF ToSet
<1>3. s \in [1..Len(s) -> T]
  BY <1>1, <1>2
<1>. QED  BY <1>1, <1>3

\* The empty list and the configured ones are of symbols.
LEMMA ListsAreOfSymbols ==
    OfSymbols(Fixed) /\ OfSymbols(Growth) /\ OfSymbols(Candidates) /\ OfSymbols(<<>>)
<1>1. ToSet(Fixed) \subseteq ListSymbols /\ ToSet(Growth) \subseteq ListSymbols
      /\ ToSet(Candidates) \subseteq ListSymbols
  BY DEF ListSymbols
<1>2. ToSet(<<>>) = {}
  BY DEF ToSet
<1>. QED  BY <1>1, <1>2, ListsAreSequences, EmptyIsASeq DEF OfSymbols

\* Two lists of symbols, one behind the other.
LEMMA JoinedSymbols ==
    ASSUME NEW s, OfSymbols(s), NEW t, OfSymbols(t)
    PROVE  OfSymbols(s \o t)
BY Joined DEF OfSymbols

\* The beginning of a list of symbols.
LEMMA FirstSymbols ==
    ASSUME NEW n \in Nat, NEW s, OfSymbols(s)
    PROVE  OfSymbols(First(n, s))
BY FirstOfThem DEF OfSymbols

\* What is picked from a list of symbols.
LEMMA PickedSymbols ==
    ASSUME NEW s, OfSymbols(s), NEW D \in SUBSET DOMAIN s
    PROVE  OfSymbols(Picked(s, D))
<1>1. AnySeq(Picked(s, D)) /\ ToSet(Picked(s, D)) = {s[j] : j \in D}
  BY PickedInOrder DEF OfSymbols
<1>2. {s[j] : j \in D} \subseteq ToSet(s)
  BY DEF ToSet
<1>. QED  BY <1>1, <1>2 DEF OfSymbols

\* What the band leaves.
LEMMA SymbolsInBand ==
    ASSUME NEW w, NEW banded \in BOOLEAN, NEW s, OfSymbols(s)
    PROVE  OfSymbols(InBand(w, banded, s))
BY BandKeepsTradeable DEF OfSymbols

\* What fills the slots is a list of symbols.
LEMMA FilledWithSymbols ==
    ASSUME NEW w, NEW banded \in BOOLEAN, NEW s, OfSymbols(s)
    PROVE  LET growth == GrowthWatchlist(w, banded)
           IN  OfSymbols(First(Slots - Len(growth), s) \o growth)
<1>. DEFINE growth == GrowthWatchlist(w, banded)
            room == Slots - Len(growth)
<1>1. room \in Nat
  BY GrowthLeavesRoom
<1>2. OfSymbols(growth)
  <2>1. OfSymbols(InBand(w, banded, Growth)) /\ GrowthSlots \in Nat
    BY SymbolsInBand, ListsAreOfSymbols, ListsAreSequences
  <2>. QED  BY <2>1, FirstSymbols DEF GrowthWatchlist
<1>. HIDE DEF growth, room
<1>3. OfSymbols(First(room, s) \o growth)
  BY <1>1, <1>2, FirstSymbols, JoinedSymbols
<1>. QED  BY <1>3 DEF room, growth

\* What passes the screening was a candidate.
LEMMA ScreenedSymbols ==
    ASSUME NEW pe, DOMAIN pe = DOMAIN Candidates
    PROVE  OfSymbols(Screened(pe))
<1>. DEFINE GivenUp(i) == \E j \in 1..(i - MaxPEFailures) :
                            \A k \in j..(j + MaxPEFailures - 1) : pe[k] = "fails"
            D == {i \in DOMAIN pe : /\ pe[i] = "low" /\ ~GivenUp(i)
                                    /\ world'[Candidates[i]] \in {"ok", "short"}}
<1>1. Screened(pe) = Picked(Candidates, D)
  BY DEF Screened
<1>2. D \in SUBSET DOMAIN Candidates
  OBVIOUS
<1>. HIDE DEF D
<1>. QED  BY <1>1, <1>2, ListsAreOfSymbols, PickedSymbols

\* A ranking that is recorded today is a row of today.
LEMMA RowsAreTyped ==
    ASSUME NEW f, f = [days |-> f.days, symbols |-> f.symbols],
           f.days \in Seq(Rows), NEW d \in 1..LastListDay, NEW ranks \in Rankings
    PROVE  WithRanks(f, d, ranks).days \in Seq(Rows)
<1>. DEFINE row == [date |-> d, ranks |-> ranks]
            D == {i \in DOMAIN f.days : f.days[i].date # d}
            others == Picked(f.days, D)
            all == Append(others, row)
<1>1. AnySeq(f.days) /\ D \in SUBSET DOMAIN f.days
  BY MembersOfASeq
<1>2. \A i \in DOMAIN f.days : f.days[i] \in Rows
  OBVIOUS
<1>3. row \in Rows
  BY DEF Rows
<1>4. RowsOfOtherDays(f, d) = others
  BY DEF RowsOfOtherDays
<1>. HIDE DEF D, row
<1>5. AnySeq(others) /\ ToSet(others) = {f.days[j] : j \in D}
  BY <1>1, PickedInOrder
<1>6. others \in Seq(Rows)
  BY <1>1, <1>2, <1>5, SeqOfMembers
<1>. HIDE DEF others
<1>7. all \in Seq(Rows)
  BY <1>3, <1>6
<1>. HIDE DEF all
<1>8. LastOf(MaxHistoryDays, all) \in Seq(Rows)
  <2>1. Len(all) \in Nat /\ MaxHistoryDays \in Nat \ {0}
    BY <1>7, WatchlistAssumption DEF WatchlistAssumption
  <2>2. \A i \in 1..Len(all) : all[i] \in Rows
    BY <1>7
  <2>. QED  BY <1>7, <2>1, <2>2 DEF LastOf
<1>9. WithRanks(f, d, ranks).days = LastOf(MaxHistoryDays, all)
  BY <1>4, RanksBesideSymbols DEF all, row
<1>. QED  BY <1>8, <1>9

\* Symbols that rise are symbols.
LEMMA SurgesAreOfSymbols ==
    ASSUME NEW today \in Rankings, NEW days \in Seq(Rows)
    PROVE  OfSymbols(RankSurges(today, days))
<1>1. HoldsRankings(days)
  <2>1. AnySeq(days) /\ \A i \in DOMAIN days : days[i] \in Rows
    BY MembersOfASeq
  <2>2. \A r \in Rows : r.ranks \in Rankings
    BY DEF Rows
  <2>. QED  BY <2>1, <2>2 DEF HoldsRankings
<1>2. DOMAIN today \subseteq ListSymbols
  BY DEF ListSymbols
<1>. QED  BY <1>1, <1>2, SurgesAreASeq, SurgesAreRanked DEF OfSymbols

\* Rows that cannot be read are no rows, which has the type of rows.
LEMMA NoRowsAreRows == <<>> \in Seq(Rows)
OBVIOUS

\* What the file holds after a ranking was recorded or was not.
LEMMA RankedFileIsTyped ==
    ASSUME FileShape, ListTypes, NEW ranks \in Rankings, AppendRanks(ranks)
    PROVE  OfSymbols(file'.symbols) /\ file'.days \in Seq(Rows) /\ judged' \in Judgements
<1>1. OfSymbols(file'.symbols)
  BY RankedFile, ListsAreOfSymbols DEF ListTypes
<1>2. CASE UNCHANGED <<file, judged>>
  BY <1>1, <1>2 DEF ListTypes
<1>3. ASSUME NEW f \in AsRead(file), file' = WithRanks(f, listDay, ranks),
             judged' \in {judged, [judged EXCEPT !.unread = TRUE]}
      PROVE  file'.days \in Seq(Rows) /\ judged' \in Judgements
  <2>1. f = [days |-> f.days, symbols |-> f.symbols] /\ f.days \in {file.days, <<>>}
    BY ReadFile
  <2>2. f.days \in Seq(Rows) /\ listDay \in 1..LastListDay
    BY <2>1, NoRowsAreRows, Zenon DEF ListTypes
  <2>3. WithRanks(f, listDay, ranks).days \in Seq(Rows)
    BY <2>1, <2>2, RowsAreTyped
  <2>4. judged' \in Judgements
    BY <1>3 DEF ListTypes, Judgements
  <2>. QED  BY <1>3, <2>3, <2>4
<1>. QED  BY <1>1, <1>2, <1>3 DEF AppendRanks

\* The types at the start.
LEMMA TypedAtStart == ListInit => ListTypes
<1>. SUFFICES ASSUME ListInit PROVE ListTypes
  OBVIOUS
<1>1. LastListDay \in Nat \ {0} /\ Worlds # {}
  BY WatchlistAssumption DEF WatchlistAssumption
<1>2. listDay = 1 /\ screenedOn = 0 /\ world \in Worlds
  BY <1>1 DEF ListInit
<1>3. everScreened \in BOOLEAN
  BY Zenon DEF ListInit
<1>4. file.symbols = <<>> /\ file.days = <<>>
  BY DEF ListInit, NoFile
<1>5. judged \in Judgements
  BY DEF ListInit, NotJudged, Judgements
<1>6. <<>> \in Seq(Rows)
  OBVIOUS
<1>. QED  BY <1>1, <1>2, <1>3, <1>4, <1>5, <1>6, ListsAreOfSymbols DEF ListInit, ListTypes

\* The two lists a refresh leaves.
LEMMA RefreshedSymbols ==
    ASSUME ListShape, ListTypes, Refresh
    PROVE  OfSymbols(watchlist') /\ OfSymbols(fallback')
<1>1. CASE Screen
  <2>1. PICK pe \in [DOMAIN Candidates -> {"fails", "high", "low"}], banded \in BOOLEAN :
            LET growth == GrowthWatchlist(world', banded)
                list == First(Slots - Len(growth), Screened(pe)) \o growth
            IN  watchlist' = list /\ fallback' = list
    BY <1>1 DEF Screen
  <2>2. OfSymbols(Screened(pe))
    BY ScreenedSymbols
  <2>. QED  BY <2>1, <2>2, FilledWithSymbols
<1>2. CASE FallBack
  <2>1. PICK banded \in BOOLEAN :
            LET growth == GrowthWatchlist(world', banded)
                band == InBand(world', banded, fallback)
            IN  watchlist' = IF band = <<>> THEN <<>>
                             ELSE First(Slots - Len(growth), band) \o growth
    BY <1>2 DEF FallBack
  <2>2. OfSymbols(InBand(world', banded, fallback))
    BY SymbolsInBand DEF ListTypes
  <2>3. fallback' = fallback
    BY <1>2 DEF FallBack
  <2>. QED  BY <2>1, <2>2, <2>3, FilledWithSymbols, ListsAreOfSymbols DEF ListTypes
<1>. QED  BY <1>1, <1>2 DEF Refresh

\* The judgement only takes symbols away from the list and the record.
LEMMA CarriedSymbols ==
    ASSUME ListShape, ListTypes, Carry
    PROVE  /\ OfSymbols(kept') /\ OfSymbols(surviving') /\ OfSymbols(file'.symbols)
           /\ judged' \in Judgements
<1>1. PICK held \in Holdings, written \in BOOLEAN, f \in AsRead(file) :
        /\ kept' = First(Slots, Distinct(watchlist \o f.symbols))
        /\ surviving' = Picked(kept', {i \in DOMAIN kept' :
                /\ Contains(f.symbols, kept'[i])
                /\ ~Untradeable(kept'[i], held)})
        /\ file' = IF written THEN Recorded(f, surviving') ELSE file
        /\ judged' = IF ~written THEN NotJudged
                     ELSE [survived |-> ToSet(surviving'),
                           dropped |-> {s \in ToSet(f.symbols) :
                                            Untradeable(s, held)},
                           unread |-> FALSE]
  BY DEF Carry
<1>0. /\ f = [days |-> f.days, symbols |-> f.symbols]
      /\ OfSymbols(f.symbols)
  BY ReadFile, ListsAreOfSymbols DEF ListShape, ListTypes
<1>2. OfSymbols(kept')
  <2>1. OfSymbols(watchlist \o f.symbols)
    BY <1>0, JoinedSymbols DEF ListTypes
  <2>2. OfSymbols(Distinct(watchlist \o f.symbols))
    BY <2>1, DistinctKeepsAll DEF OfSymbols
  <2>. QED  BY <1>1, <2>2, FirstSymbols, ListsAreSequences
<1>3. OfSymbols(surviving')
  <2>. DEFINE D == {i \in DOMAIN kept' : /\ Contains(f.symbols, kept'[i])
                                         /\ ~Untradeable(kept'[i], held)}
  <2>1. surviving' = Picked(kept', D) /\ D \in SUBSET DOMAIN kept'
    BY <1>1
  <2>. HIDE DEF D
  <2>. QED  BY <1>2, <2>1, PickedSymbols
<1>4. OfSymbols(file'.symbols)
  <2>1. file' = file \/ file' = WithSymbols(f, surviving')
    BY <1>1 DEF Recorded
  <2>. QED  BY <1>0, <1>3, <2>1, SymbolsBesideRanks DEF ListTypes
<1>5. judged' \in Judgements
  <2>1. ToSet(surviving') \subseteq ListSymbols /\ ToSet(f.symbols) \subseteq ListSymbols
    BY <1>0, <1>3 DEF OfSymbols
  <2>. QED  BY <1>1, <2>1 DEF NotJudged, Judgements
<1>. QED  BY <1>2, <1>3, <1>4, <1>5

\* What is added are symbols.
LEMMA AddedSymbols ==
    ASSUME ListShape, ListTypes, AddSurges
    PROVE  OfSymbols(watchlist') /\ OfSymbols(file'.symbols)
<1>. DEFINE D == {i \in DOMAIN surges : ~Contains(kept, surges[i])}
            fresh == Picked(surges, D)
            room == Slots - Len(kept)
            cut == First(room, fresh)
<1>1. PICK banded \in BOOLEAN :
        /\ watchlist' = kept \o InBand(world, banded, cut)
        /\ file' \in {file} \cup {WithSymbols(f, surviving \o InBand(world, banded, cut)) :
                                    f \in AsRead(file)}
  BY DEF AddSurges
<1>2. OfSymbols(fresh)
  <2>1. D \in SUBSET DOMAIN surges
    OBVIOUS
  <2>. HIDE DEF D
  <2>. QED  BY <2>1, PickedSymbols DEF ListTypes
<1>3. room \in Nat
  <2>1. Len(kept) \in Nat /\ Slots \in Nat /\ Len(kept) <= Slots
    BY SequenceFacts, ListsAreSequences DEF ListShape, AddSurges
  <2>. QED  BY <2>1
<1>. HIDE DEF fresh, room
<1>4. OfSymbols(InBand(world, banded, cut))
  BY <1>2, <1>3, FirstSymbols, SymbolsInBand
<1>. HIDE DEF cut
<1>5. /\ OfSymbols(kept \o InBand(world, banded, cut))
      /\ OfSymbols(surviving \o InBand(world, banded, cut))
  BY <1>4, JoinedSymbols DEF ListTypes
<1>. DEFINE all == surviving \o InBand(world, banded, cut)
<1>6. ASSUME NEW f \in AsRead(file), file' = WithSymbols(f, all)
      PROVE  file'.symbols = all
  <2>1. f = [days |-> f.days, symbols |-> f.symbols]
    BY ReadFile DEF ListShape
  <2>. HIDE DEF all
  <2>. QED  BY <1>6, <2>1, SymbolsBesideRanks
<1>. QED  BY <1>1, <1>5, <1>6 DEF ListTypes

\* The types stay.
LEMMA TypesStay == ListShape /\ ListTypes /\ [ListNext]_listVars => ListTypes'
<1>. SUFFICES ASSUME ListShape, ListTypes, [ListNext]_listVars PROVE ListTypes'
  OBVIOUS
<1>. USE DEF ListTypes
<1>0. LastListDay \in Nat \ {0}
  BY WatchlistAssumption DEF WatchlistAssumption
<1>1. CASE Refresh
  <2>1. OfSymbols(watchlist') /\ OfSymbols(fallback')
    BY <1>1, RefreshedSymbols
  <2>2. world' \in Worlds /\ UNCHANGED <<listDay, file, kept, surviving, surges, judged>>
    BY <1>1 DEF Refresh, applyVars
  <2>3. screenedOn' \in {screenedOn, listDay}
    BY <1>1 DEF Refresh, Screen, FallBack
  <2>4. everScreened' \in BOOLEAN
    <3>1. everScreened' = TRUE \/ everScreened' = everScreened
      BY <1>1 DEF Refresh, Screen, FallBack
    <3>. QED  BY <3>1, Zenon
  <2>. QED  BY <1>0, <2>1, <2>2, <2>3, <2>4
<1>2. CASE KeepList
  BY <1>2 DEF KeepList, applyVars
<1>3. CASE Carry
  <2>1. surges' = <<>>
        /\ UNCHANGED <<listDay, watchlist, fallback, screenedOn, everScreened, world>>
    BY <1>3 DEF Carry
  <2>2. file'.days \in Seq(Rows)
    <3>1. file'.days \in {file.days, <<>>}
      BY <1>3, Carried
    <3>. QED  BY <3>1, NoRowsAreRows, Zenon
  <2>. QED  BY <1>3, <2>1, <2>2, CarriedSymbols, ListsAreOfSymbols
<1>4. CASE Scan
  <2>1. PICK today \in Rankings, history \in {file.days, <<>>} :
          /\ AppendRanks(today)
          /\ \/ /\ point' = "add" /\ surges' = RankSurges(today, history)
                /\ UNCHANGED <<watchlist, kept, surviving>>
             \/ Returns /\ watchlist' = kept
    BY <1>4 DEF Scan
  <2>2. UNCHANGED <<listDay, fallback, screenedOn, everScreened, world>>
    BY <1>4 DEF Scan
  <2>3. OfSymbols(file'.symbols) /\ file'.days \in Seq(Rows) /\ judged' \in Judgements
    BY <2>1, RankedFileIsTyped DEF ListShape
  <2>4. OfSymbols(RankSurges(today, history))
    <3>1. history \in Seq(Rows)
      BY <2>1, NoRowsAreRows, Zenon
    <3>. QED  BY <3>1, SurgesAreOfSymbols
  <2>5. OfSymbols(watchlist') /\ OfSymbols(kept') /\ OfSymbols(surviving') /\ OfSymbols(surges')
    BY <2>1, <2>4, ListsAreOfSymbols DEF Returns
  <2>. QED  BY <2>2, <2>3, <2>5
<1>5. CASE ScanFails
  BY <1>5, ListsAreOfSymbols DEF ScanFails, Returns
<1>6. CASE AddSurges
  <2>1. /\ kept' = <<>> /\ surviving' = <<>> /\ surges' = <<>>
        /\ UNCHANGED <<listDay, fallback, screenedOn, everScreened, world, judged>>
    BY <1>6 DEF AddSurges, Returns
  <2>2. file'.days \in Seq(Rows)
    <3>1. file'.days \in {file.days, <<>>}
      BY <1>6, Added
    <3>. QED  BY <3>1, NoRowsAreRows, Zenon
  <2>. QED  BY <1>6, <2>1, <2>2, AddedSymbols, ListsAreOfSymbols
<1>7. CASE ApplyFails
  BY <1>7, ListsAreOfSymbols DEF ApplyFails, Returns
<1>8. CASE RunCycle
  BY <1>8 DEF RunCycle, applyVars
<1>9. CASE RestartBot
  <2>1. everScreened' \in BOOLEAN /\ screenedOn' \in 0..LastListDay
    <3>1. everScreened' = FALSE /\ screenedOn' = 0
      BY <1>9 DEF RestartBot
    <3>2. everScreened' \in BOOLEAN
      BY <3>1, Zenon
    <3>. QED  BY <1>0, <3>1, <3>2
  <2>2. UNCHANGED <<world, file, judged>> /\ listDay' \in 1..LastListDay
    BY <1>9 DEF RestartBot
  <2>3. /\ OfSymbols(watchlist') /\ OfSymbols(fallback')
        /\ OfSymbols(kept') /\ OfSymbols(surviving') /\ OfSymbols(surges')
    BY <1>9, ListsAreOfSymbols DEF RestartBot
  <2>. QED  BY <2>1, <2>2, <2>3
<1>10. CASE RankTurnover
  <2>1. PICK ranks \in Rankings : AppendRanks(ranks)
    BY <1>10 DEF RankTurnover
  <2>2. OfSymbols(file'.symbols) /\ file'.days \in Seq(Rows) /\ judged' \in Judgements
    BY <2>1, RankedFileIsTyped DEF ListShape
  <2>. QED  BY <1>10, <2>2 DEF RankTurnover, applyVars
<1>11. CASE UNCHANGED listVars
  BY <1>11 DEF listVars, applyVars
<1>. QED  BY <1>1, <1>2, <1>3, <1>4, <1>5, <1>6, <1>7, <1>8, <1>9,
             <1>10, <1>11
          DEF ListNext

\* The lists, the file and what was judged keep their types: in particular
\* every place of a sorted ranking is taken (attention.py), and what is stored
\* and read back are rows and symbols.
THEOREM ListTypeCorrect == ListSpec => []ListTypeOK
<1>1. ListInit => ListShape /\ ListTypes
  BY ShapeAtStart, TypedAtStart
<1>2. ListShape /\ ListTypes /\ [ListNext]_listVars => (ListShape /\ ListTypes)'
  BY ShapeStays, TypesStay
<1>3. ListShape /\ ListTypes => ListTypeOK
  <2>1. \A s : OfSymbols(s) => s \in Seq(ListSymbols)
    BY SeqOfMembers DEF OfSymbols
  <2>. QED  BY <2>1 DEF ListShape, ListTypes, ListTypeOK, Rows, Judgements
<1>. QED  BY <1>1, <1>2, <1>3, PTL DEF ListSpec

-----------------------------------------------------------------------------
(* The length of the list *)

ListBudget ==
    Len(watchlist) <= Slots \/ (point = "top" /\ screenedOn = 0 /\ ~waiting)

\* Only the fixed list of a fresh start may be too long, and it is screened or
\* replaced before a cycle looks at it.
THEOREM BudgetHolds == ListSpec => []ListWithinBudget
<1>1. ListInit => ListShape /\ ListBudget
  <2>1. ListInit => ListBudget
    BY DEF ListInit, ListBudget
  <2>. QED  BY <2>1, ShapeAtStart
<1>2. ListShape /\ ListBudget /\ [ListNext]_listVars => (ListShape /\ ListBudget)'
  <2>. SUFFICES ASSUME ListShape, ListBudget, [ListNext]_listVars PROVE ListBudget'
    BY ShapeStays
  <2>. USE DEF ListBudget
  <2>1. CASE Refresh
    BY <2>1, Refreshed
  <2>2. CASE KeepList
    <3>1. ~(screenedOn = 0 /\ ~waiting)
      BY <2>2 DEF KeepList, ListShape
    <3>. QED  BY <2>2, <3>1 DEF KeepList
  <2>3. CASE Carry
    BY <2>3 DEF Carry
  <2>4. CASE Scan
    <3>1. watchlist' \in {watchlist, kept}
      BY <2>4 DEF Scan
    <3>2. point = "scan" /\ Len(kept) <= Slots
      BY <2>4 DEF Scan, ListShape
    <3>. QED  BY <3>1, <3>2
  <2>5. CASE ScanFails
    BY <2>5 DEF ScanFails, ListShape
  <2>6. CASE AddSurges
    <3>1. PICK added : /\ AnySeq(added) /\ watchlist' = kept \o added
                       /\ Len(kept) + Len(added) <= Slots
      BY <2>6, Added
    <3>2. Len(kept \o added) = Len(kept) + Len(added)
      BY <3>1, Joined DEF ListShape
    <3>. QED  BY <3>1, <3>2
  <2>7. CASE ApplyFails
    BY <2>7 DEF ApplyFails
  <2>8. CASE RunCycle
    BY <2>8 DEF RunCycle
  <2>9. CASE RestartBot
    BY <2>9 DEF RestartBot
  <2>10. CASE RankTurnover
    BY <2>10 DEF RankTurnover
  <2>11. CASE UNCHANGED listVars
    BY <2>11 DEF listVars
  <2>. QED  BY <2>1, <2>2, <2>3, <2>4, <2>5, <2>6, <2>7, <2>8, <2>9, <2>10, <2>11
            DEF ListNext
<1>3. ListBudget => ListWithinBudget
  BY DEF ListBudget, ListWithinBudget
<1>. QED  BY <1>1, <1>2, <1>3, PTL DEF ListSpec

-----------------------------------------------------------------------------
(* The fallback list *)

FallbackInv ==
    /\ ~everScreened => fallback = Fixed
    /\ FallbackRecovers

\* However many screenings have failed, every tradeable symbol of the fixed
\* list is looked at while slots are left (_refresh_watchlist_async).
THEOREM FallbackNeverWearsDown == ListSpec => []FallbackRecovers
<1>1. ListInit => ListShape /\ FallbackInv
  <2>1. ListInit => FallbackInv
    BY DEF ListInit, FallbackInv, FallbackRecovers
  <2>. QED  BY <2>1, ShapeAtStart
<1>2. ListShape /\ FallbackInv /\ [ListNext]_listVars => (ListShape /\ FallbackInv)'
  <2>. SUFFICES ASSUME ListShape, FallbackInv, [ListNext]_listVars PROVE FallbackInv'
    BY ShapeStays
  <2>1. CASE Refresh
    <3>1. /\ AnySeq(watchlist')
          /\ ~everScreened' => fallback' = fallback /\ ~everScreened
          /\ ~everScreened' /\ Len(watchlist') < Slots =>
                 \A s \in ToSet(fallback) : world'[s] = "ok" => s \in ToSet(watchlist')
      BY <2>1, Refreshed
    <3>2. \A s : Contains(watchlist', s) <=> s \in ToSet(watchlist')
      BY <3>1, SequenceFacts
    <3>. QED  BY <3>1, <3>2 DEF FallbackInv, FallbackRecovers
  <2>2. CASE KeepList \/ Carry \/ Scan \/ ScanFails \/ AddSurges \/ ApplyFails
             \/ RunCycle
    <3>1. point' # "attend"
      BY <2>2 DEF KeepList, Carry, Scan, ScanFails, AddSurges, ApplyFails, RunCycle, Returns
    <3>2. UNCHANGED <<everScreened, fallback>>
      BY <2>2 DEF KeepList, Carry, Scan, ScanFails, AddSurges, ApplyFails, RunCycle
    <3>. QED  BY <3>1, <3>2 DEF FallbackInv, FallbackRecovers
  <2>3. CASE RestartBot
    BY <2>3 DEF RestartBot, FallbackInv, FallbackRecovers
  <2>4. CASE RankTurnover \/ UNCHANGED listVars
    BY <2>4 DEF RankTurnover, listVars, FallbackInv, FallbackRecovers
  <2>. QED  BY <2>1, <2>2, <2>3, <2>4 DEF ListNext
<1>3. FallbackInv => FallbackRecovers
  BY DEF FallbackInv
<1>. QED  BY <1>1, <1>2, <1>3, PTL DEF ListSpec

-----------------------------------------------------------------------------
(* What the judgement says stays on record *)

\* While the judgement is carried out, the surviving symbols are at hand, and a
\* dropped one cannot come back as a surge: either it is among the kept
\* symbols, or these leave no room.
JudgementInv ==
    /\ judged = [survived |-> judged.survived, dropped |-> judged.dropped,
                 unread |-> judged.unread]
    /\ DroppedStayDropped /\ SurvivorsStayOnRecord
    /\ point \in {"scan", "add"} =>
          /\ judged.survived \subseteq ToSet(surviving)
          /\ judged.dropped \cap ToSet(surviving) = {}
          /\ judged.dropped \subseteq ToSet(kept) \/ Len(kept) = Slots

\* A ranking that is recorded leaves the symbols and what is said of them, or
\* it marks them as unreadable and leaves none.
LEMMA RankedJudgement ==
    ASSUME FileShape, JudgementInv, NEW ranks, AppendRanks(ranks)
    PROVE  /\ judged' = [survived |-> judged'.survived, dropped |-> judged'.dropped,
                         unread |-> judged'.unread]
           /\ judged'.survived = judged.survived /\ judged'.dropped = judged.dropped
           /\ DroppedStayDropped' /\ SurvivorsStayOnRecord'
<1>. USE DEF JudgementInv, DroppedStayDropped, SurvivorsStayOnRecord
<1>1. CASE UNCHANGED <<file, judged>>
  BY <1>1
<1>2. ASSUME NEW f \in AsRead(file), file' = WithRanks(f, listDay, ranks),
             judged' = IF f.symbols = file.symbols THEN judged
                       ELSE [judged EXCEPT !.unread = TRUE]
      PROVE  /\ judged' = [survived |-> judged'.survived, dropped |-> judged'.dropped,
                           unread |-> judged'.unread]
             /\ judged'.survived = judged.survived /\ judged'.dropped = judged.dropped
             /\ DroppedStayDropped' /\ SurvivorsStayOnRecord'
  <2>1. f = [days |-> f.days, symbols |-> f.symbols] /\ f.symbols \in {file.symbols, <<>>}
    BY ReadFile
  <2>2. file'.symbols = f.symbols
    BY <1>2, <2>1 DEF WithRanks
  <2>3. CASE f.symbols = file.symbols
    BY <1>2, <2>2, <2>3
  <2>4. CASE f.symbols # file.symbols
    <3>1. ToSet(file'.symbols) = {}
      BY <2>1, <2>2, <2>4 DEF ToSet
    <3>2. judged' = [survived |-> judged.survived, dropped |-> judged.dropped,
                     unread |-> TRUE]
      BY <1>2, <2>4
    <3>. QED  BY <3>1, <3>2
  <2>. QED  BY <2>3, <2>4
<1>. QED  BY <1>1, <1>2 DEF AppendRanks

\* Every step keeps what is judged of the symbols on the list.
LEMMA JudgementStays ==
    ListShape /\ JudgementInv /\ [ListNext]_listVars => JudgementInv'
<1>. SUFFICES ASSUME ListShape, JudgementInv, [ListNext]_listVars PROVE JudgementInv'
  OBVIOUS
<1>. USE DEF JudgementInv, DroppedStayDropped, SurvivorsStayOnRecord
<1>1. CASE KeepList \/ Refresh \/ ApplyFails \/ ScanFails \/ RunCycle \/ RestartBot
  <2>1. point' \notin {"scan", "add"} /\ UNCHANGED <<file, judged>>
    BY <1>1 DEF KeepList, Refresh, ApplyFails, ScanFails, RunCycle, RestartBot, Returns
  <2>. QED  BY <2>1
<1>2. CASE Carry
  <2>1. /\ judged' = [survived |-> judged'.survived, dropped |-> judged'.dropped,
                      unread |-> judged'.unread]
        /\ \/ judged' = NotJudged
           \/ /\ file'.symbols = surviving' /\ judged'.survived = ToSet(surviving')
              /\ judged'.dropped \cap ToSet(surviving') = {}
              /\ \/ Len(kept') = Slots
                 \/ judged'.dropped \subseteq ToSet(kept')
    BY <1>2, Carried
  <2>2. CASE judged' = NotJudged
    BY <2>1, <2>2 DEF NotJudged
  <2>3. CASE judged' # NotJudged
    BY <2>1, <2>3
  <2>. QED  BY <2>2, <2>3
<1>3. CASE Scan
  <2>1. PICK today \in Rankings : AppendRanks(today)
    BY <1>3 DEF Scan
  <2>2. UNCHANGED <<surviving, kept>> \/ point' = "cycle"
    BY <1>3 DEF Scan, Returns
  <2>3. point = "scan"
    BY <1>3 DEF Scan
  <2>. QED  BY <2>1, <2>2, <2>3, RankedJudgement DEF ListShape
<1>4. CASE AddSurges
  <2>1. PICK added : /\ AnySeq(added)
                     /\ file'.symbols \in {file.symbols, surviving \o added}
                     /\ ToSet(added) \cap ToSet(kept) = {}
                     /\ Len(kept) = Slots => ToSet(added) = {}
    BY <1>4, Added
  <2>2. ToSet(surviving \o added) = ToSet(surviving) \cup ToSet(added)
    BY <2>1, Joined DEF ListShape
  <2>3. point = "add" /\ point' = "cycle" /\ UNCHANGED judged
    BY <1>4 DEF AddSurges, Returns
  <2>4. judged.dropped \cap ToSet(added) = {}
    BY <2>1, <2>3
  <2>. QED  BY <2>1, <2>2, <2>3, <2>4
<1>5. CASE RankTurnover
  <2>1. PICK ranks \in Rankings : AppendRanks(ranks)
    BY <1>5 DEF RankTurnover
  <2>. QED  BY <1>5, <2>1, RankedJudgement DEF RankTurnover, applyVars, ListShape
<1>6. CASE UNCHANGED listVars
  BY <1>6 DEF listVars, applyVars
<1>. QED  BY <1>1, <1>2, <1>3, <1>4, <1>5, <1>6 DEF ListNext

\* The invariant of the judgement holds throughout.
LEMMA JudgementHolds == ListSpec => []JudgementInv
<1>1. ListInit => ListShape /\ JudgementInv
  <2>1. ListInit => JudgementInv
    BY DEF ListInit, JudgementInv, DroppedStayDropped, SurvivorsStayOnRecord, NotJudged
  <2>. QED  BY <2>1, ShapeAtStart
<1>2. ListShape /\ JudgementInv /\ [ListNext]_listVars => (ListShape /\ JudgementInv)'
  BY ShapeStays, JudgementStays
<1>. QED  BY <1>1, <1>2, PTL DEF ListSpec

\* A symbol that was judged untradeable does not come back on record before the
\* next judgement, not even as a surge of the same turn.
THEOREM DroppedAreGone == ListSpec => []DroppedStayDropped
<1>1. JudgementInv => DroppedStayDropped
  BY DEF JudgementInv
<1>. QED  BY <1>1, JudgementHolds, PTL

\* A symbol that survived the judgement stays on record, whatever is written
\* beside it or fails to be, unless a ranking was written while the symbols
\* could not be read.
THEOREM SurvivorsAreKept == ListSpec => []SurvivorsStayOnRecord
<1>1. JudgementInv => SurvivorsStayOnRecord
  BY DEF JudgementInv
<1>. QED  BY <1>1, JudgementHolds, PTL

-----------------------------------------------------------------------------
(* The rows of the ranking *)

\* A day has one row, however often it is scanned or ranked by hand and
\* whatever could be read of the file before, and the rows stand in order and
\* within their bound.
THEOREM DaysHaveOneRow == ListSpec => []OneRowPerDay
<1>1. ListInit => ListShape /\ RowsInOrder(file, listDay)
  <2>. SUFFICES ASSUME ListInit PROVE RowsInOrder(file, listDay)
    BY ShapeAtStart
  <2>1. file.days = <<>> /\ MaxHistoryDays \in Nat
    BY WatchlistAssumption DEF ListInit, NoFile, WatchlistAssumption
  <2>. QED  BY <2>1, EmptyIsASeq DEF RowsInOrder
<1>2. ListShape /\ RowsInOrder(file, listDay) /\ [ListNext]_listVars
          => (ListShape /\ RowsInOrder(file, listDay))'
  <2>. SUFFICES ASSUME ListShape, RowsInOrder(file, listDay), [ListNext]_listVars
                PROVE  RowsInOrder(file, listDay)'
    BY ShapeStays
  <2>0. ASSUME NEW days \in {file.days, <<>>}, NEW f, f.days = days
        PROVE  RowsInOrder(f, listDay)
    <3>1. MaxHistoryDays \in Nat
      BY WatchlistAssumption DEF WatchlistAssumption
    <3>2. CASE days = <<>>
      BY <2>0, <3>1, <3>2, EmptyIsASeq DEF RowsInOrder
    <3>3. CASE days = file.days
      BY <2>0, <3>3 DEF RowsInOrder
    <3>. QED  BY <3>2, <3>3
  <2>1. ASSUME NEW ranks, AppendRanks(ranks), UNCHANGED listDay
        PROVE  RowsInOrder(file, listDay)'
    <3>1. CASE UNCHANGED <<file, judged>>
      BY <2>1, <3>1
    <3>2. ASSUME NEW f \in AsRead(file), file' = WithRanks(f, listDay, ranks)
          PROVE  RowsInOrder(file, listDay)'
      <4>1. f = [days |-> f.days, symbols |-> f.symbols] /\ RowsInOrder(f, listDay)
        BY <2>0, ReadFile DEF ListShape
      <4>2. RowsInOrder(WithRanks(f, listDay, ranks), listDay)
        BY <4>1, RowsStayInOrder DEF ListShape
      <4>. QED  BY <2>1, <3>2, <4>2
    <3>. QED  BY <2>1, <3>1, <3>2 DEF AppendRanks
  <2>2. ASSUME file'.days \in {file.days, <<>>}, listDay' \in Nat \ {0},
               listDay <= listDay'
        PROVE  RowsInOrder(file, listDay)'
    <3>1. RowsInOrder(file', listDay)
      BY <2>0, <2>2
    <3>2. \A i \in DOMAIN file'.days : /\ file'.days[i].date \in Nat
                                       /\ file'.days[i].date <= listDay'
      BY <2>2, <3>1 DEF RowsInOrder, ListShape
    <3>. QED  BY <3>1, <3>2 DEF RowsInOrder
  <2>3. listDay <= listDay
    BY DEF ListShape
  <2>4. CASE Refresh \/ KeepList \/ ScanFails \/ ApplyFails \/ UNCHANGED listVars
    BY <2>2, <2>3, <2>4 DEF Refresh, KeepList, ScanFails, ApplyFails, listVars, ListShape
  <2>5. CASE Carry
    <3>1. file'.days \in {file.days, <<>>} /\ UNCHANGED listDay
      BY <2>5, Carried DEF Carry
    <3>. QED  BY <2>2, <2>3, <3>1 DEF ListShape
  <2>6. CASE Scan
    BY <2>1, <2>6 DEF Scan
  <2>7. CASE AddSurges
    <3>1. file'.days \in {file.days, <<>>} /\ UNCHANGED listDay
      BY <2>7, Added DEF AddSurges
    <3>. QED  BY <2>2, <2>3, <3>1 DEF ListShape
  <2>8. CASE RunCycle \/ RestartBot
    <3>1. UNCHANGED file /\ listDay' \in Nat \ {0} /\ listDay <= listDay'
      BY <2>8, DaysGoOn DEF RunCycle, RestartBot, ListShape
    <3>. QED  BY <2>2, <3>1
  <2>9. CASE RankTurnover
    BY <2>1, <2>9 DEF RankTurnover
  <2>. QED  BY <2>4, <2>5, <2>6, <2>7, <2>8, <2>9 DEF ListNext
<1>3. RowsInOrder(file, listDay) => OneRowPerDay
  BY DEF RowsInOrder, OneRowPerDay
<1>. QED  BY <1>1, <1>2, <1>3, PTL DEF ListSpec

-----------------------------------------------------------------------------
(* The price band *)

\* An amount of settled cash that was read, or none.
Readings == {{}} \cup {{c} : c \in Int}

\* What the division of the sizes does: n shares of p fit into m exactly if n
\* is at most the quotient.
LEMMA DivisionFits ==
    ASSUME NEW m \in Nat, NEW p \in Nat \ {0}
    PROVE  /\ m \div p \in Nat
           /\ (m \div p) * p <= m
           /\ \A n \in Nat : n * p <= m => n <= m \div p
           /\ \A n \in Nat : n <= m \div p => n * p <= m
OBVIOUS

\* The percentages and limits are positive numbers.
LEMMA LimitsArePositive ==
    /\ RiskPct \in Nat \ {0} /\ StopLossPct \in Nat \ {0}
    /\ MaxPositionSize \in Nat \ {0} /\ MaxOrderNotional \in Nat \ {0}
BY RulesAssumption, BandAssumption DEF RulesAssumption, BandAssumption

\* A natural number is not below zero.
LEMMA MaxWithZero == ASSUME NEW n \in Nat PROVE Max({0, n}) = n
<1>1. n \in {0, n} /\ \A y \in {0, n} : n >= y
  OBVIOUS
<1>2. \A x \in {0, n} : (\A y \in {0, n} : x >= y) => x = n
  OBVIOUS
<1>. QED  BY <1>1, <1>2 DEF Max

\* The size is the risk of the trade over the risk of a share.
LEMMA SizeIsTheQuotient ==
    ASSUME NEW equity \in Nat, NEW price \in Nat \ {0}
    PROVE  /\ equity * RiskPct \in Nat /\ price * StopLossPct \in Nat \ {0}
           /\ PositionSize(equity, price) = (equity * RiskPct) \div (price * StopLossPct)
<1>1. equity * RiskPct \in Nat /\ price * StopLossPct \in Nat \ {0}
  BY LimitsArePositive
<1>2. (equity * RiskPct) \div (price * StopLossPct) \in Nat
  BY <1>1, DivisionFits
<1>. QED  BY <1>1, <1>2, MaxWithZero DEF PositionSize

\* The smaller of two numbers is one of them.
LEMMA SmallerIsOneOfBoth ==
    ASSUME NEW m \in Nat, NEW n \in Nat
    PROVE  /\ Smaller(m, n) \in Nat
           /\ Smaller(m, n) <= m /\ Smaller(m, n) <= n
           /\ \A k \in Nat : k <= m /\ k <= n => k <= Smaller(m, n)
BY DEF Smaller

\* What is left of a size is paid with settled cash.
LEMMA FundedIsPaid ==
    ASSUME NEW quantity \in Nat, NEW cash \in Readings, NEW price \in Nat \ {0}
    PROVE  LET funded == Funded(quantity, cash, price)
           IN  /\ funded \in Nat /\ funded <= quantity
               /\ \A c \in cash : funded > 0 => funded * price <= c
               /\ (\A c \in cash : price <= c) /\ quantity > 0 => funded > 0
<1>1. CASE cash = {}
  BY <1>1 DEF Funded
<1>2. CASE cash # {}
  <2>1. PICK c \in Int : cash = {c}
    BY <1>2 DEF Readings
  <2>2. (CHOOSE x \in cash : TRUE) = c
    BY <2>1
  <2>3. CASE c < price
    BY <2>1, <2>2, <2>3 DEF Funded
  <2>4. CASE c >= price
    <3>1. c \in Nat
      BY <2>4
    <3>2. Funded(quantity, cash, price) = Smaller(quantity, c \div price)
      BY <2>1, <2>2, <2>4 DEF Funded
    <3>3. c \div price \in Nat /\ \A n \in Nat : n <= c \div price => n * price <= c
      BY <3>1, DivisionFits
    <3>4. 1 <= c \div price
      BY <3>1, <2>4, DivisionFits
    <3>. DEFINE paid == c \div price
                funded == Funded(quantity, cash, price)
    <3>5. /\ funded \in Nat /\ funded <= quantity /\ funded <= paid
          /\ quantity > 0 => 1 <= funded
      <4>1. paid \in Nat /\ 1 <= paid /\ funded = Smaller(quantity, paid)
        BY <3>2, <3>3, <3>4
      <4>. HIDE DEF paid, funded
      <4>. QED  BY <4>1, SmallerIsOneOfBoth
    <3>6. funded * price <= c
      <4>. HIDE DEF funded
      <4>. QED  BY <3>3, <3>5
    <3>. HIDE DEF funded, paid
    <3>. QED  BY <2>1, <3>5, <3>6 DEF funded
  <2>. QED  BY <2>1, <2>3, <2>4
<1>. QED  BY <1>1, <1>2

\* A size that is cut keeps the limits of an order.
LEMMA ClampKeepsOrderLimits ==
    ASSUME NEW quantity \in Nat, NEW price \in Nat \ {0}
    PROVE  LET clamped == ClampedToOrder(quantity, price)
           IN  /\ clamped \in Nat /\ clamped <= quantity
               /\ clamped <= MaxPositionSize
               /\ clamped * price <= MaxOrderNotional
               /\ quantity > 0 /\ price <= MaxOrderNotional => clamped > 0
<1>. DEFINE some == Smaller(quantity, MaxPositionSize)
            most == MaxOrderNotional \div price
<1>1. /\ some \in Nat /\ some <= quantity /\ some <= MaxPositionSize
      /\ quantity > 0 => some > 0
  BY LimitsArePositive, SmallerIsOneOfBoth DEF Smaller
<1>2. /\ most \in Nat /\ \A n \in Nat : n <= most => n * price <= MaxOrderNotional
      /\ price <= MaxOrderNotional => 1 <= most
  BY LimitsArePositive, DivisionFits
<1>3. ClampedToOrder(quantity, price) = Smaller(some, most)
  BY DEF ClampedToOrder
<1>. HIDE DEF some, most
<1>4. LET clamped == Smaller(some, most)
      IN  /\ clamped \in Nat /\ clamped <= some /\ clamped <= most
          /\ some > 0 /\ most >= 1 => clamped > 0
  BY <1>1, <1>2 DEF Smaller
<1>. DEFINE clamped == Smaller(some, most)
<1>. HIDE DEF clamped
<1>5. clamped \in Nat /\ clamped <= quantity /\ clamped <= MaxPositionSize
  BY <1>1, <1>4, LimitsArePositive DEF clamped
<1>6. clamped * price <= MaxOrderNotional
  BY <1>2, <1>4 DEF clamped
<1>7. quantity > 0 /\ price <= MaxOrderNotional => clamped > 0
  BY <1>1, <1>2, <1>4 DEF clamped
<1>. QED  BY <1>3, <1>5, <1>6, <1>7 DEF clamped

-----------------------------------------------------------------------------

\* Whatever the account holds, an entry keeps the limits of shares and of
\* money, is paid with settled cash if that could be read, and loses at its
\* stop no more than the risk allowed for a trade: the size of a trade and the
\* two clamps, in the order of _process_entry_async.
THEOREM EntryKeepsLimits ==
    ASSUME NEW equity \in Nat, NEW cash \in Readings, NEW price \in Nat \ {0}
    PROVE  LET quantity == EntryQuantity(equity, cash, price)
           IN  /\ quantity \in 0..MaxPositionSize
               /\ quantity * price <= MaxOrderNotional
               /\ \A c \in cash : quantity > 0 => quantity * price <= c
               /\ quantity * (price * StopLossPct) <= equity * RiskPct
<1>. DEFINE sized == PositionSize(equity, price)
            funded == Funded(sized, cash, price)
            quantity == EntryQuantity(equity, cash, price)
<1>1. sized \in Nat /\ \A n \in Nat : n <= sized => n * (price * StopLossPct) <= equity * RiskPct
  BY SizeIsTheQuotient, DivisionFits
<1>2. /\ funded \in Nat /\ funded <= sized
      /\ \A c \in cash : funded > 0 => funded * price <= c
  BY <1>1, FundedIsPaid
<1>3. quantity = IF sized <= 0 \/ funded <= 0 THEN 0 ELSE ClampedToOrder(funded, price)
  BY DEF EntryQuantity
<1>4. /\ quantity \in Nat /\ quantity <= funded /\ quantity <= MaxPositionSize
      /\ quantity * price <= MaxOrderNotional
  <2>1. CASE quantity = 0
    BY <2>1, <1>2, LimitsArePositive
  <2>2. CASE quantity = ClampedToOrder(funded, price)
    BY <2>2, <1>2, ClampKeepsOrderLimits
  <2>. QED  BY <1>3, <2>1, <2>2
<1>. HIDE DEF sized, funded, quantity
<1>5. \A c \in cash : quantity > 0 => quantity * price <= c
  <2>1. SUFFICES ASSUME NEW c \in cash, quantity > 0
                 PROVE  quantity * price <= c
    OBVIOUS
  <2>2. c \in Int
    BY DEF Readings
  <2>3. funded * price <= c
    BY <1>2, <1>4, <2>1
  <2>4. quantity * price <= funded * price
    BY <1>2, <1>4
  <2>. QED  BY <1>2, <1>4, <2>2, <2>3, <2>4
<1>6. quantity * (price * StopLossPct) <= equity * RiskPct
  BY <1>1, <1>2, <1>4
<1>. QED  BY <1>4, <1>5, <1>6, LimitsArePositive DEF quantity

\* A price above the band is one of which no share would be bought, and below
\* MAX_ORDER_NOTIONAL_USD no other price is kept out: what the comments of
\* resolve_max_affordable_price promise.
THEOREM AboveBandMeansNothingToBuy ==
    ASSUME NEW equity \in Nat \ {0}, NEW cash \in Readings, NEW price \in Nat \ {0},
           \A c \in cash : c > 0, price <= MaxOrderNotional
    PROVE  NotAboveBand(equity, cash, price) <=> EntryQuantity(equity, cash, price) > 0
<1>. DEFINE sized == PositionSize(equity, price)
            funded == Funded(sized, cash, price)
            enough == \A c \in cash : price <= c
<1>1. cash \subseteq Int
  BY DEF Readings
<1>2. /\ sized \in Nat
      /\ sized > 0 <=> price * StopLossPct <= equity * RiskPct
  <2>1. /\ sized \in Nat /\ equity * RiskPct \in Nat /\ price * StopLossPct \in Nat \ {0}
        /\ \A n \in Nat : n * (price * StopLossPct) <= equity * RiskPct => n <= sized
        /\ \A n \in Nat : n <= sized => n * (price * StopLossPct) <= equity * RiskPct
    <3>1. /\ equity * RiskPct \in Nat /\ price * StopLossPct \in Nat \ {0}
          /\ sized = (equity * RiskPct) \div (price * StopLossPct)
      BY SizeIsTheQuotient
    <3>. HIDE DEF sized
    <3>. QED  BY <3>1, DivisionFits
  <2>. HIDE DEF sized
  <2>2. price * StopLossPct <= equity * RiskPct => 1 <= sized
    BY <2>1
  <2>3. 1 <= sized => price * StopLossPct <= equity * RiskPct
    BY <2>1
  <2>. QED  BY <2>1, <2>2, <2>3
<1>3. /\ funded \in Nat /\ funded <= sized
      /\ enough /\ sized > 0 => funded > 0
      /\ \A c \in cash : funded > 0 => funded * price <= c
  BY <1>2, FundedIsPaid
<1>4. funded > 0 => enough
  <2>1. SUFFICES ASSUME funded > 0, NEW c \in cash PROVE price <= c
    OBVIOUS
  <2>2. funded * price <= c /\ price <= funded * price
    BY <1>3, <2>1
  <2>. QED  BY <1>1, <1>3, <2>2
<1>5. EntryQuantity(equity, cash, price) > 0 <=> sized > 0 /\ funded > 0
  <2>1. ClampedToOrder(funded, price) > 0 \/ funded = 0
    BY <1>3, ClampKeepsOrderLimits
  <2>. QED  BY <1>2, <1>3, <2>1 DEF EntryQuantity
<1>6. NotAboveBand(equity, cash, price) <=> price * StopLossPct <= equity * RiskPct /\ enough
  BY DEF NotAboveBand
<1>. HIDE DEF sized, funded, enough
<1>. QED  BY <1>2, <1>3, <1>4, <1>5, <1>6

\* A price that is not below the band has a size that MAX_POSITION_SIZE does
\* not cut, so that the trade bears the risk it was measured with
\* (resolve_min_tradeable_price).
THEOREM InBandSizeIsWhole ==
    ASSUME NEW equity \in Nat \ {0}, NEW price \in Nat \ {0}, NotBelowBand(equity, price)
    PROVE  PositionSize(equity, price) <= MaxPositionSize
<1>. DEFINE risk == price * StopLossPct
<1>1. /\ PositionSize(equity, price) \in Nat /\ risk \in Nat \ {0}
      /\ PositionSize(equity, price) * risk <= equity * RiskPct /\ equity * RiskPct \in Nat
  BY SizeIsTheQuotient, DivisionFits
<1>2. equity * RiskPct <= risk * MaxPositionSize
  BY DEF NotBelowBand
<1>3. \A m, n \in Nat, r \in Nat \ {0} : m * r <= r * n => m <= n
  OBVIOUS
<1>. HIDE DEF risk
<1>4. PositionSize(equity, price) * risk <= risk * MaxPositionSize
  BY <1>1, <1>2, LimitsArePositive
<1>. QED  BY <1>1, <1>3, <1>4, LimitsArePositive
===============================================================================
