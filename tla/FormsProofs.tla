---------------------------- MODULE FormsProofs -----------------------------
(* Forms keeps its properties for texts and limits of any size.  The       *)
(* replacements of SanitizeInput all keep some characters of a text: what  *)
(* Keep returns is described once, by the positions it keeps, and each     *)
(* replacement is a question about two neighbouring positions.             *)
EXTENDS FormsInduction, FiniteSetTheorems, FunctionTheorems, TLAPS

-----------------------------------------------------------------------------
(* Positions: K is a finite set of numbers, and at lists it in order.      *)
Lists(at, m, K) ==
  /\ at \in [1 .. m -> K]
  /\ \A i, j \in 1 .. m : i < j => at[i] < at[j]
  /\ \A k \in K : \E i \in 1 .. m : at[i] = k

LEMMA RankType ==
  ASSUME NEW K \in SUBSET Nat, IsFiniteSet(K), NEW i \in K
  PROVE  Rank(K, i) \in 1 .. Cardinality(K)
<1> DEFINE Below == {j \in K : j <= i}
<1>1. IsFiniteSet(Below) /\ Cardinality(Below) <= Cardinality(K)
  BY FS_Subset
<1>2. Cardinality(Below) \in Nat /\ Cardinality(K) \in Nat
  BY <1>1, FS_CardinalityType
<1>3. i \in Below
  OBVIOUS
<1>4. Cardinality(Below) # 0
  BY <1>1, <1>3, FS_EmptySet
<1> QED BY <1>1, <1>2, <1>4 DEF Rank

LEMMA RankGrows ==
  ASSUME NEW K \in SUBSET Nat, IsFiniteSet(K), NEW i \in K, NEW j \in K, i < j
  PROVE  Rank(K, i) < Rank(K, j)
<1> DEFINE Below(k) == {x \in K : x <= k}
<1>1. IsFiniteSet(Below(j))
  BY FS_Subset
<1>2. Below(i) \in SUBSET Below(j) /\ Below(i) # Below(j)
  <2>1. i \in Nat /\ j \in Nat /\ j \in Below(j) /\ j \notin Below(i)
    OBVIOUS
  <2>2. \A x \in Below(i) : x \in Below(j)
    OBVIOUS
  <2> QED BY <2>1, <2>2
<1>3. /\ Cardinality(Below(i)) <= Cardinality(Below(j))
      /\ Cardinality(Below(i)) # Cardinality(Below(j))
  BY <1>1, <1>2, FS_Subset
<1>4. Rank(K, i) \in Int /\ Rank(K, j) \in Int
  BY RankType
<1> QED BY <1>3, <1>4 DEF Rank

(* Ranks are numbers 1 .. Cardinality(K), each of them taken.              *)
LEMMA RankOnto ==
  ASSUME NEW K \in SUBSET Nat, IsFiniteSet(K), NEW n \in 1 .. Cardinality(K)
  PROVE  \E i \in K : Rank(K, i) = n
<1> DEFINE m == Cardinality(K)
           rank == [i \in K |-> Rank(K, i)]
<1>0. m \in Nat
  BY FS_CardinalityType
<1>1. rank \in [K -> 1 .. m]
  BY RankType
<1>2. \A i, j \in K : rank[i] = rank[j] => i = j
  <2>1. SUFFICES ASSUME NEW i \in K, NEW j \in K, i < j
                 PROVE  rank[i] # rank[j]
    OBVIOUS
  <2>2. rank[i] \in Int /\ rank[j] \in Int /\ rank[i] < rank[j]
    BY <2>1, RankGrows, RankType
  <2> QED BY <2>2
<1>3. rank \in Injection(K, 1 .. m)
  BY <1>1, <1>2, Fun_IsInj
<1>4. IsFiniteSet(1 .. m) /\ Cardinality(1 .. m) = m
  BY <1>0, FS_Interval
<1>5. rank \in Surjection(K, 1 .. m)
  BY <1>3, <1>4, FS_Injection
<1>6. \A k \in 1 .. m : \E i \in K : rank[i] = k
  <2> HIDE DEF rank, m
  <2> QED BY <1>5, Fun_SurjectionProperties
<1> QED BY <1>6

(* The position of a rank, as Keep chooses it.                             *)
LEMMA KeptInOrder ==
  ASSUME NEW K \in SUBSET Nat, IsFiniteSet(K)
  PROVE  Lists([n \in 1 .. Cardinality(K) |-> CHOOSE i \in K : Rank(K, i) = n],
               Cardinality(K), K)
<1> DEFINE m == Cardinality(K)
           at == [n \in 1 .. m |-> CHOOSE i \in K : Rank(K, i) = n]
<1>0. m \in Nat
  BY FS_CardinalityType
<1>1. \A n \in 1 .. m : at[n] \in K /\ Rank(K, at[n]) = n
  BY RankOnto
<1>2. at \in [1 .. m -> K]
  BY <1>1
<1> HIDE DEF m, at
<1>3. ASSUME NEW i \in 1 .. m, NEW j \in 1 .. m, i < j
      PROVE  at[i] < at[j]
  <2>1. CASE at[j] < at[i]
    <3>1. Rank(K, at[j]) < Rank(K, at[i])
      BY <2>1, <1>1, RankGrows
    <3> QED BY <3>1, <1>1, <1>3, <1>0
  <2>2. CASE at[j] = at[i]
    BY <2>2, <1>1, <1>3
  <2>3. at[i] \in Nat /\ at[j] \in Nat
    BY <1>1
  <2> QED BY <2>1, <2>2, <2>3
<1>4. ASSUME NEW k \in K
      PROVE  \E i \in 1 .. m : at[i] = k
  <2> DEFINE n == Rank(K, k)
  <2>1. n \in 1 .. m
    BY RankType DEF m
  <2>2. at[n] \in K /\ Rank(K, at[n]) = Rank(K, k)
    BY <2>1, <1>1
  <2>3. ~(at[n] < k) /\ ~(k < at[n])
    <3>1. Rank(K, k) \in Int /\ at[n] \in K
      BY <2>1, <2>2, <1>0
    <3>2. at[n] < k => Rank(K, at[n]) < Rank(K, k)
      BY <3>1, RankGrows
    <3>3. k < at[n] => Rank(K, k) < Rank(K, at[n])
      BY <3>1, RankGrows
    <3> HIDE DEF n
    <3> QED BY <2>2, <3>1, <3>2, <3>3
  <2>4. at[n] = k
    <3>1. at[n] \in Nat /\ k \in Nat
      BY <2>2
    <3> QED BY <2>3, <3>1
  <2> QED BY <2>1, <2>4
<1> QED BY <1>2, <1>3, <1>4 DEF Lists, m, at

(* There is only one way to list a set in order.                           *)
LEMMA ListIsUnique ==
  ASSUME NEW K \in SUBSET Nat, NEW m \in Nat, NEW at, Lists(at, m, K)
  PROVE  /\ IsFiniteSet(K) /\ Cardinality(K) = m
         /\ \A n \in 1 .. m : Rank(K, at[n]) = n
<1>0. at \in [1 .. m -> K]
  BY DEF Lists
<1>1. \A i, j \in 1 .. m : at[i] = at[j] => i = j
  <2>1. \A i \in 1 .. m : at[i] \in Nat
    BY <1>0
  <2> QED BY <2>1 DEF Lists
<1>2. at \in Bijection(1 .. m, K)
  BY <1>0, <1>1, Fun_IsBij DEF Lists
<1>3. IsFiniteSet(1 .. m) /\ Cardinality(1 .. m) = m
  BY FS_Interval
<1>4. IsFiniteSet(K) /\ Cardinality(K) = m
  BY <1>2, <1>3, FS_Bijection DEF ExistsBijection
<1>5. ASSUME NEW n \in 1 .. m
      PROVE  Rank(K, at[n]) = n
  <2> DEFINE Below == {j \in K : j <= at[n]}
             first == [i \in 1 .. n |-> at[i]]
  <2>0. \A i \in 1 .. m : at[i] \in Nat
    BY <1>0
  <2>1. first \in [1 .. n -> Below]
    <3>1. ASSUME NEW i \in 1 .. n
          PROVE  at[i] \in Below
      <4>1. i \in 1 .. m /\ (i < n \/ i = n)
        OBVIOUS
      <4>2. at[i] <= at[n]
        BY <4>1, <2>0 DEF Lists
      <4> QED BY <4>1, <4>2, <1>0
    <3> QED BY <3>1
  <2>2. \A i, j \in 1 .. n : first[i] = first[j] => i = j
    BY <1>1
  <2>3. ASSUME NEW k \in Below
        PROVE  \E i \in 1 .. n : first[i] = k
    <3>1. PICK i \in 1 .. m : at[i] = k
      BY DEF Lists
    <3>2. ~(n < i)
      <4>1. SUFFICES ASSUME n < i PROVE FALSE
        OBVIOUS
      <4>2. at[n] < at[i]
        BY <4>1 DEF Lists
      <4>3. at[n] \in Nat /\ at[i] \in Nat /\ at[i] <= at[n]
        BY <3>1, <2>0
      <4> QED BY <4>2, <4>3
    <3> QED BY <3>1, <3>2
  <2>4. first \in Bijection(1 .. n, Below)
    BY <2>1, <2>2, <2>3, Fun_IsBij
  <2>5. IsFiniteSet(1 .. n) /\ Cardinality(1 .. n) = n
    BY FS_Interval
  <2>6. Cardinality(Below) = n
    BY <2>4, <2>5, FS_Bijection DEF ExistsBijection
  <2> QED BY <2>6 DEF Rank
<1> QED BY <1>4, <1>5

(* Nothing of K lies between two neighbours of its list, or outside it.    *)
LEMMA Neighbours ==
  ASSUME NEW K \in SUBSET Nat, NEW m \in Nat, NEW at, Lists(at, m, K),
         NEW k \in K
  PROVE  /\ \A n \in 2 .. m : ~(at[n - 1] < k /\ k < at[n])
         /\ m >= 1 /\ at[1] <= k /\ k <= at[m]
<1>1. PICK i \in 1 .. m : at[i] = k
  BY DEF Lists
<1>2. \A j \in 1 .. m : at[j] \in Nat
  BY DEF Lists
<1>3. \A j \in 1 .. m : j < i => at[j] < k
  BY <1>1 DEF Lists
<1>4. \A j \in 1 .. m : i < j => k < at[j]
  BY <1>1 DEF Lists
<1>5. ASSUME NEW n \in 2 .. m
      PROVE  ~(at[n - 1] < k /\ k < at[n])
  <2>1. n \in 1 .. m /\ n - 1 \in 1 .. m /\ k \in Nat
    OBVIOUS
  <2>2. i <= n - 1 \/ n <= i
    BY <2>1
  <2>3. CASE i <= n - 1
    <3>1. i < n - 1 => k < at[n - 1]
      BY <2>1, <1>4
    <3>2. i = n - 1 => k = at[n - 1]
      BY <1>1
    <3> QED BY <2>1, <2>3, <3>1, <3>2, <1>2
  <2>4. CASE n <= i
    <3>1. n < i => at[n] < k
      BY <2>1, <1>3
    <3>2. i = n => k = at[n]
      BY <1>1
    <3> QED BY <2>1, <2>4, <3>1, <3>2, <1>2
  <2> QED BY <2>2, <2>3, <2>4
<1>6. m >= 1 /\ 1 \in 1 .. m /\ m \in 1 .. m
  OBVIOUS
<1>7. at[1] <= k
  BY <1>1, <1>2, <1>3, <1>6
<1>8. k <= at[m]
  BY <1>1, <1>2, <1>4, <1>6
<1> QED BY <1>5, <1>6, <1>7, <1>8

Kept(s, I) == I \cap DOMAIN s

(* What Keep returns: the kept characters in their order.                  *)
LEMMA KeepLists ==
  ASSUME NEW S, NEW s \in Seq(S), NEW I
  PROVE  /\ Keep(s, I) \in Seq(S)
         /\ Len(Keep(s, I)) = Cardinality(Kept(s, I))
         /\ Len(Keep(s, I)) <= Len(s)
         /\ \E at : /\ Lists(at, Len(Keep(s, I)), Kept(s, I))
                    /\ \A n \in 1 .. Len(Keep(s, I)) : Keep(s, I)[n] = s[at[n]]
<1> DEFINE K == Kept(s, I)
           m == Cardinality(K)
           at == [n \in 1 .. m |-> CHOOSE i \in K : Rank(K, i) = n]
<1>1. Len(s) \in Nat /\ DOMAIN s = 1 .. Len(s)
  OBVIOUS
<1>2. IsFiniteSet(1 .. Len(s)) /\ Cardinality(1 .. Len(s)) = Len(s)
  BY <1>1, FS_Interval
<1>3. IsFiniteSet(K) /\ m <= Len(s) /\ m \in Nat
  BY <1>1, <1>2, FS_Subset, FS_CardinalityType DEF Kept
<1>4. K \in SUBSET Nat /\ K \subseteq DOMAIN s
  BY <1>1 DEF Kept
<1>5. Lists(at, m, K)
  BY <1>3, <1>4, KeptInOrder
<1>6. Keep(s, I) = [n \in 1 .. m |-> s[at[n]]]
  BY DEF Keep, Kept
<1> HIDE DEF at, m, K
<1>7. \A n \in 1 .. m : at[n] \in DOMAIN s
  BY <1>4, <1>5 DEF Lists
<1>8. \A n \in 1 .. m : s[at[n]] \in S
  BY <1>7, <1>1
<1>9. Keep(s, I) \in Seq(S) /\ Len(Keep(s, I)) = m
  BY <1>3, <1>6, <1>8
<1>10. \A n \in 1 .. m : Keep(s, I)[n] = s[at[n]]
  BY <1>6
<1> QED BY <1>3, <1>5, <1>9, <1>10 DEF m, K

LEMMA KeepIs ==
  ASSUME NEW S, NEW s \in Seq(S), NEW I,
         NEW m \in Nat, NEW at, Lists(at, m, Kept(s, I))
  PROVE  /\ Len(Keep(s, I)) = m
         /\ \A n \in 1 .. m : Keep(s, I)[n] = s[at[n]]
<1> DEFINE K == Kept(s, I)
           position(n) == CHOOSE i \in K : Rank(K, i) = n
<1>1. K \in SUBSET Nat
  BY DEF Kept
<1>2. Cardinality(K) = m /\ \A n \in 1 .. m : Rank(K, at[n]) = n
  BY <1>1, ListIsUnique
<1>3. Keep(s, I) = [n \in 1 .. Cardinality(K) |-> s[position(n)]]
  BY DEF Keep, Kept
<1>4. \A n \in 1 .. m : at[n] \in K
  BY DEF Lists
<1>5. \A n \in 1 .. m : position(n) \in K /\ Rank(K, position(n)) = n
  BY <1>2, <1>4
<1> HIDE DEF position
<1>6. ASSUME NEW n \in 1 .. m
      PROVE  position(n) = at[n]
  <2>1. PICK i \in 1 .. m : at[i] = position(n)
    BY <1>5 DEF Lists
  <2> QED BY <2>1, <1>2, <1>5
<1>7. Keep(s, I) \in Seq(S)
  BY KeepLists
<1> QED BY <1>2, <1>3, <1>6, <1>7

LEMMA SameText ==
  ASSUME NEW S, NEW s \in Seq(S), NEW t \in Seq(S), Len(s) = Len(t),
         \A i \in 1 .. Len(s) : s[i] = t[i]
  PROVE  s = t
<1>1. s = [i \in 1 .. Len(s) |-> s[i]]
  OBVIOUS
<1>2. t = [i \in 1 .. Len(s) |-> t[i]]
  OBVIOUS
<1> QED BY <1>1, <1>2

LEMMA KeepAll ==
  ASSUME NEW S, NEW s \in Seq(S), NEW I, DOMAIN s \subseteq I
  PROVE  Keep(s, I) = s
<1> DEFINE m == Len(s)
           same == [n \in 1 .. m |-> n]
<1>1. m \in Nat /\ Kept(s, I) = 1 .. m
  BY DEF Kept
<1>2. Lists(same, m, Kept(s, I))
  BY <1>1 DEF Lists
<1>3. \A n \in 1 .. m : same[n] = n
  OBVIOUS
<1>4. Keep(s, I) \in Seq(S)
  BY KeepLists
<1> HIDE DEF same, m
<1>5. Len(Keep(s, I)) = m /\ \A n \in 1 .. m : Keep(s, I)[n] = s[same[n]]
  BY <1>1, <1>2, KeepIs
<1>6. Len(Keep(s, I)) = Len(s)
  BY <1>5 DEF m
<1>7. \A i \in 1 .. Len(s) : Keep(s, I)[i] = s[i]
  BY <1>3, <1>5 DEF m
<1> QED BY <1>4, <1>6, <1>7, SameText

LEMMA MakeType ==
  ASSUME NEW S, NEW s \in Seq(S), NEW c, NEW d, d \in S
  PROVE  /\ Make(s, c, d) \in Seq(S) /\ Len(Make(s, c, d)) = Len(s)
         /\ \A i \in 1 .. Len(s) :
              Make(s, c, d)[i] = IF s[i] = c THEN d ELSE s[i]
  BY DEF Make

-----------------------------------------------------------------------------
(* SanitizeInput.  The characters that are left, whatever was typed.       *)
LEMMA KeepOnly ==
  ASSUME NEW S, NEW s \in Seq(S), NEW I, NEW T,
         \A i \in I \cap DOMAIN s : s[i] \in T
  PROVE  Keep(s, I) \in Seq(T)
<1>1. PICK at : /\ Lists(at, Len(Keep(s, I)), Kept(s, I))
                /\ \A n \in 1 .. Len(Keep(s, I)) : Keep(s, I)[n] = s[at[n]]
  BY KeepLists
<1>2. Keep(s, I) \in Seq(S)
  BY KeepLists
<1>3. \A n \in 1 .. Len(Keep(s, I)) : at[n] \in Kept(s, I)
  BY <1>1 DEF Lists
<1>4. \A n \in 1 .. Len(Keep(s, I)) : Keep(s, I)[n] \in T
  BY <1>1, <1>3 DEF Kept
<1> QED BY <1>2, <1>4

LEMMA LineEndingsType ==
  ASSUME NEW S, NEW s \in Seq(S), "lf" \in S
  PROVE  LineEndings(s) \in Seq(S \ {"cr"})
<1> DEFINE t == Keep(s, {i \in DOMAIN s :
                            ~(s[i] = "lf" /\ i > 1 /\ s[i - 1] = "cr")})
           u == LineEndings(s)
<1>1. t \in Seq(S)
  BY KeepLists
<1>2. u = Make(t, "cr", "lf")
  BY DEF LineEndings
<1> HIDE DEF t
<1>3. /\ u \in Seq(S) /\ Len(u) = Len(t)
      /\ \A i \in 1 .. Len(t) : u[i] = IF t[i] = "cr" THEN "lf" ELSE t[i]
  BY <1>1, <1>2, MakeType
<1> HIDE DEF u
<1>4. \A i \in 1 .. Len(u) : u[i] \in S \ {"cr"}
  BY <1>1, <1>3
<1>5. u \in Seq(S \ {"cr"})
  BY <1>3, <1>4
<1> QED BY <1>5 DEF u

LEMMA SanitizeType ==
  ASSUME NEW S, NEW s \in Seq(S), "lf" \in S
  PROVE  SanitizeInput(s) \in Seq(S \ {"nul", "cr"})
<1> DEFINE T == S \ {"cr"}
           t2 == LineEndings(s)
           t3 == TrimSpace(t2)
           t4 == OneSpace(t3)
           t5 == TwoNewlines(t4)
<1>1. t2 \in Seq(T)
  BY LineEndingsType
<1> HIDE DEF T, t2
<1>2. t3 \in Seq(T)
  BY <1>1, KeepLists DEF TrimSpace
<1> HIDE DEF t3
<1>3. t4 \in Seq(T)
  BY <1>2, KeepLists DEF OneSpace
<1> HIDE DEF t4
<1>4. t5 \in Seq(T)
  BY <1>3, KeepLists DEF TwoNewlines
<1>5. SanitizeInput(s) = NoNul(t5)
  BY DEF SanitizeInput, t2, t3, t4, t5
<1> HIDE DEF t5
<1>6. \A i \in DOMAIN t5 : t5[i] # "nul" => t5[i] \in S \ {"nul", "cr"}
  BY <1>4 DEF T
<1>7. NoNul(t5) \in Seq(S \ {"nul", "cr"})
  BY <1>4, <1>6, KeepOnly DEF NoNul
<1> QED BY <1>5, <1>7

(* The three parts of Normal, one for each of the replacements.            *)
Ends(s) == s # <<>> => s[1] \notin White /\ s[Len(s)] \notin White
Spaced(s) == \A i \in 2 .. Len(s) : ~(s[i] = "space" /\ s[i - 1] = "space")

LEMMA TrimSpaceEnds ==
  ASSUME NEW S, NEW s \in Seq(S)
  PROVE  Ends(TrimSpace(s))
<1> DEFINE t == TrimSpace(s)
           I == {i \in DOMAIN s : /\ \E j \in 1 .. i : s[j] \notin White
                                  /\ \E j \in i .. Len(s) : s[j] \notin White}
           K == Kept(s, I)
           m == Len(t)
<1>1. K \in SUBSET Nat
  BY DEF Kept
<1>2. t = Keep(s, I)
  BY DEF TrimSpace
<1>3. t \in Seq(S) /\ \E at : /\ Lists(at, m, K)
                              /\ \A n \in 1 .. m : t[n] = s[at[n]]
  <2> HIDE DEF I, t
  <2> QED BY <1>2, KeepLists
<1>4. \A i \in DOMAIN s : s[i] \notin White => i \in K
  BY DEF Kept
<1> HIDE DEF t
<1>5. PICK at : Lists(at, m, K) /\ \A n \in 1 .. m : t[n] = s[at[n]]
  BY <1>3
<1>6. SUFFICES ASSUME t # <<>>
               PROVE  t[1] \notin White /\ t[m] \notin White
  BY DEF Ends, t
<1>7. m \in Nat /\ 1 \in 1 .. m /\ m \in 1 .. m
  BY <1>3, <1>6
<1>8. at[1] \in K /\ at[m] \in K
  BY <1>5, <1>7 DEF Lists
<1>9. PICK j \in 1 .. at[1] : s[j] \notin White
  BY <1>8 DEF Kept
<1>10. PICK k \in at[m] .. Len(s) : s[k] \notin White
  BY <1>8 DEF Kept
<1>11. j \in K /\ k \in K
  <2>1. at[1] \in 1 .. Len(s) /\ at[m] \in 1 .. Len(s) /\ Len(s) \in Nat
    BY <1>8 DEF Kept
  <2> HIDE DEF K, m
  <2>2. j \in 1 .. Len(s) /\ k \in 1 .. Len(s)
    BY <2>1
  <2> QED BY <1>4, <1>9, <1>10, <2>2
<1> HIDE DEF K, m
<1>12. at[1] <= j /\ k <= at[m]
  BY <1>1, <1>5, <1>7, <1>11, Neighbours
<1>13. j = at[1] /\ k = at[m]
  <2>1. at[1] \in Nat /\ at[m] \in Nat /\ j \in Nat /\ k \in Nat
    BY <1>1, <1>8, <1>11
  <2> QED BY <2>1, <1>12
<1> QED BY <1>5, <1>7, <1>9, <1>10, <1>13

(* Characters that are kept at both ends stay the ends.                    *)
LEMMA KeepEnds ==
  ASSUME NEW S, NEW s \in Seq(S), NEW I, Ends(s),
         s # <<>> => 1 \in I /\ Len(s) \in I
  PROVE  Ends(Keep(s, I))
<1> DEFINE t == Keep(s, I)
           K == Kept(s, I)
           m == Len(t)
<1>1. K \in SUBSET Nat
  BY DEF Kept
<1>2. PICK at : Lists(at, m, K) /\ \A n \in 1 .. m : t[n] = s[at[n]]
  BY KeepLists
<1>3. t \in Seq(S)
  BY KeepLists
<1> HIDE DEF t
<1>4. SUFFICES ASSUME t # <<>>
               PROVE  t[1] \notin White /\ t[m] \notin White
  BY DEF Ends, t
<1>5. m \in Nat /\ 1 \in 1 .. m /\ m \in 1 .. m
  BY <1>3, <1>4
<1>6. at[1] \in K /\ at[m] \in K
  BY <1>2, <1>5 DEF Lists
<1>7. /\ at[1] \in 1 .. Len(s) /\ at[m] \in 1 .. Len(s) /\ Len(s) \in Nat
      /\ s # <<>>
  BY <1>6 DEF Kept
<1>8. 1 \in K /\ Len(s) \in K
  BY <1>7 DEF Kept
<1> HIDE DEF K, m
<1>9. at[1] <= 1 /\ Len(s) <= at[m]
  BY <1>1, <1>2, <1>5, <1>8, Neighbours
<1>10. at[1] = 1 /\ at[m] = Len(s)
  BY <1>7, <1>9
<1> QED BY <1>2, <1>5, <1>7, <1>10 DEF Ends

LEMMA OneSpaceNormal ==
  ASSUME NEW S, NEW s \in Seq(S), Ends(s)
  PROVE  Ends(OneSpace(s)) /\ Spaced(OneSpace(s))
<1> DEFINE I == {i \in DOMAIN s :
                   ~(s[i] = "space" /\ i > 1 /\ s[i - 1] = "space")}
           t == Keep(s, I)
           K == Kept(s, I)
           m == Len(t)
<1>0. OneSpace(s) = t
  BY DEF OneSpace
<1>1. K \in SUBSET Nat
  BY DEF Kept
<1>2. Ends(t)
  <2>1. s # <<>> => 1 \in I /\ Len(s) \in I
    BY DEF Ends, White
  <2> HIDE DEF I
  <2> QED BY <2>1, KeepEnds
<1>3. t \in Seq(S) /\ \E at : /\ Lists(at, m, K)
                              /\ \A n \in 1 .. m : t[n] = s[at[n]]
  <2> HIDE DEF I
  <2> QED BY KeepLists
<1>4. \A i \in K :
        i \in DOMAIN s /\ ~(s[i] = "space" /\ i > 1 /\ s[i - 1] = "space")
  BY DEF Kept
<1>5. \A i \in DOMAIN s : s[i] # "space" => i \in K
  BY DEF Kept
<1> HIDE DEF t, K, m
<1>6. PICK at : Lists(at, m, K) /\ \A n \in 1 .. m : t[n] = s[at[n]]
  BY <1>3
<1>7. ASSUME NEW n \in 2 .. m, t[n] = "space", t[n - 1] = "space"
      PROVE  FALSE
  <2>1. m \in Nat /\ n \in 1 .. m /\ n - 1 \in 1 .. m /\ n - 1 < n
    BY <1>3 DEF m
  <2>2. at[n] \in K /\ at[n - 1] \in K /\ at[n - 1] < at[n]
    BY <1>6, <2>1 DEF Lists
  <2>3. at[n] \in DOMAIN s /\ at[n - 1] \in DOMAIN s
    BY <1>4, <2>2
  <2>4. s[at[n]] = "space" /\ s[at[n - 1]] = "space"
    BY <1>6, <1>7, <2>1
  <2>5. at[n] > 1 /\ at[n] - 1 \in DOMAIN s
    BY <2>2, <2>3
  <2>6. s[at[n] - 1] # "space"
    BY <1>4, <2>2, <2>4, <2>5
  <2>7. at[n] - 1 \in K
    BY <1>5, <2>5, <2>6
  <2>8. ~(at[n - 1] < at[n] - 1)
    <3>1. at[n] - 1 < at[n]
      BY <2>3
    <3> QED BY <1>1, <1>6, <2>1, <2>7, <3>1, Neighbours
  <2>9. at[n - 1] = at[n] - 1
    BY <2>2, <2>3, <2>8
  <2> QED BY <2>4, <2>6, <2>9
<1> QED BY <1>0, <1>2, <1>7 DEF Spaced, m

LEMMA TwoNewlinesNormal ==
  ASSUME NEW S, NEW s \in Seq(S), Ends(s), Spaced(s)
  PROVE  Normal(TwoNewlines(s))
<1> DEFINE I == {i \in DOMAIN s :
                   ~(i > 2 /\ \A j \in i - 2 .. i : s[j] = "lf")}
           t == Keep(s, I)
           K == Kept(s, I)
           m == Len(t)
<1>0. TwoNewlines(s) = t
  BY DEF TwoNewlines
<1>1. K \in SUBSET Nat
  BY DEF Kept
<1>2. Ends(t)
  <2>1. s # <<>> => 1 \in I /\ Len(s) \in I
    BY DEF Ends, White
  <2> HIDE DEF I
  <2> QED BY <2>1, KeepEnds
<1>3. t \in Seq(S) /\ \E at : /\ Lists(at, m, K)
                              /\ \A n \in 1 .. m : t[n] = s[at[n]]
  <2> HIDE DEF I
  <2> QED BY KeepLists
<1>4. \A i \in K : i \in DOMAIN s
  BY DEF Kept
<1>5. \A i \in DOMAIN s \ K :
        i > 2 /\ s[i] = "lf" /\ s[i - 1] = "lf" /\ s[i - 2] = "lf"
  <2> SUFFICES ASSUME NEW i \in DOMAIN s \ K
               PROVE  /\ i > 2
                      /\ s[i] = "lf" /\ s[i - 1] = "lf" /\ s[i - 2] = "lf"
    OBVIOUS
  <2>1. i > 2 /\ \A j \in i - 2 .. i : s[j] = "lf"
    BY DEF Kept
  <2>2. i \in i - 2 .. i /\ i - 1 \in i - 2 .. i /\ i - 2 \in i - 2 .. i
    OBVIOUS
  <2> QED BY <2>1, <2>2
<1>6. \A i \in K : i > 2 => s[i] # "lf" \/ s[i - 1] # "lf" \/ s[i - 2] # "lf"
  <2> SUFFICES ASSUME NEW i \in K, i > 2, s[i] = "lf", s[i - 1] = "lf",
                      s[i - 2] = "lf"
               PROVE  FALSE
    OBVIOUS
  <2>1. i \in Int /\ i - 2 .. i = {i - 2, i - 1, i}
    BY <1>1
  <2>2. \A j \in i - 2 .. i : s[j] = "lf"
    BY <2>1
  <2> QED BY <2>2 DEF Kept
<1> HIDE DEF t, K, m
<1>7. PICK at : Lists(at, m, K) /\ \A n \in 1 .. m : t[n] = s[at[n]]
  BY <1>3
<1>8. m \in Nat /\ DOMAIN s \subseteq Nat
  BY <1>3 DEF m
(* Only line feeds have been removed between two neighbours.               *)
<1>9. ASSUME NEW n \in 2 .. m, at[n - 1] # at[n] - 1
      PROVE  /\ at[n] \in DOMAIN s /\ at[n - 1] \in DOMAIN s
             /\ at[n] - 1 > 2 /\ s[at[n] - 1] = "lf"
             /\ s[at[n] - 2] = "lf" /\ s[at[n - 1]] = "lf"
  <2>1. n \in 1 .. m /\ n - 1 \in 1 .. m /\ n - 1 < n
    BY <1>8
  <2>2. at[n] \in K /\ at[n - 1] \in K /\ at[n - 1] < at[n]
    BY <1>7, <2>1 DEF Lists
  <2>3. at[n] \in DOMAIN s /\ at[n - 1] \in DOMAIN s
    BY <1>4, <2>2
  <2>4. \A k \in DOMAIN s : at[n - 1] < k /\ k < at[n] => k \notin K
    BY <1>1, <1>7, <1>8, Neighbours
  <2>5. /\ at[n] - 1 \in DOMAIN s /\ at[n - 1] < at[n] - 1
        /\ at[n - 1] + 1 \in DOMAIN s /\ at[n - 1] + 1 < at[n]
    BY <1>9, <2>2, <2>3
  <2>6. at[n] - 1 \in DOMAIN s \ K /\ at[n - 1] + 1 \in DOMAIN s \ K
    <3>1. at[n] - 1 < at[n] /\ at[n - 1] < at[n - 1] + 1
      BY <2>3
    <3> QED BY <2>4, <2>5, <3>1
  <2>7. /\ at[n] - 1 > 2 /\ s[at[n] - 1] = "lf" /\ s[(at[n] - 1) - 1] = "lf"
        /\ s[(at[n - 1] + 1) - 1] = "lf"
    BY <1>5, <2>6
  <2>8. (at[n] - 1) - 1 = at[n] - 2 /\ (at[n - 1] + 1) - 1 = at[n - 1]
    BY <2>3
  <2> QED BY <2>3, <2>7, <2>8
<1>10. ASSUME NEW n \in 2 .. m, t[n] = "lf"
       PROVE  at[n - 1] = at[n] - 1
  <2>1. n \in 1 .. m
    BY <1>8
  <2>2. at[n] \in K /\ at[n] \in DOMAIN s /\ s[at[n]] = "lf"
    BY <1>4, <1>7, <1>10, <2>1 DEF Lists
  <2>3. SUFFICES ASSUME at[n - 1] # at[n] - 1 PROVE FALSE
    OBVIOUS
  <2>4. at[n] - 1 > 2 /\ s[at[n] - 1] = "lf" /\ s[at[n] - 2] = "lf"
    BY <1>9, <2>3
  <2>5. at[n] > 2
    BY <2>2, <2>4
  <2> QED BY <1>6, <2>2, <2>4, <2>5
<1>11. ASSUME NEW n \in 3 .. m, t[n] = "lf", t[n - 1] = "lf", t[n - 2] = "lf"
       PROVE  FALSE
  <2>1. /\ n \in 2 .. m /\ n - 1 \in 2 .. m /\ (n - 1) - 1 = n - 2
        /\ n \in 1 .. m /\ n - 1 \in 1 .. m /\ n - 2 \in 1 .. m
    BY <1>8
  <2>2. at[n - 1] = at[n] - 1 /\ at[n - 2] = at[n - 1] - 1
    BY <1>10, <1>11, <2>1
  <2>3. at[n] \in K /\ at[n - 2] \in K
    BY <1>7, <2>1 DEF Lists
  <2>4. at[n] \in Nat /\ at[n - 2] \in Nat /\ at[n - 2] >= 1
    BY <1>4, <1>8, <2>3
  <2>5. at[n] > 2 /\ at[n - 2] = at[n] - 2
    BY <2>2, <2>4
  <2>6. s[at[n]] = "lf" /\ s[at[n - 1]] = "lf" /\ s[at[n - 2]] = "lf"
    BY <1>7, <1>11, <2>1
  <2> QED BY <1>6, <2>2, <2>3, <2>5, <2>6
<1>12. ASSUME NEW n \in 2 .. m, t[n] = "space", t[n - 1] = "space"
       PROVE  FALSE
  <2>1. n \in 1 .. m /\ n - 1 \in 1 .. m
    BY <1>8
  <2>2. s[at[n]] = "space" /\ s[at[n - 1]] = "space"
    BY <1>7, <1>12, <2>1
  <2>3. at[n - 1] = at[n] - 1
    BY <1>9, <2>2
  <2>4. at[n] \in DOMAIN s /\ at[n - 1] \in DOMAIN s
    BY <1>4, <1>7, <2>1 DEF Lists
  <2>5. at[n] \in 2 .. Len(s)
    BY <2>3, <2>4
  <2> QED BY <2>2, <2>3, <2>5 DEF Spaced
<1>13. ASSUME NEW n \in 3 .. m
       PROVE  \E j \in n - 2 .. n : t[j] # "lf"
  <2>1. n \in n - 2 .. n /\ n - 1 \in n - 2 .. n /\ n - 2 \in n - 2 .. n
    OBVIOUS
  <2> QED BY <1>11, <2>1
<1> QED BY <1>0, <1>2, <1>12, <1>13 DEF Normal, Ends, m

(* A text without NULs is normal once it is sanitized; with one, two line  *)
(* feeds or spaces may meet when it is taken out last.                     *)
LEMMA SanitizeNormal ==
  ASSUME NEW S, NEW s \in Seq(S), "lf" \in S, "nul" \notin S
  PROVE  Normal(SanitizeInput(s))
<1> DEFINE t1 == Keep(s, {i \in DOMAIN s :
                             ~(s[i] = "lf" /\ i > 1 /\ s[i - 1] = "cr")})
           t2 == LineEndings(s)
           t3 == TrimSpace(t2)
           t4 == OneSpace(t3)
           t5 == TwoNewlines(t4)
<1>1. t1 \in Seq(S)
  BY KeepLists
<1>2. t2 \in Seq(S)
  <2>1. t2 = Make(t1, "cr", "lf")
    BY DEF LineEndings
  <2> HIDE DEF t1, t2
  <2> QED BY <1>1, <2>1, MakeType
<1> HIDE DEF t2
<1>3. t3 \in Seq(S) /\ Ends(t3)
  <2>1. t3 \in Seq(S)
    BY <1>2, KeepLists DEF TrimSpace
  <2> QED BY <1>2, <2>1, TrimSpaceEnds
<1> HIDE DEF t3
<1>4. t4 \in Seq(S) /\ Ends(t4) /\ Spaced(t4)
  <2>1. t4 \in Seq(S)
    BY <1>3, KeepLists DEF OneSpace
  <2> QED BY <1>3, <2>1, OneSpaceNormal
<1> HIDE DEF t4
<1>5. t5 \in Seq(S) /\ Normal(t5)
  <2>1. t5 \in Seq(S)
    BY <1>4, KeepLists DEF TwoNewlines
  <2> QED BY <1>4, <2>1, TwoNewlinesNormal
<1>6. SanitizeInput(s) = NoNul(t5)
  BY DEF SanitizeInput, t2, t3, t4, t5
<1> HIDE DEF t5
<1>7. DOMAIN t5 \subseteq {i \in DOMAIN t5 : t5[i] # "nul"}
  BY <1>5
<1>8. NoNul(t5) = t5
  BY <1>5, <1>7, KeepAll DEF NoNul
<1> QED BY <1>5, <1>6, <1>8

(* SanitizeInput leaves alone what it has made.                            *)
LEMMA NormalIsFixed ==
  ASSUME NEW s, Clean(s), Normal(s)
  PROVE  /\ TrimSpace(s) = s
         /\ NoNul(TwoNewlines(OneSpace(TrimSpace(s)))) = s
<1> DEFINE S == Char \ {"nul", "cr"}
<1>1. s \in Seq(S)
  BY DEF Clean
<1> HIDE DEF S
<1>2. TrimSpace(s) = s
  <2> DEFINE I == {i \in DOMAIN s : /\ \E j \in 1 .. i : s[j] \notin White
                                    /\ \E j \in i .. Len(s) : s[j] \notin White}
  <2>1. ASSUME NEW i \in DOMAIN s
        PROVE  i \in I
    <3>1. /\ Len(s) \in Nat /\ i \in 1 .. Len(s) /\ s # <<>>
          /\ 1 \in 1 .. i /\ Len(s) \in i .. Len(s)
      BY <1>1
    <3>2. s[1] \notin White /\ s[Len(s)] \notin White
      BY <3>1 DEF Normal
    <3> QED BY <3>1, <3>2
  <2>2. TrimSpace(s) = Keep(s, I)
    BY DEF TrimSpace
  <2> HIDE DEF I
  <2> QED BY <1>1, <2>1, <2>2, KeepAll
<1>3. OneSpace(s) = s
  <2> DEFINE I == {i \in DOMAIN s :
                     ~(s[i] = "space" /\ i > 1 /\ s[i - 1] = "space")}
  <2>1. ASSUME NEW i \in DOMAIN s
        PROVE  i \in I
    BY <1>1 DEF Normal
  <2>2. OneSpace(s) = Keep(s, I)
    BY DEF OneSpace
  <2> HIDE DEF I
  <2> QED BY <1>1, <2>1, <2>2, KeepAll
<1>4. TwoNewlines(s) = s
  <2> DEFINE I == {i \in DOMAIN s :
                   ~(i > 2 /\ \A j \in i - 2 .. i : s[j] = "lf")}
  <2>1. ASSUME NEW i \in DOMAIN s
        PROVE  i \in I
    <3>1. i > 2 => i \in 3 .. Len(s)
      BY <1>1
    <3> QED BY <3>1 DEF Normal
  <2>2. TwoNewlines(s) = Keep(s, I)
    BY DEF TwoNewlines
  <2> HIDE DEF I
  <2> QED BY <1>1, <2>1, <2>2, KeepAll
<1>5. NoNul(s) = s
  <2>1. DOMAIN s \subseteq {i \in DOMAIN s : s[i] # "nul"}
    BY <1>1 DEF S
  <2> QED BY <1>1, <2>1, KeepAll DEF NoNul
<1> QED BY <1>2, <1>3, <1>4, <1>5

LEMMA LineEndingsFixed ==
  ASSUME NEW s, Clean(s)
  PROVE  LineEndings(s) = s
<1> DEFINE S == Char \ {"nul", "cr"}
           I == {i \in DOMAIN s : ~(s[i] = "lf" /\ i > 1 /\ s[i - 1] = "cr")}
<1>1. s \in Seq(S) /\ "lf" \in S /\ "cr" \notin S
  BY DEF Clean, Char
<1> HIDE DEF S
<1>2. ASSUME NEW i \in DOMAIN s
      PROVE  i \in I
  <2>1. i > 1 => i - 1 \in DOMAIN s
    BY <1>1
  <2> QED BY <1>1, <2>1
<1>3. LineEndings(s) = Make(Keep(s, I), "cr", "lf")
  BY DEF LineEndings
<1> HIDE DEF I
<1>4. Keep(s, I) = s
  BY <1>1, <1>2, KeepAll
<1>5. /\ Make(s, "cr", "lf") \in Seq(S) /\ Len(Make(s, "cr", "lf")) = Len(s)
      /\ \A i \in 1 .. Len(s) :
           Make(s, "cr", "lf")[i] = IF s[i] = "cr" THEN "lf" ELSE s[i]
  BY <1>1, MakeType
<1>6. \A i \in 1 .. Len(s) : Make(s, "cr", "lf")[i] = s[i]
  BY <1>1, <1>5
<1>7. Make(s, "cr", "lf") = s
  BY <1>1, <1>5, <1>6, SameText
<1> QED BY <1>3, <1>4, <1>7

-----------------------------------------------------------------------------
(* What a textarea does to a text, LineEndings undoes.                     *)
LEMMA HasLeast ==
  ASSUME NEW K \in SUBSET Nat, IsFiniteSet(K), K # {}
  PROVE  \E i \in K : \A j \in K : i <= j
<1> DEFINE m == Cardinality(K)
           at == [n \in 1 .. m |-> CHOOSE i \in K : Rank(K, i) = n]
<1>1. m \in Nat
  BY FS_CardinalityType
<1>2. Lists(at, m, K)
  BY KeptInOrder
<1> HIDE DEF at, m
<1>3. \A j \in K : m >= 1 /\ at[1] <= j
  BY <1>1, <1>2, Neighbours
<1>4. PICK k \in K : TRUE
  OBVIOUS
<1>5. 1 \in 1 .. m
  BY <1>1, <1>3, <1>4
<1>6. at[1] \in K
  BY <1>2, <1>5 DEF Lists
<1> QED BY <1>3, <1>6

LEMMA PlaceStep ==
  ASSUME NEW S, NEW s \in Seq(S)
  PROVE  /\ Place(s, 0) = 0
         /\ \A i \in 0 .. Len(s) : Place(s, i) \in Nat
         /\ \A i \in 1 .. Len(s) :
              /\ Place(s, i) = Place(s, i - 1) + (IF s[i] = "lf" THEN 2 ELSE 1)
              /\ Place(s, i) >= (IF s[i] = "lf" THEN 2 ELSE 1)
<1> DEFINE feeds(i) == {j \in 1 .. i : s[j] = "lf"}
<1>1. \A i \in Nat : IsFiniteSet(feeds(i)) /\ Cardinality(feeds(i)) \in Nat
  <2> SUFFICES ASSUME NEW i \in Nat
               PROVE  IsFiniteSet(feeds(i)) /\ Cardinality(feeds(i)) \in Nat
    OBVIOUS
  <2>1. IsFiniteSet(1 .. i) /\ feeds(i) \in SUBSET (1 .. i)
    BY FS_Interval
  <2> QED BY <2>1, FS_Subset, FS_CardinalityType
<1>2. feeds(0) = {}
  OBVIOUS
<1>3. /\ Place(s, 0) = 0 + Cardinality(feeds(0))
      /\ \A i \in Nat : Place(s, i) = i + Cardinality(feeds(i))
  BY DEF Place
<1>4. ASSUME NEW i \in 1 .. Len(s)
      PROVE  Cardinality(feeds(i)) =
               Cardinality(feeds(i - 1)) + (IF s[i] = "lf" THEN 1 ELSE 0)
  <2>1. i - 1 \in Nat
    OBVIOUS
  <2>2. feeds(i) = IF s[i] = "lf" THEN feeds(i - 1) \cup {i} ELSE feeds(i - 1)
    OBVIOUS
  <2>3. i \notin feeds(i - 1)
    OBVIOUS
  <2>4. IsFiniteSet(feeds(i - 1)) /\ Cardinality(feeds(i - 1)) \in Nat
    BY <1>1, <2>1
  <2> DEFINE before == feeds(i - 1)
             after == feeds(i)
  <2> HIDE DEF feeds
  <2>5. /\ after = IF s[i] = "lf" THEN before \cup {i} ELSE before
        /\ i \notin before /\ IsFiniteSet(before) /\ Cardinality(before) \in Nat
    BY <2>2, <2>3, <2>4
  <2> HIDE DEF before, after
  <2>6. Cardinality(before \cup {i}) = Cardinality(before) + 1
    BY <2>5, FS_AddElement
  <2>7. Cardinality(after) =
          Cardinality(before) + (IF s[i] = "lf" THEN 1 ELSE 0)
    BY <2>5, <2>6
  <2> QED BY <2>7 DEF before, after
<1>5. Place(s, 0) = 0
  <2> DEFINE none == feeds(0)
  <2>1. none = {} /\ Place(s, 0) = 0 + Cardinality(none)
    BY <1>2, <1>3
  <2> HIDE DEF none
  <2>2. Cardinality(none) = 0
    BY <2>1, FS_EmptySet
  <2> QED BY <2>1, <2>2
<1> HIDE DEF feeds
<1>6. ASSUME NEW i \in 0 .. Len(s)
      PROVE  Place(s, i) \in Nat
  <2>1. i \in Nat
    OBVIOUS
  <2>2. Cardinality(feeds(i)) \in Nat /\ Place(s, i) = i + Cardinality(feeds(i))
    BY <1>1, <1>3, <2>1
  <2> QED BY <2>1, <2>2
<1>7. ASSUME NEW i \in 1 .. Len(s)
      PROVE  /\ Place(s, i) = Place(s, i - 1) + (IF s[i] = "lf" THEN 2 ELSE 1)
             /\ Place(s, i) >= (IF s[i] = "lf" THEN 2 ELSE 1)
  <2>1. i \in Nat /\ i - 1 \in Nat
    OBVIOUS
  <2>2. Cardinality(feeds(i)) \in Nat /\ Cardinality(feeds(i - 1)) \in Nat
    BY <1>1, <2>1
  <2> QED BY <1>3, <1>4, <2>1, <2>2
<1> QED BY <1>5, <1>6, <1>7

LEMMA PlaceGrows ==
  ASSUME NEW S, NEW s \in Seq(S),
         NEW i \in 0 .. Len(s), NEW k \in 1 .. Len(s), i < k
  PROVE  Place(s, i) + (IF s[k] = "lf" THEN 2 ELSE 1) <= Place(s, k)
<1> DEFINE feeds(n) == {j \in 1 .. n : s[j] = "lf"}
<1>1. k - 1 \in Nat /\ i \in Nat /\ i <= k - 1
  OBVIOUS
<1>2. IsFiniteSet(1 .. k - 1)
  BY <1>1, FS_Interval
<1>3. feeds(k - 1) \in SUBSET (1 .. k - 1) /\ feeds(i) \in SUBSET feeds(k - 1)
  BY <1>1
<1>4. IsFiniteSet(feeds(k - 1))
  BY <1>2, <1>3, FS_Subset
<1>5. /\ IsFiniteSet(feeds(i)) /\ Cardinality(feeds(i)) <= Cardinality(feeds(k - 1))
  BY <1>3, <1>4, FS_Subset
<1>6. Cardinality(feeds(i)) \in Nat /\ Cardinality(feeds(k - 1)) \in Nat
  BY <1>4, <1>5, FS_CardinalityType
<1>7. /\ Place(s, i) = i + Cardinality(feeds(i))
      /\ Place(s, k - 1) = (k - 1) + Cardinality(feeds(k - 1))
  BY DEF Place
<1> HIDE DEF feeds
<1>8. Place(s, i) <= Place(s, k - 1)
  BY <1>1, <1>5, <1>6, <1>7
<1>9. /\ Place(s, k) = Place(s, k - 1) + (IF s[k] = "lf" THEN 2 ELSE 1)
      /\ Place(s, k - 1) \in Nat /\ Place(s, i) \in Nat
  BY <1>1, PlaceStep
<1> QED BY <1>8, <1>9

(* Every position of WithReturns(s) is the place of a character, or comes  *)
(* just before a line feed.                                                *)
LEMMA WithReturnsIs ==
  ASSUME NEW S, NEW s \in Seq(S)
  PROVE  /\ WithReturns(s) \in Seq(S \cup {"cr"})
         /\ \A i \in 1 .. Len(s) :
              /\ Place(s, i) \in 1 .. Len(WithReturns(s))
              /\ WithReturns(s)[Place(s, i)] = s[i]
              /\ s[i] = "lf" =>
                   /\ Place(s, i) - 1 \in 1 .. Len(WithReturns(s))
                   /\ WithReturns(s)[Place(s, i) - 1] = "cr"
         /\ \A n \in 1 .. Len(WithReturns(s)) :
              \E i \in 1 .. Len(s) :
                n = Place(s, i) \/ (s[i] = "lf" /\ n = Place(s, i) - 1)
<1> DEFINE w == WithReturns(s)
           m == Place(s, Len(s))
<1>1. Len(s) \in Nat /\ m \in Nat /\ DOMAIN s = 1 .. Len(s)
  BY PlaceStep
<1>2. \A i \in 1 .. Len(s) : Place(s, i) \in Nat
  BY PlaceStep
<1>3. \A i, k \in 1 .. Len(s) : i < k => Place(s, i) < Place(s, k)
  <2> SUFFICES ASSUME NEW i \in 1 .. Len(s), NEW k \in 1 .. Len(s), i < k
               PROVE  Place(s, i) < Place(s, k)
    OBVIOUS
  <2>1. Place(s, i) + (IF s[k] = "lf" THEN 2 ELSE 1) <= Place(s, k)
    BY PlaceGrows
  <2> QED BY <1>2, <2>1
<1>4. \A i, k \in 1 .. Len(s) : Place(s, i) = Place(s, k) => i = k
  BY <1>2, <1>3
<1>5. w = [n \in 1 .. m |->
             IF \E i \in DOMAIN s : Place(s, i) = n
             THEN s[CHOOSE i \in DOMAIN s : Place(s, i) = n] ELSE "cr"]
  BY DEF WithReturns
<1>6. \A i \in 1 .. Len(s) : Place(s, i) \in 1 .. m
  <2> SUFFICES ASSUME NEW i \in 1 .. Len(s)
               PROVE  Place(s, i) \in 1 .. m
    OBVIOUS
  <2>1. Place(s, i) >= (IF s[i] = "lf" THEN 2 ELSE 1)
    BY PlaceStep
  <2>2. i = Len(s) \/ (i < Len(s) /\ Len(s) \in 1 .. Len(s))
    OBVIOUS
  <2>3. i = Len(s) \/ Place(s, i) < Place(s, Len(s))
    BY <1>3, <2>2
  <2>4. Place(s, i) = m \/ Place(s, i) < m
    BY <2>3
  <2> HIDE DEF m
  <2> QED BY <1>1, <1>2, <2>1, <2>4
<1> HIDE DEF m
<1>7. ASSUME NEW n \in 1 .. m
      PROVE  w[n] \in S \cup {"cr"}
  <2>1. CASE \E i \in DOMAIN s : Place(s, i) = n
    <3> DEFINE c == CHOOSE i \in DOMAIN s : Place(s, i) = n
    <3>1. c \in DOMAIN s
      BY <2>1
    <3>2. w[n] = s[c]
      BY <1>5, <2>1
    <3> QED BY <3>1, <3>2
  <2>2. CASE ~\E i \in DOMAIN s : Place(s, i) = n
    BY <1>5, <2>2
  <2> QED BY <2>1, <2>2
<1>8. w \in Seq(S \cup {"cr"}) /\ Len(w) = m
  BY <1>1, <1>5, <1>7
<1>9. ASSUME NEW i \in 1 .. Len(s)
      PROVE  w[Place(s, i)] = s[i]
  <2> DEFINE n == Place(s, i)
             c == CHOOSE k \in DOMAIN s : Place(s, k) = n
  <2>1. n \in 1 .. m /\ \E k \in DOMAIN s : Place(s, k) = n
    BY <1>1, <1>6
  <2>2. w[n] = s[c]
    BY <1>5, <2>1
  <2>3. c \in 1 .. Len(s) /\ Place(s, c) = Place(s, i)
    BY <1>1, <2>1
  <2>4. c = i
    BY <1>4, <2>3
  <2> QED BY <2>2, <2>4
<1>10. ASSUME NEW i \in 1 .. Len(s), s[i] = "lf"
       PROVE  Place(s, i) - 1 \in 1 .. m /\ w[Place(s, i) - 1] = "cr"
  <2> DEFINE n == Place(s, i) - 1
  <2>1. Place(s, i) >= 2
    BY <1>10, PlaceStep
  <2>2. n \in 1 .. m
    BY <1>1, <1>6, <2>1
  <2>3. ASSUME NEW k \in 1 .. Len(s), Place(s, k) = n
        PROVE  FALSE
    <3>1. ~(i <= k)
      BY <1>2, <1>3, <2>3
    <3>2. k \in 0 .. Len(s) /\ k < i
      BY <3>1
    <3>3. Place(s, k) + 2 <= Place(s, i)
      BY <1>10, <3>2, PlaceGrows
    <3> QED BY <1>2, <2>3, <3>3
  <2> HIDE DEF n
  <2>4. w[n] = "cr"
    BY <1>1, <1>5, <2>2, <2>3
  <2> QED BY <2>2, <2>4 DEF n
<1>11. ASSUME NEW n \in 1 .. m
       PROVE  \E i \in 1 .. Len(s) :
                n = Place(s, i) \/ (s[i] = "lf" /\ n = Place(s, i) - 1)
  <2> DEFINE late == {i \in 1 .. Len(s) : n <= Place(s, i)}
  <2>1. IsFiniteSet(1 .. Len(s)) /\ late \in SUBSET (1 .. Len(s))
    BY <1>1, FS_Interval
  <2>2. IsFiniteSet(late) /\ late \in SUBSET Nat
    BY <2>1, FS_Subset
  <2>3. late # {}
    <3>1. Len(s) # 0
      BY <1>1, PlaceStep DEF m
    <3>2. Len(s) \in late
      BY <1>1, <3>1 DEF m
    <3> QED BY <3>2
  <2>4. PICK i \in late : \A j \in late : i <= j
    <3> HIDE DEF late
    <3> QED BY <2>2, <2>3, HasLeast
  <2>5. i \in 1 .. Len(s) /\ n <= Place(s, i) /\ i - 1 \in 0 .. Len(s)
    BY <1>1
  <2>6. Place(s, i - 1) < n
    <3>1. CASE i = 1
      BY <3>1, PlaceStep
    <3>2. CASE i # 1
      <4>1. i - 1 \in 1 .. Len(s) /\ ~(i <= i - 1)
        BY <2>5, <3>2
      <4>2. i - 1 \notin late
        BY <2>4, <4>1
      <4>3. ~(n <= Place(s, i - 1)) /\ Place(s, i - 1) \in Nat
        BY <1>2, <4>1, <4>2
      <4> QED BY <4>3
    <3> QED BY <3>1, <3>2
  <2>7. /\ Place(s, i) = Place(s, i - 1) + (IF s[i] = "lf" THEN 2 ELSE 1)
        /\ Place(s, i) \in Nat /\ Place(s, i - 1) \in Nat
    BY <2>5, PlaceStep
  <2>8. n = Place(s, i) \/ (s[i] = "lf" /\ n = Place(s, i) - 1)
    BY <2>5, <2>6, <2>7
  <2> QED BY <2>5, <2>8
<1> HIDE DEF w
<1> QED BY <1>6, <1>8, <1>9, <1>10, <1>11 DEF w

LEMMA ReturnsUndone ==
  ASSUME NEW s, Clean(s)
  PROVE  LineEndings(WithReturns(s)) = s
<1> DEFINE S == Char \ {"nul", "cr"}
           T == S \cup {"cr"}
           w == WithReturns(s)
           I == {n \in DOMAIN w : ~(w[n] = "lf" /\ n > 1 /\ w[n - 1] = "cr")}
           K == Kept(w, I)
           q == [i \in 1 .. Len(s) |->
                   IF s[i] = "lf" THEN Place(s, i) - 1 ELSE Place(s, i)]
<1>1. s \in Seq(S) /\ "lf" \in S /\ "cr" \notin S
  BY DEF Clean, Char
<1> HIDE DEF S
<1>2. /\ w \in Seq(T)
      /\ \A i \in 1 .. Len(s) :
           /\ Place(s, i) \in 1 .. Len(w) /\ w[Place(s, i)] = s[i]
           /\ s[i] = "lf" =>
                /\ Place(s, i) - 1 \in 1 .. Len(w)
                /\ w[Place(s, i) - 1] = "cr"
      /\ \A n \in 1 .. Len(w) :
           \E i \in 1 .. Len(s) :
             n = Place(s, i) \/ (s[i] = "lf" /\ n = Place(s, i) - 1)
  BY <1>1, WithReturnsIs
<1> HIDE DEF w, T
<1>3. \A n \in K : n \in 1 .. Len(w) /\ ~(w[n] = "lf" /\ n > 1 /\ w[n - 1] = "cr")
  BY <1>2 DEF Kept
<1>4. \A n \in 1 .. Len(w) : w[n] # "lf" => n \in K
  BY <1>2 DEF Kept
<1> HIDE DEF I, K
<1>5. Len(s) \in Nat /\ Len(w) \in Nat
  BY <1>1, <1>2
<1>6. \A i \in 1 .. Len(s) :
        q[i] = IF s[i] = "lf" THEN Place(s, i) - 1 ELSE Place(s, i)
  OBVIOUS
<1>7. ASSUME NEW i \in 1 .. Len(s)
      PROVE  q[i] \in K /\ w[q[i]] = IF s[i] = "lf" THEN "cr" ELSE s[i]
  <2>1. CASE s[i] = "lf"
    <3>1. q[i] = Place(s, i) - 1 /\ q[i] \in 1 .. Len(w) /\ w[q[i]] = "cr"
      BY <1>2, <1>6, <2>1
    <3> HIDE DEF q
    <3> QED BY <1>4, <2>1, <3>1
  <2>2. CASE s[i] # "lf"
    <3>1. q[i] = Place(s, i) /\ q[i] \in 1 .. Len(w) /\ w[q[i]] = s[i]
      BY <1>2, <1>6, <2>2
    <3> HIDE DEF q
    <3> QED BY <1>4, <2>2, <3>1
  <2> QED BY <2>1, <2>2
<1>8. q \in [1 .. Len(s) -> K]
  BY <1>7
<1> HIDE DEF q
<1>9. ASSUME NEW i \in 1 .. Len(s), NEW k \in 1 .. Len(s), i < k
      PROVE  q[i] < q[k]
  <2>1. Place(s, i) + (IF s[k] = "lf" THEN 2 ELSE 1) <= Place(s, k)
    <3>1. i \in 0 .. Len(s)
      BY <1>5
    <3> QED BY <1>1, <1>9, <3>1, PlaceGrows
  <2>2. Place(s, i) \in Nat /\ Place(s, k) \in Nat
    BY <1>2, <1>5
  <2>3. q[i] <= Place(s, i)
    BY <1>6, <2>2
  <2>4. Place(s, i) < q[k]
    BY <1>6, <2>1, <2>2
  <2>5. q[i] \in Int /\ q[k] \in Int
    BY <1>6, <2>2
  <2> QED BY <2>2, <2>3, <2>4, <2>5
<1>10. ASSUME NEW n \in K
       PROVE  \E i \in 1 .. Len(s) : q[i] = n
  <2>1. n \in 1 .. Len(w)
    BY <1>3
  <2>2. PICK i \in 1 .. Len(s) :
               n = Place(s, i) \/ (s[i] = "lf" /\ n = Place(s, i) - 1)
    BY <1>2, <2>1
  <2>3. CASE s[i] = "lf" /\ n = Place(s, i)
    <3>1. w[n] = "lf" /\ n - 1 \in 1 .. Len(w) /\ w[n - 1] = "cr"
      BY <1>2, <2>3
    <3>2. n > 1
      BY <1>5, <2>1, <3>1
    <3> QED BY <1>3, <3>1, <3>2
  <2>4. CASE ~(s[i] = "lf" /\ n = Place(s, i))
    BY <1>6, <2>2, <2>4
  <2> QED BY <2>3, <2>4
<1>11. Lists(q, Len(s), Kept(w, I))
  BY <1>8, <1>9, <1>10 DEF Lists, K
<1>12. /\ Len(Keep(w, I)) = Len(s)
       /\ \A i \in 1 .. Len(s) : Keep(w, I)[i] = w[q[i]]
  BY <1>2, <1>5, <1>11, KeepIs
<1> DEFINE t == Keep(w, I)
<1>13. t \in Seq(T)
  BY <1>2, KeepLists
<1>14. LineEndings(w) = Make(t, "cr", "lf")
  BY DEF LineEndings, I
<1>15. /\ Len(t) = Len(s)
       /\ \A i \in 1 .. Len(s) : t[i] = IF s[i] = "lf" THEN "cr" ELSE s[i]
  BY <1>7, <1>12
<1> HIDE DEF t
<1>16. /\ Make(t, "cr", "lf") \in Seq(T) /\ Len(Make(t, "cr", "lf")) = Len(t)
       /\ \A i \in 1 .. Len(t) :
            Make(t, "cr", "lf")[i] = IF t[i] = "cr" THEN "lf" ELSE t[i]
  BY <1>1, <1>13, MakeType DEF T
<1>17. \A i \in 1 .. Len(s) : s[i] # "cr"
  BY <1>1
<1>18. \A i \in 1 .. Len(s) : Make(t, "cr", "lf")[i] = s[i]
  BY <1>15, <1>16, <1>17
<1>19. s \in Seq(T)
  BY <1>1 DEF T
<1>20. Make(t, "cr", "lf") = s
  BY <1>15, <1>16, <1>18, <1>19, SameText
<1> QED BY <1>14, <1>20 DEF w

-----------------------------------------------------------------------------
(* The filter: a text gets no longer, and a plain one stays as it is.      *)
LEMMA CountType ==
  ASSUME NEW S, NEW s \in Seq(S), NEW c
  PROVE  /\ IsFiniteSet({i \in DOMAIN s : s[i] = c})
         /\ Count(s, c) \in Nat
<1>1. IsFiniteSet(1 .. Len(s)) /\ Len(s) \in Nat
  BY FS_Interval
<1>2. {i \in DOMAIN s : s[i] = c} \in SUBSET (1 .. Len(s))
  OBVIOUS
<1> QED BY <1>1, <1>2, FS_Subset, FS_CardinalityType DEF Count

(* What Keep keeps of some kinds of characters was among them before.      *)
Among(s, C) == {i \in DOMAIN s : s[i] \in C}

LEMMA KeepAmong ==
  ASSUME NEW S, NEW s \in Seq(S), NEW I, NEW C, NEW B, IsFiniteSet(B),
         \A i \in I \cap DOMAIN s : s[i] \in C => i \in B
  PROVE  Cardinality(Among(Keep(s, I), C)) <= Cardinality(B)
<1> DEFINE t == Keep(s, I)
           A == {n \in DOMAIN t : t[n] \in C}
<1>1. PICK at : /\ Lists(at, Len(t), Kept(s, I))
                /\ \A n \in 1 .. Len(t) : t[n] = s[at[n]]
  BY KeepLists
<1>2. t \in Seq(S)
  BY KeepLists
<1> HIDE DEF t
<1>3. /\ \A n \in 1 .. Len(t) : at[n] \in Kept(s, I) /\ at[n] \in Nat
      /\ \A i, j \in 1 .. Len(t) : i < j => at[i] < at[j]
  BY <1>1 DEF Lists, Kept
<1>4. \A n \in A : n \in 1 .. Len(t) /\ at[n] \in B
  BY <1>1, <1>2, <1>3 DEF Kept
<1> DEFINE f == [n \in A |-> at[n]]
<1>5. f \in [A -> B]
  BY <1>4
<1>6. \A i, j \in A : f[i] = f[j] => i = j
  <2> SUFFICES ASSUME NEW i \in A, NEW j \in A, at[i] = at[j]
               PROVE  i = j
    OBVIOUS
  <2>1. i \in 1 .. Len(t) /\ j \in 1 .. Len(t) /\ Len(t) \in Nat
    BY <1>2, <1>4
  <2>2. ~(i < j) /\ ~(j < i)
    BY <1>3, <2>1
  <2> QED BY <2>1, <2>2
<1> HIDE DEF f, A
<1>7. f \in Injection(A, B)
  BY <1>5, <1>6, Fun_IsInj
<1>8. Cardinality(A) <= Cardinality(B)
  BY <1>7, FS_Injection
<1> QED BY <1>8 DEF A, t, Among

LEMMA CountMarkup ==
  ASSUME NEW S, NEW s \in Seq(S)
  PROVE  /\ Cardinality(Among(s, {"tag", "reference"}))
              = Count(s, "tag") + Count(s, "reference")
         /\ Count(s, "tag") \in Nat /\ Count(s, "reference") \in Nat
<1> DEFINE Of(c) == {i \in DOMAIN s : s[i] = c}
           G == Of("tag")
           R == Of("reference")
<1>1. \A c : IsFiniteSet(Of(c)) /\ Count(s, c) \in Nat
  BY CountType
<1>2. Count(s, "tag") = Cardinality(G) /\ Count(s, "reference") = Cardinality(R)
  BY DEF Count
<1>3. Among(s, {"tag", "reference"}) = G \cup R /\ G \cap R = {}
  BY DEF Among
<1>4. IsFiniteSet(G) /\ IsFiniteSet(R)
  BY <1>1
<1> HIDE DEF G, R
<1>5. Cardinality(G) \in Nat /\ Cardinality(R) \in Nat
  BY <1>4, FS_CardinalityType
<1>6. Cardinality(G \cup R) = Cardinality(G) + Cardinality(R)
  <2>1. Cardinality(G \cap R) = 0
    BY <1>3, FS_EmptySet
  <2>2. Cardinality(G \cup R) =
          Cardinality(G) + Cardinality(R) - Cardinality(G \cap R)
    BY <1>4, FS_Union
  <2> QED BY <1>5, <2>1, <2>2
<1>7. Count(s, "tag") \in Nat /\ Count(s, "reference") \in Nat
  BY <1>2, <1>5
<1>8. Cardinality(Among(s, {"tag", "reference"})) = Cardinality(G \cup R)
  BY <1>3
<1> QED BY <1>2, <1>6, <1>7, <1>8

(* What the filter leaves is made of what was there and of what references *)
(* stand for; every tag or reference in it was a reference, which is wider.*)
LEMMA FilterText ==
  ASSUME NEW S, Meaning \subseteq S, NEW s \in Seq(S),
         NEW v \in ParseHTMLStrict(s)
  PROVE  /\ v \in Seq(S)
         /\ RuneCount(v) <= RuneCount(s)
         /\ RuneCount(s) \in Nat /\ RuneCount(v) \in Nat
<1> DEFINE B == {i \in DOMAIN s : s[i] = "reference"}
<1>1. PICK t \in Unescaped(s), I \in Stripped(s) : v = Keep(t, I)
  BY DEF ParseHTMLStrict
<1>2. PICK m \in [B -> Meaning] :
        t = [i \in DOMAIN s |-> IF i \in B THEN m[i] ELSE s[i]]
  BY <1>1 DEF Unescaped
<1>3. t \in Seq(S) /\ Len(t) = Len(s) /\ DOMAIN t = DOMAIN s
  <2>1. \A i \in 1 .. Len(s) : (IF i \in B THEN m[i] ELSE s[i]) \in S
    OBVIOUS
  <2> HIDE DEF B
  <2> QED BY <1>2, <2>1
<1>4. \A i \in I : i \in DOMAIN s /\ s[i] # "tag"
  BY <1>1 DEF Stripped
<1>5. \A i \in I \cap DOMAIN t : t[i] \in {"tag", "reference"} => i \in B
  BY <1>2, <1>3, <1>4
<1>6. IsFiniteSet(B) /\ Cardinality(B) = Count(s, "reference")
  BY CountType DEF Count
<1>7. v \in Seq(S) /\ Len(v) <= Len(s)
  BY <1>1, <1>3, KeepLists
<1>8. Cardinality(Among(v, {"tag", "reference"})) <= Cardinality(B)
  <2> HIDE DEF B
  <2>1. IsFiniteSet(B) /\ t \in Seq(S)
    BY <1>3, <1>6
  <2> QED BY <1>1, <1>5, <2>1, KeepAmong
<1>9. /\ Cardinality(Among(v, {"tag", "reference"}))
           = Count(v, "tag") + Count(v, "reference")
      /\ Count(v, "tag") \in Nat /\ Count(v, "reference") \in Nat
  BY <1>7, CountMarkup
<1>10. Count(s, "tag") \in Nat /\ Count(s, "reference") \in Nat
  BY CountMarkup
<1>11. Len(s) \in Nat /\ Len(v) \in Nat
  BY <1>7
<1>12. Count(v, "tag") + Count(v, "reference") <= Count(s, "reference")
  BY <1>6, <1>8, <1>9
<1>13. /\ RuneCount(v) = Len(v) + 2 * Count(v, "tag") + 8 * Count(v, "reference")
       /\ RuneCount(s) = Len(s) + 2 * Count(s, "tag") + 8 * Count(s, "reference")
  BY DEF RuneCount
<1>14. /\ RuneCount(v) <= RuneCount(s)
       /\ RuneCount(s) \in Nat /\ RuneCount(v) \in Nat
  BY <1>7, <1>9, <1>10, <1>11, <1>12, <1>13
<1> QED BY <1>7, <1>14

LEMMA FilterKeepsPlain ==
  ASSUME NEW S, NEW s \in Seq(S), "tag" \notin S, "reference" \notin S,
         NEW v \in ParseHTMLStrict(s)
  PROVE  v = s
<1> DEFINE B == {i \in DOMAIN s : s[i] = "reference"}
           G == {i \in DOMAIN s : s[i] = "tag"}
<1>1. PICK t \in Unescaped(s), I \in Stripped(s) : v = Keep(t, I)
  BY DEF ParseHTMLStrict
<1>2. \A i \in 1 .. Len(s) : s[i] \in S
  OBVIOUS
<1>3. B = {} /\ G = {} /\ DOMAIN s = 1 .. Len(s)
  BY <1>2
<1>4. t = s
  <2>1. PICK m \in [B -> Meaning] :
          t = [i \in DOMAIN s |-> IF i \in B THEN m[i] ELSE s[i]]
    BY <1>1 DEF Unescaped
  <2>2. t = [i \in 1 .. Len(s) |-> s[i]]
    <3> HIDE DEF B
    <3> QED BY <1>3, <2>1
  <2>3. t \in Seq(S) /\ Len(t) = Len(s) /\ \A i \in 1 .. Len(s) : t[i] = s[i]
    BY <2>2
  <2> QED BY <2>3, SameText
<1>5. DOMAIN s \subseteq I
  <2> DEFINE before == {i \in DOMAIN s : \A j \in 1 .. i : j \notin G}
  <2>1. before \subseteq I
    BY <1>1 DEF Stripped
  <2>2. DOMAIN s \subseteq before
    BY <1>3
  <2> QED BY <2>1, <2>2
<1> QED BY <1>1, <1>4, <1>5, KeepAll

-----------------------------------------------------------------------------
(* Kinds of texts, as sets of sequences.                                   *)
LEMMA StorableText ==
  ASSUME NEW s, Storable(s)
  PROVE  s \in Text /\ s # NoText
<1> DEFINE S == Char \ {"nul", "badByte"}
<1>1. s \in Seq(S) /\ "none" \notin S
  BY DEF Storable, Char
<1>2. \A i \in 1 .. Len(s) : s[i] \in S
  BY <1>1
<1>3. s # NoText
  <2> SUFFICES ASSUME s = <<"none">>
               PROVE  FALSE
    BY DEF NoText
  <2>1. Len(s) = 1 /\ s[1] = "none"
    OBVIOUS
  <2>2. s[1] \in S
    BY <1>2, <2>1
  <2> HIDE DEF S
  <2> QED BY <1>1, <2>1, <2>2
<1>4. s \in Text
  BY <1>1 DEF Text
<1> QED BY <1>3, <1>4

LEMMA PlainText ==
  ASSUME NEW s, Plain(s)
  PROVE  Clean(s) /\ Storable(s)
  BY DEF Plain, Clean, Storable, Char

LEMMA HowText ==
  ASSUME NEW s \in Text
  PROVE  /\ How(s) \in Typed
         /\ How(s) # "bytes" => s \in Seq(Char \ {"badByte"})
         /\ How(s) \in {"plain", "nul"} =>
              s \in Seq({"letter", "space", "lf", "cr", "nul"})
         /\ How(s) = "plain" => s \in Seq({"letter", "space", "lf", "cr"})
<1>0. s \in Seq(Char)
  BY DEF Text
<1>1. \A i \in 1 .. Len(s) : s[i] \in Char /\ s[i] \in Range(s)
  BY <1>0 DEF Range
<1>2. CASE "badByte" \in Range(s)
  <2>1. How(s) = "bytes"
    BY <1>2 DEF How
  <2> QED BY <2>1 DEF Typed
<1>3. CASE "badByte" \notin Range(s)
  <2>1. \A i \in 1 .. Len(s) : s[i] \in Char \ {"badByte"}
    BY <1>1, <1>3
  <2>2. s \in Seq(Char \ {"badByte"})
    BY <1>0, <2>1
  <2>3. CASE Range(s) \cap {"tag", "reference"} # {}
    <3>1. How(s) = "markup"
      BY <1>3, <2>3 DEF How
    <3> QED BY <2>2, <3>1 DEF Typed
  <2>4. CASE Range(s) \cap {"tag", "reference"} = {}
    <3>1. Range(s) \cap {"badByte", "tag", "reference"} = {}
      BY <1>3, <2>4
    <3>2. How(s) = IF "nul" \in Range(s) THEN "nul" ELSE "plain"
      BY <1>3, <2>4, <3>1 DEF How
    <3>3. \A i \in 1 .. Len(s) :
            s[i] \in {"letter", "space", "lf", "cr", "nul"}
      BY <2>1, <1>1, <3>1 DEF Char
    <3>4. s \in Seq({"letter", "space", "lf", "cr", "nul"})
      BY <1>0, <3>3
    <3>5. ASSUME "nul" \notin Range(s)
          PROVE  s \in Seq({"letter", "space", "lf", "cr"})
      <4>1. \A i \in 1 .. Len(s) : s[i] \in {"letter", "space", "lf", "cr"}
        BY <1>1, <3>3, <3>5
      <4> QED BY <1>0, <4>1
    <3> QED BY <2>2, <3>2, <3>4, <3>5 DEF Typed
  <2> QED BY <2>3, <2>4
<1> QED BY <1>2, <1>3

(* What a handler makes of a text, sanitized and filtered.                 *)
LEMMA HandledText ==
  ASSUME NEW s \in Text, NEW v \in ParseHTMLStrict(SanitizeInput(s))
  PROVE  /\ v \in Seq(Char \ {"nul"})
         /\ \A n \in Nat : RuneCount(SanitizeInput(s)) <= n => RuneCount(v) <= n
         /\ How(s) # "bytes" => Storable(v)
         /\ How(s) \in {"plain", "nul"} => v = SanitizeInput(s)
         /\ How(s) = "plain" => Plain(v) /\ Normal(v)
<1> DEFINE c == SanitizeInput(s)
<1>1. /\ v \in Seq(Char \ {"nul"}) /\ RuneCount(v) <= RuneCount(c)
      /\ RuneCount(v) \in Nat /\ RuneCount(c) \in Nat
  <2> DEFINE S == Char \ {"nul"}
  <2>1. s \in Seq(Char) /\ "lf" \in Char
    BY DEF Text, Char
  <2>2. c \in Seq(Char \ {"nul", "cr"})
    BY <2>1, SanitizeType
  <2> HIDE DEF c
  <2>3. c \in Seq(S) /\ Meaning \subseteq S
    BY <2>2 DEF Meaning
  <2>4. v \in ParseHTMLStrict(c)
    BY DEF c
  <2> HIDE DEF S
  <2>5. /\ v \in Seq(S) /\ RuneCount(v) <= RuneCount(c)
        /\ RuneCount(v) \in Nat /\ RuneCount(c) \in Nat
    BY <2>3, <2>4, FilterText
  <2> QED BY <2>5 DEF S
<1>2. ASSUME How(s) # "bytes"
      PROVE  Storable(v)
  <2> DEFINE T == Char \ {"badByte"}
             S == Char \ {"nul", "badByte"}
  <2>1. s \in Seq(T) /\ "lf" \in T
    BY <1>2, HowText DEF Char
  <2>2. c \in Seq(T \ {"nul", "cr"})
    <3> HIDE DEF T
    <3> QED BY <2>1, SanitizeType
  <2> HIDE DEF c
  <2>3. c \in Seq(S) /\ Meaning \subseteq S
    BY <2>2 DEF Meaning
  <2>4. v \in ParseHTMLStrict(c)
    BY DEF c
  <2> HIDE DEF S
  <2>5. v \in Seq(S)
    BY <2>3, <2>4, FilterText
  <2> QED BY <2>5 DEF S, Storable
<1>3. ASSUME How(s) \in {"plain", "nul"}
      PROVE  v = c
  <2> DEFINE S == {"letter", "space", "lf", "cr", "nul"}
             T == S \ {"nul", "cr"}
  <2>1. s \in Seq(S) /\ "lf" \in S
    BY <1>3, HowText
  <2>2. c \in Seq(T)
    <3> HIDE DEF S
    <3> QED BY <2>1, SanitizeType
  <2>3. "tag" \notin T /\ "reference" \notin T
    OBVIOUS
  <2> HIDE DEF T, c
  <2>4. v \in ParseHTMLStrict(c)
    BY DEF c
  <2> QED BY <2>2, <2>3, <2>4, FilterKeepsPlain
<1>4. ASSUME How(s) = "plain"
      PROVE  Plain(v) /\ Normal(v)
  <2> DEFINE S == {"letter", "space", "lf", "cr"}
  <2>1. s \in Seq(S) /\ "lf" \in S /\ "nul" \notin S
    BY <1>4, HowText
  <2>2. v = c
    BY <1>3, <1>4
  <2>3. c \in Seq(S \ {"nul", "cr"}) /\ Normal(c)
    <3> HIDE DEF S
    <3> QED BY <2>1, SanitizeType, SanitizeNormal
  <2>4. S \ {"nul", "cr"} = {"letter", "space", "lf"}
    OBVIOUS
  <2> HIDE DEF S, c
  <2> QED BY <2>2, <2>3, <2>4 DEF Plain
<1>5. \A n \in Nat : RuneCount(c) <= n => RuneCount(v) <= n
  BY <1>1
<1> QED BY <1>1, <1>2, <1>3, <1>4, <1>5

(* What a browser sends back of a text that is stored.                     *)
LEMMA SentText ==
  ASSUME NEW s, Storable(s)
  PROVE  /\ Sent(s) \in Text
         /\ Plain(s) => How(Sent(s)) = "plain"
<1>1. ASSUME NEW S, s \in Seq(S), "lf" \in S
      PROVE  Sent(s) \in Seq(S \cup {"cr"})
  <2>1. CASE field = "bio"
    <3>1. LineEndings(s) \in Seq(S \ {"cr"})
      BY <1>1, LineEndingsType
    <3>2. WithReturns(LineEndings(s)) \in Seq((S \ {"cr"}) \cup {"cr"})
      BY <3>1, WithReturnsIs
    <3>3. (S \ {"cr"}) \cup {"cr"} = S \cup {"cr"}
      OBVIOUS
    <3> QED BY <2>1, <3>2, <3>3 DEF Sent
  <2>2. CASE field # "bio"
    <3>1. Sent(s) \in Seq(S)
      BY <1>1, <2>2, KeepLists DEF Sent
    <3> QED BY <3>1
  <2> QED BY <2>1, <2>2
<1>2. Sent(s) \in Text
  <2>1. s \in Seq(Char) /\ Char \cup {"cr"} = Char /\ "lf" \in Char
    BY StorableText DEF Text, Char
  <2> QED BY <1>1, <2>1 DEF Text
<1>3. ASSUME Plain(s)
      PROVE  How(Sent(s)) = "plain"
  <2> DEFINE S == {"letter", "space", "lf"}
             T == {"letter", "space", "lf", "cr"}
  <2>1. s \in Seq(S) /\ "lf" \in S
    BY <1>3 DEF Plain
  <2>2. S \cup {"cr"} = T
    OBVIOUS
  <2> HIDE DEF S, T
  <2>3. Sent(s) \in Seq(T)
    BY <1>1, <2>1, <2>2
  <2>4. Range(Sent(s)) \subseteq T
    BY <2>3 DEF Range
  <2>5. /\ "badByte" \notin Range(Sent(s)) /\ "nul" \notin Range(Sent(s))
        /\ Range(Sent(s)) \cap {"tag", "reference"} = {}
        /\ Range(Sent(s)) \cap {"badByte", "tag", "reference"} = {}
    BY <2>4 DEF T
  <2> QED BY <2>5 DEF How
<1> QED BY <1>2, <1>3

(* A text that is shown and sent back comes out as it was stored.          *)
LEMMA ResentText ==
  ASSUME NEW s, Plain(s), Normal(s), field = "bio" \/ "lf" \notin Range(s),
         NEW v \in ParseHTMLStrict(SanitizeInput(Sent(s)))
  PROVE  v = s
<1>0. Clean(s) /\ s \in Seq({"letter", "space", "lf"})
  BY PlainText DEF Plain
<1>1. LineEndings(Sent(s)) = s
  <2>1. CASE field = "bio"
    <3>1. LineEndings(s) = s
      BY <1>0, LineEndingsFixed
    <3> QED BY <1>0, <2>1, <3>1, ReturnsUndone DEF Sent
  <2>2. CASE field # "bio"
    <3> DEFINE I == {i \in DOMAIN s : s[i] \notin {"lf", "cr"}}
    <3>1. "lf" \notin Range(s)
      BY <2>2
    <3>2. ASSUME NEW i \in DOMAIN s
          PROVE  i \in I
      <4>1. s[i] \in {"letter", "space", "lf"} /\ s[i] \in Range(s)
        BY <1>0 DEF Range
      <4> QED BY <3>1, <4>1
    <3>3. Sent(s) = Keep(s, I)
      BY <2>2 DEF Sent
    <3> HIDE DEF I
    <3>4. Sent(s) = s
      BY <1>0, <3>2, <3>3, KeepAll
    <3> QED BY <1>0, <3>4, LineEndingsFixed
  <2> QED BY <2>1, <2>2
<1>2. SanitizeInput(Sent(s)) = s
  BY <1>0, <1>1, NormalIsFixed DEF SanitizeInput
<1> DEFINE S == {"letter", "space", "lf"}
<1>3. s \in Seq(S) /\ "tag" \notin S /\ "reference" \notin S
  BY <1>0
<1>4. v \in ParseHTMLStrict(s)
  BY <1>2
<1> HIDE DEF S
<1> QED BY <1>3, <1>4, FilterKeepsPlain

LEMMA EmptyText ==
  /\ TrimSpace(<<>>) = <<>> /\ Storable(<<>>) /\ Plain(<<>>) /\ Normal(<<>>)
  /\ RuneCount(<<>>) = 0
<1> DEFINE e == <<>>
<1>1. e \in Seq(Char) /\ Len(e) = 0 /\ DOMAIN e = {}
  OBVIOUS
<1>2. TrimSpace(e) = e
  <2>1. TrimSpace(e) \in Seq(Char) /\ Len(TrimSpace(e)) <= Len(e)
    BY <1>1, KeepLists DEF TrimSpace
  <2>2. Len(TrimSpace(e)) = 0
    BY <1>1, <2>1
  <2> QED BY <2>1, <2>2
<1>3. Storable(e) /\ Plain(e) /\ Normal(e)
  BY DEF Storable, Plain, Normal
<1>4. \A c : {i \in DOMAIN e : e[i] = c} = {}
  BY <1>1
<1>5. Count(e, "tag") = 0 /\ Count(e, "reference") = 0
  BY <1>4, FS_EmptySet DEF Count
<1>6. RuneCount(e) = Len(e) + 2 * Count(e, "tag") + 8 * Count(e, "reference")
  BY DEF RuneCount
<1>7. RuneCount(e) = 0
  BY <1>1, <1>5, <1>6
<1> QED BY <1>2, <1>3, <1>7

LEMMA TypedTexts == Texts \cup Retyped \subseteq Text
<1>1. Texts \subseteq Text
  <2> SUFFICES ASSUME NEW n \in 0 .. MaxText, NEW s \in [1 .. n -> Char]
               PROVE  s \in Seq(Char)
    BY DEF Texts, Text
  <2>1. n \in Nat
    BY FormsAssumption DEF FormsAssumption
  <2> QED BY <2>1
<1> QED BY <1>1, FormsAssumption DEF FormsAssumption

LEMMA ValidText ==
  ASSUME field \in {"subject", "bio"}, NEW s, NEW u, IsValid(s, u)
  PROVE  /\ RuneCount(s) <= MaxLength
         /\ field # "bio" => TrimSpace(s) # <<>>
  BY DEF IsValid, ThreadFormIsValid, Required, ProfileFormIsValid

(* An address stays one of the known ones, an empty one stays empty.       *)
LEMMA ParsedPhoto ==
  ASSUME NEW u \in AnyPhoto, NEW w \in ParsePhoto(u)
  PROVE  w \in AnyPhoto /\ (u = NoPhoto => w = NoPhoto)
<1>1. NoPhoto \notin MarkedPhoto
  BY FormsAssumption DEF FormsAssumption, Complete
<1> QED BY <1>1 DEF ParsePhoto, AnyPhoto, Complete

-----------------------------------------------------------------------------
(* The inductive invariant, step by step.                                  *)
LEMMA InitIsInductive ==
  ASSUME Init
  PROVE  IInv
<1>1. /\ field \in {"subject", "bio"} /\ photo = NoPhoto
      /\ typed = "plain" /\ pc = "idle" /\ form = NoForm
      /\ stored = IF field = "bio" THEN <<>> ELSE NoText
  BY DEF Init
<1>2. stored # NoText => stored = <<>>
  BY <1>1
<1>3. StoredInv
  <2>1. 0 <= MaxLength
    BY FormsAssumption DEF FormsAssumption
  <2> QED BY <1>1, <1>2, <2>1, EmptyText DEF StoredInv, AnyPhoto, Typed
<1>4. FormInv
  <2>1. <<>> \in Text
    BY DEF Text
  <2> QED BY <1>1, <2>1 DEF FormInv, NoForm, Form, AnyPhoto, Typed
<1>5. ShownInv /\ SaveInv
  BY <1>1 DEF ShownInv, SaveInv
<1> QED BY <1>1, <1>3, <1>4, <1>5 DEF IInv

LEMMA NewThreadStep ==
  ASSUME IInv, NewThread
  PROVE  IInv'
<1>1. /\ pc = "idle" /\ stored = NoText /\ pc' = "form"
      /\ UNCHANGED <<field, stored, photo, typed, form>>
  BY DEF NewThread, Goto
<1>2. StoredInv' /\ FormInv'
  BY <1>1 DEF IInv, StoredInv, FormInv
<1>3. ShownInv' /\ SaveInv'
  BY <1>1 DEF IInv, ShownInv, SaveInv
<1> QED BY <1>1, <1>2, <1>3 DEF IInv

LEMMA EditStep ==
  ASSUME IInv, EditGET
  PROVE  IInv'
<1>1. /\ stored # NoText /\ pc' = "form"
      /\ form' = Form(stored, photo, typed)
      /\ UNCHANGED <<field, stored, photo, typed>>
  BY DEF EditGET, Goto
<1>2. StoredInv'
  BY <1>1 DEF IInv, StoredInv
<1>3. form'.text = stored /\ form'.photo = photo /\ form'.typed = typed
  BY <1>1 DEF Form
<1>4. FormInv'
  <2>1. stored \in Text
    BY <1>1, StorableText DEF IInv, StoredInv
  <2> QED BY <1>1, <1>3, <2>1 DEF IInv, StoredInv, FormInv
<1>5. ShownInv' /\ SaveInv'
  BY <1>1 DEF ShownInv, SaveInv
<1> QED BY <1>1, <1>2, <1>4, <1>5 DEF IInv

LEMMA SendAsShownStep ==
  ASSUME IInv, SendAsShown
  PROVE  IInv'
<1>1. /\ pc = "form" /\ stored # NoText /\ pc' = "shown"
      /\ form' = Form(Sent(form.text), form.photo, form.typed)
      /\ UNCHANGED <<field, stored, photo, typed>>
  BY DEF SendAsShown, Goto
<1>2. StoredInv'
  BY <1>1 DEF IInv, StoredInv
<1>3. form.text = stored /\ form.photo = photo /\ form.typed = typed
  BY <1>1 DEF IInv, ShownInv, Form
<1>4. form'.text = Sent(stored) /\ form'.photo = photo /\ form'.typed = typed
  BY <1>1, <1>3 DEF Form
<1>5. Sent(stored) \in Text
  BY <1>1, SentText DEF IInv, StoredInv
<1>6. form' = Form(form'.text, form'.photo, form'.typed)
  BY <1>1, <1>3, <1>4
<1>7. FormInv'
  BY <1>1, <1>4, <1>5, <1>6 DEF IInv, StoredInv, FormInv
<1>8. Sent(stored)' = Sent(stored)
  BY <1>1 DEF Sent
<1>9. ShownInv' /\ SaveInv'
  BY <1>1, <1>4, <1>8 DEF ShownInv, SaveInv
<1> QED BY <1>1, <1>2, <1>7, <1>9 DEF IInv

LEMMA SendTypedStep ==
  ASSUME IInv, SendTyped
  PROVE  IInv'
<1>1. /\ pc' = "typed" /\ UNCHANGED <<field, stored, photo, typed>>
      /\ \E text \in IF form.text = <<>> THEN Texts ELSE Retyped,
            u \in IF field = "bio" THEN AnyPhoto ELSE {NoPhoto} :
           form' = Form(text, u, How(text))
  BY DEF SendTyped, Goto
<1>2. PICK text \in Texts \cup Retyped, u \in AnyPhoto :
        /\ form' = Form(text, u, How(text))
        /\ field # "bio" => u = NoPhoto
  BY <1>1 DEF AnyPhoto
<1>3. StoredInv'
  BY <1>1 DEF IInv, StoredInv
<1>4. form'.text = text /\ form'.photo = u /\ form'.typed = How(text)
  BY <1>2 DEF Form
<1>5. text \in Text
  BY TypedTexts
<1>6. How(text) \in Typed
  BY <1>5, HowText
<1>7. form' = Form(form'.text, form'.photo, form'.typed)
  BY <1>2, <1>4
<1>8. FormInv'
  BY <1>1, <1>2, <1>4, <1>5, <1>6, <1>7 DEF FormInv
<1>9. ShownInv' /\ SaveInv'
  BY <1>1, <1>4 DEF ShownInv, SaveInv
<1> QED BY <1>1, <1>3, <1>8, <1>9 DEF IInv

LEMMA AnswerStep ==
  ASSUME IInv, StoredInv', Answer
  PROVE  IInv'
<1>1. pc' = "idle" /\ form' = NoForm /\ field' = field
  BY DEF Answer, Goto
<1>2. FormInv'
  <2>1. <<>> \in Text
    BY DEF Text
  <2> QED BY <1>1, <2>1 DEF FormInv, NoForm, Form, AnyPhoto, Typed
<1>3. ShownInv' /\ SaveInv'
  BY <1>1 DEF ShownInv, SaveInv
<1> QED BY <1>1, <1>2, <1>3 DEF IInv

LEMMA ValidateStep ==
  ASSUME IInv, pc \in {"shown", "typed"}, Validate(SanitizeInput(form.text))
  PROVE  IInv'
<1> DEFINE clean == SanitizeInput(form.text)
<1>1. /\ IsValid(clean, form.photo)
      /\ \E text \in ParseHTMLStrict(clean), w \in ParsePhoto(form.photo) :
           form' = Form(text, w, form.typed)
      /\ pc' = IF pc = "shown" THEN "saveShown" ELSE "save"
      /\ UNCHANGED <<field, stored, photo, typed>>
  BY DEF Validate, Goto
<1>2. PICK v \in ParseHTMLStrict(clean), u \in ParsePhoto(form.photo) :
        form' = Form(v, u, form.typed)
  BY <1>1
<1>3. form.text \in Text /\ MaxLength \in Nat
  BY FormsAssumption DEF FormsAssumption, IInv, FormInv
<1>4. /\ v \in Seq(Char \ {"nul"})
      /\ \A n \in Nat : RuneCount(clean) <= n => RuneCount(v) <= n
      /\ How(form.text) # "bytes" => Storable(v)
      /\ How(form.text) \in {"plain", "nul"} => v = clean
      /\ How(form.text) = "plain" => Plain(v) /\ Normal(v)
  BY <1>3, HandledText
<1>5. /\ RuneCount(clean) <= MaxLength
      /\ field # "bio" => TrimSpace(clean) # <<>>
  BY <1>1, ValidText DEF IInv
<1>6. u \in AnyPhoto /\ (field # "bio" => u = NoPhoto)
  BY ParsedPhoto DEF IInv, FormInv
<1>7. StoredInv'
  BY <1>1 DEF IInv, StoredInv
<1>8. pc = "shown" =>
        stored # NoText /\ form.typed = typed /\ form.text = Sent(stored)
  BY DEF IInv, ShownInv
<1>9. pc = "typed" => form.typed = How(form.text)
  BY DEF IInv, ShownInv
<1>10. form.typed = "plain" => Plain(v) /\ Normal(v)
  <2>1. CASE pc = "typed"
    BY <1>4, <1>9, <2>1
  <2>2. CASE pc = "shown"
    <3>1. Storable(stored) /\ (typed = "plain" => Plain(stored))
      BY <1>8, <2>2 DEF IInv, StoredInv
    <3>2. typed = "plain" => How(form.text) = "plain"
      BY <1>8, <2>2, <3>1, SentText
    <3> QED BY <1>4, <1>8, <2>2, <3>2
  <2> QED BY <2>1, <2>2
<1>11. pc = "shown" /\ typed = "plain" =>
         v = stored \/ (field = "subject" /\ "lf" \in Range(stored))
  <2> SUFFICES ASSUME pc = "shown", typed = "plain",
                      ~(field = "subject" /\ "lf" \in Range(stored))
               PROVE  v = stored
    OBVIOUS
  <2>1. Plain(stored) /\ Normal(stored)
    BY <1>8 DEF IInv, StoredInv
  <2>2. field = "bio" \/ "lf" \notin Range(stored)
    BY DEF IInv
  <2>3. v \in ParseHTMLStrict(SanitizeInput(Sent(stored)))
    BY <1>8
  <2> QED BY <2>1, <2>2, <2>3, ResentText
<1>12. RuneCount(v) <= MaxLength
  BY <1>3, <1>4, <1>5
<1>13. pc = "typed" /\ form.typed # "bytes" => Storable(v)
  BY <1>4, <1>9
<1>14. pc = "typed" /\ form.typed \in {"plain", "nul"} /\ field # "bio" =>
         TrimSpace(v) # <<>>
  BY <1>4, <1>5, <1>9
<1> HIDE DEF clean
<1>15. form'.text = v /\ form'.photo = u /\ form'.typed = form.typed
  BY <1>2 DEF Form
<1>16. form' = Form(form'.text, form'.photo, form'.typed)
  BY <1>2, <1>15
<1>17. FormInv'
  <2>1. v \in Text
    BY <1>4 DEF Text
  <2> QED BY <1>1, <1>6, <1>15, <1>16, <2>1 DEF IInv, FormInv
<1>18. ShownInv'
  BY <1>1, <1>8, <1>15 DEF ShownInv
<1>19. SaveInv'
  <2>1. pc' = "save" => pc = "typed"
    BY <1>1
  <2>2. pc' = "saveShown" => pc = "shown"
    BY <1>1
  <2>3. pc' = "save" /\ form.typed # "bytes" => Storable(v)
    BY <1>13, <2>1
  <2>4. pc' = "save" /\ form.typed \in {"plain", "nul"} /\ field # "bio" =>
          TrimSpace(v) # <<>>
    BY <1>14, <2>1
  <2>5. pc' = "saveShown" /\ typed = "plain" =>
          v = stored \/ (field = "subject" /\ "lf" \in Range(stored))
    BY <1>11, <2>2
  <2> QED BY <1>1, <1>4, <1>10, <1>12, <1>15, <2>3, <2>4, <2>5 DEF SaveInv
<1>20. pc' \in {"save", "saveShown"}
  BY <1>1
<1> QED BY <1>1, <1>7, <1>17, <1>18, <1>19, <1>20 DEF IInv

LEMMA HandleStep ==
  ASSUME IInv, Handle
  PROVE  IInv'
<1> DEFINE clean == SanitizeInput(form.text)
<1>1. pc \in {"shown", "typed"} /\ (Validate(clean) \/ Refuse)
  BY DEF Handle
<1>2. CASE Validate(clean)
  BY <1>1, <1>2, ValidateStep
<1>3. CASE Refuse
  <2>1. Answer /\ UNCHANGED <<field, stored, photo, typed>>
    BY <1>3 DEF Refuse, Answer, Goto
  <2>2. StoredInv'
    BY <2>1 DEF IInv, StoredInv
  <2> QED BY <2>1, <2>2, AnswerStep
<1> QED BY <1>1, <1>2, <1>3

(* What the table accepts is fit to be shown again.                        *)
LEMMA SavedText ==
  ASSUME IInv, pc \in {"save", "saveShown"}, Accepted(form.text)
  PROVE  /\ form.photo \in AnyPhoto /\ (field # "bio" => form.photo = NoPhoto)
         /\ form.typed \in Typed
         /\ Storable(form.text) /\ RuneCount(form.text) <= MaxLength
         /\ form.typed = "plain" => Plain(form.text) /\ Normal(form.text)
<1> DEFINE s == form.text
<1>1. s \in Seq(Char \ {"nul"}) /\ Range(s) \cap {"nul", "badByte"} = {}
  BY DEF IInv, SaveInv, Accepted
<1>2. \A i \in 1 .. Len(s) : s[i] \in Char \ {"nul", "badByte"}
  BY <1>1 DEF Range
<1>3. Storable(s)
  BY <1>1, <1>2 DEF Storable
<1> QED BY <1>3 DEF IInv, FormInv, SaveInv

LEMMA SaveStep ==
  ASSUME IInv, Save
  PROVE  IInv'
<1>1. /\ pc \in {"save", "saveShown"} /\ Accepted(form.text)
      /\ Answer /\ field' = field
      /\ stored' = form.text /\ photo' = form.photo /\ typed' = form.typed
  BY DEF Save, Answer, Goto
<1>2. StoredInv'
  BY <1>1, SavedText DEF StoredInv
<1> QED BY <1>1, <1>2, AnswerStep

LEMMA FailStep ==
  ASSUME IInv, Fail
  PROVE  IInv'
<1>1. Answer /\ UNCHANGED <<field, stored, photo, typed>>
  BY DEF Fail, Answer, Goto
<1>2. StoredInv'
  BY <1>1 DEF IInv, StoredInv
<1> QED BY <1>1, <1>2, AnswerStep

LEMMA StutterStep ==
  ASSUME IInv, UNCHANGED vars
  PROVE  IInv'
<1>1. UNCHANGED <<field, stored, photo, typed, pc, form>>
  BY DEF vars
<1>2. StoredInv' /\ FormInv'
  BY <1>1 DEF IInv, StoredInv, FormInv
<1>3. Sent(stored)' = Sent(stored)
  BY <1>1 DEF Sent
<1>4. ShownInv'
  BY <1>1, <1>3 DEF IInv, ShownInv
<1>5. SaveInv'
  BY <1>1 DEF IInv, SaveInv
<1> QED BY <1>1, <1>2, <1>4, <1>5 DEF IInv

(* Wherever a subject or a bio is between the form and the table, it is    *)
(* what IInv says of it: after SanitizeInput it has no NUL, after the      *)
(* validators it fits, parseHTMLStrict makes it no longer, and only what   *)
(* is UTF-8 gets into the table.                                           *)
THEOREM FormsInductive == Spec => []IInv
<1>1. Init => IInv
  BY InitIsInductive
<1>2. IInv /\ [Next]_vars => IInv'
  <2> SUFFICES ASSUME IInv, [Next]_vars
               PROVE  IInv'
    OBVIOUS
  <2>1. CASE NewThread
    BY <2>1, NewThreadStep
  <2>2. CASE EditGET
    BY <2>2, EditStep
  <2>3. CASE SendAsShown
    BY <2>3, SendAsShownStep
  <2>4. CASE SendTyped
    BY <2>4, SendTypedStep
  <2>5. CASE Handle
    BY <2>5, HandleStep
  <2>6. CASE Save
    BY <2>6, SaveStep
  <2>7. CASE Fail
    BY <2>7, FailStep
  <2>8. CASE UNCHANGED vars
    BY <2>8, StutterStep
  <2> QED BY <2>1, <2>2, <2>3, <2>4, <2>5, <2>6, <2>7, <2>8 DEF Next
<1> QED BY <1>1, <1>2, PTL DEF Spec

-----------------------------------------------------------------------------
(* What is stored fits the limit that was checked before the filter        *)
(* rewrote it, for every limit and subjects and bios of any length.        *)
THEOREM TypeCorrect == Spec => []TypeOK
<1>1. IInv => TypeOK
  <2> SUFFICES ASSUME IInv
               PROVE  TypeOK
    OBVIOUS
  <2>1. stored # NoText => Range(stored) \subseteq Char \ {"nul", "badByte"}
    BY DEF IInv, StoredInv, Storable, Range
  <2>2. Range(form.text) \subseteq Char
    BY DEF IInv, FormInv, Text, Range
  <2> QED BY <2>1, <2>2 DEF IInv, StoredInv, FormInv, TypeOK, Typed
<1> QED BY <1>1, FormsInductive, PTL

(* A subject or a bio that validation lets through is one the table takes  *)
(* and, of a subject, a reader sees: unless it had bytes that are not      *)
(* UTF-8, or markup.                                                       *)
THEOREM StorableCorrect == Spec => []ValidIsStorable
<1>1. IInv => ValidIsStorable
  <2> SUFFICES ASSUME IInv, pc = "save", form.typed # "bytes"
               PROVE  /\ \/ Accepted(form.text)
                         \/ form.typed = "markup" /\ form.text = <<>>
                      /\ form.typed # "markup" /\ field = "subject" =>
                           TrimSpace(form.text) # <<>>
    BY DEF ValidIsStorable
  <2>1. Storable(form.text) /\ form.typed \in Typed
    BY DEF IInv, SaveInv, FormInv
  <2>2. Range(form.text) \cap {"nul", "badByte"} = {}
    BY <2>1 DEF Storable, Range
  <2>3. form.typed # "markup" /\ field = "subject" =>
          TrimSpace(form.text) # <<>>
    BY <2>1 DEF IInv, SaveInv, Typed
  <2>4. form.text = <<>> => TrimSpace(form.text) = <<>>
    BY EmptyText
  <2> QED BY <2>2, <2>3, <2>4 DEF Accepted
<1> QED BY <1>1, FormsInductive, PTL

(* Trimming, single spaces and single empty lines do not undo each other.  *)
THEOREM NormalCorrect == Spec => []PlainIsNormal
<1>1. IInv => PlainIsNormal
  BY DEF IInv, StoredInv, PlainIsNormal
<1> QED BY <1>1, FormsInductive, PTL

(* A form that is sent back as it was shown is stored as it was, whatever  *)
(* the browser has done to its line breaks.                                *)
THEOREM ResendCorrect == Spec => ResendChangesNothing
<1> DEFINE Resent == pc = "saveShown" /\ typed = "plain" =>
                       \/ stored' = stored
                       \/ field = "subject" /\ "lf" \in Range(stored)
<1>1. IInv /\ [Next]_vars => [Resent]_vars
  <2> SUFFICES ASSUME IInv, Next, pc = "saveShown", typed = "plain"
               PROVE  \/ stored' = stored
                      \/ field = "subject" /\ "lf" \in Range(stored)
    OBVIOUS
  <2>1. \/ form.text = stored
        \/ field = "subject" /\ "lf" \in Range(stored)
    BY DEF IInv, SaveInv
  <2>2. CASE Save
    BY <2>1, <2>2 DEF Save
  <2>3. CASE Fail
    BY <2>3 DEF Fail
  <2>4. Save \/ Fail
    BY DEF Next, NewThread, EditGET, SendAsShown, SendTyped, Handle
  <2> QED BY <2>2, <2>3, <2>4
<1>2. ResendChangesNothing <=> [][Resent]_vars
  BY DEF ResendChangesNothing
<1> QED BY <1>1, <1>2, FormsInductive, PTL DEF Spec
=============================================================================
