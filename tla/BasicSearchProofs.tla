-------------------------- MODULE BasicSearchProofs --------------------------
(***************************************************************************)
(* Proofs about a search: locate_term finds a term where it is, filt       *)
(* keeps what passes, and the recall merges the lists to the best objects. *)
(***************************************************************************)
EXTENDS BasicSearch, DataLemmas

-----------------------------------------------------------------------------
(***************************************************************************)
(* locate_term                                                             *)
(***************************************************************************)
Mid(range) == (range[1] + range[2]) \div 2
Above(terms, sign) == {r \in Nat \X Nat : terms[Mid(r) + 1].sign > sign}
Below(terms, sign) == {r \in Nat \X Nat : terms[Mid(r) + 1].sign < sign}

(* The loop of Halve, once. *)
HalveOnce(terms, sign, loop) ==
  [range \in Nat \X Nat |->
     LET low == range[1]
         high == range[2]
         mid == (low + high) \div 2
     IN  IF low > high                     THEN NoTerm
         ELSE IF terms[mid + 1].sign > sign
           THEN IF mid = 0 THEN NoTerm ELSE loop[<<low, mid - 1>>]
         ELSE IF terms[mid + 1].sign < sign THEN loop[<<mid + 1, high>>]
         ELSE mid + 1]

LEMMA MidProperties ==
  \A r \in Nat \X Nat :
    /\ Mid(r) \in Nat
    /\ r[1] <= r[2] => r[1] <= Mid(r) /\ Mid(r) <= r[2]
  BY DEF Mid

LEMMA HalveEnds ==
  ASSUME NEW terms, NEW sign
  PROVE  \E f : f = HalveOnce(terms, sign, f) /\ f \in [Nat \X Nat -> Nat]
<1> DEFINE D == Nat \X Nat
           down == Above(terms, sign)
           up == Below(terms, sign)
           stop == {r \in D : \/ r[1] > r[2]
                              \/ r \in down /\ Mid(r) = 0
                              \/ r \notin down /\ r \notin up}
           val == [r \in stop |-> IF r[1] > r[2] \/ r \in down THEN NoTerm ELSE Mid(r) + 1]
           next == [r \in D |-> IF r \in down /\ Mid(r) # 0 THEN <<r[1], Mid(r) - 1>>
                                ELSE <<Mid(r) + 1, r[2]>>]
           w == [r \in D |-> IF r[1] > r[2] THEN 0 ELSE r[2] - r[1] + 1]
<1>1. \A r \in D : r = <<r[1], r[2]>> /\ r[1] \in Nat /\ r[2] \in Nat /\ Mid(r) \in Nat
  BY MidProperties
<1>2. stop \in SUBSET D
  OBVIOUS
<1>3. val \in [stop -> Nat]
  BY <1>1 DEF NoTerm
<1>4. next \in [D -> D]
  BY <1>1
<1>5. w \in [D -> Nat]
  BY <1>1
<1>6. ASSUME NEW r \in D \ stop
      PROVE  w[next[r]] < w[r]
  <2>1. r[1] <= r[2] /\ r[1] <= Mid(r) /\ Mid(r) <= r[2]
    BY <1>1, MidProperties
  <2>2. CASE r \in down /\ Mid(r) # 0
    <3>1. next[r] = <<r[1], Mid(r) - 1>> /\ next[r] \in D
      BY <1>4, <2>2
    <3>2. QED
      BY <1>1, <2>1, <3>1
  <2>3. CASE ~(r \in down /\ Mid(r) # 0)
    <3>1. next[r] = <<Mid(r) + 1, r[2]>> /\ next[r] \in D
      BY <1>4, <2>3
    <3>2. QED
      BY <1>1, <2>1, <3>1
  <2>4. QED
    BY <2>2, <2>3
<1> HIDE DEF stop, val, next, w
<1>7. PICK f \in [D -> Nat] : Unfolds(f, D, stop, val, next)
  BY <1>2, <1>3, <1>4, <1>5, <1>6, TailRecursion
<1>8. ASSUME NEW r \in D
      PROVE  f[r] = HalveOnce(terms, sign, f)[r]
  <2>1. f[r] = IF r \in stop THEN val[r] ELSE f[next[r]]
    BY <1>7 DEF Unfolds
  <2>2. /\ r \in down <=> terms[Mid(r) + 1].sign > sign
        /\ r \in up <=> terms[Mid(r) + 1].sign < sign
    BY DEF Above, Below
  <2>3. HalveOnce(terms, sign, f)[r] =
          IF r[1] > r[2]  THEN NoTerm
          ELSE IF r \in down
            THEN IF Mid(r) = 0 THEN NoTerm ELSE f[<<r[1], Mid(r) - 1>>]
          ELSE IF r \in up THEN f[<<Mid(r) + 1, r[2]>>]
          ELSE Mid(r) + 1
    BY <2>2 DEF HalveOnce, Mid
  <2> HIDE DEF down, up
  <2>4. QED
    BY <2>1, <2>3 DEF stop, val, next
<1>9. f = HalveOnce(terms, sign, f)
  BY <1>7, <1>8 DEF HalveOnce
<1>10. QED
  BY <1>7, <1>9

LEMMA HalveUnfolds ==
  ASSUME NEW terms, NEW sign
  PROVE  Halve(terms, sign) = HalveOnce(terms, sign, Halve(terms, sign))
<1>1. Halve(terms, sign) = CHOOSE f : f = HalveOnce(terms, sign, f)
  BY DEF Halve, HalveOnce
<1>2. \E f : f = HalveOnce(terms, sign, f)
  BY HalveEnds
<1> HIDE DEF Halve, HalveOnce
<1>3. QED
  BY <1>1, <1>2

TermsOk(terms) ==
  /\ Len(terms) \in Nat \ {0} /\ DOMAIN terms = 1 .. Len(terms)
  /\ \A k \in DOMAIN terms : terms[k].sign \in Nat
  /\ \A i, j \in DOMAIN terms : i < j => terms[i].sign < terms[j].sign

(* On terms of rising sign, locate_term finds the sign iff one has it. *)
LEMMA LocateExact ==
  ASSUME NEW terms, TermsOk(terms), NEW sign \in Nat
  PROVE  LET k == locate_term(terms, sign)
         IN  /\ k # NoTerm => k \in DOMAIN terms /\ terms[k].sign = sign
             /\ \A l \in DOMAIN terms : terms[l].sign = sign => k = l
<1> DEFINE n == Len(terms)
           H == Halve(terms, sign)
           In(r) == {l \in r[1] + 1 .. r[2] + 1 : terms[l].sign = sign}
           exact(r) == /\ H[r] # NoTerm => H[r] \in In(r)
                       /\ \A l \in In(r) : H[r] = l
           D == {r \in Nat \X Nat : r[2] < n}
           w(r) == IF r[1] > r[2] THEN 0 ELSE r[2] - r[1] + 1
           bad == {w(r) : r \in {x \in D : ~exact(x)}}
<1>1. /\ n \in Nat \ {0} /\ DOMAIN terms = 1 .. n
      /\ \A k \in 1 .. n : terms[k].sign \in Nat
      /\ \A i, j \in 1 .. n : i < j => terms[i].sign < terms[j].sign
  BY DEF TermsOk
<1>2. \A r \in D : r = <<r[1], r[2]>> /\ r[1] \in Nat /\ r[2] \in Nat /\ Mid(r) \in Nat
  BY MidProperties
<1>3. \A r \in D : H[r] =
          IF r[1] > r[2]  THEN NoTerm
          ELSE IF terms[Mid(r) + 1].sign > sign
            THEN IF Mid(r) = 0 THEN NoTerm ELSE H[<<r[1], Mid(r) - 1>>]
          ELSE IF terms[Mid(r) + 1].sign < sign THEN H[<<Mid(r) + 1, r[2]>>]
          ELSE Mid(r) + 1
  <2> DEFINE once == HalveOnce(terms, sign, H)
  <2>1. H = once
    BY HalveUnfolds
  <2> HIDE DEF H
  <2>2. \A r \in D : once[r] =
          IF r[1] > r[2]  THEN NoTerm
          ELSE IF terms[Mid(r) + 1].sign > sign
            THEN IF Mid(r) = 0 THEN NoTerm ELSE H[<<r[1], Mid(r) - 1>>]
          ELSE IF terms[Mid(r) + 1].sign < sign THEN H[<<Mid(r) + 1, r[2]>>]
          ELSE Mid(r) + 1
    BY DEF HalveOnce, Mid
  <2>3. QED
    BY <2>1, <2>2
<1> HIDE DEF n, H
<1>4. ASSUME bad # {}
      PROVE  FALSE
  <2>1. bad \subseteq Nat
    BY <1>2
  <2>2. PICK k \in bad : \A j \in bad : k <= j
    BY <1>4, <2>1, LeastNat
  <2>3. PICK r \in D : k = w(r) /\ ~exact(r)
    BY <2>2
  <2>4. \A s \in D : w(s) < w(r) => exact(s)
    <3> SUFFICES ASSUME NEW s \in D, w(s) < w(r), ~exact(s)
                 PROVE  FALSE
      OBVIOUS
    <3>1. w(s) \in bad
      OBVIOUS
    <3>2. w(r) <= w(s) /\ w(s) \in Nat /\ w(r) \in Nat
      BY <2>1, <2>2, <2>3, <3>1
    <3>3. QED
      BY <3>2
  <2> DEFINE m == Mid(r)
  <2>5. /\ r[1] \in Nat /\ r[2] \in Nat /\ r[2] < n /\ m \in Nat
        /\ r[1] <= r[2] => r[1] <= m /\ m <= r[2]
    BY <1>2, MidProperties
  <2> HIDE DEF m
  <2>6. H[r] = IF r[1] > r[2]  THEN NoTerm
               ELSE IF terms[m + 1].sign > sign
                 THEN IF m = 0 THEN NoTerm ELSE H[<<r[1], m - 1>>]
               ELSE IF terms[m + 1].sign < sign THEN H[<<m + 1, r[2]>>]
               ELSE m + 1
    BY <1>3 DEF m
  <2>7. CASE r[1] > r[2]
    <3>1. In(r) = {} /\ H[r] = NoTerm
      BY <2>5, <2>6, <2>7
    <3>2. QED
      BY <2>3, <3>1
  <2>8. CASE r[1] <= r[2]
    <3>1. m + 1 \in 1 .. n /\ r[1] <= m /\ m <= r[2] /\ terms[m + 1].sign \in Nat
      BY <1>1, <2>5, <2>8
    <3>2. CASE terms[m + 1].sign > sign
      <4>1. \A l \in In(r) : l <= m
        <5> SUFFICES ASSUME NEW l \in In(r), l > m
                     PROVE  FALSE
          BY <2>5
        <5>1. l \in 1 .. n /\ terms[l].sign = sign
          BY <1>1, <2>5
        <5>2. l = m + 1 \/ m + 1 < l
          BY <2>5, <5>1
        <5>3. terms[m + 1].sign <= terms[l].sign
          BY <1>1, <3>1, <5>1, <5>2
        <5>4. QED
          BY <3>1, <3>2, <5>1, <5>3
      <4>2. CASE m = 0
        <5>1. In(r) = {} /\ H[r] = NoTerm
          BY <2>5, <2>6, <2>8, <3>2, <4>1, <4>2
        <5>2. QED
          BY <2>3, <5>1
      <4>3. CASE m # 0
        <5> DEFINE s == <<r[1], m - 1>>
        <5>1. s \in D /\ w(s) < w(r)
          <6>1. m - 1 \in Nat /\ m - 1 < n /\ s[1] = r[1] /\ s[2] = m - 1
            BY <1>1, <2>5, <3>1, <4>3
          <6>2. s \in D
            BY <2>5, <6>1
          <6>3. w(r) = r[2] - r[1] + 1
            BY <2>5, <2>8
          <6>4. w(s) = IF r[1] > m - 1 THEN 0 ELSE (m - 1) - r[1] + 1
            BY <6>1
          <6>5. QED
            BY <2>5, <2>8, <3>1, <4>3, <6>2, <6>3, <6>4
        <5>2. exact(s)
          BY <2>4, <5>1
        <5>3. H[r] = H[s]
          BY <2>5, <2>6, <2>8, <3>2, <4>3
        <5>4. In(r) = In(s)
          BY <2>5, <3>1, <4>1, <4>3
        <5> HIDE DEF s
        <5>5. QED
          BY <2>3, <5>2, <5>3, <5>4
      <4>4. QED
        BY <4>2, <4>3
    <3>3. CASE terms[m + 1].sign < sign
      <4> DEFINE s == <<m + 1, r[2]>>
      <4>1. \A l \in In(r) : l >= m + 2
        <5> SUFFICES ASSUME NEW l \in In(r), l < m + 2
                     PROVE  FALSE
          BY <2>5
        <5>1. l \in 1 .. n /\ terms[l].sign = sign
          BY <1>1, <2>5
        <5>2. l = m + 1 \/ l < m + 1
          BY <2>5, <5>1
        <5>3. terms[l].sign <= terms[m + 1].sign
          BY <1>1, <3>1, <5>1, <5>2
        <5>4. QED
          BY <3>1, <3>3, <5>1, <5>3
      <4>2. s \in D /\ w(s) < w(r)
        BY <2>5, <2>8, <3>1
      <4>3. exact(s)
        BY <2>4, <4>2
      <4>4. H[r] = H[s]
        BY <2>5, <2>6, <2>8, <3>1, <3>3
      <4>5. In(r) = In(s)
        BY <2>5, <3>1, <4>1
      <4> HIDE DEF s
      <4>6. QED
        BY <2>3, <4>3, <4>4, <4>5
    <3>4. CASE terms[m + 1].sign = sign
      <4>1. H[r] = m + 1
        BY <2>5, <2>6, <2>8, <3>4
      <4>2. m + 1 \in In(r)
        BY <2>5, <3>1, <3>4
      <4>3. \A l \in In(r) : l = m + 1
        <5>1. SUFFICES ASSUME NEW l \in In(r), l # m + 1
                       PROVE  FALSE
          OBVIOUS
        <5>2. l \in 1 .. n /\ m + 1 \in 1 .. n /\ terms[l].sign = sign
          BY <1>1, <2>5, <3>1, <5>1
        <5>3. PICK x \in 1 .. n : x = m + 1
          BY <5>2
        <5>4. l < x \/ x < l
          BY <5>1, <5>2, <5>3
        <5>5. terms[l].sign < terms[x].sign \/ terms[x].sign < terms[l].sign
          BY <1>1, <5>2, <5>3, <5>4
        <5>6. QED
          BY <1>1, <3>4, <5>2, <5>3, <5>5
      <4>4. QED
        BY <2>3, <4>1, <4>2, <4>3
    <3>5. QED
      BY <3>1, <3>2, <3>3, <3>4
  <2>9. QED
    BY <2>5, <2>7, <2>8
<1>5. \A r \in D : exact(r)
  BY <1>4
<1> DEFINE all == <<0, n - 1>>
<1>6. all \in D /\ all[1] + 1 = 1 /\ all[2] + 1 = n
  BY <1>1
<1>7. exact(all)
  BY <1>5, <1>6
<1>8. In(all) = {l \in 1 .. n : terms[l].sign = sign}
  BY <1>6
<1>9. locate_term(terms, sign) = H[all]
  BY DEF locate_term, H, n
<1> HIDE DEF all
<1>10. QED
  BY <1>1, <1>7, <1>8, <1>9

-----------------------------------------------------------------------------
(***************************************************************************)
(* tag_filter                                                              *)
(***************************************************************************)
Rising(seq) == \A k, l \in DOMAIN seq : k < l => seq[k] <= seq[l]

(* Where a sequence has x from position i on. *)
Rest(seq, i, x) == {k \in i .. Len(seq) : seq[k] = x}

LEMMA RestProperties ==
  ASSUME NEW seq \in Seq(Int), NEW i \in 1 .. Len(seq) + 1, NEW x
  PROVE  /\ Cardinality(Rest(seq, i, x)) \in Nat
         /\ i = 1 => Cardinality(Rest(seq, i, x)) = Occurrences(seq, x)
         /\ i <= Len(seq) =>
              IF x = seq[i]
                THEN Cardinality(Rest(seq, i, x)) = Cardinality(Rest(seq, i + 1, x)) + 1
                ELSE Rest(seq, i, x) = Rest(seq, i + 1, x)
         /\ i > Len(seq) => Cardinality(Rest(seq, i, x)) = 0
<1>1. Len(seq) \in Nat /\ DOMAIN seq = 1 .. Len(seq)
  OBVIOUS
<1>2. \A j \in Nat : IsFiniteSet(Rest(seq, j, x)) /\ Cardinality(Rest(seq, j, x)) \in Nat
  <2> TAKE j \in Nat
  <2>1. IsFiniteSet(j .. Len(seq))
    BY <1>1, FS_Interval
  <2>2. IsFiniteSet(Rest(seq, j, x))
    BY <2>1, FS_Subset DEF Rest
  <2>3. QED
    BY <2>2, FS_CardinalityType
<1>3. i \in Nat /\ i + 1 \in Nat
  OBVIOUS
<1>4. i = 1 => Rest(seq, i, x) = {k \in DOMAIN seq : seq[k] = x}
  BY <1>1 DEF Rest
<1>5. ASSUME i <= Len(seq), x = seq[i]
      PROVE  Cardinality(Rest(seq, i, x)) = Cardinality(Rest(seq, i + 1, x)) + 1
  <2>1. Rest(seq, i, x) = Rest(seq, i + 1, x) \cup {i}
    BY <1>1, <1>5 DEF Rest
  <2>2. i \notin Rest(seq, i + 1, x)
    BY <1>1 DEF Rest
  <2>3. QED
    BY <1>2, <1>3, <2>1, <2>2, FS_AddElement
<1>6. ASSUME i <= Len(seq), x # seq[i]
      PROVE  Rest(seq, i, x) = Rest(seq, i + 1, x)
  <2> SUFFICES ASSUME NEW k
               PROVE  k \in Rest(seq, i, x) <=> k \in Rest(seq, i + 1, x)
    OBVIOUS
  <2>1. k \in i .. Len(seq) /\ k # i <=> k \in i + 1 .. Len(seq)
    BY <1>1
  <2>2. QED
    BY <1>6, <2>1 DEF Rest
<1>7. i > Len(seq) => Rest(seq, i, x) = {}
  BY <1>1 DEF Rest
<1>8. Cardinality({}) = 0
  BY FS_EmptySet
<1>9. QED
  BY <1>2, <1>3, <1>4, <1>5, <1>6, <1>7, <1>8 DEF Occurrences

LEMMA RestAbove ==
  ASSUME NEW seq \in Seq(Int), Rising(seq), NEW i \in 1 .. Len(seq), NEW x \in Int,
         x < seq[i]
  PROVE  Cardinality(Rest(seq, i, x)) = 0
<1>1. Len(seq) \in Nat /\ DOMAIN seq = 1 .. Len(seq) /\ \A k \in 1 .. Len(seq) : seq[k] \in Int
  OBVIOUS
<1>2. ASSUME NEW k \in Rest(seq, i, x)
      PROVE  FALSE
  <2>1. k \in 1 .. Len(seq) /\ (k = i \/ i < k) /\ seq[k] = x
    BY <1>1 DEF Rest
  <2>2. seq[i] <= seq[k]
    BY <1>1, <2>1 DEF Rising
  <2>3. QED
    BY <1>1, <2>1, <2>2
<1>3. Rest(seq, i, x) = {}
  BY <1>2
<1>4. QED
  BY <1>3, FS_EmptySet

(* From these positions on, the tags have each id as often as the filter.  *)
Covered(filter, tags, at) ==
  \A x \in Int : Cardinality(Rest(filter, at[1], x)) <= Cardinality(Rest(tags, at[2], x))

(* The loop of tag_filter, once. *)
MissingOnce(filter, tags, missing) ==
  [at \in (1 .. Len(filter) + 1) \X (1 .. Len(tags) + 1) |->
     LET i == at[1]
         j == at[2]
     IN  /\ i <= Len(filter)
         /\ j <= Len(tags) =>
              \/ tags[j] > filter[i]
              \/ tags[j] < filter[i] /\ missing[<<i, j + 1>>]
              \/ tags[j] = filter[i] /\ missing[<<i + 1, j + 1>>]]

LEMMA CoveredUnfolds ==
  ASSUME NEW filter \in Seq(Int), NEW tags \in Seq(Int), Rising(filter), Rising(tags),
         NEW i \in 1 .. Len(filter) + 1, NEW j \in 1 .. Len(tags) + 1
  PROVE  ~Covered(filter, tags, <<i, j>>) <=>
           /\ i <= Len(filter)
           /\ j <= Len(tags) =>
                \/ tags[j] > filter[i]
                \/ tags[j] < filter[i] /\ ~Covered(filter, tags, <<i, j + 1>>)
                \/ tags[j] = filter[i] /\ ~Covered(filter, tags, <<i + 1, j + 1>>)
<1> DEFINE m == Len(filter)
           n == Len(tags)
           F(k, x) == Cardinality(Rest(filter, k, x))
           T(k, x) == Cardinality(Rest(tags, k, x))
           covered(k, l) == Covered(filter, tags, <<k, l>>)
<1>1. /\ m \in Nat /\ \A k \in 1 .. m : filter[k] \in Int
      /\ n \in Nat /\ \A k \in 1 .. n : tags[k] \in Int
  OBVIOUS
<1>2. \A k, l : covered(k, l) <=> \A x \in Int : F(k, x) <= T(l, x)
  BY DEF Covered
<1>3. \A k \in 1 .. m + 1, x \in Int :
        /\ F(k, x) \in Nat
        /\ k <= m => IF x = filter[k] THEN F(k, x) = F(k + 1, x) + 1 ELSE F(k, x) = F(k + 1, x)
        /\ k > m => F(k, x) = 0
  BY RestProperties
<1>4. \A k \in 1 .. n + 1, x \in Int :
        /\ T(k, x) \in Nat
        /\ k <= n => IF x = tags[k] THEN T(k, x) = T(k + 1, x) + 1 ELSE T(k, x) = T(k + 1, x)
        /\ k > n => T(k, x) = 0
  BY RestProperties
<1>5. \A x \in Int : i <= m /\ x < filter[i] => F(i, x) = 0
  BY <1>1, RestAbove
<1>6. \A x \in Int : j <= n /\ x < tags[j] => T(j, x) = 0
  BY <1>1, RestAbove
<1>7. /\ i \in Nat /\ j \in Nat /\ (i <= m => i \in 1 .. m /\ i + 1 \in 1 .. m + 1)
      /\ (j <= n => j \in 1 .. n /\ j + 1 \in 1 .. n + 1)
  BY <1>1
<1> HIDE DEF m, n, F, T, covered
<1>8. CASE i > m
  <2>1. \A x \in Int : F(i, x) = 0 /\ T(j, x) \in Nat
    BY <1>3, <1>4, <1>8 DEF m, n
  <2>2. covered(i, j)
    BY <1>2, <2>1
  <2>3. QED
    BY <1>1, <1>7, <1>8, <2>2 DEF covered, m
<1>9. CASE i <= m /\ j > n
  <2>1. F(i, filter[i]) = F(i + 1, filter[i]) + 1 /\ F(i + 1, filter[i]) \in Nat
    BY <1>1, <1>3, <1>7, <1>9 DEF m
  <2>2. T(j, filter[i]) = 0
    BY <1>1, <1>4, <1>7, <1>9 DEF n
  <2>3. ~covered(i, j)
    BY <1>1, <1>2, <1>7, <1>9, <2>1, <2>2
  <2>4. QED
    BY <1>1, <1>7, <1>9, <2>3 DEF covered, m, n
<1>10. CASE i <= m /\ j <= n
  <2>1. filter[i] \in Int /\ tags[j] \in Int
    BY <1>1, <1>7, <1>10
  <2>2. CASE tags[j] > filter[i]
    <3>1. F(i, filter[i]) = F(i + 1, filter[i]) + 1 /\ F(i + 1, filter[i]) \in Nat
      BY <1>1, <1>3, <1>7, <1>10 DEF m
    <3>2. T(j, filter[i]) = 0
      BY <1>6, <1>10, <2>1, <2>2
    <3>3. ~covered(i, j)
      BY <1>2, <2>1, <3>1, <3>2
    <3>4. QED
      BY <1>10, <2>2, <3>3 DEF covered, m, n
  <2>3. CASE tags[j] < filter[i]
    <3>1. \A x \in Int : F(i, x) <= T(j, x) <=> F(i, x) <= T(j + 1, x)
      <4> TAKE x \in Int
      <4>1. x = tags[j] => F(i, x) = 0
        BY <1>5, <1>10, <2>1, <2>3
      <4>2. x # tags[j] => T(j, x) = T(j + 1, x)
        BY <1>4, <1>7, <1>10 DEF n
      <4>3. F(i, x) \in Nat /\ T(j, x) \in Nat /\ T(j + 1, x) \in Nat
        BY <1>3, <1>4, <1>7, <1>10 DEF m, n
      <4>4. QED
        BY <4>1, <4>2, <4>3
    <3>2. covered(i, j) <=> covered(i, j + 1)
      BY <1>2, <3>1
    <3>3. ~(tags[j] > filter[i]) /\ tags[j] # filter[i]
      BY <2>1, <2>3
    <3>4. ~covered(i, j) <=>
            /\ i <= m
            /\ j <= n =>
                 \/ tags[j] > filter[i]
                 \/ tags[j] < filter[i] /\ ~covered(i, j + 1)
                 \/ tags[j] = filter[i] /\ ~covered(i + 1, j + 1)
      BY <1>10, <2>3, <3>2, <3>3
    <3>5. QED
      BY <3>4 DEF covered, m, n
  <2>4. CASE tags[j] = filter[i]
    <3>1. \A x \in Int : F(i, x) <= T(j, x) <=> F(i + 1, x) <= T(j + 1, x)
      <4> TAKE x \in Int
      <4>1. IF x = filter[i] THEN F(i, x) = F(i + 1, x) + 1 ELSE F(i, x) = F(i + 1, x)
        BY <1>3, <1>7, <1>10 DEF m
      <4>2. IF x = tags[j] THEN T(j, x) = T(j + 1, x) + 1 ELSE T(j, x) = T(j + 1, x)
        BY <1>4, <1>7, <1>10 DEF n
      <4>3. /\ F(i, x) \in Nat /\ T(j, x) \in Nat
            /\ F(i + 1, x) \in Nat /\ T(j + 1, x) \in Nat
        BY <1>3, <1>4, <1>7, <1>10 DEF m, n
      <4>4. CASE x = filter[i]
        <5>1. F(i, x) = F(i + 1, x) + 1 /\ T(j, x) = T(j + 1, x) + 1
          BY <2>4, <4>1, <4>2, <4>4
        <5>2. QED
          BY <4>3, <5>1
      <4>5. CASE x # filter[i]
        BY <2>4, <4>1, <4>2, <4>3, <4>5
      <4>6. QED
        BY <4>4, <4>5
    <3>2. covered(i, j) <=> covered(i + 1, j + 1)
      BY <1>2, <3>1
    <3>3. QED
      BY <1>10, <2>1, <2>4, <3>2 DEF covered, m, n
  <2>5. QED
    BY <2>1, <2>2, <2>3, <2>4
<1>11. QED
  BY <1>1, <1>7, <1>8, <1>9, <1>10

(* On ascending tags, tag_filter drops a brief iff some id is in it less   *)
(* often than in the filter.                                               *)
LEMMA TagFilterExact ==
  ASSUME NEW brief, NEW filter \in Seq(Int), brief.tags \in Seq(Int),
         Rising(filter), Rising(brief.tags)
  PROVE  tag_filter(brief, filter) <=>
           ~ \A id \in ToSet(filter) : Occurrences(filter, id) <= Occurrences(brief.tags, id)
<1> DEFINE tags == brief.tags
           m == Len(filter)
           n == Len(tags)
           D == (1 .. m + 1) \X (1 .. n + 1)
           g == [at \in D |-> ~Covered(filter, tags, at)]
           M == CHOOSE f : f = MissingOnce(filter, tags, f)
<1>1. m \in Nat /\ n \in Nat
  OBVIOUS
<1>2. \A at \in D : at = <<at[1], at[2]>> /\ at[1] \in 1 .. m + 1 /\ at[2] \in 1 .. n + 1
  OBVIOUS
<1>3. \A f : DOMAIN MissingOnce(filter, tags, f) = D
  BY DEF MissingOnce
<1>4. \A k \in 1 .. m + 1, l \in 1 .. n + 1 :
        Covered(filter, tags, <<k, l>>) <=>
          ~ (/\ k <= m
             /\ l <= n => \/ tags[l] > filter[k]
                          \/ tags[l] < filter[k] /\ ~Covered(filter, tags, <<k, l + 1>>)
                          \/ tags[l] = filter[k] /\ ~Covered(filter, tags, <<k + 1, l + 1>>))
  BY CoveredUnfolds
<1>5. \A id : id \notin Int => id \notin ToSet(filter)
  BY DEF ToSet
<1>6. Covered(filter, tags, <<1, 1>>) <=>
        \A id \in ToSet(filter) : Occurrences(filter, id) <= Occurrences(tags, id)
  <2>1. \A x \in Int : /\ Cardinality(Rest(filter, 1, x)) = Occurrences(filter, x)
                       /\ Cardinality(Rest(tags, 1, x)) = Occurrences(tags, x)
                       /\ Occurrences(filter, x) \in Nat /\ Occurrences(tags, x) \in Nat
    <3>1. 1 \in 1 .. m + 1 /\ 1 \in 1 .. n + 1
      BY <1>1
    <3>2. \A x : /\ Cardinality(Rest(filter, 1, x)) \in Nat
                 /\ Cardinality(Rest(filter, 1, x)) = Occurrences(filter, x)
      BY <3>1, RestProperties
    <3>3. \A x : /\ Cardinality(Rest(tags, 1, x)) \in Nat
                 /\ Cardinality(Rest(tags, 1, x)) = Occurrences(tags, x)
      BY <3>1, RestProperties
    <3>4. QED
      BY <3>2, <3>3
  <2>2. \A x : x \notin ToSet(filter) => Occurrences(filter, x) = 0
    <3> TAKE x
    <3> HAVE x \notin ToSet(filter)
    <3>1. {k \in DOMAIN filter : filter[k] = x} = {}
      BY DEF ToSet
    <3>2. QED
      BY <3>1, FS_EmptySet DEF Occurrences
  <2>3. \A x \in Int : x \notin ToSet(filter) => Occurrences(filter, x) <= Occurrences(tags, x)
    BY <2>1, <2>2
  <2>4. Covered(filter, tags, <<1, 1>>) <=>
          \A x \in Int : Occurrences(filter, x) <= Occurrences(tags, x)
    BY <2>1 DEF Covered
  <2>5. QED
    BY <1>5, <2>3, <2>4
<1> HIDE DEF tags, m, n
<1>7. g = MissingOnce(filter, tags, g)
  <2>1. ASSUME NEW at \in D
        PROVE  g[at] = MissingOnce(filter, tags, g)[at]
    <3> DEFINE k == at[1]
               l == at[2]
    <3>1. at = <<k, l>> /\ k \in 1 .. m + 1 /\ l \in 1 .. n + 1
      BY <1>2
    <3>2. l <= n => <<k, l + 1>> \in D
      BY <1>1, <3>1
    <3>3. k <= m /\ l <= n => <<k + 1, l + 1>> \in D
      BY <1>1, <3>1
    <3>4. MissingOnce(filter, tags, g)[at] =
            (/\ k <= m
             /\ l <= n => \/ tags[l] > filter[k]
                          \/ tags[l] < filter[k] /\ g[<<k, l + 1>>]
                          \/ tags[l] = filter[k] /\ g[<<k + 1, l + 1>>])
      BY DEF MissingOnce, m, n
    <3>5. (/\ k <= m
           /\ l <= n => \/ tags[l] > filter[k]
                        \/ tags[l] < filter[k] /\ g[<<k, l + 1>>]
                        \/ tags[l] = filter[k] /\ g[<<k + 1, l + 1>>])
          <=> ~Covered(filter, tags, <<k, l>>)
      BY <1>4, <3>1, <3>2, <3>3
    <3>6. g[at] = ~Covered(filter, tags, <<k, l>>)
      BY <3>1
    <3>7. QED
      BY <3>4, <3>5, <3>6
  <2>2. DOMAIN MissingOnce(filter, tags, g) = D /\ DOMAIN g = D
    BY <1>3
  <2>3. QED
    BY <2>1, <2>2 DEF MissingOnce, m, n
<1>8. M = MissingOnce(filter, tags, M)
  <2> HIDE DEF g
  <2>1. QED
    BY <1>7
<1>9. \A k \in 1 .. m + 1, l \in 1 .. n + 1 :
        M[<<k, l>>] <=> ~Covered(filter, tags, <<k, l>>)
  <2> DEFINE bad == {x[2] : x \in {y \in D : ~(M[y] <=> ~Covered(filter, tags, y))}}
  <2>1. ASSUME bad # {}
        PROVE  FALSE
    <3> HIDE DEF M
    <3>1. bad \subseteq Nat /\ \A l \in bad : l <= n + 1
      BY <1>1, <1>2
    <3>2. PICK l \in bad : \A j \in bad : j <= l
      <4> HIDE DEF bad
      <4>1. n + 1 \in Nat
        BY <1>1
      <4>2. QED
        BY <2>1, <3>1, <4>1, GreatestNat
    <3>3. PICK x \in D : l = x[2] /\ ~(M[x] <=> ~Covered(filter, tags, x))
      BY <3>2
    <3> DEFINE k == x[1]
    <3>4. /\ k \in 1 .. m + 1 /\ l \in 1 .. n + 1
          /\ ~(M[<<k, l>>] <=> ~Covered(filter, tags, <<k, l>>))
      BY <1>2, <3>3
    <3> HIDE DEF k
    <3>5. \A i \in 1 .. m + 1 : l <= n => (M[<<i, l + 1>>] <=> ~Covered(filter, tags, <<i, l + 1>>))
      <4> TAKE i \in 1 .. m + 1
      <4> HAVE l <= n
      <4>1. <<i, l + 1>> \in D /\ <<i, l + 1>>[2] = l + 1
        BY <1>1, <3>4
      <4>2. l + 1 \notin bad
        <5> HIDE DEF bad
        <5>1. l \in Nat /\ ~(l + 1 <= l)
          BY <3>1, <3>2
        <5>2. QED
          BY <3>2, <5>1
      <4>3. QED
        BY <4>1, <4>2
    <3>6. M[<<k, l>>] <=>
            (/\ k <= m
             /\ l <= n => \/ tags[l] > filter[k]
                          \/ tags[l] < filter[k] /\ M[<<k, l + 1>>]
                          \/ tags[l] = filter[k] /\ M[<<k + 1, l + 1>>])
      <4> DEFINE once == MissingOnce(filter, tags, M)
      <4>1. M = once
        BY <1>8
      <4>2. <<k, l>> \in D
        BY <3>4
      <4>3. once[<<k, l>>] <=>
              (/\ k <= m
               /\ l <= n => \/ tags[l] > filter[k]
                            \/ tags[l] < filter[k] /\ M[<<k, l + 1>>]
                            \/ tags[l] = filter[k] /\ M[<<k + 1, l + 1>>])
        BY <4>2 DEF MissingOnce, m, n
      <4> HIDE DEF once
      <4>4. QED
        BY <4>1, <4>3
    <3> HIDE DEF M
    <3>7. k <= m => k + 1 \in 1 .. m + 1
      BY <1>1, <3>4
    <3>8. QED
      BY <1>4, <3>4, <3>5, <3>6, <3>7
  <2> HIDE DEF M
  <2>2. QED
    BY <2>1
<1>10. tag_filter(brief, filter) <=> M[<<1, 1>>]
  BY DEF tag_filter, MissingOnce, tags
<1> HIDE DEF M
<1>11. QED
  BY <1>1, <1>6, <1>9, <1>10 DEF tags

-----------------------------------------------------------------------------
(***************************************************************************)
(* filt                                                                    *)
(***************************************************************************)
LEMMA FilterIdsProperties ==
  ASSUME NEW q, QueryOk(q)
  PROVE  FilterIds(q) \in Seq(Int) /\ Rising(FilterIds(q))
<1> DEFINE D == KnownTags(q)
           f == [i \in D |-> TagId[q.tags[i]]]
<1>1. D \subseteq DOMAIN q.tags /\ DOMAIN q.tags = 1 .. Len(q.tags) /\ Len(q.tags) \in Nat
  BY DEF KnownTags, QueryOk
<1>2. IsFiniteSet(1 .. Len(q.tags))
  BY <1>1, FS_Interval
<1>3. D \subseteq Nat /\ IsFiniteSet(D)
  BY <1>1, <1>2, FS_Subset
<1>4. f \in [D -> Int]
  BY SearchInput DEF KnownTags
<1>5. FilterIds(q) = ValuesInOrder(f)
  BY DEF FilterIds
<1> HIDE DEF D, f
<1>6. QED
  BY <1>3, <1>4, <1>5, ValuesInOrderProperties DEF Rising

(* filt drops an object iff it does not pass the filters of the query.     *)
LEMMA FiltExact ==
  ASSUME IndexOk(index), QueryOk(query), filtTags = FilterIds(query), NEW o \in Nat
  PROVE  filt(o) <=> ~Passes(o)
<1> DEFINE brief == index.briefs[o + 1]
           ids == FilterIds(query)
<1>1. Len(index.briefs) \in Nat /\ DOMAIN index.briefs = 1 .. Len(index.briefs)
  BY DEF IndexOk, IsSequence
<1>2. CASE o >= Len(index.briefs)
  <2>1. get_brief(index.briefs, o) = NoBrief /\ o + 1 \notin DOMAIN index.briefs
    BY <1>1, <1>2 DEF get_brief
  <2>2. QED
    BY <2>1 DEF filt, Passes
<1>3. CASE o < Len(index.briefs)
  <2>1. o + 1 \in DOMAIN index.briefs /\ get_brief(index.briefs, o) = brief
    BY <1>1, <1>3 DEF get_brief
  <2>2. BriefOk(brief)
    BY <2>1 DEF IndexOk
  <2>3. brief # NoBrief
    BY <2>2 DEF BriefOk, NoBrief
  <2> HIDE DEF brief
  <2>4. tag_filter(brief, ids) <=>
          ~ \A id \in ToSet(ids) : Occurrences(ids, id) <= Occurrences(brief.tags, id)
    <3>1. ids \in Seq(Int) /\ Rising(ids)
      BY FilterIdsProperties
    <3>2. brief.tags \in Seq(Int) /\ Rising(brief.tags)
      BY <2>2 DEF BriefOk, Rising
    <3> HIDE DEF ids
    <3>3. QED
      BY <3>1, <3>2, TagFilterExact
  <2>5. numeric_filter(brief, query) <=>
          ~ \A i \in DOMAIN query.numeric :
              LET f == query.numeric[i]
              IN  f.name \in {"type", "catalog"} => brief[f.name] \in f.low .. f.high
    <3>1. \A i \in DOMAIN query.numeric :
            query.numeric[i].low \in Int /\ query.numeric[i].high \in Int
      <4> DEFINE N == [name : STRING, low : Int, high : Int]
      <4>1. query.numeric \in Seq(N)
        BY DEF QueryOk
      <4>2. \A f \in N : f.low \in Int /\ f.high \in Int
        OBVIOUS
      <4> HIDE DEF N
      <4>3. QED
        BY <4>1, <4>2
    <3>2. brief["type"] \in Int /\ brief["catalog"] \in Int
      BY <2>2 DEF BriefOk
    <3>3. \A i \in DOMAIN query.numeric :
            query.numeric[i].name \in {"type", "catalog"} => brief[query.numeric[i].name] \in Int
      BY <3>2
    <3>4. QED
      BY <3>1, <3>3 DEF numeric_filter
  <2>6. filt(o) <=> numeric_filter(brief, query) \/ tag_filter(brief, ids)
    BY <2>1, <2>3 DEF filt
  <2>7. Passes(o) <=>
          /\ \A i \in DOMAIN query.numeric :
               LET f == query.numeric[i]
               IN  f.name \in {"type", "catalog"} => brief[f.name] \in f.low .. f.high
          /\ \A id \in ToSet(ids) : Occurrences(ids, id) <= Occurrences(brief.tags, id)
    BY <2>1 DEF Passes, brief
  <2>8. QED
    BY <2>4, <2>5, <2>6, <2>7
<1>4. QED
  BY <1>1, <1>2, <1>3

-----------------------------------------------------------------------------
(***************************************************************************)
(* The lists of a query, and the best of a set                             *)
(***************************************************************************)
(* The list of the i-th token. *)
HitsOf(ix, q, i) == ix.terms[locate_term(ix.terms, q.token[i])].index
Hits(i) == HitsOf(index, query, i)

LEMMA IndexHasTerms ==
  ASSUME NEW ix, IndexOk(ix)
  PROVE  TermsOk(ix.terms)
<1> DEFINE terms == ix.terms
<1>1. /\ IsSequence(terms) /\ terms # <<>>
      /\ \A i \in DOMAIN terms : terms[i].sign \in Nat
      /\ \A i, j \in DOMAIN terms : i < j => terms[i].sign < terms[j].sign
  BY DEF IndexOk
<1> HIDE DEF terms
<1>2. Len(terms) \in Nat \ {0} /\ DOMAIN terms = 1 .. Len(terms)
  BY <1>1 DEF IsSequence
<1>3. QED
  BY <1>1, <1>2 DEF TermsOk, terms

LEMMA TermProperties ==
  ASSUME NEW t, TermOk(t)
  PROVE  LET list == t.index
         IN  /\ Len(list) = t.num
             /\ Len(list) \in Nat \ {0} /\ DOMAIN list = 1 .. Len(list)
             /\ \A l \in DOMAIN list : list[l].obj \in Nat /\ HitScore(list[l]) \in Nat
             /\ \A l, m \in DOMAIN list : l < m => list[l].obj >= list[m].obj
<1> DEFINE list == t.index
<1>1. /\ t.num \in Nat \ {0} /\ IsSequence(list) /\ Len(list) = t.num
      /\ \A l \in DOMAIN list : /\ list[l].obj \in Nat /\ list[l].num \in Nat
                              /\ IsFiniteSet(list[l].fields)
      /\ \A l, m \in DOMAIN list : l < m => list[l].obj >= list[m].obj
  BY DEF TermOk
<1> HIDE DEF list
<1>2. DOMAIN list = 1 .. Len(list)
  BY <1>1 DEF IsSequence
<1>3. ASSUME NEW l \in DOMAIN list
      PROVE  HitScore(list[l]) \in Nat
  <2> DEFINE e == list[l]
  <2>1. e.num \in Nat /\ Cardinality(e.fields) \in Nat
    BY <1>1, FS_CardinalityType
  <2> HIDE DEF e
  <2>2. HitScore(e) \in Nat
    BY <2>1 DEF HitScore
  <2>3. QED
    BY <2>2 DEF e
<1>4. QED
  BY <1>1, <1>2, <1>3 DEF list

LEMMA HitsProperties ==
  ASSUME NEW ix, IndexOk(ix), NEW q, QueryOk(q), NEW i \in Loaded(ix, q)
  PROVE  LET k == locate_term(ix.terms, q.token[i])
             hits == HitsOf(ix, q, i)
         IN  /\ k \in DOMAIN ix.terms /\ ix.terms[k].sign = q.token[i]
             /\ Len(hits) = ix.terms[k].num
             /\ Len(hits) \in Nat \ {0} /\ DOMAIN hits = 1 .. Len(hits)
             /\ \A l \in DOMAIN hits : hits[l].obj \in Nat /\ HitScore(hits[l]) \in Nat
             /\ \A l, m \in DOMAIN hits : l < m => hits[l].obj >= hits[m].obj
<1> DEFINE k == locate_term(ix.terms, q.token[i])
<1>1. TermsOk(ix.terms)
  BY IndexHasTerms
<1>2. q.token[i] \in Nat /\ k # NoTerm
  BY DEF Loaded, QueryOk
<1>3. k \in DOMAIN ix.terms /\ ix.terms[k].sign = q.token[i]
  BY <1>1, <1>2, LocateExact
<1>4. TermOk(ix.terms[k])
  BY <1>3 DEF IndexOk
<1> HIDE DEF k
<1>5. HitsOf(ix, q, i) = ix.terms[k].index
  BY DEF HitsOf, k
<1>6. QED
  BY <1>3, <1>4, <1>5, TermProperties DEF k

LEMMA MatchingLists ==
  ASSUME IndexOk(index), QueryOk(query)
  PROVE  \A o : o \in Matching <=>
                  \E i \in Loaded(index, query) : \E k \in DOMAIN Hits(i) : o = Hits(i)[k].obj
<1>1. TermsOk(index.terms)
  BY IndexHasTerms
<1>2. ASSUME NEW i \in Loaded(index, query), NEW k \in DOMAIN Hits(i)
      PROVE  Hits(i)[k].obj \in Matching
  <2> DEFINE l == locate_term(index.terms, query.token[i])
             u == index.terms[l]
  <2>1. l \in DOMAIN index.terms /\ u.sign = query.token[i]
    BY <1>2, HitsProperties DEF Hits
  <2>2. i \in Positions
    BY DEF Loaded, Positions
  <2>3. u \in Terms
    BY <2>1 DEF Terms
  <2>4. Hits(i)[k] \in Nodes(u)
    BY DEF Hits, HitsOf, Nodes
  <2> HIDE DEF u
  <2>5. QED
    BY <2>1, <2>2, <2>3, <2>4 DEF Matching
<1>3. ASSUME NEW o \in Matching
      PROVE  \E i \in Loaded(index, query) : \E k \in DOMAIN Hits(i) : o = Hits(i)[k].obj
  <2>1. PICK u \in Terms : /\ \E i \in Positions : u.sign = query.token[i]
                           /\ \E n \in Nodes(u) : o = n.obj
    BY <1>3 DEF Matching
  <2>2. PICK i \in Positions : u.sign = query.token[i]
    BY <2>1
  <2>3. PICK l \in DOMAIN index.terms : u = index.terms[l]
    BY DEF Terms
  <2>4. query.token[i] \in Nat
    BY DEF Positions, QueryOk
  <2>5. locate_term(index.terms, query.token[i]) = l
    BY <1>1, <2>2, <2>3, <2>4, LocateExact
  <2>6. l # NoTerm
    BY <1>1 DEF TermsOk, NoTerm
  <2>7. i \in Loaded(index, query) /\ Hits(i) = u.index
    BY <2>3, <2>5, <2>6 DEF Loaded, Positions, Hits, HitsOf
  <2>8. QED
    BY <2>1, <2>7 DEF Nodes
<1>4. QED
  BY <1>2, <1>3

(* The n greatest of a set, as a set whose other members are smaller.      *)
LEMMA GreatestOfSet ==
  ASSUME NEW P, IsFiniteSet(P), P \subseteq Nat, NEW S \in SUBSET P, NEW n \in Nat \ {0},
         Cardinality(S) <= n, P = S \/ Cardinality(S) = n,
         \A p \in P \ S, s \in S : p < s
  PROVE  S = {o \in P : Cardinality({p \in P : p > o}) < n}
<1> DEFINE up(o) == {p \in P : p > o}
<1>1. IsFiniteSet(S) /\ Cardinality(S) \in Nat
  BY FS_Subset, FS_CardinalityType
<1>2. \A o \in P : IsFiniteSet(up(o)) /\ Cardinality(up(o)) \in Nat
  BY FS_Subset, FS_CardinalityType
<1>3. ASSUME NEW o \in S
      PROVE  Cardinality(up(o)) < n
  <2>1. up(o) \subseteq S /\ o \notin up(o)
    <3>1. \A p \in P : p \in Nat /\ o \in Nat
      OBVIOUS
    <3>2. ASSUME NEW p \in up(o)
          PROVE  p \in S
      <4>1. p \in P /\ p > o /\ (p \notin S => p < o)
        OBVIOUS
      <4>2. QED
        BY <3>1, <4>1
    <3>3. o \notin up(o)
      BY <3>1
    <3>4. QED
      BY <3>2, <3>3
  <2>2. up(o) # S /\ IsFiniteSet(up(o)) /\ Cardinality(up(o)) \in Nat
    BY <1>2, <2>1
  <2>3. Cardinality(up(o)) <= Cardinality(S) /\ Cardinality(up(o)) # Cardinality(S)
    BY <1>1, <2>1, <2>2, FS_Subset
  <2>4. QED
    BY <1>1, <2>2, <2>3
<1>4. ASSUME NEW o \in P \ S
      PROVE  ~(Cardinality(up(o)) < n)
  <2>1. Cardinality(S) = n
    BY <1>4
  <2>2. S \subseteq up(o)
    BY <1>4
  <2>3. Cardinality(S) <= Cardinality(up(o))
    BY <1>2, <1>4, <2>2, FS_Subset
  <2>4. QED
    BY <1>1, <1>2, <2>1, <2>3
<1> HIDE DEF up
<1>5. S = {o \in P : Cardinality(up(o)) < n}
  BY <1>3, <1>4
<1>6. QED
  BY <1>5 DEF up

-----------------------------------------------------------------------------
(***************************************************************************)
(* The inductive invariant.  In the loop of _recall the cursors in the     *)
(* heap stand where their lists are read up to; no object that is left is  *)
(* greater than one that was read; what was read and passes is recalled,   *)
(* from the greatest down.                                                 *)
(***************************************************************************)
CursorOk(i) ==
  LET c == term[i]
  IN  /\ c \in [sign : Nat, left : Nat, at : Nat]
      /\ c.sign = query.token[i]
      /\ c.at \in DOMAIN Hits(i)
      /\ i \in heap => c.left = Len(Hits(i)) - c.at + 1
      /\ i \notin heap => c.at = Len(Hits(i))

CursorsOk ==
  /\ DOMAIN term = Loaded(index, query)
  /\ heap \subseteq DOMAIN term
  /\ \A i \in DOMAIN term : CursorOk(i)

Read(i) == {k \in DOMAIN Hits(i) : k < term[i].at \/ i \notin heap}
Seen == UNION {{Hits(i)[k].obj : k \in Read(i)} : i \in DOMAIN term}

MergeOk == \A o \in Seen, i \in heap : Hits(i)[term[i].at].obj <= o

Recalled == {obj[k].obj : k \in DOMAIN obj}

Ranked == \A k, l \in DOMAIN obj : k < l => obj[k].obj > obj[l].obj

ObjOk ==
  /\ obj \in Seq([obj : Nat, weight : Nat])
  /\ Len(obj) <= MaxRecall
  /\ Ranked
  /\ Recalled = {o \in Seen : Passes(o)}

RememberedOk ==
  /\ lastFilt # NoObj => ~Passes(lastFilt)
  /\ lastValid # NoObj => Passes(lastValid)

(* The hits of an object that were read, and what they weigh. *)
Got(o) == {h \in HitsOn(o) : h[3] \in Read(h[1])}
SoFar(o) == Total([h \in Got(o) |-> Score(h)])

LEMMA WeightIsTotal == \A o : Weight(o) = Total([h \in HitsOn(o) |-> Score(h)])
  BY DEF Weight, Total

WeightsOk == \A k \in DOMAIN obj : obj[k].weight = SoFar(obj[k].obj)

(* The parts of RankedByWeight. *)
Weighs(o, weight) ==
  \/ weight = Weight(o)
  \/ /\ Len(obj) = MaxRecall
     /\ \A j \in DOMAIN obj : obj[j].obj >= o
     /\ weight <= Weight(o)

AllWeigh == \A k \in DOMAIN obj : Weighs(obj[k].obj, obj[k].weight)

ByWeight ==
  \A k, l \in DOMAIN obj :
    k < l => \/ obj[k].weight > obj[l].weight
             \/ obj[k].weight = obj[l].weight /\ obj[k].obj > obj[l].obj

(* No object comes twice, and none is left out but for want of room. *)
ResultOk ==
  /\ IsSequence(obj)
  /\ \A k, l \in DOMAIN obj : obj[k].obj = obj[l].obj => k = l
  /\ Best = Passing \/ Len(obj) = MaxRecall

SearchInv ==
  phase # "idle" =>
    /\ IndexOk(index) /\ QueryOk(query)
    /\ filtTags = FilterIds(query)
    /\ phase \in {"recall", "sorted"}
    /\ phase = "recall" => CursorsOk /\ MergeOk /\ ObjOk /\ RememberedOk /\ WeightsOk
    /\ phase = "sorted" => Recalled = Best /\ AllWeigh /\ ByWeight /\ ResultOk

-----------------------------------------------------------------------------
(***************************************************************************)
(* The steps                                                               *)
(***************************************************************************)
LEMMA HeavierFirst ==
  ASSUME NEW D \in SUBSET Int, NEW w \in [D -> Int], NEW R,
         \A i, j \in D : <<i, j>> \in R <=> w[i] > w[j] \/ (w[i] = w[j] /\ i < j)
  PROVE  StrictOrder(D, R)
<1>1. \A i \in D : w[i] \in Int /\ i \in Int
  OBVIOUS
<1>2. \A x \in D : <<x, x>> \notin R
  BY <1>1
<1>3. \A x, y \in D : x # y => <<x, y>> \in R \/ <<y, x>> \in R
  BY <1>1
<1>4. \A x, y, z \in D : <<x, y>> \in R /\ <<y, z>> \in R => <<x, z>> \in R
  BY <1>1
<1>5. QED
  BY <1>2, <1>3, <1>4 DEF StrictOrder

LEMMA SortedProperties ==
  ASSUME obj \in Seq([obj : Nat, weight : Nat]), Ranked
  PROVE  LET s == Sorted(obj)
         IN  /\ Len(s) = Len(obj)
             /\ IsSequence(s)
             /\ \A k \in DOMAIN s : \E l \in DOMAIN obj : s[k] = obj[l]
             /\ \A k, l \in DOMAIN s : s[k].obj = s[l].obj => k = l
             /\ {s[k].obj : k \in DOMAIN s} = Recalled
             /\ \A k, l \in DOMAIN s :
                  k < l => \/ s[k].weight > s[l].weight
                           \/ s[k].weight = s[l].weight /\ s[k].obj > s[l].obj
<1> DEFINE E == [obj : Nat, weight : Nat]
           D == DOMAIN obj
           stable(i, j) == \/ compare_basic_weight(obj[i], obj[j])
                           \/ obj[i].weight = obj[j].weight /\ i < j
           R == Ordering(D, stable)
           order == InOrder(D, R)
           n == Cardinality(D)
           s == Sorted(obj)
<1>1. /\ Len(obj) \in Nat /\ D = 1 .. Len(obj)
      /\ \A i \in D : obj[i].obj \in Nat /\ obj[i].weight \in Nat
  <2>1. \A e \in E : e.obj \in Nat /\ e.weight \in Nat
    OBVIOUS
  <2> HIDE DEF E
  <2>2. obj \in Seq(E)
    BY DEF E
  <2>3. QED
    BY <2>1, <2>2
<1>2. IsFiniteSet(D) /\ n = Len(obj)
  <2>1. \A m \in Nat : IsFiniteSet(1 .. m) /\ Cardinality(1 .. m) = m
    BY FS_Interval
  <2>2. QED
    BY <1>1, <2>1
<1>3. s = [k \in D |-> obj[order[k]]]
  BY DEF Sorted, Ascending
<1>4. \A i, j \in D : <<i, j>> \in R <=> \/ obj[i].weight > obj[j].weight
                                         \/ obj[i].weight = obj[j].weight /\ i < j
  BY DEF Ordering, compare_basic_weight
<1> HIDE DEF R, n, s, D
<1>5. StrictOrder(D, R)
  <2> DEFINE w == [i \in D |-> obj[i].weight]
  <2>1. \A i \in D : w[i] = obj[i].weight
    OBVIOUS
  <2>2. D \in SUBSET Int /\ w \in [D -> Int]
    BY <1>1
  <2> HIDE DEF w
  <2>3. \A i, j \in D : <<i, j>> \in R <=> w[i] > w[j] \/ (w[i] = w[j] /\ i < j)
    BY <1>4, <2>1
  <2>4. QED
    BY <2>2, <2>3, HeavierFirst
<1>6. /\ order \in [1 .. n -> D]
      /\ \A x \in D : \E k \in 1 .. n : order[k] = x
      /\ \A i, j \in 1 .. n : i < j => <<order[i], order[j]>> \in R
  BY <1>2, <1>5, InOrderProperties DEF n
<1> HIDE DEF order
<1>7. 1 .. n = D /\ DOMAIN s = D
  BY <1>1, <1>2, <1>3
<1>8. \A k \in D : order[k] \in D /\ s[k] = obj[order[k]]
  BY <1>3, <1>6, <1>7
<1>9. {s[k].obj : k \in DOMAIN s} = Recalled
  <2>1. \A k \in DOMAIN s : \E l \in D : s[k].obj = obj[l].obj
    BY <1>7, <1>8
  <2>2. \A l \in D : \E k \in DOMAIN s : s[k].obj = obj[l].obj
    <3> TAKE l \in D
    <3>1. PICK k \in D : order[k] = l
      BY <1>6, <1>7
    <3>2. k \in DOMAIN s /\ s[k] = obj[l]
      BY <1>7, <1>8, <3>1
    <3>3. QED
      BY <3>2
  <2>3. Recalled = {obj[l].obj : l \in D}
    BY DEF Recalled, D
  <2>4. QED
    BY <2>1, <2>2, <2>3
<1>10. ASSUME NEW k \in DOMAIN s, NEW l \in DOMAIN s, k < l
       PROVE  \/ s[k].weight > s[l].weight
              \/ s[k].weight = s[l].weight /\ s[k].obj > s[l].obj
  <2>1. /\ <<order[k], order[l]>> \in R /\ order[k] \in D /\ order[l] \in D
        /\ s[k] = obj[order[k]] /\ s[l] = obj[order[l]]
    BY <1>6, <1>7, <1>8, <1>10
  <2>2. order[k] < order[l] => s[k].obj > s[l].obj
    BY <2>1 DEF Ranked, D
  <2>3. QED
    BY <1>4, <2>1, <2>2
<1>11. Len(s) = Len(obj) /\ IsSequence(s)
  <2>1. D = 1 .. Len(obj) /\ Len(obj) \in Nat
    BY <1>1
  <2>2. /\ Len(s) = Len(obj) /\ DOMAIN s = 1 .. Len(obj)
        /\ s = [k \in 1 .. Len(obj) |-> s[k]]
    BY <1>3, <2>1
  <2>3. s \in [1 .. Len(obj) -> ToSet(s)]
    BY <2>2 DEF ToSet
  <2>4. QED
    BY <2>1, <2>2, <2>3 DEF IsSequence
<1>12. ASSUME NEW k \in DOMAIN s, NEW l \in DOMAIN s, s[k].obj = s[l].obj
       PROVE  k = l
  <2>1. \A i, j \in D : i < j => <<order[i], order[j]>> \in R
    BY <1>6, <1>7
  <2>2. \A i, j \in D : i < j => order[i] # order[j]
    BY <1>5, <1>8, <2>1 DEF StrictOrder
  <2>3. obj[order[k]].obj = obj[order[l]].obj /\ order[k] \in D /\ order[l] \in D
    BY <1>7, <1>8, <1>12
  <2>4. order[k] = order[l]
    <3>1. ~(order[k] < order[l]) /\ ~(order[l] < order[k])
      <4>1. \A a, b \in D : a < b => obj[a].obj # obj[b].obj
        BY <1>1 DEF Ranked, D
      <4>2. QED
        BY <2>3, <4>1
    <3>2. order[k] \in Nat /\ order[l] \in Nat
      BY <1>1, <2>3
    <3>3. QED
      BY <3>1, <3>2
  <2>5. k \in Nat /\ l \in Nat
    BY <1>1, <1>7
  <2>6. QED
    BY <1>7, <2>2, <2>4, <2>5
<1>13. QED
  BY <1>7, <1>8, <1>9, <1>10, <1>11, <1>12 DEF s, D

(* Nothing matches if no token has a list. *)
LEMMA NothingLoaded ==
  IndexOk(index) /\ QueryOk(query) /\ Loaded(index, query) = {} =>
    Best = {} /\ Passing = {}
<1> SUFFICES ASSUME IndexOk(index), QueryOk(query), Loaded(index, query) = {}
             PROVE  Best = {} /\ Passing = {}
  OBVIOUS
<1>1. Matching = {}
  BY MatchingLists
<1>2. QED
  BY <1>1 DEF Best, Passing

LEMMA BeginInv ==
  ASSUME NEW ix, NEW q, IndexOk(ix), QueryOk(q), Begin(ix, q)
  PROVE  SearchInv'
<1>1. /\ index' = ix /\ query' = q /\ filtTags' = FilterIds(q)
      /\ term' = Cursors(ix, q) /\ heap' = Loaded(ix, q) /\ obj' = <<>>
      /\ lastFilt' = NoObj /\ lastValid' = NoObj
      /\ phase' = IF Loaded(ix, q) = {} THEN "sorted" ELSE "recall"
  BY DEF Begin, ClearedObj
<1>2. CASE Loaded(ix, q) = {}
  <2>1. (IndexOk(index) /\ QueryOk(query) /\ Loaded(index, query) = {} =>
           Best = {} /\ Passing = {})'
    BY NothingLoaded, PTL
  <2>2. Best' = {} /\ Passing' = {}
    BY <1>1, <1>2, <2>1
  <2>3. Recalled' = {} /\ ByWeight' /\ ResultOk'
    BY <1>1, <2>2 DEF Recalled, ByWeight, ResultOk, IsSequence
  <2>4. QED
    BY <1>1, <1>2, <2>2, <2>3 DEF SearchInv, AllWeigh
<1>3. CASE Loaded(ix, q) # {}
  <2>1. \A i : Hits(i)' = HitsOf(ix, q, i)
    BY <1>1 DEF Hits
  <2>2. DOMAIN term' = Loaded(ix, q) /\ heap' = Loaded(ix, q)
    BY <1>1 DEF Cursors
  <2>3. ASSUME NEW i \in Loaded(ix, q)
        PROVE  CursorOk(i)' /\ Read(i)' = {} /\ term'[i].at = 1
    <3> DEFINE k == locate_term(ix.terms, q.token[i])
               hits == HitsOf(ix, q, i)
    <3>1. term'[i] = [sign |-> q.token[i], left |-> ix.terms[k].num, at |-> 1]
      BY <1>1 DEF Cursors
    <3>2. /\ Len(hits) = ix.terms[k].num
          /\ Len(hits) \in Nat \ {0} /\ DOMAIN hits = 1 .. Len(hits)
      BY HitsProperties
    <3>3. Hits(i)' = hits /\ i \in heap'
      BY <2>1, <2>2
    <3>0. q.token[i] \in Nat
      BY DEF QueryOk, Loaded
    <3> HIDE DEF hits, k
    <3>4. CursorOk(i)'
      BY <1>1, <3>1, <3>2, <3>3, <3>0 DEF CursorOk
    <3>5. Read(i)' = {}
      BY <3>1, <3>2, <3>3 DEF Read
    <3>6. QED
      BY <3>1, <3>4, <3>5
  <2>4. CursorsOk'
    BY <1>1, <2>2, <2>3 DEF CursorsOk
  <2>5. Seen' = {}
    BY <2>2, <2>3 DEF Seen
  <2>6. MergeOk'
    BY <2>5 DEF MergeOk
  <2>7. ObjOk'
    <3>1. obj' \in Seq([obj : Nat, weight : Nat]) /\ Len(obj') = 0 /\ DOMAIN obj' = {}
      BY <1>1
    <3>2. Recalled' = {} /\ Ranked'
      BY <3>1 DEF Recalled, Ranked
    <3>3. QED
      BY <2>5, <3>1, <3>2, SearchAssumption DEF ObjOk
  <2>8. RememberedOk'
    BY <1>1 DEF RememberedOk
  <2>9. WeightsOk'
    BY <1>1 DEF WeightsOk
  <2>10. QED
    BY <1>1, <1>3, <2>4, <2>6, <2>7, <2>8, <2>9 DEF SearchInv
<1>4. QED
  BY <1>2, <1>3

(* What is left of a list is not greater than anything that was read.      *)
LEMMA UnreadIsSmall ==
  ASSUME IndexOk(index), QueryOk(query), CursorsOk, MergeOk,
         NEW i \in DOMAIN term, NEW k \in DOMAIN Hits(i), k \notin Read(i)
  PROVE  i \in heap /\ \A o \in Seen : Hits(i)[k].obj <= o
<1>1. i \in heap /\ ~(k < term[i].at)
  BY DEF Read
<1> SUFFICES ASSUME NEW o \in Seen
             PROVE  Hits(i)[k].obj <= o
  BY <1>1
<1> DEFINE at == term[i].at
           hits == Hits(i)
<1>2. /\ at \in DOMAIN hits /\ DOMAIN hits = 1 .. Len(hits) /\ Len(hits) \in Nat
      /\ \A l \in DOMAIN hits : hits[l].obj \in Nat
      /\ \A l, m \in DOMAIN hits : l < m => hits[l].obj >= hits[m].obj
  BY HitsProperties DEF CursorsOk, CursorOk, Hits
<1>3. hits[at].obj <= o
  BY <1>1 DEF MergeOk
<1>4. o \in Nat
  <2>1. PICK j \in DOMAIN term : \E l \in Read(j) : o = Hits(j)[l].obj
    BY DEF Seen
  <2>2. QED
    BY <2>1, HitsProperties DEF CursorsOk, Hits, Read
<1> HIDE DEF at, hits
<1>5. at = k \/ at < k
  BY <1>1, <1>2 DEF at, hits
<1>6. hits[k].obj <= hits[at].obj
  BY <1>2, <1>5 DEF hits
<1>7. hits[k].obj \in Nat /\ hits[at].obj \in Nat
  BY <1>2 DEF hits
<1>8. hits[k].obj <= o
  BY <1>3, <1>4, <1>6, <1>7
<1>9. QED
  BY <1>8 DEF hits

LEMMA HitsOnProperties ==
  ASSUME IndexOk(index), QueryOk(query), NEW o
  PROVE  /\ IsFiniteSet(HitsOn(o))
         /\ \A h \in HitsOn(o) :
              /\ h[1] \in Loaded(index, query) /\ h[3] \in DOMAIN Hits(h[1])
              /\ h = <<h[1], locate_term(index.terms, query.token[h[1]]), h[3]>>
              /\ Hits(h[1])[h[3]].obj = o
              /\ Score(h) = HitScore(Hits(h[1])[h[3]]) /\ Score(h) \in Nat
         /\ \A i \in Loaded(index, query) : \A k \in DOMAIN Hits(i) :
              Hits(i)[k].obj = o =>
                <<i, locate_term(index.terms, query.token[i]), k>> \in HitsOn(o)
<1> DEFINE D == DOMAIN index.terms
           In(i, t) == {k \in DOMAIN index.terms[t].index :
                          /\ index.terms[t].sign = query.token[i]
                          /\ index.terms[t].index[k].obj = o}
           part == [p \in Positions \X D |-> {p[1]} \X {p[2]} \X In(p[1], p[2])]
           loc(i) == locate_term(index.terms, query.token[i])
<1>1. TermsOk(index.terms)
  BY IndexHasTerms
<1>2. \A i \in Positions, t \in D :
        index.terms[t].sign = query.token[i] =>
          i \in Loaded(index, query) /\ loc(i) = t /\ Hits(i) = index.terms[t].index
  <2> SUFFICES ASSUME NEW i \in Positions, NEW t \in D, index.terms[t].sign = query.token[i]
               PROVE  i \in Loaded(index, query) /\ loc(i) = t /\ Hits(i) = index.terms[t].index
    OBVIOUS
  <2>1. query.token[i] \in Nat
    BY DEF Positions, QueryOk
  <2>2. loc(i) = t
    BY <1>1, <2>1, LocateExact
  <2>3. t # NoTerm
    BY <1>1 DEF TermsOk, NoTerm
  <2>4. QED
    BY <2>2, <2>3 DEF Loaded, Positions, Hits, HitsOf
<1>3. \A i \in Loaded(index, query) : i \in Positions /\ loc(i) \in D /\ index.terms[loc(i)].sign = query.token[i]
  BY HitsProperties DEF Loaded, Positions
<1> HIDE DEF loc
<1>4. \A h : h \in HitsOn(o) <=>
               \E i \in Positions, t \in D : h \in {i} \X {t} \X In(i, t)
  <2>1. HitsOn(o) = UNION {{i} \X {t} \X In(i, t) : i \in Positions, t \in D}
    BY DEF HitsOn
  <2> HIDE DEF In
  <2> DEFINE F == {{i} \X {t} \X In(i, t) : i \in Positions, t \in D}
  <2>2. \A Z : Z \in F <=> \E i \in Positions, t \in D : Z = {i} \X {t} \X In(i, t)
    OBVIOUS
  <2>3. HitsOn(o) = UNION F
    BY <2>1
  <2> HIDE DEF F
  <2>4. ASSUME NEW h \in HitsOn(o)
        PROVE  \E i \in Positions, t \in D : h \in {i} \X {t} \X In(i, t)
    <3>1. PICK Z \in F : h \in Z
      BY <2>3
    <3>2. QED
      BY <2>2, <3>1
  <2>5. ASSUME NEW h, NEW i \in Positions, NEW t \in D, h \in {i} \X {t} \X In(i, t)
        PROVE  h \in HitsOn(o)
    <3>1. {i} \X {t} \X In(i, t) \in F
      BY <2>2
    <3>2. QED
      BY <2>3, <2>5, <3>1
  <2>6. QED
    BY <2>4, <2>5
<1>5. IsFiniteSet(HitsOn(o))
  <2>1. IsFiniteSet(Positions) /\ IsFiniteSet(D)
    <3>1. /\ DOMAIN query.token = 1 .. Len(query.token) /\ Len(query.token) \in Nat
          /\ D = 1 .. Len(index.terms) /\ Len(index.terms) \in Nat
      BY <1>1 DEF QueryOk, TermsOk
    <3>2. IsFiniteSet(1 .. Len(query.token)) /\ IsFiniteSet(1 .. Len(index.terms))
      <4>1. 1 \in Int /\ Len(query.token) \in Int /\ Len(index.terms) \in Int
        BY <3>1
      <4>2. QED
        BY <4>1, FS_Interval
    <3>3. Positions \subseteq 1 .. Len(query.token)
      BY <3>1 DEF Positions
    <3>4. QED
      BY <3>1, <3>2, <3>3, FS_Subset
  <2> DEFINE P == Positions \X D
  <2>2. IsFiniteSet(P)
    BY <2>1, FS_Product
  <2>3. \A p \in P : IsFiniteSet(part[p])
    <3> TAKE p \in P
    <3>1. p[2] \in D
      OBVIOUS
    <3>2. IsFiniteSet(DOMAIN index.terms[p[2]].index)
      <4> DEFINE list == index.terms[p[2]].index
      <4>1. TermOk(index.terms[p[2]])
        BY <3>1 DEF IndexOk
      <4> HIDE DEF list
      <4>4. DOMAIN list = 1 .. Len(list) /\ Len(list) \in Nat
        BY <4>1, TermProperties DEF list
      <4>5. \A m \in Nat : IsFiniteSet(1 .. m)
        BY FS_Interval
      <4>6. QED
        BY <4>4, <4>5 DEF list
    <3>3. IsFiniteSet(In(p[1], p[2]))
      BY <3>2, FS_Subset
    <3> DEFINE K == In(p[1], p[2])
               f == [k \in K |-> <<p[1], p[2], k>>]
    <3>4. part[p] = {f[k] : k \in K} /\ DOMAIN f = K
      <4>1. part[p] = {p[1]} \X {p[2]} \X K
        OBVIOUS
      <4> HIDE DEF K, part
      <4>2. \A h \in part[p] : h \in {f[k] : k \in K}
        BY <4>1
      <4>3. \A k \in K : f[k] \in part[p]
        BY <4>1
      <4>4. QED
        BY <4>2, <4>3
    <3>5. IsFiniteSet(K)
      BY <3>3
    <3> HIDE DEF f, K, part
    <3>6. QED
      BY <3>4, <3>5, FiniteImage
  <2>4. HitsOn(o) = UNION {part[p] : p \in P}
    <3> HIDE DEF In
    <3>1. \A p \in P : p[1] \in Positions /\ p[2] \in D /\ part[p] = {p[1]} \X {p[2]} \X In(p[1], p[2])
      OBVIOUS
    <3>2. \A i \in Positions, t \in D : <<i, t>> \in P /\ part[<<i, t>>] = {i} \X {t} \X In(i, t)
      OBVIOUS
    <3> HIDE DEF part, P
    <3>3. \A h \in HitsOn(o) : \E p \in P : h \in part[p]
      <4> TAKE h \in HitsOn(o)
      <4>1. PICK i \in Positions, t \in D : h \in {i} \X {t} \X In(i, t)
        BY <1>4
      <4>2. <<i, t>> \in P /\ h \in part[<<i, t>>]
        BY <3>2, <4>1
      <4>3. QED
        BY <4>2
    <3>4. \A p \in P : \A h \in part[p] : h \in HitsOn(o)
      BY <1>4, <3>1
    <3>5. QED
      BY <3>3, <3>4
  <2>5. IsFiniteSet({part[p] : p \in P})
    <3>1. DOMAIN part = P
      OBVIOUS
    <3> HIDE DEF part, P
    <3>2. QED
      BY <2>2, <3>1, FiniteImage
  <2>6. \A T \in {part[p] : p \in P} : IsFiniteSet(T)
    <3> HIDE DEF part, P
    <3>1. QED
      BY <2>3
  <2> HIDE DEF part, P
  <2>7. QED
    BY <2>4, <2>5, <2>6, FS_UNION
<1>6. ASSUME NEW h \in HitsOn(o)
      PROVE  /\ h[1] \in Loaded(index, query) /\ h[3] \in DOMAIN Hits(h[1])
             /\ h = <<h[1], loc(h[1]), h[3]>>
             /\ Hits(h[1])[h[3]].obj = o
             /\ Score(h) = HitScore(Hits(h[1])[h[3]]) /\ Score(h) \in Nat
  <2>1. PICK i \in Positions, t \in D : h \in {i} \X {t} \X In(i, t)
    BY <1>4
  <2>2. /\ h = <<h[1], h[2], h[3]>> /\ h[1] = i /\ h[2] = t
        /\ h[3] \in DOMAIN index.terms[t].index
        /\ index.terms[t].sign = query.token[i]
        /\ index.terms[t].index[h[3]].obj = o
    BY <2>1
  <2>3. i \in Loaded(index, query) /\ loc(i) = t /\ Hits(i) = index.terms[t].index
    BY <1>2, <2>2
  <2>4. Score(h) = HitScore(Hits(i)[h[3]])
    BY <2>2, <2>3 DEF Score
  <2>5. HitScore(Hits(i)[h[3]]) \in Nat
    BY <2>2, <2>3, HitsProperties DEF Hits
  <2>6. QED
    BY <2>2, <2>3, <2>4, <2>5
<1>7. ASSUME NEW i \in Loaded(index, query), NEW k \in DOMAIN Hits(i), Hits(i)[k].obj = o
      PROVE  <<i, loc(i), k>> \in HitsOn(o)
  <2>1. i \in Positions /\ loc(i) \in D /\ k \in In(i, loc(i))
    <3>1. Hits(i) = index.terms[loc(i)].index
      BY DEF Hits, HitsOf, loc
    <3>2. QED
      BY <1>3, <1>7, <3>1
  <2> HIDE DEF In
  <2>2. <<i, loc(i), k>> \in {i} \X {loc(i)} \X In(i, loc(i))
    BY <2>1
  <2>3. QED
    BY <1>4, <2>1, <2>2
<1>8. QED
  BY <1>5, <1>6, <1>7 DEF loc

LEMMA PassingFinite ==
  ASSUME IndexOk(index), QueryOk(query)
  PROVE  Passing \subseteq Nat /\ IsFiniteSet(Passing)
<1>1. Matching \subseteq Nat
  BY MatchingLists, HitsProperties DEF Hits
<1>2. Len(index.briefs) \in Nat /\ DOMAIN index.briefs = 1 .. Len(index.briefs)
  BY DEF IndexOk, IsSequence
<1>3. Passing \subseteq 0 .. Len(index.briefs)
  <2>1. \A o \in Passing : o \in Matching /\ o + 1 \in DOMAIN index.briefs
    BY DEF Passing, Passes
  <2> DEFINE n == Len(index.briefs)
  <2>2. \A o \in Passing : o \in Nat /\ o + 1 \in 1 .. n /\ n \in Nat
    BY <1>1, <1>2, <2>1
  <2> HIDE DEF n
  <2>3. \A o \in Passing : o \in 0 .. n
    BY <2>2
  <2>4. QED
    BY <2>3 DEF n
<1>4. IsFiniteSet(0 .. Len(index.briefs))
  BY <1>2, FS_Interval
<1>5. QED
  BY <1>1, <1>3, <1>4, FS_Subset DEF Passing

LEMMA SortInv ==
  ASSUME SearchInv, SortObjects
  PROVE  SearchInv'
<1>1. /\ phase = "recall" /\ phase' = "sorted" /\ obj' = Sorted(obj)
      /\ index' = index /\ query' = query /\ filtTags' = filtTags
      /\ heap = {} \/ Len(obj) >= MaxRecall
  <2>1. heap = {} \/ ~Room
    BY DEF SortObjects
  <2>2. Len(obj) \in Nat
    BY DEF SearchInv, ObjOk, SortObjects
  <2>3. QED
    BY <2>1, <2>2, SearchAssumption DEF SortObjects, Room
<1>2. IndexOk(index) /\ QueryOk(query) /\ CursorsOk /\ MergeOk /\ ObjOk
  BY <1>1 DEF SearchInv
<1>3. Recalled' = Recalled /\ ByWeight'
  BY <1>1, <1>2, SortedProperties DEF ObjOk, Recalled, ByWeight
<1>4. Best' = Best
  BY <1>1 DEF Best, Passing, Passes, Matching, Terms, Positions
<1>5. Passing \subseteq Nat /\ IsFiniteSet(Passing)
  BY <1>2, PassingFinite
<1>6. Seen \subseteq Matching /\ (heap = {} => Seen = Matching)
  <2>1. ASSUME NEW o \in Seen
        PROVE  o \in Matching
    <3>1. PICK i \in DOMAIN term : \E k \in Read(i) : o = Hits(i)[k].obj
      BY <2>1 DEF Seen
    <3>2. QED
      BY <1>2, <3>1, MatchingLists DEF CursorsOk, Read
  <2>2. ASSUME heap = {}, NEW o \in Matching
        PROVE  o \in Seen
    <3>1. PICK i \in DOMAIN term : \E k \in DOMAIN Hits(i) : o = Hits(i)[k].obj
      BY <1>2, MatchingLists DEF CursorsOk
    <3>2. Read(i) = DOMAIN Hits(i)
      BY <2>2 DEF Read
    <3>3. QED
      BY <3>1, <3>2 DEF Seen
  <2>3. QED
    BY <2>1, <2>2
<1>7. /\ Recalled \in SUBSET Passing
      /\ heap = {} => Passing = Recalled
  BY <1>2, <1>6 DEF ObjOk, Passing
<1>8. Cardinality(Recalled) = Len(obj)
  <2> DEFINE n == Len(obj)
             E == [obj : Nat, weight : Nat]
             f == [k \in 1 .. n |-> obj[k].obj]
  <2>1. \A e \in E : e.obj \in Nat
    OBVIOUS
  <2>2. obj \in Seq(E) /\ Ranked
    BY <1>2 DEF ObjOk
  <2> HIDE DEF E
  <2>3. n \in Nat /\ DOMAIN obj = 1 .. n /\ \A k \in 1 .. n : obj[k].obj \in Nat
    BY <2>1, <2>2
  <2> HIDE DEF n
  <2>4. f \in Bijection(1 .. n, Recalled)
    <3>1. f \in [1 .. n -> Recalled]
      BY <2>3 DEF Recalled
    <3>2. \A k, l \in 1 .. n : k # l => f[k] # f[l]
      BY <2>2, <2>3 DEF Ranked
    <3>3. \A o \in Recalled : \E k \in 1 .. n : f[k] = o
      BY <2>3 DEF Recalled
    <3>4. QED
      BY <3>1, <3>2, <3>3 DEF Bijection, Injection, Surjection, IsInjective
  <2>5. IsFiniteSet(1 .. n) /\ Cardinality(1 .. n) = n
    BY <2>3, FS_Interval
  <2> HIDE DEF f
  <2>6. QED
    BY <2>4, <2>5, FS_Bijection DEF n, ExistsBijection
<1>9. ASSUME NEW p \in Passing \ Recalled, NEW o \in Recalled
      PROVE  p < o
  <2>1. p \in Matching /\ Passes(p) /\ p \notin Seen /\ o \in Seen /\ p # o
    BY <1>2, <1>9 DEF Passing, ObjOk
  <2>2. PICK i \in DOMAIN term : \E k \in DOMAIN Hits(i) : p = Hits(i)[k].obj
    BY <1>2, <2>1, MatchingLists DEF CursorsOk
  <2>3. PICK k \in DOMAIN Hits(i) : p = Hits(i)[k].obj
    BY <2>2
  <2>4. k \notin Read(i)
    BY <2>1, <2>3 DEF Seen
  <2>5. p <= o
    BY <1>2, <2>1, <2>3, <2>4, UnreadIsSmall
  <2>6. p \in Nat /\ o \in Nat
    BY <1>5, <1>7
  <2>7. QED
    BY <2>1, <2>5, <2>6
<1>10. Recalled = Best
  <2>1. /\ MaxRecall \in Nat \ {0} /\ Cardinality(Recalled) <= MaxRecall
        /\ Passing = Recalled \/ Cardinality(Recalled) = MaxRecall
    <3>1. Len(obj) \in Nat /\ Len(obj) <= MaxRecall
      BY <1>2 DEF ObjOk
    <3>2. QED
      BY <1>1, <1>7, <1>8, <3>1, SearchAssumption
  <2> HIDE DEF Recalled
  <2>2. Recalled = {o \in Passing : Cardinality({p \in Passing : p > o}) < MaxRecall}
    BY <1>5, <1>7, <1>9, <2>1, GreatestOfSet
  <2>3. QED
    BY <2>2 DEF Best
<1>11. AllWeigh'
  <2>1. ASSUME NEW l \in DOMAIN obj
        PROVE  Weighs(obj[l].obj, obj[l].weight)
    <3> DEFINE o == obj[l].obj
               f == [h \in HitsOn(o) |-> Score(h)]
               g == [h \in Got(o) |-> Score(h)]
    <3>1. obj[l].weight = Total(g) /\ Weight(o) = Total(f)
      BY <1>1, WeightIsTotal DEF SearchInv, WeightsOk, SoFar
    <3>2. CASE Got(o) = HitsOn(o)
      BY <3>1, <3>2 DEF Weighs
    <3>3. CASE Got(o) # HitsOn(o)
      <4>1. PICK h \in HitsOn(o) : h[3] \notin Read(h[1])
        BY <3>3 DEF Got
      <4>2. /\ h[1] \in DOMAIN term /\ h[3] \in DOMAIN Hits(h[1])
            /\ Hits(h[1])[h[3]].obj = o
        BY <1>2, HitsOnProperties DEF CursorsOk
      <4>3. heap # {} /\ \A p \in Seen : o <= p
        BY <1>2, <4>1, <4>2, UnreadIsSmall
      <4>4. Len(obj) = MaxRecall
        BY <1>1, <1>2, <4>3, SearchAssumption DEF ObjOk
      <4>5. \A p \in Recalled : p \in Seen /\ p \in Nat
        BY <1>2, <1>5, <1>7 DEF ObjOk
      <4>6. \A j \in DOMAIN obj : obj[j].obj >= o
        <5>1. \A j \in DOMAIN obj : obj[j].obj \in Recalled
          BY DEF Recalled
        <5>2. QED
          BY <4>3, <4>5, <5>1
      <4>7. Total(g) <= Total(f)
        <5>1. /\ IsFiniteSet(HitsOn(o)) /\ \A x \in HitsOn(o) : Score(x) \in Nat
              /\ Got(o) \in SUBSET HitsOn(o)
          BY <1>2, HitsOnProperties DEF Got
        <5>2. /\ f \in [HitsOn(o) -> Nat] /\ g \in [Got(o) -> Nat]
              /\ \A x \in Got(o) : f[x] = g[x]
          BY <5>1
        <5> HIDE DEF f, g
        <5>3. QED
          BY <5>1, <5>2, SumOfPart
      <4>8. QED
        BY <3>1, <4>4, <4>6, <4>7 DEF Weighs
    <3>4. QED
      BY <3>2, <3>3
  <2>2. \A o : Weight(o)' = Weight(o)
    <3>1. \A o : HitsOn(o)' = HitsOn(o) /\ Score(o)' = Score(o)
      BY <1>1 DEF HitsOn, Score, Positions
    <3>2. \A o : [h \in HitsOn(o) |-> Score(h)]' = [h \in HitsOn(o) |-> Score(h)]
      BY <3>1
    <3>3. (\A o : Weight(o) = Total([h \in HitsOn(o) |-> Score(h)]))'
      BY WeightIsTotal, PTL
    <3>4. QED
      BY <3>2, <3>3, WeightIsTotal
  <2>3. Len(obj') = Len(obj) /\ \A k \in DOMAIN obj' : \E l \in DOMAIN obj : obj'[k] = obj[l]
    BY <1>1, <1>2, SortedProperties DEF ObjOk
  <2>4. ASSUME NEW k \in DOMAIN obj'
        PROVE  Weighs(obj[k].obj, obj[k].weight)'
    <3>1. PICK l \in DOMAIN obj : obj'[k] = obj[l]
      BY <2>3
    <3>2. Weighs(obj[l].obj, obj[l].weight)
      BY <2>1
    <3>3. \A j \in DOMAIN obj' : \E m \in DOMAIN obj : obj'[j].obj = obj[m].obj
      BY <2>3
    <3>4. QED
      BY <2>2, <2>3, <3>1, <3>2, <3>3 DEF Weighs
  <2>5. QED
    BY <2>4 DEF AllWeigh
<1>12. ResultOk'
  <2>1. Len(obj) = MaxRecall \/ Passing = Recalled
    BY <1>1, <1>2, <1>7, SearchAssumption DEF ObjOk
  <2>2. Passing' = Passing
    BY <1>1 DEF Passing, Passes, Matching, Terms, Positions
  <2>3. /\ Len(obj') = Len(obj) /\ IsSequence(obj')
        /\ \A k, l \in DOMAIN obj' : obj'[k].obj = obj'[l].obj => k = l
    BY <1>1, <1>2, SortedProperties DEF ObjOk
  <2>4. QED
    BY <1>4, <1>10, <2>1, <2>2, <2>3 DEF ResultOk
<1>13. QED
  BY <1>1, <1>2, <1>3, <1>4, <1>10, <1>11, <1>12 DEF SearchInv

(* One turn of the loop reads one more node, of an object that is not      *)
(* greater than those read before and not smaller than those that are left. *)
LEMMA RecallReads ==
  ASSUME IndexOk(index), QueryOk(query), CursorsOk, MergeOk, NEW i \in DOMAIN term, Recall(i)
  PROVE  LET o == NodeAt(term[i]).obj
         IN  /\ o \in Nat /\ HitScore(NodeAt(term[i])) \in Nat
             /\ Seen' = Seen \cup {o}
             /\ \A p \in Seen : o <= p
             /\ CursorsOk' /\ MergeOk'
             /\ term[i].at \in DOMAIN Hits(i) /\ term[i].at \notin Read(i)
             /\ NodeAt(term[i]) = Hits(i)[term[i].at]
             /\ \A j \in DOMAIN term :
                  Read(j)' = IF j = i THEN Read(j) \cup {term[i].at} ELSE Read(j)
<1> DEFINE node == NodeAt(term[i])
           o == node.obj
           at == term[i].at
<1>1. /\ index' = index /\ query' = query /\ i \in heap
      /\ term' = [term EXCEPT ![i] = Advanced(@)] /\ heap' = HeapAfter(i)
      /\ \A j \in heap : NodeAt(term[j]).obj <= NodeAt(term[i]).obj
  BY DEF Recall, Top
<1>2. DOMAIN term = Loaded(index, query) /\ heap \subseteq DOMAIN term
  BY DEF CursorsOk
<1>3. \A j \in DOMAIN term :
        /\ CursorOk(j)
        /\ Len(Hits(j)) \in Nat \ {0} /\ DOMAIN Hits(j) = 1 .. Len(Hits(j))
        /\ \A l \in DOMAIN Hits(j) : Hits(j)[l].obj \in Nat /\ HitScore(Hits(j)[l]) \in Nat
        /\ \A l, m \in DOMAIN Hits(j) : l < m => Hits(j)[l].obj >= Hits(j)[m].obj
  BY <1>2, HitsProperties DEF CursorsOk, Hits
<1>4. \A j \in DOMAIN term : NodeAt(term[j]) = Hits(j)[term[j].at]
  BY <1>3 DEF CursorOk, NodeAt, List, Hits, HitsOf
<1>5. \A j : Hits(j)' = Hits(j)
  BY <1>1 DEF Hits
<1>6. \A j \in DOMAIN term : j # i => term'[j] = term[j] /\ (j \in heap' <=> j \in heap)
  BY <1>1 DEF HeapAfter
<1>7. DOMAIN term' = DOMAIN term /\ heap' \subseteq heap
  BY <1>1 DEF HeapAfter
<1>8. /\ term'[i] \in [sign : Nat, left : Nat, at : Nat]
      /\ at \in DOMAIN Hits(i) /\ at \in Nat /\ at <= Len(Hits(i))
      /\ term'[i].sign = query.token[i]
      /\ term'[i].left = term[i].left - 1 /\ term[i].left = Len(Hits(i)) - at + 1
      /\ term'[i].at = IF at = Len(Hits(i)) THEN at ELSE at + 1
      /\ i \in heap' <=> at # Len(Hits(i))
  <2>1. /\ term[i] \in [sign : Nat, left : Nat, at : Nat]
        /\ term[i].sign = query.token[i] /\ at \in DOMAIN Hits(i)
        /\ term[i].left = Len(Hits(i)) - at + 1
    BY <1>1, <1>3 DEF CursorOk
  <2>2. at \in Nat /\ at <= Len(Hits(i)) /\ Len(Hits(i)) \in Nat
    BY <1>3, <2>1
  <2>3. term[i].left = 1 <=> at = Len(Hits(i))
    BY <2>1, <2>2
  <2>4. term'[i] = [term[i] EXCEPT !.left = @ - 1, !.at = IF term[i].left = 1 THEN @ ELSE @ + 1]
    BY <1>1 DEF Advanced
  <2>5. i \in heap' <=> term[i].left # 1
    BY <1>1 DEF HeapAfter
  <2>6. /\ DOMAIN term'[i] = {"sign", "left", "at"}
        /\ term'[i] = [sign |-> term'[i].sign, left |-> term'[i].left, at |-> term'[i].at]
        /\ term'[i].sign = term[i].sign
        /\ term'[i].left = term[i].left - 1
        /\ term'[i].at = IF term[i].left = 1 THEN at ELSE at + 1
    BY <2>1, <2>4
  <2>7. term'[i].sign \in Nat /\ term'[i].left \in Nat /\ term'[i].at \in Nat
    <3>1. term[i].sign \in Nat /\ term[i].left \in Nat
      BY <2>1
    <3>2. term[i].left - 1 \in Nat /\ at + 1 \in Nat
      BY <2>1, <2>2
    <3>3. QED
      BY <2>2, <2>6, <3>1, <3>2
  <2>8. term'[i] \in [sign : Nat, left : Nat, at : Nat]
    BY <2>6, <2>7
  <2>9. QED
    BY <2>1, <2>2, <2>3, <2>5, <2>6, <2>8
<1> HIDE DEF at
<1>9. CursorsOk'
  <2>1. \A j \in DOMAIN term : j # i => CursorOk(j)'
    BY <1>1, <1>3, <1>5, <1>6 DEF CursorOk
  <2>2. CursorOk(i)'
    <3>1. CASE at = Len(Hits(i))
      <4>1. i \notin heap' /\ term'[i].at = Len(Hits(i)) /\ term'[i].at \in DOMAIN Hits(i)
        BY <1>8, <3>1
      <4>2. QED
        BY <1>1, <1>5, <1>8, <4>1 DEF CursorOk
    <3>2. CASE at # Len(Hits(i))
      <4>1. at + 1 \in DOMAIN Hits(i)
        BY <1>3, <1>8, <3>2
      <4>2. term[i].left - 1 = Len(Hits(i)) - (at + 1) + 1
        BY <1>3, <1>8
      <4>3. QED
        BY <1>1, <1>5, <1>8, <3>2, <4>1, <4>2 DEF CursorOk
    <3>3. QED
      BY <3>1, <3>2
  <2>3. QED
    BY <1>1, <1>2, <1>7, <2>1, <2>2 DEF CursorsOk
<1>10. \A j \in DOMAIN term : Read(j)' = IF j = i THEN Read(j) \cup {at} ELSE Read(j)
  <2>1. \A j \in DOMAIN term : j # i => Read(j)' = Read(j)
    BY <1>5, <1>6 DEF Read
  <2>2. Read(i)' = Read(i) \cup {at}
    <3>1. Read(i) = {k \in 1 .. Len(Hits(i)) : k < at}
      BY <1>1, <1>3 DEF Read, at
    <3>2. Read(i)' = {k \in 1 .. Len(Hits(i)) : k < term'[i].at \/ i \notin heap'}
      BY <1>3, <1>5 DEF Read
    <3>3. CASE at = Len(Hits(i))
      BY <1>3, <1>8, <3>1, <3>2, <3>3
    <3>4. CASE at # Len(Hits(i))
      BY <1>3, <1>8, <3>1, <3>2, <3>4
    <3>5. QED
      BY <3>3, <3>4
  <2>3. QED
    BY <2>1, <2>2
<1>11. Seen' = Seen \cup {o}
  <2>1. Seen' = UNION {{Hits(j)[k].obj : k \in Read(j)'} : j \in DOMAIN term}
    BY <1>5, <1>7 DEF Seen
  <2>2. o = Hits(i)[at].obj
    BY <1>4 DEF at
  <2> HIDE DEF o
  <2>3. ASSUME NEW p \in Seen'
        PROVE  p \in Seen \cup {o}
    <3>1. PICK j \in DOMAIN term : \E k \in Read(j)' : p = Hits(j)[k].obj
      BY <2>1, <2>3
    <3>2. PICK k \in Read(j)' : p = Hits(j)[k].obj
      BY <3>1
    <3>3. k \in Read(j) \/ (j = i /\ k = at)
      BY <1>10
    <3>4. QED
      BY <2>2, <3>2, <3>3 DEF Seen
  <2>4. ASSUME NEW p \in Seen \cup {o}
        PROVE  p \in Seen'
    <3>1. \E j \in DOMAIN term : \E k \in Read(j)' : p = Hits(j)[k].obj
      <4>1. CASE p = o
        BY <1>10, <2>2, <4>1
      <4>2. CASE p \in Seen
        BY <1>10, <4>2 DEF Seen
      <4>3. QED
        BY <2>4, <4>1, <4>2
    <3>2. QED
      BY <2>1, <3>1
  <2>5. QED
    BY <2>3, <2>4
<1>12. \A p \in Seen : o <= p
  BY <1>1, <1>2, <1>4 DEF MergeOk
<1>13. MergeOk'
  <2>1. \A j \in heap' : j \in heap /\ Hits(j)[term'[j].at].obj <= Hits(j)[term[j].at].obj
    <3> TAKE j \in heap'
    <3>1. j \in heap /\ j \in DOMAIN term
      BY <1>2, <1>7
    <3>2. Hits(j)[term[j].at].obj \in Nat
      BY <1>3, <3>1 DEF CursorOk
    <3>3. CASE j # i
      BY <1>6, <3>1, <3>2, <3>3
    <3>4. CASE j = i
      <4>1. term'[i].at = at + 1 /\ at + 1 \in DOMAIN Hits(i) /\ at < at + 1
        BY <1>3, <1>8, <3>4
      <4>2. Hits(i)[at].obj >= Hits(i)[at + 1].obj
        BY <1>3, <1>8, <4>1
      <4>3. Hits(i)[at].obj \in Nat /\ Hits(i)[at + 1].obj \in Nat
        BY <1>3, <1>8, <4>1
      <4>4. QED
        BY <3>1, <3>4, <4>1, <4>2, <4>3 DEF at
    <3>5. QED
      BY <3>3, <3>4
  <2>2. \A j \in heap' : Hits(j)[term[j].at].obj <= o
    BY <1>1, <1>2, <1>4, <1>7
  <2>3. o \in Nat
    BY <1>3, <1>4, <1>8 DEF at
  <2>4. \A j \in heap' : /\ Hits(j)[term[j].at].obj \in Nat
                         /\ Hits(j)[term'[j].at].obj \in Nat
    BY <1>2, <1>3, <1>5, <1>7, <1>9 DEF CursorOk, CursorsOk
  <2> HIDE DEF o
  <2>5. ASSUME NEW p \in Seen', NEW j \in heap'
        PROVE  Hits(j)'[term'[j].at].obj <= p
    <3>1. CASE p = o
      <4>1. Hits(j)[term'[j].at].obj <= p
        BY <2>1, <2>2, <2>3, <2>4, <3>1
      <4>2. QED
        BY <1>5, <4>1
    <3>2. CASE p \in Seen
      <4>1. Hits(j)[term[j].at].obj <= p /\ p \in Nat
        <5>1. j \in heap
          BY <1>7
        <5>2. p \in Nat
          BY <1>3, <3>2 DEF Seen, Read
        <5>3. QED
          BY <3>2, <5>1, <5>2 DEF MergeOk
      <4>2. Hits(j)[term'[j].at].obj <= p
        BY <2>1, <2>4, <4>1
      <4>3. QED
        BY <1>5, <4>2
    <3>3. QED
      BY <1>11, <2>5, <3>1, <3>2
  <2>6. QED
    BY <2>5 DEF MergeOk
<1>14. o \in Nat /\ HitScore(node) \in Nat
  BY <1>3, <1>4, <1>8 DEF at
<1>15. at \notin Read(i)
  BY <1>1, <1>8 DEF Read, at
<1>16. QED
  BY <1>4, <1>8, <1>9, <1>10, <1>11, <1>12, <1>13, <1>14, <1>15 DEF at

(* It adds its score to what its object weighs so far, and to no other. *)
LEMMA RecallWeighs ==
  ASSUME IndexOk(index), QueryOk(query), CursorsOk, MergeOk,
         NEW i \in DOMAIN term, Recall(i), NEW o, o = NodeAt(term[i]).obj
  PROVE  /\ SoFar(o)' = SoFar(o) + HitScore(NodeAt(term[i]))
         /\ \A p : p # o => SoFar(p)' = SoFar(p)
         /\ o \notin Seen => SoFar(o) = 0
<1> DEFINE node == NodeAt(term[i])
           at == term[i].at
           x == <<i, locate_term(index.terms, query.token[i]), at>>
<1>1. /\ at \in DOMAIN Hits(i) /\ at \notin Read(i) /\ node = Hits(i)[at]
      /\ \A j \in DOMAIN term : Read(j)' = IF j = i THEN Read(j) \cup {at} ELSE Read(j)
  BY RecallReads
<1>2. index' = index /\ query' = query /\ DOMAIN term = Loaded(index, query)
  BY DEF Recall, CursorsOk
<1>3. \A p : HitsOn(p)' = HitsOn(p) /\ Score(p)' = Score(p)
  BY <1>2 DEF HitsOn, Positions, Score
<1> HIDE DEF at
<1>4. \A p : \A h \in HitsOn(p) :
        /\ h[1] \in DOMAIN term /\ Score(h) \in Nat
        /\ Score(h) = HitScore(Hits(h[1])[h[3]])
        /\ h[1] = i /\ h[3] = at => h = x /\ p = o
  BY <1>1, <1>2, HitsOnProperties DEF x
<1>5. x \in HitsOn(o) /\ x \notin Got(o)
  BY <1>1, <1>2, HitsOnProperties DEF Got, x
<1>6. Score(x) = HitScore(node)
  BY <1>1, <1>4, <1>5
<1>7. x[1] = i /\ x[3] = at
  OBVIOUS
<1> HIDE DEF x, node
<1>8. \A p : Got(p)' = {h \in HitsOn(p) : h[3] \in Read(h[1])'}
  BY <1>3 DEF Got
<1>9. \A p : p # o => Got(p)' = Got(p)
  BY <1>1, <1>4, <1>8 DEF Got
<1>10. Got(o)' = Got(o) \cup {x}
  <2>1. ASSUME NEW h \in Got(o)'
        PROVE  h \in Got(o) \cup {x}
    BY <1>1, <1>4, <1>8, <2>1 DEF Got
  <2>2. ASSUME NEW h \in Got(o)
        PROVE  h \in Got(o)'
    BY <1>1, <1>4, <1>8, <2>2 DEF Got
  <2>3. x \in Got(o)'
    BY <1>1, <1>5, <1>7, <1>8
  <2>4. QED
    BY <2>1, <2>2, <2>3
<1>11. ASSUME NEW p, p # o
       PROVE  SoFar(p)' = SoFar(p)
  <2>1. [h \in Got(p) |-> Score(h)]' = [h \in Got(p) |-> Score(h)]
    BY <1>3, <1>9, <1>11
  <2>2. QED
    BY <2>1 DEF SoFar
<1>12. SoFar(o)' = SoFar(o) + HitScore(node)
  <2> DEFINE S == Got(o)
             g == [h \in S |-> Score(h)]
             f == [h \in S \cup {x} |-> Score(h)]
  <2>1. \A h \in S \cup {x} : Score(h) \in Nat
    BY <1>4, <1>5 DEF Got
  <2>2. IsFiniteSet(S) /\ x \notin S
    <3>1. IsFiniteSet(HitsOn(o)) /\ S \subseteq HitsOn(o)
      BY HitsOnProperties DEF Got
    <3>2. QED
      BY <1>5, <3>1, FS_Subset
  <2>3. [h \in Got(o) |-> Score(h)]' = f
    BY <1>3, <1>10
  <2>4. g \in [S -> Nat] /\ f \in [S \cup {x} -> Nat] /\ \A h \in S : f[h] = g[h]
    BY <2>1
  <2>5. f[x] = HitScore(node)
    BY <1>6
  <2>6. SoFar(o)' = Total(f) /\ SoFar(o) = Total(g)
    BY <2>3 DEF SoFar
  <2> HIDE DEF S, g, f
  <2>7. Total(f) = Total(g) + f[x]
    BY <2>2, <2>4, SumOfOneMore
  <2>8. QED
    BY <2>5, <2>6, <2>7
<1>13. o \notin Seen => SoFar(o) = 0
  <2> SUFFICES ASSUME o \notin Seen
               PROVE  SoFar(o) = 0
    OBVIOUS
  <2>1. \A h \in HitsOn(o) : /\ h[1] \in DOMAIN term
                             /\ Hits(h[1])[h[3]].obj = o
    BY <1>2, HitsOnProperties
  <2>2. Got(o) = {}
    BY <2>1 DEF Got, Seen
  <2>3. [h \in Got(o) |-> Score(h)] = [y \in {} |-> y]
    BY <2>2
  <2>4. QED
    BY <2>3, SumOfNone DEF SoFar
<1>14. QED
  BY <1>11, <1>12, <1>13 DEF node

LEMMA RecallInv ==
  ASSUME SearchInv, NEW i \in DOMAIN term, Recall(i)
  PROVE  SearchInv'
<1> DEFINE node == NodeAt(term[i])
           E == [obj : Nat, weight : Nat]
<1>0. PICK o : o = node.obj
  OBVIOUS
<1>1. /\ phase = "recall" /\ phase' = "recall" /\ index' = index /\ query' = query
      /\ filtTags' = filtTags /\ Len(obj) < MaxRecall
  BY DEF Recall, Room
<1>2. /\ IndexOk(index) /\ QueryOk(query) /\ filtTags = FilterIds(query)
      /\ CursorsOk /\ MergeOk /\ ObjOk /\ RememberedOk /\ WeightsOk
  BY <1>1 DEF SearchInv
<1>3. /\ o \in Nat /\ HitScore(node) \in Nat /\ Seen' = Seen \cup {o}
      /\ \A p \in Seen : o <= p
      /\ CursorsOk' /\ MergeOk'
  BY <1>0, <1>2, RecallReads
<1>4. filt(o) <=> ~Passes(o)
  BY <1>2, <1>3, FiltExact
<1>5. \A p : Passes(p)' <=> Passes(p)
  BY <1>1 DEF Passes
<1>6. IndexOk(index)' /\ QueryOk(query)' /\ (filtTags = FilterIds(query))'
  BY <1>1, <1>2
<1> HIDE DEF node
<1>7. \/ /\ ~Passes(o) /\ obj' = obj
         /\ lastFilt' \in {lastFilt, o} /\ lastValid' = lastValid
      \/ /\ Passes(o) /\ obj' = add_obj(obj, node)
         /\ lastValid' = o /\ lastFilt' = lastFilt
  <2>1. \/ /\ o = lastFilt
           /\ UNCHANGED <<obj, lastFilt, lastValid>>
        \/ /\ o # lastFilt /\ o # lastValid /\ filt(o)
           /\ lastFilt' = o
           /\ UNCHANGED <<obj, lastValid>>
        \/ /\ o # lastFilt /\ (o = lastValid \/ ~filt(o))
           /\ lastValid' = o
           /\ obj' = add_obj(obj, node)
           /\ UNCHANGED lastFilt
    BY <1>0 DEF Recall, node
  <2>2. o = lastFilt => ~Passes(o)
    BY <1>2, <1>3 DEF RememberedOk, NoObj
  <2>3. o = lastValid => Passes(o)
    BY <1>2, <1>3 DEF RememberedOk, NoObj
  <2>4. QED
    BY <1>4, <2>1, <2>2, <2>3
<1>8. RememberedOk'
  BY <1>2, <1>5, <1>7 DEF RememberedOk
<1>9. /\ SoFar(o)' = SoFar(o) + HitScore(node)
      /\ \A p : p # o => SoFar(p)' = SoFar(p)
      /\ o \notin Seen => SoFar(o) = 0
  BY <1>0, <1>2, RecallWeighs DEF node
<1>10. ObjOk' /\ WeightsOk'
  <2> DEFINE n == Len(obj)
  <2>1. /\ obj \in Seq(E) /\ n \in Nat /\ DOMAIN obj = 1 .. n /\ n < MaxRecall
        /\ Ranked /\ Recalled = {p \in Seen : Passes(p)}
    BY <1>1, <1>2 DEF ObjOk
  <2>2. \A e \in E : e.obj \in Nat /\ e.weight \in Nat
    OBVIOUS
  <2>3. \A k \in DOMAIN obj : obj[k] \in E
    <3> HIDE DEF E
    <3>1. QED
      BY <2>1
  <2>4. {p \in Seen : Passes(p)}' = IF Passes(o) THEN Recalled \cup {o} ELSE Recalled
    BY <1>3, <1>5, <2>1
  <2>5. CASE ~Passes(o)
    <3>1. obj' = obj
      BY <1>7, <2>5
    <3>2. Recalled' = Recalled /\ Ranked'
      BY <2>1, <3>1 DEF Recalled, Ranked
    <3>3. WeightsOk'
      <4>1. \A k \in DOMAIN obj : obj[k].obj # o
        BY <2>1, <2>5 DEF Recalled
      <4>2. QED
        BY <1>2, <1>9, <3>1, <4>1 DEF WeightsOk
    <3>4. QED
      BY <2>1, <2>4, <2>5, <3>1, <3>2, <3>3, SearchAssumption DEF ObjOk
  <2>6. CASE Passes(o) /\ Repeated(obj, node)
    <3>1. n > 0 /\ obj[n].obj = o /\ n \in DOMAIN obj
      BY <1>0, <2>1, <2>6 DEF Repeated
    <3>2. obj' = [obj EXCEPT ![n].weight = Weighed(@, node)]
      BY <1>7, <2>6 DEF add_obj
    <3>3. Weighed(obj[n].weight, node) \in Nat
      BY <1>3, <2>2, <2>3, <3>1 DEF Weighed
    <3>4. DOMAIN obj' = 1 .. n /\ \A k \in 1 .. n : obj'[k] \in E /\ obj'[k].obj = obj[k].obj
      BY <2>1, <2>3, <3>1, <3>2, <3>3
    <3>5. obj' \in Seq(E) /\ Len(obj') = n
      <4>1. obj' = [k \in 1 .. n |-> obj'[k]]
        BY <2>1, <3>2
      <4> HIDE DEF E, n
      <4>2. \A k \in 1 .. n : obj'[k] \in E
        BY <3>4
      <4>3. QED
        BY <2>1, <4>1, <4>2
    <3>6. Ranked'
      BY <2>1, <3>4 DEF Ranked
    <3>7. Recalled' = Recalled /\ o \in Recalled
      BY <2>1, <3>1, <3>4 DEF Recalled
    <3>8. WeightsOk'
      <4> SUFFICES ASSUME NEW k \in 1 .. n
                   PROVE  obj'[k].weight = SoFar(obj[k].obj)'
        BY <3>4 DEF WeightsOk
      <4>1. CASE k = n
        <5>1. obj'[n].weight = obj[n].weight + HitScore(node)
          BY <2>1, <2>3, <3>1, <3>2 DEF Weighed
        <5>2. obj[n].weight = SoFar(o)
          BY <1>2, <3>1 DEF WeightsOk
        <5>3. QED
          BY <1>9, <3>1, <3>4, <4>1, <5>1, <5>2
      <4>2. CASE k # n
        <5>1. obj'[k] = obj[k]
          BY <2>1, <3>2, <4>2
        <5>2. obj[k].obj # o
          <6> HIDE DEF n
          <6>1. k < n /\ k \in DOMAIN obj /\ n \in DOMAIN obj
            BY <2>1, <3>1, <4>2
          <6>2. obj[k].obj > obj[n].obj
            BY <2>1, <6>1 DEF Ranked
          <6>3. QED
            BY <1>3, <3>1, <6>2
        <5>3. QED
          BY <1>2, <1>9, <2>1, <5>1, <5>2 DEF WeightsOk
      <4>3. QED
        BY <4>1, <4>2
    <3>9. QED
      BY <2>1, <2>4, <2>6, <3>5, <3>6, <3>7, <3>8, SearchAssumption DEF ObjOk
  <2>7. CASE Passes(o) /\ ~Repeated(obj, node)
    <3> DEFINE e == [obj |-> o, weight |-> HitScore(node)]
    <3>1. obj' = Append(obj, e)
      BY <1>0, <1>7, <2>7 DEF add_obj
    <3>2. e \in E /\ e.obj = o
      BY <1>3
    <3> HIDE DEF E, e
    <3>3. /\ obj' \in Seq(E) /\ Len(obj') = n + 1 /\ DOMAIN obj' = 1 .. n + 1
          /\ obj'[n + 1] = e /\ \A k \in 1 .. n : obj'[k] = obj[k]
      BY <2>1, <3>1, <3>2
    <3>4. ASSUME NEW k \in 1 .. n
          PROVE  obj[k].obj \in Nat /\ obj[k].obj > o
      <4>1. \A l \in 1 .. n : obj[l].obj \in Nat /\ obj[l].obj >= o
        <5>1. \A l \in 1 .. n : obj[l].obj \in Recalled
          BY <2>1 DEF Recalled
        <5>2. QED
          BY <1>3, <2>1, <2>2, <2>3, <5>1
      <4>2. n \in 1 .. n /\ obj[n].obj # o
        BY <1>0, <2>1, <2>7 DEF Repeated
      <4>3. obj[n].obj > o
        BY <1>3, <4>1, <4>2
      <4>4. k = n \/ obj[k].obj > obj[n].obj
        <5> HIDE DEF n
        <5>1. k = n \/ k < n
          BY <2>1
        <5>2. k \in DOMAIN obj /\ n \in DOMAIN obj
          BY <2>1, <4>2
        <5>3. QED
          BY <2>1, <5>1, <5>2 DEF Ranked
      <4>5. QED
        BY <1>3, <4>1, <4>2, <4>3, <4>4
    <3>5. Ranked'
      <4> SUFFICES ASSUME NEW k \in 1 .. n + 1, NEW l \in 1 .. n + 1, k < l
                   PROVE  obj'[k].obj > obj'[l].obj
        BY <3>3 DEF Ranked
      <4>1. k \in 1 .. n
        BY <2>1
      <4>2. CASE l \in 1 .. n
        BY <2>1, <3>3, <4>1, <4>2 DEF Ranked
      <4>3. CASE l = n + 1
        BY <3>2, <3>3, <3>4, <4>1, <4>3
      <4>4. QED
        BY <2>1, <4>2, <4>3
    <3>6. Recalled' = Recalled \cup {o}
      <4>1. Recalled' = {obj'[k].obj : k \in 1 .. n + 1}
        BY <3>3 DEF Recalled
      <4>2. ASSUME NEW p \in Recalled'
            PROVE  p \in Recalled \cup {o}
        <5>1. PICK k \in 1 .. n + 1 : p = obj'[k].obj
          BY <4>1, <4>2
        <5>2. CASE k = n + 1
          BY <3>2, <3>3, <5>1, <5>2
        <5>3. CASE k \in 1 .. n
          BY <2>1, <3>3, <5>1, <5>3 DEF Recalled
        <5>4. QED
          BY <2>1, <5>2, <5>3
      <4>3. ASSUME NEW p \in Recalled \cup {o}
            PROVE  p \in Recalled'
        <5>1. CASE p = o
          <6>1. n + 1 \in 1 .. n + 1 /\ obj'[n + 1].obj = p
            BY <2>1, <3>2, <3>3, <5>1
          <6>2. QED
            BY <4>1, <6>1
        <5>2. CASE p \in Recalled
          <6>1. PICK k \in 1 .. n : p = obj[k].obj
            BY <2>1, <5>2 DEF Recalled
          <6>2. k \in 1 .. n + 1 /\ obj'[k].obj = p
            BY <2>1, <3>3, <6>1
          <6>3. QED
            BY <4>1, <6>2
        <5>3. QED
          BY <4>3, <5>1, <5>2
      <4>4. QED
        BY <4>2, <4>3
    <3>7. Len(obj') <= MaxRecall
      BY <2>1, <3>3, SearchAssumption
    <3>8. WeightsOk'
      <4> SUFFICES ASSUME NEW k \in 1 .. n + 1
                   PROVE  obj'[k].weight = SoFar(obj[k].obj)'
        BY <3>3 DEF WeightsOk
      <4>1. CASE k = n + 1
        <5>1. o \notin Seen
          <6>1. o \notin Recalled
            BY <1>3, <2>1, <3>4 DEF Recalled
          <6>2. QED
            BY <2>1, <2>7, <6>1
        <5>2. obj'[k].weight = HitScore(node) /\ obj'[k].obj = o
          BY <3>2, <3>3, <4>1 DEF e
        <5>3. QED
          BY <1>3, <1>9, <5>1, <5>2
      <4>2. CASE k \in 1 .. n
        <5>1. obj'[k] = obj[k] /\ obj[k].obj # o
          BY <1>3, <3>3, <3>4, <4>2
        <5>2. QED
          BY <1>2, <1>9, <2>1, <4>2, <5>1 DEF WeightsOk
      <4>3. QED
        BY <2>1, <4>1, <4>2
    <3>9. QED
      BY <2>4, <2>7, <3>3, <3>5, <3>6, <3>7, <3>8 DEF ObjOk, E
  <2>8. QED
    BY <2>5, <2>6, <2>7
<1>11. QED
  BY <1>1, <1>2, <1>3, <1>6, <1>8, <1>10 DEF SearchInv

LEMMA SearchInvInit == SearchInit => SearchInv
  BY DEF SearchInit, SearchInv

LEMMA SearchInvStep == SearchInv /\ [SearchNext]_searchVars => SearchInv'
<1> SUFFICES ASSUME SearchInv, [SearchNext]_searchVars
             PROVE  SearchInv'
  OBVIOUS
<1>1. CASE \E ix \in Indexes, q \in Queries : Begin(ix, q)
  BY <1>1, SearchInput, BeginInv
<1>2. CASE \E i \in DOMAIN term : Recall(i)
  BY <1>2, RecallInv
<1>3. CASE SortObjects
  BY <1>3, SortInv
<1>4. CASE CopyResult
  BY <1>4 DEF CopyResult, SearchInv
<1>5. CASE UNCHANGED searchVars
  <2>1. /\ phase' = phase /\ index' = index /\ query' = query /\ filtTags' = filtTags
        /\ term' = term /\ heap' = heap /\ obj' = obj
        /\ lastFilt' = lastFilt /\ lastValid' = lastValid
    BY <1>5 DEF searchVars
  <2>2. Best' = Best /\ Passing' = Passing /\ \A p : Passes(p)' <=> Passes(p)
    BY <2>1 DEF Best, Passing, Passes, Matching, Terms, Positions
  <2>3. \A i : Hits(i)' = Hits(i) /\ Read(i)' = Read(i) /\ (CursorOk(i)' <=> CursorOk(i))
    BY <2>1 DEF Hits, Read, CursorOk
  <2>4. Seen' = Seen
    BY <2>1, <2>3 DEF Seen
  <2>9. /\ AllWeigh' <=> AllWeigh
        /\ WeightsOk' <=> WeightsOk
    <3>1. \A o : HitsOn(o)' = HitsOn(o) /\ Score(o)' = Score(o)
      BY <2>1 DEF HitsOn, Score, Positions
    <3>2. \A o : Got(o)' = Got(o)
      BY <2>3, <3>1 DEF Got
    <3>3. \A o : /\ [h \in HitsOn(o) |-> Score(h)]' = [h \in HitsOn(o) |-> Score(h)]
                 /\ [h \in Got(o) |-> Score(h)]' = [h \in Got(o) |-> Score(h)]
      BY <3>1, <3>2
    <3>4. (\A o : Weight(o) = Total([h \in HitsOn(o) |-> Score(h)]))'
      BY WeightIsTotal, PTL
    <3>5. \A o : Weight(o)' = Weight(o) /\ SoFar(o)' = SoFar(o)
      BY <3>3, <3>4, WeightIsTotal DEF SoFar
    <3>6. QED
      BY <2>1, <3>5 DEF AllWeigh, Weighs, WeightsOk
  <2>5. /\ CursorsOk' <=> CursorsOk
        /\ MergeOk' <=> MergeOk
        /\ RememberedOk' <=> RememberedOk
    BY <2>1, <2>2, <2>3, <2>4 DEF CursorsOk, MergeOk, RememberedOk
  <2>6. /\ Recalled' = Recalled
        /\ ByWeight' <=> ByWeight
        /\ Ranked' <=> Ranked
        /\ ResultOk' <=> ResultOk
    BY <2>1, <2>2 DEF Recalled, ByWeight, Ranked, ResultOk
  <2>7. ObjOk' <=> ObjOk
    BY <2>1, <2>2, <2>4, <2>6 DEF ObjOk
  <2>8. QED
    BY <2>1, <2>2, <2>5, <2>6, <2>7, <2>9 DEF SearchInv
<1>6. QED
  BY <1>1, <1>2, <1>3, <1>4, <1>5 DEF SearchNext

(* A search recalls the MaxRecall greatest objects that match a token and  *)
(* pass the filters, and no others.                                        *)
THEOREM RecallsTheBest == SearchSpec => []RecallExact
<1>1. SearchInv => RecallExact
  BY DEF SearchInv, RecallExact, Recalled
<1>2. QED
  BY <1>1, SearchInvInit, SearchInvStep, PTL DEF SearchSpec

(* It returns them by weight, and of equal weights the newest first; each  *)
(* weighs what all its hits add up to, but for the last of a full recall.   *)
THEOREM ResultRanked == SearchSpec => []RankedByWeight
<1>1. SearchInv => RankedByWeight
  BY DEF SearchInv, RankedByWeight, AllWeigh, Weighs, ByWeight
<1>2. QED
  BY <1>1, SearchInvInit, SearchInvStep, PTL DEF SearchSpec
=============================================================================
