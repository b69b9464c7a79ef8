--------------------------- MODULE SequenceLemmas ---------------------------
(***************************************************************************)
(* What the operators on sequences that the models use do to the elements: *)
(* one that is inserted, taken out, put in front, or the first one gone;   *)
(* and how many numbers from the first on have a property.                 *)
(***************************************************************************)
EXTENDS SequencesExt, SequenceTheorems, FiniteSetTheorems, WellFoundedInduction, TLAPS

\* What is inserted where, as an index by index description.
LEMMA InsertedElements ==
  ASSUME NEW S, NEW q \in Seq(S), NEW p \in 1 .. Len(q) + 1, NEW e \in S
  PROVE  /\ InsertAt(q, p, e) \in Seq(S)
         /\ Len(InsertAt(q, p, e)) = Len(q) + 1
         /\ \A i \in 1 .. Len(q) + 1 :
              InsertAt(q, p, e)[i] =
                IF i < p THEN q[i] ELSE IF i = p THEN e ELSE q[i - 1]
<1> DEFINE a == SubSeq(q, 1, p - 1)
           b == SubSeq(q, p, Len(q))
           ab == a \o <<e>>
<1>1. Len(q) \in Nat /\ \A i \in 1 .. Len(q) : q[i] \in S
  BY LenProperties, ElementOfSeq
<1>2. /\ a \in Seq(S) /\ Len(a) = p - 1
      /\ \A i \in 1 .. p - 1 : a[i] = q[i]
  <2>1. \A i \in 1 .. p - 1 : q[i] \in S
    BY <1>1
  <2>2. p - 1 \in Int /\ p >= 1
    BY <1>1
  <2>3. /\ a \in Seq(S)
        /\ Len(a) = IF 1 <= p - 1 THEN p - 1 - 1 + 1 ELSE 0
        /\ \A i \in 1 .. p - 1 - 1 + 1 : a[i] = q[1 + i - 1]
    BY <2>1, <2>2, SubSeqProperties
  <2>4. QED
    BY <1>1, <2>2, <2>3
<1>3. /\ b \in Seq(S) /\ Len(b) = Len(q) - p + 1
      /\ \A i \in 1 .. Len(q) - p + 1 : b[i] = q[p + i - 1]
  <2>1. \A i \in p .. Len(q) : q[i] \in S
    BY <1>1
  <2>2. p \in Int /\ Len(q) \in Int
    BY <1>1
  <2>3. /\ b \in Seq(S)
        /\ Len(b) = IF p <= Len(q) THEN Len(q) - p + 1 ELSE 0
        /\ \A i \in 1 .. Len(q) - p + 1 : b[i] = q[p + i - 1]
    BY <2>1, <2>2, SubSeqProperties
  <2>4. QED
    BY <1>1, <2>3
<1>4. <<e>> \in Seq(S) /\ Len(<<e>>) = 1 /\ <<e>>[1] = e
  OBVIOUS
<1>5. /\ ab \in Seq(S) /\ Len(ab) = p
      /\ \A i \in 1 .. p : ab[i] = IF i < p THEN q[i] ELSE e
  <2>1. /\ ab \in Seq(S) /\ Len(ab) = p - 1 + 1
        /\ \A i \in 1 .. p - 1 + 1 : ab[i] = IF i <= p - 1 THEN a[i] ELSE <<e>>[i - (p - 1)]
    BY <1>2, <1>4, ConcatProperties
  <2>2. QED
    BY <1>1, <1>2, <1>4, <2>1
<1>7. InsertAt(q, p, e) = ab \o b
  BY DEF InsertAt
<1> HIDE DEF a, b, ab
<1>6. /\ ab \o b \in Seq(S) /\ Len(ab \o b) = p + (Len(q) - p + 1)
      /\ \A i \in 1 .. p + (Len(q) - p + 1) :
           (ab \o b)[i] = IF i <= p THEN ab[i] ELSE b[i - p]
  <2>1. /\ ab \o b \in Seq(S) /\ Len(ab \o b) = Len(ab) + Len(b)
        /\ \A i \in 1 .. Len(ab) + Len(b) :
             (ab \o b)[i] = IF i <= Len(ab) THEN ab[i] ELSE b[i - Len(ab)]
    BY <1>3, <1>5, ConcatProperties
  <2>2. Len(ab) = p /\ Len(b) = Len(q) - p + 1
    BY <1>3, <1>5
  <2>3. QED
    BY <2>1, <2>2
<1>8. ASSUME NEW i \in 1 .. Len(q) + 1
      PROVE  (ab \o b)[i] = IF i < p THEN q[i] ELSE IF i = p THEN e ELSE q[i - 1]
  <2>1. i \in 1 .. p + (Len(q) - p + 1) /\ i \in Int /\ p \in Int
    BY <1>1
  <2>2. CASE i <= p
    BY <1>1, <1>5, <1>6, <2>1, <2>2
  <2>3. CASE i > p
    <3>1. i - p \in 1 .. Len(q) - p + 1 /\ p + (i - p) - 1 = i - 1
      BY <1>1, <2>3
    <3>2. b[i - p] = q[i - 1]
      BY <1>3, <3>1
    <3>3. (ab \o b)[i] = b[i - p]
      <4>1. ~(i <= p)
        BY <2>1, <2>3
      <4>2. QED
        BY <1>6, <2>1, <4>1
    <3>4. QED
      BY <2>1, <2>3, <3>2, <3>3
  <2>4. i <= p \/ i > p
    BY <2>1
  <2>5. QED
    BY <2>2, <2>3, <2>4
<1> QED
  BY <1>1, <1>6, <1>7, <1>8

\* Where the elements of a sequence are after one was put in, and that there are
\* no others.
LEMMA InsertedIsThere ==
  ASSUME NEW S, NEW q \in Seq(S), NEW p \in 1 .. Len(q) + 1, NEW e \in S
  PROVE  ToSet(InsertAt(q, p, e)) = ToSet(q) \cup {e}
<1> DEFINE r == InsertAt(q, p, e)
<1>1. Len(q) \in Nat /\ DOMAIN q = 1 .. Len(q) /\ p \in Nat /\ 1 <= p /\ p <= Len(q) + 1
  BY LenProperties
<1>2. /\ r \in Seq(S) /\ Len(r) = Len(q) + 1
      /\ \A i \in 1 .. Len(q) + 1 :
           r[i] = IF i < p THEN q[i] ELSE IF i = p THEN e ELSE q[i - 1]
  <2>1. r \in Seq(S)
    BY InsertedElements
  <2>2. Len(r) = Len(q) + 1
    BY InsertedElements
  <2>3. ASSUME NEW i \in 1 .. Len(q) + 1
        PROVE  r[i] = IF i < p THEN q[i] ELSE IF i = p THEN e ELSE q[i - 1]
    BY InsertedElements
  <2>4. QED
    BY <2>1, <2>2, <2>3
<1> HIDE DEF r
<1>3. DOMAIN r = 1 .. Len(q) + 1
  BY <1>2, LenProperties
<1>4. ToSet(r) \subseteq ToSet(q) \cup {e}
  <2> SUFFICES ASSUME NEW i \in 1 .. Len(q) + 1 PROVE r[i] \in ToSet(q) \cup {e}
    BY <1>3 DEF ToSet
  <2>1. i = p \/ \E k \in 1 .. Len(q) : r[i] = q[k]
    <3>1. CASE i < p
      BY <1>1, <1>2, <3>1
    <3>2. CASE i > p
      <4>1. i - 1 \in 1 .. Len(q) /\ ~(i < p) /\ i # p
        BY <1>1, <3>2
      <4>2. QED
        BY <1>2, <4>1
    <3>3. QED
      BY <1>1, <3>1, <3>2
  <2>2. QED
    BY <1>1, <1>2, <2>1 DEF ToSet
<1>5. ASSUME NEW k \in 1 .. Len(q) PROVE \E i \in 1 .. Len(q) + 1 : r[i] = q[k]
  <2>1. CASE k < p
    <3>1. k \in 1 .. Len(q) + 1
      BY <1>1
    <3>2. QED
      BY <1>2, <2>1, <3>1
  <2>2. CASE ~(k < p)
    <3>1. k + 1 \in 1 .. Len(q) + 1 /\ ~(k + 1 < p) /\ k + 1 # p /\ k + 1 - 1 = k
      BY <1>1, <2>2
    <3>2. r[k + 1] = q[k + 1 - 1]
      BY <1>2, <3>1
    <3>3. QED
      BY <3>1, <3>2
  <2>3. QED
    BY <2>1, <2>2
<1>6. p \in 1 .. Len(q) + 1 /\ r[p] = e
  BY <1>1, <1>2
<1>7. ToSet(q) \cup {e} \subseteq ToSet(r)
  BY <1>1, <1>3, <1>5, <1>6 DEF ToSet
<1> QED
  BY <1>4, <1>7, Zenon DEF r

\* What is left when one element is taken out.
LEMMA RemovedElements ==
  ASSUME NEW S, NEW q \in Seq(S), NEW p \in 1 .. Len(q)
  PROVE  /\ RemoveAt(q, p) \in Seq(S)
         /\ Len(RemoveAt(q, p)) = Len(q) - 1
         /\ \A i \in 1 .. Len(q) - 1 :
              RemoveAt(q, p)[i] = IF i < p THEN q[i] ELSE q[i + 1]
<1> DEFINE a == SubSeq(q, 1, p - 1)
           b == SubSeq(q, p + 1, Len(q))
<1>1. /\ Len(q) \in Nat /\ p \in Nat /\ 1 <= p /\ p <= Len(q)
      /\ \A i \in 1 .. Len(q) : q[i] \in S
  BY LenProperties, ElementOfSeq
<1>2. /\ a \in Seq(S) /\ Len(a) = p - 1
      /\ \A i \in 1 .. p - 1 : a[i] = q[i]
  <2>1. \A i \in 1 .. p - 1 : q[i] \in S
    BY <1>1
  <2>2. p - 1 \in Int
    BY <1>1
  <2>3. /\ a \in Seq(S)
        /\ Len(a) = IF 1 <= p - 1 THEN p - 1 - 1 + 1 ELSE 0
        /\ \A i \in 1 .. p - 1 - 1 + 1 : a[i] = q[1 + i - 1]
    BY <2>1, <2>2, SubSeqProperties
  <2>4. QED
    BY <1>1, <2>2, <2>3
<1>3. /\ b \in Seq(S) /\ Len(b) = Len(q) - p
      /\ \A i \in 1 .. Len(q) - p : b[i] = q[p + i]
  <2>1. \A i \in p + 1 .. Len(q) : q[i] \in S
    BY <1>1
  <2>2. p + 1 \in Int /\ Len(q) \in Int
    BY <1>1
  <2>3. /\ b \in Seq(S)
        /\ Len(b) = IF p + 1 <= Len(q) THEN Len(q) - (p + 1) + 1 ELSE 0
        /\ \A i \in 1 .. Len(q) - (p + 1) + 1 : b[i] = q[p + 1 + i - 1]
    BY <2>1, <2>2, SubSeqProperties
  <2>4. QED
    BY <1>1, <2>3
<1>4. RemoveAt(q, p) = a \o b
  BY DEF RemoveAt
<1> HIDE DEF a, b
<1>5. /\ a \o b \in Seq(S) /\ Len(a \o b) = p - 1 + (Len(q) - p)
      /\ \A i \in 1 .. p - 1 + (Len(q) - p) :
           (a \o b)[i] = IF i <= p - 1 THEN a[i] ELSE b[i - (p - 1)]
  <2>1. /\ a \o b \in Seq(S) /\ Len(a \o b) = Len(a) + Len(b)
        /\ \A i \in 1 .. Len(a) + Len(b) :
             (a \o b)[i] = IF i <= Len(a) THEN a[i] ELSE b[i - Len(a)]
    BY <1>2, <1>3, ConcatProperties
  <2>2. QED
    BY <1>2, <1>3, <2>1
<1>6. ASSUME NEW i \in 1 .. Len(q) - 1
      PROVE  (a \o b)[i] = IF i < p THEN q[i] ELSE q[i + 1]
  <2>1. i \in 1 .. p - 1 + (Len(q) - p) /\ i \in Int /\ p \in Int
    BY <1>1
  <2>2. CASE i < p
    BY <1>1, <1>2, <1>5, <2>1, <2>2
  <2>3. CASE i >= p
    <3>1. i - (p - 1) \in 1 .. Len(q) - p /\ p + (i - (p - 1)) = i + 1
      BY <1>1, <2>3
    <3>2. b[i - (p - 1)] = q[i + 1]
      BY <1>3, <3>1
    <3>3. (a \o b)[i] = b[i - (p - 1)]
      <4>1. ~(i <= p - 1)
        BY <2>1, <2>3
      <4>2. QED
        BY <1>5, <2>1, <4>1
    <3>4. QED
      BY <2>1, <2>3, <3>2, <3>3
  <2>4. i < p \/ i >= p
    BY <2>1
  <2>5. QED
    BY <2>2, <2>3, <2>4
<1>7. p - 1 + (Len(q) - p) = Len(q) - 1
  BY <1>1
<1>8. a \o b \in Seq(S) /\ Len(a \o b) = Len(q) - 1
  BY <1>5, <1>7
<1> QED
  BY <1>4, <1>6, <1>8, Zenon

\* What is left of a sequence without repetitions is everything but the element.
LEMMA RemovedIsGone ==
  ASSUME NEW S, NEW q \in Seq(S), NEW p \in 1 .. Len(q), IsInjective(q)
  PROVE  /\ RemoveAt(q, p) \in Seq(S)
         /\ IsInjective(RemoveAt(q, p))
         /\ ToSet(RemoveAt(q, p)) = ToSet(q) \ {q[p]}
<1> DEFINE r == RemoveAt(q, p)
<1>1. /\ Len(q) \in Nat /\ p \in Nat /\ 1 <= p /\ p <= Len(q)
      /\ DOMAIN q = 1 .. Len(q)
      /\ \A k, l \in 1 .. Len(q) : q[k] = q[l] => k = l
  BY LenProperties DEF IsInjective
<1>2. /\ r \in Seq(S) /\ Len(r) = Len(q) - 1
      /\ \A i \in 1 .. Len(q) - 1 : r[i] = IF i < p THEN q[i] ELSE q[i + 1]
  BY RemovedElements
<1> HIDE DEF r
<1>3. DOMAIN r = 1 .. Len(q) - 1
  BY <1>2, LenProperties
<1>4. ASSUME NEW i \in 1 .. Len(q) - 1
      PROVE  \E k \in 1 .. Len(q) :
               r[i] = q[k] /\ k # p /\ k = (IF i < p THEN i ELSE i + 1)
  BY <1>1, <1>2
<1>5. ASSUME NEW k \in 1 .. Len(q), k # p
      PROVE  \E i \in 1 .. Len(q) - 1 : r[i] = q[k]
  <2>1. CASE k < p
    <3>1. k \in 1 .. Len(q) - 1
      BY <1>1, <2>1
    <3>2. QED
      BY <1>2, <2>1, <3>1
  <2>2. CASE k > p
    <3>1. k - 1 \in 1 .. Len(q) - 1 /\ ~(k - 1 < p) /\ k - 1 + 1 = k
      BY <1>1, <2>2
    <3>2. r[k - 1] = q[k - 1 + 1]
      BY <1>2, <3>1
    <3>3. QED
      BY <3>1, <3>2
  <2>3. k < p \/ k > p
    BY <1>1, <1>5
  <2>4. QED
    BY <2>1, <2>2, <2>3
<1>6. ASSUME NEW i \in 1 .. Len(q) - 1, NEW j \in 1 .. Len(q) - 1, r[i] = r[j]
      PROVE  i = j
  <2>1. PICK k \in 1 .. Len(q) : r[i] = q[k] /\ k = (IF i < p THEN i ELSE i + 1)
    BY <1>4
  <2>2. PICK l \in 1 .. Len(q) : r[j] = q[l] /\ l = (IF j < p THEN j ELSE j + 1)
    BY <1>4
  <2>3. k = l
    BY <1>1, <1>6, <2>1, <2>2
  <2>4. QED
    BY <1>1, <2>1, <2>2, <2>3
<1>7. ToSet(r) \subseteq ToSet(q) \ {q[p]}
  <2> SUFFICES ASSUME NEW i \in 1 .. Len(q) - 1 PROVE r[i] \in ToSet(q) \ {q[p]}
    BY <1>3 DEF ToSet
  <2>1. PICK k \in 1 .. Len(q) : r[i] = q[k] /\ k # p
    BY <1>4
  <2>2. QED
    BY <1>1, <2>1 DEF ToSet
<1>8. ToSet(q) \ {q[p]} \subseteq ToSet(r)
  <2> SUFFICES ASSUME NEW k \in 1 .. Len(q), q[k] # q[p] PROVE q[k] \in ToSet(r)
    BY <1>1 DEF ToSet
  <2>1. PICK i \in 1 .. Len(q) - 1 : r[i] = q[k]
    BY <1>5
  <2>2. QED
    BY <1>3, <2>1 DEF ToSet
<1>9. IsInjective(r)
  BY <1>3, <1>6 DEF IsInjective
<1>10. ToSet(r) = ToSet(q) \ {q[p]}
  BY <1>7, <1>8
<1>11. r \in Seq(S) /\ IsInjective(r) /\ ToSet(r) = ToSet(q) \ {q[p]}
  BY <1>2, <1>9, <1>10
<1> QED
  BY <1>11, Zenon DEF r

\* Tail takes out the first element.
LEMMA TailRemoves ==
  ASSUME NEW S, NEW q \in Seq(S), q # << >>
  PROVE  1 \in 1 .. Len(q) /\ Head(q) = q[1] /\ Tail(q) = RemoveAt(q, 1)
<1>1. Len(q) \in Nat \ {0} /\ Head(q) = q[1]
  BY LenProperties, EmptySeq
<1>2. 1 \in 1 .. Len(q)
  BY <1>1
<1>3. /\ RemoveAt(q, 1) \in Seq(S) /\ Len(RemoveAt(q, 1)) = Len(q) - 1
      /\ \A i \in 1 .. Len(q) - 1 :
           RemoveAt(q, 1)[i] = IF i < 1 THEN q[i] ELSE q[i + 1]
  BY <1>2, RemovedElements
<1>4. /\ Tail(q) \in Seq(S) /\ Len(Tail(q)) = Len(q) - 1
      /\ \A i \in 1 .. Len(Tail(q)) : Tail(q)[i] = q[i + 1]
  BY HeadTailProperties
<1>5. \A i \in 1 .. Len(q) - 1 : RemoveAt(q, 1)[i] = q[i + 1]
  BY <1>1, <1>3
<1>6. \A i \in 1 .. Len(Tail(q)) : Tail(q)[i] = RemoveAt(q, 1)[i]
  BY <1>4, <1>5
<1> QED
  BY <1>1, <1>2, <1>3, <1>4, <1>6, SeqEqual

\* An element in front.
LEMMA PrependedIsFirst ==
  ASSUME NEW S, NEW q \in Seq(S), NEW e \in S, IsInjective(q), e \notin ToSet(q)
  PROVE  /\ <<e>> \o q \in Seq(S)
         /\ IsInjective(<<e>> \o q)
         /\ ToSet(<<e>> \o q) = ToSet(q) \cup {e}
<1> DEFINE r == <<e>> \o q
<1>1. /\ Len(q) \in Nat /\ DOMAIN q = 1 .. Len(q)
      /\ \A k, l \in 1 .. Len(q) : q[k] = q[l] => k = l
      /\ \A k \in 1 .. Len(q) : q[k] # e
  BY LenProperties DEF IsInjective, ToSet
<1>2. <<e>> \in Seq(S) /\ Len(<<e>>) = 1 /\ <<e>>[1] = e
  OBVIOUS
<1>3. /\ r \in Seq(S) /\ Len(r) = Len(<<e>>) + Len(q)
      /\ \A i \in 1 .. Len(<<e>>) + Len(q) :
           r[i] = IF i <= Len(<<e>>) THEN <<e>>[i] ELSE q[i - Len(<<e>>)]
  BY <1>2, ConcatProperties
<1> HIDE DEF r
<1>4. DOMAIN r = 1 .. Len(q) + 1
  BY <1>1, <1>2, <1>3, LenProperties
<1>5. r[1] = e /\ 1 \in 1 .. Len(q) + 1
  BY <1>1, <1>2, <1>3
<1>6. ASSUME NEW k \in 1 .. Len(q) PROVE k + 1 \in 1 .. Len(q) + 1 /\ r[k + 1] = q[k]
  <2>1. k + 1 \in 1 .. 1 + Len(q) /\ ~(k + 1 <= 1) /\ k + 1 - 1 = k
    BY <1>1
  <2>2. r[k + 1] = q[k + 1 - 1]
    BY <1>2, <1>3, <2>1
  <2>3. QED
    BY <1>1, <2>1, <2>2
<1>7. ASSUME NEW i \in 1 .. Len(q) + 1, i # 1
      PROVE  i - 1 \in 1 .. Len(q) /\ r[i] = q[i - 1]
  <2>1. i - 1 \in 1 .. Len(q) /\ i - 1 + 1 = i
    BY <1>1, <1>7
  <2>2. r[i - 1 + 1] = q[i - 1]
    BY <1>6, <2>1
  <2>3. QED
    BY <2>1, <2>2
<1>8. ASSUME NEW i \in 1 .. Len(q) + 1, NEW j \in 1 .. Len(q) + 1, r[i] = r[j]
      PROVE  i = j
  <2>1. CASE i = 1
    <3>1. r[j] = e /\ (j # 1 => j - 1 \in 1 .. Len(q) /\ r[j] = q[j - 1])
      BY <1>5, <1>7, <1>8, <2>1
    <3>2. j = 1
      BY <1>1, <3>1 DEF ToSet
    <3>3. QED
      BY <2>1, <3>2
  <2>2. CASE j = 1
    <3>1. r[i] = e /\ (i # 1 => i - 1 \in 1 .. Len(q) /\ r[i] = q[i - 1])
      BY <1>5, <1>7, <1>8, <2>2
    <3>2. i = 1
      BY <1>1, <3>1 DEF ToSet
    <3>3. QED
      BY <2>2, <3>2
  <2>3. CASE i # 1 /\ j # 1
    <3>1. i - 1 = j - 1
      BY <1>1, <1>7, <1>8, <2>3
    <3>2. QED
      BY <3>1
  <2>4. QED
    BY <2>1, <2>2, <2>3
<1>9. ToSet(r) = ToSet(q) \cup {e}
  <2>1. ASSUME NEW i \in 1 .. Len(q) + 1 PROVE r[i] \in ToSet(q) \cup {e}
    BY <1>1, <1>5, <1>7 DEF ToSet
  <2>2. ToSet(r) \subseteq ToSet(q) \cup {e}
    BY <1>4, <2>1 DEF ToSet
  <2>3. ToSet(q) \subseteq ToSet(r)
    BY <1>1, <1>4, <1>6 DEF ToSet
  <2>4. e \in ToSet(r)
    BY <1>4, <1>5 DEF ToSet
  <2>5. QED
    BY <2>2, <2>3, <2>4
<1>10. IsInjective(r)
  BY <1>4, <1>8 DEF IsInjective
<1> QED
  BY <1>3, <1>9, <1>10 DEF r

\* The elements of a concatenation.
LEMMA ConcatElements ==
  ASSUME NEW S, NEW q \in Seq(S), NEW r \in Seq(S)
  PROVE  q \o r \in Seq(S) /\ ToSet(q \o r) = ToSet(q) \cup ToSet(r)
<1> DEFINE c == q \o r
           m == Len(q)
           n == Len(r)
<1>1. /\ c \in Seq(S) /\ Len(c) = m + n
      /\ \A i \in 1 .. m + n : c[i] = IF i <= m THEN q[i] ELSE r[i - m]
  BY ConcatProperties
<1>2. /\ m \in Nat /\ n \in Nat
      /\ DOMAIN q = 1 .. m /\ DOMAIN r = 1 .. n
  BY LenProperties
<1> HIDE DEF c, m, n
<1>3. DOMAIN c = 1 .. m + n
  BY <1>1, LenProperties
<1>4. ASSUME NEW i \in 1 .. m + n PROVE c[i] \in ToSet(q) \cup ToSet(r)
  <2>1. CASE i <= m
    <3>1. i \in 1 .. m
      BY <1>2, <2>1
    <3>2. c[i] = q[i]
      BY <1>1, <2>1
    <3>3. q[i] \in ToSet(q)
      BY <1>2, <3>1 DEF ToSet
    <3>4. QED
      BY <3>2, <3>3
  <2>2. CASE ~(i <= m)
    <3> DEFINE k == i - m
    <3>1. k \in 1 .. n
      BY <1>2, <2>2
    <3>2. c[i] = r[k]
      BY <1>1, <2>2
    <3> HIDE DEF k
    <3>3. r[k] \in ToSet(r)
      BY <1>2, <3>1 DEF ToSet
    <3>4. QED
      BY <3>2, <3>3
  <2>3. QED
    BY <2>1, <2>2
<1>5. ASSUME NEW i \in 1 .. m PROVE q[i] \in ToSet(c)
  <2>1. i \in 1 .. m + n /\ i <= m
    BY <1>2
  <2>2. QED
    BY <1>1, <1>3, <2>1 DEF ToSet
<1>6. ASSUME NEW i \in 1 .. n PROVE r[i] \in ToSet(c)
  <2> DEFINE k == i + m
  <2>1. k \in 1 .. m + n /\ ~(k <= m) /\ k - m = i
    BY <1>2
  <2> HIDE DEF k
  <2>2. c[k] = r[i]
    BY <1>1, <2>1
  <2>3. QED
    BY <1>3, <2>1, <2>2 DEF ToSet
<1>7. ToSet(c) = ToSet(q) \cup ToSet(r)
  BY <1>2, <1>3, <1>4, <1>5, <1>6 DEF ToSet
<1> QED
  BY <1>1, <1>7 DEF c

\* The elements of a sequence are those of its two parts.
LEMMA SplitElements ==
  ASSUME NEW S, NEW q \in Seq(S), NEW n \in 0 .. Len(q)
  PROVE  /\ SubSeq(q, 1, n) \in Seq(S) /\ SubSeq(q, n + 1, Len(q)) \in Seq(S)
         /\ ToSet(q) = ToSet(SubSeq(q, 1, n)) \cup ToSet(SubSeq(q, n + 1, Len(q)))
<1> DEFINE a == SubSeq(q, 1, n)
           b == SubSeq(q, n + 1, Len(q))
<1>1. /\ Len(q) \in Nat /\ n \in Nat /\ n <= Len(q) /\ DOMAIN q = 1 .. Len(q)
      /\ \A i \in 1 .. Len(q) : q[i] \in S
  BY LenProperties, ElementOfSeq
<1>2. /\ a \in Seq(S) /\ Len(a) = n /\ \A i \in 1 .. n : a[i] = q[i]
  <2>1. 1 \in Int /\ n \in Int /\ \A i \in 1 .. n : q[i] \in S
    BY <1>1
  <2>2. /\ a \in Seq(S) /\ Len(a) = IF 1 <= n THEN n - 1 + 1 ELSE 0
        /\ \A i \in 1 .. n - 1 + 1 : a[i] = q[1 + i - 1]
    BY <2>1, SubSeqProperties
  <2> HIDE DEF a
  <2>3. QED
    BY <1>1, <2>2
<1>3. /\ b \in Seq(S) /\ Len(b) = Len(q) - n
      /\ \A i \in 1 .. Len(q) - n : b[i] = q[n + i]
  <2>1. n + 1 \in Int /\ Len(q) \in Int /\ \A i \in n + 1 .. Len(q) : q[i] \in S
    BY <1>1
  <2>2. /\ b \in Seq(S) /\ Len(b) = IF n + 1 <= Len(q) THEN Len(q) - (n + 1) + 1 ELSE 0
        /\ \A i \in 1 .. Len(q) - (n + 1) + 1 : b[i] = q[n + 1 + i - 1]
    BY <2>1, SubSeqProperties
  <2> HIDE DEF b
  <2>3. Len(b) = Len(q) - n
    <3>1. n + 1 <= Len(q) => Len(q) - (n + 1) + 1 = Len(q) - n
      BY <1>1
    <3>2. ASSUME ~(n + 1 <= Len(q)) PROVE 0 = Len(q) - n
      <4> DEFINE m == Len(q)
      <4>1. m \in Nat /\ n \in Nat /\ n <= m /\ ~(n + 1 <= m)
        BY <1>1, <3>2
      <4> HIDE DEF m
      <4>2. 0 = m - n
        BY <4>1
      <4>3. QED
        BY <4>2 DEF m
    <3>3. QED
      BY <2>2, <3>1, <3>2
  <2>4. ASSUME NEW i \in 1 .. Len(q) - n PROVE b[i] = q[n + i]
    <3>1. i \in 1 .. Len(q) - (n + 1) + 1 /\ n + 1 + i - 1 = n + i
      BY <1>1
    <3>2. QED
      BY <2>2, <3>1
  <2>5. QED
    BY <2>2, <2>3, <2>4
<1> HIDE DEF a, b
<1>4. DOMAIN a = 1 .. n /\ DOMAIN b = 1 .. Len(q) - n
  BY <1>2, <1>3, LenProperties
<1>5. ASSUME NEW i \in 1 .. Len(q) PROVE q[i] \in ToSet(a) \cup ToSet(b)
  <2>1. CASE i <= n
    <3>1. i \in 1 .. n
      BY <1>1, <2>1
    <3>2. QED
      BY <1>2, <1>4, <3>1 DEF ToSet
  <2>2. CASE ~(i <= n)
    <3>1. i - n \in 1 .. Len(q) - n /\ n + (i - n) = i
      BY <1>1, <2>2
    <3>2. b[i - n] = q[i]
      BY <1>3, <3>1
    <3>3. QED
      BY <1>4, <3>1, <3>2 DEF ToSet
  <2>3. QED
    BY <2>1, <2>2
<1>6. ASSUME NEW i \in 1 .. n PROVE a[i] \in ToSet(q)
  <2>1. i \in 1 .. Len(q)
    BY <1>1
  <2>2. QED
    BY <1>1, <1>2, <2>1 DEF ToSet
<1>7. ASSUME NEW i \in 1 .. Len(q) - n PROVE b[i] \in ToSet(q)
  <2>1. n + i \in 1 .. Len(q)
    BY <1>1
  <2>2. QED
    BY <1>1, <1>3, <2>1 DEF ToSet
<1>8. ToSet(q) = ToSet(a) \cup ToSet(b)
  BY <1>1, <1>4, <1>5, <1>6, <1>7 DEF ToSet
<1> QED
  BY <1>2, <1>3, <1>8 DEF a, b

-----------------------------------------------------------------------------
\* A set of numbers has a least one.
LEMMA LeastNumber ==
  ASSUME NEW T, T \subseteq Nat, T # {}
  PROVE  \E m \in T : \A other \in T : m <= other
<1>1. \E R : /\ IsWellFoundedOn(R, Nat)
             /\ \A m, other \in Nat : <<other, m>> \in R <=> other < m
  <2>1. IsWellFoundedOn(OpToRel(<, Nat), Nat)
    BY NatLessThanWellFounded
  <2>2. \A m, other \in Nat : <<other, m>> \in OpToRel(<, Nat) <=> other < m
    BY DEF OpToRel
  <2>3. QED
    BY <2>1, <2>2, Zenon
<1>2. PICK R : /\ IsWellFoundedOn(R, Nat)
               /\ \A m, other \in Nat : <<other, m>> \in R <=> other < m
  BY <1>1
<1>3. PICK m \in T : \A other \in T : ~(<<other, m>> \in R)
  BY <1>2, WFMin
<1>4. ASSUME NEW other \in T PROVE m <= other
  <2>1. m \in Nat /\ other \in Nat
    OBVIOUS
  <2>2. ~(other < m)
    BY <1>2, <1>3, <2>1, Zenon
  <2>3. QED
    BY <2>1, <2>2
<1> QED
  BY <1>4

\* Of n numbers from b on, those up to which all are good: as many as there are
\* before the first one that is not.
LEMMA PrefixCounted ==
  ASSUME NEW b \in Int, NEW n \in Nat, NEW G, NEW D,
         D \subseteq b .. b + n - 1,
         \A i \in b .. b + n - 1 : i \in D <=> \A j \in b .. i : j \in G
  PROVE  /\ Cardinality(D) \in 0 .. n
         /\ \A j \in b .. b + n - 1 : j < b + Cardinality(D) => j \in G
         /\ Cardinality(D) < n => b + Cardinality(D) \notin G
<1> DEFINE c == Cardinality(D)
<1>1. /\ IsFiniteSet(b .. b + n - 1)
      /\ Cardinality(b .. b + n - 1) = n
  <2>1. b + n - 1 \in Int
    OBVIOUS
  <2>2. /\ IsFiniteSet(b .. b + n - 1)
        /\ Cardinality(b .. b + n - 1) =
             IF b > b + n - 1 THEN 0 ELSE b + n - 1 - b + 1
    BY <2>1, FS_Interval
  <2>3. QED
    BY <2>2
<1>2. D \in SUBSET (b .. b + n - 1)
  OBVIOUS
<1>3. IsFiniteSet(D) /\ c \in 0 .. n
  <2>1. IsFiniteSet(D) /\ Cardinality(D) <= n
    BY <1>1, <1>2, FS_Subset
  <2>2. Cardinality(D) \in Nat
    BY <2>1, FS_CardinalityType
  <2>3. QED
    BY <2>1, <2>2
<1>4. ASSUME NEW k \in b .. b + n - 1, k \in D PROVE k < b + c
  <2>1. b .. k \in SUBSET D
    BY <1>4
  <2>2. Cardinality(b .. k) = k - b + 1
    BY FS_Interval
  <2>3. k - b + 1 <= c
    BY <1>3, <2>1, <2>2, FS_Subset
  <2> HIDE DEF c
  <2>4. QED
    BY <1>3, <2>3
<1>5. ASSUME NEW k \in b .. b + n - 1, k \notin D PROVE b + c <= k
  <2>1. D \in SUBSET (b .. k - 1)
    <3> SUFFICES ASSUME NEW i \in D, ~(i < k) PROVE FALSE
      BY <1>2
    <3>1. i \in b .. b + n - 1 /\ \A j \in b .. i : j \in G
      OBVIOUS
    <3>2. \A j \in b .. k : j \in b .. i
      BY <3>1
    <3>3. QED
      BY <1>5, <3>1, <3>2
  <2>2. k - 1 \in Int
    OBVIOUS
  <2>3. /\ IsFiniteSet(b .. k - 1)
        /\ Cardinality(b .. k - 1) = IF b > k - 1 THEN 0 ELSE k - 1 - b + 1
    BY <2>2, FS_Interval
  <2>4. c <= Cardinality(b .. k - 1)
    BY <2>1, <2>3, FS_Subset
  <2> HIDE DEF c
  <2>5. QED
    BY <1>3, <2>3, <2>4
<1>6. ASSUME NEW j \in b .. b + n - 1, j < b + c PROVE j \in G
  <2>1. j \in D
    <3> HIDE DEF c
    <3>1. QED
      BY <1>3, <1>5, <1>6
  <2>2. QED
    BY <2>1
<1>7. ASSUME c < n PROVE b + c \notin G
  <2>1. b + c \in b .. b + n - 1 /\ ~(b + c < b + c)
    <3> HIDE DEF c
    <3>1. QED
      BY <1>3, <1>7
  <2>2. b + c \notin D
    BY <1>4, <2>1
  <2>3. PICK j \in b .. b + c : j \notin G
    BY <2>1, <2>2
  <2> HIDE DEF c
  <2>4. j = b + c
    BY <1>3, <1>6, <1>7, <2>3
  <2>5. QED
    BY <2>3, <2>4
<1> QED
  BY <1>3, <1>6, <1>7

=============================================================================
