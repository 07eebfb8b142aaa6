----------------------------- MODULE ListLemmas -----------------------------
(***************************************************************************)
(* Facts about the operators on sequences and sets of indices that the     *)
(* models of lists and queues are built from.                              *)
(***************************************************************************)
EXTENDS Integers, Sequences, SequencesExt, FiniteSetsExt,
        SequenceTheorems, WellFoundedInduction, TLAPS

(***************************************************************************)
(* A non-empty set of natural numbers has a least element.                 *)
(***************************************************************************)
LEMMA NatHasLeast ==
  ASSUME NEW S \in SUBSET Nat, S # {}
  PROVE  \E m \in S : \A x \in S : m <= x
<1>1. PICK m \in S : \A x \in S : ~(<<x, m>> \in OpToRel(<, Nat))
  BY WFMin, NatLessThanWellFounded
<1>2. \A x \in S : ~(x < m)
  BY <1>1 DEF OpToRel
<1> QED
  BY <1>2

(***************************************************************************)
(* Min and Max of a set of indices, which the order controller uses to     *)
(* find the first and the last tab of a group, are elements of the set.    *)
(***************************************************************************)
LEMMA MinIsLeast ==
  ASSUME NEW S \in SUBSET Nat, S # {}
  PROVE  Min(S) \in S /\ \A x \in S : Min(S) <= x
BY NatHasLeast DEF Min

LEMMA MaxIsGreatest ==
  ASSUME NEW n \in Nat, NEW S \in SUBSET (0 .. n), S # {}
  PROVE  Max(S) \in S /\ \A x \in S : x <= Max(S)
<1> DEFINE T == {n - x : x \in S}
<1>1. \A x \in S : x \in 0 .. n /\ n - x \in Nat
  OBVIOUS
<1>2. T \in SUBSET Nat /\ T # {}
  BY <1>1
<1>3. PICK m \in T : \A x \in T : m <= x
  BY <1>2, NatHasLeast
<1>4. PICK y \in S : m = n - y
  BY <1>3
<1>5. \A x \in S : x <= y
  BY <1>1, <1>3, <1>4
<1> HIDE DEF T
<1>6. \E z \in S : \A x \in S : z >= x
  BY <1>1, <1>5
<1>7. Max(S) \in S /\ \A x \in S : Max(S) >= x
  BY <1>6, Zenon DEF Max
<1> QED
  BY <1>1, <1>7

(***************************************************************************)
(* Inserting an element into a sequence, position by position.             *)
(***************************************************************************)
LEMMA InsertAtProperties ==
  ASSUME NEW S, NEW s \in Seq(S), NEW i \in 1 .. Len(s) + 1, NEW e \in S
  PROVE  /\ InsertAt(s, i, e) \in Seq(S)
         /\ Len(InsertAt(s, i, e)) = Len(s) + 1
         /\ \A j \in 1 .. Len(s) + 1 :
              InsertAt(s, i, e)[j] =
                IF j < i THEN s[j] ELSE IF j = i THEN e ELSE s[j - 1]
<1> DEFINE front == SubSeq(s, 1, i - 1)
           rest  == SubSeq(s, i, Len(s))
<1>1. Len(s) \in Nat /\ i \in Nat /\ i >= 1 /\ i <= Len(s) + 1
  OBVIOUS
<1>2. /\ front \in Seq(S) /\ Len(front) = i - 1
      /\ \A j \in 1 .. i - 1 : front[j] = s[j]
  BY <1>1, SubSeqProperties, ElementOfSeq
<1>3. /\ rest \in Seq(S) /\ Len(rest) = Len(s) - i + 1
      /\ \A j \in 1 .. Len(s) - i + 1 : rest[j] = s[i + j - 1]
  BY <1>1, SubSeqProperties, ElementOfSeq
<1>4. /\ <<e>> \in Seq(S) /\ Len(<<e>>) = 1 /\ <<e>>[1] = e
  OBVIOUS
<1> DEFINE head == front \o <<e>>
<1>5. /\ head \in Seq(S) /\ Len(head) = i
      /\ \A j \in 1 .. i : head[j] = IF j < i THEN s[j] ELSE e
  BY <1>1, <1>2, <1>4, ConcatProperties
<1> HIDE DEF head, rest, front
<1>6. /\ head \o rest \in Seq(S)
      /\ Len(head \o rest) = Len(head) + Len(rest)
      /\ \A j \in 1 .. Len(head) + Len(rest) :
           (head \o rest)[j] =
             IF j <= Len(head) THEN head[j] ELSE rest[j - Len(head)]
  BY <1>3, <1>5, ConcatProperties
<1>7. \A j \in 1 .. Len(s) + 1 :
        (head \o rest)[j] =
          IF j < i THEN s[j] ELSE IF j = i THEN e ELSE s[j - 1]
  BY <1>1, <1>3, <1>5, <1>6
<1>8. Len(head \o rest) = Len(s) + 1
  BY <1>1, <1>3, <1>5, <1>6
<1> QED
  BY <1>6, <1>7, <1>8 DEF InsertAt, head, rest, front

(***************************************************************************)
(* Removing the element at a position from a sequence.                     *)
(***************************************************************************)
LEMMA RemoveAtProperties ==
  ASSUME NEW S, NEW s \in Seq(S), NEW i \in 1 .. Len(s)
  PROVE  /\ RemoveAt(s, i) \in Seq(S)
         /\ Len(RemoveAt(s, i)) = Len(s) - 1
         /\ \A j \in 1 .. Len(s) - 1 :
              RemoveAt(s, i)[j] = IF j < i THEN s[j] ELSE s[j + 1]
<1> DEFINE front == SubSeq(s, 1, i - 1)
           rest  == SubSeq(s, i + 1, Len(s))
<1>1. Len(s) \in Nat /\ i \in Nat /\ i >= 1 /\ i <= Len(s)
  OBVIOUS
<1>2. /\ front \in Seq(S) /\ Len(front) = i - 1
      /\ \A j \in 1 .. i - 1 : front[j] = s[j]
  BY <1>1, SubSeqProperties, ElementOfSeq
<1>3. /\ rest \in Seq(S) /\ Len(rest) = Len(s) - i
      /\ \A j \in 1 .. Len(s) - i : rest[j] = s[i + j]
  BY <1>1, SubSeqProperties, ElementOfSeq
<1> HIDE DEF rest, front
<1>4. /\ front \o rest \in Seq(S)
      /\ Len(front \o rest) = Len(front) + Len(rest)
      /\ \A j \in 1 .. Len(front) + Len(rest) :
           (front \o rest)[j] =
             IF j <= Len(front) THEN front[j] ELSE rest[j - Len(front)]
  BY <1>2, <1>3, ConcatProperties
<1>5. \A j \in 1 .. Len(s) - 1 :
        (front \o rest)[j] = IF j < i THEN s[j] ELSE s[j + 1]
  BY <1>1, <1>2, <1>3, <1>4
<1>6. Len(front \o rest) = Len(s) - 1
  BY <1>1, <1>2, <1>3, <1>4
<1> QED
  BY <1>4, <1>5, <1>6 DEF RemoveAt, rest, front

\* Whatever the list holds, an insertion adds one element.
LEMMA InsertAtAdds ==
  ASSUME NEW S, NEW s \in Seq(S), NEW i \in 1 .. Len(s) + 1, NEW e \in S
  PROVE  ToSet(InsertAt(s, i, e)) \subseteq ToSet(s) \union {e}
<1> DEFINE t == InsertAt(s, i, e)
<1>1. /\ Len(t) = Len(s) + 1 /\ t \in Seq(S)
      /\ \A j \in 1 .. Len(s) + 1 :
           t[j] = IF j < i THEN s[j] ELSE IF j = i THEN e ELSE s[j - 1]
  BY InsertAtProperties
<1> HIDE DEF t
<1>2. Len(s) \in Nat /\ DOMAIN s = 1 .. Len(s)
      /\ DOMAIN t = 1 .. Len(s) + 1
  BY <1>1
<1>3. ASSUME NEW j \in 1 .. Len(s) + 1
      PROVE  t[j] \in ToSet(s) \union {e}
  <2>1. CASE j < i
    <3>1. j \in 1 .. Len(s)
      BY <1>2, <2>1
    <3> QED
      BY <1>1, <1>2, <2>1, <3>1 DEF ToSet
  <2>2. CASE j = i
    BY <1>1, <2>2
  <2>3. CASE j > i
    <3>1. j - 1 \in 1 .. Len(s) /\ ~(j < i) /\ j # i
      BY <1>2, <2>3
    <3>2. t[j] = s[j - 1]
      BY <1>1, <3>1
    <3> QED
      BY <1>2, <3>1, <3>2 DEF ToSet
  <2> QED
    BY <2>1, <2>2, <2>3
<1>4. ToSet(t) \subseteq ToSet(s) \union {e}
  BY <1>2, <1>3 DEF ToSet
<1> QED
  BY <1>4 DEF t

(***************************************************************************)
(* What insertion, removal and replacement do to the elements of a list    *)
(* without duplicates, which stays one.                                    *)
(***************************************************************************)
LEMMA InsertAtElements ==
  ASSUME NEW S, NEW s \in Seq(S), NEW i \in 1 .. Len(s) + 1, NEW e \in S,
         IsInjective(s), e \notin ToSet(s)
  PROVE  /\ ToSet(InsertAt(s, i, e)) = ToSet(s) \union {e}
         /\ IsInjective(InsertAt(s, i, e))
<1> DEFINE t == InsertAt(s, i, e)
<1>1. /\ t \in Seq(S) /\ Len(t) = Len(s) + 1
      /\ DOMAIN t = 1 .. Len(s) + 1 /\ DOMAIN s = 1 .. Len(s)
      /\ \A j \in 1 .. Len(s) + 1 :
           t[j] = IF j < i THEN s[j] ELSE IF j = i THEN e ELSE s[j - 1]
  BY InsertAtProperties
<1> HIDE DEF t
<1>2. \A j \in 1 .. Len(s) : s[j] = IF j < i THEN t[j] ELSE t[j + 1]
  BY <1>1
<1>3. t[i] = e /\ \A j \in 1 .. Len(s) : s[j] # e
  BY <1>1 DEF ToSet
<1>4. ToSet(t) \subseteq ToSet(s) \union {e}
  <2> SUFFICES ASSUME NEW j \in 1 .. Len(s) + 1
               PROVE  t[j] \in ToSet(s) \union {e}
    BY <1>1 DEF ToSet
  <2>1. CASE j < i
    <3>1. j \in 1 .. Len(s) /\ t[j] = s[j]
      BY <1>1, <2>1
    <3> QED
      BY <1>1, <3>1 DEF ToSet
  <2>2. CASE j = i
    BY <1>3, <2>2
  <2>3. CASE j > i
    <3>1. j - 1 \in 1 .. Len(s) /\ t[j] = s[j - 1]
      BY <1>1, <2>3
    <3> QED
      BY <1>1, <3>1 DEF ToSet
  <2> QED
    BY <2>1, <2>2, <2>3
<1>5. ToSet(s) \union {e} \subseteq ToSet(t)
  <2>1. e \in ToSet(t)
    BY <1>1, <1>3 DEF ToSet
  <2> SUFFICES ASSUME NEW j \in 1 .. Len(s) PROVE s[j] \in ToSet(t)
    BY <1>1, <2>1 DEF ToSet
  <2>2. j \in 1 .. Len(s) + 1 /\ j + 1 \in 1 .. Len(s) + 1
    OBVIOUS
  <2> QED
    BY <1>1, <1>2, <2>2 DEF ToSet
<1>6. IsInjective(t)
  <2>1. \A j, k \in 1 .. Len(s) : s[j] = s[k] => j = k
    BY <1>1 DEF IsInjective
  <2> SUFFICES ASSUME NEW j \in 1 .. Len(s) + 1, NEW k \in 1 .. Len(s) + 1,
                      t[j] = t[k]
               PROVE  j = k
    BY <1>1 DEF IsInjective
  <2>2. CASE j = i \/ k = i
    BY <1>1, <1>3, <2>2
  <2>3. CASE j # i /\ k # i
    <3> DEFINE back(x) == IF x < i THEN x ELSE x - 1
    <3>1. /\ back(j) \in 1 .. Len(s) /\ t[j] = s[back(j)]
          /\ back(k) \in 1 .. Len(s) /\ t[k] = s[back(k)]
      BY <1>1, <2>3
    <3>2. back(j) = back(k)
      BY <2>1, <3>1
    <3> QED
      BY <2>3, <3>2
  <2> QED
    BY <2>2, <2>3
<1> QED
  BY <1>4, <1>5, <1>6 DEF t

LEMMA RemoveAtElements ==
  ASSUME NEW S, NEW s \in Seq(S), NEW i \in 1 .. Len(s), IsInjective(s)
  PROVE  /\ ToSet(RemoveAt(s, i)) = ToSet(s) \ {s[i]}
         /\ IsInjective(RemoveAt(s, i))
<1> DEFINE t == RemoveAt(s, i)
<1>a. /\ t \in Seq(S) /\ Len(t) = Len(s) - 1
      /\ \A j \in 1 .. Len(s) - 1 : t[j] = IF j < i THEN s[j] ELSE s[j + 1]
  <2> HIDE DEF t
  <2>1. t = RemoveAt(s, i)
    BY DEF t
  <2> QED
    BY <2>1, RemoveAtProperties, Zenon
<1> HIDE DEF t
<1>b. DOMAIN t = 1 .. Len(s) - 1 /\ DOMAIN s = 1 .. Len(s)
  BY <1>a
<1>1. /\ t \in Seq(S) /\ Len(t) = Len(s) - 1
      /\ DOMAIN t = 1 .. Len(s) - 1 /\ DOMAIN s = 1 .. Len(s)
      /\ \A j \in 1 .. Len(s) - 1 : t[j] = IF j < i THEN s[j] ELSE s[j + 1]
  BY <1>a, <1>b
<1>2. \A j \in 1 .. Len(s) : j # i => s[j] = IF j < i THEN t[j] ELSE t[j - 1]
  BY <1>1
<1>3. \A j, k \in 1 .. Len(s) : s[j] = s[k] => j = k
  BY <1>1 DEF IsInjective
<1>4. ToSet(t) \subseteq ToSet(s) \ {s[i]}
  BY <1>1, <1>3 DEF ToSet
<1>5. ToSet(s) \ {s[i]} \subseteq ToSet(t)
  <2> SUFFICES ASSUME NEW j \in 1 .. Len(s), s[j] # s[i]
               PROVE  s[j] \in ToSet(t)
    BY <1>1 DEF ToSet
  <2>1. j < i => j \in 1 .. Len(s) - 1
    OBVIOUS
  <2>2. j > i => j - 1 \in 1 .. Len(s) - 1
    OBVIOUS
  <2>3. \A k \in 1 .. Len(s) - 1 : t[k] \in ToSet(t)
    BY <1>1 DEF ToSet
  <2> QED
    BY <1>2, <2>1, <2>2, <2>3
<1>6. IsInjective(t)
  BY <1>1, <1>3 DEF IsInjective
<1> QED
  BY <1>4, <1>5, <1>6 DEF t

LEMMA ReplaceAtElements ==
  ASSUME NEW S, NEW s \in Seq(S), NEW i \in 1 .. Len(s), NEW e \in S,
         IsInjective(s), e \notin ToSet(s)
  PROVE  /\ [s EXCEPT ![i] = e] \in Seq(S)
         /\ Len([s EXCEPT ![i] = e]) = Len(s)
         /\ ToSet([s EXCEPT ![i] = e]) = (ToSet(s) \ {s[i]}) \union {e}
         /\ IsInjective([s EXCEPT ![i] = e])
<1> DEFINE t == [s EXCEPT ![i] = e]
<1>1. /\ t \in Seq(S) /\ Len(t) = Len(s)
      /\ DOMAIN t = 1 .. Len(s) /\ DOMAIN s = 1 .. Len(s)
      /\ \A j \in 1 .. Len(s) : t[j] = IF j = i THEN e ELSE s[j]
  BY ExceptSeq
<1> HIDE DEF t
<1>2. \A j, k \in 1 .. Len(s) : s[j] = s[k] => j = k
  BY <1>1 DEF IsInjective
<1>3. \A j \in 1 .. Len(s) : s[j] # e
  BY <1>1 DEF ToSet
<1>4. ToSet(t) = (ToSet(s) \ {s[i]}) \union {e}
  BY <1>1, <1>2, <1>3 DEF ToSet
<1>5. IsInjective(t)
  BY <1>1, <1>2, <1>3 DEF IsInjective
<1> QED
  BY <1>1, <1>4, <1>5 DEF t
=============================================================================
