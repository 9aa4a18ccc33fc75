------------------------------ MODULE SeqLemmas ------------------------------
(***************************************************************************)
(* Facts about lists, those without duplicates above all, and about the    *)
(* least of a set of numbers, for the lists of the drivers and the tools.  *)
(***************************************************************************)
EXTENDS Naturals, Sequences, SequencesExt, SequenceTheorems, WellFoundedInduction, TLAPS

\* No element stands twice on the list q.
Distinct(q) == \A i, j \in 1..Len(q) : q[i] = q[j] => i = j

\* Among numbers there is a least one.
LEMMA Smallest ==
  ASSUME NEW S \in SUBSET Nat, S # {}
  PROVE  \E i \in S : \A j \in S : i <= j
<1>1. PICK i \in S : \A j \in S : ~(<<j, i>> \in OpToRel(<, Nat))
  BY NatLessThanWellFounded, WFMin
<1>2. \A j \in S : ~(j < i)
  BY <1>1 DEF OpToRel
<1> QED
  BY <1>2

\* What RemoveAt returns, element by element.
LEMMA RemoveAtElements ==
  ASSUME NEW S, NEW q \in Seq(S), NEW i \in 1..Len(q)
  PROVE  /\ RemoveAt(q, i) \in Seq(S)
         /\ Len(RemoveAt(q, i)) = Len(q) - 1
         /\ \A j \in 1..(Len(q) - 1) : RemoveAt(q, i)[j] = IF j < i THEN q[j] ELSE q[j + 1]
<1> DEFINE front == SubSeq(q, 1, i - 1)
           back == SubSeq(q, i + 1, Len(q))
<1>1. front \in Seq(S) /\ Len(front) = i - 1 /\ \A j \in 1..(i - 1) : front[j] = q[j]
  OBVIOUS
<1>2. back \in Seq(S) /\ Len(back) = Len(q) - i /\ \A j \in 1..(Len(q) - i) : back[j] = q[i + j]
  OBVIOUS
<1>3. RemoveAt(q, i) = front \o back
  BY DEF RemoveAt
<1> HIDE DEF front, back
<1>4. /\ front \o back \in Seq(S)
      /\ Len(front \o back) = Len(q) - 1
      /\ \A j \in 1..(Len(q) - 1) :
           (front \o back)[j] = IF j < i THEN front[j] ELSE back[j - (i - 1)]
  <2>1. /\ front \o back \in Seq(S)
        /\ Len(front \o back) = Len(front) + Len(back)
        /\ \A j \in 1..(Len(front) + Len(back)) :
             (front \o back)[j] = IF j <= Len(front) THEN front[j] ELSE back[j - Len(front)]
    BY <1>1, <1>2, ConcatProperties
  <2>2. Len(front) = i - 1 /\ Len(back) = Len(q) - i /\ Len(q) \in Nat /\ i \in 1..Len(q)
    BY <1>1, <1>2
  <2> HIDE <1>1, <1>2
  <2> QED
    BY <2>1, <2>2
<1>5. ASSUME NEW j \in 1..(Len(q) - 1)
      PROVE  (front \o back)[j] = IF j < i THEN q[j] ELSE q[j + 1]
  <2>1. CASE j < i
    BY <2>1, <1>1, <1>4
  <2>2. CASE ~(j < i)
    <3>1. j - (i - 1) \in 1..(Len(q) - i) /\ i + (j - (i - 1)) = j + 1
      BY <2>2
    <3> QED
      BY <2>2, <3>1, <1>2, <1>4
  <2> QED
    BY <2>1, <2>2
<1> QED
  BY <1>3, <1>4, <1>5

\* Taking an entry off a list without duplicates takes its element off.
LEMMA RemoveAtDistinct ==
  ASSUME NEW S, NEW q \in Seq(S), NEW i \in 1..Len(q), Distinct(q)
  PROVE  /\ Distinct(RemoveAt(q, i))
         /\ ToSet(RemoveAt(q, i)) = ToSet(q) \ {q[i]}
<1> DEFINE p == RemoveAt(q, i)
           n == Len(q)
<1>1. /\ p \in Seq(S)
      /\ Len(p) = n - 1
      /\ \A j \in 1..(n - 1) : p[j] = IF j < i THEN q[j] ELSE q[j + 1]
  BY RemoveAtElements
<1>2. n \in Nat /\ i \in 1..n
  OBVIOUS
<1> HIDE DEF p
<1>3. Distinct(p)
  BY <1>1, <1>2 DEF Distinct
<1>4. ASSUME NEW e \in ToSet(p)
      PROVE  e \in ToSet(q) \ {q[i]}
  <2>1. PICK j \in 1..(n - 1) : p[j] = e
    BY <1>1 DEF ToSet
  <2>2. CASE j < i
    BY SMTT(30), <1>1, <1>2, <2>1, <2>2 DEF ToSet, Distinct
  <2>3. CASE ~(j < i)
    BY SMTT(30), <1>1, <1>2, <2>1, <2>3 DEF ToSet, Distinct
  <2> QED
    BY <2>2, <2>3
<1>5. ASSUME NEW e \in ToSet(q) \ {q[i]}
      PROVE  e \in ToSet(p)
  <2>1. PICK j \in 1..n : q[j] = e
    BY DEF ToSet
  <2>2. CASE j < i
    <3>1. j \in 1..(n - 1) /\ p[j] = e
      BY <1>1, <1>2, <2>1, <2>2
    <3> QED
      BY <3>1, <1>1 DEF ToSet
  <2>3. CASE j > i
    <3>1. j - 1 \in 1..(n - 1) /\ p[j - 1] = e
      BY <1>1, <1>2, <2>1, <2>3
    <3> QED
      BY <3>1, <1>1 DEF ToSet
  <2>4. j # i
    BY <2>1
  <2> QED
    BY <2>2, <2>3, <2>4, <1>2
<1> QED
  BY <1>3, <1>4, <1>5 DEF p

\* Appending an element that is not there.
LEMMA AppendDistinct ==
  ASSUME NEW S, NEW q \in Seq(S), NEW e \in S, Distinct(q), e \notin ToSet(q)
  PROVE  /\ Distinct(Append(q, e))
         /\ ToSet(Append(q, e)) = ToSet(q) \cup {e}
<1>1. /\ Append(q, e) \in Seq(S)
      /\ Len(Append(q, e)) = Len(q) + 1
      /\ Append(q, e)[Len(q) + 1] = e
      /\ \A j \in 1..Len(q) : Append(q, e)[j] = q[j]
  OBVIOUS
<1>2. \A j \in 1..Len(q) : q[j] # e
  BY DEF ToSet
<1>3. Len(q) \in Nat /\ \A j \in 1..(Len(q) + 1) : j \in 1..Len(q) \/ j = Len(q) + 1
  OBVIOUS
<1>4. Distinct(Append(q, e))
  BY <1>1, <1>2, <1>3 DEF Distinct
<1>5. ToSet(Append(q, e)) = {Append(q, e)[j] : j \in 1..(Len(q) + 1)}
  BY <1>1 DEF ToSet
<1>6. ToSet(q) = {q[j] : j \in 1..Len(q)}
  BY DEF ToSet
<1> QED
  BY <1>1, <1>3, <1>4, <1>5, <1>6

\* Wherever a and b stand on the list q, a stands before b.
StandsBefore(q, a, b) == \A i, j \in 1..Len(q) : q[i] = a /\ q[j] = b => i < j

\* Taking an entry off a list leaves the others in their order.
LEMMA RemoveAtBefore ==
  ASSUME NEW S, NEW q \in Seq(S), NEW k \in 1..Len(q), NEW a, NEW b, StandsBefore(q, a, b)
  PROVE  StandsBefore(RemoveAt(q, k), a, b)
<1> DEFINE p == RemoveAt(q, k)
           n == Len(q)
<1>1. /\ Len(p) = n - 1
      /\ \A j \in 1..(n - 1) : p[j] = IF j < k THEN q[j] ELSE q[j + 1]
  BY RemoveAtElements
<1>2. n \in Nat /\ k \in 1..n
  OBVIOUS
<1> HIDE DEF p
<1>3. StandsBefore(p, a, b)
  BY <1>1, <1>2 DEF StandsBefore
<1> QED
  BY <1>3 DEF p

\* Appending b after everything, a included.
LEMMA AppendBefore ==
  ASSUME NEW S, NEW q \in Seq(S), NEW a, NEW b \in S, a # b, b \notin ToSet(q)
  PROVE  StandsBefore(Append(q, b), a, b)
<1>1. /\ Len(Append(q, b)) = Len(q) + 1
      /\ Append(q, b)[Len(q) + 1] = b
      /\ \A j \in 1..Len(q) : Append(q, b)[j] = q[j]
  OBVIOUS
<1>2. \A j \in 1..Len(q) : q[j] # b
  BY DEF ToSet
<1>3. Len(q) \in Nat /\ \A j \in 1..(Len(q) + 1) : j \in 1..Len(q) \/ j = Len(q) + 1
  OBVIOUS
<1> QED
  BY <1>1, <1>2, <1>3 DEF StandsBefore

\* Appending an element other than b leaves what stands before b.
LEMMA AppendOtherBefore ==
  ASSUME NEW S, NEW q \in Seq(S), NEW a, NEW b, NEW e \in S, e # a, e # b, StandsBefore(q, a, b)
  PROVE  StandsBefore(Append(q, e), a, b)
<1>1. /\ Len(Append(q, e)) = Len(q) + 1
      /\ Append(q, e)[Len(q) + 1] = e
      /\ \A j \in 1..Len(q) : Append(q, e)[j] = q[j]
  OBVIOUS
<1>2. Len(q) \in Nat /\ \A j \in 1..(Len(q) + 1) : j \in 1..Len(q) \/ j = Len(q) + 1
  OBVIOUS
<1> QED
  BY <1>1, <1>2 DEF StandsBefore

\* t is s without its first element.
IsTail(t, s) ==
  /\ Len(s) \in Nat \ {0} /\ Len(t) = Len(s) - 1 /\ \A i \in 1..Len(t) : t[i] = s[i + 1]

\* What is left of a sequence once its first n elements are taken.
LEMMA SubSeqIsTail ==
  ASSUME NEW S, NEW s \in Seq(S), NEW n \in 1..Len(s)
  PROVE  /\ SubSeq(s, n + 1, Len(s)) \in Seq(S)
         /\ n = 1 => IsTail(SubSeq(s, n + 1, Len(s)), s)
         /\ Head(s) = s[1]
<1>1. n \in Nat /\ n + 1 \in Nat /\ Len(s) \in Nat /\ n <= Len(s) /\ Len(s) # 0
  OBVIOUS
<1>2. SubSeq(s, n + 1, Len(s)) \in Seq(S) /\ Head(s) = s[1]
  OBVIOUS
<1>3. ASSUME n = 1 PROVE IsTail(SubSeq(s, n + 1, Len(s)), s)
  <2>1. n + 1 = 2 /\ Len(s) \in Nat \ {0}
    BY <1>1, <1>3
  <2>2. /\ Len(SubSeq(s, 2, Len(s))) = Len(s) - 1
        /\ \A i \in 1..(Len(s) - 1) : SubSeq(s, 2, Len(s))[i] = s[i + 1]
    <3>1. /\ 2 \in 1..(Len(s) + 1) /\ Len(s) \in 1..Len(s)
          /\ Len(s) - 2 + 1 = Len(s) - 1
          /\ \A i \in 1..(Len(s) - 1) : 2 + i - 1 = i + 1
      BY <2>1
    <3>2. /\ Len(SubSeq(s, 2, Len(s))) = Len(s) - 2 + 1
          /\ \A i \in 1..(Len(s) - 2 + 1) : SubSeq(s, 2, Len(s))[i] = s[2 + i - 1]
      BY <2>1, <3>1, SubSeqProperties
    <3> QED
      BY <3>1, <3>2
  <2> QED
    BY <2>1, <2>2 DEF IsTail
<1> QED
  BY <1>2, <1>3

\* Tail leaves all but the first element.
LEMMA TailIsTail ==
  ASSUME NEW S, NEW s \in Seq(S), s # <<>>
  PROVE  Tail(s) \in Seq(S) /\ IsTail(Tail(s), s) /\ Head(s) = s[1]
<1>1. Tail(s) \in Seq(S) /\ Head(s) = s[1] /\ Len(s) \in Nat \ {0} /\ Len(Tail(s)) = Len(s) - 1
  OBVIOUS
<1>2. \A i \in 1..Len(Tail(s)) : Tail(s)[i] = s[i + 1]
  OBVIOUS
<1> QED
  BY <1>1, <1>2 DEF IsTail

\* Tail removes the first element.
LEMMA TailRemoves ==
  ASSUME NEW S, NEW s \in Seq(S), s # <<>>
  PROVE  1 \in 1..Len(s) /\ Head(s) = s[1] /\ Tail(s) = RemoveAt(s, 1)
<1>1. 1 \in 1..Len(s) /\ Head(s) = s[1] /\ Len(s) \in Nat
  OBVIOUS
<1>2. /\ RemoveAt(s, 1) \in Seq(S) /\ Len(RemoveAt(s, 1)) = Len(s) - 1
      /\ \A j \in 1..(Len(s) - 1) : RemoveAt(s, 1)[j] = IF j < 1 THEN s[j] ELSE s[j + 1]
  BY <1>1, RemoveAtElements
<1>3. /\ Tail(s) \in Seq(S) /\ Len(Tail(s)) = Len(s) - 1
      /\ \A j \in 1..(Len(s) - 1) : Tail(s)[j] = s[j + 1]
  BY TailIsTail DEF IsTail
<1>4. \A j \in 1..(Len(s) - 1) : ~(j < 1)
  BY <1>1
<1>5. \A j \in 1..Len(Tail(s)) : Tail(s)[j] = RemoveAt(s, 1)[j]
  BY <1>2, <1>3, <1>4
<1> QED
  BY <1>1, <1>2, <1>3, <1>5, SeqEqual

\* t is s with c after it.
IsConcat(t, s, c) ==
  /\ Len(s) \in Nat /\ Len(c) \in Nat /\ Len(t) = Len(s) + Len(c)
  /\ \A i \in 1..Len(s) : t[i] = s[i]
  /\ \A i \in 1..Len(c) : t[Len(s) + i] = c[i]
  /\ \A i \in 1..Len(t) : i \in 1..Len(s) \/ \E k \in 1..Len(c) : i = Len(s) + k

\* Concatenation appends each element at its place.
LEMMA ConcatIsConcat ==
  ASSUME NEW S, NEW s \in Seq(S), NEW c \in Seq(S)
  PROVE  s \o c \in Seq(S) /\ IsConcat(s \o c, s, c)
<1>1. /\ s \o c \in Seq(S) /\ Len(s \o c) = Len(s) + Len(c)
      /\ Len(s) \in Nat /\ Len(c) \in Nat
  OBVIOUS
<1>2. \A i \in 1..(Len(s) + Len(c)) : (s \o c)[i] = IF i <= Len(s) THEN s[i] ELSE c[i - Len(s)]
  OBVIOUS
<1>3. \A i \in 1..Len(s) : (s \o c)[i] = s[i]
  BY <1>1, <1>2
<1>4. ASSUME NEW i \in 1..Len(c) PROVE (s \o c)[Len(s) + i] = c[i]
  <2>1. Len(s) + i \in 1..(Len(s) + Len(c)) /\ ~(Len(s) + i <= Len(s)) /\ Len(s) + i - Len(s) = i
    BY <1>1
  <2> QED
    BY <1>2, <2>1
<1>5. ASSUME NEW i \in 1..(Len(s) + Len(c)), i \notin 1..Len(s)
      PROVE  \E k \in 1..Len(c) : i = Len(s) + k
  <2>1. i - Len(s) \in 1..Len(c) /\ i = Len(s) + (i - Len(s))
    BY <1>1, <1>5
  <2> QED
    BY <2>1
<1> QED
  BY <1>1, <1>3, <1>4, <1>5 DEF IsConcat

==============================================================================
