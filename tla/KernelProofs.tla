---------------------------- MODULE KernelProofs ----------------------------
(***************************************************************************)
(* What the list operations of KList do to the members of a duplicate-free *)
(* sequence; and every kernel function of module Kernel keeps the          *)
(* scheduler's data consistent (KernelInv), for any threads, priorities    *)
(* and suspend lists.                                                      *)
(***************************************************************************)
EXTENDS Kernel, SequenceTheorems, WellFoundedInduction, TLAPS

-----------------------------------------------------------------------------
(* Lists *)

(***************************************************************************)
(* The lowest member of a set of priorities, which is what the bitmap      *)
(* search __rt_ffs finds, is in the set.                                   *)
(***************************************************************************)
LEMMA MinInSet ==
  ASSUME NEW T, T \subseteq Nat, T # {}
  PROVE  Min(T) \in T /\ \A y \in T : Min(T) <= y
  <1>1. PICK x \in T : \A y \in T : ~ (<<y, x>> \in OpToRel(<, Nat))
    BY NatLessThanWellFounded, WFMin
  <1>2. ASSUME NEW y \in T PROVE x <= y
    <2>1. x \in Nat /\ y \in Nat
      OBVIOUS
    <2>2. y < x => <<y, x>> \in OpToRel(<, Nat)
      BY <2>1 DEF OpToRel
    <2>3. ~ (<<y, x>> \in OpToRel(<, Nat))
      BY <1>1
    <2>4. ~ (y < x)
      BY <2>2, <2>3
    <2>. QED  BY <2>1, <2>4
  <1>. QED  BY <1>2 DEF Min

(***************************************************************************)
(* Taking out the node at position m moves those behind it one up.         *)
(***************************************************************************)
LEMMA RemoveAtElements ==
  ASSUME NEW S, NEW s \in Seq(S), NEW m \in 1 .. Len(s)
  PROVE  /\ RemoveAt(s, m) \in Seq(S)
         /\ Len(RemoveAt(s, m)) = Len(s) - 1
         /\ \A i \in 1 .. Len(s)-1 : RemoveAt(s, m)[i] = IF i < m THEN s[i] ELSE s[i+1]
  <1> DEFINE r == SubSeq(s, 1, m-1) \o SubSeq(s, m+1, Len(s))
  <1>1. /\ SubSeq(s, 1, m-1) \in Seq(S)
        /\ Len(SubSeq(s, 1, m-1)) = m - 1
        /\ \A i \in 1 .. m-1 : SubSeq(s, 1, m-1)[i] = s[i]
    BY LenProperties, ElementOfSeq, SubSeqProperties
  <1>2. /\ SubSeq(s, m+1, Len(s)) \in Seq(S)
        /\ Len(SubSeq(s, m+1, Len(s))) = Len(s) - m
        /\ \A i \in 1 .. Len(s) - m : SubSeq(s, m+1, Len(s))[i] = s[m+i]
    BY LenProperties, ElementOfSeq, SubSeqProperties
  <1>3. /\ r \in Seq(S)
        /\ Len(r) = Len(s) - 1
        /\ \A i \in 1 .. Len(s)-1 : r[i] = IF i < m THEN s[i] ELSE s[i+1]
    <2> DEFINE front == SubSeq(s, 1, m-1)
               back  == SubSeq(s, m+1, Len(s))
    <2>1. /\ front \in Seq(S) /\ Len(front) = m - 1
          /\ \A i \in 1 .. m-1 : front[i] = s[i]
      BY <1>1
    <2>2. /\ back \in Seq(S) /\ Len(back) = Len(s) - m
          /\ \A i \in 1 .. Len(s)-m : back[i] = s[m+i]
      BY <1>2
    <2>3. Len(s) \in Nat
      BY LenProperties
    <2> HIDE DEF front, back
    <2>4. /\ front \o back \in Seq(S)
          /\ Len(front \o back) = Len(front) + Len(back)
          /\ \A i \in 1 .. Len(front) + Len(back) :
               (front \o back)[i] = IF i <= Len(front) THEN front[i] ELSE back[i - Len(front)]
      BY <2>1, <2>2, ConcatProperties
    <2>5. ASSUME NEW i \in 1 .. Len(s)-1
          PROVE  (front \o back)[i] = IF i < m THEN s[i] ELSE s[i+1]
      <3>1. CASE i < m
        BY <3>1, <2>1, <2>2, <2>3, <2>4
      <3>2. CASE ~(i < m)
        <4>1. i - (m-1) \in 1 .. Len(s)-m /\ m + (i - (m-1)) = i+1
          BY <3>2, <2>3
        <4>. QED  BY <4>1, <3>2, <2>1, <2>2, <2>3, <2>4
      <3>. QED  BY <3>1, <3>2
    <2>6. front \o back \in Seq(S) /\ Len(front \o back) = Len(s) - 1
      BY <2>1, <2>2, <2>3, <2>4
    <2>. QED  BY <2>5, <2>6 DEF front, back
  <1> HIDE DEF r
  <1>4. r = RemoveAt(s, m)
    BY DEF r, RemoveAt
  <1>. QED  BY <1>3, <1>4

(***************************************************************************)
(* It takes out exactly its element.                                       *)
(***************************************************************************)
LEMMA RemoveAtFacts ==
  ASSUME NEW S, NEW s \in Seq(S), IsInjective(s), NEW m \in 1 .. Len(s)
  PROVE  /\ RemoveAt(s, m) \in Seq(S)
         /\ IsInjective(RemoveAt(s, m))
         /\ Range(RemoveAt(s, m)) = Range(s) \ {s[m]}
  <1> DEFINE r == RemoveAt(s, m)
  <1> HIDE DEF r
  <1>3. /\ r \in Seq(S)
        /\ Len(r) = Len(s) - 1
        /\ \A i \in 1 .. Len(s)-1 : r[i] = IF i < m THEN s[i] ELSE s[i+1]
    BY RemoveAtElements DEF r
  <1>4. DOMAIN r = 1 .. Len(s)-1 /\ DOMAIN s = 1 .. Len(s) /\ Len(s) \in Nat
    BY <1>3, LenProperties
  <1>5. IsInjective(r)
    <2> DEFINE from(i) == IF i < m THEN i ELSE i + 1
    <2>1. \A i \in 1 .. Len(s)-1 : r[i] = s[from(i)] /\ from(i) \in 1 .. Len(s)
      BY <1>3, <1>4
    <2>2. \A a, b \in 1 .. Len(s)-1 : from(a) = from(b) => a = b
      BY <1>3, <1>4
    <2> HIDE DEF from
    <2>3. ASSUME NEW a \in 1 .. Len(s)-1, NEW b \in 1 .. Len(s)-1, r[a] = r[b]
          PROVE  a = b
      <3>1. from(a) = from(b)
        BY <2>1, <2>3, <1>4 DEF IsInjective
      <3>. QED  BY <3>1, <2>2
    <2>. QED  BY <2>3, <1>4 DEF IsInjective
  <1>6. ASSUME NEW i \in DOMAIN r PROVE r[i] \in Range(s) \ {s[m]}
    <2>1. CASE i < m
      BY <2>1, <1>3, <1>4 DEF IsInjective, Range
    <2>2. CASE ~(i < m)
      <3>1. r[i] = s[i+1] /\ i+1 \in 1 .. Len(s) /\ i+1 # m
        BY <2>2, <1>3, <1>4
      <3>. QED  BY <3>1, <1>4 DEF IsInjective, Range
    <2>. QED  BY <2>1, <2>2
  <1>7. ASSUME NEW x \in Range(s), x # s[m] PROVE x \in Range(r)
    <2>1. PICK i \in 1 .. Len(s) : s[i] = x
      BY <1>4 DEF Range
    <2>2. CASE i < m
      BY <2>2, <2>1, <1>3, <1>4 DEF Range
    <2>3. CASE i > m
      <3>1. i - 1 \in 1 .. Len(s)-1 /\ ~(i - 1 < m) /\ (i - 1) + 1 = i
        BY <2>3, <1>4
      <3>2. r[i-1] = x
        BY <3>1, <2>1, <1>3
      <3>. QED  BY <3>1, <3>2, <1>4 DEF Range
    <2>. QED  BY <2>1, <2>2, <2>3, <1>7, <1>4
  <1>8. Range(r) = Range(s) \ {s[m]}
    BY <1>6, <1>7 DEF Range
  <1>. QED  BY <1>3, <1>5, <1>8 DEF r

(***************************************************************************)
(* rt_list_remove takes a thread out of a list and touches no other.       *)
(***************************************************************************)
LEMMA UnlinkedFacts ==
  ASSUME NEW S, NEW s \in Seq(S), IsInjective(s), NEW e
  PROVE  /\ Unlinked(s, e) \in Seq(S)
         /\ IsInjective(Unlinked(s, e))
         /\ Range(Unlinked(s, e)) = Range(s) \ {e}
  <1>1. CASE e \in Range(s)
    <2> DEFINE m == CHOOSE i \in DOMAIN s : s[i] = e
    <2>1. m \in 1 .. Len(s) /\ s[m] = e
      BY <1>1, LenProperties DEF Range
    <2> HIDE DEF m
    <2>2. /\ RemoveAt(s, m) \in Seq(S)
          /\ IsInjective(RemoveAt(s, m))
          /\ Range(RemoveAt(s, m)) = Range(s) \ {e}
      BY <2>1, RemoveAtFacts
    <2>. QED  BY <1>1, <2>2 DEF Unlinked, m
  <1>2. CASE e \notin Range(s)
    BY <1>2 DEF Unlinked
  <1>. QED  BY <1>1, <1>2

(***************************************************************************)
(* The list stays a list, whatever stands in it.                           *)
(***************************************************************************)
LEMMA UnlinkedType ==
  ASSUME NEW S, NEW s \in Seq(S), NEW e
  PROVE  Unlinked(s, e) \in Seq(S)
  <1>1. CASE e \in Range(s)
    <2> DEFINE m == CHOOSE i \in DOMAIN s : s[i] = e
    <2>1. m \in 1 .. Len(s)
      BY <1>1, LenProperties DEF Range
    <2> HIDE DEF m
    <2>2. RemoveAt(s, m) \in Seq(S)
      BY <2>1, RemoveAtElements
    <2>. QED  BY <1>1, <2>2 DEF Unlinked, m
  <1>2. CASE e \notin Range(s)
    BY <1>2 DEF Unlinked
  <1>. QED  BY <1>1, <1>2

(***************************************************************************)
(* Linking a node at position m moves those from there on one down.        *)
(***************************************************************************)
Linked(r, s, m, e) ==
  /\ Len(r) = Len(s) + 1
  /\ \A i \in 1 .. Len(s)+1 : r[i] = IF i < m THEN s[i] ELSE IF i = m THEN e ELSE s[i-1]

LEMMA InsertAtElements ==
  ASSUME NEW S, NEW s \in Seq(S), NEW e \in S, NEW m \in 1 .. Len(s) + 1
  PROVE  InsertAt(s, m, e) \in Seq(S) /\ Linked(InsertAt(s, m, e), s, m, e)
  <1> DEFINE front == SubSeq(s, 1, m-1) \o <<e>>
             r == front \o SubSeq(s, m, Len(s))
  <1>1. /\ SubSeq(s, 1, m-1) \in Seq(S)
        /\ Len(SubSeq(s, 1, m-1)) = m - 1
        /\ \A i \in 1 .. m-1 : SubSeq(s, 1, m-1)[i] = s[i]
    BY LenProperties, ElementOfSeq, SubSeqProperties
  <1>2. /\ SubSeq(s, m, Len(s)) \in Seq(S)
        /\ Len(SubSeq(s, m, Len(s))) = Len(s) - m + 1
        /\ \A i \in 1 .. Len(s) - m + 1 : SubSeq(s, m, Len(s))[i] = s[m+i-1]
    BY LenProperties, ElementOfSeq, SubSeqProperties
  <1>3. <<e>> \in Seq(S) /\ Len(<<e>>) = 1 /\ <<e>>[1] = e
    OBVIOUS
  <1>4. /\ front \in Seq(S)
        /\ Len(front) = m
        /\ \A i \in 1 .. m : front[i] = IF i < m THEN s[i] ELSE e
    BY <1>1, <1>3, LenProperties, ConcatProperties
  <1> HIDE DEF front
  <1>5. /\ r \in Seq(S)
        /\ Len(r) = Len(s) + 1
        /\ \A i \in 1 .. Len(s)+1 :
             r[i] = IF i < m THEN s[i] ELSE IF i = m THEN e ELSE s[i-1]
    BY <1>2, <1>4, LenProperties, ConcatProperties
  <1> HIDE DEF r
  <1>6. r = InsertAt(s, m, e)
    BY DEF r, front, InsertAt
  <1>. QED  BY <1>5, <1>6 DEF Linked

(***************************************************************************)
(* Linking a thread that is not in the list at position m adds it once.    *)
(***************************************************************************)
LEMMA InsertAtFacts ==
  ASSUME NEW S, NEW s \in Seq(S), IsInjective(s), NEW e \in S,
         e \notin Range(s), NEW m \in 1 .. Len(s) + 1
  PROVE  /\ InsertAt(s, m, e) \in Seq(S)
         /\ IsInjective(InsertAt(s, m, e))
         /\ Range(InsertAt(s, m, e)) = Range(s) \cup {e}
  <1> DEFINE r == InsertAt(s, m, e)
  <1>4. InsertAt(s, m, e) \in Seq(S) /\ Linked(InsertAt(s, m, e), s, m, e)
    BY InsertAtElements
  <1> HIDE DEF r
  <1>5. /\ r \in Seq(S)
        /\ Len(r) = Len(s) + 1
        /\ \A i \in 1 .. Len(s)+1 :
             r[i] = IF i < m THEN s[i] ELSE IF i = m THEN e ELSE s[i-1]
    BY <1>4 DEF r, Linked
  <1>6. DOMAIN r = 1 .. Len(s)+1 /\ DOMAIN s = 1 .. Len(s) /\ Len(s) \in Nat
    BY <1>5, LenProperties
  <1>7. \A i \in 1 .. Len(s) : s[i] # e
    BY <1>6 DEF Range
  <1>8. ASSUME NEW i \in 1 .. Len(s)+1, NEW j \in 1 .. Len(s)+1, r[i] = r[j]
        PROVE  i = j
    <2> DEFINE at(l) == IF l < m THEN l ELSE l - 1
    <2>1. ASSUME NEW l \in 1 .. Len(s)+1, l # m
          PROVE  at(l) \in 1 .. Len(s) /\ r[l] = s[at(l)] /\ r[l] # e
      <3>1. at(l) \in 1 .. Len(s)
        BY <2>1, <1>6
      <3>2. r[l] = s[at(l)]
        BY <2>1, <1>5
      <3>. QED  BY <3>1, <3>2, <1>7
    <2>2. r[m] = e
      BY <1>5
    <2>3. CASE i # m /\ j # m
      <3>1. at(i) = at(j)
        BY <2>1, <2>3, <1>8, <1>6 DEF IsInjective
      <3>. QED  BY <3>1, <2>3, <1>6
    <2>. QED  BY <2>1, <2>2, <2>3, <1>8
  <1>9. Range(r) \subseteq Range(s) \cup {e}
    BY <1>5, <1>6 DEF Range
  <1>10. e \in Range(r)
    BY <1>5, <1>6 DEF Range
  <1>11. ASSUME NEW x \in Range(s) PROVE x \in Range(r)
    <2>1. PICK i \in 1 .. Len(s) : s[i] = x
      BY <1>6 DEF Range
    <2>2. CASE i < m
      <3>1. i \in 1 .. Len(s)+1 /\ r[i] = x
        BY <2>2, <2>1, <1>5, <1>6
      <3>. QED  BY <3>1, <1>6 DEF Range
    <2>3. CASE i >= m
      <3>1. i + 1 \in 1 .. Len(s)+1 /\ ~(i + 1 < m) /\ i + 1 # m /\ (i + 1) - 1 = i
        BY <2>3, <1>6
      <3>2. r[i+1] = x
        BY <3>1, <2>1, <1>5
      <3>. QED  BY <3>1, <3>2, <1>6 DEF Range
    <2>. QED  BY <2>2, <2>3, <1>6
  <1>. QED
    <2>1. IsInjective(r)
      BY <1>8, <1>6 DEF IsInjective
    <2>. QED  BY <1>5, <2>1, <1>9, <1>10, <1>11 DEF r

(***************************************************************************)
(* Linking a node last is linking it behind all the others.                *)
(***************************************************************************)
LEMMA AppendIsInsertAt ==
  ASSUME NEW S, NEW s \in Seq(S), NEW e \in S
  PROVE  Append(s, e) = InsertAt(s, Len(s)+1, e)
  <1>1. SubSeq(s, 1, Len(s)) = s /\ SubSeq(s, Len(s)+1, Len(s)) = << >>
    BY SubSeqFull, SubSeqEmpty, LenProperties
  <1>2. <<e>> \in Seq(S) /\ s \o <<e>> \in Seq(S)
    BY ConcatProperties
  <1>3. (Len(s) + 1) - 1 = Len(s)
    BY LenProperties
  <1>4. InsertAt(s, Len(s)+1, e) = (s \o <<e>>) \o << >>
    BY <1>1, <1>3 DEF InsertAt
  <1>5. InsertAt(s, Len(s)+1, e) = s \o <<e>>
    BY <1>4, <1>2, ConcatEmptySeq
  <1>. QED  BY <1>5, AppendIsConcat

(***************************************************************************)
(* rt_list_insert_before and rt_list_insert_after on the list head.        *)
(***************************************************************************)
LEMMA InsertedFacts ==
  ASSUME NEW S, NEW s \in Seq(S), IsInjective(s), NEW e \in S, e \notin Range(s)
  PROVE  /\ InsertedBefore(s, e) \in Seq(S)
         /\ IsInjective(InsertedBefore(s, e))
         /\ Range(InsertedBefore(s, e)) = Range(s) \cup {e}
         /\ InsertedAfter(s, e) \in Seq(S)
         /\ IsInjective(InsertedAfter(s, e))
         /\ Range(InsertedAfter(s, e)) = Range(s) \cup {e}
  <1>1. SubSeq(s, 1, Len(s)) = s /\ SubSeq(s, 1, 0) = << >>
    BY SubSeqFull, SubSeqEmpty, LenProperties
  <1>2. <<e>> \in Seq(S)
    OBVIOUS
  <1>4. InsertAt(s, 1, e) = <<e>> \o s
    BY <1>1, <1>2, ConcatEmptySeq, LenProperties DEF InsertAt
  <1>6. Len(s) + 1 \in 1 .. Len(s) + 1 /\ 1 \in 1 .. Len(s) + 1
    BY LenProperties
  <1> DEFINE b == InsertAt(s, Len(s)+1, e)
             a == InsertAt(s, 1, e)
  <1>7. b \in Seq(S) /\ IsInjective(b) /\ Range(b) = Range(s) \cup {e}
    BY <1>6, InsertAtFacts
  <1>8. a \in Seq(S) /\ IsInjective(a) /\ Range(a) = Range(s) \cup {e}
    BY <1>6, InsertAtFacts
  <1>9. InsertedBefore(s, e) = b /\ InsertedAfter(s, e) = a
    BY <1>4, AppendIsInsertAt DEF InsertedBefore, InsertedAfter, Cons
  <1>. QED  BY <1>7, <1>8, <1>9

(***************************************************************************)
(* The insertion of _ipc_list_suspend, whatever the keys are.              *)
(***************************************************************************)
LEMMA InsertedByKeyFacts ==
  ASSUME NEW S, NEW s \in Seq(S), IsInjective(s), NEW e \in S,
         e \notin Range(s), NEW key
  PROVE  /\ InsertedByKey(s, key, e) \in Seq(S)
         /\ IsInjective(InsertedByKey(s, key, e))
         /\ Range(InsertedByKey(s, key, e)) = Range(s) \cup {e}
  <1>1. CASE \E i \in DOMAIN s : FirstLarger(s, key, e, i)
    <2> DEFINE m == CHOOSE i \in DOMAIN s : FirstLarger(s, key, e, i)
    <2>1. m \in DOMAIN s
      BY <1>1
    <2>2. m \in 1 .. Len(s) + 1
      BY <2>1, LenProperties
    <2> HIDE DEF m
    <2>. QED  BY <1>1, <2>2, InsertAtFacts DEF InsertedByKey, m
  <1>2. CASE ~ \E i \in DOMAIN s : FirstLarger(s, key, e, i)
    BY <1>2, InsertedFacts DEF InsertedByKey, InsertedBefore
  <1>. QED  BY <1>1, <1>2

(***************************************************************************)
(* The head of a list is one of its members, and a list is empty when it   *)
(* has none.                                                               *)
(***************************************************************************)
LEMMA HeadFacts ==
  ASSUME NEW S, NEW s \in Seq(S)
  PROVE  /\ s # << >> => Head(s) \in Range(s) /\ Head(s) \in S
         /\ s = << >> <=> Range(s) = {}
         /\ Range(s) \subseteq S
  <1>1. DOMAIN s = 1 .. Len(s) /\ Len(s) \in Nat
    BY LenProperties
  <1>2. s # << >> => Len(s) \in Nat \ {0}
    BY EmptySeq
  <1>3. s # << >> => Head(s) = s[1]
    OBVIOUS
  <1>4. s # << >> => Head(s) \in Range(s)
    BY <1>1, <1>2, <1>3 DEF Range
  <1>5. Range(s) \subseteq S
    BY RangeOfSeq
  <1>6. Range(<< >>) = {}
    BY DEF Range
  <1>. QED  BY <1>4, <1>5, <1>6

(***************************************************************************)
(* rt_list_remove keeps the order of the other nodes.                      *)
(***************************************************************************)
LEMMA UnlinkedOrder ==
  ASSUME NEW S, NEW s \in Seq(S), NEW e,
         NEW i \in DOMAIN Unlinked(s, e), NEW j \in DOMAIN Unlinked(s, e), i < j
  PROVE  \E a, b \in DOMAIN s :
           a < b /\ s[a] = Unlinked(s, e)[i] /\ s[b] = Unlinked(s, e)[j]
  <1>1. CASE e \in Range(s)
    <2> DEFINE m == CHOOSE n \in DOMAIN s : s[n] = e
               from(n) == IF n < m THEN n ELSE n + 1
    <2>1. m \in 1 .. Len(s)
      BY <1>1, LenProperties DEF Range
    <2> HIDE DEF m
    <2>2. Unlinked(s, e) = RemoveAt(s, m)
      BY <1>1 DEF Unlinked, m
    <2>3. DOMAIN s = 1 .. Len(s) /\ Len(s) \in Nat
      BY LenProperties
    <2>7. /\ RemoveAt(s, m) \in Seq(S)
          /\ Len(RemoveAt(s, m)) = Len(s) - 1
          /\ \A n \in 1 .. Len(s)-1 : RemoveAt(s, m)[n] = IF n < m THEN s[n] ELSE s[n+1]
      BY <2>1, RemoveAtElements
    <2>4. DOMAIN RemoveAt(s, m) = 1 .. Len(s)-1
      BY <2>7, LenProperties
    <2>5. from(i) \in DOMAIN s /\ from(j) \in DOMAIN s /\ from(i) < from(j)
      BY <2>1, <2>2, <2>3, <2>4
    <2>6. s[from(i)] = Unlinked(s, e)[i] /\ s[from(j)] = Unlinked(s, e)[j]
      BY <2>7, <2>2, <2>4
    <2>. QED  BY <2>5, <2>6
  <1>2. CASE e \notin Range(s)
    BY <1>2 DEF Unlinked
  <1>. QED  BY <1>1, <1>2

(***************************************************************************)
(* Linking a node keeps the order of the others, those from position m on  *)
(* behind it.                                                              *)
(***************************************************************************)
LEMMA InsertAtOrder ==
  ASSUME NEW S, NEW s \in Seq(S), NEW e \in S, NEW m \in 1 .. Len(s) + 1,
         NEW i \in 1 .. Len(s) + 1, NEW j \in 1 .. Len(s) + 1, i < j
  PROVE  \/ \E a, b \in DOMAIN s : /\ a < b
                                   /\ InsertAt(s, m, e)[i] = s[a] /\ InsertAt(s, m, e)[j] = s[b]
         \/ /\ InsertAt(s, m, e)[i] = e
            /\ \E b \in DOMAIN s : m <= b /\ InsertAt(s, m, e)[j] = s[b]
         \/ /\ InsertAt(s, m, e)[j] = e
            /\ \E a \in DOMAIN s : a < m /\ InsertAt(s, m, e)[i] = s[a]
  <1> DEFINE r == InsertAt(s, m, e)
  <1>6. Linked(InsertAt(s, m, e), s, m, e)
    BY InsertAtElements
  <1> HIDE DEF r
  <1>1. \A n \in 1 .. Len(s)+1 : r[n] = IF n < m THEN s[n] ELSE IF n = m THEN e ELSE s[n-1]
    BY <1>6 DEF r, Linked
  <1>2. DOMAIN s = 1 .. Len(s) /\ Len(s) \in Nat
    BY LenProperties
  <1>3. CASE i = m
    <2>1. r[i] = e /\ r[j] = s[j-1] /\ j-1 \in DOMAIN s /\ m <= j-1
      BY <1>1, <1>2, <1>3
    <2>. QED  BY <2>1 DEF r
  <1>4. CASE j = m
    <2>1. r[j] = e /\ r[i] = s[i] /\ i \in DOMAIN s /\ i < m
      BY <1>1, <1>2, <1>4
    <2>. QED  BY <2>1 DEF r
  <1>5. CASE i # m /\ j # m
    <2> DEFINE from(n) == IF n < m THEN n ELSE n - 1
    <2>1. from(i) \in DOMAIN s /\ from(j) \in DOMAIN s /\ from(i) < from(j)
      BY <1>2, <1>5
    <2>2. r[i] = s[from(i)] /\ r[j] = s[from(j)]
      BY <1>1, <1>5
    <2>. QED  BY <2>1, <2>2 DEF r
  <1>. QED  BY <1>3, <1>4, <1>5

-----------------------------------------------------------------------------
(* The order of the members of a list *)

(* x stands in front of y in s *)
InFrontOf(s, x, y) == \E i, j \in DOMAIN s : i < j /\ s[i] = x /\ s[j] = y

(***************************************************************************)
(* rt_list_remove keeps the order of the other nodes, both ways.           *)
(***************************************************************************)
LEMMA UnlinkedInFront ==
  ASSUME NEW S, NEW s \in Seq(S), IsInjective(s), NEW e, NEW x, NEW y
  PROVE  InFrontOf(Unlinked(s, e), x, y) <=> InFrontOf(s, x, y) /\ x # e /\ y # e
  <1>1. ASSUME InFrontOf(Unlinked(s, e), x, y)
        PROVE  InFrontOf(s, x, y) /\ x # e /\ y # e
    <2>1. PICK i, j \in DOMAIN Unlinked(s, e) :
            i < j /\ Unlinked(s, e)[i] = x /\ Unlinked(s, e)[j] = y
      BY <1>1 DEF InFrontOf
    <2>2. InFrontOf(s, x, y)
      BY <2>1, UnlinkedOrder DEF InFrontOf
    <2>3. x \in Range(Unlinked(s, e)) /\ y \in Range(Unlinked(s, e))
      BY <2>1 DEF Range
    <2>. QED  BY <2>2, <2>3, UnlinkedFacts
  <1>2. ASSUME InFrontOf(s, x, y), x # e, y # e
        PROVE  InFrontOf(Unlinked(s, e), x, y)
    <2>1. CASE e \notin Range(s)
      BY <2>1, <1>2 DEF Unlinked
    <2>2. CASE e \in Range(s)
      <3>1. PICK a, b \in DOMAIN s : a < b /\ s[a] = x /\ s[b] = y
        BY <1>2 DEF InFrontOf
      <3> DEFINE m == CHOOSE n \in DOMAIN s : s[n] = e
                 to(n) == IF n < m THEN n ELSE n - 1
      <3>2. DOMAIN s = 1 .. Len(s) /\ Len(s) \in Nat
        BY LenProperties
      <3>3. m \in 1 .. Len(s) /\ s[m] = e
        BY <2>2, <3>2 DEF Range
      <3> HIDE DEF m
      <3>4. Unlinked(s, e) = RemoveAt(s, m)
        BY <2>2 DEF Unlinked, m
      <3>5. /\ RemoveAt(s, m) \in Seq(S)
            /\ Len(RemoveAt(s, m)) = Len(s) - 1
            /\ \A n \in 1 .. Len(s)-1 : RemoveAt(s, m)[n] = IF n < m THEN s[n] ELSE s[n+1]
        BY <3>3, RemoveAtElements
      <3>6. DOMAIN RemoveAt(s, m) = 1 .. Len(s)-1
        BY <3>5, LenProperties
      <3>7. a # m /\ b # m
        BY <3>1, <3>3, <1>2
      <3>8. to(a) \in 1 .. Len(s)-1 /\ to(b) \in 1 .. Len(s)-1 /\ to(a) < to(b)
        BY <3>1, <3>2, <3>3, <3>7
      <3>9. RemoveAt(s, m)[to(a)] = s[a] /\ RemoveAt(s, m)[to(b)] = s[b]
        <4>1. ASSUME NEW n \in DOMAIN s, n # m, to(n) \in 1 .. Len(s)-1
              PROVE  RemoveAt(s, m)[to(n)] = s[n]
          <5>1. CASE n < m
            BY <5>1, <4>1, <3>5
          <5>2. CASE ~ (n < m)
            <6>1. to(n) = n - 1 /\ ~ (n - 1 < m) /\ (n - 1) + 1 = n
              BY <5>2, <4>1, <3>2, <3>3
            <6>. QED  BY <6>1, <4>1, <3>5
          <5>. QED  BY <5>1, <5>2
        <4>. QED  BY <4>1, <3>1, <3>7, <3>8
      <3> HIDE DEF to
      <3>. QED  BY <3>1, <3>4, <3>6, <3>8, <3>9 DEF InFrontOf
    <2>. QED  BY <2>1, <2>2
  <1>. QED  BY <1>1, <1>2

(***************************************************************************)
(* A node that is linked last is behind all the others.                    *)
(***************************************************************************)
LEMMA AppendInFront ==
  ASSUME NEW S, NEW s \in Seq(S), NEW e \in S, NEW x, NEW y
  PROVE  InFrontOf(Append(s, e), x, y) <=>
           InFrontOf(s, x, y) \/ (x \in Range(s) /\ y = e)
  <1> DEFINE r == Append(s, e)
  <1>1. /\ DOMAIN s = 1 .. Len(s) /\ DOMAIN r = 1 .. Len(s) + 1 /\ Len(s) \in Nat
        /\ r[Len(s) + 1] = e
        /\ \A n \in 1 .. Len(s) : r[n] = s[n]
    BY AppendProperties, LenProperties
  <1> HIDE DEF r
  <1>2. ASSUME InFrontOf(r, x, y) PROVE InFrontOf(s, x, y) \/ (x \in Range(s) /\ y = e)
    <2>1. PICK i, j \in DOMAIN r : i < j /\ r[i] = x /\ r[j] = y
      BY <1>2 DEF InFrontOf
    <2>2. i \in DOMAIN s /\ s[i] = x
      BY <2>1, <1>1
    <2>3. CASE j = Len(s) + 1
      BY <2>1, <2>2, <2>3, <1>1 DEF Range
    <2>4. CASE j # Len(s) + 1
      BY <2>1, <2>2, <2>4, <1>1 DEF InFrontOf
    <2>. QED  BY <2>3, <2>4
  <1>3. ASSUME InFrontOf(s, x, y) PROVE InFrontOf(r, x, y)
    <2>1. PICK i, j \in DOMAIN s : i < j /\ s[i] = x /\ s[j] = y
      BY <1>3 DEF InFrontOf
    <2>2. i \in DOMAIN r /\ j \in DOMAIN r /\ r[i] = x /\ r[j] = y
      BY <2>1, <1>1
    <2>. QED  BY <2>1, <2>2 DEF InFrontOf
  <1>4. ASSUME x \in Range(s), y = e PROVE InFrontOf(r, x, y)
    <2>1. PICK i \in DOMAIN s : s[i] = x
      BY <1>4 DEF Range
    <2>2. /\ i \in DOMAIN r /\ Len(s) + 1 \in DOMAIN r /\ i < Len(s) + 1
          /\ r[i] = x /\ r[Len(s) + 1] = y
      BY <2>1, <1>1, <1>4
    <2>. QED  BY <2>2 DEF InFrontOf
  <1>. QED  BY <1>2, <1>3, <1>4 DEF r

(***************************************************************************)
(* The head of a list is in front of all its other members.                *)
(***************************************************************************)
LEMMA HeadInFront ==
  ASSUME NEW S, NEW s \in Seq(S), s # << >>, NEW x \in Range(s), x # Head(s)
  PROVE  InFrontOf(s, Head(s), x)
  <1>1. DOMAIN s = 1 .. Len(s) /\ Len(s) \in Nat \ {0} /\ Head(s) = s[1]
    BY LenProperties, EmptySeq
  <1>2. PICK j \in DOMAIN s : s[j] = x
    BY DEF Range
  <1>3. 1 \in DOMAIN s /\ 1 < j
    BY <1>1, <1>2
  <1>. QED  BY <1>1, <1>2, <1>3 DEF InFrontOf

(***************************************************************************)
(* The walk of _ipc_list_suspend puts a node behind those with an equal or *)
(* smaller key and in front of the others, when the list is sorted.        *)
(***************************************************************************)
LEMMA InsertedByKeyOrder ==
  ASSUME NEW S, NEW s \in Seq(S), NEW e \in S, NEW key \in [S -> Int],
         \A x, y : InFrontOf(s, x, y) => key[x] <= key[y],
         NEW x, NEW y, InFrontOf(InsertedByKey(s, key, e), x, y)
  PROVE  \/ InFrontOf(s, x, y)
         \/ x \in Range(s) /\ y = e /\ key[x] <= key[e]
         \/ x = e /\ y \in Range(s) /\ key[e] < key[y]
  <1>1. DOMAIN s = 1 .. Len(s) /\ Len(s) \in Nat /\ \A i \in DOMAIN s : s[i] \in S
    BY LenProperties, ElementOfSeq
  <1>2. CASE \E i \in DOMAIN s : FirstLarger(s, key, e, i)
    <2> DEFINE m == CHOOSE i \in DOMAIN s : FirstLarger(s, key, e, i)
    <2>1. m \in DOMAIN s /\ FirstLarger(s, key, e, m)
      BY <1>2
    <2>2. InsertedByKey(s, key, e) = InsertAt(s, m, e)
      BY <1>2 DEF InsertedByKey
    <2> HIDE DEF m
    <2>3. key[e] < key[s[m]] /\ \A j \in 1 .. m - 1 : ~ (key[e] < key[s[j]])
      BY <2>1 DEF FirstLarger
    <2>4. m \in 1 .. Len(s) + 1
      BY <2>1, <1>1
    <2>5. InsertAt(s, m, e) \in Seq(S) /\ Len(InsertAt(s, m, e)) = Len(s) + 1
      BY <2>4, InsertAtElements DEF Linked
    <2>6. DOMAIN InsertAt(s, m, e) = 1 .. Len(s) + 1
      BY <2>5, LenProperties
    <2>7. PICK i, j \in 1 .. Len(s) + 1 :
            i < j /\ InsertAt(s, m, e)[i] = x /\ InsertAt(s, m, e)[j] = y
      BY <2>2, <2>6 DEF InFrontOf
    <2>8. \/ \E a, b \in DOMAIN s : a < b /\ x = s[a] /\ y = s[b]
          \/ x = e /\ \E b \in DOMAIN s : m <= b /\ y = s[b]
          \/ y = e /\ \E a \in DOMAIN s : a < m /\ x = s[a]
      BY <2>4, <2>7, InsertAtOrder
    <2>9. CASE \E a, b \in DOMAIN s : a < b /\ x = s[a] /\ y = s[b]
      BY <2>9 DEF InFrontOf
    <2>10. CASE x = e /\ \E b \in DOMAIN s : m <= b /\ y = s[b]
      <3>1. PICK b \in DOMAIN s : m <= b /\ y = s[b]
        BY <2>10
      <3>2. key[s[m]] \in Int /\ key[s[b]] \in Int /\ key[e] \in Int
        BY <2>1, <3>1, <1>1
      <3>3. b = m \/ InFrontOf(s, s[m], s[b])
        BY <2>1, <3>1, <1>1 DEF InFrontOf
      <3>4. key[s[m]] <= key[s[b]]
        BY <3>2, <3>3
      <3>5. key[e] < key[y]
        BY <3>1, <3>2, <3>4, <2>3
      <3>. QED  BY <3>1, <3>5, <2>10 DEF Range
    <2>11. CASE y = e /\ \E a \in DOMAIN s : a < m /\ x = s[a]
      <3>1. PICK a \in DOMAIN s : a < m /\ x = s[a]
        BY <2>11
      <3>2. key[s[a]] \in Int /\ key[e] \in Int /\ a \in 1 .. m - 1
        BY <2>1, <3>1, <1>1
      <3>3. key[x] <= key[e]
        BY <3>1, <3>2, <2>3
      <3>. QED  BY <3>1, <3>3, <2>11 DEF Range
    <2>. QED  BY <2>8, <2>9, <2>10, <2>11
  <1>3. CASE ~ \E i \in DOMAIN s : FirstLarger(s, key, e, i)
    <2>1. InFrontOf(s, x, y) \/ (x \in Range(s) /\ y = e)
      BY <1>3, AppendInFront DEF InsertedByKey
    <2>2. ASSUME x \in Range(s) PROVE key[x] <= key[e]
      <3> DEFINE Larger == {i \in DOMAIN s : key[e] < key[s[i]]}
      <3>1. Larger = {}
        <4> SUFFICES ASSUME Larger # {} PROVE FALSE
          OBVIOUS
        <4>1. Larger \subseteq Nat
          BY <1>1
        <4>2. PICK i \in Larger : \A j \in Larger : i <= j
          BY <4>1, MinInSet
        <4>3. \A j \in 1 .. i - 1 : j \in DOMAIN s /\ ~ (i <= j)
          BY <4>2, <1>1
        <4>4. FirstLarger(s, key, e, i)
          BY <4>2, <4>3 DEF FirstLarger
        <4>. QED  BY <4>2, <4>4, <1>3
      <3>2. PICK i \in DOMAIN s : s[i] = x
        BY <2>2 DEF Range
      <3>3. ~ (key[e] < key[s[i]])
        BY <3>1
      <3>4. key[s[i]] \in Int /\ key[e] \in Int
        BY <1>1
      <3>. QED  BY <3>2, <3>3, <3>4
    <2>. QED  BY <2>1, <2>2
  <1>. QED  BY <1>2, <1>3

-----------------------------------------------------------------------------
(* The scheduler's data *)

ListsInjective(k) ==
  /\ \A p \in Prio : IsInjective(k.ready[p])
  /\ \A q \in Queue : IsInjective(k.wait[q])

(***************************************************************************)
(* KernelInv without the clause about the current thread, which is broken  *)
(* inside rt_schedule while the processor changes hands.                   *)
(***************************************************************************)
ListsInv(k, out) ==
  /\ k \in KernelType
  /\ ReadyListsExact(k, out)
  /\ GroupExact(k)
  /\ WaitListsExact(k, out)
  /\ ArmedSuspended(k, out)
  /\ DefunctClosed(k)

(***************************************************************************)
(* The fields of a kernel state have the types KernelType gives them.      *)
(***************************************************************************)
LEMMA TypeFields ==
  ASSUME NEW k \in KernelType
  PROVE  /\ k.stat \in [Thread -> Stat]
         /\ k.yield \in SUBSET Thread
         /\ k.prio \in [Thread -> Prio]
         /\ k.err \in [Thread -> Err]
         /\ k.ready \in [Prio -> Seq(Thread)]
         /\ k.group \in SUBSET Prio
         /\ k.cur \in Thread
         /\ k.lock \in Nat
         /\ k.wait \in [Queue -> Seq(Thread)]
         /\ k.armed \in SUBSET Thread
         /\ k.defunct \in Seq(Thread)
  BY DEF KernelType

(* the suspend lists with the node of t out of them *)
WaitsWithout(k, t) == [q \in Queue |-> Unlinked(k.wait[q], t)]

(* u is k with the node of t out of every list *)
NodeUnlinked(k, t, u) ==
  /\ u.wait = WaitsWithout(k, t)
  /\ u \in KernelType
  /\ ListsInjective(u)
  /\ \A p \in Prio : Range(u.ready[p]) = Range(k.ready[p]) \ {t}
  /\ \A q \in Queue : Range(u.wait[q]) = Range(k.wait[q]) \ {t}
  /\ u.stat = k.stat /\ u.yield = k.yield /\ u.prio = k.prio
  /\ u.err = k.err /\ u.group = k.group /\ u.cur = k.cur
  /\ u.lock = k.lock /\ u.armed = k.armed /\ u.defunct = Unlinked(k.defunct, t)

(* u is k after rt_schedule_remove_thread(t) *)
ThreadRemoved(k, t, u) ==
  /\ u.wait = WaitsWithout(k, t)
  /\ u \in KernelType
  /\ ListsInjective(u)
  /\ \A p \in Prio : Range(u.ready[p]) = Range(k.ready[p]) \ {t}
  /\ \A q \in Queue : Range(u.wait[q]) = Range(k.wait[q]) \ {t}
  /\ u.group = IF Range(k.ready[k.prio[t]]) \ {t} = {}
               THEN k.group \ {k.prio[t]} ELSE k.group
  /\ u.stat = k.stat /\ u.yield = k.yield /\ u.prio = k.prio
  /\ u.err = k.err /\ u.cur = k.cur
  /\ u.lock = k.lock /\ u.armed = k.armed /\ u.defunct = Unlinked(k.defunct, t)

(***************************************************************************)
(* Unlinking a thread's node changes the members of the lists, and nothing *)
(* else.                                                                   *)
(***************************************************************************)
LEMMA UnlinkFacts ==
  ASSUME NEW k \in KernelType, ListsInjective(k), NEW t \in Thread
  PROVE  NodeUnlinked(k, t, Unlink(k, t))
  <1> USE TypeFields
  <1>0. PICK u : u = Unlink(k, t)
    OBVIOUS
  <1>1. \A p \in Prio :
          /\ Unlinked(k.ready[p], t) \in Seq(Thread)
          /\ IsInjective(Unlinked(k.ready[p], t))
          /\ Range(Unlinked(k.ready[p], t)) = Range(k.ready[p]) \ {t}
    BY UnlinkedFacts DEF ListsInjective
  <1>2. \A q \in Queue :
          /\ Unlinked(k.wait[q], t) \in Seq(Thread)
          /\ IsInjective(Unlinked(k.wait[q], t))
          /\ Range(Unlinked(k.wait[q], t)) = Range(k.wait[q]) \ {t}
    BY UnlinkedFacts DEF ListsInjective
  <1>3. /\ u.ready = [p \in Prio |-> Unlinked(k.ready[p], t)]
        /\ u.wait = [q \in Queue |-> Unlinked(k.wait[q], t)]
    BY <1>0 DEF Unlink, KernelType
  <1>4. /\ u.stat = k.stat /\ u.yield = k.yield /\ u.prio = k.prio
        /\ u.err = k.err /\ u.group = k.group /\ u.cur = k.cur
        /\ u.lock = k.lock /\ u.armed = k.armed /\ u.defunct = Unlinked(k.defunct, t)
    BY <1>0 DEF Unlink, KernelType
  <1>5. u \in KernelType
    <2>1. Unlinked(k.defunct, t) \in Seq(Thread)
      BY UnlinkedType
    <2>. QED  BY <2>1, <1>0, <1>1, <1>2 DEF Unlink, KernelType
  <1>6. ListsInjective(u)
    BY <1>1, <1>2, <1>3 DEF ListsInjective
  <1>7. NodeUnlinked(k, t, u)
    BY <1>1, <1>2, <1>3, <1>4, <1>5, <1>6 DEF NodeUnlinked, WaitsWithout
  <1>. QED  BY <1>0, <1>7

(***************************************************************************)
(* Taking a thread out of its ready list: who is left, and the bitmap.     *)
(***************************************************************************)
LEMMA RemoveFacts ==
  ASSUME NEW k \in KernelType, ListsInjective(k), NEW t \in Thread
  PROVE  ThreadRemoved(k, t, RemoveThread(k, t))
  <1> DEFINE p == k.prio[t]
  <1>u. PICK u : u = RemoveThread(k, t)
    OBVIOUS
  <1>v. PICK v : v = Unlink(k, t)
    OBVIOUS
  <1>0. NodeUnlinked(k, t, v)
    BY <1>v, UnlinkFacts
  <1>1. /\ v \in KernelType /\ v.wait = WaitsWithout(k, t)
        /\ ListsInjective(v)
        /\ \A o \in Prio : Range(v.ready[o]) = Range(k.ready[o]) \ {t}
        /\ \A q \in Queue : Range(v.wait[q]) = Range(k.wait[q]) \ {t}
        /\ v.stat = k.stat /\ v.yield = k.yield /\ v.prio = k.prio
        /\ v.err = k.err /\ v.group = k.group /\ v.cur = k.cur
        /\ v.lock = k.lock /\ v.armed = k.armed /\ v.defunct = Unlinked(k.defunct, t)
    BY <1>0 DEF NodeUnlinked
  <1>2. u = IF v.ready[p] = << >> THEN [v EXCEPT !.group = @ \ {p}] ELSE v
    BY <1>u, <1>v DEF RemoveThread
  <1>3. p \in Prio
    BY TypeFields
  <1> HIDE DEF p
  <1>4. v.ready[p] \in Seq(Thread)
    BY <1>1, <1>3, TypeFields
  <1>5. v.ready[p] = << >> <=> Range(k.ready[p]) \ {t} = {}
    <2>1. Range(v.ready[p]) = Range(k.ready[p]) \ {t}
      BY <1>1, <1>3
    <2>2. v.ready[p] = << >> <=> Range(v.ready[p]) = {}
      BY <1>4, HeadFacts
    <2>. QED  BY <2>1, <2>2
  <1>6. ASSUME v.ready[p] = << >> PROVE ThreadRemoved(k, t, u)
    <2>1. u = [v EXCEPT !.group = @ \ {p}]
      BY <1>2, <1>6
    <2>2. /\ u.stat = v.stat /\ u.yield = v.yield /\ u.prio = v.prio
          /\ u.err = v.err /\ u.cur = v.cur /\ u.ready = v.ready /\ u.wait = v.wait
          /\ u.lock = v.lock /\ u.armed = v.armed /\ u.defunct = v.defunct
          /\ u.group = v.group \ {p}
      BY <2>1, <1>1 DEF KernelType
    <2>3. u \in KernelType
      BY <2>1, <1>1 DEF KernelType
    <2>4. ListsInjective(u)
      BY <2>2, <1>1 DEF ListsInjective
    <2>. QED  BY <2>2, <2>3, <2>4, <1>1, <1>5, <1>6 DEF p, ThreadRemoved
  <1>7. ASSUME v.ready[p] # << >> PROVE ThreadRemoved(k, t, u)
    BY <1>1, <1>2, <1>5, <1>7 DEF p, ThreadRemoved
  <1>8. ThreadRemoved(k, t, u)
    BY <1>6, <1>7
  <1>. QED  BY <1>u, <1>8

(* u is k after rt_schedule_insert_thread(t), t not current *)
ThreadInserted(k, t, u) ==
  /\ u \in KernelType
  /\ ListsInjective(u)
  /\ \A p \in Prio : Range(u.ready[p]) =
       IF p = k.prio[t] THEN Range(k.ready[p]) \cup {t} ELSE Range(k.ready[p])
  /\ u.group = k.group \cup {k.prio[t]}
  /\ u.stat = [k.stat EXCEPT ![t] = "ready"]
  /\ u.wait = k.wait /\ u.yield = k.yield /\ u.prio = k.prio
  /\ u.err = k.err /\ u.cur = k.cur
  /\ u.lock = k.lock /\ u.armed = k.armed /\ u.defunct = k.defunct

(***************************************************************************)
(* Inserting a thread that is not the current one makes it READY and adds  *)
(* it to the list of its priority.                                         *)
(***************************************************************************)
LEMMA InsertFacts ==
  ASSUME NEW k \in KernelType, ListsInjective(k), NEW t \in Thread,
         t # k.cur, t \notin Range(k.ready[k.prio[t]])
  PROVE  ThreadInserted(k, t, InsertThread(k, t))
  <1> DEFINE p == k.prio[t]
             l == IF t \in k.yield THEN InsertedBefore(k.ready[p], t)
                                   ELSE InsertedAfter(k.ready[p], t)
  <1>0. PICK u : u = InsertThread(k, t)
    OBVIOUS
  <1>1. p \in Prio /\ k.ready[p] \in Seq(Thread) /\ IsInjective(k.ready[p])
    BY TypeFields DEF ListsInjective
  <1>2. l \in Seq(Thread) /\ IsInjective(l) /\ Range(l) = Range(k.ready[p]) \cup {t}
    BY <1>1, InsertedFacts
  <1>3. u = [k EXCEPT !.stat[t] = "ready", !.ready[p] = l, !.group = @ \cup {p}]
    BY <1>0 DEF InsertThread
  <1> HIDE DEF p, l
  <1>4. /\ u.stat = [k.stat EXCEPT ![t] = "ready"]
        /\ u.ready = [k.ready EXCEPT ![p] = l]
        /\ u.group = k.group \cup {p}
        /\ u.wait = k.wait /\ u.yield = k.yield /\ u.prio = k.prio
        /\ u.err = k.err /\ u.cur = k.cur
        /\ u.lock = k.lock /\ u.armed = k.armed /\ u.defunct = k.defunct
    BY <1>3 DEF KernelType
  <1>5. u \in KernelType
    <2>1. u.stat \in [Thread -> Stat] /\ u.ready \in [Prio -> Seq(Thread)]
          /\ u.group \in SUBSET Prio
      BY <1>1, <1>2, <1>4, TypeFields DEF Stat
    <2>. QED  BY <1>3, <2>1 DEF KernelType
  <1>6. \A o \in Prio : u.ready[o] = IF o = p THEN l ELSE k.ready[o]
    BY <1>4, TypeFields
  <1>7. ListsInjective(u)
    BY <1>6, <1>2, <1>4 DEF ListsInjective
  <1>8. ThreadInserted(k, t, u)
    BY <1>2, <1>4, <1>5, <1>6, <1>7 DEF p, ThreadInserted
  <1>. QED  BY <1>0, <1>8

-----------------------------------------------------------------------------
(* What ListsInv keeps when one thread leaves its list, changes, or enters. *)

(***************************************************************************)
(* KernelInv is ListsInv and OneRunning.                                   *)
(***************************************************************************)
LEMMA InvSplit ==
  ASSUME NEW out, NEW k
  PROVE  KernelInv(k, out) <=> ListsInv(k, out) /\ OneRunning(k)
  BY DEF KernelInv, ListsInv

(***************************************************************************)
(* What the invariant says of each thread and list, by member.             *)
(***************************************************************************)
LEMMA Members ==
  ASSUME NEW out, NEW k, ListsInv(k, out)
  PROVE  /\ k \in KernelType /\ ListsInjective(k)
         /\ \A p \in Prio : \A t \in Thread : t \in Range(k.ready[p]) <=>
              k.stat[t] = "ready" /\ k.prio[t] = p /\ t \notin out
         /\ \A p \in Prio : Range(k.ready[p]) \subseteq Thread
         /\ \A p \in Prio : p \in k.group <=> Range(k.ready[p]) # {}
         /\ \A q \in Queue : \A t \in Range(k.wait[q]) :
              t \in Thread /\ k.stat[t] = "suspend" /\ t \notin out
         /\ \A q, r \in Queue : q # r => Range(k.wait[q]) \cap Range(k.wait[r]) = {}
         /\ \A t \in k.armed : t \in Thread /\ k.stat[t] = "suspend" /\ t \notin out
         /\ \A t \in Range(k.defunct) : t \in Thread /\ k.stat[t] = "close"
         /\ IsInjective(k.defunct)
  <1>1. k \in KernelType
    BY DEF ListsInv
  <1>2. /\ k.ready \in [Prio -> Seq(Thread)] /\ k.wait \in [Queue -> Seq(Thread)]
        /\ k.armed \in SUBSET Thread /\ k.defunct \in Seq(Thread)
    BY <1>1, TypeFields
  <1>3. /\ \A p \in Prio : Range(k.ready[p]) \subseteq Thread
        /\ \A q \in Queue : Range(k.wait[q]) \subseteq Thread
        /\ Range(k.defunct) \subseteq Thread
    BY <1>2, RangeOfSeq
  <1>. QED
    BY <1>1, <1>2, <1>3 DEF ListsInv, ListsInjective, ReadyListsExact, GroupExact,
       WaitListsExact, ArmedSuspended, DefunctClosed

(***************************************************************************)
(* rt_list_remove leaves the defunct list alone when its thread is not     *)
(* closed.                                                                 *)
(***************************************************************************)
LEMMA DefunctWithoutOther ==
  ASSUME NEW out, NEW k, ListsInv(k, out), NEW t, k.stat[t] # "close"
  PROVE  Unlinked(k.defunct, t) = k.defunct
  BY Members DEF Unlinked

(* j is k with t out of every list, and its timer stopped *)
LeftLists(k, t, j) ==
  /\ j \in KernelType
  /\ ListsInjective(j)
  /\ GroupExact(j)
  /\ \A p \in Prio : Range(j.ready[p]) = Range(k.ready[p]) \ {t}
  /\ \A q \in Queue : Range(j.wait[q]) = Range(k.wait[q]) \ {t}
  /\ j.stat = k.stat /\ j.prio = k.prio /\ j.armed = k.armed \ {t}
  /\ j.defunct = k.defunct

(***************************************************************************)
(* A thread taken out of every list, its timer stopped, joins the set out. *)
(***************************************************************************)
LEMMA TakenOut ==
  ASSUME NEW out, NEW k, ListsInv(k, out), NEW t \in Thread,
         NEW j, LeftLists(k, t, j)
  PROVE  ListsInv(j, out \cup {t})
  <1>0. /\ j \in KernelType
        /\ ListsInjective(j)
        /\ GroupExact(j)
        /\ \A p \in Prio : Range(j.ready[p]) = Range(k.ready[p]) \ {t}
        /\ \A q \in Queue : Range(j.wait[q]) = Range(k.wait[q]) \ {t}
        /\ j.stat = k.stat /\ j.prio = k.prio /\ j.armed = k.armed \ {t}
        /\ j.defunct = k.defunct
    BY DEF LeftLists
  <1>1. ReadyListsExact(j, out \cup {t})
    BY <1>0, Members DEF ReadyListsExact, ListsInjective
  <1>2. WaitListsExact(j, out \cup {t})
    <2>1. \A q \in Queue : \A x \in Range(j.wait[q]) :
             j.stat[x] = "suspend" /\ x \notin out \cup {t}
      BY <1>0, Members
    <2>2. \A q, r \in Queue : q # r => Range(j.wait[q]) \cap Range(j.wait[r]) = {}
      BY <1>0, Members
    <2>. QED  BY <1>0, <2>1, <2>2 DEF WaitListsExact, ListsInjective
  <1>3. ArmedSuspended(j, out \cup {t}) /\ DefunctClosed(j)
    BY <1>0, Members DEF ArmedSuspended, DefunctClosed
  <1>. QED  BY <1>0, <1>1, <1>2, <1>3 DEF ListsInv

(* j is k after t, and nothing else, has left the lists and the timer list *)
TakenFrom(k, out, t, j) ==
  /\ ListsInv(j, out \cup {t})
  /\ j.wait = WaitsWithout(k, t)
  /\ j.stat = k.stat /\ j.yield = k.yield /\ j.prio = k.prio
  /\ j.err = k.err /\ j.cur = k.cur /\ j.lock = k.lock
  /\ j.armed = k.armed \ {t} /\ j.defunct = k.defunct

(***************************************************************************)
(* rt_schedule_remove_thread of a thread, and the stop of its timer.       *)
(***************************************************************************)
LEMMA RemoveOut ==
  ASSUME NEW out, NEW k, ListsInv(k, out), NEW t \in Thread, k.stat[t] # "close",
         NEW j, j = [RemoveThread(k, t) EXCEPT !.armed = @ \ {t}]
  PROVE  TakenFrom(k, out, t, j)
  <1>0. PICK u : u = RemoveThread(k, t)
    OBVIOUS
  <1>1. k \in KernelType /\ ListsInjective(k) /\ k.prio[t] \in Prio
    BY Members, TypeFields
  <1>2. /\ u \in KernelType /\ ListsInjective(u) /\ u.wait = WaitsWithout(k, t)
        /\ \A p \in Prio : Range(u.ready[p]) = Range(k.ready[p]) \ {t}
        /\ \A q \in Queue : Range(u.wait[q]) = Range(k.wait[q]) \ {t}
        /\ u.group = IF Range(k.ready[k.prio[t]]) \ {t} = {}
                     THEN k.group \ {k.prio[t]} ELSE k.group
        /\ u.stat = k.stat /\ u.yield = k.yield /\ u.prio = k.prio
        /\ u.err = k.err /\ u.cur = k.cur
        /\ u.lock = k.lock /\ u.armed = k.armed /\ u.defunct = k.defunct
    <2>1. ThreadRemoved(k, t, u)
      BY <1>0, <1>1, RemoveFacts
    <2>2. Unlinked(k.defunct, t) = k.defunct
      BY DefunctWithoutOther
    <2>. QED  BY <2>1, <2>2 DEF ThreadRemoved
  <1>3. j = [u EXCEPT !.armed = @ \ {t}]
    BY <1>0
  <1>4. /\ j \in KernelType /\ j.ready = u.ready /\ j.wait = u.wait
        /\ j.group = u.group /\ j.stat = u.stat /\ j.yield = u.yield
        /\ j.prio = u.prio /\ j.err = u.err /\ j.cur = u.cur /\ j.lock = u.lock
        /\ j.armed = u.armed \ {t} /\ j.defunct = u.defunct
    BY <1>2, <1>3 DEF KernelType
  <1>5. ListsInjective(j)
    BY <1>2, <1>4 DEF ListsInjective
  <1>6. GroupExact(j)
    <2>1. ASSUME NEW p \in Prio PROVE p \in u.group <=> Range(u.ready[p]) # {}
      <3>0. p \in k.group <=> Range(k.ready[p]) # {}
        BY Members
      <3>1. CASE p = k.prio[t]
        BY <3>0, <3>1, <1>2
      <3>2. CASE p # k.prio[t]
        <4>1. t \notin Range(k.ready[p])
          BY <3>2, Members
        <4>2. p \in u.group <=> p \in k.group
          BY <3>2, <1>2
        <4>. QED  BY <4>1, <4>2, <1>2, Members
      <3>. QED  BY <3>1, <3>2
    <2>. QED  BY <2>1, <1>4 DEF GroupExact
  <1>7. ListsInv(j, out \cup {t})
    <2>1. LeftLists(k, t, j)
      BY <1>2, <1>4, <1>5, <1>6 DEF LeftLists
    <2>. QED  BY <2>1, TakenOut
  <1>. QED  BY <1>2, <1>4, <1>7 DEF TakenFrom

(***************************************************************************)
(* Unlinking the node of a suspended thread.                               *)
(***************************************************************************)
LEMMA UnlinkOut ==
  ASSUME NEW out, NEW k, ListsInv(k, out), NEW t \in Thread, k.stat[t] = "suspend",
         NEW j, j = [Unlink(k, t) EXCEPT !.armed = @ \ {t}]
  PROVE  TakenFrom(k, out, t, j)
  <1>0. PICK u : u = Unlink(k, t)
    OBVIOUS
  <1>1. k \in KernelType /\ ListsInjective(k)
    BY Members
  <1>2. /\ u \in KernelType /\ ListsInjective(u) /\ u.wait = WaitsWithout(k, t)
        /\ \A p \in Prio : Range(u.ready[p]) = Range(k.ready[p]) \ {t}
        /\ \A q \in Queue : Range(u.wait[q]) = Range(k.wait[q]) \ {t}
        /\ u.stat = k.stat /\ u.yield = k.yield /\ u.prio = k.prio
        /\ u.err = k.err /\ u.group = k.group /\ u.cur = k.cur
        /\ u.lock = k.lock /\ u.armed = k.armed /\ u.defunct = k.defunct
    <2>1. NodeUnlinked(k, t, u)
      BY <1>0, <1>1, UnlinkFacts
    <2>2. Unlinked(k.defunct, t) = k.defunct
      BY DefunctWithoutOther
    <2>. QED  BY <2>1, <2>2 DEF NodeUnlinked
  <1>3. j = [u EXCEPT !.armed = @ \ {t}]
    BY <1>0
  <1>4. /\ j \in KernelType /\ j.ready = u.ready /\ j.wait = u.wait
        /\ j.group = u.group /\ j.stat = u.stat /\ j.yield = u.yield
        /\ j.prio = u.prio /\ j.err = u.err /\ j.cur = u.cur /\ j.lock = u.lock
        /\ j.armed = u.armed \ {t} /\ j.defunct = u.defunct
    BY <1>2, <1>3 DEF KernelType
  <1>5. ListsInjective(j)
    BY <1>2, <1>4 DEF ListsInjective
  <1>6. \A p \in Prio : Range(j.ready[p]) = Range(k.ready[p])
    <2>1. ASSUME NEW p \in Prio PROVE Range(j.ready[p]) = Range(k.ready[p])
      <3>1. t \notin Range(k.ready[p])
        BY Members
      <3>2. Range(j.ready[p]) = Range(k.ready[p]) \ {t}
        BY <1>2, <1>4
      <3>. QED  BY <3>1, <3>2
    <2>. QED  BY <2>1
  <1>7. GroupExact(j)
    BY <1>2, <1>4, <1>6, Members DEF GroupExact
  <1>8. ListsInv(j, out \cup {t})
    <2>1. LeftLists(k, t, j)
      BY <1>2, <1>4, <1>5, <1>7 DEF LeftLists
    <2>. QED  BY <2>1, TakenOut
  <1>. QED  BY <1>2, <1>4, <1>8 DEF TakenFrom

(* j is k after t has become READY and entered its ready list *)
PutInto(k, out, t, j) ==
  /\ ListsInv(j, out \ {t})
  /\ j.stat = [k.stat EXCEPT ![t] = "ready"]
  /\ j.yield = k.yield /\ j.prio = k.prio /\ j.err = k.err /\ j.cur = k.cur
  /\ j.lock = k.lock /\ j.armed = k.armed /\ j.defunct = k.defunct
  /\ j.wait = k.wait

(***************************************************************************)
(* rt_schedule_insert_thread of a thread that is in no list.               *)
(***************************************************************************)
LEMMA InsertIn ==
  ASSUME NEW out, NEW k, ListsInv(k, out), NEW t \in Thread, t # k.cur,
         t \in out \/ k.stat[t] \notin {"ready", "suspend"},
         k.stat[t] # "close",
         NEW j, j = InsertThread(k, t)
  PROVE  PutInto(k, out, t, j)
  <1>1. k \in KernelType /\ ListsInjective(k) /\ k.prio[t] \in Prio
        /\ k.stat \in [Thread -> Stat]
    BY Members, TypeFields
  <1>2. t \notin Range(k.ready[k.prio[t]])
    BY <1>1, Members
  <1>3. /\ j \in KernelType /\ ListsInjective(j)
        /\ \A p \in Prio : Range(j.ready[p]) =
             IF p = k.prio[t] THEN Range(k.ready[p]) \cup {t} ELSE Range(k.ready[p])
        /\ j.group = k.group \cup {k.prio[t]}
        /\ j.stat = [k.stat EXCEPT ![t] = "ready"]
        /\ j.wait = k.wait /\ j.yield = k.yield /\ j.prio = k.prio
        /\ j.err = k.err /\ j.cur = k.cur
        /\ j.lock = k.lock /\ j.armed = k.armed /\ j.defunct = k.defunct
    <2>1. ThreadInserted(k, t, j)
      BY <1>1, <1>2, InsertFacts
    <2>. QED  BY <2>1 DEF ThreadInserted
  <1>4. \A x \in Thread : j.stat[x] = IF x = t THEN "ready" ELSE k.stat[x]
    BY <1>1, <1>3
  <1>5. ReadyListsExact(j, out \ {t})
    <2>1. ASSUME NEW p \in Prio, NEW x \in Thread
          PROVE  x \in Range(j.ready[p]) <=>
                   j.stat[x] = "ready" /\ j.prio[x] = p /\ x \notin out \ {t}
      <3>1. CASE x = t
        <4>1. t \notin Range(k.ready[p])
          BY Members
        <4>. QED  BY <3>1, <4>1, <1>3, <1>4
      <3>2. CASE x # t
        <4>1. x \in Range(j.ready[p]) <=> x \in Range(k.ready[p])
          BY <3>2, <1>3
        <4>2. j.stat[x] = k.stat[x] /\ j.prio[x] = k.prio[x]
          BY <3>2, <1>3, <1>4
        <4>. QED  BY <3>2, <4>1, <4>2, Members
      <3>. QED  BY <3>1, <3>2
    <2>2. \A p \in Prio : IsInjective(j.ready[p])
      BY <1>3 DEF ListsInjective
    <2>. QED  BY <2>1, <2>2 DEF ReadyListsExact
  <1>6. GroupExact(j)
    <2>1. ASSUME NEW p \in Prio PROVE p \in j.group <=> Range(j.ready[p]) # {}
      <3>1. p \in k.group <=> Range(k.ready[p]) # {}
        BY Members
      <3>. QED  BY <3>1, <1>3
    <2>. QED  BY <2>1 DEF GroupExact
  <1>7. WaitListsExact(j, out \ {t})
    <2>1. \A q \in Queue : IsInjective(j.wait[q])
      BY <1>3 DEF ListsInjective
    <2>2. ASSUME NEW q \in Queue, NEW x \in Range(j.wait[q])
          PROVE  j.stat[x] = "suspend" /\ x \notin out \ {t}
      <3>1. x \in Thread /\ k.stat[x] = "suspend" /\ x \notin out
        BY <1>3, Members
      <3>. QED  BY <3>1, <1>4
    <2>3. \A q, r \in Queue : q # r => Range(j.wait[q]) \cap Range(j.wait[r]) = {}
      BY <1>3, Members
    <2>. QED  BY <2>1, <2>2, <2>3 DEF WaitListsExact
  <1>8. ArmedSuspended(j, out \ {t})
    BY <1>3, <1>4, Members DEF ArmedSuspended
  <1>9. DefunctClosed(j)
    <2>1. \A x \in Range(k.defunct) : x # t /\ x \in Thread /\ k.stat[x] = "close"
      BY Members
    <2>. QED  BY <2>1, <1>3, <1>4, Members DEF DefunctClosed
  <1>10. ListsInv(j, out \ {t})
    BY <1>3, <1>5, <1>6, <1>7, <1>8, <1>9 DEF ListsInv
  <1>. QED  BY <1>3, <1>10 DEF PutInto

(* j is k but for the status and the priority of t *)
OnlyChanged(k, t, j) ==
  /\ j \in KernelType
  /\ \A x \in Thread : x # t => j.stat[x] = k.stat[x] /\ j.prio[x] = k.prio[x]
  /\ t \in Range(k.defunct) => j.stat[t] = "close"
  /\ j.ready = k.ready /\ j.group = k.group /\ j.wait = k.wait
  /\ j.armed = k.armed /\ j.defunct = k.defunct

(***************************************************************************)
(* The status and the priority of a thread that is in no list may change.  *)
(***************************************************************************)
LEMMA ChangeOut ==
  ASSUME NEW out, NEW k, ListsInv(k, out), NEW t \in out, NEW j, OnlyChanged(k, t, j)
  PROVE  ListsInv(j, out)
  <1>0. /\ j \in KernelType
        /\ \A x \in Thread : x # t => j.stat[x] = k.stat[x] /\ j.prio[x] = k.prio[x]
        /\ t \in Range(k.defunct) => j.stat[t] = "close"
        /\ j.ready = k.ready /\ j.group = k.group /\ j.wait = k.wait
        /\ j.armed = k.armed /\ j.defunct = k.defunct
    BY DEF OnlyChanged
  <1>1. ReadyListsExact(j, out)
    <2>1. ASSUME NEW p \in Prio, NEW x \in Thread
          PROVE  x \in Range(j.ready[p]) <=>
                   j.stat[x] = "ready" /\ j.prio[x] = p /\ x \notin out
      BY <1>0, Members
    <2>2. \A p \in Prio : IsInjective(j.ready[p])
      BY <1>0, Members DEF ListsInjective
    <2>. QED  BY <1>0, <2>1, <2>2 DEF ReadyListsExact
  <1>2. GroupExact(j)
    BY <1>0, Members DEF GroupExact
  <1>3. WaitListsExact(j, out)
    BY <1>0, Members DEF WaitListsExact, ListsInjective
  <1>4. ArmedSuspended(j, out) /\ DefunctClosed(j)
    BY <1>0, Members DEF ArmedSuspended, DefunctClosed
  <1>. QED  BY <1>0, <1>1, <1>2, <1>3, <1>4 DEF ListsInv

(***************************************************************************)
(* A thread that is not READY needs no place in a ready list.              *)
(***************************************************************************)
LEMMA DropOut ==
  ASSUME NEW out, NEW k, ListsInv(k, out), NEW t, k.stat[t] # "ready"
  PROVE  ListsInv(k, out \ {t})
  BY DEF ListsInv, ReadyListsExact, GroupExact, WaitListsExact,
         ArmedSuspended, DefunctClosed

(***************************************************************************)
(* The lists do not depend on the error numbers, the yield bits, the lock  *)
(* or the name of the current thread.                                      *)
(***************************************************************************)
LEMMA OtherFields ==
  ASSUME NEW out, NEW k, ListsInv(k, out), NEW j \in KernelType,
         j.stat = k.stat, j.prio = k.prio, j.ready = k.ready, j.group = k.group,
         j.wait = k.wait, j.armed = k.armed, j.defunct = k.defunct
  PROVE  ListsInv(j, out)
  BY DEF ListsInv, ReadyListsExact, GroupExact, WaitListsExact,
         ArmedSuspended, DefunctClosed

(***************************************************************************)
(* rt_list_remove leaves the suspend lists alone when its thread is not    *)
(* suspended: it stands in none of them.                                   *)
(***************************************************************************)
LEMMA WaitsWithoutOther ==
  ASSUME NEW out, NEW k, ListsInv(k, out), NEW t, k.stat[t] # "suspend"
  PROVE  WaitsWithout(k, t) = k.wait
  <1>1. k.wait \in [Queue -> Seq(Thread)]
    BY Members, TypeFields
  <1>2. \A q \in Queue : Unlinked(k.wait[q], t) = k.wait[q]
    BY Members DEF Unlinked
  <1>. QED  BY <1>1, <1>2 DEF WaitsWithout
-----------------------------------------------------------------------------
(* The kernel functions *)

(***************************************************************************)
(* What rt_schedule may do: nothing, keep the running thread, or give the  *)
(* processor to a ready thread.                                            *)
(***************************************************************************)
Switched(k, s) ==
  [t \in Thread |-> IF t = s.cur THEN "running"
                    ELSE IF t = k.cur /\ k.stat[t] = "running" THEN "ready"
                    ELSE k.stat[t]]

Scheduled(k, out, s) ==
  /\ KernelInv(s, out)
  /\ s.prio = k.prio /\ s.err = k.err /\ s.lock = k.lock /\ s.wait = k.wait
  /\ s.armed = k.armed /\ s.defunct = k.defunct
  /\ \/ s = k /\ (k.lock # 0 \/ k.group = {})
     \/ s.cur = k.cur /\ s.stat = k.stat /\ k.stat[k.cur] = "running"
     \/ /\ s.cur # k.cur /\ k.stat[s.cur] = "ready" /\ s.cur \notin out
        /\ s.stat = Switched(k, s)

(***************************************************************************)
(* Giving the processor to a ready thread keeps the data consistent: the   *)
(* thread that had it goes to its ready list if it was RUNNING.            *)
(***************************************************************************)
LEMMA SwitchToInv ==
  ASSUME NEW out, NEW k, KernelInv(k, out), k.cur \notin out,
         NEW to \in Thread, k.stat[to] = "ready", to \notin out
  PROVE  Scheduled(k, out, SwitchTo(k, to)) /\ SwitchTo(k, to).cur = to
  <1>1. /\ ListsInv(k, out) /\ k \in KernelType /\ k.cur \in Thread
        /\ k.stat \in [Thread -> Stat] /\ k.cur # to
        /\ \A t \in Thread : k.stat[t] = "running" => t = k.cur
    <2>1. ListsInv(k, out) /\ OneRunning(k) /\ k \in KernelType
      BY InvSplit DEF ListsInv
    <2>. QED  BY <2>1, TypeFields DEF OneRunning
  <1>2. PICK n : n = [k EXCEPT !.cur = to]
    OBVIOUS
  <1>3. /\ n \in KernelType /\ n.cur = to
        /\ n.stat = k.stat /\ n.yield = k.yield /\ n.prio = k.prio
        /\ n.err = k.err /\ n.group = k.group /\ n.ready = k.ready /\ n.wait = k.wait
        /\ n.lock = k.lock /\ n.armed = k.armed /\ n.defunct = k.defunct
    BY <1>1, <1>2 DEF KernelType
  <1>4. ListsInv(n, out)
    BY <1>1, <1>3, OtherFields
  <1>5. PICK r : r = IF k.stat[k.cur] = "running" THEN InsertThread(n, k.cur) ELSE n
    OBVIOUS
  <1>6. /\ ListsInv(r, out)
        /\ r.stat = [t \in Thread |-> IF t = k.cur /\ k.stat[t] = "running" THEN "ready"
                                      ELSE k.stat[t]]
        /\ r.prio = k.prio /\ r.err = k.err /\ r.cur = to /\ r.wait = k.wait
        /\ r.lock = k.lock /\ r.armed = k.armed /\ r.defunct = k.defunct
    <2>1. CASE k.stat[k.cur] = "running"
      <3>1. r = InsertThread(n, k.cur)
        BY <1>5, <2>1
      <3>2. /\ ListsInv(r, out \ {k.cur})
            /\ r.stat = [n.stat EXCEPT ![k.cur] = "ready"]
            /\ r.prio = n.prio /\ r.err = n.err /\ r.cur = n.cur /\ r.wait = n.wait
            /\ r.lock = n.lock /\ r.armed = n.armed /\ r.defunct = n.defunct
        <4>1. PutInto(n, out, k.cur, r)
          BY <3>1, <2>1, <1>1, <1>3, <1>4, InsertIn
        <4>. QED  BY <4>1 DEF PutInto
      <3>3. out \ {k.cur} = out
        OBVIOUS
      <3>. QED  BY <3>2, <3>3, <2>1, <1>1, <1>3
    <2>2. CASE k.stat[k.cur] # "running"
      <3>1. r = n
        BY <1>5, <2>2
      <3>. QED  BY <3>1, <2>2, <1>1, <1>3, <1>4
    <2>. QED  BY <2>1, <2>2
  <1>7. PICK m : m = [RemoveThread(r, to) EXCEPT !.armed = @ \ {to}]
    OBVIOUS
  <1>8. /\ ListsInv(m, out \cup {to})
        /\ m.stat = r.stat /\ m.prio = r.prio /\ m.err = r.err /\ m.cur = r.cur
        /\ m.lock = r.lock /\ m.armed = r.armed \ {to} /\ m.defunct = r.defunct
        /\ m.wait = r.wait
    <2>1. r.stat[to] = k.stat[to]
      BY <1>1, <1>6
    <2>2. TakenFrom(r, out, to, m)
      BY <2>1, <1>6, <1>7, RemoveOut
    <2>3. WaitsWithout(r, to) = r.wait
      BY <2>1, <1>6, WaitsWithoutOther
    <2>. QED  BY <2>2, <2>3 DEF TakenFrom
  <1>9. to \notin k.armed /\ to \notin Range(k.defunct)
    BY <1>1, Members
  <1>10. m = RemoveThread(r, to)
    <2>1. PICK u : u = RemoveThread(r, to)
      OBVIOUS
    <2>2. ThreadRemoved(r, to, u)
      BY <1>6, <2>1, Members, RemoveFacts
    <2>3. u \in KernelType /\ u.armed = r.armed
      BY <2>2 DEF ThreadRemoved
    <2>4. u.armed \ {to} = u.armed
      BY <2>3, <1>6, <1>9
    <2>5. [u EXCEPT !.armed = @ \ {to}] = u
      BY <2>3, <2>4 DEF KernelType
    <2>. QED  BY <2>1, <2>5, <1>7
  <1>11. PICK s : s = [m EXCEPT !.stat[to] = "running"]
    OBVIOUS
  <1>12. s = SwitchTo(k, to)
    BY <1>2, <1>5, <1>10, <1>11 DEF SwitchTo
  <1>13. /\ s \in KernelType /\ s.stat = [m.stat EXCEPT ![to] = "running"]
         /\ s.prio = m.prio /\ s.err = m.err /\ s.cur = m.cur
         /\ s.ready = m.ready /\ s.group = m.group /\ s.wait = m.wait
         /\ s.lock = m.lock /\ s.armed = m.armed /\ s.defunct = m.defunct
    <2>1. m \in KernelType
      BY <1>8, Members
    <2>2. [m.stat EXCEPT ![to] = "running"] \in [Thread -> Stat]
      BY <2>1, TypeFields DEF Stat
    <2>. QED  BY <1>11, <2>1, <2>2 DEF KernelType
  <1>14. s.stat = [t \in Thread |-> IF t = to THEN "running"
                     ELSE IF t = k.cur /\ k.stat[t] = "running" THEN "ready"
                     ELSE k.stat[t]]
    BY <1>6, <1>8, <1>13
  <1>15. ListsInv(s, out \cup {to})
    <2>1. \A x \in Thread : x # to => s.stat[x] = m.stat[x] /\ s.prio[x] = m.prio[x]
      BY <1>6, <1>8, <1>13, <1>14
    <2>2. to \notin Range(m.defunct)
      BY <1>6, <1>8, <1>9
    <2>3. OnlyChanged(m, to, s)
      BY <2>1, <2>2, <1>13 DEF OnlyChanged
    <2>. QED  BY <2>3, <1>8, ChangeOut
  <1>16. ListsInv(s, out)
    <2>1. s.stat[to] # "ready"
      BY <1>14
    <2>2. (out \cup {to}) \ {to} = out
      OBVIOUS
    <2>. QED  BY <1>15, <2>1, <2>2, DropOut
  <1>17. s.cur = to
    BY <1>6, <1>8, <1>13
  <1>18. OneRunning(s)
    BY <1>1, <1>14, <1>17 DEF OneRunning
  <1>19. s.stat = Switched(k, s)
    BY <1>14, <1>17 DEF Switched
  <1>20. s.armed = k.armed
    BY <1>6, <1>8, <1>9, <1>13
  <1>21. Scheduled(k, out, s)
    <2>1. KernelInv(s, out)
      BY <1>16, <1>18, InvSplit
    <2>. QED
      BY <2>1, <1>1, <1>6, <1>8, <1>13, <1>17, <1>19, <1>20 DEF Scheduled
  <1>. QED  BY <1>12, <1>17, <1>21

(***************************************************************************)
(* The current thread keeps the processor: it is in no list, and stays     *)
(* RUNNING.                                                                *)
(***************************************************************************)
LEMMA StayInv ==
  ASSUME NEW out, NEW k, KernelInv(k, out), k.cur \notin out,
         k.stat[k.cur] = "running"
  PROVE  /\ KernelInv(Stay(k), out)
         /\ Stay(k).stat = k.stat /\ Stay(k).cur = k.cur /\ Stay(k).prio = k.prio
         /\ Stay(k).err = k.err /\ Stay(k).lock = k.lock
         /\ Stay(k).armed = k.armed /\ Stay(k).defunct = k.defunct
         /\ Stay(k).wait = k.wait
  <1>1. /\ ListsInv(k, out) /\ OneRunning(k) /\ k \in KernelType /\ k.cur \in Thread
        /\ k.stat \in [Thread -> Stat]
    <2>1. ListsInv(k, out) /\ OneRunning(k) /\ k \in KernelType
      BY InvSplit DEF ListsInv
    <2>. QED  BY <2>1, TypeFields
  <1>2. PICK u : u = RemoveThread(k, k.cur)
    OBVIOUS
  <1>3. ThreadRemoved(k, k.cur, u)
    BY <1>1, <1>2, Members, RemoveFacts
  <1>4. /\ u \in KernelType /\ u.armed = k.armed /\ u.stat = k.stat /\ u.cur = k.cur
        /\ u.prio = k.prio /\ u.err = k.err /\ u.lock = k.lock /\ u.defunct = k.defunct
        /\ u.wait = k.wait
    <2>1. WaitsWithout(k, k.cur) = k.wait /\ Unlinked(k.defunct, k.cur) = k.defunct
      BY <1>1, WaitsWithoutOther, DefunctWithoutOther
    <2>. QED  BY <1>3, <2>1 DEF ThreadRemoved
  <1>5. k.cur \notin k.armed
    BY <1>1, Members
  <1>6. [u EXCEPT !.armed = @ \ {k.cur}] = u
    <2>1. u.armed \ {k.cur} = u.armed
      BY <1>4, <1>5
    <2>. QED  BY <2>1, <1>4 DEF KernelType
  <1>7. ListsInv(u, out)
    <2>1. u = [RemoveThread(k, k.cur) EXCEPT !.armed = @ \ {k.cur}]
      BY <1>2, <1>6
    <2>2. ListsInv(u, out \cup {k.cur})
      BY <2>1, <1>1, RemoveOut DEF TakenFrom
    <2>3. (out \cup {k.cur}) \ {k.cur} = out /\ u.stat[k.cur] # "ready"
      BY <1>4
    <2>. QED  BY <2>2, <2>3, DropOut
  <1>8. Stay(k) = u
    <2>1. Stay(k) = [u EXCEPT !.stat[k.cur] = "running"]
      BY <1>2 DEF Stay
    <2>2. [u.stat EXCEPT ![k.cur] = "running"] = u.stat
      BY <1>1, <1>4
    <2>. QED  BY <2>1, <2>2, <1>4 DEF KernelType
  <1>9. OneRunning(u)
    BY <1>1, <1>4 DEF OneRunning
  <1>. QED  BY <1>4, <1>7, <1>8, <1>9, InvSplit

(***************************************************************************)
(* rt_schedule keeps the data consistent, whatever the status of the       *)
(* thread that calls it.                                                   *)
(***************************************************************************)
LEMMA ScheduleInv ==
  ASSUME NEW out, NEW k, KernelInv(k, out), k.cur \notin out
  PROVE  Scheduled(k, out, Schedule(k))
  <1>1. /\ ListsInv(k, out) /\ OneRunning(k) /\ k \in KernelType
        /\ k.cur \in Thread /\ k.group \in SUBSET Prio
    <2>1. ListsInv(k, out) /\ OneRunning(k) /\ k \in KernelType
      BY InvSplit DEF ListsInv
    <2>. QED  BY <2>1, TypeFields
  <1>2. CASE k.lock # 0 \/ k.group = {}
    <2>1. Schedule(k) = k
      BY <1>2 DEF Schedule
    <2>. QED  BY <2>1, <1>2 DEF Scheduled
  <1>3. CASE ~(k.lock # 0 \/ k.group = {})
    <2>1. PICK high : high = Min(k.group)
      OBVIOUS
    <2>2. high \in k.group /\ high \in Prio
      <3>1. k.group \subseteq Nat /\ k.group # {}
        BY <1>1, <1>3, KernelAssumption DEF Prio
      <3>. QED  BY <3>1, <2>1, <1>1, MinInSet
    <2>3. PICK hd : hd = Head(k.ready[high])
      OBVIOUS
    <2>4. hd \in Thread /\ k.stat[hd] = "ready" /\ hd \notin out
      <3>1. k.ready[high] \in Seq(Thread)
        BY <2>2, <1>1, TypeFields
      <3>2. Range(k.ready[high]) # {}
        BY <2>2, <1>1, Members
      <3>3. hd \in Range(k.ready[high]) /\ hd \in Thread
        BY <3>1, <3>2, <2>3, HeadFacts
      <3>. QED  BY <3>3, <2>2, <1>1, Members
    <2>5. PICK c : c = ClearYield(k)
      OBVIOUS
    <2>6. /\ c \in KernelType
          /\ c.stat = k.stat /\ c.prio = k.prio /\ c.err = k.err /\ c.cur = k.cur
          /\ c.ready = k.ready /\ c.group = k.group /\ c.wait = k.wait
          /\ c.lock = k.lock /\ c.armed = k.armed /\ c.defunct = k.defunct
      BY <2>5, <1>1 DEF ClearYield, KernelType
    <2>7. KernelInv(c, out)
      <3>1. ListsInv(c, out)
        BY <2>6, <1>1, OtherFields
      <3>2. OneRunning(c)
        BY <2>6, <1>1 DEF OneRunning
      <3>. QED  BY <3>1, <3>2, InvSplit
    <2>8. CASE KeepsCpu(k, high)
      <3>1. Schedule(k) = Stay(c) /\ k.stat[k.cur] = "running"
        BY <2>8, <2>1, <2>5, <1>3 DEF Schedule, KeepsCpu
      <3>. QED  BY <3>1, <2>6, <2>7, StayInv DEF Scheduled
    <2>9. CASE ~ KeepsCpu(k, high)
      <3>1. hd # k.cur
        BY <2>4, <1>1 DEF OneRunning
      <3>2. Schedule(k) = SwitchTo(c, hd)
        BY <2>9, <3>1, <2>1, <2>3, <2>5, <1>3 DEF Schedule
      <3>3. Scheduled(c, out, SwitchTo(c, hd)) /\ SwitchTo(c, hd).cur = hd
        BY <2>4, <2>6, <2>7, SwitchToInv
      <3>4. PICK s : s = SwitchTo(c, hd)
        OBVIOUS
      <3>5. Scheduled(c, out, s) /\ s.cur = hd
        BY <3>3, <3>4
      <3>6. Switched(c, s) = Switched(k, s)
        BY <2>6 DEF Switched
      <3>7. Scheduled(k, out, s)
        BY <3>1, <3>5, <3>6, <2>4, <2>6, <1>3 DEF Scheduled
      <3>. QED  BY <3>2, <3>4, <3>7
    <2>. QED  BY <2>8, <2>9
  <1>. QED  BY <1>2, <1>3

(***************************************************************************)
(* rt_schedule takes the processor from a RUNNING thread only for one of   *)
(* higher priority, or of the same one when the running thread must yield. *)
(***************************************************************************)
LEMMA ScheduleDisplaces ==
  ASSUME NEW out, NEW k, KernelInv(k, out), k.cur \notin out,
         NEW s, s = Schedule(k), s.cur # k.cur, k.stat[k.cur] = "running"
  PROVE  \/ s.prio[s.cur] < s.prio[k.cur]
         \/ s.prio[s.cur] = s.prio[k.cur] /\ k.cur \in k.yield
  <1>1. /\ ListsInv(k, out) /\ OneRunning(k) /\ k \in KernelType
        /\ k.cur \in Thread /\ k.group \in SUBSET Prio
        /\ k.prio \in [Thread -> Prio] /\ Prio \subseteq Int
    <2>1. ListsInv(k, out) /\ OneRunning(k) /\ k \in KernelType
      BY InvSplit DEF ListsInv
    <2>. QED  BY <2>1, TypeFields, KernelAssumption DEF Prio
  <1>2. s.prio = k.prio
    BY ScheduleInv DEF Scheduled
  <1>3. ~ (k.lock # 0 \/ k.group = {})
    BY DEF Schedule
  <1>4. PICK high : high = Min(k.group)
    OBVIOUS
  <1>5. high \in k.group /\ high \in Prio
    <2>1. k.group \subseteq Nat /\ k.group # {}
      BY <1>1, <1>3, KernelAssumption DEF Prio
    <2>. QED  BY <2>1, <1>4, <1>1, MinInSet
  <1>6. PICK hd : hd = Head(k.ready[high])
    OBVIOUS
  <1>7. hd \in Thread /\ k.stat[hd] = "ready" /\ hd \notin out /\ k.prio[hd] = high
    <2>1. k.ready[high] \in Seq(Thread) /\ Range(k.ready[high]) # {}
      BY <1>5, <1>1, TypeFields, Members
    <2>2. hd \in Range(k.ready[high]) /\ hd \in Thread
      BY <2>1, <1>6, HeadFacts
    <2>. QED  BY <2>2, <1>5, <1>1, Members
  <1>8. PICK c : c = ClearYield(k)
    OBVIOUS
  <1>9. /\ c \in KernelType
        /\ c.stat = k.stat /\ c.prio = k.prio /\ c.cur = k.cur
        /\ c.ready = k.ready /\ c.group = k.group /\ c.wait = k.wait
        /\ c.armed = k.armed /\ c.defunct = k.defunct
    BY <1>8, <1>1 DEF ClearYield, KernelType
  <1>10. KernelInv(c, out)
    <2>1. ListsInv(c, out) /\ OneRunning(c)
      BY <1>9, <1>1, OtherFields DEF OneRunning
    <2>. QED  BY <2>1, InvSplit
  <1>11. ~ KeepsCpu(k, high)
    <2> SUFFICES ASSUME KeepsCpu(k, high) PROVE FALSE
      OBVIOUS
    <2>1. s = Stay(c)
      BY <1>3, <1>4, <1>8 DEF Schedule
    <2>2. s.cur = c.cur
      BY <2>1, <1>9, <1>10, StayInv
    <2>. QED  BY <2>2, <1>9
  <1>12. s.cur = hd
    <2>1. hd # k.cur
      BY <1>7, <1>1 DEF OneRunning
    <2>2. s = SwitchTo(c, hd)
      BY <1>3, <1>4, <1>6, <1>8, <1>11, <2>1 DEF Schedule
    <2>. QED  BY <2>2, <1>7, <1>9, <1>10, SwitchToInv
  <1>13. /\ ~ (k.prio[k.cur] < high)
         /\ k.prio[k.cur] = high => k.cur \in k.yield
    BY <1>11 DEF KeepsCpu
  <1>14. k.prio[k.cur] \in Int /\ high \in Int
    BY <1>1, <1>5
  <1>15. high < k.prio[k.cur] \/ (high = k.prio[k.cur] /\ k.cur \in k.yield)
    BY <1>13, <1>14
  <1>. QED  BY <1>2, <1>7, <1>12, <1>15

-----------------------------------------------------------------------------
(* Blocking and waking *)

(* j is k after t, suspended in k, has become runnable again *)
Woken(k, t, j) ==
  /\ j.stat = [k.stat EXCEPT ![t] = IF t = k.cur THEN "running" ELSE "ready"]
  /\ j.prio = k.prio /\ j.cur = k.cur /\ j.lock = k.lock /\ j.yield = k.yield
  /\ j.armed = k.armed \ {t} /\ j.defunct = k.defunct
  /\ j.wait = WaitsWithout(k, t)

(***************************************************************************)
(* rt_schedule_insert_thread of a suspended thread that has left its list; *)
(* the current thread, interrupted on its way to rt_schedule, is RUNNING   *)
(* again and enters no list.                                               *)
(***************************************************************************)
LEMMA InsertWoken ==
  ASSUME NEW out, NEW k, NEW t \in Thread, ListsInv(k, out \cup {t}), OneRunning(k),
         t \notin out, t \notin k.armed, k.stat[t] = "suspend",
         NEW j, j = InsertThread(k, t)
  PROVE  KernelInv(j, out) /\ Woken(k, t, j) /\ j.err = k.err /\ j.wait = k.wait
  <1>1. /\ k \in KernelType /\ k.stat \in [Thread -> Stat] /\ k.cur \in Thread
        /\ t \notin Range(k.defunct) /\ (out \cup {t}) \ {t} = out
        /\ k.armed \ {t} = k.armed
    BY Members, TypeFields
  <1>w. WaitsWithout(k, t) = k.wait
    <2>1. k.wait \in [Queue -> Seq(Thread)]
      BY <1>1, TypeFields
    <2>2. \A q \in Queue : Unlinked(k.wait[q], t) = k.wait[q]
      BY Members DEF Unlinked
    <2>. QED  BY <2>1, <2>2 DEF WaitsWithout
  <1>2. CASE t = k.cur
    <2>1. j = [k EXCEPT !.stat[t] = "running"]
      BY <1>2 DEF InsertThread
    <2>2. [k.stat EXCEPT ![t] = "running"] \in [Thread -> Stat]
      BY <1>1 DEF Stat
    <2>3. /\ j \in KernelType /\ j.stat = [k.stat EXCEPT ![t] = "running"]
          /\ j.prio = k.prio /\ j.err = k.err /\ j.cur = k.cur /\ j.lock = k.lock
          /\ j.ready = k.ready /\ j.group = k.group /\ j.wait = k.wait
          /\ j.armed = k.armed /\ j.defunct = k.defunct /\ j.yield = k.yield
      BY <2>1, <2>2, <1>1 DEF KernelType
    <2>4. OnlyChanged(k, t, j)
      BY <2>3, <1>1 DEF OnlyChanged
    <2>5. ListsInv(j, out \cup {t})
      BY <2>4, ChangeOut
    <2>6. ListsInv(j, out)
      <3>1. j.stat[t] # "ready"
        BY <2>3, <1>1
      <3>. QED  BY <3>1, <2>5, <1>1, DropOut
    <2>7. OneRunning(j)
      BY <2>3, <1>1, <1>2 DEF OneRunning
    <2>. QED  BY <2>3, <2>6, <2>7, <1>1, <1>2, <1>w, InvSplit DEF Woken
  <1>3. CASE t # k.cur
    <2>1. PutInto(k, out \cup {t}, t, j)
      BY <1>3, InsertIn
    <2>2. /\ ListsInv(j, (out \cup {t}) \ {t})
          /\ j.stat = [k.stat EXCEPT ![t] = "ready"]
          /\ j.prio = k.prio /\ j.err = k.err /\ j.cur = k.cur
          /\ j.lock = k.lock /\ j.armed = k.armed /\ j.defunct = k.defunct
          /\ j.yield = k.yield /\ j.wait = k.wait
      BY <2>1 DEF PutInto
    <2>3. OneRunning(j)
      BY <2>2, <1>1, <1>3 DEF OneRunning
    <2>. QED  BY <2>2, <2>3, <1>1, <1>3, <1>w, InvSplit DEF Woken
  <1>. QED  BY <1>2, <1>3

(***************************************************************************)
(* The section of rt_thread_resume takes a suspended thread out of its     *)
(* wait list, stops its timer and makes it runnable.                       *)
(***************************************************************************)
LEMMA ResumeSectionInv ==
  ASSUME NEW out, NEW k, KernelInv(k, out), NEW t \in Thread, t \notin out,
         k.stat[t] = "suspend", NEW j, j = ResumeSection(k, t)
  PROVE  KernelInv(j, out) /\ Woken(k, t, j) /\ j.err = k.err
  <1>1. ListsInv(k, out) /\ OneRunning(k)
    BY InvSplit
  <1>2. PICK u : u = [Unlink(k, t) EXCEPT !.armed = @ \ {t}]
    OBVIOUS
  <1>3. TakenFrom(k, out, t, u)
    BY <1>1, <1>2, UnlinkOut
  <1>4. /\ ListsInv(u, out \cup {t})
        /\ u.stat = k.stat /\ u.prio = k.prio /\ u.cur = k.cur /\ u.lock = k.lock
        /\ u.armed = k.armed \ {t} /\ u.defunct = k.defunct /\ u.yield = k.yield
        /\ u.err = k.err /\ u.wait = WaitsWithout(k, t)
    BY <1>3 DEF TakenFrom
  <1>5. j = InsertThread(u, t)
    BY <1>2 DEF ResumeSection
  <1>6. OneRunning(u)
    BY <1>4, <1>1 DEF OneRunning
  <1>7. KernelInv(j, out) /\ Woken(u, t, j) /\ j.err = u.err /\ j.wait = u.wait
    BY <1>4, <1>5, <1>6, InsertWoken
  <1>8. Woken(k, t, j)
    BY <1>4, <1>7 DEF Woken
  <1>. QED  BY <1>4, <1>7, <1>8

(***************************************************************************)
(* The same section, reached with a thread that has woken since its status *)
(* was tested: it moves within its ready list, and nothing else happens.   *)
(***************************************************************************)
LEMMA ResumeReadyInv ==
  ASSUME NEW out, NEW k, KernelInv(k, out), NEW t \in Thread, t \notin out,
         k.stat[t] = "ready", NEW j, j = ResumeSection(k, t)
  PROVE  /\ KernelInv(j, out)
         /\ j.stat = k.stat /\ j.cur = k.cur /\ j.lock = k.lock
         /\ j.armed = k.armed /\ j.defunct = k.defunct
  <1>1. /\ ListsInv(k, out) /\ OneRunning(k) /\ k \in KernelType
        /\ ListsInjective(k) /\ k.stat \in [Thread -> Stat] /\ k.prio[t] \in Prio
        /\ t # k.cur /\ t \notin k.armed
    <2>1. ListsInv(k, out) /\ OneRunning(k)
      BY InvSplit
    <2>2. k \in KernelType /\ ListsInjective(k)
      BY <2>1, Members
    <2>. QED  BY <2>1, <2>2, Members, TypeFields DEF OneRunning
  <1>2. PICK v : v = Unlink(k, t)
    OBVIOUS
  <1>3. /\ v \in KernelType /\ ListsInjective(v) /\ v.wait = k.wait
        /\ \A p \in Prio : Range(v.ready[p]) = Range(k.ready[p]) \ {t}
        /\ v.stat = k.stat /\ v.prio = k.prio /\ v.group = k.group /\ v.cur = k.cur
        /\ v.lock = k.lock /\ v.armed = k.armed /\ v.defunct = k.defunct
    <2>1. NodeUnlinked(k, t, v)
      BY <1>1, <1>2, UnlinkFacts
    <2>2. WaitsWithout(k, t) = k.wait /\ Unlinked(k.defunct, t) = k.defunct
      BY <1>1, WaitsWithoutOther, DefunctWithoutOther
    <2>. QED  BY <2>1, <2>2 DEF NodeUnlinked
  <1>4. j = InsertThread(v, t)
    <2>1. v.armed \ {t} = v.armed
      BY <1>1, <1>3
    <2>2. [v EXCEPT !.armed = @ \ {t}] = v
      BY <2>1, <1>3 DEF KernelType
    <2>. QED  BY <2>2, <1>2 DEF ResumeSection
  <1>5. t # v.cur /\ t \notin Range(v.ready[v.prio[t]])
    BY <1>1, <1>3
  <1>6. ThreadInserted(v, t, j)
    BY <1>3, <1>4, <1>5, InsertFacts
  <1>7. /\ j \in KernelType /\ ListsInjective(j)
        /\ \A p \in Prio : Range(j.ready[p]) =
             IF p = k.prio[t] THEN (Range(k.ready[p]) \ {t}) \cup {t}
                              ELSE Range(k.ready[p]) \ {t}
        /\ j.group = k.group \cup {k.prio[t]}
        /\ j.stat = [k.stat EXCEPT ![t] = "ready"]
        /\ j.wait = k.wait /\ j.prio = k.prio /\ j.cur = k.cur
        /\ j.lock = k.lock /\ j.armed = k.armed /\ j.defunct = k.defunct
    BY <1>3, <1>6 DEF ThreadInserted
  <1>8. \A p \in Prio : Range(j.ready[p]) = Range(k.ready[p])
    <2>1. ASSUME NEW p \in Prio PROVE Range(j.ready[p]) = Range(k.ready[p])
      <3>1. t \in Range(k.ready[p]) <=> k.prio[t] = p
        BY <1>1, Members
      <3>2. Range(j.ready[p]) = IF p = k.prio[t] THEN (Range(k.ready[p]) \ {t}) \cup {t}
                                ELSE Range(k.ready[p]) \ {t}
        BY <1>7
      <3>3. CASE p = k.prio[t]
        BY <3>1, <3>2, <3>3
      <3>4. CASE p # k.prio[t]
        BY <3>1, <3>2, <3>4
      <3>. QED  BY <3>3, <3>4
    <2>. QED  BY <2>1
  <1>9. j.group = k.group
    <2>1. t \in Range(k.ready[k.prio[t]])
      BY <1>1, Members
    <2>2. k.prio[t] \in k.group
      BY <2>1, <1>1, Members
    <2>. QED  BY <2>2, <1>7
  <1>10. j.stat = k.stat
    BY <1>1, <1>7
  <1>11. ListsInv(j, out)
    <2>1. ReadyListsExact(j, out)
      BY <1>1, <1>7, <1>8, <1>10, Members DEF ReadyListsExact, ListsInjective
    <2>2. GroupExact(j)
      BY <1>1, <1>8, <1>9, Members DEF GroupExact
    <2>3. WaitListsExact(j, out) /\ ArmedSuspended(j, out) /\ DefunctClosed(j)
      BY <1>1, <1>7, <1>10 DEF ListsInv, WaitListsExact, ArmedSuspended, DefunctClosed
    <2>. QED  BY <2>1, <2>2, <2>3, <1>7 DEF ListsInv
  <1>12. OneRunning(j)
    BY <1>1, <1>7, <1>10 DEF OneRunning
  <1>. QED  BY <1>7, <1>10, <1>11, <1>12, InvSplit

(***************************************************************************)
(* rt_thread_resume has no effect on a thread that is not suspended.       *)
(***************************************************************************)
LEMMA ResumeInv ==
  ASSUME NEW out, NEW k, KernelInv(k, out), NEW t \in Thread, t \notin out
  PROVE  /\ KernelInv(Resume(k, t), out)
         /\ k.stat[t] = "suspend" => Woken(k, t, Resume(k, t)) /\ Resume(k, t).err = k.err
         /\ k.stat[t] # "suspend" => Resume(k, t) = k
  <1>1. CASE k.stat[t] # "suspend"
    BY <1>1 DEF Resume
  <1>2. CASE k.stat[t] = "suspend"
    <2>1. PICK j : j = ResumeSection(k, t)
      OBVIOUS
    <2>2. KernelInv(j, out) /\ Woken(k, t, j) /\ j.err = k.err
      BY <2>1, <1>2, ResumeSectionInv
    <2>3. Resume(k, t) = j
      BY <2>1, <1>2 DEF Resume
    <2>. QED  BY <2>2, <2>3, <1>2
  <1>. QED  BY <1>1, <1>2

(***************************************************************************)
(* _thread_timeout of a thread whose timer runs.                           *)
(***************************************************************************)
LEMMA TimeoutInv ==
  ASSUME NEW out, NEW k, KernelInv(k, out), k.cur \notin out, NEW t \in k.armed
  PROVE  \E j : /\ KernelInv(j, out) /\ Woken(k, t, j)
                /\ j.err = [k.err EXCEPT ![t] = "timeout"]
                /\ Timeout(k, t) = Schedule(j)
  <1>1. /\ ListsInv(k, out) /\ OneRunning(k) /\ k \in KernelType
        /\ t \in Thread /\ k.stat[t] = "suspend" /\ t \notin out
    BY InvSplit, Members
  <1>2. PICK v : v = [Unlink(k, t) EXCEPT !.armed = @ \ {t}]
    OBVIOUS
  <1>3. TakenFrom(k, out, t, v)
    BY <1>1, <1>2, UnlinkOut
  <1>4. /\ ListsInv(v, out \cup {t}) /\ v \in KernelType
        /\ v.stat = k.stat /\ v.prio = k.prio /\ v.cur = k.cur /\ v.lock = k.lock
        /\ v.armed = k.armed \ {t} /\ v.defunct = k.defunct /\ v.yield = k.yield
        /\ v.err = k.err /\ v.wait = WaitsWithout(k, t)
    BY <1>3, Members DEF TakenFrom
  <1>5. PICK u : u = [v EXCEPT !.err[t] = "timeout"]
    OBVIOUS
  <1>6. /\ u \in KernelType
        /\ u.stat = v.stat /\ u.prio = v.prio /\ u.cur = v.cur /\ u.lock = v.lock
        /\ u.ready = v.ready /\ u.group = v.group /\ u.wait = v.wait
        /\ u.armed = v.armed /\ u.defunct = v.defunct /\ u.yield = v.yield
        /\ u.err = [v.err EXCEPT ![t] = "timeout"]
    <2>1. [v.err EXCEPT ![t] = "timeout"] \in [Thread -> Err]
      BY <1>4, TypeFields DEF Err
    <2>. QED  BY <2>1, <1>4, <1>5 DEF KernelType
  <1>7. ListsInv(u, out \cup {t})
    BY <1>4, <1>6, OtherFields
  <1>8. OneRunning(u)
    BY <1>1, <1>4, <1>6 DEF OneRunning
  <1>9. PICK j : j = InsertThread(u, t)
    OBVIOUS
  <1>10. KernelInv(j, out) /\ Woken(u, t, j) /\ j.err = u.err /\ j.wait = u.wait
    BY <1>1, <1>4, <1>6, <1>7, <1>8, <1>9, InsertWoken
  <1>11. Woken(k, t, j) /\ j.err = [k.err EXCEPT ![t] = "timeout"]
    BY <1>4, <1>6, <1>10 DEF Woken
  <1>12. u = [Unlink(k, t) EXCEPT !.armed = @ \ {t}, !.err[t] = "timeout"]
    BY <1>2, <1>5
  <1>13. Timeout(k, t) = Schedule(j)
    BY <1>9, <1>12 DEF Timeout
  <1>. QED  BY <1>10, <1>11, <1>13

(***************************************************************************)
(* rt_thread_suspend of the running thread: until it reaches rt_schedule   *)
(* it goes on executing with the status SUSPEND.                           *)
(***************************************************************************)
LEMMA SuspendInv ==
  ASSUME NEW out, NEW k, KernelInv(k, out), k.cur \notin out,
         k.stat[k.cur] = "running"
  PROVE  /\ KernelInv(Suspend(k, k.cur), out)
         /\ Suspend(k, k.cur).stat = [k.stat EXCEPT ![k.cur] = "suspend"]
         /\ Suspend(k, k.cur).prio = k.prio /\ Suspend(k, k.cur).cur = k.cur
         /\ Suspend(k, k.cur).lock = k.lock /\ Suspend(k, k.cur).armed = k.armed
         /\ Suspend(k, k.cur).defunct = k.defunct
         /\ Suspend(k, k.cur).err = k.err /\ Suspend(k, k.cur).wait = k.wait
  <1>1. /\ ListsInv(k, out) /\ OneRunning(k) /\ k \in KernelType /\ k.cur \in Thread
        /\ k.stat \in [Thread -> Stat] /\ k.cur \notin k.armed
        /\ k.cur \notin Range(k.defunct) /\ k.armed \ {k.cur} = k.armed
    <2>1. ListsInv(k, out) /\ OneRunning(k) /\ k \in KernelType
      BY InvSplit DEF ListsInv
    <2>. QED  BY <2>1, Members, TypeFields
  <1>2. PICK u : u = [RemoveThread(k, k.cur) EXCEPT !.armed = @ \ {k.cur}]
    OBVIOUS
  <1>3. TakenFrom(k, out, k.cur, u)
    BY <1>1, <1>2, RemoveOut
  <1>4. /\ ListsInv(u, out \cup {k.cur}) /\ u \in KernelType
        /\ u.stat = k.stat /\ u.prio = k.prio /\ u.cur = k.cur /\ u.lock = k.lock
        /\ u.armed = k.armed /\ u.defunct = k.defunct
        /\ u.err = k.err /\ u.wait = k.wait
    <2>1. WaitsWithout(k, k.cur) = k.wait
      BY <1>1, WaitsWithoutOther
    <2>. QED  BY <2>1, <1>1, <1>3, Members DEF TakenFrom
  <1>5. PICK j : j = [u EXCEPT !.stat[k.cur] = "suspend"]
    OBVIOUS
  <1>6. /\ j \in KernelType /\ j.stat = [k.stat EXCEPT ![k.cur] = "suspend"]
        /\ j.prio = u.prio /\ j.cur = u.cur /\ j.lock = u.lock
        /\ j.ready = u.ready /\ j.group = u.group /\ j.wait = u.wait
        /\ j.armed = u.armed /\ j.defunct = u.defunct /\ j.err = u.err
    <2>1. [u.stat EXCEPT ![k.cur] = "suspend"] \in [Thread -> Stat]
      BY <1>1, <1>4 DEF Stat
    <2>. QED  BY <2>1, <1>4, <1>5 DEF KernelType
  <1>7. ListsInv(j, out)
    <2>1. OnlyChanged(u, k.cur, j)
      BY <1>1, <1>4, <1>6 DEF OnlyChanged
    <2>2. ListsInv(j, out \cup {k.cur})
      BY <2>1, <1>4, ChangeOut
    <2>3. (out \cup {k.cur}) \ {k.cur} = out /\ j.stat[k.cur] # "ready"
      BY <1>1, <1>6
    <2>. QED  BY <2>2, <2>3, DropOut
  <1>8. OneRunning(j)
    BY <1>1, <1>4, <1>6 DEF OneRunning
  <1>9. Suspend(k, k.cur) = j
    <2>1. PICK r : r = RemoveThread(k, k.cur)
      OBVIOUS
    <2>2. r \in KernelType /\ r.armed = k.armed
      <3>1. ThreadRemoved(k, k.cur, r)
        BY <2>1, <1>1, Members, RemoveFacts
      <3>. QED  BY <3>1 DEF ThreadRemoved
    <2>3. u = [r EXCEPT !.armed = @ \ {k.cur}]
      BY <2>1, <1>2
    <2>4. Suspend(k, k.cur) = [r EXCEPT !.stat[k.cur] = "suspend",
                                        !.armed = @ \ {k.cur}]
      BY <2>1 DEF Suspend
    <2>. QED  BY <2>2, <2>3, <2>4, <1>5 DEF KernelType
  <1>. QED  BY <1>4, <1>6, <1>7, <1>8, <1>9, InvSplit

(***************************************************************************)
(* The timer of a suspended thread may be started.                         *)
(***************************************************************************)
LEMMA StartTimerInv ==
  ASSUME NEW out, NEW k, KernelInv(k, out), NEW t \in Thread,
         k.stat[t] = "suspend", t \notin out
  PROVE  KernelInv(StartTimer(k, t), out)
  <1>1. k \in KernelType
    BY DEF KernelInv
  <1>2. /\ StartTimer(k, t) \in KernelType
        /\ StartTimer(k, t).stat = k.stat /\ StartTimer(k, t).prio = k.prio
        /\ StartTimer(k, t).ready = k.ready /\ StartTimer(k, t).group = k.group
        /\ StartTimer(k, t).cur = k.cur /\ StartTimer(k, t).wait = k.wait
        /\ StartTimer(k, t).armed = k.armed \cup {t}
        /\ StartTimer(k, t).defunct = k.defunct
    BY <1>1 DEF StartTimer, KernelType
  <1>. QED
    BY <1>2 DEF KernelInv, ReadyListsExact, GroupExact, WaitListsExact, OneRunning,
       ArmedSuspended, DefunctClosed

-----------------------------------------------------------------------------
(* Priority change, start, end and reuse of a thread *)

(***************************************************************************)
(* A thread that is neither READY nor SUSPEND is in no list.               *)
(***************************************************************************)
LEMMA AddOut ==
  ASSUME NEW out, NEW k, ListsInv(k, out), NEW t, k.stat[t] \notin {"ready", "suspend"}
  PROVE  ListsInv(k, out \cup {t})
  BY DEF ListsInv, ReadyListsExact, GroupExact, WaitListsExact,
         ArmedSuspended, DefunctClosed

(***************************************************************************)
(* RT_THREAD_CTRL_CHANGE_PRIORITY moves a READY thread to the list of its  *)
(* new priority; it changes no status.                                     *)
(***************************************************************************)
LEMMA ChangePriorityInv ==
  ASSUME NEW out, NEW k, KernelInv(k, out), NEW t \in Thread, t \notin out,
         NEW p \in Prio, NEW j, j = ChangePriority(k, t, p)
  PROVE  /\ KernelInv(j, out)
         /\ j.stat = k.stat /\ j.cur = k.cur /\ j.lock = k.lock
         /\ j.armed = k.armed /\ j.defunct = k.defunct
         /\ j.err = k.err /\ j.wait = k.wait
         /\ \A x \in Thread : j.prio[x] = IF x = t THEN p ELSE k.prio[x]
  <1>1. /\ ListsInv(k, out) /\ OneRunning(k) /\ k \in KernelType
        /\ k.stat \in [Thread -> Stat] /\ k.prio \in [Thread -> Prio]
        /\ k.cur \in Thread
    <2>1. ListsInv(k, out) /\ OneRunning(k) /\ k \in KernelType
      BY InvSplit DEF ListsInv
    <2>. QED  BY <2>1, TypeFields
  <1>2. CASE k.stat[t] = "ready"
    <2>1. PICK m : m = RemoveThread(k, t)
      OBVIOUS
    <2>2. m \in KernelType /\ m.armed = k.armed
      <3>1. ThreadRemoved(k, t, m)
        BY <2>1, <1>1, Members, RemoveFacts
      <3>. QED  BY <3>1 DEF ThreadRemoved
    <2>3. k.armed \ {t} = k.armed /\ t \notin Range(k.defunct) /\ t # k.cur
      BY <1>1, <1>2, Members DEF OneRunning
    <2>4. m = [RemoveThread(k, t) EXCEPT !.armed = @ \ {t}]
      <3>1. [m EXCEPT !.armed = @ \ {t}] = m
        BY <2>2, <2>3 DEF KernelType
      <3>. QED  BY <3>1, <2>1
    <2>5. TakenFrom(k, out, t, m)
      <3>1. k.stat[t] # "close"
        BY <1>2
      <3>. QED  BY <3>1, <2>4, <1>1, RemoveOut
    <2>6. /\ ListsInv(m, out \cup {t})
          /\ m.stat = k.stat /\ m.prio = k.prio /\ m.cur = k.cur /\ m.lock = k.lock
          /\ m.defunct = k.defunct /\ m.err = k.err /\ m.wait = k.wait
      <3>1. WaitsWithout(k, t) = k.wait
        BY <1>1, <1>2, WaitsWithoutOther
      <3>. QED  BY <3>1, <2>5 DEF TakenFrom
    <2>7. PICK n : n = [m EXCEPT !.prio[t] = p]
      OBVIOUS
    <2>8. /\ n \in KernelType /\ n.prio = [k.prio EXCEPT ![t] = p]
          /\ n.stat = k.stat /\ n.cur = k.cur /\ n.lock = k.lock
          /\ n.ready = m.ready /\ n.group = m.group /\ n.wait = m.wait
          /\ n.armed = k.armed /\ n.defunct = k.defunct /\ n.err = k.err
      <3>1. [k.prio EXCEPT ![t] = p] \in [Thread -> Prio]
        BY <1>1
      <3>. QED  BY <3>1, <2>2, <2>6, <2>7 DEF KernelType
    <2>9. OnlyChanged(m, t, n)
      BY <2>2, <2>3, <2>6, <2>8, <1>1 DEF OnlyChanged
    <2>10. ListsInv(n, out \cup {t})
      BY <2>6, <2>9, ChangeOut
    <2>11. j = InsertThread(n, t)
      BY <2>1, <2>7, <1>2 DEF ChangePriority
    <2>12. PutInto(n, out \cup {t}, t, j)
      BY <2>3, <2>8, <2>10, <2>11, <1>2, InsertIn
    <2>13. /\ ListsInv(j, (out \cup {t}) \ {t})
           /\ j.stat = [n.stat EXCEPT ![t] = "ready"]
           /\ j.cur = n.cur /\ j.lock = n.lock /\ j.armed = n.armed
           /\ j.defunct = n.defunct /\ j.err = n.err /\ j.wait = n.wait
           /\ j.prio = n.prio
      BY <2>12 DEF PutInto
    <2>14. (out \cup {t}) \ {t} = out /\ j.stat = k.stat
      BY <2>8, <2>13, <1>1, <1>2
    <2>15. OneRunning(j)
      BY <2>8, <2>13, <2>14, <1>1 DEF OneRunning
    <2>16. \A x \in Thread : j.prio[x] = IF x = t THEN p ELSE k.prio[x]
      BY <2>8, <2>13, <1>1
    <2>. QED  BY <2>6, <2>8, <2>13, <2>14, <2>15, <2>16, InvSplit
  <1>3. CASE k.stat[t] # "ready"
    <2>1. j = [k EXCEPT !.prio[t] = p]
      BY <1>3 DEF ChangePriority
    <2>2. /\ j \in KernelType /\ j.prio = [k.prio EXCEPT ![t] = p]
          /\ j.stat = k.stat /\ j.cur = k.cur /\ j.lock = k.lock
          /\ j.ready = k.ready /\ j.group = k.group /\ j.wait = k.wait
          /\ j.armed = k.armed /\ j.defunct = k.defunct /\ j.err = k.err
      <3>1. [k.prio EXCEPT ![t] = p] \in [Thread -> Prio]
        BY <1>1
      <3>. QED  BY <3>1, <2>1, <1>1 DEF KernelType
    <2>3. ReadyListsExact(j, out)
      <3>1. ASSUME NEW o \in Prio, NEW x \in Thread
            PROVE  x \in Range(j.ready[o]) <=>
                     j.stat[x] = "ready" /\ j.prio[x] = o /\ x \notin out
        <4>1. x = t => j.stat[x] # "ready"
          BY <2>2, <1>3
        <4>2. x # t => j.prio[x] = k.prio[x]
          BY <2>2, <1>1
        <4>. QED  BY <4>1, <4>2, <2>2, <1>1, Members
      <3>2. \A o \in Prio : IsInjective(j.ready[o])
        BY <2>2, <1>1, Members DEF ListsInjective
      <3>. QED  BY <3>1, <3>2 DEF ReadyListsExact
    <2>4. \A x \in Thread : j.prio[x] = IF x = t THEN p ELSE k.prio[x]
      BY <2>2, <1>1
    <2>. QED
      BY <2>2, <2>3, <2>4 DEF KernelInv, GroupExact, WaitListsExact, OneRunning,
         ArmedSuspended, DefunctClosed
  <1>. QED  BY <1>2, <1>3

(***************************************************************************)
(* rt_thread_startup of a thread that was initialised: it is suspended.    *)
(***************************************************************************)
LEMMA StartupInv ==
  ASSUME NEW out, NEW k, KernelInv(k, out), NEW t \in Thread, t \notin out,
         k.stat[t] = "init", NEW j, j = Startup(k, t)
  PROVE  /\ KernelInv(j, out)
         /\ j.stat = [k.stat EXCEPT ![t] = "suspend"]
         /\ j.cur = k.cur /\ j.lock = k.lock /\ j.armed = k.armed
         /\ j.defunct = k.defunct
  <1>1. /\ ListsInv(k, out) /\ OneRunning(k) /\ k \in KernelType
        /\ k.stat \in [Thread -> Stat] /\ k.yield \in SUBSET Thread
        /\ k.cur \in Thread /\ t # k.cur
        /\ t \notin Range(k.defunct) /\ t \notin k.armed
    <2>1. ListsInv(k, out) /\ OneRunning(k) /\ k \in KernelType
      BY InvSplit DEF ListsInv
    <2>. QED  BY <2>1, Members, TypeFields DEF OneRunning
  <1>2. j = [k EXCEPT !.stat[t] = "suspend", !.yield = @ \ {t}]
    BY DEF Startup
  <1>3. /\ j \in KernelType /\ j.stat = [k.stat EXCEPT ![t] = "suspend"]
        /\ j.prio = k.prio /\ j.cur = k.cur /\ j.lock = k.lock
        /\ j.ready = k.ready /\ j.group = k.group /\ j.wait = k.wait
        /\ j.armed = k.armed /\ j.defunct = k.defunct
    <2>1. [k.stat EXCEPT ![t] = "suspend"] \in [Thread -> Stat]
      BY <1>1 DEF Stat
    <2>. QED  BY <2>1, <1>1, <1>2 DEF KernelType
  <1>4. OnlyChanged(k, t, j)
    BY <1>1, <1>3 DEF OnlyChanged
  <1>5. ListsInv(k, out \cup {t})
    BY <1>1, AddOut
  <1>6. ListsInv(j, out \cup {t})
    BY <1>4, <1>5, ChangeOut
  <1>7. (out \cup {t}) \ {t} = out /\ j.stat[t] # "ready"
    BY <1>1, <1>3
  <1>8. ListsInv(j, out)
    BY <1>6, <1>7, DropOut
  <1>9. OneRunning(j)
    BY <1>1, <1>3 DEF OneRunning
  <1>. QED  BY <1>3, <1>8, <1>9, InvSplit

(***************************************************************************)
(* rt_schedule_remove_thread at the start of rt_thread_delete: from here   *)
(* to the second section the thread is one of out.  Its timer must not be  *)
(* running.                                                                *)
(***************************************************************************)
LEMMA DeleteInv ==
  ASSUME NEW out, NEW k, KernelInv(k, out), NEW t \in Thread, t \notin k.armed,
         k.stat[t] # "close", NEW j, j = RemoveThread(k, t)
  PROVE  /\ KernelInv(j, out \cup {t})
         /\ j.stat = k.stat /\ j.cur = k.cur /\ j.lock = k.lock
         /\ j.armed = k.armed /\ j.defunct = k.defunct
  <1>1. ListsInv(k, out) /\ OneRunning(k) /\ k.armed \ {t} = k.armed
    BY InvSplit
  <1>2. j \in KernelType /\ j.armed = k.armed
    <2>1. ThreadRemoved(k, t, j)
      BY <1>1, Members, RemoveFacts
    <2>. QED  BY <2>1 DEF ThreadRemoved
  <1>3. j = [RemoveThread(k, t) EXCEPT !.armed = @ \ {t}]
    <2>1. [j EXCEPT !.armed = @ \ {t}] = j
      BY <1>1, <1>2 DEF KernelType
    <2>. QED  BY <2>1
  <1>4. TakenFrom(k, out, t, j)
    BY <1>1, <1>3, RemoveOut
  <1>5. /\ ListsInv(j, out \cup {t})
        /\ j.stat = k.stat /\ j.cur = k.cur /\ j.lock = k.lock
        /\ j.armed = k.armed /\ j.defunct = k.defunct
    BY <1>1, <1>4 DEF TakenFrom
  <1>6. OneRunning(j)
    BY <1>1, <1>5 DEF OneRunning
  <1>. QED  BY <1>5, <1>6, InvSplit

(***************************************************************************)
(* The second section closes a thread that has left its list.              *)
(***************************************************************************)
LEMMA CloseInv ==
  ASSUME NEW out, NEW k, KernelInv(k, out), NEW t \in Thread, t \in out,
         k.stat[t] # "close", NEW j, j = Close(k, t)
  PROVE  /\ KernelInv(j, out \ {t})
         /\ j.stat = [k.stat EXCEPT ![t] = "close"]
         /\ j.cur = k.cur /\ j.lock = k.lock /\ j.armed = k.armed
         /\ Range(j.defunct) = Range(k.defunct) \cup {t}
  <1>1. /\ ListsInv(k, out) /\ OneRunning(k) /\ k \in KernelType
        /\ k.stat \in [Thread -> Stat] /\ k.yield \in SUBSET Thread
        /\ k.cur \in Thread /\ k.defunct \in Seq(Thread)
        /\ k.armed \in SUBSET Thread /\ IsInjective(k.defunct)
        /\ t \notin Range(k.defunct) /\ t \notin k.armed /\ k.armed \ {t} = k.armed
    <2>1. ListsInv(k, out) /\ OneRunning(k) /\ k \in KernelType
      BY InvSplit DEF ListsInv
    <2>. QED  BY <2>1, Members, TypeFields
  <1>2. PICK d : d = InsertedAfter(k.defunct, t)
    OBVIOUS
  <1>3. d \in Seq(Thread) /\ IsInjective(d) /\ Range(d) = Range(k.defunct) \cup {t}
    BY <1>1, <1>2, InsertedFacts
  <1>4. j = [k EXCEPT !.armed = @ \ {t}, !.stat[t] = "close", !.yield = @ \ {t},
                      !.defunct = d]
    BY <1>2 DEF Close
  <1>5. /\ j \in KernelType /\ j.stat = [k.stat EXCEPT ![t] = "close"]
        /\ j.prio = k.prio /\ j.cur = k.cur /\ j.lock = k.lock
        /\ j.ready = k.ready /\ j.group = k.group /\ j.wait = k.wait
        /\ j.armed = k.armed /\ j.defunct = d
    <2>1. [k.stat EXCEPT ![t] = "close"] \in [Thread -> Stat]
      BY <1>1 DEF Stat
    <2>2. k.yield \ {t} \in SUBSET Thread
      BY <1>1
    <2>3. /\ j.stat = [k.stat EXCEPT ![t] = "close"] /\ j.yield = k.yield \ {t}
          /\ j.armed = k.armed \ {t} /\ j.defunct = d
          /\ j.prio = k.prio /\ j.err = k.err /\ j.cur = k.cur /\ j.lock = k.lock
          /\ j.ready = k.ready /\ j.group = k.group /\ j.wait = k.wait
      BY <1>1, <1>4 DEF KernelType
    <2>4. j \in KernelType
      BY <2>1, <2>2, <1>1, <1>3, <1>4 DEF KernelType
    <2>. QED  BY <2>3, <2>4, <1>1
  <1>6. PICK i : i = [j EXCEPT !.defunct = k.defunct]
    OBVIOUS
  <1>7. /\ i \in KernelType /\ i.stat = j.stat
        /\ i.prio = k.prio /\ i.cur = k.cur /\ i.lock = k.lock
        /\ i.ready = k.ready /\ i.group = k.group /\ i.wait = k.wait
        /\ i.armed = k.armed /\ i.defunct = k.defunct
    BY <1>1, <1>5, <1>6 DEF KernelType
  <1>8. ListsInv(i, out \ {t})
    <2>1. OnlyChanged(k, t, i)
      BY <1>1, <1>5, <1>7 DEF OnlyChanged
    <2>2. ListsInv(i, out)
      BY <2>1, <1>1, ChangeOut
    <2>3. i.stat[t] # "ready"
      BY <1>1, <1>5, <1>7
    <2>. QED  BY <2>2, <2>3, DropOut
  <1>9. DefunctClosed(j)
    <2>1. \A x \in Range(k.defunct) : x \in Thread /\ k.stat[x] = "close"
      BY <1>1, Members
    <2>. QED  BY <2>1, <1>1, <1>3, <1>5 DEF DefunctClosed
  <1>10. ListsInv(j, out \ {t})
    BY <1>5, <1>7, <1>8, <1>9 DEF ListsInv, ReadyListsExact, GroupExact,
       WaitListsExact, ArmedSuspended
  <1>11. OneRunning(j)
    BY <1>1, <1>5 DEF OneRunning
  <1>. QED  BY <1>3, <1>5, <1>10, <1>11, InvSplit

(***************************************************************************)
(* A control block that left the defunct list is initialised again.        *)
(***************************************************************************)
LEMMA CreateInv ==
  ASSUME NEW out, NEW k, KernelInv(k, out), NEW t \in Thread, t \notin out,
         k.stat[t] = "close", t \notin Range(k.defunct), t # k.cur,
         NEW j, j = Create(k, t)
  PROVE  /\ KernelInv(j, out)
         /\ j.stat = [k.stat EXCEPT ![t] = "init"]
         /\ j.cur = k.cur /\ j.lock = k.lock /\ j.armed = k.armed
         /\ j.defunct = k.defunct
  <1>1. /\ ListsInv(k, out) /\ OneRunning(k) /\ k \in KernelType
        /\ k.stat \in [Thread -> Stat] /\ k.yield \in SUBSET Thread
        /\ k.prio \in [Thread -> Prio] /\ k.err \in [Thread -> Err]
        /\ k.cur \in Thread /\ InitPrio[t] \in Prio
    <2>1. ListsInv(k, out) /\ OneRunning(k) /\ k \in KernelType
      BY InvSplit DEF ListsInv
    <2>2. InitPrio[t] \in Prio
      BY KernelAssumption DEF Prio
    <2>. QED  BY <2>1, <2>2, TypeFields
  <1>2. /\ j \in KernelType /\ j.stat = [k.stat EXCEPT ![t] = "init"]
        /\ j.prio = [k.prio EXCEPT ![t] = InitPrio[t]] /\ j.cur = k.cur
        /\ j.lock = k.lock /\ j.ready = k.ready /\ j.group = k.group
        /\ j.wait = k.wait /\ j.armed = k.armed /\ j.defunct = k.defunct
    <2>1. /\ [k.stat EXCEPT ![t] = "init"] \in [Thread -> Stat]
          /\ [k.prio EXCEPT ![t] = InitPrio[t]] \in [Thread -> Prio]
          /\ [k.err EXCEPT ![t] = "ok"] \in [Thread -> Err]
      BY <1>1 DEF Stat, Err
    <2>. QED  BY <2>1, <1>1 DEF Create, KernelType
  <1>3. ListsInv(j, out)
    <2>1. OnlyChanged(k, t, j)
      BY <1>1, <1>2 DEF OnlyChanged
    <2>2. ListsInv(k, out \cup {t})
      BY <1>1, AddOut
    <2>3. ListsInv(j, out \cup {t})
      BY <2>1, <2>2, ChangeOut
    <2>4. (out \cup {t}) \ {t} = out /\ j.stat[t] # "ready"
      BY <1>1, <1>2
    <2>. QED  BY <2>3, <2>4, DropOut
  <1>4. OneRunning(j)
    BY <1>1, <1>2 DEF OneRunning
  <1>. QED  BY <1>2, <1>3, <1>4, InvSplit

(***************************************************************************)
(* rt_defunct_execute takes a thread out of the defunct list.              *)
(***************************************************************************)
LEMMA ReapInv ==
  ASSUME NEW out, NEW k, KernelInv(k, out), NEW t \in Thread, t \in Range(k.defunct),
         NEW j, j = Unlink(k, t)
  PROVE  /\ KernelInv(j, out)
         /\ j.stat = k.stat /\ j.cur = k.cur /\ j.lock = k.lock
         /\ j.armed = k.armed /\ Range(j.defunct) = Range(k.defunct) \ {t}
  <1>1. /\ ListsInv(k, out) /\ OneRunning(k) /\ k \in KernelType
        /\ ListsInjective(k) /\ k.stat[t] = "close"
        /\ k.defunct \in Seq(Thread) /\ IsInjective(k.defunct)
    <2>1. ListsInv(k, out) /\ OneRunning(k)
      BY InvSplit
    <2>2. k \in KernelType /\ ListsInjective(k)
      BY <2>1, Members
    <2>. QED  BY <2>1, <2>2, Members, TypeFields
  <1>2. /\ j \in KernelType /\ ListsInjective(j) /\ j.wait = k.wait
        /\ \A p \in Prio : Range(j.ready[p]) = Range(k.ready[p]) \ {t}
        /\ j.stat = k.stat /\ j.prio = k.prio /\ j.group = k.group /\ j.cur = k.cur
        /\ j.lock = k.lock /\ j.armed = k.armed
        /\ j.defunct = Unlinked(k.defunct, t)
    <2>1. NodeUnlinked(k, t, j)
      BY <1>1, UnlinkFacts
    <2>2. WaitsWithout(k, t) = k.wait
      BY <1>1, WaitsWithoutOther
    <2>. QED  BY <2>1, <2>2 DEF NodeUnlinked
  <1>3. \A p \in Prio : Range(j.ready[p]) = Range(k.ready[p])
    <2>1. ASSUME NEW p \in Prio PROVE Range(j.ready[p]) = Range(k.ready[p])
      <3>1. t \notin Range(k.ready[p])
        BY <1>1, Members
      <3>. QED  BY <3>1, <1>2
    <2>. QED  BY <2>1
  <1>4. IsInjective(j.defunct) /\ Range(j.defunct) = Range(k.defunct) \ {t}
    BY <1>1, <1>2, UnlinkedFacts
  <1>5. ListsInv(j, out)
    <2>1. ReadyListsExact(j, out)
      BY <1>1, <1>2, <1>3, Members DEF ReadyListsExact, ListsInjective
    <2>2. GroupExact(j)
      <3>1. \A p \in Prio : p \in k.group <=> Range(k.ready[p]) # {}
        BY <1>1, Members
      <3>2. j.group = k.group
        BY <1>2
      <3>. QED  BY <3>1, <3>2, <1>3 DEF GroupExact
    <2>3. WaitListsExact(j, out) /\ ArmedSuspended(j, out)
      BY <1>1, <1>2 DEF ListsInv, WaitListsExact, ArmedSuspended
    <2>4. DefunctClosed(j)
      BY <1>1, <1>2, <1>4, Members DEF DefunctClosed
    <2>. QED  BY <2>1, <2>2, <2>3, <2>4, <1>2 DEF ListsInv
  <1>6. OneRunning(j)
    BY <1>1, <1>2 DEF OneRunning
  <1>. QED  BY <1>2, <1>4, <1>5, <1>6, InvSplit

(***************************************************************************)
(* The state that rt_system_scheduler_start leaves is consistent.          *)
(***************************************************************************)
LEMMA BootInv ==
  ASSUME NEW main \in Thread, main # Idle
  PROVE  KernelInv(Boot(main), {})
  <1> DEFINE b == Boot(main)
  <1>1. InitPrio \in [Thread -> Prio] /\ Idle \in Thread /\ InitPrio[Idle] \in Prio
    BY KernelAssumption DEF Prio
  <1>2. /\ << Idle >> \in Seq(Thread) /\ IsInjective(<< Idle >>)
        /\ Range(<< Idle >>) = {Idle}
    BY <1>1 DEF IsInjective, Range
  <1>3. /\ << >> \in Seq(Thread) /\ IsInjective(<< >>) /\ Range(<< >>) = {}
    BY DEF IsInjective, Range
  <1>4. b \in KernelType
    BY <1>1, <1>2, <1>3 DEF Boot, KernelType, Stat, Err
  <1>5. ReadyListsExact(b, {})
    <2>1. ASSUME NEW p \in Prio
          PROVE  /\ IsInjective(b.ready[p])
                 /\ \A t \in Thread : t \in Range(b.ready[p]) <=>
                      b.stat[t] = "ready" /\ b.prio[t] = p /\ t \notin {}
      <3>1. CASE p = InitPrio[Idle]
        BY <3>1, <1>1, <1>2 DEF Boot
      <3>2. CASE p # InitPrio[Idle]
        BY <3>2, <1>1, <1>3 DEF Boot
      <3>. QED  BY <3>1, <3>2
    <2>. QED  BY <2>1 DEF ReadyListsExact
  <1>6. GroupExact(b)
    BY <1>1, <1>2, <1>3 DEF Boot, GroupExact
  <1>7. WaitListsExact(b, {})
    BY <1>3 DEF Boot, WaitListsExact
  <1>8. OneRunning(b) /\ ArmedSuspended(b, {}) /\ DefunctClosed(b)
    BY <1>3 DEF Boot, OneRunning, ArmedSuspended, DefunctClosed
  <1>. QED  BY <1>4, <1>5, <1>6, <1>7, <1>8 DEF KernelInv
=============================================================================
