------------------------------ MODULE HoleProofs ------------------------------
(***************************************************************************)
(* The holes of memory.  First what the operations on the hole table do to *)
(* the memory it lists, for every table: the lemmas behind the proofs      *)
(* about HoleList and about Alloc.  Then the proofs about HoleList, for    *)
(* any number of entries and any memory: its links are the table's         *)
(* sequence, whatever values the pointers have before they are set.        *)
(***************************************************************************)
EXTENDS HoleList, FiniteSetTheorems, WellFoundedInduction, NaturalsInduction,
        SequenceTheorems, TLAPS

(* Numbers that some test picks have a least one. *)
LEMMA Least ==
  ASSUME NEW T \in SUBSET Nat, T # {}
  PROVE  \E n \in T : \A k \in T : n <= k
<1>1. \E n \in T : \A k \in T : <<k, n>> \notin OpToRel(<, Nat)
  BY NatLessThanWellFounded, WFMin
<1>2. PICK n \in T : \A k \in T : <<k, n>> \notin OpToRel(<, Nat)
  BY <1>1
<1>3. ASSUME NEW k \in T PROVE n <= k
  <2>1. n \in Nat /\ k \in Nat
    OBVIOUS
  <2>2. ~ (k < n)
    BY <1>2, <2>1 DEF OpToRel
  <2> QED BY <2>1, <2>2
<1> QED BY <1>3

LEMMA Trichotomy == \A a, b \in Nat : a < b \/ b < a \/ a = b
  OBVIOUS

(* RemoveAt closes the gap. *)
LEMMA Removed ==
  ASSUME NEW S, NEW s \in Seq(S), NEW k \in 1..Len(s)
  PROVE  /\ RemoveAt(s, k) \in Seq(S)
         /\ Len(RemoveAt(s, k)) = Len(s) - 1
         /\ \A j \in 1..Len(s) - 1 :
              RemoveAt(s, k)[j] = IF j < k THEN s[j] ELSE s[j + 1]
<1> DEFINE before == SubSeq(s, 1, k - 1)
           after  == SubSeq(s, k + 1, Len(s))
<1>1. Len(s) \in Nat
  OBVIOUS
<1>2. /\ before \in Seq(S) /\ Len(before) = k - 1
      /\ \A j \in 1..k - 1 : before[j] = s[j]
  BY <1>1
<1>3. /\ after \in Seq(S) /\ Len(after) = Len(s) - k
      /\ \A j \in 1..Len(s) - k : after[j] = s[k + j]
  BY <1>1
<1>4. RemoveAt(s, k) = before \o after
  BY DEF RemoveAt
<1> HIDE DEF before, after
<1> DEFINE whole == before \o after
<1>5. whole \in Seq(S) /\ Len(whole) = Len(s) - 1
  <2>1. whole \in Seq(S) /\ Len(whole) = Len(before) + Len(after)
    BY <1>2, <1>3, ConcatProperties, Zenon
  <2> QED BY <1>1, <1>2, <1>3, <2>1
<1>6. ASSUME NEW j \in 1..Len(s) - 1
      PROVE  whole[j] = IF j < k THEN s[j] ELSE s[j + 1]
  <2>1. CASE j < k
    BY <1>1, <1>2, <1>3, <2>1
  <2>2. CASE j >= k
    <3>1. whole[j] = after[j - (k - 1)]
      BY <1>1, <1>2, <1>3, <2>2
    <3>2. j - (k - 1) \in 1..Len(s) - k
      BY <1>1, <2>2
    <3>3. after[j - (k - 1)] = s[k + (j - (k - 1))]
      BY <1>3, <3>2
    <3>4. k + (j - (k - 1)) = j + 1 /\ ~ (j < k)
      BY <1>1, <2>2
    <3> QED BY <3>1, <3>3, <3>4
  <2>3. j < k \/ j >= k
    BY <1>1
  <2> HIDE DEF whole
  <2> QED BY <2>1, <2>2, <2>3, Zenon
<1> QED BY <1>4, <1>5, <1>6
------------------------------------------------------------------------------
(* The members of a finite set of numbers can be put in order: each goes   *)
(* to the place that the number of those up to it says.                    *)
LEMMA InOrder ==
  ASSUME NEW ps \in SUBSET Nat, IsFiniteSet(ps)
  PROVE  /\ Ascending(ps) \in Seq(ps)
         /\ Len(Ascending(ps)) = Cardinality(ps)
         /\ \A j, k \in DOMAIN Ascending(ps) :
              j < k => Ascending(ps)[j] < Ascending(ps)[k]
         /\ \A j, k \in DOMAIN Ascending(ps) :
              Ascending(ps)[j] = Ascending(ps)[k] => j = k
         /\ Range(Ascending(ps)) = ps
<1> DEFINE n == Cardinality(ps)
           upto(p) == {q \in ps : q <= p}
           place == [p \in ps |-> Cardinality(upto(p))]
           Ordered(s) == \A j, k \in DOMAIN s : j < k => s[j] < s[k]
<1>1. ps \subseteq Nat
  OBVIOUS
<1>2. IsFiniteSet(ps) /\ n \in Nat
  BY FS_CardinalityType
<1>3. \A p \in ps : IsFiniteSet(upto(p)) /\ Cardinality(upto(p)) \in 1..n
  <2> SUFFICES ASSUME NEW p \in ps
               PROVE  IsFiniteSet(upto(p)) /\ Cardinality(upto(p)) \in 1..n
    OBVIOUS
  <2>1. IsFiniteSet(upto(p)) /\ Cardinality(upto(p)) <= n /\ Cardinality(upto(p)) \in Nat
    BY <1>2, FS_Subset, FS_CardinalityType
  <2>2. Cardinality(upto(p)) # 0
    <3>1. p \in upto(p)
      BY <1>1
    <3> QED BY <2>1, <3>1, FS_EmptySet
  <2> QED BY <1>2, <2>1, <2>2
<1>4. \A p, q \in ps : p < q => place[p] < place[q]
  <2> SUFFICES ASSUME NEW p \in ps, NEW q \in ps, p < q
               PROVE  place[p] < place[q]
    OBVIOUS
  <2>1. upto(p) \subseteq upto(q) /\ q \in upto(q) /\ q \notin upto(p)
    <3>1. p \in Nat /\ q \in Nat /\ q <= q /\ ~ (q <= p)
      BY <1>1
    <3>2. \A x \in ps : x <= p => x <= q
      BY <1>1
    <3> QED BY <3>1, <3>2, Zenon
  <2>2. /\ Cardinality(upto(p)) <= Cardinality(upto(q))
        /\ Cardinality(upto(p)) # Cardinality(upto(q))
    BY <1>3, <2>1, FS_Subset
  <2>3. Cardinality(upto(p)) \in Nat /\ Cardinality(upto(q)) \in Nat
    BY <1>3
  <2> QED BY <2>2, <2>3
<1>5. place \in [ps -> 1..n]
  BY <1>3
<1> HIDE DEF place
<1>6. place \in Injection(ps, 1..n)
  <2>1. \A p, q \in ps : place[p] = place[q] => p = q
    <3> SUFFICES ASSUME NEW p \in ps, NEW q \in ps, place[p] = place[q], p # q
                 PROVE  FALSE
      OBVIOUS
    <3>1. p < q \/ q < p
      BY <1>1
    <3>2. place[p] \in Nat /\ place[q] \in Nat
      BY <1>5, <1>2
    <3> QED BY <1>4, <3>1, <3>2
  <2> QED BY <1>5, <2>1 DEF Injection, IsInjective
<1>7. place \in Surjection(ps, 1..n)
  <2>1. IsFiniteSet(1..n) /\ Cardinality(1..n) = n
    BY <1>2, FS_Interval
  <2> QED BY <1>6, <2>1, FS_Injection
<1>8. \A k \in 1..n : \E p \in ps : place[p] = k
  BY <1>5, <1>7 DEF Surjection
<1> DEFINE order == [k \in 1..n |-> CHOOSE p \in ps : place[p] = k]
<1>9. order \in [1..n -> ps] /\ \A k \in 1..n : place[order[k]] = k
  BY <1>8
<1> HIDE DEF order
<1>10. Ordered(order)
  <2> SUFFICES ASSUME NEW j \in 1..n, NEW k \in 1..n, j < k
               PROVE  order[j] < order[k]
    BY <1>9
  <2>1. order[j] \in ps /\ order[k] \in ps /\ place[order[j]] = j /\ place[order[k]] = k
    BY <1>9
  <2>2. order[j] < order[k] \/ order[k] < order[j] \/ order[j] = order[k]
    BY <1>1, <2>1, Trichotomy, Zenon
  <2>3. ~ (k < j) /\ j # k
    BY <1>2
  <2> QED BY <1>4, <2>1, <2>2, <2>3, Zenon
<1> DEFINE s == Ascending(ps)
<1>11. s \in [1..n -> ps] /\ Ordered(s)
  BY <1>9, <1>10 DEF Ascending
<1> HIDE DEF s
<1>12. \A j, k \in DOMAIN s : s[j] = s[k] => j = k
  <2> SUFFICES ASSUME NEW j \in 1..n, NEW k \in 1..n, s[j] = s[k], j # k
               PROVE  FALSE
    BY <1>11
  <2>1. j < k \/ k < j
    BY <1>2
  <2>2. s[j] < s[k] \/ s[k] < s[j]
    BY <1>11, <2>1
  <2>3. s[j] \in Nat /\ s[k] \in Nat
    BY <1>1, <1>11, Zenon
  <2> QED BY <2>2, <2>3
<1>13. Range(s) = ps
  <2>1. s \in Injection(1..n, ps)
    BY <1>11, <1>12 DEF Injection, IsInjective
  <2>2. IsFiniteSet(1..n) /\ Cardinality(1..n) = n
    BY <1>2, FS_Interval
  <2>3. s \in Surjection(1..n, ps)
    BY <1>2, <2>1, <2>2, FS_Injection
  <2> QED BY <1>11, <2>3 DEF Surjection, Range
<1>14. s \in Seq(ps) /\ Len(s) = n
  BY <1>2, <1>11
<1> QED BY <1>11, <1>12, <1>13, <1>14 DEF s
------------------------------------------------------------------------------
(* A table whose slots are all there, in the list or free. *)
Counted(t) == t \in Tables /\ t.free + Len(t.list) = NR_HOLES

(* Click c is in a hole of the list. *)
In(l, c) == \E k \in DOMAIN l : l[k].base <= c /\ c < HoleEnd(l[k])

(* Sorted by address, no hole empty, and none touches its successor but    *)
(* those that S names.                                                     *)
Near(l, S) ==
  /\ \A k \in DOMAIN l : l[k].len > 0
  /\ \A j, k \in DOMAIN l :
       j < k => \/ HoleEnd(l[j]) < l[k].base
                \/ HoleEnd(l[j]) = l[k].base /\ k = j + 1 /\ j \in S

Sound(t) == Counted(t) /\ Near(t.list, {})

(* What del_slot leaves. *)
LEMMA Deleted ==
  ASSUME NEW t, Counted(t), NEW k \in 1..Len(t.list)
  PROVE  /\ Counted(del_slot(t, k))
         /\ del_slot(t, k).panic = t.panic
         /\ Len(del_slot(t, k).list) = Len(t.list) - 1
         /\ \A j \in 1..Len(t.list) - 1 :
              del_slot(t, k).list[j] = IF j < k THEN t.list[j] ELSE t.list[j + 1]
<1> DEFINE l == t.list
           r == RemoveAt(l, k)
<1>1. /\ l \in Seq(Holes) /\ Len(l) \in Nat /\ t.free \in 0..NR_HOLES
      /\ t.free + Len(l) = NR_HOLES /\ t \in Tables
  BY DEF Counted, Tables
<1>3. /\ r \in Seq(Holes) /\ Len(r) = Len(l) - 1
      /\ \A j \in 1..Len(l) - 1 : r[j] = IF j < k THEN l[j] ELSE l[j + 1]
  BY <1>1, Removed, Zenon
<1> HIDE DEF r
<1>4. t.free + 1 \in 0..NR_HOLES /\ t.free + 1 + Len(r) = NR_HOLES
  <2>1. t.free \in Nat /\ Len(r) \in Nat
    BY <1>1, <1>3
  <2>2. t.free + Len(l) = NR_HOLES /\ Len(r) = Len(l) - 1 /\ Len(l) \in Nat
    BY <1>1, <1>3
  <2> HIDE DEF l
  <2>3. t.free + 1 + Len(r) = NR_HOLES
    BY <2>1, <2>2
  <2> QED BY <2>1, <2>3
<1>5. LET u == del_slot(t, k)
      IN  /\ u \in Tables
          /\ u.list = r /\ u.free = t.free + 1 /\ u.panic = t.panic
  BY <1>1, <1>3, <1>4 DEF del_slot, Tables, r
<1> QED BY <1>3, <1>4, <1>5 DEF Counted

(* A hole that touches its successor takes its memory. *)
LEMMA Absorbed ==
  ASSUME NEW t, Counted(t), NEW k \in 1..Len(t.list), Touches(t, k)
  PROVE  /\ Counted(Absorb(t, k))
         /\ Absorb(t, k).panic = t.panic
         /\ Len(Absorb(t, k).list) = Len(t.list) - 1
         /\ \A j \in 1..Len(t.list) - 1 :
              Absorb(t, k).list[j] =
                IF j < k THEN t.list[j]
                ELSE IF j > k THEN t.list[j + 1]
                ELSE Hole(t.list[k].base, t.list[k].len + t.list[k + 1].len)
<1> DEFINE l == t.list
           both == Hole(l[k].base, l[k].len + l[k + 1].len)
           m == [l EXCEPT ![k] = both]
           u == [t EXCEPT !.list[k].len = @ + l[k + 1].len]
<1>1. /\ l \in Seq(Holes) /\ Len(l) \in Nat /\ t.free \in 0..NR_HOLES
      /\ t.free + Len(l) = NR_HOLES /\ t \in Tables
  BY DEF Counted, Tables
<1>2. k \in DOMAIN l /\ k + 1 \in DOMAIN l
  BY <1>1 DEF Touches
<1>3. l[k] \in Holes /\ l[k + 1] \in Holes
  BY <1>1, <1>2
<1>4. both \in Holes /\ both = [l[k] EXCEPT !.len = @ + l[k + 1].len]
  BY <1>3 DEF Holes, Hole
<1>6. /\ m \in Seq(Holes) /\ Len(m) = Len(l)
      /\ \A j \in 1..Len(l) : m[j] = IF j = k THEN both ELSE l[j]
  BY <1>1, <1>4
<1>7. Absorb(t, k) = del_slot(u, k + 1)
  BY DEF Absorb
<1>8. u \in Tables /\ u.list = m /\ u.free = t.free /\ u.panic = t.panic
  BY <1>1, <1>2, <1>4, <1>6 DEF Tables
<1> HIDE DEF both, m
<1> HIDE DEF u
<1> DEFINE d == del_slot(u, k + 1)
<1>9. /\ Counted(d) /\ d.panic = t.panic /\ Len(d.list) = Len(l) - 1
      /\ \A j \in 1..Len(l) - 1 : d.list[j] = IF j < k + 1 THEN m[j] ELSE m[j + 1]
  <2>0. Counted(u) /\ k + 1 \in 1..Len(u.list)
    BY <1>1, <1>2, <1>6, <1>8 DEF Counted
  <2>1. /\ Counted(d) /\ d.panic = u.panic /\ Len(d.list) = Len(u.list) - 1
        /\ \A j \in 1..Len(u.list) - 1 :
             d.list[j] = IF j < k + 1 THEN u.list[j] ELSE u.list[j + 1]
    BY <2>0, Deleted, Zenon DEF d
  <2> QED BY <1>6, <1>8, <2>1
<1> HIDE DEF d
<1>10. ASSUME NEW j \in 1..Len(l) - 1
       PROVE  d.list[j] = IF j < k THEN l[j] ELSE IF j > k THEN l[j + 1] ELSE both
  BY <1>1, <1>6, <1>9
<1> QED BY <1>7, <1>9, <1>10 DEF d, both

(* Absorbing changes neither the order of the holes nor the memory they    *)
(* list, and afterwards the k-th hole touches its successor only if that   *)
(* was the one after the hole absorbed.                                    *)
LEMMA AbsorbedSound ==
  ASSUME NEW t, Counted(t), NEW k \in 1..Len(t.list), Touches(t, k),
         NEW S \in SUBSET Int, Near(t.list, S)
  PROVE  /\ Near(Absorb(t, k).list,
                 {j \in Int : IF j < k THEN j \in S ELSE j + 1 \in S})
         /\ \A c \in Int : In(Absorb(t, k).list, c) <=> In(t.list, c)
<1> DEFINE l == t.list
           r == Absorb(t, k).list
           n == Len(l)
           both == Hole(l[k].base, l[k].len + l[k + 1].len)
           S2 == {j \in Int : IF j < k THEN j \in S ELSE j + 1 \in S}
           old(j) == IF j <= k THEN j ELSE j + 1
<1>1. l \in Seq(Holes) /\ n \in Nat
  BY DEF Counted, Tables
<1>2. k \in 1..n /\ k + 1 \in 1..n /\ HoleEnd(l[k]) = l[k + 1].base
  BY <1>1 DEF Touches
<1>3. /\ r \in Seq(Holes) /\ Len(r) = n - 1
      /\ \A j \in 1..n - 1 :
           r[j] = IF j < k THEN l[j] ELSE IF j > k THEN l[j + 1] ELSE both
  <2>1. Counted(Absorb(t, k)) /\ Len(r) = n - 1
    BY Absorbed, Zenon
  <2>2. r \in Seq(Holes)
    BY <2>1 DEF Counted, Tables
  <2> QED BY <2>1, <2>2, Absorbed, Zenon
<1>4. \A j \in 1..n : l[j] \in Holes
  BY <1>1
<1>5. \A j \in 1..n : l[j].base \in Nat /\ l[j].len \in Nat
  BY <1>4 DEF Holes
<1>6. both.base = l[k].base /\ HoleEnd(both) = HoleEnd(l[k + 1])
      /\ both.len = l[k].len + l[k + 1].len
  BY <1>2, <1>5 DEF Hole, HoleEnd
<1>7. DOMAIN r = 1..n - 1 /\ DOMAIN l = 1..n
  BY <1>1, <1>3
<1> HIDE DEF both, r, l, n
<1>8. \A j \in 1..n : l[j].len > 0
  BY <1>7 DEF Near, l
<1>9. \A i, j \in 1..n :
        i < j => \/ HoleEnd(l[i]) < l[j].base
                 \/ HoleEnd(l[i]) = l[j].base /\ j = i + 1 /\ i \in S
  BY <1>7 DEF Near, l
<1>10. \A j \in 1..n - 1 :
         /\ r[j].base = l[old(j)].base /\ r[j].len > 0
         /\ HoleEnd(r[j]) = IF j < k THEN HoleEnd(l[j]) ELSE HoleEnd(l[j + 1])
  <2> SUFFICES ASSUME NEW j \in 1..n - 1
               PROVE  /\ r[j].base = l[old(j)].base /\ r[j].len > 0
                      /\ HoleEnd(r[j]) = IF j < k THEN HoleEnd(l[j]) ELSE HoleEnd(l[j + 1])
    OBVIOUS
  <2>1. k \in Int /\ j \in Int
    BY <1>1
  <2>2. CASE j < k
    <3>1. r[j] = l[j] /\ old(j) = j
      BY <1>3, <2>1, <2>2
    <3> QED BY <1>1, <1>8, <2>2, <3>1
  <2>3. CASE j > k
    <3>1. r[j] = l[j + 1] /\ old(j) = j + 1 /\ j + 1 \in 1..n /\ ~ (j < k)
      BY <1>1, <1>3, <2>1, <2>3
    <3> QED BY <1>8, <3>1
  <2>4. CASE j = k
    <3>1. r[j] = both /\ old(j) = j /\ ~ (j < k) /\ k \in 1..n
      BY <1>1, <1>3, <2>1, <2>4
    <3>2. both.len > 0
      BY <1>2, <1>5, <1>6, <1>8, <3>1
    <3> QED BY <1>6, <2>4, <3>1, <3>2
  <2> QED BY <2>1, <2>2, <2>3, <2>4
<1>11. Near(r, S2)
  <2>1. ASSUME NEW i \in 1..n - 1, NEW j \in 1..n - 1, i < j
        PROVE  \/ HoleEnd(r[i]) < r[j].base
               \/ HoleEnd(r[i]) = r[j].base /\ j = i + 1 /\ i \in S2
    <3> DEFINE a == IF i < k THEN i ELSE i + 1
               b == old(j)
    <3>1. a \in 1..n /\ b \in 1..n /\ a < b /\ (b = a + 1 => j = i + 1)
      BY <1>1, <1>2, <2>1
    <3>2. HoleEnd(r[i]) = HoleEnd(l[a]) /\ r[j].base = l[b].base
      BY <1>10, <2>1
    <3>3. a \in S => i \in S2
      BY <1>1, <2>1
    <3> HIDE DEF a, b, S2
    <3> QED BY <1>9, <3>1, <3>2, <3>3
  <2> QED BY <1>7, <1>10, <2>1 DEF Near
<1>12. ASSUME NEW c \in Int PROVE In(r, c) <=> In(l, c)
  <2>1. ASSUME NEW j \in 1..n - 1, r[j].base <= c, c < HoleEnd(r[j]) PROVE In(l, c)
    <3>1. CASE j # k
      <4>1. old(j) \in 1..n /\ l[old(j)].base <= c /\ c < HoleEnd(l[old(j)])
        BY <1>1, <1>10, <2>1, <3>1
      <4> QED BY <1>7, <4>1 DEF In
    <3>2. CASE j = k
      <4>1. \/ l[k].base <= c /\ c < HoleEnd(l[k])
            \/ l[k + 1].base <= c /\ c < HoleEnd(l[k + 1])
        BY <1>2, <1>5, <1>10, <2>1, <3>2 DEF HoleEnd
      <4> QED BY <1>1, <1>2, <1>7, <4>1 DEF In
    <3> QED BY <3>1, <3>2
  <2>2. ASSUME NEW j \in 1..n, l[j].base <= c, c < HoleEnd(l[j]) PROVE In(r, c)
    <3> DEFINE i == IF j <= k THEN j ELSE j - 1
    <3>1. i \in 1..n - 1
      BY <1>1, <1>2
    <3>2. r[i].base <= c /\ c < HoleEnd(r[i])
      <4>1. r[i].base = l[old(i)].base /\ HoleEnd(r[i]) = IF i < k THEN HoleEnd(l[i]) ELSE HoleEnd(l[i + 1])
        BY <1>10, <3>1
      <4>2. CASE j < k
        BY <1>1, <2>2, <4>1, <4>2
      <4>3. CASE j = k
        <5>1. r[i].base = l[k].base /\ HoleEnd(r[i]) = HoleEnd(l[k + 1])
          BY <1>1, <4>1, <4>3
        <5> QED BY <1>2, <1>5, <2>2, <4>3, <5>1 DEF HoleEnd
      <4>4. CASE j = k + 1
        <5>1. r[i].base = l[k].base /\ HoleEnd(r[i]) = HoleEnd(l[k + 1])
          BY <1>1, <4>1, <4>4
        <5> QED BY <1>2, <1>5, <2>2, <4>4, <5>1 DEF HoleEnd
      <4>5. CASE j > k + 1
        <5>1. i > k /\ i + 1 = j /\ old(i) = j /\ ~ (i < k)
          BY <1>1, <4>5
        <5> QED BY <2>2, <4>1, <5>1
      <4> QED BY <1>1, <4>2, <4>3, <4>4, <4>5
    <3> QED BY <1>7, <3>1, <3>2 DEF In
  <2> QED BY <1>7, <2>1, <2>2 DEF In
<1> QED BY <1>11, <1>12 DEF r, l, S2

(* The same, whether they touch or not. *)
LEMMA AbsorbStep ==
  ASSUME NEW t, Counted(t), NEW k \in Nat \ {0},
         NEW S \in SUBSET Int, Near(t.list, S)
  PROVE  /\ Counted(Absorb(t, k))
         /\ Absorb(t, k).panic = t.panic
         /\ \A c \in Int : In(Absorb(t, k).list, c) <=> In(t.list, c)
         /\ Near(Absorb(t, k).list,
                 IF Touches(t, k) THEN {j \in Int : IF j < k THEN j \in S ELSE j + 1 \in S}
                                  ELSE S \ {k})
<1>1. CASE Touches(t, k)
  <2>1. k \in 1..Len(t.list)
    <3>1. Len(t.list) \in Nat /\ k < Len(t.list)
      BY <1>1 DEF Counted, Tables, Touches
    <3> QED BY <3>1
  <2>2. Counted(Absorb(t, k)) /\ Absorb(t, k).panic = t.panic
    BY <1>1, <2>1, Absorbed, Zenon
  <2> DEFINE S2 == {j \in Int : IF j < k THEN j \in S ELSE j + 1 \in S}
  <2>3. /\ Near(Absorb(t, k).list, S2)
        /\ \A c \in Int : In(Absorb(t, k).list, c) <=> In(t.list, c)
    BY <1>1, <2>1, AbsorbedSound, Zenon
  <2>4. S2 = IF Touches(t, k) THEN S2 ELSE S \ {k}
    BY <1>1, Zenon
  <2> QED BY <2>2, <2>3, <2>4, Zenon
<1>2. CASE ~ Touches(t, k)
  <2>1. Absorb(t, k) = t
    BY <1>2 DEF Absorb
  <2>2. Near(t.list, S \ {k})
    <3> DEFINE l == t.list
    <3>1. l \in Seq(Holes) /\ DOMAIN l = 1..Len(l) /\ Len(l) \in Nat
      BY DEF Counted, Tables
    <3>2. \A i, j \in DOMAIN l :
            i < j => \/ HoleEnd(l[i]) < l[j].base
                     \/ HoleEnd(l[i]) = l[j].base /\ j = i + 1 /\ i \in S
      BY DEF Near
    <3>3. ~ (k < Len(l) /\ HoleEnd(l[k]) = l[k + 1].base)
      BY <1>2 DEF Touches
    <3> HIDE DEF l
    <3>4. \A i, j \in DOMAIN l :
            i < j => \/ HoleEnd(l[i]) < l[j].base
                     \/ HoleEnd(l[i]) = l[j].base /\ j = i + 1 /\ i \in S \ {k}
      BY <3>1, <3>2, <3>3
    <3> QED BY <3>4 DEF Near, l
  <2> QED BY <1>2, <2>1, <2>2
<1> QED BY <1>1, <1>2

(* merge, started at the first of two holes that may touch their           *)
(* successors, leaves none that touches its own.                           *)
LEMMA Merged ==
  ASSUME NEW t, Counted(t), NEW q \in Nat \ {0}, Near(t.list, {q, q + 1})
  PROVE  /\ Sound(merge(t, q))
         /\ merge(t, q).panic = t.panic
         /\ \A c \in Int : In(merge(t, q).list, c) <=> In(t.list, c)
<1> DEFINE S == {q, q + 1}
<1>1. S \in SUBSET Int /\ q + 1 \in Nat \ {0}
  OBVIOUS
<1>2. CASE Touches(t, q)
  <2> DEFINE a == Absorb(t, q)
             S2 == {j \in Int : IF j < q THEN j \in S ELSE j + 1 \in S}
             S3 == {j \in Int : IF j < q THEN j \in S2 ELSE j + 1 \in S2}
  <2>1. /\ Counted(a) /\ a.panic = t.panic /\ Near(a.list, S2)
        /\ \A c \in Int : In(a.list, c) <=> In(t.list, c)
    BY <1>1, <1>2, AbsorbStep, Zenon
  <2>2. S2 = {q} /\ S2 \ {q} = {} /\ S2 \in SUBSET Int
    OBVIOUS
  <2>3. S3 = {}
    OBVIOUS
  <2> HIDE DEF a, S2
  <2>4. /\ Counted(Absorb(a, q)) /\ Absorb(a, q).panic = a.panic
        /\ \A c \in Int : In(Absorb(a, q).list, c) <=> In(a.list, c)
        /\ Near(Absorb(a, q).list, IF Touches(a, q) THEN S3 ELSE S2 \ {q})
    BY <2>1, <2>2, AbsorbStep, Zenon
  <2>5. merge(t, q) = Absorb(a, q)
    BY <1>2 DEF merge, a
  <2>6. Near(Absorb(a, q).list, {})
    BY <2>2, <2>3, <2>4, Zenon
  <2> QED BY <2>1, <2>4, <2>5, <2>6 DEF Sound
<1>3. CASE ~ Touches(t, q)
  <2> DEFINE S2 == S \ {q}
             S3 == {j \in Int : IF j < q + 1 THEN j \in S2 ELSE j + 1 \in S2}
  <2>1. Absorb(t, q) = t
    BY <1>3 DEF Absorb
  <2>2. Near(t.list, S2)
    BY <1>1, <1>3, <2>1, AbsorbStep, Zenon
  <2>3. S2 \in SUBSET Int /\ S3 = {} /\ S2 \ {q + 1} = {}
    OBVIOUS
  <2> HIDE DEF S2
  <2>4. /\ Counted(Absorb(t, q + 1)) /\ Absorb(t, q + 1).panic = t.panic
        /\ \A c \in Int : In(Absorb(t, q + 1).list, c) <=> In(t.list, c)
        /\ Near(Absorb(t, q + 1).list, IF Touches(t, q + 1) THEN S3 ELSE S2 \ {q + 1})
    BY <1>1, <2>2, <2>3, AbsorbStep, Zenon
  <2>5. merge(t, q) = Absorb(t, q + 1)
    BY <1>3 DEF merge
  <2>6. Near(Absorb(t, q + 1).list, {})
    BY <2>3, <2>4, Zenon
  <2> QED BY <2>4, <2>5, <2>6 DEF Sound
<1> QED BY <1>2, <1>3

LEMMA AbsorbCounted ==
  ASSUME NEW t, Counted(t), NEW k \in Nat \ {0}
  PROVE  /\ Counted(Absorb(t, k)) /\ Absorb(t, k).panic = t.panic
         /\ Len(Absorb(t, k).list) <= Len(t.list)
<1>1. Len(t.list) \in Nat
  BY DEF Counted, Tables
<1>2. CASE Touches(t, k)
  <2>1. k \in 1..Len(t.list)
    <3>1. k < Len(t.list)
      BY <1>2 DEF Touches
    <3> QED BY <1>1, <3>1
  <2>2. /\ Counted(Absorb(t, k)) /\ Absorb(t, k).panic = t.panic
        /\ Len(Absorb(t, k).list) = Len(t.list) - 1
    BY <1>2, <2>1, Absorbed, Zenon
  <2> QED BY <1>1, <2>2
<1>3. CASE ~ Touches(t, k)
  BY <1>1, <1>3 DEF Absorb
<1> QED BY <1>2, <1>3

LEMMA MergeCounted ==
  ASSUME NEW t, Counted(t), NEW k \in Nat \ {0}
  PROVE  Counted(merge(t, k)) /\ Len(merge(t, k).list) <= Len(t.list)
<1> DEFINE a == Absorb(t, k)
           b == Absorb(t, k + 1)
           c == Absorb(a, k)
<1>1. k + 1 \in Nat \ {0}
  OBVIOUS
<1>2. /\ Counted(a) /\ Counted(b)
      /\ Len(a.list) <= Len(t.list) /\ Len(b.list) <= Len(t.list)
  BY <1>1, AbsorbCounted, Zenon
<1>3. merge(t, k) = IF Touches(t, k) THEN c ELSE b
  BY DEF merge
<1> HIDE DEF a, b
<1>4. Counted(c) /\ Len(c.list) <= Len(a.list)
  BY <1>2, AbsorbCounted, Zenon
<1> HIDE DEF c
<1>5. /\ Len(a.list) \in Nat /\ Len(b.list) \in Nat /\ Len(c.list) \in Nat
      /\ Len(t.list) \in Nat
  BY <1>2, <1>4 DEF Counted, Tables
<1> QED BY <1>2, <1>3, <1>4, <1>5
------------------------------------------------------------------------------
LEMMA MinIs ==
  ASSUME NEW T \in SUBSET Nat, T # {}
  PROVE  Min(T) \in T /\ \A k \in T : Min(T) <= k
<1>1. \E n \in T : \A k \in T : n <= k
  BY Least, Zenon
<1> QED BY <1>1, Zenon DEF Min

(* InsertAt makes a gap and fills it. *)
LEMMA Inserted ==
  ASSUME NEW S, NEW s \in Seq(S), NEW k \in 1..Len(s) + 1, NEW e \in S
  PROVE  /\ InsertAt(s, k, e) \in Seq(S)
         /\ Len(InsertAt(s, k, e)) = Len(s) + 1
         /\ \A j \in 1..Len(s) + 1 : j < k => InsertAt(s, k, e)[j] = s[j]
         /\ InsertAt(s, k, e)[k] = e
         /\ \A j \in 1..Len(s) + 1 : k < j => InsertAt(s, k, e)[j] = s[j - 1]
<1> DEFINE before == SubSeq(s, 1, k - 1)
           after  == SubSeq(s, k, Len(s))
           one    == <<e>>
           front  == before \o one
           whole  == front \o after
<1>1. Len(s) \in Nat
  OBVIOUS
<1>2. /\ before \in Seq(S) /\ Len(before) = k - 1
      /\ \A j \in 1..k - 1 : before[j] = s[j]
  BY <1>1
<1>3. /\ after \in Seq(S) /\ Len(after) = Len(s) - k + 1
      /\ \A j \in 1..Len(s) - k + 1 : after[j] = s[k + j - 1]
  BY <1>1
<1>4. one \in Seq(S) /\ Len(one) = 1 /\ one[1] = e
  OBVIOUS
<1>5. InsertAt(s, k, e) = whole
  BY DEF InsertAt
<1> HIDE DEF before, after, one
<1>6. /\ front \in Seq(S) /\ Len(front) = Len(before) + Len(one)
      /\ \A j \in 1..Len(before) + Len(one) :
           front[j] = IF j <= Len(before) THEN before[j] ELSE one[j - Len(before)]
  BY <1>2, <1>4, ConcatProperties, Zenon
<1>7. /\ Len(front) = k
      /\ \A j \in 1..k : front[j] = IF j < k THEN s[j] ELSE e
  BY <1>1, <1>2, <1>4, <1>6
<1> HIDE DEF front
<1>8. /\ whole \in Seq(S) /\ Len(whole) = Len(front) + Len(after)
      /\ \A j \in 1..Len(front) + Len(after) :
           whole[j] = IF j <= Len(front) THEN front[j] ELSE after[j - Len(front)]
  <2>1. front \in Seq(S) /\ after \in Seq(S)
    BY <1>3, <1>6
  <2> QED BY <2>1, ConcatProperties, Zenon
<1> HIDE DEF whole
<1>9. Len(whole) = Len(s) + 1
  BY <1>1, <1>3, <1>7, <1>8
<1>10. ASSUME NEW j \in 1..Len(s) + 1
       PROVE  whole[j] = IF j < k THEN s[j] ELSE IF j = k THEN e ELSE s[j - 1]
  <2>1. CASE j <= k
    BY <1>1, <1>3, <1>7, <1>8, <2>1
  <2>2. CASE j > k
    <3>1. whole[j] = after[j - k] /\ j - k \in 1..Len(s) - k + 1
      BY <1>1, <1>3, <1>7, <1>8, <2>2
    <3>2. after[j - k] = s[k + (j - k) - 1]
      BY <1>3, <3>1
    <3>3. k + (j - k) - 1 = j - 1 /\ ~ (j < k) /\ j # k
      BY <1>1, <2>2
    <3> QED BY <3>1, <3>2, <3>3
  <2> QED BY <1>1, <2>1, <2>2
<1>11. /\ \A j \in 1..Len(s) + 1 : j < k => whole[j] = s[j]
       /\ whole[k] = e
       /\ \A j \in 1..Len(s) + 1 : k < j => whole[j] = s[j - 1]
  BY <1>1, <1>10
<1> QED BY <1>5, <1>8, <1>9, <1>11

(* A block goes between the holes below it and those above. *)
LEMMA PlaceIs ==
  ASSUME NEW t, Counted(t), NEW base \in Nat
  PROVE  /\ Place(t, base) \in 1..Len(t.list) + 1
         /\ \A j \in 1..Len(t.list) : j < Place(t, base) => t.list[j].base < base
         /\ Place(t, base) \in 1..Len(t.list) => base <= t.list[Place(t, base)].base
<1> DEFINE l == t.list
           found == {k \in DOMAIN l : base <= l[k].base}
           p == IF found = {} THEN Len(l) + 1 ELSE Min(found)
<1>1. l \in Seq(Holes) /\ Len(l) \in Nat /\ DOMAIN l = 1..Len(l)
  BY DEF Counted, Tables
<1>2. \A j \in 1..Len(l) : l[j].base \in Nat
  <2>1. \A j \in 1..Len(l) : l[j] \in Holes
    BY <1>1
  <2> HIDE DEF l
  <2> QED BY <2>1 DEF Holes
<1>3. found \in SUBSET Nat /\ 0 \notin found
  BY <1>1
<1>4. found # {} => Min(found) \in found /\ \A k \in found : Min(found) <= k
  BY <1>3, MinIs, Zenon
<1>5. Place(t, base) = p
  <2>1. FirstHole(t, LAMBDA h : base <= h.base) = IF found = {} THEN 0 ELSE Min(found)
    BY DEF FirstHole
  <2> QED BY <1>3, <1>4, <2>1 DEF Place, FirstHole
<1> HIDE DEF l
<1>6. CASE found = {}
  BY <1>1, <1>2, <1>5, <1>6 DEF l
<1>7. CASE found # {}
  <2>1. p \in DOMAIN l /\ base <= l[p].base /\ \A k \in found : p <= k
    BY <1>4, <1>7
  <2> HIDE DEF p
  <2>2. ASSUME NEW j \in 1..Len(l), j < p PROVE l[j].base < base
    <3>1. ~ (p <= j)
      BY <1>1, <2>1, <2>2
    <3>2. ~ (base <= l[j].base)
      BY <1>1, <2>1, <3>1
    <3>3. l[j].base \in Nat
      BY <1>2
    <3> QED BY <3>2, <3>3
  <2>3. p \in 1..Len(l) + 1
    BY <1>1, <2>1
  <2> QED BY <1>1, <1>5, <2>1, <2>2, <2>3 DEF l
<1> QED BY <1>6, <1>7

------------------------------------------------------------------------------
(* free_mem before it merges: one slot less, one hole more, in its place.  *)
Entered(t, base, clicks) ==
  [t EXCEPT !.list = InsertAt(@, Place(t, base), Hole(base, clicks)), !.free = @ - 1]

LEMMA Linked ==
  ASSUME NEW t, Counted(t), NEW base \in Nat, NEW clicks \in Nat \ {0}, t.free # 0
  PROVE  LET p == Place(t, base)
             u == Entered(t, base, clicks)
         IN  /\ Counted(u) /\ u.panic = t.panic /\ Len(u.list) = Len(t.list) + 1
             /\ \A j \in 1..Len(t.list) + 1 :
                  u.list[j] = IF j < p THEN t.list[j]
                              ELSE IF j = p THEN Hole(base, clicks) ELSE t.list[j - 1]
             /\ free_mem(t, base, clicks) = merge(u, MergeFrom(p))
             /\ p \in 1..Len(t.list) + 1 /\ MergeFrom(p) \in Nat \ {0}
<1> DEFINE l == t.list
           p == Place(t, base)
           h == Hole(base, clicks)
           m == InsertAt(l, p, h)
           u == Entered(t, base, clicks)
<1>1. /\ l \in Seq(Holes) /\ Len(l) \in Nat /\ t.free \in 0..NR_HOLES
      /\ t.free + Len(l) = NR_HOLES /\ t \in Tables
  BY DEF Counted, Tables
<1>2. h \in Holes
  BY DEF Hole, Holes
<1>3. p \in 1..Len(l) + 1
  BY PlaceIs, Zenon
<1>4. MergeFrom(p) \in Nat \ {0}
  BY <1>1, <1>3 DEF MergeFrom
<1>5. free_mem(t, base, clicks) = merge(u, MergeFrom(p))
  BY DEF free_mem, Entered
<1> HIDE DEF h, p
<1>6. /\ m \in Seq(Holes) /\ Len(m) = Len(l) + 1
      /\ \A j \in 1..Len(l) + 1 : m[j] = IF j < p THEN l[j] ELSE IF j = p THEN h ELSE l[j - 1]
  <2>1. l \in Seq(Holes)
    BY <1>1
  <2>2. /\ m \in Seq(Holes) /\ Len(m) = Len(l) + 1
        /\ \A j \in 1..Len(l) + 1 : j < p => m[j] = l[j]
        /\ m[p] = h
        /\ \A j \in 1..Len(l) + 1 : p < j => m[j] = l[j - 1]
    <3> HIDE DEF l, u
    <3> QED BY <1>2, <1>3, <2>1, Inserted
  <2> HIDE DEF m
  <2> QED BY <1>1, <1>3, <2>2
<1> HIDE DEF m
<1>7. t.free - 1 \in 0..NR_HOLES /\ t.free - 1 + Len(m) = NR_HOLES
  <2>1. t.free \in Nat /\ Len(l) \in Nat /\ t.free # 0
    BY <1>1
  <2>2. t.free + Len(l) = NR_HOLES /\ Len(m) = Len(l) + 1
    BY <1>1, <1>6
  <2> HIDE DEF l
  <2> QED BY <2>1, <2>2
<1>8. u \in Tables /\ u.list = m /\ u.free = t.free - 1 /\ u.panic = t.panic
  BY <1>1, <1>6, <1>7 DEF Tables, m, Entered, p, h
<1> HIDE DEF u
<1>9. Counted(u)
  BY <1>7, <1>8 DEF Counted
<1> QED BY <1>3, <1>4, <1>5, <1>6, <1>8, <1>9 DEF u, p, h

LEMMA FreeCounted ==
  ASSUME NEW t, Counted(t), NEW base \in Nat, NEW clicks \in Nat
  PROVE  /\ Counted(free_mem(t, base, clicks))
         /\ Len(free_mem(t, base, clicks).list) <= Len(t.list) + 1
<1>0. Len(t.list) \in Nat
  BY DEF Counted, Tables
<1>1. CASE clicks = 0
  BY <1>0, <1>1 DEF free_mem
<1>2. CASE clicks # 0 /\ t.free = 0
  <2>1. free_mem(t, base, clicks) = [t EXCEPT !.panic = TRUE]
    BY <1>2 DEF free_mem
  <2> DEFINE u == [t EXCEPT !.panic = TRUE]
  <2>2. u \in Tables /\ u.list = t.list /\ u.free = t.free
    BY DEF Counted, Tables
  <2> HIDE DEF u
  <2>3. Counted(u) /\ Len(u.list) <= Len(t.list) + 1
    BY <1>0, <2>2 DEF Counted
  <2> QED BY <2>1, <2>3 DEF u
<1>3. CASE clicks # 0 /\ t.free # 0
  <2> DEFINE p == Place(t, base)
             u == Entered(t, base, clicks)
  <2>1. /\ Counted(u) /\ MergeFrom(p) \in Nat \ {0} /\ Len(u.list) = Len(t.list) + 1
        /\ free_mem(t, base, clicks) = merge(u, MergeFrom(p))
    BY <1>3, Linked, Zenon
  <2> HIDE DEF u, p
  <2>2. /\ Counted(merge(u, MergeFrom(p)))
        /\ Len(merge(u, MergeFrom(p)).list) <= Len(u.list)
    BY <2>1, MergeCounted, Zenon
  <2> QED BY <2>1, <2>2, Zenon
<1> QED BY <1>1, <1>2, <1>3

(* free_mem of a block of which no click is in a hole: the table lists the *)
(* block and what it listed before, and no two holes touch.                *)
LEMMA Freed ==
  ASSUME NEW t, Sound(t), NEW base \in Nat, NEW clicks \in Nat,
         clicks # 0 => t.free # 0,
         \A c \in base..base + clicks - 1 : ~ In(t.list, c)
  PROVE  LET f == free_mem(t, base, clicks)
         IN  /\ Sound(f) /\ f.panic = t.panic
             /\ \A c \in Int : In(f.list, c) <=> In(t.list, c) \/ c \in base..base + clicks - 1
<1>1. CASE clicks = 0
  <2>1. free_mem(t, base, clicks) = t /\ \A c \in Int : c \notin base..base + clicks - 1
    BY <1>1 DEF free_mem
  <2> QED BY <2>1, Zenon
<1>2. CASE clicks # 0
  <2> DEFINE l == t.list
             n == Len(l)
             p == Place(t, base)
             q == MergeFrom(p)
             h == Hole(base, clicks)
             u == Entered(t, base, clicks)
             m == u.list
             f == free_mem(t, base, clicks)
  <2>1. /\ Counted(u) /\ u.panic = t.panic /\ Len(m) = n + 1 /\ f = merge(u, q)
        /\ \A j \in 1..n + 1 : m[j] = IF j < p THEN l[j] ELSE IF j = p THEN h ELSE l[j - 1]
        /\ p \in 1..n + 1 /\ q \in Nat \ {0}
    <3>1. Counted(t) /\ clicks \in Nat \ {0} /\ t.free # 0
      BY <1>2 DEF Sound
    <3> QED BY <3>1, Linked, Zenon
  <2>2. l \in Seq(Holes) /\ n \in Nat /\ m \in Seq(Holes)
    <3>1. l \in Seq(Holes)
      BY DEF Sound, Counted, Tables
    <3> HIDE DEF l, u
    <3>2. u \in Tables
      BY <2>1 DEF Counted
    <3>3. m \in Seq(Holes)
      BY <3>2 DEF Tables
    <3> QED BY <3>1, <3>3
  <2>3. (p = 1 /\ q = 1) \/ p = q + 1
    BY <2>1, <2>2 DEF MergeFrom
  <2>4. /\ \A j \in 1..n : j < p => l[j].base < base
        /\ p \in 1..n => base <= l[p].base
    <3>1. Counted(t)
      BY DEF Sound
    <3> QED BY <3>1, PlaceIs, Zenon
  <2>5. /\ \A j \in 1..n : l[j].len > 0
        /\ \A i, j \in 1..n : i < j => HoleEnd(l[i]) < l[j].base
    BY <2>2 DEF Sound, Near
  <2>6. \A c \in base..base + clicks - 1 : ~ \E k \in 1..n : l[k].base <= c /\ c < HoleEnd(l[k])
    BY <2>2 DEF In
  <2>7. h.base = base /\ HoleEnd(h) = base + clicks /\ h.len = clicks
    BY DEF Hole, HoleEnd
  <2>8. DOMAIN l = 1..n /\ DOMAIN m = 1..n + 1
    BY <2>1, <2>2
  <2>9. \A j \in 1..n : l[j].base \in Nat /\ l[j].len \in Nat
    <3>1. \A j \in 1..n : l[j] \in Holes
      BY <2>2
    <3> HIDE DEF l, n
    <3> QED BY <3>1 DEF Holes
  <2>10. \A j \in 1..n + 1 : m[j].base \in Nat /\ m[j].len \in Nat
    <3>1. \A j \in 1..n + 1 : m[j] \in Holes
      BY <2>1, <2>2
    <3> HIDE DEF m, n
    <3> QED BY <3>1 DEF Holes
  <2> HIDE DEF l, n, p, q, h, u, m, f
  <2>11. \A j \in 1..n : j < p => HoleEnd(l[j]) <= base
    <3> SUFFICES ASSUME NEW j \in 1..n, j < p, ~ (HoleEnd(l[j]) <= base)
                 PROVE  FALSE
      OBVIOUS
    <3>1. base \in base..base + clicks - 1
      BY <1>2
    <3>2. l[j].base <= base /\ base < HoleEnd(l[j])
      BY <2>2, <2>4, <2>9 DEF HoleEnd
    <3> QED BY <2>6, <3>1, <3>2
  <2>12. \A j \in 1..n : p <= j => base + clicks <= l[j].base
    <3> SUFFICES ASSUME NEW j \in 1..n, p <= j, ~ (base + clicks <= l[j].base)
                 PROVE  FALSE
      OBVIOUS
    <3>1. p \in 1..n /\ base <= l[p].base
      BY <2>1, <2>2, <2>4
    <3>2. l[p].base <= l[j].base
      <4>1. CASE p = j
        BY <2>9, <4>1
      <4>2. CASE p # j
        <5>1. HoleEnd(l[p]) < l[j].base
          BY <2>2, <2>5, <3>1, <4>2
        <5> QED BY <2>9, <3>1, <5>1 DEF HoleEnd
      <4> QED BY <4>1, <4>2
    <3>3. l[j].base \in base..base + clicks - 1
      BY <2>9, <3>1, <3>2
    <3>4. l[j].base <= l[j].base /\ l[j].base < HoleEnd(l[j])
      BY <2>5, <2>9 DEF HoleEnd
    <3> QED BY <2>6, <3>3, <3>4
  <2>13. Near(m, {q, q + 1})
    <3>1. \A j \in 1..n + 1 : m[j].len > 0
      <4> SUFFICES ASSUME NEW j \in 1..n + 1 PROVE m[j].len > 0
        OBVIOUS
      <4>1. CASE j < p
        <5>1. j \in 1..n /\ m[j] = l[j]
          BY <2>1, <2>2, <4>1
        <5> QED BY <2>5, <5>1
      <4>2. CASE j = p
        BY <1>2, <2>1, <2>7, <4>2
      <4>3. CASE j > p
        <5>1. j - 1 \in 1..n /\ m[j] = l[j - 1]
          BY <2>1, <2>2, <4>3
        <5> QED BY <2>5, <5>1
      <4> QED BY <2>1, <2>2, <4>1, <4>2, <4>3
    <3>2. ASSUME NEW i \in 1..n + 1, NEW j \in 1..n + 1, i < j
          PROVE  \/ HoleEnd(m[i]) < m[j].base
                 \/ HoleEnd(m[i]) = m[j].base /\ j = i + 1 /\ i \in {q, q + 1}
      <4>1. CASE j < p
        <5>1. i \in 1..n /\ j \in 1..n /\ m[i] = l[i] /\ m[j] = l[j]
          BY <2>1, <2>2, <3>2, <4>1
        <5> QED BY <2>5, <3>2, <5>1
      <4>2. CASE j = p
        <5>1. i \in 1..n /\ i < p /\ m[i] = l[i] /\ m[j] = h
          BY <2>1, <2>2, <3>2, <4>2
        <5>2. HoleEnd(l[i]) <= base
          BY <2>11, <5>1
        <5>3. i # p - 1 => HoleEnd(l[i]) < base
          <6> SUFFICES ASSUME i # p - 1 PROVE HoleEnd(l[i]) < base
            OBVIOUS
          <6>1. p - 1 \in 1..n /\ i < p - 1 /\ p - 1 < p
            BY <2>1, <2>2, <5>1
          <6>2. HoleEnd(l[i]) < l[p - 1].base /\ l[p - 1].base < base
            BY <2>4, <2>5, <5>1, <6>1
          <6> QED BY <2>9, <5>1, <6>1, <6>2 DEF HoleEnd
        <5>4. i = p - 1 => i = q
          BY <2>1, <2>2, <2>3, <5>1
        <5>5. HoleEnd(l[i]) \in Int
          BY <2>9, <5>1 DEF HoleEnd
        <5> QED BY <2>7, <4>2, <5>1, <5>2, <5>3, <5>4, <5>5
      <4>3. CASE i = p
        <5>1. j - 1 \in 1..n /\ p <= j - 1 /\ m[j] = l[j - 1] /\ m[i] = h
          BY <2>1, <2>2, <3>2, <4>3
        <5>2. base + clicks <= l[j - 1].base
          BY <2>12, <5>1
        <5>3. j # i + 1 => base + clicks < l[j - 1].base
          <6> SUFFICES ASSUME j # i + 1 PROVE base + clicks < l[j - 1].base
            OBVIOUS
          <6>1. p \in 1..n /\ p < j - 1
            BY <2>1, <2>2, <3>2, <4>3
          <6>2. base + clicks <= l[p].base /\ HoleEnd(l[p]) < l[j - 1].base
            BY <2>5, <2>12, <5>1, <6>1
          <6> QED BY <2>9, <5>1, <6>1, <6>2 DEF HoleEnd
        <5>4. i \in {q, q + 1}
          BY <2>1, <2>2, <2>3, <4>3
        <5>5. l[j - 1].base \in Int
          BY <2>9, <5>1
        <5> QED BY <2>7, <5>1, <5>2, <5>3, <5>4, <5>5
      <4>4. CASE i < p /\ p < j
        <5>1. i \in 1..n /\ j - 1 \in 1..n /\ p <= j - 1 /\ m[i] = l[i] /\ m[j] = l[j - 1]
          BY <2>1, <2>2, <4>4
        <5>2. HoleEnd(l[i]) < l[j - 1].base
          BY <2>2, <2>5, <2>1, <4>4, <5>1
        <5> QED BY <5>1, <5>2
      <4>5. CASE p < i
        <5>1. i - 1 \in 1..n /\ j - 1 \in 1..n /\ i - 1 < j - 1
              /\ m[i] = l[i - 1] /\ m[j] = l[j - 1]
          BY <2>1, <2>2, <3>2, <4>5
        <5> QED BY <2>5, <5>1
      <4> QED BY <2>1, <2>2, <3>2, <4>1, <4>2, <4>3, <4>4, <4>5
    <3> QED BY <2>8, <3>1, <3>2 DEF Near
  <2>14. ASSUME NEW c \in Int PROVE In(m, c) <=> In(l, c) \/ c \in base..base + clicks - 1
    <3>1. ASSUME NEW j \in 1..n + 1, m[j].base <= c, c < HoleEnd(m[j])
          PROVE  In(l, c) \/ c \in base..base + clicks - 1
      <4>1. CASE j = p
        BY <2>1, <2>7, <3>1, <4>1
      <4>2. CASE j # p
        <5> DEFINE i == IF j < p THEN j ELSE j - 1
        <5>1. i \in 1..n /\ m[j] = l[i]
          BY <2>1, <2>2, <4>2
        <5> QED BY <2>8, <3>1, <5>1 DEF In
      <4> QED BY <4>1, <4>2
    <3>2. ASSUME NEW i \in 1..n, l[i].base <= c, c < HoleEnd(l[i])
          PROVE  In(m, c)
      <4> DEFINE j == IF i < p THEN i ELSE i + 1
      <4>1. j \in 1..n + 1 /\ m[j] = l[i]
        BY <2>1, <2>2
      <4> QED BY <2>8, <3>2, <4>1 DEF In
    <3>3. c \in base..base + clicks - 1 => In(m, c)
      <4> SUFFICES ASSUME c \in base..base + clicks - 1 PROVE In(m, c)
        OBVIOUS
      <4>1. m[p] = h /\ h.base <= c /\ c < HoleEnd(h)
        BY <2>1, <2>7
      <4> QED BY <2>1, <2>8, <4>1 DEF In
    <3> QED BY <2>8, <3>1, <3>2, <3>3 DEF In
  <2>15. /\ Sound(f) /\ f.panic = u.panic
         /\ \A c \in Int : In(f.list, c) <=> In(m, c)
    BY <2>1, <2>13, Merged, Zenon DEF m
  <2> QED BY <2>1, <2>14, <2>15 DEF f, l
<1> QED BY <1>1, <1>2

------------------------------------------------------------------------------
(* Bite before the hole is deleted, if it is. *)
Shrunk(t, k, clicks) == [t EXCEPT !.list[k] = Hole(@.base + clicks, @.len - clicks)]

LEMMA Shortened ==
  ASSUME NEW t, Counted(t), NEW k \in 1..Len(t.list), NEW clicks \in Nat \ {0},
         clicks <= t.list[k].len
  PROVE  LET u == Shrunk(t, k, clicks)
         IN  /\ Counted(u) /\ u.panic = t.panic /\ Len(u.list) = Len(t.list)
             /\ \A j \in 1..Len(t.list) : j # k => u.list[j] = t.list[j]
             /\ u.list[k].base = t.list[k].base + clicks
             /\ u.list[k].len = t.list[k].len - clicks
<1> DEFINE l == t.list
           h == Hole(l[k].base + clicks, l[k].len - clicks)
           m == [l EXCEPT ![k] = h]
           u == Shrunk(t, k, clicks)
<1>1. /\ l \in Seq(Holes) /\ Len(l) \in Nat /\ t.free \in 0..NR_HOLES
      /\ t.free + Len(l) = NR_HOLES /\ t \in Tables
  BY DEF Counted, Tables
<1>2. l[k] \in Holes
  BY <1>1
<1>3. /\ h \in Holes /\ h.base = l[k].base + clicks /\ h.len = l[k].len - clicks
  BY <1>2 DEF Hole, Holes
<1>4. u.list = m /\ u.free = t.free /\ u.panic = t.panic
  BY <1>1 DEF Tables, Shrunk
<1>5. m \in Seq(Holes) /\ Len(m) = Len(l) /\ \A j \in 1..Len(l) : m[j] = IF j = k THEN h ELSE l[j]
  BY <1>1, <1>3
<1>6. u \in Tables
  BY <1>1, <1>5 DEF Tables, Shrunk
<1> HIDE DEF h, m, u
<1>7. Counted(u)
  BY <1>1, <1>4, <1>5, <1>6 DEF Counted
<1> QED BY <1>3, <1>4, <1>5, <1>7 DEF u

LEMMA BiteCounted ==
  ASSUME NEW t, Counted(t), NEW k \in 1..Len(t.list), NEW clicks \in Nat \ {0},
         clicks <= t.list[k].len
  PROVE  Counted(Bite(t, k, clicks)) /\ Bite(t, k, clicks).panic = t.panic
<1> DEFINE u == Shrunk(t, k, clicks)
<1>1. Counted(u) /\ u.panic = t.panic /\ Len(u.list) = Len(t.list)
  BY Shortened, Zenon
<1>2. Bite(t, k, clicks) = IF u.list[k].len = 0 THEN del_slot(u, k) ELSE u
  BY DEF Bite, Shrunk
<1> HIDE DEF u
<1>3. Counted(del_slot(u, k)) /\ del_slot(u, k).panic = u.panic
  BY <1>1, Deleted, Zenon
<1> QED BY <1>1, <1>2, <1>3, Zenon

(* Bite of a sorted table: the clicks bitten off were in the hole, and     *)
(* nothing else changes hands.                                             *)
LEMMA Bitten ==
  ASSUME NEW t, Sound(t), NEW k \in 1..Len(t.list), NEW clicks \in Nat \ {0},
         clicks <= t.list[k].len
  PROVE  LET b == Bite(t, k, clicks)
             first == t.list[k].base
         IN  /\ Sound(b) /\ b.panic = t.panic /\ Len(b.list) <= Len(t.list)
             /\ \A c \in first..first + clicks - 1 : In(t.list, c)
             /\ \A c \in Int :
                  In(b.list, c) <=> In(t.list, c) /\ c \notin first..first + clicks - 1
<1> DEFINE u == Shrunk(t, k, clicks)
           l == t.list
           m == u.list
           n == Len(l)
           first == l[k].base
           given == first..first + clicks - 1
           b == Bite(t, k, clicks)
<1>1. Counted(t)
  BY DEF Sound
<1>2. /\ Counted(u) /\ u.panic = t.panic /\ Len(m) = n
      /\ \A j \in 1..n : j # k => m[j] = l[j]
      /\ m[k].base = first + clicks /\ m[k].len = l[k].len - clicks
  BY <1>1, Shortened, Zenon
<1>3. b = IF m[k].len = 0 THEN del_slot(u, k) ELSE u
  BY DEF Bite, Shrunk
<1>4. l \in Seq(Holes) /\ n \in Nat /\ DOMAIN l = 1..n
  BY <1>1 DEF Counted, Tables
<1>5. \A j \in 1..n : l[j].base \in Nat /\ l[j].len \in Nat
  <2>1. \A j \in 1..n : l[j] \in Holes
    BY <1>4
  <2> HIDE DEF l, n
  <2> QED BY <2>1 DEF Holes
<1>6. /\ \A j \in 1..n : l[j].len > 0
      /\ \A i, j \in 1..n : i < j => HoleEnd(l[i]) < l[j].base
  BY <1>4 DEF Sound, Near
<1>7. k \in 1..n /\ clicks <= l[k].len
  OBVIOUS
<1> HIDE DEF u
<1>8. m \in Seq(Holes) /\ DOMAIN m = 1..n
  BY <1>2, <1>4 DEF Counted, Tables
<1> HIDE DEF l, m, n, b
<1>9. /\ HoleEnd(m[k]) = HoleEnd(l[k])
      /\ \A j \in 1..n : m[j].base \in Nat /\ HoleEnd(m[j]) = HoleEnd(l[j]) /\ l[j].base <= m[j].base
      /\ \A j \in 1..n : j # k => m[j].len > 0
  <2>1. HoleEnd(m[k]) = HoleEnd(l[k])
    BY <1>2, <1>5, <1>7 DEF HoleEnd
  <2>2. ASSUME NEW j \in 1..n
        PROVE  m[j].base \in Nat /\ HoleEnd(m[j]) = HoleEnd(l[j]) /\ l[j].base <= m[j].base
    <3>1. CASE j = k
      BY <1>2, <1>5, <1>7, <2>1, <3>1
    <3>2. CASE j # k
      BY <1>2, <1>5, <3>2
    <3> QED BY <3>1, <3>2
  <2> QED BY <1>2, <1>6, <2>1, <2>2
<1>10. \A i, j \in 1..n : i < j => HoleEnd(m[i]) < m[j].base
  <2> SUFFICES ASSUME NEW i \in 1..n, NEW j \in 1..n, i < j PROVE HoleEnd(m[i]) < m[j].base
    OBVIOUS
  <2>1. HoleEnd(l[i]) < l[j].base /\ l[j].base <= m[j].base /\ HoleEnd(m[i]) = HoleEnd(l[i])
    BY <1>6, <1>9
  <2>2. HoleEnd(l[i]) \in Int /\ l[j].base \in Int /\ m[j].base \in Int
    BY <1>5, <1>9 DEF HoleEnd
  <2> QED BY <2>1, <2>2
<1>11. ASSUME NEW c \in given PROVE In(l, c)
  <2>1. l[k].base <= c /\ c < l[k].base + clicks /\ c \in Int
    BY <1>5, <1>7
  <2>2. c < HoleEnd(l[k])
    BY <1>5, <1>7, <2>1 DEF HoleEnd
  <2> QED BY <1>4, <1>7, <2>1, <2>2, Zenon DEF In
<1>12. ASSUME NEW c \in Int PROVE In(m, c) <=> In(l, c) /\ c \notin given
  <2>1. ASSUME NEW j \in 1..n, m[j].base <= c, c < HoleEnd(m[j])
        PROVE  In(l, c) /\ c \notin given
    <3>1. l[j].base <= c /\ c < HoleEnd(l[j])
      BY <1>5, <1>9, <2>1
    <3>2. c \notin given
      <4>1. CASE j = k
        BY <1>2, <1>5, <2>1, <4>1
      <4>2. CASE j < k
        <5>1. HoleEnd(l[j]) < l[k].base
          BY <1>6, <1>7, <4>2
        <5> QED BY <1>5, <1>7, <3>1, <5>1 DEF HoleEnd
      <4>3. CASE k < j
        <5>1. HoleEnd(l[k]) < l[j].base
          BY <1>6, <1>7, <4>3
        <5> QED BY <1>5, <1>7, <3>1, <5>1 DEF HoleEnd
      <4> QED BY <1>4, <1>7, <4>1, <4>2, <4>3
    <3> QED BY <1>4, <3>1, <3>2 DEF In
  <2>2. ASSUME NEW j \in 1..n, l[j].base <= c, c < HoleEnd(l[j]), c \notin given
        PROVE  In(m, c)
    <3>1. CASE j # k
      <4>1. m[j] = l[j]
        BY <1>2, <3>1
      <4> QED BY <1>8, <2>2, <4>1 DEF In
    <3>2. CASE j = k
      <4>1. first + clicks <= c
        BY <1>5, <1>7, <2>2, <3>2
      <4>2. m[k].base <= c /\ c < HoleEnd(m[k])
        BY <1>2, <1>9, <2>2, <3>2, <4>1
      <4> QED BY <1>7, <1>8, <4>2 DEF In
    <3> QED BY <3>1, <3>2
  <2> QED BY <1>4, <1>8, <2>1, <2>2 DEF In
<1>13. CASE m[k].len # 0
  <2>1. b = u /\ b.list = m
    BY <1>3, <1>13 DEF m
  <2>2. \A j \in 1..n : m[j].len > 0
    <3>1. m[k].len > 0
      BY <1>2, <1>5, <1>7, <1>13
    <3> QED BY <1>9, <3>1
  <2>3. Near(m, {})
    BY <1>8, <1>10, <2>2 DEF Near
  <2> QED BY <1>2, <1>4, <1>11, <1>12, <2>1, <2>3 DEF Sound, b, l, n
<1>14. CASE m[k].len = 0
  <2> DEFINE r == b.list
             old(j) == IF j < k THEN j ELSE j + 1
  <2>1. /\ Counted(b) /\ b.panic = u.panic /\ Len(r) = n - 1
        /\ \A j \in 1..n - 1 : r[j] = IF j < k THEN m[j] ELSE m[j + 1]
    <3>1. b = del_slot(u, k) /\ Len(u.list) = n /\ k \in 1..Len(u.list)
      BY <1>2, <1>3, <1>7, <1>14 DEF m
    <3> QED BY <1>2, <3>1, Deleted, Zenon DEF m
  <2>2. DOMAIN r = 1..n - 1
    BY <1>4, <2>1 DEF Counted, Tables
  <2>3. \A j \in 1..n - 1 : old(j) \in 1..n /\ old(j) # k /\ r[j] = m[old(j)]
    BY <1>4, <1>7, <2>1
  <2>4. \A i, j \in 1..n - 1 : i < j => old(i) < old(j)
    BY <1>4, <1>7
  <2> HIDE DEF r, old
  <2>5. Near(r, {})
    BY <1>9, <1>10, <2>2, <2>3, <2>4 DEF Near
  <2>6. ASSUME NEW c \in Int PROVE In(r, c) <=> In(m, c)
    <3>1. ASSUME NEW j \in 1..n, m[j].base <= c, c < HoleEnd(m[j])
          PROVE  In(r, c)
      <4>1. j # k
        BY <1>2, <1>5, <1>7, <1>9, <1>14, <3>1 DEF HoleEnd
      <4>2. PICK i \in 1..n - 1 : old(i) = j
        <5> DEFINE i == IF j < k THEN j ELSE j - 1
        <5>1. i \in 1..n - 1 /\ old(i) = j
          BY <1>4, <1>7, <4>1 DEF old
        <5> QED BY <5>1
      <4>3. r[i] = m[j]
        BY <2>3, <4>2
      <4> QED BY <2>2, <3>1, <4>3 DEF In
    <3> QED BY <1>8, <2>2, <2>3, <3>1 DEF In
  <2>7. Len(r) <= n
    BY <1>4, <2>1
  <2> QED BY <1>2, <1>11, <1>12, <2>1, <2>5, <2>6, <2>7 DEF Sound, b, l, n, r
<1> QED BY <1>13, <1>14

------------------------------------------------------------------------------
(* r is what is left of l when the swap area goes, old where it was.       *)
KeptFrom(r, l, sb, old) ==
  /\ old \in [1..Len(r) -> 1..Len(l)]
  /\ \A i, j \in 1..Len(r) : i < j => old[i] < old[j]
  /\ \A i \in 1..Len(r) :
       /\ r[i] = l[old[i]]
       /\ l[old[i]].base < sb \/ (old[i] = 2 /\ l[1].base >= sb)
  /\ \A j \in 1..Len(l) : l[j].base < sb => \E i \in 1..Len(r) : old[i] = j

(* The holes that swap_off leaves were there before, in this order: all    *)
(* those of memory, and at most one of the swap area, the second of the    *)
(* list after a first of the swap area.                                    *)
LEMMA DroppedFrom ==
  ASSUME NEW t, Counted(t), NEW sb \in Nat
  PROVE  /\ Counted(DropSwapHoles(t, sb)) /\ DropSwapHoles(t, sb).panic = t.panic
         /\ \E old : KeptFrom(DropSwapHoles(t, sb).list, t.list, sb, old)
<1> DEFINE l == t.list
           n == Len(l)
           found == {k \in DOMAIN l : l[k].base >= sb}
           d == DropSwapHoles(t, sb)
<1>1. /\ l \in Seq(Holes) /\ n \in Nat /\ DOMAIN l = 1..n /\ t \in Tables
      /\ t.free \in Nat /\ t.free + n = NR_HOLES
  BY DEF Counted, Tables
<1>2. \A j \in 1..n : l[j].base \in Nat
  <2>1. \A j \in 1..n : l[j] \in Holes
    BY <1>1
  <2> HIDE DEF l, n
  <2> QED BY <2>1 DEF Holes
<1>3. found \in SUBSET Nat /\ 0 \notin found
  BY <1>1
<1>4. CASE found = {}
  <2>1. d = t
    <3>1. FirstHole(t, LAMBDA h : h.base >= sb) = 0
      BY <1>4 DEF FirstHole
    <3> QED BY <3>1 DEF DropSwapHoles, FirstHole
  <2> DEFINE old == [i \in 1..n |-> i]
  <2>2. old \in [1..n -> 1..n] /\ \A i \in 1..n : old[i] = i
    OBVIOUS
  <2>3. \A j \in 1..n : l[j].base < sb
    BY <1>1, <1>2, <1>4
  <2> HIDE DEF old
  <2>4. /\ \A i, j \in 1..n : i < j => old[i] < old[j]
        /\ \A i \in 1..n : l[i] = l[old[i]] /\ l[old[i]].base < sb
        /\ \A j \in 1..n : \E i \in 1..n : old[i] = j
    BY <2>2, <2>3
  <2>5. /\ \A i, j \in 1..n : i < j => old[i] < old[j]
        /\ \A i \in 1..n : /\ l[i] = l[old[i]]
                           /\ l[old[i]].base < sb \/ (old[i] = 2 /\ l[1].base >= sb)
        /\ \A j \in 1..n : l[j].base < sb => \E i \in 1..n : old[i] = j
    BY <2>4
  <2> HIDE DEF d, l, n
  <2>6. Counted(d) /\ d.panic = t.panic /\ d.list = l /\ Len(d.list) = n
    BY <2>1 DEF l, n
  <2>7. KeptFrom(d.list, l, sb, old)
    BY <2>2, <2>5, <2>6 DEF KeptFrom, n
  <2> QED BY <2>6, <2>7 DEF d, l
<1>5. CASE found # {}
  <2> DEFINE k == Min(found)
             rest == del_slot(t, k).list
             J == {j \in DOMAIN rest : j = 1 \/ ~ (rest[j].base >= sb)}
             kept == Ascending(J)
             r == [j \in DOMAIN kept |-> rest[kept[j]]]
             f == t.free + Len(l) - Len(kept)
  <2>1. k \in 1..n /\ l[k].base >= sb /\ \A j \in found : k <= j
    BY <1>1, <1>3, <1>5, MinIs, Zenon
  <2>2. d = [t EXCEPT !.list = r, !.free = f]
    <3>1. FirstHole(t, LAMBDA h : h.base >= sb) = k
      BY <1>5 DEF FirstHole
    <3>2. k # 0
      BY <1>1, <2>1
    <3> QED BY <3>1, <3>2 DEF DropSwapHoles, FirstHole
  <2> HIDE DEF k, d
  <2>3. /\ Counted(del_slot(t, k)) /\ Len(rest) = n - 1
        /\ \A j \in 1..n - 1 : rest[j] = IF j < k THEN l[j] ELSE l[j + 1]
    BY <2>1, Deleted, Zenon
  <2>4. rest \in Seq(Holes) /\ DOMAIN rest = 1..n - 1
    BY <1>1, <2>3 DEF Counted, Tables
  <2> HIDE DEF rest
  <2>5. J \in SUBSET Nat /\ J \subseteq 1..n - 1 /\ IsFiniteSet(J) /\ Cardinality(J) \in 0..n - 1
    <3>1. J \subseteq 1..n - 1 /\ J \in SUBSET Nat
      BY <1>1, <2>4
    <3>2. IsFiniteSet(1..n - 1) /\ Cardinality(1..n - 1) = n - 1
      <4>1. 1 \in Int /\ n - 1 \in Int /\ (IF 1 > n - 1 THEN 0 ELSE n - 1 - 1 + 1) = n - 1
        BY <1>1, <2>1
      <4> HIDE DEF n
      <4> QED BY <4>1, FS_Interval
    <3>3. IsFiniteSet(J) /\ Cardinality(J) <= n - 1
      <4> HIDE DEF J
      <4>1. J \in SUBSET (1..n - 1)
        BY <3>1, Zenon
      <4>2. IsFiniteSet(J) /\ Cardinality(J) <= Cardinality(1..n - 1)
        BY <3>2, <4>1, FS_Subset, Zenon
      <4> QED BY <3>2, <4>2, Zenon
    <3>4. Cardinality(J) \in Nat
      BY <3>3, FS_CardinalityType
    <3> QED BY <1>1, <3>1, <3>3, <3>4
  <2>6. /\ kept \in Seq(J) /\ Len(kept) = Cardinality(J)
        /\ \A i, j \in DOMAIN kept : i < j => kept[i] < kept[j]
        /\ Range(kept) = J
    <3> HIDE DEF J
    <3> QED BY <2>5, InOrder, Zenon
  <2> HIDE DEF kept, J
  <2> DEFINE m == Len(kept)
  <2>7. DOMAIN kept = 1..m /\ m \in 0..n - 1 /\ \A i \in 1..m : kept[i] \in J /\ kept[i] \in 1..n - 1
    <3>1. \A i \in 1..m : kept[i] \in J
      BY <2>6
    <3>2. DOMAIN kept = 1..m /\ m = Cardinality(J)
      BY <2>6
    <3> HIDE DEF m, n
    <3> QED BY <2>5, <3>1, <3>2
  <2>8. r \in Seq(Holes) /\ Len(r) = m /\ \A i \in 1..m : r[i] = rest[kept[i]]
    <3>1. \A i \in 1..m : rest[kept[i]] \in Holes
      BY <2>4, <2>7
    <3>2. r = [j \in 1..m |-> rest[kept[j]]] /\ m \in Nat
      BY <1>1, <2>7
    <3> HIDE DEF m, r
    <3> QED BY <3>1, <3>2
  <2>9. f \in 0..NR_HOLES /\ f + m = NR_HOLES
    <3>1. t.free \in Nat /\ n \in Nat /\ t.free + n = NR_HOLES /\ m \in Nat /\ m <= n
      BY <1>1, <2>1, <2>7
    <3>2. f = t.free + n - m
      OBVIOUS
    <3> HIDE DEF f, m, n
    <3> QED BY <3>1, <3>2
  <2> HIDE DEF r, f
  <2>10. d \in Tables /\ d.list = r /\ d.free = f /\ d.panic = t.panic
    <3> HIDE DEF l
    <3> QED BY <1>1, <2>2, <2>8, <2>9 DEF Tables
  <2>11. Counted(d)
    BY <2>8, <2>9, <2>10 DEF Counted
  <2> DEFINE up(j) == IF j < k THEN j ELSE j + 1
             old == [i \in 1..m |-> up(kept[i])]
  <2>12. \A j \in 1..n - 1 : up(j) \in 1..n /\ rest[j] = l[up(j)]
    BY <1>1, <2>1, <2>3
  <2>13. \A i, j \in 1..n - 1 : i < j => up(i) < up(j)
    BY <1>1, <2>1
  <2>14. \A j \in 1..n : j # k => \E i \in 1..n - 1 : up(i) = j
    <3> SUFFICES ASSUME NEW j \in 1..n, j # k PROVE \E i \in 1..n - 1 : up(i) = j
      OBVIOUS
    <3> DEFINE i == IF j < k THEN j ELSE j - 1
    <3>1. i \in 1..n - 1 /\ up(i) = j
      BY <1>1, <2>1
    <3> QED BY <3>1
  <2>15. up(1) # 1 => up(1) = 2 /\ k = 1
    BY <1>1, <2>1
  <2>16. k # 1 /\ 1 \in 1..n => l[1].base < sb
    BY <1>1, <1>2, <2>1
  <2> HIDE DEF up, l, n, m
  <2>17. \A i \in 1..m : old[i] = up(kept[i])
    OBVIOUS
  <2>18. old \in [1..m -> 1..n]
    BY <2>7, <2>12
  <2> HIDE DEF old
  <2>19. \A i, j \in 1..m : i < j => old[i] < old[j]
    BY <2>6, <2>7, <2>13, <2>17
  <2>20. ASSUME NEW i \in 1..m
         PROVE  r[i] = l[old[i]] /\ (l[old[i]].base < sb \/ (old[i] = 2 /\ l[1].base >= sb))
    <3>1. r[i] = l[old[i]] /\ r[i] = rest[kept[i]] /\ old[i] \in 1..n
      BY <2>7, <2>8, <2>12, <2>17
    <3>2. kept[i] = 1 \/ ~ (rest[kept[i]].base >= sb)
      BY <2>7 DEF J
    <3>3. CASE ~ (rest[kept[i]].base >= sb)
      <4>1. l[old[i]].base \in Nat /\ ~ (l[old[i]].base >= sb)
        BY <1>2, <3>1, <3>3
      <4> QED BY <3>1, <4>1
    <3>4. CASE kept[i] = 1
      <4>1. old[i] = up(1) /\ 1 \in 1..n
        <5>1. 1 \in 1..n - 1
          BY <2>7, <3>4
        <5> QED BY <1>1, <2>17, <3>4, <5>1
      <4>2. CASE up(1) = 1
        <5>1. k # 1
          BY <4>2 DEF up
        <5> QED BY <2>16, <3>1, <4>1, <4>2, <5>1
      <4>3. CASE up(1) # 1
        BY <2>1, <2>15, <3>1, <4>1, <4>3
      <4> QED BY <4>2, <4>3
    <3> QED BY <3>2, <3>3, <3>4
  <2>21. ASSUME NEW j \in 1..n, l[j].base < sb PROVE \E i \in 1..m : old[i] = j
    <3>1. j # k
      BY <1>2, <2>1, <2>21
    <3>2. PICK x \in 1..n - 1 : up(x) = j
      BY <2>14, <3>1
    <3>3. rest[x].base < sb /\ rest[x].base \in Nat
      BY <1>2, <2>12, <2>21, <3>2
    <3>4. x \in J
      BY <2>4, <3>3 DEF J
    <3>5. PICK i \in 1..m : kept[i] = x
      BY <2>6, <2>7, <3>4 DEF Range
    <3> QED BY <2>17, <3>2, <3>5
  <2>22. Len(d.list) = m
    BY <2>8, <2>10
  <2>23. KeptFrom(d.list, l, sb, old)
    BY <2>10, <2>18, <2>19, <2>20, <2>21, <2>22 DEF KeptFrom, n
  <2> QED BY <2>10, <2>11, <2>23 DEF d, l
<1> QED BY <1>4, <1>5

(* What swap_off leaves of a sorted table: all of memory, and none of the  *)
(* swap area if that was in one piece.                                     *)
LEMMA Dropped ==
  ASSUME NEW t, Sound(t), NEW sb \in Nat, NEW z \in Nat,
         ~ In(t.list, sb - 1),
         \A c \in Int : c >= sb => (In(t.list, c) <=> c < sb + z)
  PROVE  LET d == DropSwapHoles(t, sb)
         IN  /\ Sound(d) /\ d.panic = t.panic
             /\ \A c \in Int : In(d.list, c) <=> In(t.list, c) /\ c < sb
<1> DEFINE l == t.list
           n == Len(l)
           d == DropSwapHoles(t, sb)
           r == d.list
           m == Len(r)
<1>1. Counted(t)
  BY DEF Sound
<1>2. Counted(d) /\ d.panic = t.panic /\ \E old : KeptFrom(r, l, sb, old)
  BY <1>1, DroppedFrom, Zenon
<1>3. l \in Seq(Holes) /\ n \in Nat /\ DOMAIN l = 1..n
  BY <1>1 DEF Counted, Tables
<1>4. \A j \in 1..n : l[j].base \in Nat /\ l[j].len \in Nat
  <2>1. \A j \in 1..n : l[j] \in Holes
    BY <1>3
  <2> HIDE DEF l, n
  <2> QED BY <2>1 DEF Holes
<1>5. /\ \A j \in 1..n : l[j].len > 0
      /\ \A i, j \in 1..n : i < j => HoleEnd(l[i]) < l[j].base
  BY <1>3 DEF Sound, Near
<1> HIDE DEF d
<1>6. r \in Seq(Holes) /\ m \in Nat /\ DOMAIN r = 1..m
  BY <1>2 DEF Counted, Tables
<1>7. PICK old : KeptFrom(r, l, sb, old)
  BY <1>2, Zenon
<1> HIDE DEF r, m
<1> HIDE DEF l, n
<1>8. ~ In(l, sb - 1) /\ \A c \in Int : c >= sb => (In(l, c) <=> c < sb + z)
  BY DEF l
<1>9. ~ (2 \in 1..n /\ l[1].base >= sb)
  <2> SUFFICES ASSUME 2 \in 1..n, l[1].base >= sb PROVE FALSE
    OBVIOUS
  <2> DEFINE e == HoleEnd(l[1])
  <2>1. 1 \in 1..n /\ e \in Int /\ e > l[1].base /\ e < l[2].base /\ l[2].base >= sb
    BY <1>3, <1>4, <1>5 DEF HoleEnd
  <2>2. ~ In(l, e)
    <3> SUFFICES ASSUME NEW j \in 1..n, l[j].base <= e, e < HoleEnd(l[j]) PROVE FALSE
      BY <1>3 DEF In
    <3>1. CASE j = 1
      BY <2>1, <3>1
    <3>2. CASE j # 1
      <4>1. 2 <= j
        BY <1>3, <3>2
      <4>2. CASE j = 2
        BY <1>4, <2>1, <4>2
      <4>3. CASE j > 2
        <5>1. HoleEnd(l[2]) < l[j].base
          BY <1>5, <4>3
        <5> QED BY <1>4, <2>1, <5>1 DEF HoleEnd
      <4> QED BY <1>3, <4>1, <4>2, <4>3
    <3> QED BY <3>1, <3>2
  <2>3. In(l, l[2].base)
    <3>1. 2 \in 1..n /\ l[2].base <= l[2].base /\ l[2].base < HoleEnd(l[2])
      BY <1>4, <1>5 DEF HoleEnd
    <3> QED BY <1>3, <3>1 DEF In
  <2> HIDE DEF e
  <2>4. e >= sb /\ l[2].base \in Int
    BY <1>4, <2>1
  <2>5. l[2].base < sb + z
    BY <1>8, <2>1, <2>3, <2>4
  <2>6. e < sb + z
    BY <2>1, <2>4, <2>5
  <2> QED BY <1>8, <2>1, <2>2, <2>4, <2>6
<1>10. \A i \in 1..m : old[i] \in 1..n /\ r[i] = l[old[i]] /\ l[old[i]].base < sb
  BY <1>7, <1>9 DEF KeptFrom, l, n, m
<1>11. Near(r, {})
  <2>1. \A i, j \in 1..m : i < j => old[i] < old[j]
    BY <1>7 DEF KeptFrom, m
  <2> QED BY <1>5, <1>6, <1>10, <2>1 DEF Near
<1>12. ASSUME NEW c \in Int PROVE In(r, c) <=> In(l, c) /\ c < sb
  <2>1. ASSUME NEW i \in 1..m, r[i].base <= c, c < HoleEnd(r[i])
        PROVE  In(l, c) /\ c < sb
    <3>1. In(l, c)
      BY <1>3, <1>10, <2>1 DEF In
    <3>2. ASSUME c >= sb PROVE FALSE
      <4> DEFINE j == old[i]
      <4>1. j \in 1..n /\ l[j].base <= sb - 1 /\ sb - 1 < HoleEnd(l[j])
        BY <1>4, <1>10, <2>1, <3>2 DEF HoleEnd
      <4> QED BY <1>3, <1>8, <4>1 DEF In
    <3> QED BY <3>1, <3>2
  <2>2. ASSUME NEW j \in 1..n, l[j].base <= c, c < HoleEnd(l[j]), c < sb
        PROVE  In(r, c)
    <3>1. l[j].base < sb
      BY <1>4, <2>2
    <3>2. PICK i \in 1..m : old[i] = j
      BY <1>7, <3>1 DEF KeptFrom, m, n
    <3> QED BY <1>6, <1>10, <2>2, <3>2 DEF In
  <2> QED BY <1>3, <1>6, <2>1, <2>2 DEF In
<1> QED BY <1>2, <1>11, <1>12 DEF Sound, r, d, l

------------------------------------------------------------------------------
(* One of finitely many numbers is the greatest: if not of the first n,    *)
(* take the least such n.                                                  *)
LEMMA Greatest ==
  ASSUME NEW N \in Nat \ {0}, NEW f \in [1..N -> Nat]
  PROVE  \E k \in 1..N : \A j \in 1..N : f[j] <= f[k]
<1> DEFINE Has(n) == \E k \in 1..n : \A j \in 1..n : f[j] <= f[k]
           Bad == {n \in 1..N : ~ Has(n)}
<1>1. \A n \in 1..N : n \notin Bad => Has(n)
  OBVIOUS
<1>2. Bad \in SUBSET Nat /\ \A n \in Bad : n \in 1..N /\ ~ Has(n)
  OBVIOUS
<1>3. \A j \in 1..N : f[j] \in Nat
  OBVIOUS
<1> HIDE DEF Bad
<1>4. Bad = {}
  <2> SUFFICES ASSUME Bad # {} PROVE FALSE
    OBVIOUS
  <2>1. PICK n \in Bad : \A k \in Bad : n <= k
    BY <1>2, Least, Zenon
  <2>2. n \in 1..N /\ ~ Has(n)
    BY <1>2, <2>1
  <2>3. n # 1
    <3> SUFFICES ASSUME n = 1 PROVE Has(n)
      BY <2>2
    <3>1. 1 \in 1..1 /\ \A j \in 1..1 : j = 1
      OBVIOUS
    <3> QED BY <1>3, <2>2, <3>1
  <2>4. n - 1 \in 1..N /\ ~ (n <= n - 1)
    BY <2>2, <2>3
  <2>5. Has(n - 1)
    BY <1>1, <2>1, <2>4
  <2>6. PICK k \in 1..n - 1 : \A j \in 1..n - 1 : f[j] <= f[k]
    BY <2>5
  <2>7. /\ k \in 1..n /\ n \in 1..n /\ f[n] \in Nat /\ f[k] \in Nat
        /\ \A j \in 1..n : f[j] \in Nat /\ (j = n \/ j \in 1..n - 1)
    BY <1>3, <2>2, <2>4
  <2>8. CASE f[n] <= f[k]
    <3>1. ASSUME NEW j \in 1..n PROVE f[j] <= f[k]
      <4>1. j = n \/ f[j] <= f[k]
        BY <2>6, <2>7, Zenon
      <4> QED BY <2>8, <4>1, Zenon
    <3> QED BY <2>2, <2>7, <3>1
  <2>9. CASE ~ (f[n] <= f[k])
    <3>1. ASSUME NEW j \in 1..n PROVE f[j] <= f[n]
      <4>1. f[j] \in Nat /\ (j = n \/ f[j] <= f[k])
        BY <2>6, <2>7, Zenon
      <4> QED BY <2>7, <2>9, <4>1
    <3> QED BY <2>2, <2>7, <3>1
  <2> QED BY <2>8, <2>9
<1>5. Has(N)
  <2> HIDE DEF Has
  <2> QED BY <1>1, <1>4
<1> QED BY <1>5

(* The holes of memory come first in a sorted table, and those are the     *)
(* ones a scan passes.                                                     *)
LEMMA MemoryFirst ==
  ASSUME NEW t, Sound(t), NEW sb \in Nat
  PROVE  MemoryHoles(t, sb) = {k \in 1..Len(t.list) : t.list[k].base < sb}
<1> DEFINE l == t.list
           n == Len(l)
<1>1. l \in Seq(Holes) /\ n \in Nat /\ DOMAIN l = 1..n
  BY DEF Sound, Counted, Tables
<1>2. \A j \in 1..n : l[j].base \in Nat /\ l[j].len \in Nat
  <2>1. \A j \in 1..n : l[j] \in Holes
    BY <1>1
  <2> HIDE DEF l, n
  <2> QED BY <2>1 DEF Holes
<1>3. \A i, j \in 1..n : i < j => HoleEnd(l[i]) < l[j].base
  BY <1>1 DEF Sound, Near
<1> HIDE DEF l, n
<1>4. ASSUME NEW k \in 1..n, l[k].base < sb, NEW j \in 1..k PROVE l[j].base < sb
  <2>1. j \in 1..n
    BY <1>1
  <2>2. CASE j = k
    BY <1>4, <2>2
  <2>3. CASE j # k
    <3>1. HoleEnd(l[j]) < l[k].base
      BY <1>1, <1>3, <2>1, <2>3
    <3> QED BY <1>2, <1>4, <2>1, <3>1 DEF HoleEnd
  <2> QED BY <2>2, <2>3
<1>5. ASSUME NEW k \in 1..n, \A j \in 1..k : l[j].base < sb PROVE l[k].base < sb
  BY <1>1, <1>5
<1> QED BY <1>1, <1>4, <1>5 DEF MemoryHoles, l, n

(* First fit finds the lowest hole of memory that is big enough. *)
LEMMA FirstFitIs ==
  ASSUME NEW t, Counted(t), NEW sb \in Nat, NEW clicks \in Nat
  PROVE  LET k == FirstFit(t, sb, clicks)
             l == t.list
         IN  /\ k # 0 => k \in 1..Len(l) /\ l[k].base < sb /\ clicks <= l[k].len
             /\ Sound(t) =>
                  /\ k = 0 => \A j \in 1..Len(l) : l[j].base < sb => l[j].len < clicks
                  /\ k # 0 => \A j \in 1..Len(l) :
                                l[j].base < sb /\ l[j].len >= clicks => l[k].base <= l[j].base
<1> DEFINE l == t.list
           n == Len(l)
           fits == {k \in MemoryHoles(t, sb) : l[k].len >= clicks}
           k == FirstFit(t, sb, clicks)
<1>1. l \in Seq(Holes) /\ n \in Nat /\ DOMAIN l = 1..n
  BY DEF Counted, Tables
<1>2. \A j \in 1..n : l[j].base \in Nat /\ l[j].len \in Nat
  <2>1. \A j \in 1..n : l[j] \in Holes
    BY <1>1
  <2> HIDE DEF l, n
  <2> QED BY <2>1 DEF Holes
<1>3. k = IF fits = {} THEN 0 ELSE Min(fits)
  BY DEF FirstFit
<1>4. \A j \in fits : j \in 1..n /\ l[j].base < sb /\ clicks <= l[j].len
  <2> SUFFICES ASSUME NEW j \in fits
               PROVE  j \in 1..n /\ l[j].base < sb /\ clicks <= l[j].len
    OBVIOUS
  <2>1. j \in 1..n /\ (\A i \in 1..j : l[i].base < sb) /\ l[j].len >= clicks
    BY <1>1 DEF MemoryHoles
  <2>2. j \in 1..j
    BY <2>1
  <2> QED BY <1>2, <2>1, <2>2
<1> HIDE DEF k, n
<1>5. fits \in SUBSET Nat /\ 0 \notin fits
  <2> HIDE DEF fits
  <2> QED BY <1>1, <1>4
<1>6. Sound(t) => fits = {j \in 1..n : l[j].base < sb /\ l[j].len >= clicks}
  BY MemoryFirst DEF n
<1> HIDE DEF fits, l
<1>7. fits # {} => k \in fits /\ k # 0 /\ \A j \in fits : k <= j
  BY <1>3, <1>5, MinIs, Zenon
<1>8. k # 0 => k \in 1..n /\ l[k].base < sb /\ clicks <= l[k].len
  BY <1>3, <1>4, <1>7
<1>9. ASSUME Sound(t), k = 0, NEW j \in 1..n, l[j].base < sb PROVE l[j].len < clicks
  BY <1>2, <1>6, <1>7, <1>9
<1>10. ASSUME Sound(t), k # 0, NEW j \in 1..n, l[j].base < sb, l[j].len >= clicks
       PROVE  l[k].base <= l[j].base
  <2>1. k \in 1..n /\ k <= j
    BY <1>3, <1>6, <1>7, <1>8, <1>10
  <2>2. \A i \in 1..n : i < j => HoleEnd(l[i]) < l[j].base
    BY <1>1, <1>10 DEF Sound, Near, l
  <2>3. CASE k = j
    BY <1>2, <2>3
  <2>4. CASE k # j
    <3>1. HoleEnd(l[k]) < l[j].base
      BY <1>1, <2>1, <2>2, <2>4
    <3> QED BY <1>2, <2>1, <3>1 DEF HoleEnd
  <2> QED BY <2>3, <2>4
<1> QED BY <1>8, <1>9, <1>10 DEF k, l, n

(* Worst fit finds a largest of all holes, where there is no swap area.    *)
LEMMA WorstFitIs ==
  ASSUME NEW t, Counted(t), NEW sb \in Nat, NEW clicks \in Nat
  PROVE  LET k == WorstFit(t, sb, clicks)
             l == t.list
         IN  /\ k # 0 => k \in 1..Len(l) /\ clicks <= l[k].len
             /\ (\A j \in 1..Len(l) : l[j].base < sb) =>
                  /\ k = 0 => \A j \in 1..Len(l) : l[j].len < clicks
                  /\ k # 0 => \A j \in 1..Len(l) : l[j].len <= l[k].len
<1> DEFINE l == t.list
           n == Len(l)
           seen == MemoryHoles(t, sb) \cup (DOMAIN l \cap {1})
           largest == {k \in seen : \A j \in seen : l[j].len <= l[k].len}
           k == WorstFit(t, sb, clicks)
<1>1. l \in Seq(Holes) /\ n \in Nat /\ DOMAIN l = 1..n
  BY DEF Counted, Tables
<1>2. \A j \in 1..n : l[j].base \in Nat /\ l[j].len \in Nat
  <2>1. \A j \in 1..n : l[j] \in Holes
    BY <1>1
  <2> HIDE DEF l, n
  <2> QED BY <2>1 DEF Holes
<1>3. k = IF seen = {} \/ l[Min(largest)].len < clicks THEN 0 ELSE Min(largest)
  BY DEF WorstFit
<1>4. \A j \in seen : j \in 1..n
  BY <1>1 DEF MemoryHoles
<1>5. (\A j \in 1..n : l[j].base < sb) => seen = 1..n
  BY <1>1 DEF MemoryHoles
<1> HIDE DEF k, n, l, seen
<1>6. seen # {} => Min(largest) \in largest
  <2> SUFFICES ASSUME seen # {} PROVE Min(largest) \in largest
    OBVIOUS
  <2> DEFINE f == [j \in 1..n |-> IF j \in seen THEN l[j].len + 1 ELSE 0]
  <2>1. n \in Nat \ {0}
    BY <1>1, <1>4
  <2>2. f \in [1..n -> Nat] /\ \A j \in 1..n : f[j] = IF j \in seen THEN l[j].len + 1 ELSE 0
    BY <1>2
  <2> HIDE DEF f
  <2>3. PICK i \in 1..n : \A j \in 1..n : f[j] <= f[i]
    BY <2>1, <2>2, Greatest, Zenon
  <2>4. i \in seen
    <3>1. PICK j \in seen : j \in 1..n
      BY <1>4
    <3>2. f[j] = l[j].len + 1 /\ f[j] <= f[i] /\ l[j].len \in Nat
      BY <1>2, <2>2, <2>3, <3>1
    <3> QED BY <2>2, <3>2
  <2>5. \A j \in seen : l[j].len <= l[i].len
    BY <1>2, <1>4, <2>2, <2>3, <2>4
  <2>6. i \in largest /\ \A j \in largest : j \in Nat
    BY <1>1, <1>4, <2>4, <2>5
  <2> HIDE DEF largest
  <2>7. largest # {} /\ largest \in SUBSET Nat
    BY <2>6
  <2> QED BY <2>7, MinIs, Zenon
<1>7. k # 0 => k \in 1..n /\ clicks <= l[k].len
  <2> SUFFICES ASSUME k # 0 PROVE k \in 1..n /\ clicks <= l[k].len
    OBVIOUS
  <2>1. k = Min(largest) /\ seen # {} /\ ~ (l[k].len < clicks)
    BY <1>3
  <2>2. k \in seen
    BY <1>6, <2>1
  <2>3. k \in 1..n /\ l[k].len \in Nat
    BY <1>2, <1>4, <2>2
  <2> HIDE DEF largest
  <2> QED BY <2>1, <2>3
<1>8. ASSUME \A j \in 1..n : l[j].base < sb, k = 0, NEW j \in 1..n PROVE l[j].len < clicks
  <2>1. seen = 1..n /\ seen # {}
    BY <1>5, <1>8
  <2> DEFINE i == Min(largest)
  <2>2. i \in 1..n /\ \A x \in 1..n : l[x].len <= l[i].len
    BY <1>6, <2>1
  <2> HIDE DEF largest, i
  <2>3. i \in Nat \ {0}
    BY <1>1, <2>2
  <2>4. l[i].len < clicks
    BY <1>3, <1>8, <2>1, <2>3 DEF i
  <2> QED BY <1>2, <2>2, <2>4
<1>9. ASSUME \A j \in 1..n : l[j].base < sb, k # 0, NEW j \in 1..n PROVE l[j].len <= l[k].len
  <2>1. seen = 1..n /\ seen # {} /\ k = Min(largest)
    BY <1>3, <1>5, <1>9
  <2>2. k \in largest
    BY <1>6, <2>1
  <2> QED BY <2>1, <2>2
<1> QED BY <1>7, <1>8, <1>9 DEF k, l, n

LEMMA SwapHoleIs ==
  ASSUME NEW t, Counted(t), NEW sb \in Nat, NEW clicks \in Nat
  PROVE  LET k == SwapHole(t, sb, clicks)
         IN  k # 0 => k \in 1..Len(t.list) /\ t.list[k].base >= sb /\ clicks <= t.list[k].len
<1> DEFINE l == t.list
           found == {k \in DOMAIN l : l[k].base >= sb /\ l[k].len >= clicks}
           k == SwapHole(t, sb, clicks)
<1>1. l \in Seq(Holes) /\ Len(l) \in Nat /\ DOMAIN l = 1..Len(l)
  BY DEF Counted, Tables
<1>2. \A j \in 1..Len(l) : l[j].base \in Nat /\ l[j].len \in Nat
  <2>1. \A j \in 1..Len(l) : l[j] \in Holes
    BY <1>1
  <2> HIDE DEF l
  <2> QED BY <2>1 DEF Holes
<1>3. k = IF found = {} THEN 0 ELSE Min(found)
  <2>1. FirstHole(t, LAMBDA h : h.base >= sb /\ h.len >= clicks) =
          IF found = {} THEN 0 ELSE Min(found)
    BY DEF FirstHole
  <2> QED BY <2>1 DEF SwapHole, FirstHole
<1>4. found \in SUBSET Nat
  BY <1>1
<1>5. found # {} => Min(found) \in found
  <2> HIDE DEF found
  <2> QED BY <1>4, MinIs, Zenon
<1> HIDE DEF k
<1>6. k # 0 => k \in found
  <2> HIDE DEF found
  <2> QED BY <1>3, <1>5
<1> QED BY <1>1, <1>2, <1>6 DEF k

------------------------------------------------------------------------------
(* No two holes end at the same address, so a sorted table has no more     *)
(* holes than there are addresses where one may end.                       *)
LEMMA EndsBound ==
  ASSUME NEW t, Sound(t), NEW E, IsFiniteSet(E),
         \A k \in 1..Len(t.list) : HoleEnd(t.list[k]) \in E
  PROVE  Len(t.list) <= Cardinality(E)
<1> DEFINE l == t.list
           n == Len(l)
           end == [k \in 1..n |-> HoleEnd(l[k])]
<1>1. l \in Seq(Holes) /\ n \in Nat /\ DOMAIN l = 1..n
  BY DEF Sound, Counted, Tables
<1>2. \A j \in 1..n : l[j].base \in Nat /\ l[j].len \in Nat
  <2>1. \A j \in 1..n : l[j] \in Holes
    BY <1>1
  <2> HIDE DEF l, n
  <2> QED BY <2>1 DEF Holes
<1>3. \A i, j \in 1..n : i < j => HoleEnd(l[i]) < l[j].base
  BY <1>1 DEF Sound, Near
<1>4. end \in [1..n -> E]
  OBVIOUS
<1> HIDE DEF l
<1>5. \A i, j \in 1..n : i < j => HoleEnd(l[i]) # HoleEnd(l[j])
  BY <1>2, <1>3 DEF HoleEnd
<1>6. \A i, j \in 1..n : end[i] = end[j] => i = j
  <2> SUFFICES ASSUME NEW i \in 1..n, NEW j \in 1..n, end[i] = end[j], i # j
               PROVE  FALSE
    OBVIOUS
  <2>1. i < j \/ j < i
    BY <1>1
  <2> QED BY <1>5, <2>1
<1>7. end \in Injection(1..n, E)
  <2> HIDE DEF end, n
  <2> QED BY <1>4, <1>6 DEF Injection, IsInjective
<1>8. Cardinality(1..n) = n
  <2>1. 1 \in Int /\ n \in Int /\ (IF 1 > n THEN 0 ELSE n - 1 + 1) = n
    BY <1>1
  <2> HIDE DEF n
  <2> QED BY <2>1, FS_Interval
<1> HIDE DEF end, n
<1>9. Cardinality(1..n) <= Cardinality(E)
  BY <1>7, FS_Injection
<1> QED BY <1>8, <1>9 DEF n, l
------------------------------------------------------------------------------
(* A store whose links are the sequences l, of holes, and f, of unused     *)
(* entries; hand is what is on neither.                                    *)
Threaded(s, l, f, hand) ==
  /\ s \in Stores /\ l \in Seq(Entries) /\ f \in Seq(Entries)
  /\ Follows(s, s.hole_head, l) /\ Follows(s, s.free_slots, f)
  /\ EachOnce(l, f, hand)

(* What is written where in a store. *)
LEMMA NumbersOfEntries ==
  /\ NR_HOLES \in Nat \ {0} /\ NIL_HOLE \notin Entries
  /\ Entries \subseteq Nat \ {0} /\ NIL_HOLE \in Pointers
<1>1. NR_HOLES \in Nat \ {0}
  BY ListAssumption DEF NR_HOLES
<1> QED BY <1>1 DEF Entries, NIL_HOLE, Pointers

LEMMA NthIs ==
  ASSUME NEW l \in Seq(Entries), NEW k \in Nat \ {0}
  PROVE  /\ k <= Len(l) => Nth(l, k) = l[k] /\ l[k] \in Entries
         /\ k > Len(l) => Nth(l, k) = NIL_HOLE
         /\ Nth(l, k) \in Pointers
<1>1. Len(l) \in Nat /\ DOMAIN l = 1..Len(l)
  OBVIOUS
<1>2. \A j \in 1..Len(l) : l[j] \in Entries
  OBVIOUS
<1> QED BY <1>1, <1>2 DEF Nth, Pointers

(* The places of a sequence after an entry has left it, or joined it. *)
LEMMA NthRemoved ==
  ASSUME NEW l \in Seq(Entries), NEW k \in 1..Len(l), NEW j \in Nat \ {0}
  PROVE  Nth(RemoveAt(l, k), j) = IF j < k THEN Nth(l, j) ELSE Nth(l, j + 1)
<1> DEFINE m == RemoveAt(l, k)
<1>1. /\ m \in Seq(Entries) /\ Len(m) = Len(l) - 1
      /\ \A i \in 1..Len(l) - 1 : m[i] = IF i < k THEN l[i] ELSE l[i + 1]
  BY Removed, Zenon
<1> HIDE DEF m
<1>2. Len(l) \in Nat /\ DOMAIN l = 1..Len(l) /\ DOMAIN m = 1..Len(m)
  BY <1>1
<1>3. CASE j <= Len(l) - 1
  <2>1. j \in DOMAIN m /\ j \in DOMAIN l /\ j + 1 \in DOMAIN l
    BY <1>1, <1>2, <1>3
  <2>2. m[j] = IF j < k THEN l[j] ELSE l[j + 1]
    BY <1>1, <1>2, <1>3
  <2> QED BY <2>1, <2>2 DEF Nth, m
<1>4. CASE j > Len(l) - 1
  <2>1. j \notin DOMAIN m /\ j + 1 \notin DOMAIN l /\ ~ (j < k)
    BY <1>1, <1>2, <1>4
  <2> QED BY <2>1 DEF Nth, m
<1> QED BY <1>2, <1>3, <1>4

LEMMA NthInserted ==
  ASSUME NEW l \in Seq(Entries), NEW k \in 1..Len(l) + 1, NEW e \in Entries,
         NEW j \in Nat \ {0}
  PROVE  Nth(InsertAt(l, k, e), j) =
           IF j < k THEN Nth(l, j) ELSE IF j = k THEN e ELSE Nth(l, j - 1)
<1> DEFINE m == InsertAt(l, k, e)
<1>1. /\ m \in Seq(Entries) /\ Len(m) = Len(l) + 1
      /\ \A i \in 1..Len(l) + 1 : i < k => m[i] = l[i]
      /\ m[k] = e
      /\ \A i \in 1..Len(l) + 1 : k < i => m[i] = l[i - 1]
  BY Inserted
<1> HIDE DEF m
<1>2. Len(l) \in Nat /\ DOMAIN l = 1..Len(l) /\ DOMAIN m = 1..Len(m)
  BY <1>1
<1>3. CASE j <= Len(l) + 1
  <2>1. j \in DOMAIN m /\ (j < k => j \in DOMAIN l) /\ (j > k => j - 1 \in DOMAIN l)
    BY <1>1, <1>2, <1>3
  <2>2. m[j] = IF j < k THEN l[j] ELSE IF j = k THEN e ELSE l[j - 1]
    BY <1>1, <1>2, <1>3
  <2>3. j < k \/ j = k \/ j > k
    BY <1>2
  <2> QED BY <1>2, <2>1, <2>2, <2>3 DEF Nth, m
<1>4. CASE j > Len(l) + 1
  <2>1. j \notin DOMAIN m /\ j - 1 \notin DOMAIN l /\ ~ (j < k) /\ j # k
    BY <1>1, <1>2, <1>4
  <2> QED BY <2>1 DEF Nth, m
<1> QED BY <1>2, <1>3, <1>4

(* A list read off the links, whatever sequence it is. *)
LEMMA FollowsEach ==
  ASSUME NEW s, NEW head, NEW l \in Seq(Entries)
  PROVE  Follows(s, head, l) <=>
           head = Nth(l, 1) /\ \A k \in 1..Len(l) : s.h_next[l[k]] = Nth(l, k + 1)
<1>1. DOMAIN l = 1..Len(l)
  OBVIOUS
<1> QED BY <1>1 DEF Follows

(* What deleting an entry writes. *)
LEMMA DeleteWrites ==
  ASSUME NEW s \in Stores, NEW prev_ptr, NEW hp \in Entries,
         hp # s.hole_head => prev_ptr \in Entries
  PROVE  LET r == DeleteEntry(s, prev_ptr, hp)
         IN  /\ r \in Stores /\ r.h_base = s.h_base /\ r.h_len = s.h_len
             /\ r.free_slots = hp
             /\ r.hole_head = IF hp = s.hole_head THEN s.h_next[hp] ELSE s.hole_head
             /\ \A e \in Entries :
                  r.h_next[e] = IF e = hp THEN s.free_slots
                                ELSE IF hp # s.hole_head /\ e = prev_ptr THEN s.h_next[hp]
                                ELSE s.h_next[e]
<1> DEFINE out == IF hp = s.hole_head THEN [s EXCEPT !.hole_head = s.h_next[hp]]
                                      ELSE [s EXCEPT !.h_next[prev_ptr] = s.h_next[hp]]
<1>1. /\ s.h_next \in [Entries -> Pointers] /\ s.hole_head \in Pointers
      /\ s.free_slots \in Pointers /\ s.h_next[hp] \in Pointers /\ hp \in Pointers
  BY DEF Stores, Pointers
<1>2. /\ out \in Stores /\ out.h_base = s.h_base /\ out.h_len = s.h_len
      /\ out.free_slots = s.free_slots
      /\ out.hole_head = IF hp = s.hole_head THEN s.h_next[hp] ELSE s.hole_head
      /\ \A e \in Entries :
           out.h_next[e] = IF hp # s.hole_head /\ e = prev_ptr THEN s.h_next[hp]
                                                               ELSE s.h_next[e]
  <2>1. CASE hp = s.hole_head
    BY <1>1, <2>1 DEF Stores
  <2>2. CASE hp # s.hole_head
    BY <1>1, <2>2 DEF Stores
  <2> QED BY <2>1, <2>2
<1>3. DeleteEntry(s, prev_ptr, hp) = [out EXCEPT !.h_next[hp] = s.free_slots, !.free_slots = hp]
  BY DEF DeleteEntry
<1> HIDE DEF out
<1>4. out.h_next \in [Entries -> Pointers]
  BY <1>2 DEF Stores
<1> DEFINE r == DeleteEntry(s, prev_ptr, hp)
<1>5. /\ r \in Stores /\ r.h_base = out.h_base /\ r.h_len = out.h_len
      /\ r.free_slots = hp /\ r.hole_head = out.hole_head
      /\ \A e \in Entries : r.h_next[e] = IF e = hp THEN s.free_slots ELSE out.h_next[e]
  <2>1. out \in Stores /\ hp \in Pointers /\ s.free_slots \in Pointers
    BY <1>1, <1>2
  <2> DEFINE links == [out.h_next EXCEPT ![hp] = s.free_slots]
  <2>2. /\ links \in [Entries -> Pointers]
        /\ \A e \in Entries : links[e] = IF e = hp THEN s.free_slots ELSE out.h_next[e]
    BY <1>4, <2>1
  <2>3. /\ r.h_next = links /\ r.free_slots = hp /\ r.hole_head = out.hole_head
        /\ r.h_base = out.h_base /\ r.h_len = out.h_len
    BY <1>3, <2>1 DEF Stores
  <2>4. r \in Stores
    <3> HIDE DEF links
    <3>1. r = [out EXCEPT !.h_next = links, !.free_slots = hp]
      BY <1>3, <2>1 DEF Stores, links
    <3> QED BY <2>1, <2>2, <3>1 DEF Stores
  <2> HIDE DEF links, r
  <2> QED BY <2>2, <2>3, <2>4
<1> HIDE DEF r
<1> QED BY <1>2, <1>5 DEF r

(* The first hole is the head, and no other is. *)
LEMMA HeadIsFirst ==
  ASSUME NEW s, NEW l, NEW f, NEW hand, Threaded(s, l, f, hand),
         NEW k \in 1..Len(l)
  PROVE  /\ l[k] = s.hole_head <=> k = 1
         /\ l[k] \in Entries
         /\ \A j \in 1..Len(l) : l[j] = l[k] <=> j = k
<1>1. l \in Seq(Entries) /\ Len(l) \in Nat /\ DOMAIN l = 1..Len(l)
  BY DEF Threaded
<1>2. s.hole_head = l[1] /\ 1 \in 1..Len(l)
  <2>1. 1 \in 1..Len(l)
    BY <1>1
  <2> QED BY <1>1, <2>1 DEF Threaded, Follows, Nth
<1>3. \A i, j \in 1..Len(l) : l[i] = l[j] => i = j
  BY <1>1 DEF Threaded, EachOnce
<1> QED BY <1>1, <1>2, <1>3

(* prev_ptr is the entry before the k-th, if there is one. *)
Before(l, k, prev_ptr) == k # 1 => prev_ptr = l[k - 1]

SameNumbers(r, s) == r.h_base = s.h_base /\ r.h_len = s.h_len

(* del_slot takes the k-th hole out and puts it in front of the unused.    *)
LEMMA DeleteThreads ==
  ASSUME NEW s, NEW l, NEW f, NEW hand, Threaded(s, l, f, hand),
         NEW k \in 1..Len(l), NEW prev_ptr, Before(l, k, prev_ptr)
  PROVE  LET r == DeleteEntry(s, prev_ptr, l[k])
         IN  /\ Threaded(r, RemoveAt(l, k), <<l[k]>> \o f, hand)
             /\ SameNumbers(r, s)
<1> DEFINE hp == l[k]
           r == DeleteEntry(s, prev_ptr, hp)
           m == RemoveAt(l, k)
           g == <<hp>> \o f
           n == Len(l)
<1>1. /\ s \in Stores /\ l \in Seq(Entries) /\ f \in Seq(Entries) /\ n \in Nat
      /\ Follows(s, s.hole_head, l) /\ Follows(s, s.free_slots, f)
      /\ EachOnce(l, f, hand)
  BY DEF Threaded
<1>2. /\ hp \in Entries /\ (hp = s.hole_head <=> k = 1)
      /\ \A j \in 1..n : l[j] = hp <=> j = k
  BY HeadIsFirst
<1>3. k # 1 => /\ k - 1 \in 1..n /\ prev_ptr = l[k - 1] /\ prev_ptr \in Entries
               /\ \A j \in 1..n : l[j] = prev_ptr <=> j = k - 1
  <2> SUFFICES ASSUME k # 1
               PROVE  /\ k - 1 \in 1..n /\ l[k - 1] \in Entries
                      /\ \A j \in 1..n : l[j] = l[k - 1] <=> j = k - 1
    BY Zenon DEF Before
  <2>1. k - 1 \in 1..n
    BY <1>1
  <2> QED BY <2>1, HeadIsFirst
<1>4. /\ r \in Stores /\ r.h_base = s.h_base /\ r.h_len = s.h_len
      /\ r.free_slots = hp
      /\ r.hole_head = IF hp = s.hole_head THEN s.h_next[hp] ELSE s.hole_head
      /\ \A e \in Entries :
           r.h_next[e] = IF e = hp THEN s.free_slots
                         ELSE IF hp # s.hole_head /\ e = prev_ptr THEN s.h_next[hp]
                         ELSE s.h_next[e]
  BY <1>1, <1>2, <1>3, DeleteWrites
<1>5. /\ m \in Seq(Entries) /\ Len(m) = n - 1
      /\ \A j \in 1..n - 1 : m[j] = IF j < k THEN l[j] ELSE l[j + 1]
  BY <1>1, Removed, Zenon
<1>6. ASSUME NEW j \in Nat \ {0}
      PROVE  Nth(m, j) = IF j < k THEN Nth(l, j) ELSE Nth(l, j + 1)
  <2>1. l \in Seq(Entries)
    BY <1>1
  <2> QED BY <2>1, NthRemoved
<1>7. s.hole_head = Nth(l, 1) /\ \A j \in 1..n : s.h_next[l[j]] = Nth(l, j + 1)
  BY <1>1, FollowsEach
<1>8. s.free_slots = Nth(f, 1) /\ \A j \in 1..Len(f) : s.h_next[f[j]] = Nth(f, j + 1)
  BY <1>1, FollowsEach
<1>9. /\ g \in Seq(Entries) /\ Len(g) = Len(f) + 1 /\ g[1] = hp
      /\ \A j \in 1..Len(f) : g[j + 1] = f[j]
  BY <1>1, <1>2
<1> HIDE DEF r, m, g, hp, n
<1>10. Follows(r, r.hole_head, m)
  <2>1. r.hole_head = Nth(m, 1)
    <3>1. CASE k = 1
      <4>1. s.h_next[l[1]] = Nth(l, 1 + 1)
        BY <1>1, <1>7, <3>1 DEF n
      <4>2. Nth(m, 1) = Nth(l, 1 + 1)
        BY <1>6, <3>1
      <4> QED BY <1>2, <1>4, <3>1, <4>1, <4>2 DEF hp
    <3>2. CASE k # 1
      <4>1. 1 < k
        BY <1>1, <3>2
      <4> QED BY <1>2, <1>4, <1>6, <1>7, <3>2, <4>1
    <3> QED BY <3>1, <3>2
  <2>2. ASSUME NEW j \in 1..Len(m) PROVE r.h_next[m[j]] = Nth(m, j + 1)
    <3> DEFINE i == IF j < k THEN j ELSE j + 1
    <3>1. i \in 1..n /\ i # k /\ m[j] = l[i] /\ l[i] \in Entries
      <4>1. i \in 1..n /\ i # k /\ j \in 1..n - 1 /\ j \in Nat
        BY <1>1, <1>5 DEF n
      <4> QED BY <1>1, <1>5, <4>1 DEF n
    <3>2. l[i] # hp
      BY <1>2, <3>1
    <3>3. Nth(m, j + 1) = IF j + 1 < k THEN Nth(l, j + 1) ELSE Nth(l, j + 2)
      BY <1>6
    <3>4. CASE k # 1 /\ i = k - 1
      <4>1. r.h_next[l[i]] = s.h_next[hp]
        BY <1>2, <1>3, <1>4, <3>1, <3>2, <3>4
      <4>2. s.h_next[hp] = Nth(l, k + 1)
        BY <1>7 DEF hp, n
      <4>3. j + 2 = k + 1 /\ ~ (j + 1 < k)
        BY <3>4, <1>1
      <4> QED BY <3>1, <3>3, <4>1, <4>2, <4>3
    <3>5. CASE ~ (k # 1 /\ i = k - 1)
      <4>1. r.h_next[l[i]] = s.h_next[l[i]]
        BY <1>2, <1>3, <1>4, <3>1, <3>2, <3>5
      <4>2. s.h_next[l[i]] = Nth(l, i + 1)
        BY <1>7, <3>1
      <4>3. i + 1 = IF j + 1 < k THEN j + 1 ELSE j + 2
        BY <3>5, <1>1 DEF n
      <4> QED BY <3>1, <3>3, <4>1, <4>2, <4>3
    <3> QED BY <3>4, <3>5
  <2> QED BY <1>5, <2>1, <2>2, FollowsEach, Zenon
<1>11. Follows(r, r.free_slots, g)
  <2>1. \A j \in Nat \ {0} : Nth(g, j) = IF j = 1 THEN hp ELSE Nth(f, j - 1)
    BY <1>1, <1>9 DEF Nth
  <2>2. ASSUME NEW j \in 1..Len(g) PROVE r.h_next[g[j]] = Nth(g, j + 1)
    <3>1. Nth(g, j + 1) = Nth(f, j) /\ j \in Nat \ {0}
      BY <2>1
    <3>2. CASE j = 1
      BY <1>2, <1>4, <1>8, <1>9, <3>1, <3>2
    <3>3. CASE j # 1
      <4> DEFINE i == j - 1
      <4>1. i \in 1..Len(f) /\ i + 1 = j
        BY <1>1, <1>9, <3>3
      <4>2. g[j] = f[i] /\ f[i] \in Entries /\ s.h_next[f[i]] = Nth(f, j)
        <5>1. g[i + 1] = f[i] /\ s.h_next[f[i]] = Nth(f, i + 1) /\ f[i] \in Entries
          <6> HIDE DEF i
          <6> QED BY <1>1, <1>8, <1>9, <4>1
        <5> QED BY <4>1, <5>1
      <4>3. f[i] # hp /\ (k # 1 => f[i] # prev_ptr)
        BY <1>1, <1>3, <4>1 DEF EachOnce, hp, n
      <4>4. r.h_next[f[i]] = s.h_next[f[i]]
        BY <1>2, <1>4, <4>2, <4>3
      <4> QED BY <3>1, <4>2, <4>4
    <3> QED BY <3>2, <3>3
  <2>3. r.free_slots = Nth(g, 1)
    BY <1>4, <2>1
  <2> QED BY <1>9, <2>2, <2>3, FollowsEach, Zenon
<1>12. EachOnce(m, g, hand)
  <2> DEFINE old(j) == IF j < k THEN j ELSE j + 1
  <2>1. \A j \in 1..Len(m) : old(j) \in 1..n /\ old(j) # k /\ m[j] = l[old(j)]
    BY <1>1, <1>5 DEF n
  <2>2. \A i, j \in 1..Len(m) : old(i) = old(j) => i = j
    OBVIOUS
  <2>3. /\ \A i, j \in 1..n : l[i] = l[j] => i = j
        /\ \A i, j \in 1..Len(f) : f[i] = f[j] => i = j
        /\ \A i \in 1..n, j \in 1..Len(f) : l[i] # f[j]
        /\ \A e \in Entries : e \in hand <=> e \notin Range(l) \cup Range(f)
    BY <1>1 DEF EachOnce, n
  <2>4. DOMAIN m = 1..Len(m) /\ DOMAIN g = 1..Len(g)
    BY <1>5, <1>9
  <2>5. \A j \in 1..Len(g) : j # 1 => j - 1 \in 1..Len(f) /\ g[j] = f[j - 1]
    <3> SUFFICES ASSUME NEW j \in 1..Len(g), j # 1
                 PROVE  j - 1 \in 1..Len(f) /\ g[j] = f[j - 1]
      OBVIOUS
    <3>1. j - 1 \in 1..Len(f) /\ (j - 1) + 1 = j
      BY <1>1, <1>9
    <3>2. g[(j - 1) + 1] = f[j - 1]
      BY <1>9, <3>1, Zenon
    <3> QED BY <3>1, <3>2
  <2> HIDE DEF old
  <2>6. \A i, j \in 1..Len(m) : m[i] = m[j] => i = j
    BY <2>1, <2>2, <2>3
  <2>7. \A j \in 1..Len(f) : f[j] # hp
    BY <2>3 DEF hp, n
  <2>8. \A i, j \in 1..Len(g) : g[i] = g[j] => i = j
    <3> SUFFICES ASSUME NEW i \in 1..Len(g), NEW j \in 1..Len(g), g[i] = g[j] PROVE i = j
      OBVIOUS
    <3>1. CASE i = 1 \/ j = 1
      BY <1>9, <2>5, <2>7, <3>1
    <3>2. CASE i # 1 /\ j # 1
      <4>1. i - 1 = j - 1
        BY <2>3, <2>5, <3>2
      <4> QED BY <1>1, <1>9, <4>1
    <3> QED BY <3>1, <3>2
  <2>9. \A i \in 1..Len(m), j \in 1..Len(g) : m[i] # g[j]
    <3> SUFFICES ASSUME NEW i \in 1..Len(m), NEW j \in 1..Len(g) PROVE m[i] # g[j]
      OBVIOUS
    <3>1. m[i] # hp
      BY <1>2, <2>1
    <3>2. CASE j = 1
      BY <1>9, <3>1, <3>2
    <3>3. CASE j # 1
      <4>1. old(i) \in 1..n /\ m[i] = l[old(i)]
        BY <2>1
      <4>2. j - 1 \in 1..Len(f) /\ g[j] = f[j - 1]
        BY <2>5, <3>3
      <4> QED BY <2>3, <4>1, <4>2
    <3> QED BY <3>2, <3>3
  <2>10. Range(m) \cup Range(g) = Range(l) \cup Range(f)
    <3>1. \A j \in 1..n : j = k \/ \E i \in 1..Len(m) : old(i) = j
      <4> SUFFICES ASSUME NEW j \in 1..n, j # k PROVE \E i \in 1..Len(m) : old(i) = j
        OBVIOUS
      <4>1. CASE j < k
        BY <1>1, <1>5, <4>1 DEF old, n
      <4>2. CASE j > k
        <5>1. j - 1 \in 1..Len(m) /\ old(j - 1) = j
          BY <1>1, <1>5, <4>2 DEF old, n
        <5> QED BY <5>1
      <4> QED BY <1>1, <4>1, <4>2 DEF n
    <3>2. \A e : (\E j \in 1..n : l[j] = e) <=> e = hp \/ \E i \in 1..Len(m) : m[i] = e
      BY <2>1, <3>1 DEF hp, n
    <3>3. \A e : (\E j \in 1..Len(g) : g[j] = e) <=> e = hp \/ \E i \in 1..Len(f) : f[i] = e
      <4>1. \A i \in 1..Len(f) : i + 1 \in 1..Len(g)
        BY <1>1, <1>9
      <4>2. 1 \in 1..Len(g)
        BY <1>1, <1>9
      <4>3. ASSUME NEW j \in 1..Len(g) PROVE g[j] = hp \/ \E i \in 1..Len(f) : f[i] = g[j]
        BY <1>9, <2>5
      <4>4. ASSUME NEW i \in 1..Len(f) PROVE \E j \in 1..Len(g) : g[j] = f[i]
        BY <1>9, <4>1
      <4>5. \E j \in 1..Len(g) : g[j] = hp
        BY <1>9, <4>2
      <4> QED BY <4>3, <4>4, <4>5
    <3>4. \A e : /\ e \in Range(l) <=> \E j \in 1..n : l[j] = e
                 /\ e \in Range(f) <=> \E j \in 1..Len(f) : f[j] = e
                 /\ e \in Range(m) <=> \E j \in 1..Len(m) : m[j] = e
                 /\ e \in Range(g) <=> \E j \in 1..Len(g) : g[j] = e
      BY <1>1, <2>4 DEF Range, n
    <3> SUFFICES \A e : e \in Range(m) \cup Range(g) <=> e \in Range(l) \cup Range(f)
      OBVIOUS
    <3> QED BY <3>2, <3>3, <3>4
  <2> QED BY <2>3, <2>4, <2>6, <2>8, <2>9, <2>10 DEF EachOnce
<1>13. Threaded(r, m, g, hand)
  BY <1>4, <1>5, <1>9, <1>10, <1>11, <1>12 DEF Threaded
<1>14. SameNumbers(r, s)
  BY <1>4 DEF SameNumbers
<1> QED BY <1>13, <1>14 DEF r, m, g, hp

(* free_mem takes the first unused entry in hand and fills it in.          *)
Filled(r, s, l, e, base, clicks) ==
  /\ r.h_base[e] = base /\ r.h_len[e] = clicks
  /\ \A j \in 1..Len(l) : r.h_base[l[j]] = s.h_base[l[j]] /\ r.h_len[l[j]] = s.h_len[l[j]]

LEMMA FillThreads ==
  ASSUME NEW s, NEW l, NEW f, Threaded(s, l, f, {}), s.free_slots # NIL_HOLE,
         NEW base \in Nat, NEW clicks \in Nat
  PROVE  LET r == FillEntry(s, base, clicks)
             e == s.free_slots
         IN  /\ e \in Entries /\ Len(f) \in Nat \ {0}
             /\ \E h : Threaded(r, l, h, {e}) /\ Len(h) = Len(f) - 1
             /\ Filled(r, s, l, e, base, clicks)
<1> DEFINE r == FillEntry(s, base, clicks)
           e == s.free_slots
           h == Tail(f)
<1>1. /\ s \in Stores /\ l \in Seq(Entries) /\ f \in Seq(Entries) /\ Len(f) \in Nat
      /\ Follows(s, s.hole_head, l) /\ Follows(s, s.free_slots, f)
      /\ EachOnce(l, f, {})
  BY DEF Threaded
<1>2. e = Nth(f, 1) /\ \A j \in 1..Len(f) : s.h_next[f[j]] = Nth(f, j + 1)
  BY <1>1, FollowsEach
<1>3. Len(f) \in Nat \ {0} /\ e = f[1] /\ e \in Entries
  <2>1. Len(f) # 0
    BY <1>1, <1>2 DEF Nth
  <2> QED BY <1>1, <1>2, <2>1 DEF Nth
<1>4. /\ h \in Seq(Entries) /\ Len(h) = Len(f) - 1
      /\ \A j \in 1..Len(f) - 1 : h[j] = f[j + 1]
  BY <1>1, <1>3
<1> HIDE DEF h, e
<1>5. s.h_next[e] \in Pointers /\ s.h_next \in [Entries -> Pointers]
  BY <1>1, <1>3 DEF Stores
<1>6. /\ r \in Stores /\ r.h_next = s.h_next /\ r.hole_head = s.hole_head
      /\ r.free_slots = s.h_next[e] /\ r.h_base[e] = base /\ r.h_len[e] = clicks
      /\ \A x \in Entries : x # e => r.h_base[x] = s.h_base[x] /\ r.h_len[x] = s.h_len[x]
  BY <1>1, <1>3, <1>5 DEF Stores, FillEntry, e
<1> HIDE DEF r
<1>7. Follows(r, r.hole_head, l)
  BY <1>1, <1>6, FollowsEach
<1>8. Follows(r, r.free_slots, h)
  <2>1. \A j \in Nat \ {0} : Nth(h, j) = Nth(f, j + 1)
    <3> SUFFICES ASSUME NEW j \in Nat \ {0} PROVE Nth(h, j) = Nth(f, j + 1)
      OBVIOUS
    <3>1. j \in DOMAIN h <=> j + 1 \in DOMAIN f
      BY <1>1, <1>3, <1>4
    <3>2. j \in DOMAIN h => h[j] = f[j + 1]
      BY <1>1, <1>3, <1>4
    <3> QED BY <3>1, <3>2 DEF Nth
  <2>2. r.free_slots = Nth(h, 1)
    <3>1. s.h_next[f[1]] = Nth(f, 1 + 1)
      BY <1>2, <1>3
    <3>2. Nth(h, 1) = Nth(f, 1 + 1)
      BY <2>1
    <3> QED BY <1>3, <1>6, <3>1, <3>2
  <2>3. ASSUME NEW j \in 1..Len(h) PROVE r.h_next[h[j]] = Nth(h, j + 1)
    <3>1. j + 1 \in 1..Len(f) /\ j \in Nat \ {0} /\ h[j] = f[j + 1] /\ j + 1 \in Nat \ {0}
      BY <1>1, <1>4
    <3>2. s.h_next[f[j + 1]] = Nth(f, (j + 1) + 1)
      BY <1>2, <3>1, Zenon
    <3> QED BY <1>6, <2>1, <3>1, <3>2
  <2> QED BY <1>4, <2>2, <2>3, FollowsEach
<1>9. EachOnce(l, h, {e})
  <2>1. /\ \A i, j \in DOMAIN l : l[i] = l[j] => i = j
        /\ \A i, j \in 1..Len(f) : f[i] = f[j] => i = j
        /\ \A i \in DOMAIN l, j \in 1..Len(f) : l[i] # f[j]
        /\ \A x \in Entries : x \in Range(l) \cup Range(f)
    BY <1>1 DEF EachOnce
  <2>2. /\ DOMAIN h = 1..Len(h) /\ DOMAIN f = 1..Len(f)
        /\ \A j \in 1..Len(h) : j + 1 \in 1..Len(f) /\ h[j] = f[j + 1]
    BY <1>1, <1>4
  <2>3. \A i, j \in 1..Len(h) : h[i] = h[j] => i = j
    <3> SUFFICES ASSUME NEW i \in 1..Len(h), NEW j \in 1..Len(h), h[i] = h[j] PROVE i = j
      OBVIOUS
    <3>1. i + 1 = j + 1
      BY <2>1, <2>2
    <3> QED BY <1>1, <1>4, <3>1
  <2>4. \A i \in DOMAIN l, j \in 1..Len(h) : l[i] # h[j]
    BY <2>1, <2>2
  <2>5. e \notin Range(l) /\ e \notin Range(h)
    <3>1. 1 \in 1..Len(f) /\ \A j \in 1..Len(h) : j + 1 # 1
      BY <1>3, <1>4
    <3>2. \A j \in 1..Len(h) : h[j] # f[1]
      BY <2>1, <2>2, <3>1
    <3> QED BY <1>3, <2>1, <2>2, <3>1, <3>2 DEF Range
  <2>6. \A x \in Entries : x \notin Range(l) /\ x \notin Range(h) => x = e
    <3> SUFFICES ASSUME NEW x \in Entries, x \notin Range(l), x # e PROVE x \in Range(h)
      OBVIOUS
    <3>1. PICK j \in 1..Len(f) : f[j] = x
      BY <2>1, <2>2 DEF Range
    <3>2. j # 1
      BY <1>3, <3>1
    <3>3. j - 1 \in 1..Len(h) /\ h[j - 1] = f[j]
      <4>1. j - 1 \in 1..Len(f) - 1 /\ (j - 1) + 1 = j
        BY <1>1, <3>2
      <4> QED BY <1>4, <4>1
    <3> QED BY <2>2, <3>1, <3>3 DEF Range
  <2> QED BY <1>3, <2>1, <2>2, <2>3, <2>4, <2>5, <2>6 DEF EachOnce
<1>10. Threaded(r, l, h, {e})
  BY <1>1, <1>4, <1>6, <1>7, <1>8, <1>9 DEF Threaded
<1>11. \A j \in 1..Len(l) : l[j] # e /\ l[j] \in Entries
  BY <1>1, <1>3 DEF EachOnce
<1>12. Filled(r, s, l, e, base, clicks)
  BY <1>4, <1>6, <1>11 DEF Filled
<1> QED BY <1>3, <1>4, <1>10, <1>12 DEF r, e

(* A store in which the entry in hand has become the k-th hole. *)
Joined(r, s, l, k, e) ==
  /\ r \in Stores /\ r.free_slots = s.free_slots /\ SameNumbers(r, s)
  /\ r.hole_head = IF k = 1 THEN e ELSE s.hole_head
  /\ \A x \in Entries : r.h_next[x] = IF x = e THEN Nth(l, k)
                                      ELSE IF k # 1 /\ x = l[k - 1] THEN e
                                      ELSE s.h_next[x]

LEMMA InsertThreads ==
  ASSUME NEW s, NEW l, NEW f, NEW e \in Entries, Threaded(s, l, f, {e}),
         NEW k \in 1..Len(l) + 1, NEW r, Joined(r, s, l, k, e)
  PROVE  Threaded(r, InsertAt(l, k, e), f, {})
<1> DEFINE m == InsertAt(l, k, e)
<1>0. /\ r \in Stores /\ r.free_slots = s.free_slots
      /\ r.hole_head = IF k = 1 THEN e ELSE s.hole_head
      /\ \A x \in Entries : r.h_next[x] = IF x = e THEN Nth(l, k)
                                           ELSE IF k # 1 /\ x = l[k - 1] THEN e
                                           ELSE s.h_next[x]
  BY DEF Joined
<1>1. /\ s \in Stores /\ l \in Seq(Entries) /\ f \in Seq(Entries)
      /\ Len(l) \in Nat /\ Len(f) \in Nat
      /\ Follows(s, s.hole_head, l) /\ Follows(s, s.free_slots, f)
      /\ EachOnce(l, f, {e})
  BY DEF Threaded
<1>2. s.hole_head = Nth(l, 1) /\ \A j \in 1..Len(l) : s.h_next[l[j]] = Nth(l, j + 1)
  BY <1>1, FollowsEach
<1>3. s.free_slots = Nth(f, 1) /\ \A j \in 1..Len(f) : s.h_next[f[j]] = Nth(f, j + 1)
  BY <1>1, FollowsEach
<1>4. /\ m \in Seq(Entries) /\ Len(m) = Len(l) + 1
      /\ \A i \in 1..Len(l) + 1 : i < k => m[i] = l[i]
      /\ m[k] = e
      /\ \A i \in 1..Len(l) + 1 : k < i => m[i] = l[i - 1]
  BY <1>1, Inserted
<1>5. \A j \in Nat \ {0} :
        Nth(m, j) = IF j < k THEN Nth(l, j) ELSE IF j = k THEN e ELSE Nth(l, j - 1)
  BY <1>1, NthInserted
<1>6. /\ \A i, j \in 1..Len(l) : l[i] = l[j] => i = j
      /\ \A i, j \in 1..Len(f) : f[i] = f[j] => i = j
      /\ \A i \in 1..Len(l), j \in 1..Len(f) : l[i] # f[j]
      /\ \A i \in 1..Len(l) : l[i] # e /\ l[i] \in Entries
      /\ \A i \in 1..Len(f) : f[i] # e /\ f[i] \in Entries
  <2>1. DOMAIN l = 1..Len(l) /\ DOMAIN f = 1..Len(f)
    BY <1>1
  <2>2. e \notin Range(l) /\ e \notin Range(f)
    BY <1>1 DEF EachOnce
  <2>3. /\ \A i \in 1..Len(l) : l[i] # e /\ l[i] \in Entries
        /\ \A i \in 1..Len(f) : f[i] # e /\ f[i] \in Entries
    BY <1>1, <2>1, <2>2 DEF Range
  <2>4. /\ \A i, j \in 1..Len(l) : l[i] = l[j] => i = j
        /\ \A i, j \in 1..Len(f) : f[i] = f[j] => i = j
        /\ \A i \in 1..Len(l), j \in 1..Len(f) : l[i] # f[j]
    BY <1>1, <2>1 DEF EachOnce
  <2> QED BY <2>3, <2>4
<1> HIDE DEF m
<1>7. Follows(r, r.hole_head, m)
  <2>1. r.hole_head = Nth(m, 1)
    <3>1. 1 < k \/ k = 1
      BY <1>1
    <3> QED BY <1>0, <1>2, <1>5, <3>1
  <2>2. ASSUME NEW j \in 1..Len(m) PROVE r.h_next[m[j]] = Nth(m, j + 1)
    <3>1. Nth(m, j + 1) = IF j + 1 < k THEN Nth(l, j + 1) ELSE IF j + 1 = k THEN e ELSE Nth(l, j)
      <4>1. j + 1 \in Nat \ {0} /\ (j + 1) - 1 = j
        OBVIOUS
      <4> QED BY <1>5, <4>1
    <3>2. CASE j = k
      BY <1>0, <1>1, <1>4, <3>1, <3>2
    <3>3. CASE j < k
      <4>1. j \in 1..Len(l) /\ m[j] = l[j] /\ l[j] \in Entries /\ l[j] # e
        BY <1>1, <1>4, <1>6, <3>3
      <4>2. s.h_next[l[j]] = Nth(l, j + 1)
        BY <1>2, <4>1
      <4>3. CASE j = k - 1
        <5>1. k # 1 /\ ~ (j + 1 < k) /\ j + 1 = k
          BY <1>1, <4>3
        <5> QED BY <1>0, <3>1, <4>1, <4>3, <5>1
      <4>4. CASE j # k - 1
        <5>1. j + 1 < k /\ (k # 1 => k - 1 \in 1..Len(l))
          BY <1>1, <3>3, <4>4
        <5>2. k # 1 => l[j] # l[k - 1]
          BY <1>6, <4>1, <4>4, <5>1
        <5> QED BY <1>0, <3>1, <4>1, <4>2, <5>1, <5>2
      <4> QED BY <4>3, <4>4
    <3>4. CASE j > k
      <4> DEFINE i == j - 1
      <4>1. /\ i \in 1..Len(l) /\ m[j] = l[i] /\ i + 1 = j /\ i # k - 1
            /\ ~ (j + 1 < k) /\ j + 1 # k /\ (k # 1 => k - 1 \in 1..Len(l))
        BY <1>1, <1>4, <3>4
      <4> HIDE DEF i
      <4>2. l[i] \in Entries /\ l[i] # e /\ (k # 1 => l[i] # l[k - 1])
        BY <1>6, <4>1
      <4>3. s.h_next[l[i]] = Nth(l, i + 1)
        BY <1>2, <4>1
      <4> QED BY <1>0, <3>1, <4>1, <4>2, <4>3
    <3> QED BY <1>1, <3>2, <3>3, <3>4
  <2> QED BY <1>4, <2>1, <2>2, FollowsEach
<1>8. Follows(r, r.free_slots, f)
  <2>1. \A j \in 1..Len(f) : k # 1 => f[j] # l[k - 1]
    <3>1. k # 1 => k - 1 \in 1..Len(l)
      BY <1>1
    <3> QED BY <1>6, <3>1
  <2>2. \A j \in 1..Len(f) : r.h_next[f[j]] = s.h_next[f[j]]
    BY <1>0, <1>6, <2>1
  <2> QED BY <1>0, <1>1, <1>3, <2>2, FollowsEach
<1>9. EachOnce(m, f, {})
  <2>1. DOMAIN m = 1..Len(m) /\ DOMAIN f = 1..Len(f) /\ DOMAIN l = 1..Len(l)
    BY <1>1, <1>4
  <2> DEFINE old(j) == IF j < k THEN j ELSE j - 1
  <2>2. \A j \in 1..Len(m) : j # k => old(j) \in 1..Len(l) /\ m[j] = l[old(j)]
    BY <1>1, <1>4
  <2>3. \A i, j \in 1..Len(m) : i # k /\ j # k /\ old(i) = old(j) => i = j
    BY <1>1, <1>4
  <2>4. \A j \in 1..Len(l) : \E i \in 1..Len(m) : m[i] = l[j]
    <3> SUFFICES ASSUME NEW j \in 1..Len(l) PROVE \E i \in 1..Len(m) : m[i] = l[j]
      OBVIOUS
    <3>1. CASE j < k
      BY <1>1, <1>4, <3>1
    <3>2. CASE ~ (j < k)
      <4>1. j + 1 \in 1..Len(m) /\ k < j + 1 /\ (j + 1) - 1 = j
        BY <1>1, <1>4, <3>2
      <4>2. m[j + 1] = l[j]
        BY <1>4, <4>1
      <4> QED BY <4>1, <4>2
    <3> QED BY <3>1, <3>2
  <2> HIDE DEF old
  <2>5. \A i, j \in 1..Len(m) : m[i] = m[j] => i = j
    <3> SUFFICES ASSUME NEW i \in 1..Len(m), NEW j \in 1..Len(m), m[i] = m[j] PROVE i = j
      OBVIOUS
    <3>1. CASE i = k \/ j = k
      BY <1>4, <1>6, <2>2, <3>1
    <3>2. CASE i # k /\ j # k
      <4>0. /\ old(i) \in 1..Len(l) /\ old(j) \in 1..Len(l)
            /\ l[old(i)] = l[old(j)]
        BY <2>2, <3>2
      <4>1. old(i) = old(j)
        BY <1>6, <4>0
      <4> QED BY <2>3, <3>2, <4>1
    <3> QED BY <3>1, <3>2
  <2>6. \A i \in 1..Len(m), j \in 1..Len(f) : m[i] # f[j]
    BY <1>4, <1>6, <2>2
  <2>7. \A x \in Entries : x \in Range(m) \/ x \in Range(f)
    <3> SUFFICES ASSUME NEW x \in Entries, x \notin Range(f) PROVE x \in Range(m)
      OBVIOUS
    <3>1. x = e \/ x \in Range(l)
      BY <1>1 DEF EachOnce
    <3>2. k \in 1..Len(m)
      BY <1>1, <1>4
    <3>3. CASE x = e
      BY <1>4, <2>1, <3>2, <3>3 DEF Range
    <3>4. CASE x \in Range(l)
      <4>1. PICK j \in 1..Len(l) : l[j] = x
        BY <2>1, <3>4 DEF Range
      <4>2. PICK i \in 1..Len(m) : m[i] = x
        BY <2>4, <4>1
      <4> QED BY <2>1, <4>2 DEF Range
    <3> QED BY <3>1, <3>3, <3>4
  <2>8. \A x \in Entries : x \in {} <=> x \notin Range(m) \cup Range(f)
    BY <2>7
  <2> QED BY <1>6, <2>1, <2>5, <2>6, <2>8 DEF EachOnce
<1> QED BY <1>0, <1>1, <1>4, <1>7, <1>8, <1>9 DEF Threaded, m
------------------------------------------------------------------------------
(* A store and a table that say the same.  Held: the same, while free_mem  *)
(* has an entry e in hand.                                                 *)
Tied(s, t, l, f) ==
  /\ Threaded(s, l, f, {}) /\ Spells(s, l, t.list) /\ Len(f) = t.free /\ Counted(t)
Held(s, t, l, f, e, base, clicks) ==
  /\ Threaded(s, l, f, {e}) /\ Spells(s, l, t.list) /\ Len(f) + 1 = t.free /\ Counted(t)
  /\ e \in Entries /\ s.h_base[e] = base /\ s.h_len[e] = clicks

LEMMA ListOfHoles ==
  ASSUME NEW t, Counted(t)
  PROVE  /\ t.list \in Seq(Holes) /\ Len(t.list) \in Nat /\ DOMAIN t.list = 1..Len(t.list)
         /\ t.free \in Nat /\ t.free + Len(t.list) = NR_HOLES /\ t \in Tables
         /\ \A k \in 1..Len(t.list) : /\ t.list[k] \in Holes
                                      /\ t.list[k].base \in Nat /\ t.list[k].len \in Nat
                                      /\ t.list[k] = Hole(t.list[k].base, t.list[k].len)
<1>1. /\ t.list \in Seq(Holes) /\ t.free \in 0..NR_HOLES
      /\ t.free + Len(t.list) = NR_HOLES /\ t \in Tables
  BY DEF Counted, Tables
<1>2. \A h \in Holes : h.base \in Nat /\ h.len \in Nat /\ h = Hole(h.base, h.len)
  BY DEF Holes, Hole
<1>3. Len(t.list) \in Nat /\ DOMAIN t.list = 1..Len(t.list)
  BY <1>1
<1>4. \A k \in 1..Len(t.list) : t.list[k] \in Holes
  BY <1>1
<1> QED BY <1>1, <1>2, <1>3, <1>4

(* Two holes with the same numbers. *)
LEMMA SameHole ==
  ASSUME NEW a, NEW b, NEW c, NEW d
  PROVE  /\ Hole(a, b) = Hole(c, d) <=> a = c /\ b = d
         /\ Hole(a, b).base = a /\ Hole(a, b).len = b
<1>1. Hole(a, b).base = a /\ Hole(a, b).len = b
  BY DEF Hole
<1>2. Hole(c, d).base = c /\ Hole(c, d).len = d
  BY DEF Hole
<1> QED BY <1>1, <1>2

LEMMA SpellsEach ==
  ASSUME NEW s, NEW l \in Seq(Entries), NEW x, Spells(s, l, x)
  PROVE  /\ Len(l) = Len(x)
         /\ \A k \in 1..Len(l) : Hole(s.h_base[l[k]], s.h_len[l[k]]) = x[k]
<1>1. DOMAIN l = 1..Len(l)
  OBVIOUS
<1> QED BY <1>1 DEF Spells

LEMMA EachSpells ==
  ASSUME NEW s, NEW l \in Seq(Entries), NEW x, Len(l) = Len(x),
         \A k \in 1..Len(l) : Hole(s.h_base[l[k]], s.h_len[l[k]]) = x[k]
  PROVE  Spells(s, l, x)
<1>1. DOMAIN l = 1..Len(l)
  OBVIOUS
<1> QED BY <1>1 DEF Spells

(* What a hole of the table says is written in its entry. *)
ReadOff(s, l, t) ==
  \A k \in 1..Len(l) : /\ l[k] \in Entries
                        /\ s.h_base[l[k]] = t.list[k].base
                        /\ s.h_len[l[k]] = t.list[k].len

LEMMA SpelledOut ==
  ASSUME NEW s, NEW l \in Seq(Entries), NEW t, Counted(t), Spells(s, l, t.list)
  PROVE  Len(l) = Len(t.list) /\ Len(l) \in Nat /\ ReadOff(s, l, t)
<1>1. /\ Len(l) = Len(t.list)
      /\ \A k \in 1..Len(l) : Hole(s.h_base[l[k]], s.h_len[l[k]]) = t.list[k]
  BY SpellsEach, Zenon
<1>2. ASSUME NEW k \in 1..Len(l)
      PROVE  s.h_base[l[k]] = t.list[k].base /\ s.h_len[l[k]] = t.list[k].len
  <2>1. Hole(s.h_base[l[k]], s.h_len[l[k]]) = t.list[k]
    BY <1>1
  <2>2. /\ Hole(s.h_base[l[k]], s.h_len[l[k]]).base = s.h_base[l[k]]
        /\ Hole(s.h_base[l[k]], s.h_len[l[k]]).len = s.h_len[l[k]]
    BY SameHole
  <2> QED BY <2>1, <2>2
<1>3. Len(l) \in Nat /\ \A k \in 1..Len(l) : l[k] \in Entries
  OBVIOUS
<1> QED BY <1>1, <1>2, <1>3 DEF ReadOff

(* The links do not depend on the numbers. *)
LEMMA SameThreads ==
  ASSUME NEW s, NEW l, NEW f, NEW hand, Threaded(s, l, f, hand), NEW r \in Stores,
         r.h_next = s.h_next, r.hole_head = s.hole_head, r.free_slots = s.free_slots
  PROVE  Threaded(r, l, f, hand)
  BY DEF Threaded, Follows

LEMMA DeleteTies ==
  ASSUME NEW s, NEW t, NEW l, NEW f, Tied(s, t, l, f), NEW k \in 1..Len(l),
         NEW prev_ptr, Before(l, k, prev_ptr)
  PROVE  Tied(DeleteEntry(s, prev_ptr, l[k]), del_slot(t, k),
              RemoveAt(l, k), <<l[k]>> \o f)
<1> DEFINE r == DeleteEntry(s, prev_ptr, l[k])
           m == RemoveAt(l, k)
           g == <<l[k]>> \o f
           u == del_slot(t, k)
<1>1. /\ Threaded(s, l, f, {}) /\ Spells(s, l, t.list) /\ Len(f) = t.free /\ Counted(t)
      /\ l \in Seq(Entries) /\ f \in Seq(Entries) /\ Len(l) \in Nat
  BY DEF Tied, Threaded
<1>2. Threaded(r, m, g, {}) /\ r.h_base = s.h_base /\ r.h_len = s.h_len
  <2>1. Threaded(r, m, g, {}) /\ SameNumbers(r, s)
    BY <1>1, DeleteThreads, Zenon
  <2> QED BY <2>1, Zenon DEF SameNumbers
<1>3. /\ Len(l) = Len(t.list)
      /\ \A j \in 1..Len(l) : Hole(s.h_base[l[j]], s.h_len[l[j]]) = t.list[j]
  BY <1>1, SpellsEach, Zenon
<1>4. /\ Counted(u) /\ Len(u.list) = Len(t.list) - 1
      /\ \A j \in 1..Len(t.list) - 1 :
           u.list[j] = IF j < k THEN t.list[j] ELSE t.list[j + 1]
  BY <1>1, <1>3, Deleted
<1>5. /\ m \in Seq(Entries) /\ Len(m) = Len(l) - 1
      /\ \A j \in 1..Len(l) - 1 : m[j] = IF j < k THEN l[j] ELSE l[j + 1]
  BY <1>1, Removed
<1>6. u.free = t.free + 1
  <2>1. t \in Tables
    BY <1>1, ListOfHoles
  <2> QED BY <2>1 DEF del_slot, Tables
<1>7. Len(g) = Len(f) + 1
  BY <1>1
<1> HIDE DEF r, m, g, u
<1>8. Spells(r, m, u.list)
  <2>1. ASSUME NEW j \in 1..Len(m) PROVE Hole(r.h_base[m[j]], r.h_len[m[j]]) = u.list[j]
    <3>1. j \in 1..Len(l) - 1 /\ j \in 1..Len(l) /\ j + 1 \in 1..Len(l)
      BY <1>1, <1>5
    <3>2. /\ m[j] = IF j < k THEN l[j] ELSE l[j + 1]
          /\ u.list[j] = IF j < k THEN t.list[j] ELSE t.list[j + 1]
      BY <1>3, <1>4, <1>5, <3>1
    <3>3. /\ Hole(s.h_base[l[j]], s.h_len[l[j]]) = t.list[j]
          /\ Hole(s.h_base[l[j + 1]], s.h_len[l[j + 1]]) = t.list[j + 1]
      BY <1>3, <3>1
    <3> QED BY <1>2, <3>2, <3>3
  <2> QED BY <1>3, <1>4, <1>5, <2>1, EachSpells
<1>9. Tied(r, u, m, g)
  BY <1>1, <1>2, <1>4, <1>6, <1>7, <1>8 DEF Tied
<1> QED BY <1>9 DEF r, m, g, u

(* A hole gets other numbers, in its entry and in the table. *)
Rewritten(s, hp, base, clicks) == [s EXCEPT !.h_base[hp] = base, !.h_len[hp] = clicks]
Edited(t, k, base, clicks) == [t EXCEPT !.list[k] = Hole(base, clicks)]

LEMMA EditTies ==
  ASSUME NEW s, NEW t, NEW l, NEW f, Tied(s, t, l, f), NEW k \in 1..Len(l),
         NEW base \in Nat, NEW clicks \in Nat
  PROVE  Tied(Rewritten(s, l[k], base, clicks), Edited(t, k, base, clicks), l, f)
<1> DEFINE r == Rewritten(s, l[k], base, clicks)
           u == Edited(t, k, base, clicks)
           h == Hole(base, clicks)
           x == [t.list EXCEPT ![k] = h]
<1>1. /\ Threaded(s, l, f, {}) /\ Spells(s, l, t.list) /\ Len(f) = t.free /\ Counted(t)
      /\ l \in Seq(Entries) /\ s \in Stores
  BY DEF Tied, Threaded
<1>2. /\ t.list \in Seq(Holes) /\ Len(t.list) \in Nat /\ t \in Tables
      /\ t.free + Len(t.list) = NR_HOLES /\ Len(l) = Len(t.list)
  BY <1>1, ListOfHoles, SpelledOut
<1>3. h \in Holes
  BY DEF Hole, Holes
<1>4. /\ x \in Seq(Holes) /\ Len(x) = Len(t.list)
      /\ \A j \in 1..Len(t.list) : x[j] = IF j = k THEN h ELSE t.list[j]
  <2> HIDE DEF h
  <2> QED BY <1>2, <1>3
<1>5. u \in Tables /\ u.list = x /\ u.free = t.free
  <2>1. u = [t EXCEPT !.list = x]
    BY <1>2 DEF Edited, Tables
  <2> HIDE DEF x, u
  <2> QED BY <1>2, <1>4, <2>1 DEF Tables
<1>6. l[k] \in Entries
  BY <1>1
<1>7. /\ r \in Stores /\ r.h_next = s.h_next /\ r.hole_head = s.hole_head
      /\ r.free_slots = s.free_slots
      /\ r.h_base[l[k]] = base /\ r.h_len[l[k]] = clicks
      /\ \A e \in Entries : e # l[k] => r.h_base[e] = s.h_base[e] /\ r.h_len[e] = s.h_len[e]
  BY <1>1, <1>6 DEF Stores, Rewritten
<1>8. ASSUME NEW j \in 1..Len(l)
      PROVE  /\ l[j] \in Entries
             /\ j # k => l[j] # l[k]
             /\ Hole(s.h_base[l[j]], s.h_len[l[j]]) = t.list[j]
  <2>1. l[j] \in Entries /\ (j # k => l[j] # l[k])
    BY <1>1, HeadIsFirst
  <2>2. l \in Seq(Entries) /\ Spells(s, l, t.list)
    BY <1>1
  <2>3. \A i \in 1..Len(l) : Hole(s.h_base[l[i]], s.h_len[l[i]]) = t.list[i]
    BY <2>2, SpellsEach, Zenon
  <2> QED BY <2>1, <2>3, Zenon
<1> HIDE DEF r, u, x
<1>9. Spells(r, l, u.list)
  <2>1. ASSUME NEW j \in 1..Len(l) PROVE Hole(r.h_base[l[j]], r.h_len[l[j]]) = x[j]
    <3>1. CASE j = k
      BY <1>2, <1>4, <1>7, <3>1
    <3>2. CASE j # k
      BY <1>2, <1>4, <1>7, <1>8, <3>2
    <3> QED BY <3>1, <3>2
  <2> QED BY <1>1, <1>2, <1>4, <1>5, <2>1, EachSpells
<1>10. Counted(u)
  BY <1>2, <1>4, <1>5 DEF Counted
<1>11. Threaded(r, l, f, {})
  BY <1>1, <1>7, SameThreads
<1>12. Tied(r, u, l, f)
  BY <1>1, <1>5, <1>9, <1>10, <1>11 DEF Tied
<1> QED BY <1>12 DEF r, u

(* merge by the links is merge of the table. *)
LEMMA NextIs ==
  ASSUME NEW s, NEW l, NEW f, NEW hand, Threaded(s, l, f, hand), NEW k \in 1..Len(l)
  PROVE  s.h_next[l[k]] = Nth(l, k + 1) /\ l[k] \in Entries
<1>1. l \in Seq(Entries) /\ Follows(s, s.hole_head, l)
  BY DEF Threaded
<1> QED BY <1>1, FollowsEach

LEMMA NextEntry ==
  ASSUME NEW s, NEW l, NEW f, NEW hand, Threaded(s, l, f, hand), NEW k \in 1..Len(l)
  PROVE  /\ l[k] \in Entries /\ s \in Stores
         /\ k < Len(l) => k + 1 \in 1..Len(l) /\ s.h_next[l[k]] = l[k + 1]
                          /\ l[k + 1] \in Entries /\ s.h_next[l[k]] # NIL_HOLE
         /\ ~ (k < Len(l)) => s.h_next[l[k]] = NIL_HOLE
<1>1. l \in Seq(Entries) /\ s \in Stores /\ Len(l) \in Nat /\ Follows(s, s.hole_head, l)
  BY DEF Threaded
<1>2. s.h_next[l[k]] = Nth(l, k + 1) /\ l[k] \in Entries
  BY NextIs
<1>3. k + 1 \in Nat \ {0} /\ NIL_HOLE \notin Entries
  BY NumbersOfEntries
<1>4. CASE k < Len(l)
  <2>1. k + 1 \in 1..Len(l) /\ k + 1 <= Len(l)
    BY <1>1, <1>4
  <2>2. Nth(l, k + 1) = l[k + 1] /\ l[k + 1] \in Entries
    BY <1>1, <1>3, <2>1, NthIs
  <2> QED BY <1>1, <1>2, <1>3, <1>4, <2>1, <2>2
<1>5. CASE ~ (k < Len(l))
  <2>1. k + 1 > Len(l)
    BY <1>1, <1>5
  <2> QED BY <1>1, <1>2, <1>3, <1>5, <2>1, NthIs
<1> QED BY <1>4, <1>5

LEMMA AbutsTouches ==
  ASSUME NEW s, NEW t, NEW l, NEW f, Tied(s, t, l, f), NEW k \in 1..Len(l)
  PROVE  Abuts(s, l[k]) <=> Touches(t, k)
<1>1. Threaded(s, l, f, {}) /\ Spells(s, l, t.list) /\ Counted(t) /\ l \in Seq(Entries)
  BY DEF Tied, Threaded
<1>2. /\ Len(l) = Len(t.list) /\ Len(l) \in Nat
      /\ \A j \in 1..Len(l) : /\ l[j] \in Entries
                              /\ s.h_base[l[j]] = t.list[j].base
                              /\ s.h_len[l[j]] = t.list[j].len
  <2>1. Len(l) = Len(t.list) /\ Len(l) \in Nat /\ ReadOff(s, l, t)
    BY <1>1, SpelledOut
  <2> QED BY <2>1 DEF ReadOff
<1>3. CASE k < Len(l)
  <2>1. k + 1 \in 1..Len(l) /\ s.h_next[l[k]] = l[k + 1] /\ s.h_next[l[k]] # NIL_HOLE
    BY <1>1, <1>3, NextEntry
  <2> QED BY <1>2, <1>3, <2>1 DEF Abuts, Touches, HoleEnd
<1>4. CASE ~ (k < Len(l))
  <2>1. s.h_next[l[k]] = NIL_HOLE
    BY <1>1, <1>4, NextEntry
  <2> QED BY <1>2, <1>4, <2>1 DEF Abuts, Touches
<1> QED BY <1>3, <1>4

LEMMA AbsorbTies ==
  ASSUME NEW s, NEW t, NEW l, NEW f, Tied(s, t, l, f), NEW k \in 1..Len(l)
  PROVE  \E m, g : /\ Tied(AbsorbNext(s, l[k]), Absorb(t, k), m, g)
                   /\ k \in 1..Len(m) /\ m[k] = l[k]
<1>1. /\ Threaded(s, l, f, {}) /\ Spells(s, l, t.list) /\ Counted(t) /\ l \in Seq(Entries)
  BY DEF Tied, Threaded
<1>2. /\ Len(l) = Len(t.list) /\ Len(l) \in Nat
      /\ \A j \in 1..Len(l) : /\ l[j] \in Entries
                              /\ s.h_base[l[j]] = t.list[j].base
                              /\ s.h_len[l[j]] = t.list[j].len
  <2>1. Len(l) = Len(t.list) /\ Len(l) \in Nat /\ ReadOff(s, l, t)
    BY <1>1, SpelledOut
  <2> QED BY <2>1 DEF ReadOff
<1>3. Abuts(s, l[k]) <=> Touches(t, k)
  BY AbutsTouches
<1>4. CASE ~ Touches(t, k)
  <2>1. AbsorbNext(s, l[k]) = s /\ Absorb(t, k) = t
    BY <1>3, <1>4 DEF AbsorbNext, Absorb
  <2> QED BY <2>1
<1>5. CASE Touches(t, k)
  <2>1. k < Len(l)
    BY <1>2, <1>5 DEF Touches
  <2>2. /\ k + 1 \in 1..Len(l) /\ s.h_next[l[k]] = l[k + 1] /\ s \in Stores
        /\ l[k] \in Entries
    BY <1>1, <2>1, NextEntry
  <2> DEFINE b == s.h_base[l[k]]
             c == s.h_len[l[k]] + s.h_len[l[k + 1]]
             r == Rewritten(s, l[k], b, c)
             u == Edited(t, k, b, c)
  <2>3. /\ t \in Tables /\ k \in DOMAIN t.list
        /\ t.list[k] = Hole(t.list[k].base, t.list[k].len)
        /\ t.list[k].base \in Nat /\ t.list[k].len \in Nat
        /\ t.list[k + 1].base \in Nat /\ t.list[k + 1].len \in Nat
    BY <1>1, <1>2, <2>2, ListOfHoles
  <2>4. b \in Nat /\ c \in Nat /\ b = t.list[k].base /\ c = t.list[k].len + t.list[k + 1].len
    <3>1. /\ b = t.list[k].base /\ s.h_len[l[k]] = t.list[k].len
          /\ s.h_len[l[k + 1]] = t.list[k + 1].len
      BY <1>2, <2>2
    <3> QED BY <2>3, <3>1
  <2>5. [s EXCEPT !.h_len[l[k]] = @ + s.h_len[s.h_next[l[k]]]] = r
    BY <2>2 DEF Rewritten, Stores
  <2>6. [t EXCEPT !.list[k].len = @ + t.list[k + 1].len] = u
    <3>1. [t.list[k] EXCEPT !.len = @ + t.list[k + 1].len] = Hole(b, c)
      <4>1. \A x, y, z : [Hole(x, y) EXCEPT !.len = @ + z] = Hole(x, y + z)
        BY DEF Hole
      <4> HIDE DEF b, c
      <4> QED BY <2>3, <2>4, <4>1
    <3> HIDE DEF b, c
    <3> QED BY <2>3, <3>1 DEF Edited
  <2> HIDE DEF b, c, r, u
  <2>7. Tied(r, u, l, f)
    BY <2>4, EditTies DEF r, u
  <2>8. Before(l, k + 1, l[k])
    BY <1>1 DEF Before
  <2> DEFINE m == RemoveAt(l, k + 1)
             g == <<l[k + 1]>> \o f
  <2>9. Tied(DeleteEntry(r, l[k], l[k + 1]), del_slot(u, k + 1), m, g)
    BY <2>2, <2>7, <2>8, DeleteTies, Zenon
  <2>10. AbsorbNext(s, l[k]) = DeleteEntry(r, l[k], l[k + 1])
    BY <1>3, <1>5, <2>2, <2>5 DEF AbsorbNext
  <2>11. Absorb(t, k) = del_slot(u, k + 1)
    BY <1>5, <2>6 DEF Absorb
  <2>12. /\ Len(m) = Len(l) - 1
         /\ \A j \in 1..Len(l) - 1 : m[j] = IF j < k + 1 THEN l[j] ELSE l[j + 1]
    BY <1>1, <2>2, Removed
  <2> HIDE DEF m, g
  <2>13. k \in 1..Len(m) /\ m[k] = l[k]
    BY <1>1, <2>1, <2>12
  <2> QED BY <2>9, <2>10, <2>11, <2>13
<1> QED BY <1>4, <1>5

LEMMA MergeTies ==
  ASSUME NEW s, NEW t, NEW l, NEW f, Tied(s, t, l, f), NEW k \in 1..Len(l)
  PROVE  \E m, g : Tied(MergeHoles(s, l[k]), merge(t, k), m, g)
<1>1. /\ Threaded(s, l, f, {}) /\ Counted(t) /\ Len(l) \in Nat /\ Len(l) = Len(t.list)
  BY SpelledOut DEF Tied, Threaded
<1>2. Abuts(s, l[k]) <=> Touches(t, k)
  BY AbutsTouches
<1>3. CASE Touches(t, k)
  <2>1. PICK m, g : /\ Tied(AbsorbNext(s, l[k]), Absorb(t, k), m, g)
                    /\ k \in 1..Len(m) /\ m[k] = l[k]
    BY AbsorbTies
  <2>2. PICK m2, g2 : Tied(AbsorbNext(AbsorbNext(s, l[k]), m[k]), Absorb(Absorb(t, k), k), m2, g2)
    BY <2>1, AbsorbTies
  <2>3. /\ MergeHoles(s, l[k]) = AbsorbNext(AbsorbNext(s, l[k]), m[k])
        /\ merge(t, k) = Absorb(Absorb(t, k), k)
    BY <1>2, <1>3, <2>1 DEF MergeHoles, merge
  <2> QED BY <2>2, <2>3
<1>4. CASE ~ Touches(t, k) /\ k < Len(l)
  <2>1. k + 1 \in 1..Len(l) /\ s.h_next[l[k]] = l[k + 1] /\ s.h_next[l[k]] # NIL_HOLE
    BY <1>1, <1>4, NextEntry
  <2>2. /\ MergeHoles(s, l[k]) = AbsorbNext(s, l[k + 1])
        /\ merge(t, k) = Absorb(t, k + 1)
    BY <1>2, <1>4, <2>1 DEF MergeHoles, merge
  <2>3. PICK m, g : Tied(AbsorbNext(s, l[k + 1]), Absorb(t, k + 1), m, g)
    BY <2>1, AbsorbTies
  <2> QED BY <2>2, <2>3
<1>5. CASE ~ Touches(t, k) /\ ~ (k < Len(l))
  <2>1. s.h_next[l[k]] = NIL_HOLE
    BY <1>1, <1>5, NextEntry
  <2>2. ~ Touches(t, k + 1)
    BY <1>1, <1>5 DEF Touches
  <2>3. MergeHoles(s, l[k]) = s /\ merge(t, k) = t
    BY <1>2, <1>5, <2>1, <2>2 DEF MergeHoles, merge, Absorb
  <2> QED BY <2>3
<1> QED BY <1>3, <1>4, <1>5

(* Bite. *)
LEMMA TakeTies ==
  ASSUME NEW s, NEW t, NEW l, NEW f, Tied(s, t, l, f), NEW k \in 1..Len(l),
         NEW prev_ptr, Before(l, k, prev_ptr), NEW clicks \in Nat, clicks <= s.h_len[l[k]]
  PROVE  \E m, g : Tied(TakePiece(s, prev_ptr, l[k], clicks), Bite(t, k, clicks), m, g)
<1>1. /\ Threaded(s, l, f, {}) /\ Spells(s, l, t.list) /\ Counted(t) /\ l \in Seq(Entries)
      /\ Len(l) \in Nat /\ s \in Stores /\ l[k] \in Entries
  BY DEF Tied, Threaded
<1>2. /\ Len(l) = Len(t.list) /\ s.h_base[l[k]] = t.list[k].base
      /\ s.h_len[l[k]] = t.list[k].len
  <2>1. Len(l) = Len(t.list) /\ ReadOff(s, l, t)
    BY <1>1, SpelledOut
  <2> QED BY <2>1 DEF ReadOff
<1>3. /\ t \in Tables /\ k \in DOMAIN t.list /\ t.list \in Seq(Holes)
      /\ t.list[k].base \in Nat /\ t.list[k].len \in Nat
  BY <1>1, <1>2, ListOfHoles
<1> DEFINE b == t.list[k].base + clicks
           c == t.list[k].len - clicks
           r == Rewritten(s, l[k], b, c)
           u == Edited(t, k, b, c)
<1>4. b \in Nat /\ c \in Nat
  BY <1>2, <1>3
<1>5. [s EXCEPT !.h_base[l[k]] = @ + clicks, !.h_len[l[k]] = @ - clicks] = r
  BY <1>1, <1>2 DEF Rewritten, Stores
<1>6. [t EXCEPT !.list[k] = Hole(@.base + clicks, @.len - clicks)] = u
  BY <1>3 DEF Edited, Tables
<1> HIDE DEF b, c
<1>7. r.h_len[l[k]] = c
  BY <1>1, <1>4 DEF Rewritten, Stores
<1>8. u.list[k].len = c
  <2>1. u.list = [t.list EXCEPT ![k] = Hole(b, c)]
    BY <1>3 DEF Edited, Tables
  <2>2. u.list[k] = Hole(b, c)
    BY <1>3, <2>1
  <2> QED BY <2>2, SameHole
<1> HIDE DEF r, u
<1>9. Tied(r, u, l, f)
  BY <1>4, EditTies DEF r, u
<1>10. /\ TakePiece(s, prev_ptr, l[k], clicks) =
            IF c = 0 THEN DeleteEntry(r, prev_ptr, l[k]) ELSE r
       /\ Bite(t, k, clicks) = IF c = 0 THEN del_slot(u, k) ELSE u
  <2>1. TakePiece(s, prev_ptr, l[k], clicks) =
          IF r.h_len[l[k]] = 0 THEN DeleteEntry(r, prev_ptr, l[k]) ELSE r
    <3> DEFINE rest == [s EXCEPT !.h_base[l[k]] = @ + clicks, !.h_len[l[k]] = @ - clicks]
    <3>1. TakePiece(s, prev_ptr, l[k], clicks) =
            IF rest.h_len[l[k]] = 0 THEN DeleteEntry(rest, prev_ptr, l[k]) ELSE rest
      BY DEF TakePiece
    <3>2. rest = r
      BY <1>5
    <3> HIDE DEF rest
    <3> QED BY <3>1, <3>2
  <2>2. Bite(t, k, clicks) = IF u.list[k].len = 0 THEN del_slot(u, k) ELSE u
    BY <1>6, Zenon DEF Bite
  <2> QED BY <1>7, <1>8, <2>1, <2>2
<1>11. Tied(DeleteEntry(r, prev_ptr, l[k]), del_slot(u, k), RemoveAt(l, k), <<l[k]>> \o f)
  BY <1>9, DeleteTies, Zenon
<1> QED BY <1>9, <1>10, <1>11
------------------------------------------------------------------------------
(* free_mem.  The new entry is in hand until its place has been found. *)
LEMMA FillHolds ==
  ASSUME NEW s, NEW t, NEW l, NEW f, Tied(s, t, l, f), s.free_slots # NIL_HOLE,
         NEW base \in Nat, NEW clicks \in Nat
  PROVE  \E h : Held(FillEntry(s, base, clicks), t, l, h, s.free_slots, base, clicks)
<1> DEFINE r == FillEntry(s, base, clicks)
           e == s.free_slots
<1>1. /\ Threaded(s, l, f, {}) /\ Spells(s, l, t.list) /\ Len(f) = t.free /\ Counted(t)
      /\ l \in Seq(Entries)
  BY DEF Tied, Threaded
<1>2. /\ e \in Entries /\ Len(f) \in Nat \ {0}
      /\ \E h : Threaded(r, l, h, {e}) /\ Len(h) = Len(f) - 1
      /\ Filled(r, s, l, e, base, clicks)
  <2>1. Threaded(s, l, f, {})
    BY <1>1
  <2> QED BY <2>1, FillThreads, Zenon
<1>3. PICK h : Threaded(r, l, h, {e}) /\ Len(h) = Len(f) - 1
  BY <1>2
<1>4. Len(l) = Len(t.list)
      /\ \A j \in 1..Len(l) : Hole(s.h_base[l[j]], s.h_len[l[j]]) = t.list[j]
  BY <1>1, SpellsEach
<1> HIDE DEF r, e
<1>5. \A j \in 1..Len(l) : Hole(r.h_base[l[j]], r.h_len[l[j]]) = t.list[j]
  BY <1>2, <1>4 DEF Filled
<1>6. Spells(r, l, t.list)
  BY <1>1, <1>4, <1>5, EachSpells
<1>7. Held(r, t, l, h, e, base, clicks)
  BY <1>1, <1>2, <1>3, <1>6 DEF Held, Filled
<1> QED BY <1>7 DEF r, e

LEMMA JoinTies ==
  ASSUME NEW s, NEW t, NEW l, NEW f, NEW e, NEW base \in Nat, NEW clicks \in Nat \ {0},
         Held(s, t, l, f, e, base, clicks), NEW r, Joined(r, s, l, Place(t, base), e)
  PROVE  Tied(r, Entered(t, base, clicks), InsertAt(l, Place(t, base), e), f)
<1> DEFINE p == Place(t, base)
           u == Entered(t, base, clicks)
           m == InsertAt(l, p, e)
<1>1. /\ Threaded(s, l, f, {e}) /\ Spells(s, l, t.list) /\ Len(f) + 1 = t.free /\ Counted(t)
      /\ e \in Entries /\ s.h_base[e] = base /\ s.h_len[e] = clicks
      /\ l \in Seq(Entries) /\ Len(l) \in Nat /\ Len(f) \in Nat
  BY DEF Held, Threaded
<1>2. /\ Len(l) = Len(t.list)
      /\ \A j \in 1..Len(l) : Hole(s.h_base[l[j]], s.h_len[l[j]]) = t.list[j]
  BY <1>1, SpellsEach
<1>3. t.free \in Nat /\ t.free # 0 /\ t \in Tables
  BY <1>1, ListOfHoles
<1>4. /\ Counted(u) /\ Len(u.list) = Len(t.list) + 1
      /\ \A j \in 1..Len(t.list) + 1 :
           u.list[j] = IF j < p THEN t.list[j]
                       ELSE IF j = p THEN Hole(base, clicks) ELSE t.list[j - 1]
      /\ p \in 1..Len(t.list) + 1
  <2>1. Counted(t) /\ t.free # 0
    BY <1>1, <1>3
  <2> QED BY <2>1, Linked, Zenon
<1>5. u.free = t.free - 1
  BY <1>3 DEF Entered, Tables
<1>6. /\ r \in Stores /\ r.free_slots = s.free_slots
      /\ r.h_base = s.h_base /\ r.h_len = s.h_len
      /\ r.hole_head = IF p = 1 THEN e ELSE s.hole_head
      /\ \A x \in Entries : r.h_next[x] = IF x = e THEN Nth(l, p)
                                          ELSE IF p # 1 /\ x = l[p - 1] THEN e
                                          ELSE s.h_next[x]
  BY DEF Joined, SameNumbers
<1> HIDE DEF u
<1>7. Threaded(r, m, f, {})
  <2>1. p \in 1..Len(l) + 1
    BY <1>2, <1>4
  <2> QED BY <1>1, <2>1, InsertThreads, Zenon
<1> HIDE DEF p
<1>8. /\ m \in Seq(Entries) /\ Len(m) = Len(l) + 1
      /\ \A i \in 1..Len(l) + 1 : i < p => m[i] = l[i]
      /\ m[p] = e
      /\ \A i \in 1..Len(l) + 1 : p < i => m[i] = l[i - 1]
  BY <1>1, <1>2, <1>4, Inserted
<1> HIDE DEF m
<1>9. Spells(r, m, u.list)
  <2>1. ASSUME NEW j \in 1..Len(m) PROVE Hole(r.h_base[m[j]], r.h_len[m[j]]) = u.list[j]
    <3>1. j \in 1..Len(l) + 1 /\ p \in Nat
      BY <1>2, <1>4, <1>8
    <3>2. CASE j < p
      <4>1. j \in 1..Len(l) /\ m[j] = l[j] /\ u.list[j] = t.list[j]
        BY <1>1, <1>2, <1>4, <1>8, <3>1, <3>2
      <4> QED BY <1>2, <1>6, <4>1
    <3>3. CASE j = p
      <4>1. u.list[j] = Hole(base, clicks) /\ m[j] = e
        BY <1>2, <1>4, <1>8, <3>1, <3>3
      <4> QED BY <1>1, <1>6, <4>1
    <3>4. CASE j > p
      <4>1. j - 1 \in 1..Len(l) /\ m[j] = l[j - 1] /\ u.list[j] = t.list[j - 1]
        BY <1>1, <1>2, <1>4, <1>8, <3>1, <3>4
      <4> QED BY <1>2, <1>6, <4>1
    <3> QED BY <3>1, <3>2, <3>3, <3>4
  <2> QED BY <1>2, <1>4, <1>8, <2>1, EachSpells
<1>10. Tied(r, u, m, f)
  BY <1>1, <1>3, <1>4, <1>5, <1>7, <1>9 DEF Tied
<1> QED BY <1>10 DEF u, m, p

(* After the merge it is the table that free_mem leaves. *)
LEMMA FreeTies ==
  ASSUME NEW s, NEW t, NEW l, NEW f, NEW e, NEW base \in Nat, NEW clicks \in Nat \ {0},
         Held(s, t, l, f, e, base, clicks), NEW r, Joined(r, s, l, Place(t, base), e),
         NEW first, first = IF Place(t, base) = 1 THEN e ELSE l[Place(t, base) - 1]
  PROVE  \E m, g : Tied(MergeHoles(r, first), free_mem(t, base, clicks), m, g)
<1> DEFINE p == Place(t, base)
           u == Entered(t, base, clicks)
           m == InsertAt(l, p, e)
           q == MergeFrom(p)
<1>1. Tied(r, u, m, f)
  BY JoinTies
<1>2. /\ l \in Seq(Entries) /\ Len(l) \in Nat /\ Len(l) = Len(t.list) /\ Counted(t)
      /\ e \in Entries /\ t.free \in Nat /\ t.free # 0
  <2>1. Threaded(s, l, f, {e}) /\ Spells(s, l, t.list) /\ Len(f) + 1 = t.free /\ Counted(t)
    BY DEF Held
  <2>2. l \in Seq(Entries) /\ Len(f) \in Nat /\ Len(l) \in Nat /\ t.free \in Nat /\ e \in Entries
    BY <2>1, ListOfHoles DEF Held, Threaded
  <2>3. Len(l) = Len(t.list)
    BY <2>1, <2>2, SpellsEach
  <2> QED BY <2>1, <2>2, <2>3
<1>3. free_mem(t, base, clicks) = merge(u, q) /\ p \in 1..Len(t.list) + 1
  BY <1>2, Linked
<1> HIDE DEF p, u, q
<1>4. /\ Len(m) = Len(l) + 1 /\ m[p] = e
      /\ \A i \in 1..Len(l) + 1 : i < p => m[i] = l[i]
  <2>1. p \in 1..Len(l) + 1
    BY <1>2, <1>3
  <2>2. /\ m \in Seq(Entries) /\ Len(m) = Len(l) + 1
        /\ \A i \in 1..Len(l) + 1 : i < p => m[i] = l[i]
        /\ m[p] = e
        /\ \A i \in 1..Len(l) + 1 : p < i => m[i] = l[i - 1]
    BY <1>2, <2>1, Inserted
  <2> QED BY <2>2
<1> HIDE DEF m
<1>5. q \in 1..Len(m) /\ m[q] = first
  <2>1. CASE p = 1
    BY <1>2, <1>3, <1>4, <2>1 DEF q, MergeFrom, p
  <2>2. CASE p # 1
    <3>1. q = p - 1 /\ first = l[p - 1]
      BY <2>2 DEF q, MergeFrom, p
    <3>2. p - 1 \in 1..Len(l) + 1 /\ p - 1 < p
      BY <1>2, <1>3, <2>2
    <3> QED BY <1>2, <1>3, <1>4, <3>1, <3>2
  <2> QED BY <2>1, <2>2
<1> QED BY <1>1, <1>3, <1>5, MergeTies

(* The two ways to link it in. *)
LEMMA FrontJoins ==
  ASSUME NEW s, NEW l, NEW f, NEW e \in Entries, Threaded(s, l, f, {e})
  PROVE  Joined(LinkInFront(s, e), s, l, 1, e)
<1>1. s \in Stores /\ s.hole_head = Nth(l, 1) /\ s.hole_head \in Pointers
  BY DEF Threaded, Follows, Stores
<1>2. e \in Pointers
  BY DEF Pointers
<1> QED BY <1>1, <1>2 DEF Joined, SameNumbers, LinkInFront, Stores

LEMMA BehindJoins ==
  ASSUME NEW s, NEW l, NEW f, NEW e \in Entries, Threaded(s, l, f, {e}),
         NEW k \in 2..Len(l) + 1
  PROVE  Joined(LinkBehind(s, l[k - 1], e), s, l, k, e)
<1> DEFINE d == l[k - 1]
           r == LinkBehind(s, d, e)
<1>1. /\ s \in Stores /\ l \in Seq(Entries) /\ Len(l) \in Nat /\ EachOnce(l, f, {e})
      /\ s.h_next \in [Entries -> Pointers] /\ e \in Pointers
  BY DEF Threaded, Stores, Pointers
<1>2. k - 1 \in 1..Len(l) /\ k # 1 /\ (k - 1) + 1 = k
  BY <1>1
<1>3. d \in Entries /\ s.h_next[d] = Nth(l, k) /\ s.h_next[d] \in Pointers
  BY <1>1, <1>2, NextIs
<1>4. d # e
  <2>1. d \in Range(l)
    BY <1>1, <1>2 DEF Range
  <2> QED BY <1>1, <2>1 DEF EachOnce
<1> HIDE DEF d
<1>5. /\ r \in Stores /\ r.free_slots = s.free_slots /\ r.h_base = s.h_base
      /\ r.h_len = s.h_len /\ r.hole_head = s.hole_head
      /\ \A x \in Entries : r.h_next[x] = IF x = e THEN s.h_next[d]
                                          ELSE IF x = d THEN e ELSE s.h_next[x]
  BY <1>1, <1>3, <1>4 DEF LinkBehind, Stores
<1> HIDE DEF r
<1>6. Joined(r, s, l, k, e)
  BY <1>2, <1>3, <1>5 DEF Joined, SameNumbers, d
<1> QED BY <1>6 DEF r, d
------------------------------------------------------------------------------
(* Where the loops end is what HoleTable says. *)
LEMMA PlaceFound ==
  ASSUME NEW t, Counted(t), NEW base \in Nat, NEW i \in 1..Len(t.list) + 1,
         \A j \in 1..Len(t.list) : j < i => t.list[j].base < base,
         i <= Len(t.list) => base <= t.list[i].base
  PROVE  Place(t, base) = i
<1> DEFINE p == Place(t, base)
<1>1. /\ p \in 1..Len(t.list) + 1
      /\ \A j \in 1..Len(t.list) : j < p => t.list[j].base < base
      /\ p \in 1..Len(t.list) => base <= t.list[p].base
  BY PlaceIs
<1>2. Len(t.list) \in Nat /\ \A j \in 1..Len(t.list) : t.list[j].base \in Nat
  BY ListOfHoles
<1> HIDE DEF p
<1>3. ~ (p < i)
  BY <1>1, <1>2
<1>4. ~ (i < p)
  BY <1>1, <1>2
<1> QED BY <1>1, <1>2, <1>3, <1>4 DEF p

LEMMA MinThis ==
  ASSUME NEW T \in SUBSET Nat, NEW i \in T, \A k \in T : i <= k
  PROVE  Min(T) = i
<1> DEFINE n == Min(T)
<1>1. n \in T /\ n <= i
  BY MinIs
<1> HIDE DEF n
<1>2. n \in Nat /\ i \in Nat /\ i <= n
  BY <1>1
<1>3. n = i
  BY <1>1, <1>2
<1> QED BY <1>3 DEF n

LEMMA FirstFound ==
  ASSUME NEW t, Counted(t), NEW sb \in Nat, NEW clicks \in Nat, NEW i \in 1..Len(t.list) + 1,
         \A j \in 1..Len(t.list) : j < i => t.list[j].base < sb /\ t.list[j].len < clicks,
         i <= Len(t.list) => ~ (t.list[i].base < sb /\ t.list[i].len < clicks)
  PROVE  FirstFit(t, sb, clicks) = IF i <= Len(t.list) /\ t.list[i].base < sb THEN i ELSE 0
<1> DEFINE T == {k \in MemoryHoles(t, sb) : t.list[k].len >= clicks}
<1>1. /\ Len(t.list) \in Nat /\ DOMAIN t.list = 1..Len(t.list)
      /\ \A j \in 1..Len(t.list) : t.list[j].base \in Nat /\ t.list[j].len \in Nat
  BY ListOfHoles
<1>2. T \in SUBSET Nat
  BY <1>1 DEF MemoryHoles
<1>3. \A k \in T : k \in 1..Len(t.list) /\ t.list[k].len >= clicks
                   /\ \A j \in 1..k : t.list[j].base < sb
  BY <1>1 DEF MemoryHoles
<1>4. FirstFit(t, sb, clicks) = IF T = {} THEN 0 ELSE Min(T)
  BY DEF FirstFit
<1>5. CASE i <= Len(t.list) /\ t.list[i].base < sb
  <2>1. i \in 1..Len(t.list) /\ t.list[i].len >= clicks
    BY <1>1, <1>5
  <2>2. \A j \in 1..i : t.list[j].base < sb
    BY <1>1, <1>5
  <2>3. i \in T
    BY <1>1, <2>1, <2>2 DEF MemoryHoles
  <2> HIDE DEF T
  <2>4. \A k \in T : i <= k
    <3> SUFFICES ASSUME NEW k \in T, ~ (i <= k) PROVE FALSE
      OBVIOUS
    <3>1. k \in 1..Len(t.list) /\ k < i /\ t.list[k].len >= clicks
      BY <1>1, <1>3
    <3> QED BY <1>1, <3>1
  <2> QED BY <1>2, <1>4, <1>5, <2>3, <2>4, MinThis
<1>6. CASE ~ (i <= Len(t.list) /\ t.list[i].base < sb)
  <2> HIDE DEF T
  <2>1. T = {}
    <3> SUFFICES ASSUME NEW k \in T PROVE FALSE
      OBVIOUS
    <3>1. /\ k \in 1..Len(t.list) /\ t.list[k].len >= clicks
          /\ \A j \in 1..k : t.list[j].base < sb
      BY <1>3
    <3>2. ~ (k < i)
      BY <1>1, <3>1
    <3>3. i \in 1..k /\ i <= Len(t.list)
      BY <1>1, <3>1, <3>2
    <3> QED BY <1>6, <3>1, <3>3
  <2> QED BY <1>4, <1>6, <2>1
<1> QED BY <1>5, <1>6

LEMMA SwapFound ==
  ASSUME NEW t, Counted(t), NEW sb \in Nat, NEW clicks \in Nat, NEW i \in 1..Len(t.list) + 1,
         \A j \in 1..Len(t.list) : j < i => ~ (t.list[j].base >= sb /\ t.list[j].len >= clicks),
         i <= Len(t.list) => t.list[i].base >= sb /\ t.list[i].len >= clicks
  PROVE  SwapHole(t, sb, clicks) = IF i <= Len(t.list) THEN i ELSE 0
<1> DEFINE T == {k \in DOMAIN t.list : t.list[k].base >= sb /\ t.list[k].len >= clicks}
<1>1. /\ Len(t.list) \in Nat /\ DOMAIN t.list = 1..Len(t.list)
      /\ \A j \in 1..Len(t.list) : t.list[j].base \in Nat /\ t.list[j].len \in Nat
  BY ListOfHoles
<1>2. T \in SUBSET Nat
  BY <1>1
<1>3. SwapHole(t, sb, clicks) = IF T = {} THEN 0 ELSE Min(T)
  BY DEF SwapHole, FirstHole
<1>4. \A k \in T : k \in 1..Len(t.list) /\ i <= k
  BY <1>1
<1>5. CASE i <= Len(t.list)
  <2>1. i \in T
    BY <1>1, <1>5
  <2> HIDE DEF T
  <2> QED BY <1>2, <1>3, <1>4, <1>5, <2>1, MinThis
<1>6. CASE ~ (i <= Len(t.list))
  <2> HIDE DEF T
  <2>1. T = {}
    BY <1>1, <1>4, <1>6
  <2> QED BY <1>3, <1>6, <2>1
<1> QED BY <1>5, <1>6

(* Worst fit: m is the first of the largest of the holes before i. *)
LargestBefore(t, m, i) ==
  /\ m = 1 \/ m < i
  /\ \A j \in 1..Len(t.list) : /\ j < i => t.list[j].len <= t.list[m].len
                               /\ j < m => t.list[j].len < t.list[m].len

LEMMA WorstFound ==
  ASSUME NEW t, Counted(t), NEW sb \in Nat, NEW clicks \in Nat, NEW i \in 1..Len(t.list) + 1,
         \A j \in 1..Len(t.list) : j < i => t.list[j].base < sb,
         i <= Len(t.list) => ~ (t.list[i].base < sb),
         NEW m \in Nat \ {0}, LargestBefore(t, m, i)
  PROVE  WorstFit(t, sb, clicks) =
           IF m <= Len(t.list) /\ t.list[m].len >= clicks THEN m ELSE 0
<1> DEFINE seen == MemoryHoles(t, sb) \cup (DOMAIN t.list \cap {1})
           T == {k \in seen : \A j \in seen : t.list[j].len <= t.list[k].len}
<1>1. /\ Len(t.list) \in Nat /\ DOMAIN t.list = 1..Len(t.list)
      /\ \A j \in 1..Len(t.list) : t.list[j].base \in Nat /\ t.list[j].len \in Nat
  BY ListOfHoles
<1>2. WorstFit(t, sb, clicks) =
        IF seen = {} \/ t.list[Min(T)].len < clicks THEN 0 ELSE Min(T)
  BY DEF WorstFit
<1>3. \A k : k \in seen <=> k \in 1..Len(t.list) /\ (k = 1 \/ k < i)
  <2>1. \A k \in 1..Len(t.list) : (\A j \in 1..k : t.list[j].base < sb) <=> k < i
    <3> SUFFICES ASSUME NEW k \in 1..Len(t.list)
                 PROVE  (\A j \in 1..k : t.list[j].base < sb) <=> k < i
      OBVIOUS
    <3>1. CASE k < i
      BY <1>1, <3>1
    <3>2. CASE ~ (k < i)
      BY <1>1, <3>2
    <3> QED BY <3>1, <3>2
  <2>2. \A k : k \in MemoryHoles(t, sb) <=> k \in 1..Len(t.list) /\ k < i
    BY <1>1, <2>1 DEF MemoryHoles
  <2> QED BY <1>1, <2>2
<1> HIDE DEF seen
<1>4. CASE Len(t.list) = 0
  <2>1. seen = {}
    BY <1>3, <1>4
  <2> QED BY <1>2, <1>4, <2>1
<1>5. CASE Len(t.list) # 0
  <2>1. m \in 1..Len(t.list) /\ m \in seen
    <3>1. m = 1 \/ m < i
      BY DEF LargestBefore
    <3>2. m \in 1..Len(t.list)
      BY <1>1, <1>5, <3>1
    <3> QED BY <1>3, <3>1, <3>2
  <2>2. \A j \in seen : t.list[j].len <= t.list[m].len
    <3> SUFFICES ASSUME NEW j \in seen PROVE t.list[j].len <= t.list[m].len
      OBVIOUS
    <3>1. j \in 1..Len(t.list) /\ (j = 1 \/ j < i)
      BY <1>3
    <3>2. CASE j < i
      BY <3>1, <3>2 DEF LargestBefore
    <3>3. CASE j = 1
      <4>1. m = 1 \/ 1 < m
        OBVIOUS
      <4>2. CASE m = 1
        BY <1>1, <2>1, <3>3, <4>2
      <4>3. CASE 1 < m
        BY <1>1, <2>1, <3>1, <3>3, <4>3 DEF LargestBefore
      <4> QED BY <4>1, <4>2, <4>3
    <3> QED BY <3>1, <3>2, <3>3
  <2>3. m \in T
    BY <2>1, <2>2
  <2>4. \A k \in T : m <= k
    <3> SUFFICES ASSUME NEW k \in seen, \A j \in seen : t.list[j].len <= t.list[k].len,
                        ~ (m <= k)
                 PROVE  FALSE
      OBVIOUS
    <3>1. k \in 1..Len(t.list) /\ k < m
      BY <1>1, <1>3
    <3>2. t.list[k].len < t.list[m].len /\ t.list[m].len <= t.list[k].len
      BY <2>1, <3>1 DEF LargestBefore
    <3> QED BY <1>1, <2>1, <3>1, <3>2
  <2>5. T \in SUBSET Nat
    BY <1>1, <1>3
  <2> HIDE DEF T
  <2>6. Min(T) = m
    BY <2>3, <2>4, <2>5, MinThis
  <2> QED BY <1>1, <1>2, <2>1, <2>6
<1> QED BY <1>4, <1>5
------------------------------------------------------------------------------
(* Two ascending sequences of the same numbers are the same. *)
Rising(n, a) == a \in [1..n -> Nat] /\ \A i, j \in 1..n : i < j => a[i] < a[j]

Within(m, a, n, b) == \A i \in 1..m : \E j \in 1..n : b[j] = a[i]
Agree(m, a, n, b) == m = n /\ \A i \in 1..m : a[i] = b[i]

LEMMA SameOrder ==
  ASSUME NEW m \in Nat, NEW n \in Nat, NEW a, NEW b, Rising(m, a), Rising(n, b),
         Within(m, a, n, b), Within(n, b, m, a)
  PROVE  Agree(m, a, n, b)
<1> DEFINE Same(k) == k <= m /\ k <= n /\ a[k] = b[k]
           D == {k \in Nat \ {0} : (k <= m \/ k <= n) /\ ~ Same(k)}
<1>1. /\ \A i \in 1..m : a[i] \in Nat
      /\ \A i \in 1..n : b[i] \in Nat
      /\ \A i, j \in 1..m : i < j => a[i] < a[j]
      /\ \A i, j \in 1..n : i < j => b[i] < b[j]
      /\ \A i \in 1..m : \E j \in 1..n : b[j] = a[i]
      /\ \A j \in 1..n : \E i \in 1..m : a[i] = b[j]
  BY DEF Rising, Within
<1>2. CASE D = {}
  <2>1. \A k \in Nat \ {0} : k <= m \/ k <= n => k <= m /\ k <= n /\ a[k] = b[k]
    BY <1>2
  <2>2. ~ (m < n)
    <3>1. n \in Nat \ {0} => (n <= n => n <= m)
      BY <2>1
    <3> QED BY <3>1
  <2>3. ~ (n < m)
    <3>1. m \in Nat \ {0} => (m <= m => m <= n)
      BY <2>1
    <3> QED BY <3>1
  <2> QED BY <2>1, <2>2, <2>3 DEF Agree
<1>3. CASE D # {}
  <2>1. D \in SUBSET Nat
    OBVIOUS
  <2>2. PICK k \in D : \A j \in D : k <= j
    BY <1>3, <2>1, Least, Zenon
  <2>3. k \in Nat \ {0} /\ (k <= m \/ k <= n) /\ ~ Same(k)
    BY <2>2
  <2>4. \A j \in Nat \ {0} : j < k => j <= m /\ j <= n /\ a[j] = b[j]
    <3> SUFFICES ASSUME NEW j \in Nat \ {0}, j < k PROVE Same(j)
      OBVIOUS
    <3>1. j \notin D
      <4> HIDE DEF D, Same
      <4> QED BY <2>2, <2>3
    <3>2. j <= m \/ j <= n
      BY <2>3
    <3> QED BY <3>1, <3>2
  <2>5. CASE k <= m
    <3>1. k \in 1..m
      BY <2>3, <2>5
    <3>2. PICK j \in 1..n : b[j] = a[k]
      BY <1>1, <3>1
    <3>3. ~ (j < k)
      BY <1>1, <2>4, <3>1, <3>2
    <3>4. j # k
      BY <2>3, <2>5, <3>2
    <3>5. k \in 1..n /\ k < j
      BY <2>3, <3>2, <3>3, <3>4
    <3>6. b[k] < a[k]
      BY <1>1, <3>2, <3>5
    <3>7. PICK i \in 1..m : a[i] = b[k]
      BY <1>1, <3>5
    <3>8. ~ (i < k)
      BY <1>1, <2>4, <3>5, <3>7
    <3>9. ~ (k < i)
      BY <1>1, <3>1, <3>6, <3>7
    <3>10. i = k
      BY <2>3, <3>7, <3>8, <3>9
    <3> QED BY <1>1, <3>1, <3>6, <3>7, <3>10
  <2>6. CASE ~ (k <= m)
    <3>1. k \in 1..n
      BY <2>3, <2>6
    <3>2. PICK i \in 1..m : a[i] = b[k]
      BY <1>1, <3>1
    <3>3. i < k /\ i \in 1..n /\ a[i] = b[i]
      BY <2>3, <2>4, <2>6, <3>1, <3>2
    <3>4. b[i] < b[k] /\ b[i] = b[k] /\ b[k] \in Nat
      BY <1>1, <3>1, <3>2, <3>3
    <3> QED BY <3>4
  <2> QED BY <2>5, <2>6
<1> QED BY <1>2, <1>3

(* swap_off.  SwapAt: k is the first hole of the swap area.  Thinned: u is *)
(* what the loop has left of r, a table whose first hole it steps over.    *)
SwapAt(t, k) ==
  /\ k \in 1..Len(t.list) /\ t.list[k].base >= SwapStart
  /\ \A j \in 1..Len(t.list) : j < k => t.list[j].base < SwapStart

Thinned(u, r, g) ==
  /\ Rising(Len(u.list), g)
  /\ \A j \in 1..Len(u.list) : g[j] \in 1..Len(r.list) /\ u.list[j] = r.list[g[j]]
  /\ \A k \in 1..Len(r.list) : k = 1 \/ r.list[k].base < SwapStart =>
                                 \E j \in 1..Len(u.list) : g[j] = k

LEMMA SameTable ==
  ASSUME NEW a, NEW b, Counted(a), Counted(b), a.panic = b.panic, Len(a.list) = Len(b.list),
         \A j \in 1..Len(a.list) : a.list[j] = b.list[j]
  PROVE  a = b
<1>1. /\ a.list \in Seq(Holes) /\ b.list \in Seq(Holes) /\ a \in Tables /\ b \in Tables
      /\ a.free \in Int /\ b.free \in Int
      /\ a.free + Len(a.list) = NR_HOLES /\ b.free + Len(b.list) = NR_HOLES
  BY DEF Counted, Tables
<1>2. a.list = b.list
  BY <1>1
<1>3. a.free = b.free
  BY <1>1, <1>2
<1> QED BY <1>1, <1>2, <1>3 DEF Tables

LEMMA NoneDropped ==
  ASSUME NEW t, Counted(t), \A j \in 1..Len(t.list) : t.list[j].base < SwapStart
  PROVE  DropSwapHoles(t, SwapStart) = t
<1>1. /\ DOMAIN t.list = 1..Len(t.list) /\ SwapStart \in Nat
      /\ \A j \in 1..Len(t.list) : t.list[j].base \in Nat
  BY ListOfHoles, ListAssumption
<1>2. {k \in DOMAIN t.list : t.list[k].base >= SwapStart} = {}
  BY <1>1
<1>3. FirstHole(t, LAMBDA h : h.base >= SwapStart) = 0
  BY <1>2 DEF FirstHole
<1> QED BY <1>3 DEF DropSwapHoles, FirstHole

LEMMA ThinnedIsDropped ==
  ASSUME NEW t, Counted(t), NEW k, SwapAt(t, k), NEW u, Counted(u), u.panic = t.panic,
         NEW g, Thinned(u, del_slot(t, k), g),
         \A j \in 1..Len(u.list) : 1 < j => u.list[j].base < SwapStart
  PROVE  u = DropSwapHoles(t, SwapStart)
<1> DEFINE r == del_slot(t, k)
           rest == r.list
           K == {j \in DOMAIN rest : j = 1 \/ ~ (rest[j].base >= SwapStart)}
           kept == Ascending(K)
           d == DropSwapHoles(t, SwapStart)
           left == [j \in DOMAIN kept |-> rest[kept[j]]]
           n == Len(u.list)
<1>1. /\ DOMAIN t.list = 1..Len(t.list) /\ SwapStart \in Nat /\ Len(t.list) \in Nat
      /\ t \in Tables
      /\ \A j \in 1..Len(t.list) : t.list[j].base \in Nat
  BY ListOfHoles, ListAssumption
<1>2. k \in 1..Len(t.list) /\ t.list[k].base >= SwapStart
      /\ \A j \in 1..Len(t.list) : j < k => t.list[j].base < SwapStart
  BY DEF SwapAt
<1>3. d = [t EXCEPT !.list = left, !.free = @ + Len(t.list) - Len(kept)]
  <2> DEFINE T == {j \in DOMAIN t.list : t.list[j].base >= SwapStart}
  <2>1. T \in SUBSET Nat /\ k \in T /\ \A j \in T : k <= j
    BY <1>1, <1>2
  <2>2. Min(T) = k /\ T # {}
    <3> HIDE DEF T
    <3> QED BY <2>1, MinThis
  <2>3. FirstHole(t, LAMBDA h : h.base >= SwapStart) = k
    BY <2>2 DEF FirstHole
  <2>4. k # 0
    BY <1>2
  <2> QED BY <2>3, <2>4 DEF DropSwapHoles, FirstHole
<1>4. Counted(r) /\ rest \in Seq(Holes) /\ Len(rest) \in Nat /\ DOMAIN rest = 1..Len(rest)
      /\ \A j \in 1..Len(rest) : rest[j].base \in Nat
  <2>1. Counted(r)
    BY <1>2, Deleted, Zenon
  <2> HIDE DEF r
  <2> QED BY <2>1, ListOfHoles
<1>5. Counted(d) /\ d.panic = t.panic
  BY <1>1, DroppedFrom
<1>6. d.list = left
  <2> HIDE DEF left
  <2> QED BY <1>1, <1>3 DEF Tables
<1> HIDE DEF d, rest
<1>7. K \in SUBSET Nat /\ IsFiniteSet(K)
  <2>1. K \subseteq 1..Len(rest)
    BY <1>4
  <2>2. IsFiniteSet(1..Len(rest))
    BY <1>4, FS_Interval
  <2> QED BY <1>4, <2>1, <2>2, FS_Subset
<1> HIDE DEF K
<1>8. /\ kept \in Seq(K) /\ Range(kept) = K
      /\ \A i, j \in DOMAIN kept : i < j => kept[i] < kept[j]
  BY <1>7, InOrder, Zenon
<1> HIDE DEF kept
<1>9. /\ Len(kept) \in Nat /\ DOMAIN kept = 1..Len(kept) /\ Rising(Len(kept), kept)
      /\ \A j \in 1..Len(kept) : kept[j] \in K
      /\ \A i \in K : \E j \in 1..Len(kept) : kept[j] = i
  <2>1. Len(kept) \in Nat /\ DOMAIN kept = 1..Len(kept) /\ \A j \in 1..Len(kept) : kept[j] \in K
    BY <1>8
  <2>2. kept \in [1..Len(kept) -> Nat]
    <3>1. kept \in [1..Len(kept) -> K]
      BY <1>8
    <3> QED BY <1>7, <3>1
  <2>3. \A i \in K : \E j \in 1..Len(kept) : kept[j] = i
    BY <1>8, <2>1 DEF Range
  <2> QED BY <1>8, <2>1, <2>2, <2>3 DEF Rising
<1>10. n \in Nat /\ \A j \in 1..n : u.list[j].base \in Nat
  BY ListOfHoles
<1>11. /\ Rising(n, g)
       /\ \A j \in 1..n : g[j] \in 1..Len(rest) /\ u.list[j] = rest[g[j]]
       /\ \A i \in 1..Len(rest) : i = 1 \/ rest[i].base < SwapStart => \E j \in 1..n : g[j] = i
  BY DEF Thinned, rest
<1>12. \A i \in K : \E j \in 1..n : g[j] = i
  BY <1>1, <1>4, <1>11 DEF K
<1>13. ASSUME NEW j \in 1..n PROVE g[j] \in K
  <2>1. g[j] \in 1..Len(rest) /\ u.list[j] = rest[g[j]]
    BY <1>11
  <2>2. CASE 1 < j
    <3>1. u.list[j].base < SwapStart
      BY <2>2
    <3>2. ~ (rest[g[j]].base >= SwapStart)
      BY <1>1, <1>10, <2>1, <3>1
    <3> QED BY <1>4, <2>1, <3>2 DEF K
  <2>3. CASE j = 1
    <3>1. 1 \in 1..Len(rest)
      BY <1>4, <2>1
    <3>2. PICK i \in 1..n : g[i] = 1
      BY <1>11, <3>1
    <3>3. i = 1
      <4>1. 1 < i => g[1] < g[i]
        BY <1>10, <1>11, <2>3 DEF Rising
      <4>2. g[1] \in 1..Len(rest)
        BY <1>11, <2>3
      <4> QED BY <3>2, <4>1, <4>2
    <3> QED BY <1>4, <2>3, <3>1, <3>2, <3>3 DEF K
  <2> QED BY <1>10, <2>2, <2>3
<1> HIDE DEF n
<1>14. n = Len(kept) /\ \A j \in 1..n : g[j] = kept[j]
  <2>1. Within(n, g, Len(kept), kept)
    BY <1>9, <1>13 DEF Within
  <2>2. Within(Len(kept), kept, n, g)
    BY <1>9, <1>12 DEF Within
  <2>3. Rising(n, g) /\ Rising(Len(kept), kept) /\ n \in Nat /\ Len(kept) \in Nat
    BY <1>9, <1>10, <1>11
  <2>4. Agree(n, g, Len(kept), kept)
    BY <2>1, <2>2, <2>3, SameOrder, Zenon
  <2> QED BY <2>4 DEF Agree
<1>15. Len(d.list) = n /\ \A j \in 1..n : d.list[j] = u.list[j]
  <2>1. DOMAIN left = 1..n /\ \A j \in 1..n : left[j] = rest[kept[j]]
    BY <1>9, <1>14
  <2>2. d.list \in Seq(Holes)
    BY <1>5, ListOfHoles
  <2>3. Len(d.list) = n
    <3> HIDE DEF left
    <3> QED BY <1>6, <1>10, <2>1, <2>2
  <2> HIDE DEF left
  <2> QED BY <1>6, <1>11, <1>14, <2>1, <2>3
<1>16. u = d
  BY <1>5, <1>15, SameTable DEF n
<1> QED BY <1>16 DEF d

LEMMA FirstThinned ==
  ASSUME NEW r, Counted(r)
  PROVE  \E g : Thinned(r, r, g)
<1> DEFINE n == Len(r.list)
           g == [j \in 1..n |-> j]
<1>1. n \in Nat
  BY ListOfHoles
<1>2. g \in [1..n -> Nat] /\ \A j \in 1..n : g[j] = j
  BY <1>1
<1> HIDE DEF g, n
<1>3. Thinned(r, r, g)
  BY <1>1, <1>2 DEF Thinned, Rising, n
<1> QED BY <1>3

LEMMA MoreThinned ==
  ASSUME NEW u, Counted(u), NEW r, NEW g, Thinned(u, r, g),
         NEW i \in 1..Len(u.list), 1 < i, u.list[i].base >= SwapStart
  PROVE  \E h : Thinned(del_slot(u, i), r, h)
<1> DEFINE n == Len(u.list)
           v == del_slot(u, i)
           old(j) == IF j < i THEN j ELSE j + 1
           h == [j \in 1..n - 1 |-> g[old(j)]]
<1>1. /\ n \in Nat /\ SwapStart \in Nat /\ \A j \in 1..n : u.list[j].base \in Nat
  BY ListOfHoles, ListAssumption
<1>2. /\ Len(v.list) = n - 1
      /\ \A j \in 1..n - 1 : v.list[j] = IF j < i THEN u.list[j] ELSE u.list[j + 1]
  BY Deleted, Zenon
<1>3. /\ g \in [1..n -> Nat] /\ \A j, k \in 1..n : j < k => g[j] < g[k]
      /\ \A j \in 1..n : g[j] \in 1..Len(r.list) /\ u.list[j] = r.list[g[j]]
      /\ \A k \in 1..Len(r.list) : k = 1 \/ r.list[k].base < SwapStart =>
                                     \E j \in 1..n : g[j] = k
  BY DEF Thinned, Rising
<1>4. \A j \in 1..n - 1 : old(j) \in 1..n /\ old(j) # i
  BY <1>1
<1>5. \A j, k \in 1..n - 1 : j < k => old(j) < old(k)
  BY <1>1
<1>6. \A k \in 1..n : k # i => \E j \in 1..n - 1 : old(j) = k
  <2> SUFFICES ASSUME NEW k \in 1..n, k # i PROVE \E j \in 1..n - 1 : old(j) = k
    OBVIOUS
  <2>1. CASE k < i
    BY <1>1, <2>1
  <2>2. CASE i < k
    <3>1. k - 1 \in 1..n - 1 /\ old(k - 1) = k
      BY <1>1, <2>2
    <3> QED BY <3>1
  <2>3. k < i \/ i < k
    BY <1>1
  <2> QED BY <2>1, <2>2, <2>3
<1>7. \A j \in 1..n - 1 : v.list[j] = u.list[old(j)]
  BY <1>1, <1>2
<1> HIDE DEF old, v, n
<1>8. h \in [1..n - 1 -> Nat] /\ \A j \in 1..n - 1 : h[j] = g[old(j)]
  BY <1>3, <1>4
<1> HIDE DEF h
<1>9. \A j \in 1..n - 1 : h[j] \in 1..Len(r.list) /\ v.list[j] = r.list[h[j]]
  BY <1>3, <1>4, <1>7, <1>8
<1>10. \A j, k \in 1..n - 1 : j < k => h[j] < h[k]
  BY <1>3, <1>4, <1>5, <1>8
<1>11. ASSUME NEW k \in 1..Len(r.list), k = 1 \/ r.list[k].base < SwapStart
       PROVE  \E j \in 1..n - 1 : h[j] = k
  <2>1. PICK j \in 1..n : g[j] = k
    BY <1>3, <1>11
  <2>2. j # i
    <3>1. 1 \in 1..n /\ g[1] \in 1..Len(r.list) /\ g[1] < g[i] /\ i \in 1..n
      BY <1>1, <1>3 DEF n
    <3>2. g[i] # 1
      BY <3>1
    <3>3. CASE k = 1
      BY <2>1, <3>2, <3>3
    <3>4. CASE r.list[k].base < SwapStart
      <4>1. r.list[g[i]] = u.list[i] /\ u.list[i].base \in Nat
        BY <1>1, <1>3, <3>1
      <4>2. SUFFICES ASSUME j = i PROVE FALSE
        OBVIOUS
      <4>3. r.list[k].base = u.list[i].base
        BY <2>1, <4>1, <4>2
      <4> QED BY <1>1, <3>4, <4>1, <4>3
    <3> QED BY <1>11, <3>3, <3>4
  <2>3. PICK x \in 1..n - 1 : old(x) = j
    BY <1>6, <2>2
  <2> QED BY <1>8, <2>1, <2>3
<1>12. Thinned(v, r, h)
  BY <1>2, <1>8, <1>9, <1>10, <1>11 DEF Thinned, Rising
<1> QED BY <1>12 DEF v

(* The loop has come to the i-th hole, or to the end. *)
Walks(l, i, hp, prev_ptr) ==
  i \in 1..Len(l) + 1 /\ hp = Nth(l, i) /\ Before(l, i, prev_ptr)

LEMMA WalkBegins ==
  ASSUME NEW s, NEW l, NEW f, NEW hand, Threaded(s, l, f, hand), NEW garbage
  PROVE  Walks(l, 1, s.hole_head, garbage)
<1>1. l \in Seq(Entries) /\ s.hole_head = Nth(l, 1) /\ Len(l) \in Nat
  BY DEF Threaded, Follows
<1> QED BY <1>1 DEF Walks, Before

LEMMA WalkIs ==
  ASSUME NEW s, NEW l, NEW f, NEW hand, Threaded(s, l, f, hand),
         NEW i, NEW hp, NEW prev_ptr, Walks(l, i, hp, prev_ptr)
  PROVE  /\ hp # NIL_HOLE => i \in 1..Len(l) /\ hp = l[i]
         /\ hp = NIL_HOLE => i = Len(l) + 1
         /\ i \in Nat \ {0}
<1>1. l \in Seq(Entries) /\ Len(l) \in Nat /\ i \in 1..Len(l) + 1 /\ hp = Nth(l, i)
  BY DEF Threaded, Walks
<1>2. i \in Nat \ {0}
  BY <1>1
<1>3. NIL_HOLE \notin Entries
  BY NumbersOfEntries
<1>4. CASE i <= Len(l)
  <2>1. hp = l[i] /\ l[i] \in Entries
    BY <1>1, <1>2, <1>4, NthIs
  <2> QED BY <1>1, <1>2, <1>3, <1>4, <2>1
<1>5. CASE i > Len(l)
  <2>1. hp = NIL_HOLE
    BY <1>1, <1>2, <1>5, NthIs
  <2> QED BY <1>1, <1>2, <1>5, <2>1
<1> QED BY <1>1, <1>4, <1>5

LEMMA WalkGoesOn ==
  ASSUME NEW s, NEW l, NEW f, NEW hand, Threaded(s, l, f, hand),
         NEW i \in 1..Len(l)
  PROVE  Walks(l, i + 1, s.h_next[l[i]], l[i]) /\ s.h_next[l[i]] \in Pointers
<1>1. Len(l) \in Nat /\ s.h_next[l[i]] = Nth(l, i + 1) /\ l \in Seq(Entries)
  <2>1. s.h_next[l[i]] = Nth(l, i + 1)
    BY NextIs
  <2>2. l \in Seq(Entries)
    BY DEF Threaded
  <2> QED BY <2>1, <2>2
<1>2. i + 1 \in 1..Len(l) + 1 /\ (i + 1) - 1 = i /\ i + 1 \in Nat \ {0}
  BY <1>1
<1>3. Nth(l, i + 1) \in Pointers
  BY <1>1, <1>2, NthIs
<1> QED BY <1>1, <1>2, <1>3 DEF Walks, Before

(* The pointer a loop keeps is to the hole ahead of the one it is at. *)
InFrontOf(s, prev_ptr, hp) ==
  hp # s.hole_head => prev_ptr # NIL_HOLE /\ s.h_next[prev_ptr] = hp

LEMMA WalkAhead ==
  ASSUME NEW s, NEW l, NEW f, NEW hand, Threaded(s, l, f, hand),
         NEW i, NEW hp, NEW prev_ptr, Walks(l, i, hp, prev_ptr)
  PROVE  InFrontOf(s, prev_ptr, hp)
<1>1. /\ l \in Seq(Entries) /\ Len(l) \in Nat /\ i \in 1..Len(l) + 1 /\ hp = Nth(l, i)
      /\ s.hole_head = Nth(l, 1) /\ Before(l, i, prev_ptr)
  BY DEF Threaded, Walks, Follows
<1>2. CASE i = 1
  BY <1>1, <1>2 DEF InFrontOf
<1>3. CASE i # 1
  <2> DEFINE j == i - 1
  <2>1. j \in 1..Len(l) /\ j + 1 = i
    BY <1>1, <1>3
  <2>2. prev_ptr = l[j]
    BY <1>1, <1>3 DEF Before
  <2> HIDE DEF j
  <2>3. s.h_next[l[j]] = Nth(l, j + 1) /\ l[j] \in Entries /\ NIL_HOLE \notin Entries
    BY <2>1, NextIs, NumbersOfEntries
  <2> QED BY <1>1, <2>1, <2>2, <2>3 DEF InFrontOf
<1> QED BY <1>2, <1>3

(* free_mem panics only when there is no slot. *)
LEMMA FreePanics ==
  ASSUME NEW t, Counted(t), NEW base \in Nat, NEW clicks \in Nat \ {0}, t.free # 0
  PROVE  free_mem(t, base, clicks).panic = t.panic
<1> DEFINE u == Entered(t, base, clicks)
           q == MergeFrom(Place(t, base))
<1>1. Counted(u) /\ u.panic = t.panic /\ free_mem(t, base, clicks) = merge(u, q)
      /\ q \in Nat \ {0}
  BY Linked, Zenon
<1> HIDE DEF u, q
<1>2. \A k \in Nat \ {0} : Counted(Absorb(u, k)) /\ Absorb(u, k).panic = u.panic
  BY <1>1, AbsorbCounted
<1>3. Absorb(Absorb(u, q), q).panic = u.panic
  BY <1>1, <1>2, AbsorbCounted
<1>4. q + 1 \in Nat \ {0}
  BY <1>1
<1>5. merge(u, q).panic = u.panic
  BY <1>2, <1>3, <1>4 DEF merge
<1> QED BY <1>1, <1>5
------------------------------------------------------------------------------
(* The inductive invariant.  What is true of a store s, a table t and the  *)
(* pointers lp of a loop: at rest, in free_mem, in a search, in swap_off.  *)
Searches == {"first_fit", "worst_fit", "swap_out"}
Loops == [at : {"idle", "free_mem", "first_fit", "worst_fit", "swap_out", "swap_off",
                "panic", "undefined"},
          base : Nat, clicks : Nat, new_ptr : Pointers, hp : Pointers,
          prev_ptr : Pointers, max_hole : Pointers, prev_to_max : Pointers]

AtRest(s, t) == \E l, f : Tied(s, t, l, f)

(* The holes a loop has passed. *)
Passed(t, lp, i) ==
  \A j \in 1..Len(t.list) : j < i =>
    /\ lp.at = "free_mem" => t.list[j].base < lp.base
    /\ lp.at = "first_fit" => t.list[j].base < SwapStart /\ t.list[j].len < lp.clicks
    /\ lp.at = "worst_fit" => t.list[j].base < SwapStart
    /\ lp.at = "swap_out" => ~ (t.list[j].base >= SwapStart /\ t.list[j].len >= lp.clicks)

Freeing(s, t, lp) ==
  /\ lp.base \in Nat /\ lp.clicks \in Nat \ {0}
  /\ Len(t.list) # 0 /\ t.list[1].base < lp.base
  /\ \E l, f, i : /\ Held(s, t, l, f, lp.new_ptr, lp.base, lp.clicks)
                  /\ Walks(l, i, lp.hp, lp.prev_ptr) /\ Passed(t, lp, i)

Largest(t, l, lp, i) ==
  \E m : Walks(l, m, lp.max_hole, lp.prev_to_max) /\ LargestBefore(t, m, i)

Searching(s, t, lp) ==
  /\ lp.clicks \in Nat \ {0}
  /\ \E l, f, i : /\ Tied(s, t, l, f) /\ Walks(l, i, lp.hp, lp.prev_ptr) /\ Passed(t, lp, i)
                  /\ lp.at = "worst_fit" => Largest(t, l, lp, i)

(* swap_off has removed nothing yet, or is past the first hole. *)
Dropping(u, t, i) ==
  \/ u = t /\ \A j \in 1..Len(t.list) : j < i => t.list[j].base < SwapStart
  \/ /\ u.panic = t.panic /\ 1 < i
     /\ \A j \in 1..Len(u.list) : 1 < j /\ j < i => u.list[j].base < SwapStart
     /\ \E k, g : SwapAt(t, k) /\ Thinned(u, del_slot(t, k), g)

SwappingOff(s, t, lp) ==
  \E u, l, f, i : /\ Tied(s, u, l, f) /\ Walks(l, i, lp.hp, lp.prev_ptr)
                  /\ Dropping(u, t, i)

Phase(s, t, lp) ==
  /\ lp.at \in {"idle", "panic"} => AtRest(s, t)
  /\ lp.at = "free_mem" => Freeing(s, t, lp)
  /\ lp.at \in Searches => Searching(s, t, lp)
  /\ lp.at = "swap_off" => SwappingOff(s, t, lp)

ListInv ==
  /\ store \in Stores /\ loop \in Loops /\ outside \subseteq Nat
  /\ Counted(promised) /\ (loop.at = "panic" <=> promised.panic)
  /\ Phase(store, promised, loop)

(* The phases one by one. *)
LEMMA Phases ==
  ASSUME NEW s, NEW t, NEW lp
  PROVE  /\ lp.at \in {"idle", "panic"} /\ AtRest(s, t) => Phase(s, t, lp)
         /\ lp.at = "free_mem" /\ Freeing(s, t, lp) => Phase(s, t, lp)
         /\ lp.at \in Searches /\ Searching(s, t, lp) => Phase(s, t, lp)
         /\ lp.at = "swap_off" /\ SwappingOff(s, t, lp) => Phase(s, t, lp)
         /\ lp.at = "undefined" => Phase(s, t, lp)
BY DEF Phase, Searches

LEMMA TiedIs ==
  ASSUME NEW s, NEW t, NEW l, NEW f, Tied(s, t, l, f)
  PROVE  /\ Threaded(s, l, f, {}) /\ s \in Stores /\ Counted(t)
         /\ l \in Seq(Entries) /\ Len(l) \in Nat /\ Len(l) = Len(t.list)
         /\ \A k \in 1..Len(l) : /\ l[k] \in Entries
                                 /\ s.h_base[l[k]] = t.list[k].base
                                 /\ s.h_len[l[k]] = t.list[k].len
                                 /\ t.list[k].base \in Nat /\ t.list[k].len \in Nat
<1>1. Threaded(s, l, f, {}) /\ Counted(t) /\ Spells(s, l, t.list)
  BY DEF Tied
<1>2. s \in Stores /\ l \in Seq(Entries)
  BY <1>1 DEF Threaded
<1>3. /\ Len(l) = Len(t.list) /\ Len(l) \in Nat
      /\ \A k \in 1..Len(l) : /\ l[k] \in Entries
                              /\ s.h_base[l[k]] = t.list[k].base
                              /\ s.h_len[l[k]] = t.list[k].len
  <2>1. Len(l) = Len(t.list) /\ Len(l) \in Nat /\ ReadOff(s, l, t)
    BY <1>1, <1>2, SpelledOut
  <2> QED BY <2>1 DEF ReadOff
<1>4. \A k \in 1..Len(t.list) : t.list[k].base \in Nat /\ t.list[k].len \in Nat
  BY <1>1, ListOfHoles
<1> QED BY <1>1, <1>2, <1>3, <1>4

LEMMA HeldIs ==
  ASSUME NEW s, NEW t, NEW l, NEW f, NEW e, NEW base, NEW clicks,
         Held(s, t, l, f, e, base, clicks)
  PROVE  /\ Threaded(s, l, f, {e}) /\ s \in Stores /\ Counted(t) /\ e \in Entries
         /\ l \in Seq(Entries) /\ Len(l) \in Nat /\ Len(l) = Len(t.list)
         /\ t.free \in Nat /\ t.free # 0 /\ Len(f) + 1 = t.free /\ ReadOff(s, l, t)
<1>1. /\ Threaded(s, l, f, {e}) /\ Counted(t) /\ Spells(s, l, t.list) /\ e \in Entries
      /\ Len(f) + 1 = t.free
  BY DEF Held
<1>2. s \in Stores /\ l \in Seq(Entries) /\ Len(f) \in Nat
  BY <1>1 DEF Threaded
<1>3. Len(l) = Len(t.list) /\ Len(l) \in Nat /\ ReadOff(s, l, t)
  BY <1>1, <1>2, SpelledOut
<1>4. t.free \in Nat /\ t.free # 0
  BY <1>1, <1>2, ListOfHoles
<1> QED BY <1>1, <1>2, <1>3, <1>4

(* The list of unused entries is empty when the table has no free slot. *)
LEMMA NoSlot ==
  ASSUME NEW s, NEW t, NEW l, NEW f, Tied(s, t, l, f)
  PROVE  s.free_slots = NIL_HOLE <=> t.free = 0
<1>1. f \in Seq(Entries) /\ s.free_slots = Nth(f, 1) /\ Len(f) = t.free /\ Len(f) \in Nat
  BY DEF Tied, Threaded, Follows
<1>2. NIL_HOLE \notin Entries
  BY NumbersOfEntries
<1>3. /\ 1 <= Len(f) => Nth(f, 1) = f[1] /\ f[1] \in Entries
      /\ 1 > Len(f) => Nth(f, 1) = NIL_HOLE
  BY <1>1, NthIs
<1> QED BY <1>1, <1>2, <1>3

(* What the invariant says when no loop is under way. *)
LEMMA NothingUnderWay ==
  ASSUME ListInv, loop.at = "idle"
  PROVE  /\ AtRest(store, promised) /\ ~ promised.panic /\ store \in Stores
         /\ outside \subseteq Nat /\ promised \in Tables /\ Counted(promised)
<1>1. promised \in Tables
  BY DEF ListInv, Counted
<1> QED BY <1>1 DEF ListInv, Phase

(* The steps of free_mem. *)
LEMMA FullKeeps ==
  ASSUME ListInv, NEW base \in 0..Highest, NEW clicks \in 1..Highest,
         HoleTableFull(base, clicks)
  PROVE  ListInv'
<1>1. /\ AtRest(store, promised) /\ ~ promised.panic /\ store \in Stores
      /\ outside \subseteq Nat /\ promised \in Tables /\ Counted(promised)
  BY NothingUnderWay DEF HoleTableFull, MayFree
<1>2. PICK l, f : Tied(store, promised, l, f)
  BY <1>1 DEF AtRest
<1>3. promised.free = 0
  BY <1>2, NoSlot DEF HoleTableFull
<1>4. promised' = [promised EXCEPT !.panic = TRUE]
  BY <1>3 DEF HoleTableFull, MayFree, free_mem
<1>5. /\ promised' \in Tables /\ promised'.panic /\ promised'.list = promised.list
      /\ promised'.free = promised.free
  BY <1>1, <1>4 DEF Tables
<1>6. Counted(promised')
  BY <1>1, <1>5 DEF Counted
<1>7. Tied(store', promised', l, f)
  BY <1>2, <1>5, <1>6 DEF Tied, HoleTableFull
<1>8. loop' \in Loops /\ loop'.at = "panic"
  BY NumbersOfEntries DEF HoleTableFull, NoLoop, Loops
<1>9. Phase(store', promised', loop')
  BY <1>7, <1>8, Phases DEF AtRest
<1> QED BY <1>1, <1>5, <1>6, <1>8, <1>9 DEF ListInv, HoleTableFull

LEMMA FrontKeeps ==
  ASSUME ListInv, NEW base \in 0..Highest, NEW clicks \in 1..Highest,
         FreeInFront(base, clicks)
  PROVE  ListInv'
<1> DEFINE e == store.free_slots
           r == FillEntry(store, base, clicks)
<1>1. /\ AtRest(store, promised) /\ ~ promised.panic /\ store \in Stores
      /\ outside \subseteq Nat /\ promised \in Tables /\ Counted(promised)
      /\ loop.at = "idle" /\ loop \in Loops
  BY NothingUnderWay DEF FreeInFront, MayFree, ListInv
<1>2. base \in Nat /\ clicks \in Nat \ {0}
  BY ListAssumption
<1>3. PICK l, f : Tied(store, promised, l, f)
  BY <1>1 DEF AtRest
<1>4. PICK h : Held(r, promised, l, h, e, base, clicks)
  BY <1>2, <1>3, FillHolds DEF FreeInFront
<1>5. /\ Threaded(r, l, h, {e}) /\ e \in Entries /\ Len(l) = Len(promised.list)
      /\ promised.free # 0
  BY <1>4, HeldIs
<1> HIDE DEF r
<1>6. Place(promised, base) = 1
  <2>1. /\ Threaded(store, l, f, {}) /\ Len(l) \in Nat
        /\ \A k \in 1..Len(l) : store.h_base[l[k]] = promised.list[k].base
    BY <1>3, TiedIs
  <2>2. ASSUME 1 <= Len(promised.list) PROVE base <= promised.list[1].base
    <3>1. 1 \in 1..Len(l)
      BY <1>5, <2>1, <2>2
    <3>2. l[1] = store.hole_head /\ l[1] \in Entries /\ NIL_HOLE \notin Entries
      BY <2>1, <3>1, HeadIsFirst, NumbersOfEntries
    <3> QED BY <2>1, <3>1, <3>2 DEF FreeInFront, GoesInFront
  <2>3. 1 \in 1..Len(promised.list) + 1
    BY <1>5, <2>1
  <2>4. \A j \in 1..Len(promised.list) : j < 1 => promised.list[j].base < base
    OBVIOUS
  <2> QED BY <1>1, <1>2, <2>2, <2>3, <2>4, PlaceFound
<1>7. Joined(LinkInFront(r, e), r, l, Place(promised, base), e)
  BY <1>5, <1>6, FrontJoins
<1>8. \E m, g : Tied(MergeHoles(LinkInFront(r, e), e), free_mem(promised, base, clicks), m, g)
  <2>1. e = IF Place(promised, base) = 1 THEN e ELSE l[Place(promised, base) - 1]
    BY <1>6
  <2> HIDE DEF e
  <2> QED BY <1>2, <1>4, <1>7, <2>1, FreeTies
<1>9. promised'.panic = promised.panic
  BY <1>1, <1>2, <1>5, FreePanics DEF FreeInFront
<1>10. \E m, g : Tied(store', promised', m, g)
  BY <1>8 DEF FreeInFront, r
<1>11. AtRest(store', promised') /\ store' \in Stores /\ Counted(promised')
  BY <1>10, TiedIs DEF AtRest
<1>12. loop' = loop /\ outside' \subseteq Nat
  BY <1>1 DEF FreeInFront
<1>13. Phase(store', promised', loop')
  BY <1>1, <1>11, <1>12, Phases
<1> QED BY <1>1, <1>9, <1>11, <1>12, <1>13 DEF ListInv

LEMMA BehindKeeps ==
  ASSUME ListInv, NEW base \in 0..Highest, NEW clicks \in 1..Highest,
         NEW garbage \in Pointers, FreeBehind(base, clicks, garbage)
  PROVE  ListInv'
<1> DEFINE e == store.free_slots
           r == FillEntry(store, base, clicks)
<1>1. /\ AtRest(store, promised) /\ ~ promised.panic /\ store \in Stores
      /\ outside \subseteq Nat /\ promised \in Tables /\ Counted(promised)
  BY NothingUnderWay DEF FreeBehind, MayFree
<1>2. base \in Nat /\ clicks \in Nat \ {0}
  BY ListAssumption
<1>3. PICK l, f : Tied(store, promised, l, f)
  BY <1>1 DEF AtRest
<1>4. PICK h : Held(r, promised, l, h, e, base, clicks)
  BY <1>2, <1>3, FillHolds DEF FreeBehind
<1>5. /\ Threaded(store, l, f, {}) /\ Len(l) \in Nat /\ Len(l) = Len(promised.list)
      /\ \A k \in 1..Len(l) : store.h_base[l[k]] = promised.list[k].base
  BY <1>3, TiedIs
<1>6. Walks(l, 1, store.hole_head, garbage)
  BY <1>5, WalkBegins
<1>7. /\ store' = r /\ loop'.at = "free_mem" /\ loop'.base = base /\ loop'.clicks = clicks
      /\ loop'.new_ptr = e /\ loop'.hp = store.hole_head /\ loop'.prev_ptr = garbage
      /\ promised' = promised /\ outside' = outside
  BY DEF FreeBehind, NoLoop
<1>8. loop' \in Loops
  <2>1. store.free_slots \in Pointers /\ store.hole_head \in Pointers
    BY <1>1 DEF Stores
  <2> QED BY <1>2, <2>1, NumbersOfEntries DEF FreeBehind, NoLoop, Loops
<1>9. Len(promised.list) # 0 /\ promised.list[1].base < base
  <2>1. store.hole_head # NIL_HOLE /\ ~ (base <= store.h_base[store.hole_head])
    BY DEF FreeBehind, GoesInFront
  <2>2. 1 \in 1..Len(l) /\ store.hole_head = l[1]
    BY <1>5, <1>6, <2>1, WalkIs
  <2>3. promised.list[1].base \in Nat
    BY <1>1, <1>5, <2>2, ListOfHoles
  <2> QED BY <1>2, <1>5, <2>1, <2>2, <2>3
<1>10. Passed(promised, loop', 1)
  BY DEF Passed
<1> HIDE DEF e, r
<1>11. Freeing(store', promised', loop')
  BY <1>2, <1>4, <1>6, <1>7, <1>9, <1>10 DEF Freeing
<1>12. store' \in Stores
  BY <1>4, <1>7, HeldIs
<1>13. Phase(store', promised', loop')
  BY <1>7, <1>11, Phases
<1> QED BY <1>1, <1>7, <1>8, <1>12, <1>13 DEF ListInv

(* The steps of the searches, and of free_mem's. *)
LEMMA SearchKeeps ==
  ASSUME ListInv, NEW which \in {"first_fit", "worst_fit", "swap_out"},
         NEW clicks \in Requests, NEW garbage \in Pointers, Search(which, clicks, garbage)
  PROVE  ListInv'
<1>1. /\ AtRest(store, promised) /\ ~ promised.panic /\ store \in Stores
      /\ outside \subseteq Nat /\ promised \in Tables /\ Counted(promised)
  BY NothingUnderWay DEF Search
<1>2. clicks \in Nat \ {0} /\ which \in Searches
  BY ListAssumption DEF Searches
<1>3. PICK l, f : Tied(store, promised, l, f)
  BY <1>1 DEF AtRest
<1>4. Threaded(store, l, f, {}) /\ store.hole_head \in Pointers
  BY <1>1, <1>3, TiedIs DEF Stores
<1>5. /\ loop'.at = which /\ loop'.clicks = clicks /\ loop'.hp = store.hole_head
      /\ which = "worst_fit" => loop'.max_hole = store.hole_head
      /\ loop' \in Loops
      /\ store' = store /\ promised' = promised /\ outside' = outside
  BY <1>2, <1>4, NumbersOfEntries DEF Search, NoLoop, Loops
<1>6. \A p : Walks(l, 1, store.hole_head, p)
  BY <1>4, WalkBegins
<1>7. Passed(promised, loop', 1)
  BY DEF Passed
<1>8. LargestBefore(promised, 1, 1)
  BY DEF LargestBefore
<1>9. which = "worst_fit" => Largest(promised, l, loop', 1)
  BY <1>5, <1>6, <1>8 DEF Largest
<1>10. Searching(store', promised', loop')
  BY <1>2, <1>3, <1>5, <1>6, <1>7, <1>9 DEF Searching
<1>11. Phase(store', promised', loop')
  BY <1>2, <1>5, <1>10, Phases
<1>12. which # "panic"
  BY DEF Searches
<1> QED BY <1>1, <1>5, <1>11, <1>12 DEF ListInv

LEMMA TurnIs ==
  ASSUME ListInv, Turn
  PROVE  /\ loop'.at = loop.at /\ loop'.base = loop.base /\ loop'.clicks = loop.clicks
         /\ loop'.new_ptr = loop.new_ptr /\ loop'.prev_ptr = loop.hp
         /\ loop'.hp = store.h_next[loop.hp]
         /\ IF loop.at = "worst_fit" /\ store.h_len[loop.hp] > store.h_len[loop.max_hole]
            THEN loop'.max_hole = loop.hp /\ loop'.prev_to_max = loop.prev_ptr
            ELSE loop'.max_hole = loop.max_hole /\ loop'.prev_to_max = loop.prev_to_max
         /\ loop' \in Loops /\ loop.hp \in Entries
         /\ store' = store /\ promised' = promised /\ outside' = outside
<1> DEFINE larger == loop.at = "worst_fit" /\ store.h_len[loop.hp] > store.h_len[loop.max_hole]
<1>1. loop \in Loops /\ store \in Stores /\ loop.hp # NIL_HOLE
  BY DEF ListInv, Turn, GoesOn
<1>2. loop.hp \in Entries /\ loop.hp \in Pointers
  BY <1>1 DEF Loops, Pointers
<1>3. store.h_next[loop.hp] \in Pointers
  BY <1>1, <1>2 DEF Stores
<1>4. loop' = [loop EXCEPT !.prev_ptr = loop.hp, !.hp = store.h_next[loop.hp],
                           !.max_hole = IF larger THEN loop.hp ELSE @,
                           !.prev_to_max = IF larger THEN loop.prev_ptr ELSE @]
  BY DEF Turn, NextHole
<1> HIDE DEF larger
<1>5. /\ loop'.at = loop.at /\ loop'.base = loop.base /\ loop'.clicks = loop.clicks
      /\ loop'.new_ptr = loop.new_ptr /\ loop'.prev_ptr = loop.hp
      /\ loop'.hp = store.h_next[loop.hp]
      /\ IF larger THEN loop'.max_hole = loop.hp /\ loop'.prev_to_max = loop.prev_ptr
         ELSE loop'.max_hole = loop.max_hole /\ loop'.prev_to_max = loop.prev_to_max
      /\ loop' \in Loops
  BY <1>1, <1>2, <1>3, <1>4 DEF Loops
<1> QED BY <1>2, <1>5 DEF larger, Turn

LEMMA TurnKeeps ==
  ASSUME ListInv, Turn
  PROVE  ListInv'
<1> USE TurnIs
<1>1. /\ store \in Stores /\ outside \subseteq Nat /\ Counted(promised)
      /\ (loop.at = "panic" <=> promised.panic) /\ Phase(store, promised, loop)
  BY DEF ListInv
<1>2. loop.hp # NIL_HOLE
  BY DEF Turn, GoesOn
<1>3. CASE loop.at = "free_mem"
  <2>1. Freeing(store, promised, loop)
    BY <1>1, <1>3 DEF Phase
  <2>2. PICK l, f, i : /\ Held(store, promised, l, f, loop.new_ptr, loop.base, loop.clicks)
                       /\ Walks(l, i, loop.hp, loop.prev_ptr) /\ Passed(promised, loop, i)
    BY <2>1 DEF Freeing
  <2>3. /\ Threaded(store, l, f, {loop.new_ptr}) /\ Len(l) \in Nat
        /\ Len(l) = Len(promised.list)
        /\ ReadOff(store, l, promised)
    BY <2>2, HeldIs
  <2>4. i \in 1..Len(l) /\ loop.hp = l[i]
    BY <1>2, <2>2, <2>3, WalkIs
  <2>5. Walks(l, i + 1, loop'.hp, loop'.prev_ptr)
    BY <2>3, <2>4, WalkGoesOn
  <2>6. promised.list[i].base < loop.base
    <3>1. loop.base > store.h_base[loop.hp]
      BY <1>3 DEF Turn, GoesOn
    <3>2. loop.base \in Nat
      BY <2>1 DEF Freeing
    <3>3. store.h_base[l[i]] = promised.list[i].base /\ promised.list[i].base \in Nat
      BY <1>1, <2>3, <2>4, ListOfHoles DEF ReadOff
    <3> QED BY <2>4, <3>1, <3>2, <3>3
  <2>7. Passed(promised, loop', i + 1)
    <3> SUFFICES ASSUME NEW j \in 1..Len(promised.list), j < i + 1
                 PROVE  promised.list[j].base < loop.base
      BY <1>3 DEF Passed
    <3>1. j < i \/ j = i
      BY <2>4
    <3> QED BY <1>3, <2>2, <2>6, <3>1 DEF Passed
  <2>8. Freeing(store', promised', loop')
    BY <2>1, <2>2, <2>5, <2>7 DEF Freeing
  <2>9. Phase(store', promised', loop')
    BY <1>3, <2>8, Phases
  <2> QED BY <1>1, <2>9 DEF ListInv
<1>4. CASE loop.at \in Searches
  <2>1. Searching(store, promised, loop)
    BY <1>1, <1>4 DEF Phase
  <2>2. PICK l, f, i : /\ Tied(store, promised, l, f)
                       /\ Walks(l, i, loop.hp, loop.prev_ptr) /\ Passed(promised, loop, i)
                       /\ loop.at = "worst_fit" => Largest(promised, l, loop, i)
    BY <2>1 DEF Searching
  <2>3. /\ Threaded(store, l, f, {}) /\ Len(l) = Len(promised.list) /\ Len(l) \in Nat
        /\ l \in Seq(Entries)
        /\ \A k \in 1..Len(l) : /\ store.h_base[l[k]] = promised.list[k].base
                                /\ store.h_len[l[k]] = promised.list[k].len
                                /\ promised.list[k].base \in Nat /\ promised.list[k].len \in Nat
    BY <2>2, TiedIs
  <2>4. i \in 1..Len(l) /\ loop.hp = l[i]
    BY <1>2, <2>2, <2>3, WalkIs
  <2>5. Walks(l, i + 1, loop'.hp, loop'.prev_ptr)
    BY <2>3, <2>4, WalkGoesOn
  <2>6. loop.clicks \in Nat
    BY <2>1 DEF Searching
  <2>7. /\ loop.at = "first_fit" => /\ promised.list[i].base < SwapStart
                                    /\ promised.list[i].len < loop.clicks
        /\ loop.at = "worst_fit" => promised.list[i].base < SwapStart
        /\ loop.at = "swap_out" => ~ (/\ promised.list[i].base >= SwapStart
                                      /\ promised.list[i].len >= loop.clicks)
    <3>1. /\ store.h_base[loop.hp] = promised.list[i].base
          /\ store.h_len[loop.hp] = promised.list[i].len
          /\ promised.list[i].base \in Nat /\ promised.list[i].len \in Nat
      BY <2>3, <2>4
    <3>2. SwapStart \in Nat
      BY ListAssumption
    <3> QED BY <1>4, <2>6, <3>1, <3>2 DEF Turn, GoesOn, InMemory, Enough, Searches
  <2>8. Passed(promised, loop', i + 1)
    <3>1. ASSUME NEW j \in 1..Len(promised.list), j < i + 1 PROVE j < i \/ j = i
      BY <2>4, <3>1
    <3>2. loop.at # "free_mem"
      BY <1>4 DEF Searches
    <3> QED BY <2>2, <2>7, <3>1, <3>2 DEF Passed
  <2>9. ASSUME loop.at = "worst_fit" PROVE Largest(promised, l, loop', i + 1)
    <3>1. PICK m : /\ Walks(l, m, loop.max_hole, loop.prev_to_max)
                   /\ LargestBefore(promised, m, i)
      BY <2>2, <2>9 DEF Largest
    <3>2. m \in 1..Len(l) /\ loop.max_hole = l[m]
      <4>1. m \in 1..Len(l) + 1 /\ (m = 1 \/ m < i) /\ loop.max_hole = Nth(l, m)
        BY <3>1 DEF Walks, LargestBefore
      <4>2. m \in Nat \ {0} /\ m <= Len(l)
        BY <2>3, <2>4, <4>1
      <4> QED BY <2>3, <4>1, <4>2, NthIs
    <3> DEFINE t == promised.list
    <3>3. \A j \in 1..Len(t) : /\ j < i => t[j].len <= t[m].len
                               /\ j < m => t[j].len < t[m].len
      BY <3>1 DEF LargestBefore
    <3>4. \A k \in 1..Len(t) : t[k].len \in Nat
      BY <2>3
    <3>5. (m = 1 \/ m < i) /\ m \in 1..Len(t) /\ i \in 1..Len(t)
      BY <2>3, <2>4, <3>1, <3>2 DEF LargestBefore
    <3>6. store.h_len[loop.hp] = t[i].len /\ store.h_len[loop.max_hole] = t[m].len
      BY <2>3, <2>4, <3>2
    <3> HIDE DEF t
    <3>7. CASE t[i].len > t[m].len
      <4>1. Walks(l, i, loop'.max_hole, loop'.prev_to_max)
        BY <2>2, <2>9, <3>6, <3>7
      <4>2. \A j \in 1..Len(t) : /\ j < i + 1 => t[j].len <= t[i].len
                                 /\ j < i => t[j].len < t[i].len
        BY <3>3, <3>4, <3>5, <3>7
      <4>3. LargestBefore(promised, i, i + 1)
        BY <2>4, <4>2 DEF LargestBefore, t
      <4> QED BY <4>1, <4>3 DEF Largest
    <3>8. CASE ~ (t[i].len > t[m].len)
      <4>1. Walks(l, m, loop'.max_hole, loop'.prev_to_max)
        BY <3>1, <3>6, <3>8
      <4>2. \A j \in 1..Len(t) : /\ j < i + 1 => t[j].len <= t[m].len
                                 /\ j < m => t[j].len < t[m].len
        <5> SUFFICES ASSUME NEW j \in 1..Len(t), j < i + 1 PROVE t[j].len <= t[m].len
          BY <3>3
        <5>1. j < i \/ j = i
          BY <3>5
        <5> QED BY <3>3, <3>4, <3>5, <3>8, <5>1
      <4>3. LargestBefore(promised, m, i + 1)
        BY <3>5, <4>2 DEF LargestBefore, t
      <4> QED BY <4>1, <4>3 DEF Largest
    <3> QED BY <3>7, <3>8
  <2>10. Searching(store', promised', loop')
    BY <2>1, <2>2, <2>5, <2>8, <2>9 DEF Searching
  <2>11. Phase(store', promised', loop')
    BY <1>4, <2>10, Phases
  <2> QED BY <1>1, <2>11 DEF ListInv
<1> QED BY <1>3, <1>4 DEF Turn, GoesOn, Searches

LEMMA FoundKeeps ==
  ASSUME ListInv, FreeFound
  PROVE  ListInv'
<1> DEFINE e == loop.new_ptr
           base == loop.base
           clicks == loop.clicks
           t == promised
<1>1. /\ store \in Stores /\ outside \subseteq Nat /\ Counted(t) /\ loop.at = "free_mem"
      /\ ~ t.panic /\ Freeing(store, t, loop)
  BY DEF ListInv, FreeFound, Phase
<1>2. /\ base \in Nat /\ clicks \in Nat \ {0} /\ Len(t.list) # 0 /\ t.list[1].base < base
  BY <1>1 DEF Freeing
<1>3. PICK l, f, i : /\ Held(store, t, l, f, e, base, clicks)
                     /\ Walks(l, i, loop.hp, loop.prev_ptr) /\ Passed(t, loop, i)
  BY <1>1 DEF Freeing
<1>4. /\ Threaded(store, l, f, {e}) /\ Len(l) \in Nat /\ Len(l) = Len(t.list)
      /\ e \in Entries /\ t.free # 0 /\ ReadOff(store, l, t)
  BY <1>3, HeldIs
<1>5. loop.hp = NIL_HOLE \/ ~ (base > store.h_base[loop.hp])
  BY <1>1 DEF FreeFound, GoesOn
<1>6. /\ loop.hp # NIL_HOLE => i \in 1..Len(l) /\ loop.hp = l[i]
      /\ loop.hp = NIL_HOLE => i = Len(l) + 1
  BY <1>3, <1>4, WalkIs
<1>7. \A k \in 1..Len(l) : store.h_base[l[k]] = t.list[k].base /\ t.list[k].base \in Nat
  BY <1>1, <1>4, ListOfHoles DEF ReadOff
<1>8. i <= Len(t.list) => base <= t.list[i].base
  BY <1>2, <1>4, <1>5, <1>6, <1>7
<1>9. i \in 1..Len(t.list) + 1
  BY <1>4, <1>6
<1>10. i # 1
  <2>1. 1 \in 1..Len(l)
    BY <1>2, <1>4
  <2> QED BY <1>2, <1>4, <1>7, <1>8, <2>1
<1>11. Place(t, base) = i
  <2>1. \A j \in 1..Len(t.list) : j < i => t.list[j].base < base
    BY <1>1, <1>3 DEF Passed
  <2> QED BY <1>1, <1>2, <1>8, <1>9, <2>1, PlaceFound
<1>12. loop.prev_ptr = l[i - 1] /\ i \in 2..Len(l) + 1
  BY <1>3, <1>4, <1>9, <1>10 DEF Walks, Before
<1> DEFINE r == LinkBehind(store, loop.prev_ptr, e)
<1>13. Joined(r, store, l, Place(t, base), e)
  BY <1>4, <1>11, <1>12, BehindJoins
<1>14. loop.prev_ptr = IF Place(t, base) = 1 THEN e ELSE l[Place(t, base) - 1]
  BY <1>10, <1>11, <1>12
<1> HIDE DEF e, base, clicks, r
<1>15. \E m, g : Tied(MergeHoles(r, loop.prev_ptr), free_mem(t, base, clicks), m, g)
  BY <1>2, <1>3, <1>13, <1>14, FreeTies
<1>16. /\ store' = MergeHoles(r, loop.prev_ptr) /\ promised' = free_mem(t, base, clicks)
       /\ loop' = NoLoop /\ outside' \subseteq Nat
  BY <1>1 DEF FreeFound, r, e, base, clicks
<1>17. AtRest(store', promised') /\ store' \in Stores /\ Counted(promised')
  BY <1>15, <1>16, TiedIs DEF AtRest
<1>18. ~ promised'.panic
  BY <1>1, <1>2, <1>4, <1>16, FreePanics
<1>19. loop' \in Loops /\ loop'.at = "idle"
  BY <1>16, NumbersOfEntries DEF NoLoop, Loops
<1>20. Phase(store', promised', loop')
  BY <1>17, <1>19, Phases
<1> QED BY <1>16, <1>17, <1>18, <1>19, <1>20 DEF ListInv

(* What a search ends with is the hole that HoleTable takes. *)
LEMMA SearchFinds ==
  ASSUME Searching(store, promised, loop), loop.at \in Searches, ~ GoesOn
  PROVE  \E l, f, k : /\ Tied(store, promised, l, f) /\ PromisedHole = k
                      /\ k = 0 => Found = <<>>
                      /\ k # 0 => /\ k \in 1..Len(l) /\ loop.clicks <= promised.list[k].len
                                  /\ Found # <<>> /\ Found[2] = l[k]
                                  /\ Before(l, k, Found[1])
<1> DEFINE t == promised
           clicks == loop.clicks
<1>1. loop.clicks \in Nat \ {0} /\ SwapStart \in Nat
  BY ListAssumption DEF Searching
<1>2. PICK l, f, i : /\ Tied(store, t, l, f)
                     /\ Walks(l, i, loop.hp, loop.prev_ptr) /\ Passed(t, loop, i)
                     /\ loop.at = "worst_fit" => Largest(t, l, loop, i)
  BY DEF Searching
<1>3. /\ Threaded(store, l, f, {}) /\ Counted(t) /\ Len(l) = Len(t.list) /\ Len(l) \in Nat
      /\ l \in Seq(Entries)
      /\ \A k \in 1..Len(l) : /\ store.h_base[l[k]] = t.list[k].base
                              /\ store.h_len[l[k]] = t.list[k].len
                              /\ t.list[k].base \in Nat /\ t.list[k].len \in Nat
  BY <1>2, TiedIs
<1>4. /\ loop.hp # NIL_HOLE => i \in 1..Len(l) /\ loop.hp = l[i]
      /\ loop.hp = NIL_HOLE => i = Len(l) + 1
  BY <1>2, <1>3, WalkIs
<1>5. i \in 1..Len(t.list) + 1 /\ (i <= Len(t.list) <=> loop.hp # NIL_HOLE)
  BY <1>3, <1>4
<1>6. i <= Len(t.list) => /\ InMemory(loop.hp) <=> t.list[i].base < SwapStart
                          /\ Enough(loop.hp) <=> t.list[i].len >= clicks
  BY <1>3, <1>4, <1>5 DEF InMemory, Enough
<1>7. Before(l, i, loop.prev_ptr)
  BY <1>2 DEF Walks
<1>8. i <= Len(t.list) => t.list[i].base \in Nat /\ t.list[i].len \in Nat
  BY <1>3, <1>4, <1>5
<1> DEFINE Goal(k) == /\ k = 0 => Found = <<>>
                      /\ k # 0 => /\ k \in 1..Len(l) /\ clicks <= t.list[k].len
                                  /\ Found # <<>> /\ Found[2] = l[k]
                                  /\ Before(l, k, Found[1])
<1>9. CASE loop.at = "first_fit"
  <2>1. \A j \in 1..Len(t.list) : j < i => t.list[j].base < SwapStart /\ t.list[j].len < clicks
    BY <1>2, <1>9 DEF Passed
  <2>2. i <= Len(t.list) => ~ (t.list[i].base < SwapStart /\ t.list[i].len < clicks)
    BY <1>1, <1>5, <1>6, <1>8, <1>9 DEF GoesOn
  <2> DEFINE k == IF i <= Len(t.list) /\ t.list[i].base < SwapStart THEN i ELSE 0
  <2>3. FirstFit(t, SwapStart, clicks) = k
    BY <1>1, <1>3, <1>5, <2>1, <2>2, FirstFound
  <2>4. PromisedHole = k
    BY <1>9, <2>3 DEF PromisedHole
  <2>5. CASE i <= Len(t.list) /\ t.list[i].base < SwapStart
    <3>1. Found = <<loop.prev_ptr, loop.hp>>
      BY <1>5, <1>6, <1>9, <2>5 DEF Found
    <3>2. Found # <<>> /\ Found[1] = loop.prev_ptr /\ Found[2] = loop.hp
      BY <3>1
    <3>3. clicks <= t.list[i].len
      BY <1>1, <1>8, <2>2, <2>5
    <3>4. k = i /\ i \in 1..Len(l) /\ loop.hp = l[i]
      BY <1>4, <1>5, <2>5
    <3> HIDE DEF k
    <3>5. Goal(k)
      BY <1>7, <3>2, <3>3, <3>4
    <3> QED BY <1>2, <2>4, <3>5
  <2>6. CASE ~ (i <= Len(t.list) /\ t.list[i].base < SwapStart)
    <3>1. Found = <<>>
      BY <1>5, <1>6, <1>9, <2>6 DEF Found
    <3>2. k = 0
      BY <2>6
    <3> HIDE DEF k
    <3> QED BY <1>2, <2>4, <3>1, <3>2
  <2> QED BY <2>5, <2>6
<1>10. CASE loop.at = "worst_fit"
  <2>1. \A j \in 1..Len(t.list) : j < i => t.list[j].base < SwapStart
    BY <1>2, <1>10 DEF Passed
  <2>2. i <= Len(t.list) => ~ (t.list[i].base < SwapStart)
    BY <1>5, <1>6, <1>10 DEF GoesOn
  <2>3. PICK m : Walks(l, m, loop.max_hole, loop.prev_to_max) /\ LargestBefore(t, m, i)
    BY <1>2, <1>10 DEF Largest
  <2>4. /\ loop.max_hole # NIL_HOLE => m \in 1..Len(l) /\ loop.max_hole = l[m]
        /\ loop.max_hole = NIL_HOLE => m = Len(l) + 1
        /\ m \in Nat \ {0}
    BY <1>3, <2>3, WalkIs
  <2> DEFINE k == IF m <= Len(t.list) /\ t.list[m].len >= clicks THEN m ELSE 0
  <2>5. WorstFit(t, SwapStart, clicks) = k
    BY <1>1, <1>3, <1>5, <2>1, <2>2, <2>3, <2>4, WorstFound
  <2>6. PromisedHole = k
    BY <1>10, <2>5 DEF PromisedHole
  <2>7. loop.max_hole # NIL_HOLE /\ Enough(loop.max_hole)
          <=> m <= Len(t.list) /\ t.list[m].len >= clicks
    BY <1>3, <2>4 DEF Enough
  <2>8. CASE m <= Len(t.list) /\ t.list[m].len >= clicks
    <3>1. Found = <<loop.prev_to_max, loop.max_hole>>
      BY <1>10, <2>7, <2>8 DEF Found
    <3>2. Found # <<>> /\ Found[1] = loop.prev_to_max /\ Found[2] = loop.max_hole
      BY <3>1
    <3>3. k = m /\ m \in 1..Len(l) /\ loop.max_hole = l[m] /\ clicks <= t.list[m].len
      BY <1>1, <1>3, <2>4, <2>7, <2>8
    <3>4. Before(l, m, loop.prev_to_max)
      BY <2>3 DEF Walks
    <3> HIDE DEF k
    <3>5. Goal(k)
      BY <3>2, <3>3, <3>4
    <3> QED BY <1>2, <2>6, <3>5
  <2>9. CASE ~ (m <= Len(t.list) /\ t.list[m].len >= clicks)
    <3>1. Found = <<>>
      BY <1>10, <2>7, <2>9 DEF Found
    <3>2. k = 0
      BY <2>9
    <3> HIDE DEF k
    <3> QED BY <1>2, <2>6, <3>1, <3>2
  <2> QED BY <2>8, <2>9
<1>11. CASE loop.at = "swap_out"
  <2>1. \A j \in 1..Len(t.list) : j < i => ~ (/\ t.list[j].base >= SwapStart
                                              /\ t.list[j].len >= clicks)
    BY <1>2, <1>11 DEF Passed
  <2>2. i <= Len(t.list) => t.list[i].base >= SwapStart /\ t.list[i].len >= clicks
    BY <1>1, <1>5, <1>6, <1>8, <1>11 DEF GoesOn
  <2> DEFINE k == IF i <= Len(t.list) THEN i ELSE 0
  <2>3. SwapHole(t, SwapStart, clicks) = k
    <3>1. clicks \in Nat /\ SwapStart \in Nat /\ Counted(t) /\ i \in 1..Len(t.list) + 1
      BY <1>1, <1>3, <1>5
    <3> QED BY <2>1, <2>2, <3>1, SwapFound, Zenon
  <2>4. PromisedHole = k
    BY <1>11, <2>3 DEF PromisedHole
  <2>5. CASE i <= Len(t.list)
    <3>1. Found = <<loop.prev_ptr, loop.hp>>
      BY <1>5, <1>11, <2>5 DEF Found
    <3>2. Found # <<>> /\ Found[1] = loop.prev_ptr /\ Found[2] = loop.hp
      BY <3>1
    <3>3. k = i /\ i \in 1..Len(l) /\ loop.hp = l[i] /\ clicks <= t.list[i].len
      BY <1>1, <1>4, <1>5, <1>8, <2>2, <2>5
    <3> HIDE DEF k
    <3>5. Goal(k)
      BY <1>7, <3>2, <3>3
    <3> QED BY <1>2, <2>4, <3>5
  <2>6. CASE ~ (i <= Len(t.list))
    <3>1. Found = <<>>
      BY <1>5, <1>11, <2>6 DEF Found
    <3>2. k = 0
      BY <2>6
    <3> HIDE DEF k
    <3> QED BY <1>2, <2>4, <3>1, <3>2
  <2> QED BY <2>5, <2>6
<1> QED BY <1>9, <1>10, <1>11 DEF Searches

LEMMA EndKeeps ==
  ASSUME ListInv, SearchEnds
  PROVE  ListInv'
<1>1. /\ store \in Stores /\ outside \subseteq Nat /\ Counted(promised)
      /\ loop.at \in Searches /\ ~ GoesOn /\ loop.at # "panic" /\ ~ promised.panic
      /\ Searching(store, promised, loop) /\ loop.clicks \in Nat \ {0}
  BY DEF ListInv, SearchEnds, Phase, Searches, Searching
<1>2. PICK l, f, k : /\ Tied(store, promised, l, f) /\ PromisedHole = k
                     /\ k = 0 => Found = <<>>
                     /\ k # 0 => /\ k \in 1..Len(l) /\ loop.clicks <= promised.list[k].len
                                 /\ Found # <<>> /\ Found[2] = l[k]
                                 /\ Before(l, k, Found[1])
  BY <1>1, SearchFinds
<1>3. /\ Len(l) = Len(promised.list)
      /\ \A j \in 1..Len(l) : l[j] \in Entries /\ store.h_len[l[j]] = promised.list[j].len
  BY <1>2, TiedIs
<1>4. loop' = NoLoop /\ loop' \in Loops /\ loop'.at = "idle"
  BY NumbersOfEntries DEF SearchEnds, NoLoop, Loops
<1>5. /\ AtRest(store', promised') /\ store' \in Stores /\ Counted(promised')
      /\ outside' \subseteq Nat /\ ~ promised'.panic
  <2>1. CASE k = 0
    <3>1. store' = store /\ outside' = outside /\ promised' = promised
      BY <1>2, <2>1 DEF SearchEnds
    <3> QED BY <1>1, <1>2, <3>1 DEF AtRest
  <2>2. CASE k # 0
    <3>1. /\ store' = TakePiece(store, Found[1], l[k], loop.clicks)
          /\ outside' = outside \cup Block(store.h_base[l[k]], loop.clicks)
          /\ promised' = Bite(promised, k, loop.clicks)
      BY <1>2, <2>2 DEF SearchEnds
    <3>2. /\ k \in 1..Len(l) /\ k \in 1..Len(promised.list) /\ l[k] \in Entries
          /\ loop.clicks <= store.h_len[l[k]] /\ loop.clicks <= promised.list[k].len
          /\ Before(l, k, Found[1]) /\ loop.clicks \in Nat
      BY <1>1, <1>2, <1>3, <2>2
    <3>3. \E m, g : Tied(store', promised', m, g)
      BY <1>2, <3>1, <3>2, TakeTies
    <3>4. AtRest(store', promised') /\ store' \in Stores
      BY <3>3, TiedIs DEF AtRest
    <3>5. Counted(promised') /\ promised'.panic = promised.panic
      BY <1>1, <3>1, <3>2, BiteCounted
    <3>6. store.h_base[l[k]] \in Nat
      BY <1>1, <3>2 DEF Stores
    <3>7. Block(store.h_base[l[k]], loop.clicks) \subseteq Nat
      BY <1>1, <3>6 DEF Block
    <3> QED BY <1>1, <3>1, <3>4, <3>5, <3>7
  <2> QED BY <2>1, <2>2
<1>6. Phase(store', promised', loop')
  BY <1>4, <1>5, Phases
<1> QED BY <1>4, <1>5, <1>6 DEF ListInv

(* The steps of swap_off. *)
LEMMA OffBeginsKeeps ==
  ASSUME ListInv, NEW garbage \in Pointers, SwapOffBegins(garbage)
  PROVE  ListInv'
<1>1. /\ AtRest(store, promised) /\ ~ promised.panic /\ store \in Stores
      /\ outside \subseteq Nat /\ promised \in Tables /\ Counted(promised)
  BY NothingUnderWay DEF SwapOffBegins
<1>2. PICK l, f : Tied(store, promised, l, f)
  BY <1>1 DEF AtRest
<1>3. Threaded(store, l, f, {}) /\ store.hole_head \in Pointers
  BY <1>1, <1>2, TiedIs DEF Stores
<1>4. /\ loop'.at = "swap_off" /\ loop'.hp = store.hole_head /\ loop'.prev_ptr = garbage
      /\ loop' \in Loops
      /\ store' = store /\ promised' = promised /\ outside' = outside
  BY <1>3, NumbersOfEntries DEF SwapOffBegins, NoLoop, Loops
<1>5. Walks(l, 1, loop'.hp, loop'.prev_ptr)
  BY <1>3, <1>4, WalkBegins
<1>6. Dropping(promised, promised, 1)
  BY DEF Dropping
<1>7. SwappingOff(store', promised', loop')
  BY <1>2, <1>4, <1>5, <1>6 DEF SwappingOff
<1>8. Phase(store', promised', loop')
  BY <1>4, <1>7, Phases
<1> QED BY <1>1, <1>4, <1>8 DEF ListInv

(* How swap_off ends. *)
LEMMA ClosedIs ==
  ASSUME outside \subseteq Nat, CloseSwap
  PROVE  loop' = NoLoop /\ loop' \in Loops /\ loop'.at = "idle" /\ outside' \subseteq Nat
<1>1. SwapClicks \subseteq Nat
  BY ListAssumption DEF SwapClicks
<1> QED BY <1>1, NumbersOfEntries DEF CloseSwap, NoLoop, Loops

LEMMA OffTurnKeeps ==
  ASSUME ListInv, SwapOffTurn
  PROVE  ListInv'
<1> DEFINE t == promised
<1>1. /\ store \in Stores /\ loop \in Loops /\ outside \subseteq Nat /\ Counted(t)
      /\ ~ t.panic /\ SwappingOff(store, t, loop)
      /\ loop.at = "swap_off" /\ loop.hp # NIL_HOLE
  BY DEF ListInv, SwapOffTurn, Phase
<1>2. PICK u, l, f, i : /\ Tied(store, u, l, f) /\ Walks(l, i, loop.hp, loop.prev_ptr)
                        /\ Dropping(u, t, i)
  BY <1>1 DEF SwappingOff
<1>3. /\ Threaded(store, l, f, {}) /\ Counted(u) /\ Len(l) = Len(u.list) /\ Len(l) \in Nat
      /\ l \in Seq(Entries)
      /\ \A k \in 1..Len(l) : /\ l[k] \in Entries
                              /\ store.h_base[l[k]] = u.list[k].base
                              /\ u.list[k].base \in Nat
  BY <1>2, TiedIs
<1>4. i \in 1..Len(l) /\ loop.hp = l[i]
  BY <1>1, <1>2, <1>3, WalkIs
<1>5. SwapStart \in Nat
  BY ListAssumption
<1>6. CASE InMemory(loop.hp)
  <2>1. /\ store' = store /\ outside' = outside /\ promised' = promised
        /\ loop' = [loop EXCEPT !.prev_ptr = loop.hp, !.hp = store.h_next[loop.hp]]
    BY <1>1, <1>6 DEF SwapOffTurn
  <2>2. store.h_next[l[i]] \in Pointers /\ Walks(l, i + 1, store.h_next[l[i]], l[i])
    BY <1>3, <1>4, WalkGoesOn
  <2>3. l[i] \in Pointers
    BY <1>3, <1>4 DEF Pointers
  <2>4. /\ loop' \in Loops /\ loop'.at = "swap_off" /\ loop'.prev_ptr = l[i]
        /\ loop'.hp = store.h_next[l[i]]
    BY <1>1, <1>4, <2>1, <2>2, <2>3 DEF Loops
  <2>5. u.list[i].base < SwapStart
    BY <1>3, <1>4, <1>6 DEF InMemory
  <2>6. \A j \in 1..Len(u.list) : j < i + 1 => j < i \/ j = i
    BY <1>4
  <2>7. Dropping(u, t, i + 1)
    <3>1. CASE u = t /\ \A j \in 1..Len(t.list) : j < i => t.list[j].base < SwapStart
      BY <2>5, <2>6, <3>1 DEF Dropping
    <3>2. CASE /\ u.panic = t.panic /\ 1 < i
               /\ \A j \in 1..Len(u.list) : 1 < j /\ j < i => u.list[j].base < SwapStart
               /\ \E k, g : SwapAt(t, k) /\ Thinned(u, del_slot(t, k), g)
      <4>1. 1 < i + 1
        BY <1>4
      <4>2. \A j \in 1..Len(u.list) : 1 < j /\ j < i + 1 => u.list[j].base < SwapStart
        BY <2>5, <2>6, <3>2
      <4> QED BY <3>2, <4>1, <4>2 DEF Dropping
    <3> QED BY <1>2, <3>1, <3>2 DEF Dropping
  <2>8. SwappingOff(store', promised', loop')
    BY <1>2, <2>1, <2>2, <2>4, <2>7 DEF SwappingOff
  <2>9. Phase(store', promised', loop')
    BY <2>4, <2>8, Phases
  <2> QED BY <1>1, <2>1, <2>4, <2>9 DEF ListInv
<1>7. CASE ~ InMemory(loop.hp)
  <2> DEFINE s == DeleteEntry(store, loop.prev_ptr, loop.hp)
             v == del_slot(u, i)
             m == RemoveAt(l, i)
             g == <<l[i]>> \o f
  <2>1. Tied(s, v, m, g)
    <3>1. Before(l, i, loop.prev_ptr)
      BY <1>2 DEF Walks
    <3>2. Tied(DeleteEntry(store, loop.prev_ptr, l[i]), v, m, g)
      BY <1>2, <1>4, <3>1, DeleteTies, Zenon
    <3> QED BY <1>4, <3>2
  <2>2. /\ store' = s
        /\ \/ /\ s.hole_head # NIL_HOLE
              /\ loop' = [loop EXCEPT !.prev_ptr = s.hole_head, !.hp = s.h_next[s.hole_head]]
              /\ outside' = outside /\ promised' = promised
           \/ s.hole_head = NIL_HOLE /\ CloseSwap
           \/ /\ s.hole_head = NIL_HOLE
              /\ loop' = [NoLoop EXCEPT !.at = "undefined"]
              /\ outside' = outside /\ promised' = promised
    BY <1>7, Zenon DEF SwapOffTurn
  <2>3. u.list[i].base >= SwapStart
    BY <1>3, <1>4, <1>5, <1>7 DEF InMemory
  <2>4. v.panic = u.panic /\ i \in 1..Len(u.list)
    BY <1>3, <1>4, Deleted
  <2>5. \E k, h : SwapAt(t, k) /\ Thinned(v, del_slot(t, k), h) /\ v.panic = t.panic
    <3>1. CASE u = t /\ \A j \in 1..Len(t.list) : j < i => t.list[j].base < SwapStart
      <4>1. SwapAt(t, i)
        BY <2>3, <2>4, <3>1 DEF SwapAt
      <4>2. Counted(v)
        BY <2>1, TiedIs
      <4> HIDE DEF v
      <4>3. PICK h : Thinned(v, v, h)
        BY <4>2, FirstThinned
      <4> QED BY <2>4, <3>1, <4>1, <4>3 DEF v
    <3>2. CASE /\ u.panic = t.panic /\ 1 < i
               /\ \A j \in 1..Len(u.list) : 1 < j /\ j < i => u.list[j].base < SwapStart
               /\ \E k, h : SwapAt(t, k) /\ Thinned(u, del_slot(t, k), h)
      <4>1. PICK k, h : SwapAt(t, k) /\ Thinned(u, del_slot(t, k), h)
        BY <3>2
      <4>2. PICK h2 : Thinned(v, del_slot(t, k), h2)
        BY <1>3, <2>3, <2>4, <3>2, <4>1, MoreThinned
      <4> QED BY <2>4, <3>2, <4>1, <4>2
    <3> QED BY <1>2, <3>1, <3>2 DEF Dropping
  <2> HIDE DEF s, v, m, g
  <2>6. /\ Threaded(s, m, g, {}) /\ s \in Stores /\ Counted(v) /\ Len(m) = Len(v.list)
        /\ Len(m) \in Nat
    BY <2>1, TiedIs
  <2>7. Walks(m, 1, s.hole_head, NIL_HOLE)
    BY <2>6, WalkBegins
  <2>8. CASE /\ s.hole_head # NIL_HOLE
             /\ loop' = [loop EXCEPT !.prev_ptr = s.hole_head, !.hp = s.h_next[s.hole_head]]
             /\ outside' = outside /\ promised' = promised
    <3>1. 1 \in 1..Len(m) /\ s.hole_head = m[1]
      BY <2>6, <2>7, <2>8, WalkIs
    <3>2. Walks(m, 2, s.h_next[s.hole_head], s.hole_head) /\ s.h_next[s.hole_head] \in Pointers
      <4>1. Walks(m, 1 + 1, s.h_next[m[1]], m[1]) /\ s.h_next[m[1]] \in Pointers
        BY <2>6, <3>1, WalkGoesOn
      <4>2. 1 + 1 = 2
        OBVIOUS
      <4> QED BY <3>1, <4>1, <4>2
    <3>3. s.hole_head \in Pointers
      BY <2>6 DEF Stores
    <3>4. /\ loop' \in Loops /\ loop'.at = "swap_off" /\ loop'.prev_ptr = s.hole_head
          /\ loop'.hp = s.h_next[s.hole_head]
      BY <1>1, <2>8, <3>2, <3>3 DEF Loops
    <3>5. Dropping(v, t, 2)
      <4>1. \A j \in 1..Len(v.list) : ~ (1 < j /\ j < 2)
        OBVIOUS
      <4> QED BY <2>5, <4>1 DEF Dropping
    <3>6. SwappingOff(store', promised', loop')
      BY <2>1, <2>2, <2>8, <3>2, <3>4, <3>5 DEF SwappingOff
    <3>7. Phase(store', promised', loop')
      BY <3>4, <3>6, Phases
    <3> QED BY <1>1, <2>2, <2>6, <2>8, <3>4, <3>7 DEF ListInv
  <2>9. CASE s.hole_head = NIL_HOLE /\ CloseSwap
    <3>1. 1 = Len(m) + 1
      BY <2>6, <2>7, <2>9, WalkIs
    <3>2. promised' = v
      <4>1. PICK k, h : SwapAt(t, k) /\ Thinned(v, del_slot(t, k), h) /\ v.panic = t.panic
        BY <2>5
      <4>2. \A j \in 1..Len(v.list) : 1 < j => v.list[j].base < SwapStart
        BY <2>6, <3>1
      <4>3. v = DropSwapHoles(t, SwapStart)
        BY <1>1, <2>6, <4>1, <4>2, ThinnedIsDropped
      <4> QED BY <2>9, <4>3 DEF CloseSwap
    <3>3. loop' \in Loops /\ loop'.at = "idle" /\ outside' \subseteq Nat
      BY <1>1, <2>9, ClosedIs
    <3>4. AtRest(store', promised') /\ Counted(promised') /\ ~ promised'.panic
      BY <1>1, <2>1, <2>2, <2>5, <2>6, <3>2 DEF AtRest
    <3>5. Phase(store', promised', loop')
      BY <3>3, <3>4, Phases
    <3> QED BY <2>2, <2>6, <3>3, <3>4, <3>5 DEF ListInv
  <2>10. CASE /\ s.hole_head = NIL_HOLE
              /\ loop' = [NoLoop EXCEPT !.at = "undefined"]
              /\ outside' = outside /\ promised' = promised
    <3>1. loop' \in Loops /\ loop'.at = "undefined"
      BY <2>10, NumbersOfEntries DEF NoLoop, Loops
    <3>2. Phase(store', promised', loop')
      BY <3>1, Phases
    <3> QED BY <1>1, <2>2, <2>6, <2>10, <3>1, <3>2 DEF ListInv
  <2> QED BY <2>2, <2>8, <2>9, <2>10
<1> QED BY <1>6, <1>7

LEMMA OffEndsKeeps ==
  ASSUME ListInv, SwapOffEnds
  PROVE  ListInv'
<1> DEFINE t == promised
<1>1. /\ store \in Stores /\ outside \subseteq Nat /\ Counted(t) /\ store' = store
      /\ ~ t.panic /\ SwappingOff(store, t, loop) /\ loop.hp = NIL_HOLE /\ CloseSwap
  BY DEF ListInv, SwapOffEnds, Phase
<1>2. PICK u, l, f, i : /\ Tied(store, u, l, f) /\ Walks(l, i, loop.hp, loop.prev_ptr)
                        /\ Dropping(u, t, i)
  BY <1>1 DEF SwappingOff
<1>3. Threaded(store, l, f, {}) /\ Counted(u) /\ Len(l) = Len(u.list) /\ Len(l) \in Nat
  BY <1>2, TiedIs
<1>4. i = Len(u.list) + 1
  BY <1>1, <1>2, <1>3, WalkIs
<1>5. \A j \in 1..Len(u.list) : j < i
  BY <1>3, <1>4
<1>6. u = DropSwapHoles(t, SwapStart) /\ u.panic = t.panic
  <2>1. CASE u = t /\ \A j \in 1..Len(t.list) : j < i => t.list[j].base < SwapStart
    BY <1>1, <1>5, <2>1, NoneDropped
  <2>2. CASE /\ u.panic = t.panic /\ 1 < i
             /\ \A j \in 1..Len(u.list) : 1 < j /\ j < i => u.list[j].base < SwapStart
             /\ \E k, g : SwapAt(t, k) /\ Thinned(u, del_slot(t, k), g)
    <3>1. \A j \in 1..Len(u.list) : 1 < j => u.list[j].base < SwapStart
      BY <1>5, <2>2
    <3>2. PICK k, g : SwapAt(t, k) /\ Thinned(u, del_slot(t, k), g)
      BY <2>2
    <3> QED BY <1>1, <1>3, <2>2, <3>1, <3>2, ThinnedIsDropped
  <2> QED BY <1>2, <2>1, <2>2 DEF Dropping
<1>7. promised' = u
  BY <1>1, <1>6 DEF CloseSwap
<1>8. loop' \in Loops /\ loop'.at = "idle" /\ outside' \subseteq Nat
  BY <1>1, ClosedIs
<1>9. AtRest(store', promised') /\ Counted(promised') /\ ~ promised'.panic
  BY <1>1, <1>2, <1>3, <1>6, <1>7 DEF AtRest
<1>10. Phase(store', promised', loop')
  BY <1>8, <1>9, Phases
<1> QED BY <1>1, <1>8, <1>9, <1>10 DEF ListInv

LEMMA ListStarts == ListInit => ListInv
<1> SUFFICES ASSUME ListInit PROVE ListInv
  OBVIOUS
<1> DEFINE f == [e \in Entries |-> e]
           s == store
           n == NR_HOLES
<1>1. n \in Nat \ {0} /\ Entries = 1..n /\ NIL_HOLE = 0 /\ Pointers = 0..n
  BY NumbersOfEntries DEF Entries, NIL_HOLE, Pointers
<1>2. /\ s.h_next = [e \in Entries |-> IF e = n THEN NIL_HOLE ELSE e + 1]
      /\ s.hole_head = NIL_HOLE /\ s.free_slots = 1
      /\ s \in Stores
  BY <1>1 DEF ListInit, Stores
<1>3. f \in Seq(Entries) /\ Len(f) = n /\ \A e \in 1..n : f[e] = e
  BY <1>1
<1> HIDE DEF f, s, n
<1>4. <<>> \in Seq(Entries) /\ Len(<<>>) = 0 /\ DOMAIN <<>> = {}
  OBVIOUS
<1>5. Follows(s, s.hole_head, <<>>)
  BY <1>2, <1>4 DEF Follows, Nth
<1>6. Follows(s, s.free_slots, f)
  <2>1. \A e \in 1..n : s.h_next[f[e]] = Nth(f, e + 1)
    <3> SUFFICES ASSUME NEW e \in 1..n PROVE s.h_next[e] = Nth(f, e + 1)
      BY <1>3
    <3>1. s.h_next[e] = IF e = n THEN NIL_HOLE ELSE e + 1
      BY <1>1, <1>2
    <3>2. DOMAIN f = 1..n
      BY <1>3
    <3>3. CASE e = n
      <4>1. e + 1 \notin DOMAIN f
        BY <1>1, <3>2, <3>3
      <4> QED BY <3>1, <3>3, <4>1 DEF Nth
    <3>4. CASE e # n
      <4>1. e + 1 \in 1..n
        BY <1>1, <3>4
      <4> QED BY <1>3, <3>1, <3>2, <3>4, <4>1 DEF Nth
    <3> QED BY <3>3, <3>4
  <2>2. Nth(f, 1) = 1
    <3>1. 1 \in DOMAIN f /\ f[1] = 1
      BY <1>1, <1>3
    <3> QED BY <3>1 DEF Nth
  <2> QED BY <1>2, <1>3, <2>1, <2>2, FollowsEach
<1>7. EachOnce(<<>>, f, {})
  <2>1. DOMAIN f = 1..n
    BY <1>3
  <2>2. \A e \in Entries : e \in Range(f)
    BY <1>1, <1>3, <2>1 DEF Range
  <2> QED BY <1>3, <1>4, <2>1, <2>2 DEF EachOnce
<1>8. Threaded(s, <<>>, f, {})
  BY <1>2, <1>3, <1>4, <1>5, <1>6, <1>7 DEF Threaded
<1>9. Counted(EmptyTable) /\ EmptyTable.list = <<>> /\ EmptyTable.free = n
      /\ EmptyTable.panic = FALSE
  BY <1>1 DEF Counted, EmptyTable, Tables, n
<1>10. Spells(s, <<>>, EmptyTable.list)
  BY <1>9 DEF Spells
<1>11. Tied(s, EmptyTable, <<>>, f)
  BY <1>3, <1>8, <1>9, <1>10 DEF Tied
<1>12. AtRest(store, promised)
  BY <1>11 DEF AtRest, ListInit, s
<1>13. loop \in Loops /\ loop.at = "idle"
  BY NumbersOfEntries DEF ListInit, NoLoop, Loops
<1>14. Phase(store, promised, loop)
  BY <1>12, <1>13, Phases
<1>15. outside \subseteq Nat
  BY ListAssumption DEF ListInit
<1> QED BY <1>2, <1>9, <1>13, <1>14, <1>15 DEF ListInv, ListInit, s

LEMMA ListSteps == ListInv /\ [ListNext]_listVars => ListInv'
<1> SUFFICES ASSUME ListInv, [ListNext]_listVars PROVE ListInv'
  OBVIOUS
<1>1. ASSUME NEW base \in 0..Highest, NEW clicks \in 1..Highest, HoleTableFull(base, clicks)
      PROVE  ListInv'
  BY <1>1, FullKeeps
<1>2. ASSUME NEW base \in 0..Highest, NEW clicks \in 1..Highest, FreeInFront(base, clicks)
      PROVE  ListInv'
  BY <1>2, FrontKeeps
<1>3. ASSUME NEW base \in 0..Highest, NEW clicks \in 1..Highest, NEW garbage \in Pointers,
             FreeBehind(base, clicks, garbage)
      PROVE  ListInv'
  BY <1>3, BehindKeeps
<1>4. ASSUME NEW which \in {"first_fit", "worst_fit", "swap_out"}, NEW clicks \in Requests,
             NEW garbage \in Pointers, Search(which, clicks, garbage)
      PROVE  ListInv'
  BY <1>4, SearchKeeps
<1>5. CASE Turn
  BY <1>5, TurnKeeps
<1>6. CASE FreeFound
  BY <1>6, FoundKeeps
<1>7. CASE SearchEnds
  BY <1>7, EndKeeps
<1>8. ASSUME NEW garbage \in Pointers, SwapOffBegins(garbage) PROVE ListInv'
  BY <1>8, OffBeginsKeeps
<1>9. CASE SwapOffTurn
  BY <1>9, OffTurnKeeps
<1>10. CASE SwapOffEnds
  BY <1>10, OffEndsKeeps
<1>11. CASE UNCHANGED listVars
  BY <1>11 DEF listVars, ListInv
<1> QED BY <1>1, <1>2, <1>3, <1>4, <1>5, <1>6, <1>7, <1>8, <1>9, <1>10, <1>11 DEF ListNext

(* The invariant holds always (alloc.c:56-328). *)
LEMMA ListInvariant == ListSpec => []ListInv
  BY ListStarts, ListSteps, PTL DEF ListSpec

(* The kinds of the variables: every pointer is to an entry or NIL_HOLE,   *)
(* and no size becomes negative (alloc.c:78, 112).                         *)
THEOREM ListTypeCorrect == ListSpec => []ListTypeOK
<1>1. ListInv => ListTypeOK
  BY DEF ListInv, ListTypeOK, Counted, Loops
<1> QED BY <1>1, ListInvariant, PTL

(* Whatever is freed, allocated and swapped off, the links spell the table *)
(* of HoleTable, and no entry is lost or on both lists (alloc.c:106-223).  *)
THEOREM LinksSpellTable == ListSpec => []LinksAreTable
<1>1. ASSUME ListInv PROVE LinksAreTable
  <2>1. /\ Phase(store, promised, loop) /\ loop \in Loops /\ promised.free \in Nat
        /\ (loop.at = "panic" <=> promised.panic)
    BY <1>1, ListOfHoles DEF ListInv
  <2>2. ASSUME NEW l, NEW f, Threaded(store, l, f, InHand), Spells(store, l, promised.list),
               Len(f) = promised.free - Cardinality(InHand)
        PROVE  LinksAreTable
    <3>1. /\ l \in Seq(Entries) /\ f \in Seq(Entries)
          /\ Follows(store, store.hole_head, l) /\ Follows(store, store.free_slots, f)
          /\ EachOnce(l, f, InHand) /\ Len(l) = Len(promised.list)
      BY <2>2 DEF Threaded, Spells
    <3>2. l \in [1..Len(promised.list) -> Entries]
      BY <3>1
    <3>3. f \in [1..promised.free - Cardinality(InHand) -> Entries]
      BY <2>2, <3>1
    <3> QED BY <2>1, <2>2, <3>1, <3>2, <3>3 DEF LinksAreTable
  <2>3. CASE loop.at = "free_mem"
    <3>1. PICK l, f, i : Held(store, promised, l, f, loop.new_ptr, loop.base, loop.clicks)
      BY <2>1, <2>3 DEF Phase, Freeing
    <3>2. InHand = {loop.new_ptr} /\ Cardinality(InHand) = 1
      BY <2>3, FS_Singleton DEF InHand
    <3>3. /\ Threaded(store, l, f, {loop.new_ptr}) /\ Spells(store, l, promised.list)
          /\ Len(f) + 1 = promised.free /\ f \in Seq(Entries)
      BY <3>1 DEF Held, Threaded
    <3>4. Len(f) = promised.free - 1
      BY <2>1, <3>3
    <3> QED BY <2>2, <3>2, <3>3, <3>4
  <2>4. CASE loop.at \in {"idle", "panic"} \cup Searches
    <3>1. PICK l, f : Tied(store, promised, l, f)
      BY <2>1, <2>4 DEF Phase, AtRest, Searching
    <3>2. InHand = {} /\ Cardinality(InHand) = 0
      BY <2>4, FS_EmptySet DEF InHand, Searches
    <3>3. /\ Threaded(store, l, f, {}) /\ Spells(store, l, promised.list)
          /\ Len(f) = promised.free - 0
      BY <2>1, <3>1 DEF Tied
    <3> QED BY <2>2, <3>2, <3>3
  <2>5. CASE loop.at \in {"swap_off", "undefined"}
    BY <2>1, <2>5 DEF LinksAreTable
  <2> QED BY <2>1, <2>3, <2>4, <2>5 DEF Loops, Searches
<1> QED BY <1>1, ListInvariant, PTL

(* A pointer that has no value yet, or an old one, is never followed       *)
(* (alloc.c:68, 145, 300).                                                 *)
THEOREM NoPointerAstray == ListSpec => []NoStrayPointer
<1>1. ASSUME ListInv PROVE NoStrayPointer
  <2>1. Phase(store, promised, loop) /\ loop \in Loops /\ Counted(promised)
    BY <1>1 DEF ListInv
  <2>2. \A p, q : InFrontOf(store, p, q) => IsAhead(p, q)
    BY DEF InFrontOf, IsAhead
  <2>3. CASE loop.at = "free_mem"
    <3>1. /\ loop.base \in Nat /\ Len(promised.list) # 0
          /\ promised.list[1].base < loop.base
      BY <2>1, <2>3 DEF Phase, Freeing
    <3>2. PICK l, f, i : /\ Held(store, promised, l, f, loop.new_ptr, loop.base, loop.clicks)
                         /\ Walks(l, i, loop.hp, loop.prev_ptr)
      BY <2>1, <2>3 DEF Phase, Freeing
    <3>3. /\ Threaded(store, l, f, {loop.new_ptr}) /\ Len(l) \in Nat
          /\ Len(l) = Len(promised.list) /\ ReadOff(store, l, promised)
      BY <3>2, HeldIs
    <3>4. IsAhead(loop.prev_ptr, loop.hp)
      BY <2>2, <3>2, <3>3, WalkAhead
    <3>5. ASSUME ~ GoesOn PROVE loop.hp # store.hole_head
      <4>1. 1 \in 1..Len(l)
        BY <3>1, <3>3
      <4>2. l[1] = store.hole_head /\ l[1] \in Entries /\ NIL_HOLE \notin Entries
        BY <3>3, <4>1, HeadIsFirst, NumbersOfEntries
      <4>3. store.h_base[l[1]] = promised.list[1].base /\ promised.list[1].base \in Nat
        BY <2>1, <3>3, <4>1, ListOfHoles DEF ReadOff
      <4> QED BY <2>3, <3>1, <3>5, <4>2, <4>3 DEF GoesOn
    <3> QED BY <2>3, <3>4, <3>5 DEF NoStrayPointer
  <2>4. CASE loop.at \in Searches
    <3>1. PICK l, f, i : /\ Tied(store, promised, l, f)
                         /\ Walks(l, i, loop.hp, loop.prev_ptr)
                         /\ loop.at = "worst_fit" => Largest(promised, l, loop, i)
      BY <2>1, <2>4 DEF Phase, Searching
    <3>2. Threaded(store, l, f, {})
      BY <3>1, TiedIs
    <3>3. IsAhead(loop.prev_ptr, loop.hp)
      BY <2>2, <3>1, <3>2, WalkAhead
    <3>4. loop.at = "worst_fit" => IsAhead(loop.prev_to_max, loop.max_hole)
      <4> SUFFICES ASSUME loop.at = "worst_fit"
                   PROVE  IsAhead(loop.prev_to_max, loop.max_hole)
        OBVIOUS
      <4>1. PICK m : Walks(l, m, loop.max_hole, loop.prev_to_max)
        BY <3>1 DEF Largest
      <4> QED BY <2>2, <3>2, <4>1, WalkAhead
    <3> QED BY <2>4, <3>3, <3>4 DEF NoStrayPointer, Searches
  <2>5. CASE loop.at = "swap_off"
    <3>1. PICK u, l, f, i : Tied(store, u, l, f) /\ Walks(l, i, loop.hp, loop.prev_ptr)
      BY <2>1, <2>5 DEF Phase, SwappingOff
    <3>2. IsAhead(loop.prev_ptr, loop.hp)
      BY <2>2, <3>1, TiedIs, WalkAhead
    <3> QED BY <2>5, <3>2 DEF NoStrayPointer
  <2>6. CASE loop.at \in {"idle", "panic", "undefined"}
    BY <2>6 DEF NoStrayPointer
  <2> QED BY <2>1, <2>3, <2>4, <2>5, <2>6 DEF Loops, Searches
<1> QED BY <1>1, ListInvariant, PTL
==============================================================================
