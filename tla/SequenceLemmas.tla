--------------------------- MODULE SequenceLemmas ---------------------------
(***************************************************************************)
(* What the proofs need of sequences: those whose elements have no set to  *)
(* be named after.                                                         *)
(***************************************************************************)
EXTENDS Integers, SequenceTheorems, WellFoundedInduction, TLAPS

(* A non-empty set of indices has a greatest element: the innermost scope     *)
(* that holds a name exists when any does.                                  *)
LEMMA GreatestIndex ==
  ASSUME NEW n \in Nat, NEW S \in SUBSET (1..n), S # {}
  PROVE  \E i \in S : \A j \in S : j <= i
<1> DEFINE T == {n - i : i \in S}
<1>1. \A i \in S : i \in Nat /\ n - i \in Nat
  OBVIOUS
<1>2. T \in SUBSET Nat /\ T # {}
  BY <1>1
<1>3. PICK x \in T : \A y \in T : ~(<<y, x>> \in OpToRel(<, Nat))
  <2> HIDE DEF T
  <2> QED
    BY <1>2, NatLessThanWellFounded, WFMin
<1>4. \A y \in T : ~(y < x)
  <2> HIDE DEF T
  <2>1. x \in Nat
    BY <1>2
  <2>2. \A y \in Nat : y < x => <<y, x>> \in OpToRel(<, Nat)
    BY <2>1, Zenon DEF OpToRel
  <2> QED
    BY <1>2, <1>3, <2>2, Zenon
<1>5. PICK i \in S : x = n - i
  OBVIOUS
<1>6. \A j \in S : ~(n - j < n - i)
  BY <1>4, <1>5, Zenon
<1>7. \A j \in S : j <= i
  BY <1>1, <1>6
<1> QED
  BY <1>7

-----------------------------------------------------------------------------
(* Sequences, whatever they are of.                                          *)
IsSeq(s) == \E S : s \in Seq(S)

LEMMA SeqParts ==
  ASSUME NEW s, IsSeq(s)
  PROVE  /\ Len(s) \in Nat
         /\ DOMAIN s = 1..Len(s)
         /\ s = <<>> <=> Len(s) = 0
BY DEF IsSeq

LEMMA SeqTail ==
  ASSUME NEW s, IsSeq(s), s # <<>>
  PROVE  /\ IsSeq(Tail(s))
         /\ Len(Tail(s)) = Len(s) - 1
         /\ \A i \in 1..Len(Tail(s)) : Tail(s)[i] = s[i + 1]
         /\ Head(s) = s[1]
         /\ 1 \in DOMAIN s
BY DEF IsSeq

LEMMA SeqConcat ==
  ASSUME NEW s, NEW t, IsSeq(s), IsSeq(t)
  PROVE  /\ IsSeq(s \o t)
         /\ Len(s \o t) = Len(s) + Len(t)
         /\ \A i \in 1..Len(s \o t) : (s \o t)[i] = IF i <= Len(s) THEN s[i] ELSE t[i - Len(s)]
<1>1. PICK S, T : s \in Seq(S) /\ t \in Seq(T)
  BY DEF IsSeq
<1>2. s \in Seq(S \cup T) /\ t \in Seq(S \cup T)
  BY <1>1, SeqMonotonic
<1> QED
  BY <1>2, ConcatProperties DEF IsSeq

LEMMA SeqAppend ==
  ASSUME NEW s, NEW x, IsSeq(s)
  PROVE  /\ IsSeq(Append(s, x))
         /\ Len(Append(s, x)) = Len(s) + 1
         /\ \A i \in 1..Len(Append(s, x)) : Append(s, x)[i] = IF i <= Len(s) THEN s[i] ELSE x
<1>1. PICK S : s \in Seq(S)
  BY DEF IsSeq
<1>2. s \in Seq(S \cup {x})
  BY <1>1, SeqMonotonic
<1> QED
  BY <1>2, AppendProperties DEF IsSeq

LEMMA SeqSub ==
  ASSUME NEW s, IsSeq(s), NEW m \in Nat, m > 0, NEW n \in Nat, n <= Len(s)
  PROVE  /\ IsSeq(SubSeq(s, m, n))
         /\ Len(SubSeq(s, m, n)) = IF m <= n THEN n - m + 1 ELSE 0
         /\ \A i \in 1..Len(SubSeq(s, m, n)) : SubSeq(s, m, n)[i] = s[m + i - 1]
BY DEF IsSeq

LEMMA SeqMade ==
  ASSUME NEW n \in Nat, NEW f, DOMAIN f = 1..n, f = [i \in 1..n |-> f[i]]
  PROVE  IsSeq(f) /\ Len(f) = n
<1>1. f \in Seq({f[i] : i \in 1..n})
  OBVIOUS
<1>2. Len(f) \in Nat /\ DOMAIN f = 1..Len(f)
  BY <1>1, LenProperties
<1>3. n = Len(f)
  BY <1>2
<1> QED
  BY <1>1, <1>3 DEF IsSeq

LEMMA SeqSingle == ASSUME NEW x PROVE IsSeq(<<x>>) /\ Len(<<x>>) = 1 /\ <<x>>[1] = x
<1>1. <<x>> \in Seq({x})
  OBVIOUS
<1> QED
  BY <1>1 DEF IsSeq
LEMMA SeqPair ==
  ASSUME NEW x, NEW y
  PROVE  IsSeq(<<x, y>>) /\ Len(<<x, y>>) = 2 /\ <<x, y>>[1] = x /\ <<x, y>>[2] = y
<1>1. <<x, y>> \in Seq({x, y})
  OBVIOUS
<1> QED
  BY <1>1 DEF IsSeq
LEMMA SeqTriple ==
  ASSUME NEW x, NEW y, NEW z
  PROVE  /\ IsSeq(<<x, y, z>>) /\ Len(<<x, y, z>>) = 3
         /\ <<x, y, z>>[1] = x /\ <<x, y, z>>[2] = y /\ <<x, y, z>>[3] = z
<1>1. <<x, y, z>> = Append(<<x, y>>, z)
  OBVIOUS
<1>2. <<x, y>> \in Seq({x, y, z}) /\ Len(<<x, y>>) = 2
  OBVIOUS
<1>3. <<x, y, z>> \in Seq({x, y, z})
  BY <1>1, <1>2, AppendProperties
<1> QED
  BY <1>3 DEF IsSeq
LEMMA SeqTriplet == ASSUME NEW x, NEW y, NEW z PROVE <<x>> \o <<y, z>> = <<x, y, z>>
<1> DEFINE s == <<x>> \o <<y, z>>
           t == <<x, y, z>>
<1>1. IsSeq(s) /\ Len(s) = 3 /\ s[1] = x /\ s[2] = y /\ s[3] = z
  <2>1. /\ IsSeq(<<x>>) /\ Len(<<x>>) = 1 /\ <<x>>[1] = x
        /\ IsSeq(<<y, z>>) /\ Len(<<y, z>>) = 2 /\ <<y, z>>[1] = y /\ <<y, z>>[2] = z
    BY SeqSingle, SeqPair
  <2> DEFINE u == <<x>>
             v == <<y, z>>
  <2> HIDE DEF u, v
  <2>2. IsSeq(u \o v) /\ Len(u \o v) = 3
    BY <2>1, SeqConcat DEF u, v
  <2>3. \A i \in 1..Len(u \o v) : (u \o v)[i] = IF i <= Len(u) THEN u[i] ELSE v[i - Len(u)]
    BY <2>1, SeqConcat DEF u, v
  <2>4. Len(u) = 1 /\ u[1] = x /\ v[1] = y /\ v[2] = z
    BY <2>1 DEF u, v
  <2>5. (u \o v)[1] = x /\ (u \o v)[2] = y /\ (u \o v)[3] = z
    BY <2>2, <2>3, <2>4
  <2> QED
    BY <2>2, <2>5 DEF u, v
<1>2. IsSeq(t) /\ Len(t) = 3 /\ t[1] = x /\ t[2] = y /\ t[3] = z
  BY SeqTriple
<1> HIDE DEF s, t
<1>3. PICK S, T : s \in Seq(S) /\ t \in Seq(T)
  BY <1>1, <1>2 DEF IsSeq
<1>4. \A i \in 1..3 : s[i] = t[i]
  BY <1>1, <1>2
<1>5. s = t
  BY <1>1, <1>2, <1>3, <1>4
<1> QED
  BY <1>5 DEF s, t

(* Items put one by one on a sequence.                                       *)
Extends(t, one, s) ==
  /\ IsSeq(one) /\ IsSeq(s) /\ IsSeq(t)
  /\ Len(one) = 1 /\ t[1] = one[1] /\ Len(t) = Len(s) + 1
  /\ \A i \in 1..Len(s) : t[i + 1] = s[i]

Above(s, base) == s \o base

LEMMA SeqExtended ==
  ASSUME NEW one, NEW s, NEW t, NEW base, Extends(t, one, s), IsSeq(base)
  PROVE  Above(t, base) = Above(one, Above(s, base))
<1> DEFINE a == one[1]
           l == t \o base
           m == s \o base
           r == one \o m
<1>1. /\ IsSeq(one) /\ IsSeq(s) /\ IsSeq(t) /\ Len(one) = 1 /\ one[1] = a /\ t[1] = a
      /\ Len(t) = Len(s) + 1 /\ \A i \in 1..Len(s) : t[i + 1] = s[i]
  BY DEF Extends
<1>2. /\ IsSeq(l) /\ Len(l) = Len(t) + Len(base)
      /\ \A i \in 1..Len(l) : l[i] = IF i <= Len(t) THEN t[i] ELSE base[i - Len(t)]
  BY <1>1, SeqConcat
<1>3. /\ IsSeq(m) /\ Len(m) = Len(s) + Len(base)
      /\ \A i \in 1..Len(m) : m[i] = IF i <= Len(s) THEN s[i] ELSE base[i - Len(s)]
  BY <1>1, SeqConcat
<1> HIDE DEF a, l, m
<1>4. /\ IsSeq(r) /\ Len(r) = 1 + Len(m)
      /\ \A i \in 1..Len(r) : r[i] = IF i <= 1 THEN a ELSE m[i - 1]
  <2>1. /\ IsSeq(r) /\ Len(r) = Len(one) + Len(m)
        /\ \A i \in 1..Len(r) : r[i] = IF i <= Len(one) THEN one[i] ELSE m[i - Len(one)]
    BY <1>1, <1>3, SeqConcat
  <2> HIDE DEF r
  <2>2. \A i \in 1..Len(r) : i <= 1 => one[i] = a
    BY <1>1
  <2> QED
    BY <1>1, <2>1, <2>2
<1> HIDE DEF r
<1>5. Len(s) \in Nat /\ Len(t) \in Nat /\ Len(base) \in Nat
  BY SeqParts
<1>6. Len(l) = Len(r)
  BY <1>1, <1>2, <1>3, <1>4, <1>5
<1>7. ASSUME NEW i \in 1..Len(l)
      PROVE  l[i] = r[i]
  <2>1. CASE i = 1
    BY <1>1, <1>2, <1>4, <1>5, <1>6, <2>1
  <2>2. CASE i # 1 /\ i <= Len(t)
    <3>1. i - 1 \in 1..Len(s) /\ i - 1 \in 1..Len(m) /\ i - 1 + 1 = i /\ i \in 1..Len(r)
      BY <1>1, <1>3, <1>5, <1>6, <2>2
    <3>2. r[i] = m[i - 1] /\ m[i - 1] = s[i - 1] /\ t[i] = s[i - 1]
      BY <1>1, <1>3, <1>4, <2>2, <3>1
    <3> QED
      BY <1>2, <2>2, <3>2
  <2>3. CASE i # 1 /\ ~(i <= Len(t))
    <3>1. i - 1 \in 1..Len(m) /\ i \in 1..Len(r) /\ ~(i - 1 <= Len(s)) /\ i - 1 - Len(s) = i - Len(t)
      BY <1>1, <1>2, <1>3, <1>5, <1>6, <2>3
    <3>2. l[i] = base[i - Len(t)]
      BY <1>2, <2>3
    <3>3. r[i] = m[i - 1]
      BY <1>4, <2>3, <3>1
    <3>4. m[i - 1] = base[i - 1 - Len(s)]
      BY <1>3, <3>1
    <3> QED
      BY <3>1, <3>2, <3>3, <3>4
  <2> QED
    BY <2>1, <2>2, <2>3
<1>8. l = r
  <2>1. PICK S, T : l \in Seq(S) /\ r \in Seq(T)
    BY <1>2, <1>4 DEF IsSeq
  <2>2. l \in Seq(S \cup T) /\ r \in Seq(S \cup T)
    BY <2>1
  <2> QED
    BY <1>6, <1>7, <2>2, SeqEqual
<1> QED
  BY <1>8 DEF Above, l, m, r
LEMMA TwoAbove ==
  ASSUME NEW x, NEW y, NEW top, NEW next, NEW base, NEW t,
         IsSeq(base), t = <<x, y>>, top = <<y>>, next = <<x>>
  PROVE  Above(t, base) = Above(next, Above(top, base))
<1>1. /\ IsSeq(next) /\ Len(next) = 1 /\ next[1] = x
      /\ IsSeq(top) /\ Len(top) = 1 /\ top[1] = y
      /\ IsSeq(t) /\ Len(t) = 2 /\ t[1] = x /\ t[2] = y
  BY SeqSingle, SeqPair
<1>2. \A i \in 1..Len(top) : t[i + 1] = top[i]
  BY <1>1
<1>3. Extends(t, next, top)
  BY <1>1, <1>2 DEF Extends
<1> QED
  BY <1>3, SeqExtended

LEMMA ThreeAbove ==
  ASSUME NEW x, NEW y, NEW z, NEW top, NEW next, NEW last, NEW base, NEW t,
         IsSeq(base), t = <<x, y, z>>, top = <<z>>, next = <<y>>, last = <<x>>
  PROVE  Above(t, base) = Above(last, Above(next, Above(top, base)))
<1> DEFINE s == <<y, z>>
<1>1. /\ IsSeq(s) /\ Len(s) = 2 /\ s[1] = y /\ s[2] = z
      /\ IsSeq(t) /\ Len(t) = 3 /\ t[1] = x /\ t[2] = y /\ t[3] = z
      /\ IsSeq(last) /\ Len(last) = 1 /\ last[1] = x
  BY SeqSingle, SeqPair, SeqTriple
<1>2. s = <<y, z>>
  OBVIOUS
<1> HIDE DEF s
<1>3. Above(s, base) = Above(next, Above(top, base))
  BY <1>2, TwoAbove
<1>4. \A i \in 1..Len(s) : t[i + 1] = s[i]
  BY <1>1
<1>5. Above(t, base) = Above(last, Above(s, base))
  <2>1. Extends(t, last, s)
    BY <1>1, <1>4 DEF Extends
  <2> QED
    BY <2>1, SeqExtended
<1> QED
  BY <1>3, <1>5
=============================================================================
