---------------------------- MODULE DataLemmas --------------------------------
(***************************************************************************)
(* Lemmas about numbers and sequences, for the proofs about the other      *)
(* modules.                                                                *)
(***************************************************************************)
EXTENDS Integers, Sequences, SequencesExt, SequenceTheorems,
        WellFoundedInduction, TLAPS

(***************************************************************************)
(* Induction.  The library states it for predicates; for a set of numbers  *)
(* it can be applied without one.                                          *)
(***************************************************************************)
Less == {p \in Nat \X Nat : p[1] < p[2]}

LEMMA LessWellFounded == IsWellFoundedOn(Less, Nat)
  BY NatLessThanWellFounded DEF OpToRel, Less

LEMMA SetInduction ==
    ASSUME NEW S \in SUBSET Nat, 0 \in S, \A n \in S : n + 1 \in S
    PROVE  S = Nat
  <1> SUFFICES ASSUME Nat \ S # {} PROVE FALSE
    OBVIOUS
  <1>1. \E x \in Nat \ S : \A y \in Nat \ S : <<y, x>> \notin Less
    BY LessWellFounded, WFMin
  <1>2. PICK x \in Nat \ S : \A y \in Nat \ S : <<y, x>> \notin Less
    BY <1>1
  <1>3. x - 1 \in Nat /\ <<x - 1, x>> \in Less
    <2>1. x # 0
      BY <1>2
    <2> QED BY <1>2, <2>1 DEF Less
  <1>4. x - 1 \in S
    BY <1>2, <1>3
  <1> QED BY <1>2, <1>3, <1>4
-------------------------------------------------------------------------------
(***************************************************************************)
(* Division with remainder.                                                *)
(***************************************************************************)

LEMMA Divided ==
    ASSUME NEW W \in Nat \ {0}, NEW a \in Int
    PROVE  /\ a = W * (a \div W) + (a % W)
           /\ a % W \in 0 .. W - 1
           /\ a \div W \in Int
  OBVIOUS

LEMMA DivUnique ==
    ASSUME NEW W \in Nat \ {0}, NEW q \in Int, NEW r \in 0 .. W - 1
    PROVE  (W * q + r) \div W = q /\ (W * q + r) % W = r
  <1> DEFINE a == W * q + r
             p == a \div W
             m == a % W
  <1>1. a \in Int /\ p \in Int /\ m \in 0 .. W - 1 /\ a = W * p + m
    BY Divided
  <1>2. W * q + r = W * p + m
    BY <1>1
  <1> HIDE DEF a, p, m
  <1>3. ~(p > q)
    <2> SUFFICES ASSUME p > q PROVE FALSE
      OBVIOUS
    <2>1. W * p >= W * (q + 1) /\ W * (q + 1) = W * q + W
      BY <1>1
    <2> QED BY <1>1, <1>2, <2>1
  <1>4. ~(p < q)
    <2> SUFFICES ASSUME p < q PROVE FALSE
      OBVIOUS
    <2>1. W * q >= W * (p + 1) /\ W * (p + 1) = W * p + W
      BY <1>1
    <2> QED BY <1>1, <1>2, <2>1
  <1>5. p = q
    BY <1>1, <1>3, <1>4
  <1> QED BY <1>1, <1>2, <1>5 DEF m, p, a

LEMMA DivBounds ==
    ASSUME NEW W \in Nat \ {0}, NEW a \in Int, NEW q \in Int
    PROVE  /\ W * q <= a => q <= a \div W
           /\ a < W * q => a \div W < q
  <1> DEFINE p == a \div W
             m == a % W
  <1>1. p \in Int /\ m \in 0 .. W - 1 /\ a = W * p + m
    BY Divided
  <1> HIDE DEF p, m
  <1>2. ASSUME W * q <= a, p < q PROVE FALSE
    <2>1. W * q >= W * (p + 1) /\ W * (p + 1) = W * p + W
      BY <1>1, <1>2
    <2> QED BY <1>1, <1>2, <2>1
  <1>3. ASSUME a < W * q, p >= q PROVE FALSE
    <2>1. W * p >= W * q
      BY <1>1, <1>3
    <2> QED BY <1>1, <1>3, <2>1
  <1>4. (W * q <= a => q <= p) /\ (a < W * q => p < q)
    BY <1>1, <1>2, <1>3
  <1> QED BY <1>4 DEF p
-------------------------------------------------------------------------------
(***************************************************************************)
(* Appending and removing.                                                 *)
(***************************************************************************)

\* What Append, Tail and Head do to a sequence of elements of S.
LEMMA Appended ==
    ASSUME NEW S, NEW s \in Seq(S), NEW x \in S
    PROVE  /\ Append(s, x) \in Seq(S)
           /\ Len(Append(s, x)) = Len(s) + 1
           /\ Append(s, x) # <<>>
           /\ ToSet(Append(s, x)) = ToSet(s) \cup {x}
  <1>1. /\ Append(s, x) \in Seq(S)
        /\ Len(Append(s, x)) = Len(s) + 1
        /\ Append(s, x) # <<>>
        /\ \A i \in 1 .. Len(s) : Append(s, x)[i] = s[i]
        /\ Append(s, x)[Len(s) + 1] = x
    BY AppendProperties
  <1>2. DOMAIN s = 1 .. Len(s) /\ DOMAIN Append(s, x) = 1 .. Len(s) + 1 /\ Len(s) \in Nat
    BY <1>1, LenProperties
  <1>3. ToSet(Append(s, x)) = ToSet(s) \cup {x}
    BY <1>1, <1>2 DEF ToSet
  <1> QED BY <1>1, <1>3

LEMMA Removed ==
    ASSUME NEW S, NEW s \in Seq(S), s # <<>>
    PROVE  /\ Head(s) \in S
           /\ Tail(s) \in Seq(S)
           /\ Len(Tail(s)) = Len(s) - 1
           /\ ToSet(s) = ToSet(Tail(s)) \cup {Head(s)}
  <1>1. /\ Head(s) \in S
        /\ Tail(s) \in Seq(S)
        /\ Len(Tail(s)) = Len(s) - 1
        /\ \A i \in 1 .. Len(Tail(s)) : Tail(s)[i] = s[i + 1]
    BY HeadTailProperties
  <1>2. /\ Len(s) \in Nat \ {0} /\ DOMAIN s = 1 .. Len(s)
        /\ DOMAIN Tail(s) = 1 .. Len(s) - 1 /\ Head(s) = s[1]
    BY <1>1, LenProperties, EmptySeq
  <1>3. ToSet(s) = ToSet(Tail(s)) \cup {Head(s)}
    <2>1. ASSUME NEW i \in 1 .. Len(s) PROVE s[i] \in ToSet(Tail(s)) \cup {Head(s)}
      <3>1. CASE i = 1
        BY <3>1, <1>2
      <3>2. CASE i # 1
        <4>1. i - 1 \in 1 .. Len(s) - 1 /\ Tail(s)[i - 1] = s[i]
          BY <3>2, <1>1, <1>2
        <4> QED BY <4>1, <1>2 DEF ToSet
      <3> QED BY <3>1, <3>2
    <2>2. ASSUME NEW i \in 1 .. Len(s) - 1 PROVE Tail(s)[i] \in ToSet(s)
      BY <1>1, <1>2 DEF ToSet
    <2> QED BY <2>1, <2>2, <1>2 DEF ToSet
  <1> QED BY <1>1, <1>3

LEMMA ToSetOfEmpty == ToSet(<<>>) = {}
  BY DEF ToSet

LEMMA ToSetTyped ==
    ASSUME NEW S, NEW s \in Seq(S)
    PROVE  ToSet(s) \subseteq S
  BY LenProperties, ElementOfSeq DEF ToSet

\* What RemoveAt leaves.
LEMMA RemovedAt ==
    ASSUME NEW S, NEW s \in Seq(S), NEW k \in 1 .. Len(s)
    PROVE  /\ RemoveAt(s, k) \in Seq(S)
           /\ Len(RemoveAt(s, k)) = Len(s) - 1
           /\ \A i \in 1 .. Len(s) - 1 :
                 RemoveAt(s, k)[i] = IF i < k THEN s[i] ELSE s[i + 1]
  <1>1. Len(s) \in Nat /\ \A i \in 1 .. Len(s) : s[i] \in S
    BY LenProperties, ElementOfSeq
  <1>2. /\ SubSeq(s, 1, k - 1) \in Seq(S) /\ Len(SubSeq(s, 1, k - 1)) = k - 1
        /\ \A i \in 1 .. k - 1 : SubSeq(s, 1, k - 1)[i] = s[i]
    <2>1. \A i \in 1 .. k - 1 : s[i] \in S
      BY <1>1
    <2>2. /\ SubSeq(s, 1, k - 1) \in Seq(S)
          /\ Len(SubSeq(s, 1, k - 1)) = IF 1 <= k - 1 THEN k - 1 - 1 + 1 ELSE 0
          /\ \A i \in 1 .. k - 1 - 1 + 1 : SubSeq(s, 1, k - 1)[i] = s[1 + i - 1]
      BY <2>1, SubSeqProperties
    <2> QED BY <2>2
  <1>3. /\ SubSeq(s, k + 1, Len(s)) \in Seq(S)
        /\ Len(SubSeq(s, k + 1, Len(s))) = Len(s) - k
        /\ \A i \in 1 .. Len(s) - k : SubSeq(s, k + 1, Len(s))[i] = s[k + i]
    <2>1. \A i \in k + 1 .. Len(s) : s[i] \in S
      BY <1>1
    <2>2. /\ SubSeq(s, k + 1, Len(s)) \in Seq(S)
          /\ Len(SubSeq(s, k + 1, Len(s))) =
                IF k + 1 <= Len(s) THEN Len(s) - (k + 1) + 1 ELSE 0
          /\ \A i \in 1 .. Len(s) - (k + 1) + 1 :
                SubSeq(s, k + 1, Len(s))[i] = s[k + 1 + i - 1]
      BY <1>1, <2>1, SubSeqProperties
    <2> QED BY <1>1, <2>2
  <1>4. ASSUME NEW t \in Seq(S), NEW u \in Seq(S),
               Len(t) = k - 1, \A i \in 1 .. k - 1 : t[i] = s[i],
               Len(u) = Len(s) - k, \A i \in 1 .. Len(s) - k : u[i] = s[k + i]
        PROVE  /\ t \o u \in Seq(S)
               /\ Len(t \o u) = Len(s) - 1
               /\ \A i \in 1 .. Len(s) - 1 :
                     (t \o u)[i] = IF i < k THEN s[i] ELSE s[i + 1]
    <2>1. /\ t \o u \in Seq(S) /\ Len(t \o u) = Len(t) + Len(u)
          /\ \A i \in 1 .. Len(t) + Len(u) :
                (t \o u)[i] = IF i <= Len(t) THEN t[i] ELSE u[i - Len(t)]
      BY ConcatProperties
    <2>2. ASSUME NEW i \in 1 .. Len(s) - 1
          PROVE  (t \o u)[i] = IF i < k THEN s[i] ELSE s[i + 1]
      <3>1. CASE i < k
        BY <3>1, <2>1, <1>1, <1>4
      <3>2. CASE i >= k
        <4>1. (t \o u)[i] = u[i - (k - 1)] /\ i - (k - 1) \in 1 .. Len(s) - k
          BY <3>2, <2>1, <1>1, <1>4
        <4>2. u[i - (k - 1)] = s[k + (i - (k - 1))] /\ k + (i - (k - 1)) = i + 1
          BY <4>1, <1>4
        <4> QED BY <3>2, <4>1, <4>2
      <3>3. i < k \/ i >= k
        BY <1>1
      <3> QED BY <3>1, <3>2, <3>3
    <2> QED BY <1>1, <1>4, <2>1, <2>2
  <1> QED BY <1>2, <1>3, <1>4 DEF RemoveAt

\* Removing the first element of the middle of three parts.
LEMMA RemovedInside ==
    ASSUME NEW S, NEW a \in Seq(S), NEW r \in Seq(S), NEW h \in Seq(S), r # <<>>
    PROVE  RemoveAt(a \o r \o h, Len(a) + 1) = a \o Tail(r) \o h
  <1>1. Len(a) \in Nat /\ Len(r) \in Nat \ {0} /\ Len(h) \in Nat
    BY LenProperties, EmptySeq
  <1>2. /\ Tail(r) \in Seq(S) /\ Len(Tail(r)) = Len(r) - 1
        /\ \A i \in 1 .. Len(r) - 1 : Tail(r)[i] = r[i + 1]
    BY HeadTailProperties
  <1>3. ASSUME NEW q \in Seq(S)
        PROVE  /\ a \o q \o h \in Seq(S)
               /\ Len(a \o q \o h) = Len(a) + Len(q) + Len(h)
               /\ \A i \in 1 .. Len(a) + Len(q) + Len(h) :
                     (a \o q \o h)[i] =
                        IF i <= Len(a) THEN a[i]
                        ELSE IF i <= Len(a) + Len(q) THEN q[i - Len(a)]
                        ELSE h[i - (Len(a) + Len(q))]
    <2>1. /\ a \o q \in Seq(S) /\ Len(a \o q) = Len(a) + Len(q)
          /\ \A i \in 1 .. Len(a) + Len(q) :
                (a \o q)[i] = IF i <= Len(a) THEN a[i] ELSE q[i - Len(a)]
      BY ConcatProperties
    <2>2. ASSUME NEW b \in Seq(S)
          PROVE  /\ b \o h \in Seq(S) /\ Len(b \o h) = Len(b) + Len(h)
                 /\ \A i \in 1 .. Len(b) + Len(h) :
                       (b \o h)[i] = IF i <= Len(b) THEN b[i] ELSE h[i - Len(b)]
      BY ConcatProperties
    <2>3. Len(q) \in Nat
      BY LenProperties
    <2> QED BY <2>1, <2>2, <2>3, <1>1
  <1>4. ASSUME NEW s \in Seq(S), NEW t \in Seq(S),
               Len(s) = Len(a) + Len(r) + Len(h),
               \A i \in 1 .. Len(a) + Len(r) + Len(h) :
                  s[i] = IF i <= Len(a) THEN a[i]
                         ELSE IF i <= Len(a) + Len(r) THEN r[i - Len(a)]
                         ELSE h[i - (Len(a) + Len(r))],
               Len(t) = Len(a) + (Len(r) - 1) + Len(h),
               \A i \in 1 .. Len(a) + (Len(r) - 1) + Len(h) :
                  t[i] = IF i <= Len(a) THEN a[i]
                         ELSE IF i <= Len(a) + (Len(r) - 1) THEN Tail(r)[i - Len(a)]
                         ELSE h[i - (Len(a) + (Len(r) - 1))]
        PROVE  RemoveAt(s, Len(a) + 1) = t
    <2>1. Len(a) + 1 \in 1 .. Len(s)
      BY <1>1, <1>4
    <2>2. /\ RemoveAt(s, Len(a) + 1) \in Seq(S)
          /\ Len(RemoveAt(s, Len(a) + 1)) = Len(s) - 1
          /\ \A i \in 1 .. Len(s) - 1 :
                RemoveAt(s, Len(a) + 1)[i] = IF i < Len(a) + 1 THEN s[i] ELSE s[i + 1]
      BY <2>1, RemovedAt
    <2>3. ASSUME NEW i \in 1 .. Len(s) - 1
          PROVE  RemoveAt(s, Len(a) + 1)[i] = t[i]
      <3>1. CASE i <= Len(a)
        BY <3>1, <2>2, <1>1, <1>4
      <3>2. CASE i > Len(a) /\ i <= Len(a) + (Len(r) - 1)
        <4>1. RemoveAt(s, Len(a) + 1)[i] = s[i + 1] /\ s[i + 1] = r[i + 1 - Len(a)]
          BY <3>2, <2>2, <1>1, <1>4
        <4>2. t[i] = Tail(r)[i - Len(a)] /\ i - Len(a) \in 1 .. Len(r) - 1
          BY <3>2, <1>1, <1>4
        <4>3. Tail(r)[i - Len(a)] = r[(i - Len(a)) + 1] /\ (i - Len(a)) + 1 = i + 1 - Len(a)
          BY <4>2, <1>1, <1>2
        <4> QED BY <4>1, <4>2, <4>3
      <3>3. CASE i > Len(a) + (Len(r) - 1)
        <4>1. RemoveAt(s, Len(a) + 1)[i] = s[i + 1]
          BY SMTT(30), <3>3, <2>2, <1>1, <1>4
        <4>2. s[i + 1] = h[i + 1 - (Len(a) + Len(r))]
          <5>1. /\ i + 1 \in 1 .. Len(a) + Len(r) + Len(h)
                /\ ~(i + 1 <= Len(a)) /\ ~(i + 1 <= Len(a) + Len(r))
            BY <3>3, <1>1, <1>4
          <5> QED BY <5>1, <1>4
        <4>3. t[i] = h[i - (Len(a) + (Len(r) - 1))]
          <5>1. /\ i \in 1 .. Len(a) + (Len(r) - 1) + Len(h)
                /\ ~(i <= Len(a)) /\ ~(i <= Len(a) + (Len(r) - 1))
            BY <3>3, <1>1, <1>4
          <5> QED BY <5>1, <1>4
        <4>4. i + 1 - (Len(a) + Len(r)) = i - (Len(a) + (Len(r) - 1))
          BY <1>1
        <4> QED BY <4>1, <4>2, <4>3, <4>4
      <3> QED BY <3>1, <3>2, <3>3, <1>1
    <2>4. Len(RemoveAt(s, Len(a) + 1)) = Len(t)
      BY <2>2, <1>1, <1>4
    <2> QED BY <2>2, <2>3, <2>4, SeqEqual
  <1>5. a \o r \o h \in Seq(S) /\ a \o Tail(r) \o h \in Seq(S)
    BY <1>2, <1>3
  <1>6. Len(Tail(r)) = Len(r) - 1
    BY <1>2
  <1> QED BY ZenonT(30), <1>2, <1>3, <1>4, <1>5

LEMMA RemovedLast ==
    ASSUME NEW S, NEW a \in Seq(S), NEW x \in S
    PROVE  RemoveAt(a \o <<x>>, Len(a) + 1) = a
  <1>1. /\ <<x>> \in Seq(S) /\ <<>> \in Seq(S) /\ Tail(<<x>>) = <<>> /\ <<x>> # <<>>
        /\ Len(<<x>>) = 1
    OBVIOUS
  <1>2. a \o <<x>> \in Seq(S)
    BY <1>1, ConcatProperties
  <1>3. (a \o <<x>>) \o <<>> = a \o <<x>> /\ (a \o <<>>) \o <<>> = a
    BY <1>1, <1>2, ConcatEmptySeq
  <1>4. RemoveAt((a \o <<x>>) \o <<>>, Len(a) + 1) = (a \o Tail(<<x>>)) \o <<>>
    BY ZenonT(30), <1>1, RemovedInside
  <1> QED BY <1>1, <1>3, <1>4

\* The two parts of a concatenation.
LEMMA SplitConcat ==
    ASSUME NEW S, NEW a \in Seq(S), NEW b \in Seq(S)
    PROVE  /\ SubSeq(a \o b, 1, Len(a)) = a
           /\ SubSeq(a \o b, Len(a) + 1, Len(a \o b)) = b
  <1>1. /\ a \o b \in Seq(S) /\ Len(a \o b) = Len(a) + Len(b)
        /\ Len(a) \in Nat /\ Len(b) \in Nat
        /\ \A i \in 1 .. Len(a) + Len(b) :
              (a \o b)[i] = IF i <= Len(a) THEN a[i] ELSE b[i - Len(a)]
    BY ConcatProperties, LenProperties
  <1>2. \A i \in 1 .. Len(a \o b) : (a \o b)[i] \in S
    BY <1>1, ElementOfSeq
  <1>3. SubSeq(a \o b, 1, Len(a)) = a
    <2>1. \A i \in 1 .. Len(a) : (a \o b)[i] \in S
      BY <1>1, <1>2
    <2>2. /\ SubSeq(a \o b, 1, Len(a)) \in Seq(S)
          /\ Len(SubSeq(a \o b, 1, Len(a))) = IF 1 <= Len(a) THEN Len(a) - 1 + 1 ELSE 0
          /\ \A i \in 1 .. Len(a) - 1 + 1 :
                SubSeq(a \o b, 1, Len(a))[i] = (a \o b)[1 + i - 1]
      BY <1>1, <2>1, SubSeqProperties
    <2>3. \A i \in 1 .. Len(a) : (a \o b)[1 + i - 1] = a[i]
      BY <1>1
    <2>4. ASSUME NEW t \in Seq(S), Len(t) = Len(a), \A i \in 1 .. Len(a) : t[i] = a[i]
          PROVE  t = a
      BY <2>4, SeqEqual
    <2> QED BY <1>1, <2>2, <2>3, <2>4
  <1>4. SubSeq(a \o b, Len(a) + 1, Len(a \o b)) = b
    <2>1. \A i \in Len(a) + 1 .. Len(a \o b) : (a \o b)[i] \in S
      BY <1>1, <1>2
    <2>2. /\ SubSeq(a \o b, Len(a) + 1, Len(a \o b)) \in Seq(S)
          /\ Len(SubSeq(a \o b, Len(a) + 1, Len(a \o b))) =
                IF Len(a) + 1 <= Len(a \o b) THEN Len(a \o b) - (Len(a) + 1) + 1 ELSE 0
          /\ \A i \in 1 .. Len(a \o b) - (Len(a) + 1) + 1 :
                SubSeq(a \o b, Len(a) + 1, Len(a \o b))[i] = (a \o b)[(Len(a) + 1) + i - 1]
      BY <1>1, <2>1, SubSeqProperties
    <2>3. ASSUME NEW i \in 1 .. Len(b) PROVE (a \o b)[(Len(a) + 1) + i - 1] = b[i]
      <3>1. /\ (Len(a) + 1) + i - 1 \in 1 .. Len(a) + Len(b)
            /\ ~((Len(a) + 1) + i - 1 <= Len(a))
            /\ (Len(a) + 1) + i - 1 - Len(a) = i
        BY <1>1
      <3> QED BY <1>1, <3>1
    <2>4. ASSUME NEW t \in Seq(S), Len(t) = Len(b), \A i \in 1 .. Len(b) : t[i] = b[i]
          PROVE  t = b
      BY <2>4, SeqEqual
    <2>5. Len(a \o b) - (Len(a) + 1) + 1 = Len(b)
      BY <1>1
    <2>6. Len(SubSeq(a \o b, Len(a) + 1, Len(a \o b))) = Len(b)
      BY <1>1, <2>2, <2>5
    <2> QED BY <2>2, <2>3, <2>4, <2>5, <2>6
  <1> QED BY <1>3, <1>4
-------------------------------------------------------------------------------
(***************************************************************************)
(* RemoveFirst.                                                            *)
(***************************************************************************)

LEMMA RemoveFirstAbsent ==
    ASSUME NEW S, NEW s \in Seq(S), NEW e, e \notin ToSet(s)
    PROVE  RemoveFirst(s, e) = s
  <1>1. \A i \in 1 .. Len(s) : s[i] # e
    BY LenProperties DEF ToSet
  <1> QED BY <1>1 DEF RemoveFirst

\* It is known by the place of the first occurrence.
LEMMA RemoveFirstAt ==
    ASSUME NEW S, NEW s \in Seq(S), NEW e, NEW k \in 1 .. Len(s), s[k] = e,
           \A i \in 1 .. k - 1 : s[i] # e
    PROVE  RemoveFirst(s, e) = RemoveAt(s, k)
  <1> DEFINE I == {i \in 1 .. Len(s) : s[i] = e}
  <1>1. Len(s) \in Nat
    BY LenProperties
  <1>2. k \in I /\ \A i \in I : k <= i
    BY <1>1
  <1>3. ASSUME NEW m \in I, \A i \in I : m <= i PROVE m = k
    BY <1>1, <1>2, <1>3
  <1>4. Min(I) = k
    <2> HIDE DEF I
    <2>1. \E m \in I : \A i \in I : m <= i
      BY <1>2
    <2> QED BY <1>3, <2>1 DEF Min
  <1>5. SelectInSeq(s, LAMBDA v : v = e) = k
    BY <1>2, <1>4 DEF SelectInSeq
  <1> QED BY <1>5 DEF RemoveFirst

LEMMA FirstOccurs ==
    ASSUME NEW S, NEW s \in Seq(S), NEW e \in ToSet(s)
    PROVE  \E k \in 1 .. Len(s) : s[k] = e /\ \A i \in 1 .. k - 1 : s[i] # e
  <1> DEFINE P == {n \in Nat : \A i \in 1 .. Len(s) : i <= n => s[i] # e}
  <1> SUFFICES ASSUME ~ \E k \in 1 .. Len(s) : s[k] = e /\ \A i \in 1 .. k - 1 : s[i] # e
               PROVE  FALSE
    OBVIOUS
  <1>1. Len(s) \in Nat /\ DOMAIN s = 1 .. Len(s)
    BY LenProperties
  <1>2. 0 \in P
    BY <1>1
  <1>3. ASSUME NEW n \in P PROVE n + 1 \in P
    <2>1. CASE n + 1 \in 1 .. Len(s)
      <3>1. \A i \in 1 .. n : s[i] # e
        BY <1>1, <2>1
      <3>2. s[n + 1] # e
        <4>1. n + 1 - 1 = n
          OBVIOUS
        <4> QED BY <2>1, <3>1, <4>1
      <3>3. ASSUME NEW i \in 1 .. Len(s), i <= n + 1 PROVE s[i] # e
        <4>1. i \in 1 .. n \/ i = n + 1
          BY <3>3
        <4> QED BY <3>1, <3>2, <4>1
      <3> QED BY <3>3
    <2>2. CASE n + 1 \notin 1 .. Len(s)
      BY <1>1, <2>2
    <2> QED BY <2>1, <2>2
  <1>4. P = Nat
    <2>1. P \in SUBSET Nat
      OBVIOUS
    <2> HIDE DEF P
    <2> QED BY <1>2, <1>3, <2>1, SetInduction
  <1>5. Len(s) \in P
    BY <1>1, <1>4
  <1> QED BY <1>1, <1>5 DEF ToSet

LEMMA RemoveFirstTyped ==
    ASSUME NEW S, NEW s \in Seq(S), NEW e
    PROVE  /\ RemoveFirst(s, e) \in Seq(S)
           /\ Len(RemoveFirst(s, e)) = IF e \in ToSet(s) THEN Len(s) - 1 ELSE Len(s)
  <1>1. CASE e \in ToSet(s)
    <2>1. PICK k \in 1 .. Len(s) : s[k] = e /\ \A i \in 1 .. k - 1 : s[i] # e
      BY <1>1, FirstOccurs
    <2>2. RemoveFirst(s, e) = RemoveAt(s, k)
      BY <2>1, RemoveFirstAt
    <2> QED BY <1>1, <2>2, RemovedAt
  <1>2. CASE e \notin ToSet(s)
    BY <1>2, RemoveFirstAbsent
  <1> QED BY <1>1, <1>2

LEMMA RemoveFirstIsHead ==
    ASSUME NEW S, NEW s \in Seq(S), s # <<>>
    PROVE  RemoveFirst(s, Head(s)) = Tail(s)
  <1>1. Len(s) \in Nat \ {0} /\ s[1] = Head(s)
    BY EmptySeq
  <1>2. RemoveFirst(s, Head(s)) = RemoveAt(s, 1)
    BY <1>1, RemoveFirstAt
  <1>3. RemoveAt(s, 1) \in Seq(S) /\ Len(RemoveAt(s, 1)) = Len(s) - 1
        /\ \A i \in 1 .. Len(s) - 1 : RemoveAt(s, 1)[i] = s[i + 1]
    <2>1. 1 \in 1 .. Len(s)
      BY <1>1
    <2> QED BY <1>1, <2>1, RemovedAt
  <1>4. Tail(s) \in Seq(S) /\ Len(Tail(s)) = Len(s) - 1
        /\ \A i \in 1 .. Len(s) - 1 : Tail(s)[i] = s[i + 1]
    BY HeadTailProperties
  <1>5. RemoveAt(s, 1) = Tail(s)
    BY <1>3, <1>4, SeqEqual
  <1> QED BY <1>2, <1>5

\* An element before the first occurrence is kept as the head.
LEMMA RemoveFirstInTail ==
    ASSUME NEW S, NEW s \in Seq(S), NEW e, s # <<>>, Head(s) # e
    PROVE  /\ RemoveFirst(s, e) # <<>>
           /\ Head(RemoveFirst(s, e)) = Head(s)
           /\ Tail(RemoveFirst(s, e)) = RemoveFirst(Tail(s), e)
  <1>1. /\ Len(s) \in Nat \ {0} /\ s[1] = Head(s) /\ Head(s) \in S
        /\ Tail(s) \in Seq(S) /\ Len(Tail(s)) = Len(s) - 1
        /\ \A i \in 1 .. Len(s) - 1 : Tail(s)[i] = s[i + 1]
        /\ ToSet(s) = ToSet(Tail(s)) \cup {Head(s)}
    BY EmptySeq, HeadTailProperties, Removed
  <1>2. CASE e \notin ToSet(s)
    <2>1. e \notin ToSet(Tail(s))
      BY <1>1, <1>2
    <2>2. RemoveFirst(s, e) = s /\ RemoveFirst(Tail(s), e) = Tail(s)
      BY <1>1, <1>2, <2>1, RemoveFirstAbsent
    <2> QED BY <2>2
  <1>3. CASE e \in ToSet(s)
    <2>1. PICK k \in 1 .. Len(s) : s[k] = e /\ \A i \in 1 .. k - 1 : s[i] # e
      BY <1>3, FirstOccurs
    <2>2. k \in 2 .. Len(s) /\ k - 1 \in 1 .. Len(Tail(s))
      BY <1>1, <2>1
    <2>3. RemoveFirst(s, e) = RemoveAt(s, k)
      BY <2>1, RemoveFirstAt
    <2>4. RemoveFirst(Tail(s), e) = RemoveAt(Tail(s), k - 1)
      <3>1. Tail(s)[k - 1] = e
        <4>1. Tail(s)[k - 1] = s[(k - 1) + 1] /\ (k - 1) + 1 = k
          BY <1>1, <2>2
        <4> QED BY <2>1, <4>1
      <3>2. ASSUME NEW i \in 1 .. (k - 1) - 1 PROVE Tail(s)[i] # e
        <4>1. i \in 1 .. Len(s) - 1 /\ i + 1 \in 1 .. k - 1
          BY <1>1, <2>2
        <4> QED BY <1>1, <2>1, <4>1
      <3> QED BY ZenonT(30), <1>1, <2>2, <3>1, <3>2, RemoveFirstAt
    <2>5. ASSUME NEW t \in Seq(S), NEW u \in Seq(S),
                 Len(t) = Len(s) - 1,
                 \A i \in 1 .. Len(s) - 1 : t[i] = IF i < k THEN s[i] ELSE s[i + 1],
                 Len(u) = Len(Tail(s)) - 1,
                 \A i \in 1 .. Len(Tail(s)) - 1 :
                    u[i] = IF i < k - 1 THEN Tail(s)[i] ELSE Tail(s)[i + 1]
          PROVE  t # <<>> /\ Head(t) = Head(s) /\ Tail(t) = u
      <3>1. Len(t) \in Nat \ {0} /\ t[1] = s[1]
        BY <1>1, <2>2, <2>5
      <3>2. t # <<>> /\ Head(t) = Head(s)
        BY <1>1, <3>1, EmptySeq
      <3>3. Tail(t) \in Seq(S) /\ Len(Tail(t)) = Len(t) - 1
            /\ \A i \in 1 .. Len(t) - 1 : Tail(t)[i] = t[i + 1]
        BY <3>2, HeadTailProperties
      <3>4. ASSUME NEW i \in 1 .. Len(Tail(t)) PROVE Tail(t)[i] = u[i]
        <4>1. Tail(t)[i] = t[i + 1] /\ i \in 1 .. Len(s) - 2
          BY <1>1, <2>5, <3>1, <3>3
        <4>2. t[i + 1] = IF i + 1 < k THEN s[i + 1] ELSE s[i + 1 + 1]
          BY <1>1, <2>5, <4>1
        <4>3. u[i] = IF i < k - 1 THEN Tail(s)[i] ELSE Tail(s)[i + 1]
          BY <1>1, <2>5, <4>1
        <4>4. Tail(s)[i] = s[i + 1] /\ Tail(s)[i + 1] = s[i + 1 + 1]
          BY <1>1, <4>1
        <4>5. i + 1 < k <=> i < k - 1
          OBVIOUS
        <4> QED BY <4>1, <4>2, <4>3, <4>4, <4>5
      <3>5. Len(Tail(t)) = Len(u)
        BY <1>1, <2>5, <3>3
      <3> QED BY <3>2, <3>3, <3>4, <3>5, SeqEqual
    <2>6. /\ RemoveAt(s, k) \in Seq(S) /\ Len(RemoveAt(s, k)) = Len(s) - 1
          /\ \A i \in 1 .. Len(s) - 1 :
                RemoveAt(s, k)[i] = IF i < k THEN s[i] ELSE s[i + 1]
      BY RemovedAt
    <2>7. /\ RemoveAt(Tail(s), k - 1) \in Seq(S)
          /\ Len(RemoveAt(Tail(s), k - 1)) = Len(Tail(s)) - 1
          /\ \A i \in 1 .. Len(Tail(s)) - 1 :
                RemoveAt(Tail(s), k - 1)[i] =
                   IF i < k - 1 THEN Tail(s)[i] ELSE Tail(s)[i + 1]
      BY <1>1, <2>2, RemovedAt
    <2> QED BY <2>3, <2>4, <2>5, <2>6, <2>7
  <1> QED BY <1>2, <1>3

LEMMA RemoveFirstAppended ==
    ASSUME NEW S, NEW s \in Seq(S), NEW e, NEW x \in S, x # e
    PROVE  RemoveFirst(Append(s, x), e) = Append(RemoveFirst(s, e), x)
  <1>1. /\ Append(s, x) \in Seq(S) /\ Len(Append(s, x)) = Len(s) + 1 /\ Len(s) \in Nat
        /\ \A i \in 1 .. Len(s) : Append(s, x)[i] = s[i]
        /\ Append(s, x)[Len(s) + 1] = x
        /\ ToSet(Append(s, x)) = ToSet(s) \cup {x}
    BY AppendProperties, LenProperties, Appended
  <1>2. CASE e \notin ToSet(s)
    <2>1. e \notin ToSet(Append(s, x))
      BY <1>1, <1>2
    <2>2. RemoveFirst(s, e) = s /\ RemoveFirst(Append(s, x), e) = Append(s, x)
      BY <1>1, <1>2, <2>1, RemoveFirstAbsent
    <2> QED BY <2>2
  <1>3. CASE e \in ToSet(s)
    <2>1. PICK k \in 1 .. Len(s) : s[k] = e /\ \A i \in 1 .. k - 1 : s[i] # e
      BY <1>3, FirstOccurs
    <2>2. RemoveFirst(s, e) = RemoveAt(s, k)
      BY <2>1, RemoveFirstAt
    <2>3. RemoveFirst(Append(s, x), e) = RemoveAt(Append(s, x), k)
      <3>1. k \in 1 .. Len(Append(s, x)) /\ Append(s, x)[k] = e
            /\ \A i \in 1 .. k - 1 : Append(s, x)[i] # e
        BY <1>1, <2>1
      <3> QED BY ZenonT(30), <1>1, <3>1, RemoveFirstAt
    <2>4. /\ RemoveAt(s, k) \in Seq(S) /\ Len(RemoveAt(s, k)) = Len(s) - 1
          /\ \A i \in 1 .. Len(s) - 1 :
                RemoveAt(s, k)[i] = IF i < k THEN s[i] ELSE s[i + 1]
      BY RemovedAt
    <2>5. /\ RemoveAt(Append(s, x), k) \in Seq(S)
          /\ Len(RemoveAt(Append(s, x), k)) = Len(s)
          /\ \A i \in 1 .. Len(s) :
                RemoveAt(Append(s, x), k)[i] =
                   IF i < k THEN Append(s, x)[i] ELSE Append(s, x)[i + 1]
      <3>1. k \in 1 .. Len(Append(s, x)) /\ Len(Append(s, x)) - 1 = Len(s)
        BY <1>1
      <3> QED BY <1>1, <3>1, RemovedAt
    <2>6. ASSUME NEW t \in Seq(S), NEW u \in Seq(S), Len(t) = Len(s) - 1,
                 \A i \in 1 .. Len(s) - 1 : t[i] = IF i < k THEN s[i] ELSE s[i + 1],
                 Len(u) = Len(s),
                 \A i \in 1 .. Len(s) :
                    u[i] = IF i < k THEN Append(s, x)[i] ELSE Append(s, x)[i + 1]
          PROVE  u = Append(t, x)
      <3>1. /\ Append(t, x) \in Seq(S) /\ Len(Append(t, x)) = Len(t) + 1
            /\ \A i \in 1 .. Len(t) : Append(t, x)[i] = t[i]
            /\ Append(t, x)[Len(t) + 1] = x
        BY AppendProperties
      <3>2. ASSUME NEW i \in 1 .. Len(s) PROVE u[i] = Append(t, x)[i]
        <4>1. CASE i = Len(s)
          BY <1>1, <2>6, <3>1, <4>1
        <4>2. CASE i # Len(s)
          <5>1. i \in 1 .. Len(s) - 1 /\ i \in 1 .. Len(t) /\ i + 1 \in 1 .. Len(s)
            BY <1>1, <2>6, <4>2
          <5>2. Append(t, x)[i] = IF i < k THEN s[i] ELSE s[i + 1]
            BY <2>6, <3>1, <5>1
          <5> QED BY <1>1, <2>6, <5>1, <5>2
        <4> QED BY <4>1, <4>2
      <3>3. Len(u) = Len(Append(t, x))
        BY <1>1, <2>6, <3>1
      <3> QED BY <2>6, <3>1, <3>2, <3>3, SeqEqual
    <2> QED BY <2>2, <2>3, <2>4, <2>5, <2>6
  <1> QED BY <1>2, <1>3

LEMMA RemoveFirstOfAppended ==
    ASSUME NEW S, NEW s \in Seq(S), NEW e \in S, e \notin ToSet(s)
    PROVE  RemoveFirst(Append(s, e), e) = s
  <1>1. /\ Append(s, e) \in Seq(S) /\ Len(Append(s, e)) = Len(s) + 1 /\ Len(s) \in Nat
        /\ \A i \in 1 .. Len(s) : Append(s, e)[i] = s[i]
        /\ Append(s, e)[Len(s) + 1] = e
    BY AppendProperties, LenProperties
  <1>2. \A i \in 1 .. Len(s) : s[i] # e
    BY LenProperties DEF ToSet
  <1>3. RemoveFirst(Append(s, e), e) = RemoveAt(Append(s, e), Len(s) + 1)
    <2>1. Len(s) + 1 \in 1 .. Len(Append(s, e))
          /\ \A i \in 1 .. (Len(s) + 1) - 1 : Append(s, e)[i] # e
      BY <1>1, <1>2
    <2> QED BY <1>1, <2>1, RemoveFirstAt
  <1>4. Append(s, e) = s \o <<e>>
    BY AppendIsConcat
  <1> QED BY <1>3, <1>4, RemovedLast
-------------------------------------------------------------------------------
(***************************************************************************)
(* FlattenSeq, from its recursive definition.                              *)
(***************************************************************************)

\* f is the function by which FlattenSeq is defined, for the first n of seqs.
Flattens(f, seqs, n) ==
    f = [i \in 1 .. n |-> IF i = 1 THEN seqs[i] ELSE f[i - 1] \o seqs[i]]

LEMMA FlattensAt ==
    ASSUME NEW f, NEW seqs, NEW n \in Nat, Flattens(f, seqs, n), NEW i \in 1 .. n
    PROVE  f[i] = IF i = 1 THEN seqs[i] ELSE f[i - 1] \o seqs[i]
  BY Zenon DEF Flattens

LEMMA FlattensExists ==
    ASSUME NEW seqs, NEW n \in Nat
    PROVE  \E f : Flattens(f, seqs, n)
  <1> DEFINE P == {k \in Nat : \E f : Flattens(f, seqs, k)}
  <1>1. 0 \in P
    <2>1. Flattens([i \in 1 .. 0 |-> 0], seqs, 0)
      BY DEF Flattens
    <2> QED BY <2>1
  <1>2. ASSUME NEW k \in P PROVE k + 1 \in P
    <2>1. PICK f : Flattens(f, seqs, k)
      OBVIOUS
    <2>2. ASSUME NEW g,
                 g = [i \in 1 .. k + 1 |->
                        IF i = 1 THEN seqs[i]
                        ELSE IF i = k + 1 THEN f[k] \o seqs[i] ELSE f[i]]
          PROVE  Flattens(g, seqs, k + 1)
      <3>1. \A i \in 1 .. k : f[i] = IF i = 1 THEN seqs[i] ELSE f[i - 1] \o seqs[i]
        BY <2>1, FlattensAt
      <3>2. \A i \in 1 .. k : g[i] = f[i]
        BY <2>2, <3>1
      <3>3. ASSUME NEW i \in 1 .. k + 1, i # 1
            PROVE  (IF i = k + 1 THEN f[k] \o seqs[i] ELSE f[i]) = g[i - 1] \o seqs[i]
        <4>1. i - 1 \in 1 .. k /\ g[i - 1] = f[i - 1]
          BY <3>2, <3>3
        <4>2. CASE i = k + 1
          <5>1. i - 1 = k
            BY <4>2
          <5> QED BY <4>1, <4>2, <5>1
        <4>3. CASE i # k + 1
          <5>1. i \in 1 .. k
            BY <4>3
          <5>2. f[i] = f[i - 1] \o seqs[i]
            BY <3>1, <3>3, <5>1
          <5> QED BY <4>1, <4>3, <5>2
        <4> QED BY <4>2, <4>3
      <3>4. g = [i \in 1 .. k + 1 |-> IF i = 1 THEN seqs[i] ELSE g[i - 1] \o seqs[i]]
        BY <2>2, <3>3, Zenon
      <3> QED BY <3>4, Zenon DEF Flattens
    <2>3. \E g : g = [i \in 1 .. k + 1 |->
                        IF i = 1 THEN seqs[i]
                        ELSE IF i = k + 1 THEN f[k] \o seqs[i] ELSE f[i]]
      OBVIOUS
    <2>4. \E g : Flattens(g, seqs, k + 1)
      BY <2>2, <2>3, Zenon
    <2> QED BY <2>4
  <1> HIDE DEF P
  <1>3. P \in SUBSET Nat
    BY DEF P
  <1>4. P = Nat
    BY <1>1, <1>2, <1>3, SetInduction
  <1> QED BY <1>4 DEF P

LEMMA FlattensUnique ==
    ASSUME NEW s, NEW t, NEW f, NEW g, NEW n \in Nat, NEW m \in Nat, n <= m,
           Flattens(f, s, n), Flattens(g, t, m), \A i \in 1 .. n : s[i] = t[i]
    PROVE  \A i \in 1 .. n : f[i] = g[i]
  <1> DEFINE P == {k \in Nat : k \in 1 .. n => f[k] = g[k]}
  <1>1. 0 \in P
    OBVIOUS
  <1>2. ASSUME NEW k \in P PROVE k + 1 \in P
    <2> SUFFICES ASSUME k + 1 \in 1 .. n PROVE f[k + 1] = g[k + 1]
      OBVIOUS
    <2>1. k + 1 \in 1 .. m /\ s[k + 1] = t[k + 1] /\ k + 1 - 1 = k
      OBVIOUS
    <2>2. f[k + 1] = IF k + 1 = 1 THEN s[k + 1] ELSE f[k + 1 - 1] \o s[k + 1]
      BY FlattensAt
    <2>3. g[k + 1] = IF k + 1 = 1 THEN t[k + 1] ELSE g[k + 1 - 1] \o t[k + 1]
      BY <2>1, FlattensAt
    <2>4. k + 1 # 1 => f[k] = g[k]
      OBVIOUS
    <2> QED BY <2>1, <2>2, <2>3, <2>4
  <1>3. P \in SUBSET Nat
    OBVIOUS
  <1> HIDE DEF P
  <1>4. P = Nat
    BY <1>1, <1>2, <1>3, SetInduction
  <1> QED BY <1>4 DEF P

\* FlattenSeq by that function.
LEMMA FlattenedBy ==
    ASSUME NEW seqs, Len(seqs) \in Nat \ {0}
    PROVE  \E f : Flattens(f, seqs, Len(seqs)) /\ FlattenSeq(seqs) = f[Len(seqs)]
  <1>1. \E f : Flattens(f, seqs, Len(seqs))
    BY FlattensExists
  <1>2. Flattens(CHOOSE f : Flattens(f, seqs, Len(seqs)), seqs, Len(seqs))
    BY <1>1, Zenon
  <1>3. FlattenSeq(seqs) = (CHOOSE f : Flattens(f, seqs, Len(seqs)))[Len(seqs)]
    <2>1. Len(seqs) # 0
      OBVIOUS
    <2> QED BY <2>1, Zenon DEF FlattenSeq, Flattens
  <1> QED BY <1>2, <1>3

\* One more sequence is concatenated at the end.
LEMMA FlattenAppended ==
    ASSUME NEW S, NEW seqs \in Seq(Seq(S)), NEW x \in Seq(S)
    PROVE  FlattenSeq(Append(seqs, x)) = FlattenSeq(seqs) \o x
  <1>1. ASSUME NEW n \in Nat, n = Len(seqs), NEW all, all = Append(seqs, x)
        PROVE  FlattenSeq(all) = FlattenSeq(seqs) \o x
    <2>1. /\ Len(all) = n + 1
          /\ \A i \in 1 .. n : all[i] = seqs[i]
          /\ all[n + 1] = x
      BY <1>1, AppendProperties
    <2>2. PICK G : Flattens(G, all, n + 1) /\ FlattenSeq(all) = G[n + 1]
      BY <2>1, FlattenedBy
    <2>3. G[n + 1] = IF n + 1 = 1 THEN all[n + 1] ELSE G[n + 1 - 1] \o all[n + 1]
      BY <2>2, FlattensAt
    <2>4. CASE n = 0
      <3>1. seqs = <<>> /\ FlattenSeq(seqs) = <<>>
        BY <2>4, <1>1, EmptySeq DEF FlattenSeq
      <3>2. <<>> \o x = x
        BY ConcatEmptySeq
      <3> QED BY <2>1, <2>2, <2>3, <2>4, <3>1, <3>2
    <2>5. CASE n # 0
      <3>1. PICK F : Flattens(F, seqs, n) /\ FlattenSeq(seqs) = F[n]
        BY <1>1, <2>5, FlattenedBy
      <3>2. F[n] = G[n]
        <4>1. \A i \in 1 .. n : F[i] = G[i]
          BY <2>1, <2>2, <3>1, FlattensUnique
        <4> QED BY <4>1, <2>5
      <3>3. n + 1 - 1 = n /\ n + 1 # 1
        BY <2>5
      <3> QED BY <2>1, <2>2, <2>3, <3>1, <3>2, <3>3
    <2> QED BY <2>4, <2>5
  <1> QED BY <1>1, LenProperties
===============================================================================
