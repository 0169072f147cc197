------------------------------ MODULE DataLemmas ------------------------------
(***************************************************************************)
(* Queues without repetition and what concatenation does to them, for the  *)
(* proofs about the memory manager and the DNS proxy; least elements, for  *)
(* those about DHCP and the NAT; recursion along a range of numbers, for   *)
(* the DHCP server's loops, names and queues; insertion and removal, for   *)
(* the list of the DHCP server.                                            *)
(***************************************************************************)
EXTENDS SequencesExt, SequenceTheorems, FiniteSetTheorems, TLAPS

\* Appending a new element keeps a queue free of repetition.
LEMMA PushLemma ==
  ASSUME NEW S, NEW s \in Seq(S), NEW x \in S,
         IsInjective(s), x \notin Range(s)
  PROVE  /\ Append(s, x) \in Seq(S)
         /\ IsInjective(Append(s, x))
         /\ Range(Append(s, x)) = Range(s) \cup {x}
         /\ Len(Append(s, x)) = Len(s) + 1
<1>1. /\ Append(s, x) \in Seq(S)
      /\ Len(Append(s, x)) = Len(s) + 1
      /\ \A i \in 1 .. Len(s) : Append(s, x)[i] = s[i]
      /\ Append(s, x)[Len(s) + 1] = x
      /\ DOMAIN s = 1 .. Len(s)
      /\ DOMAIN Append(s, x) = 1 .. Len(s) + 1
      /\ Len(s) \in Nat
  BY AppendProperties, LenProperties
<1>2. IsInjective(Append(s, x))
  BY <1>1 DEF IsInjective, Range
<1>3. Range(Append(s, x)) = Range(s) \cup {x}
  BY <1>1 DEF Range
<1> QED BY <1>1, <1>2, <1>3

\* Taking the head removes exactly that element.
LEMMA PopLemma ==
  ASSUME NEW S, NEW s \in Seq(S), IsInjective(s), s # <<>>
  PROVE  /\ Head(s) \in S /\ Head(s) \in Range(s)
         /\ Tail(s) \in Seq(S)
         /\ IsInjective(Tail(s))
         /\ Range(Tail(s)) = Range(s) \ {Head(s)}
         /\ Len(s) \in Nat \ {0}
         /\ Len(Tail(s)) = Len(s) - 1
<1>1. /\ Head(s) \in S
      /\ Head(s) = s[1]
      /\ Tail(s) \in Seq(S)
      /\ Len(Tail(s)) = Len(s) - 1
      /\ \A i \in 1 .. Len(s) - 1 : Tail(s)[i] = s[i + 1]
      /\ DOMAIN s = 1 .. Len(s)
      /\ DOMAIN Tail(s) = 1 .. Len(s) - 1
      /\ Len(s) \in Nat \ {0}
  BY HeadTailProperties, LenProperties, EmptySeq
<1>2. IsInjective(Tail(s))
  BY <1>1 DEF IsInjective
<1>3. Range(Tail(s)) \subseteq Range(s) \ {Head(s)}
  BY <1>1 DEF IsInjective, Range
<1>4. Range(s) \ {Head(s)} \subseteq Range(Tail(s))
  <2> SUFFICES ASSUME NEW i \in DOMAIN s, s[i] # s[1]
               PROVE  s[i] \in Range(Tail(s))
    BY <1>1 DEF Range
  <2>1. i - 1 \in DOMAIN Tail(s) /\ Tail(s)[i - 1] = s[i]
    BY <1>1
  <2> QED BY <2>1 DEF Range
<1>5. Head(s) \in Range(s)
  BY <1>1 DEF Range
<1>6. Range(Tail(s)) = Range(s) \ {Head(s)}
  BY <1>3, <1>4
<1> QED BY <1>1, <1>2, <1>5, <1>6

\* A set of natural numbers that is not empty has a least element.
LEMMA MinExists ==
  ASSUME NEW S \in SUBSET Nat, S # {}
  PROVE  \E m \in S : \A k \in S : m <= k
<1> DEFINE T == {0 .. k : k \in S}
<1>1. T \subseteq FiniteSubsetsOf(Nat) /\ T # {}
  <2>1. ASSUME NEW k \in S PROVE 0 .. k \in FiniteSubsetsOf(Nat)
    <3>1. k \in Int /\ 0 \in Int /\ 0 .. k \in SUBSET Nat
      OBVIOUS
    <3>2. IsFiniteSet(0 .. k)
      BY <3>1, FS_Interval
    <3> QED BY <3>1, <3>2 DEF FiniteSubsetsOf
  <2> QED BY <2>1
<1>2. PICK x \in T : \A y \in T : ~ (<<y, x>> \in StrictSubsetOrdering(Nat))
  BY ONLY <1>1, FS_StrictSubsetOrderingWellFounded, WFMin
<1>3. PICK m \in S : x = 0 .. m
  BY <1>2
<1>4. ASSUME NEW k \in S, k < m PROVE FALSE
  <2>1. 0 .. k \in T /\ 0 .. k \subseteq 0 .. m /\ m \in 0 .. m /\ m \notin 0 .. k
    BY <1>4
  <2>2. 0 .. k \in SUBSET Nat /\ 0 .. m \in SUBSET Nat
    OBVIOUS
  <2>3. <<0 .. k, 0 .. m>> \in StrictSubsetOrdering(Nat)
    BY <2>1, <2>2 DEF StrictSubsetOrdering
  <2> QED BY <2>1, <2>3, <1>2, <1>3
<1> QED BY <1>4

\* A set that has 0 and the successor of each of its numbers below n has all
\* numbers up to n.
LEMMA UpTo ==
  ASSUME NEW n \in Nat, NEW S, 0 \in S,
         \A k \in 1 .. n : k - 1 \in S => k \in S
  PROVE  \A k \in 0 .. n : k \in S
<1> DEFINE Missing == {k \in 0 .. n : k \notin S}
<1>1. SUFFICES ASSUME Missing # {} PROVE FALSE
  OBVIOUS
<1>2. Missing \in SUBSET Nat
  OBVIOUS
<1>3. PICK m \in Missing : \A k \in Missing : m <= k
  BY <1>1, <1>2, MinExists
<1>4. m \in 1 .. n /\ m - 1 \in 0 .. n /\ m - 1 \notin Missing
  BY <1>3
<1> QED BY <1>3, <1>4

\* A loop over 1 .. n starts with b, and F[i] is what its i-th turn does to a
\* value of T; f is the history of those values.
Turns(n, T) == [1 .. n -> [T -> T]]
IsHistory(f, n, T, b, F) ==
  /\ f \in [0 .. n -> T] /\ f[0] = b
  /\ \A i \in 1 .. n : f[i] = F[i][f[i - 1]]

LEMMA LoopHistory ==
  ASSUME NEW T, NEW n \in Nat, NEW b \in T, NEW F \in Turns(n, T)
  PROVE  \E f : IsHistory(f, n, T, b, F)
<1> DEFINE S == {k \in 0 .. n : \E f : IsHistory(f, k, T, b, F)}
<1>1. 0 \in S
  <2>1. IsHistory([i \in 0 .. 0 |-> b], 0, T, b, F)
    BY DEF IsHistory
  <2> QED BY <2>1
<1>2. ASSUME NEW k \in 1 .. n, k - 1 \in S PROVE k \in S
  <2>1. PICK g : IsHistory(g, k - 1, T, b, F)
    BY <1>2
  <2> DEFINE f == [i \in 0 .. k |-> IF i = k THEN F[k][g[k - 1]] ELSE g[i]]
  <2>2. F[k][g[k - 1]] \in T
    BY <2>1 DEF IsHistory, Turns
  <2>3. f \in [0 .. k -> T] /\ f[0] = b
    BY <2>1, <2>2 DEF IsHistory
  <2>4. \A i \in 1 .. k : f[i] = F[i][f[i - 1]]
    BY <2>1 DEF IsHistory
  <2>5. IsHistory(f, k, T, b, F)
    BY <2>3, <2>4 DEF IsHistory
  <2> HIDE DEF f
  <2> QED BY <2>5
<1>3. n \in S
  <2> HIDE DEF S
  <2>1. \A k \in 1 .. n : k - 1 \in S => k \in S
    BY <1>2
  <2>2. \A k \in 0 .. n : k \in S
    BY ONLY n \in Nat, <1>1, <2>1, UpTo
  <2> QED BY <2>2
<1> QED BY <1>3

\* Insertion moves the elements from k on up by one.
LEMMA InsertAtLemma ==
  ASSUME NEW S, NEW s \in Seq(S), NEW k \in 1 .. Len(s) + 1, NEW e \in S
  PROVE  /\ InsertAt(s, k, e) \in Seq(S)
         /\ Len(InsertAt(s, k, e)) = Len(s) + 1
         /\ InsertAt(s, k, e)[k] = e
         /\ \A i \in 1 .. k - 1 : InsertAt(s, k, e)[i] = s[i]
         /\ \A i \in k .. Len(s) : InsertAt(s, k, e)[i + 1] = s[i]
<1> DEFINE a == SubSeq(s, 1, k - 1)
           m == <<e>>
           z == SubSeq(s, k, Len(s))
<1>0. Len(s) \in Nat /\ \A i \in 1 .. Len(s) : s[i] \in S
  BY LenProperties, ElementOfSeq
<1>1. /\ a \in Seq(S) /\ Len(a) = k - 1
      /\ \A i \in 1 .. k - 1 : a[i] = s[i]
  <2>1. /\ SubSeq(s, 1, k - 1) \in Seq(S)
        /\ Len(SubSeq(s, 1, k - 1)) = IF 1 <= k - 1 THEN (k - 1) - 1 + 1 ELSE 0
        /\ \A i \in 1 .. (k - 1) - 1 + 1 :
             SubSeq(s, 1, k - 1)[i] = s[1 + i - 1]
    BY <1>0, SubSeqProperties
  <2> QED BY <1>0, <2>1
<1>2. /\ z \in Seq(S) /\ Len(z) = Len(s) + 1 - k
      /\ \A i \in 1 .. Len(s) + 1 - k : z[i] = s[k + i - 1]
  <2>1. /\ SubSeq(s, k, Len(s)) \in Seq(S)
        /\ Len(SubSeq(s, k, Len(s))) = IF k <= Len(s) THEN Len(s) - k + 1 ELSE 0
        /\ \A i \in 1 .. Len(s) - k + 1 :
             SubSeq(s, k, Len(s))[i] = s[k + i - 1]
    BY <1>0, SubSeqProperties
  <2> QED BY <1>0, <2>1
<1>3. m \in Seq(S) /\ Len(m) = 1 /\ m[1] = e
  OBVIOUS
<1>4. InsertAt(s, k, e) = a \o m \o z
  BY DEF InsertAt
<1> HIDE DEF a, m, z
<1> DEFINE w == a \o m
<1>5. /\ w \in Seq(S) /\ Len(w) = k
      /\ \A i \in 1 .. k - 1 : w[i] = s[i]
      /\ w[k] = e
  <2>1. /\ a \o m \in Seq(S) /\ Len(a \o m) = Len(a) + Len(m)
        /\ \A i \in 1 .. Len(a) + Len(m) :
             (a \o m)[i] = IF i <= Len(a) THEN a[i] ELSE m[i - Len(a)]
    BY <1>1, <1>3, ConcatProperties
  <2> QED BY <1>0, <1>1, <1>3, <2>1
<1>6. InsertAt(s, k, e) = w \o z
  BY <1>4
<1> HIDE DEF w
<1>7. /\ w \o z \in Seq(S)
      /\ Len(w \o z) = Len(w) + Len(z)
      /\ \A i \in 1 .. Len(w) + Len(z) :
           (w \o z)[i] = IF i <= Len(w) THEN w[i] ELSE z[i - Len(w)]
  BY <1>2, <1>5, ConcatProperties
<1>8. \A i \in 1 .. k : (w \o z)[i] = w[i]
  BY <1>0, <1>2, <1>5, <1>7
<1>9. \A i \in k .. Len(s) : (w \o z)[i + 1] = s[i]
  BY <1>0, <1>2, <1>5, <1>7
<1>10. Len(w \o z) = Len(s) + 1
  BY <1>0, <1>2, <1>5, <1>7
<1> QED BY <1>0, <1>5, <1>6, <1>7, <1>8, <1>9, <1>10

\* Removal moves the elements after k down by one.
LEMMA RemoveAtLemma ==
  ASSUME NEW S, NEW s \in Seq(S), NEW k \in 1 .. Len(s)
  PROVE  /\ RemoveAt(s, k) \in Seq(S)
         /\ Len(RemoveAt(s, k)) = Len(s) - 1
         /\ \A i \in 1 .. k - 1 : RemoveAt(s, k)[i] = s[i]
         /\ \A i \in k .. Len(s) - 1 : RemoveAt(s, k)[i] = s[i + 1]
<1> DEFINE a == SubSeq(s, 1, k - 1)
           z == SubSeq(s, k + 1, Len(s))
<1>0. Len(s) \in Nat /\ \A i \in 1 .. Len(s) : s[i] \in S
  BY LenProperties, ElementOfSeq
<1>1. /\ a \in Seq(S) /\ Len(a) = k - 1
      /\ \A i \in 1 .. k - 1 : a[i] = s[i]
  <2>1. /\ SubSeq(s, 1, k - 1) \in Seq(S)
        /\ Len(SubSeq(s, 1, k - 1)) = IF 1 <= k - 1 THEN (k - 1) - 1 + 1 ELSE 0
        /\ \A i \in 1 .. (k - 1) - 1 + 1 :
             SubSeq(s, 1, k - 1)[i] = s[1 + i - 1]
    BY <1>0, SubSeqProperties
  <2> QED BY <1>0, <2>1
<1>2. /\ z \in Seq(S) /\ Len(z) = Len(s) - k
      /\ \A i \in 1 .. Len(s) - k : z[i] = s[k + i]
  <2>1. /\ SubSeq(s, k + 1, Len(s)) \in Seq(S)
        /\ Len(SubSeq(s, k + 1, Len(s)))
             = IF k + 1 <= Len(s) THEN Len(s) - (k + 1) + 1 ELSE 0
        /\ \A i \in 1 .. Len(s) - (k + 1) + 1 :
             SubSeq(s, k + 1, Len(s))[i] = s[(k + 1) + i - 1]
    BY <1>0, SubSeqProperties
  <2> QED BY <1>0, <2>1
<1>3. RemoveAt(s, k) = a \o z
  BY DEF RemoveAt
<1> HIDE DEF a, z
<1>4. /\ a \o z \in Seq(S) /\ Len(a \o z) = Len(a) + Len(z)
      /\ \A i \in 1 .. Len(a) + Len(z) :
           (a \o z)[i] = IF i <= Len(a) THEN a[i] ELSE z[i - Len(a)]
  BY <1>1, <1>2, ConcatProperties
<1>5. Len(a \o z) = Len(s) - 1
  BY <1>0, <1>1, <1>2, <1>4
<1>6. \A i \in 1 .. k - 1 : (a \o z)[i] = s[i]
  BY <1>0, <1>1, <1>2, <1>4
<1>7. \A i \in k .. Len(s) - 1 : (a \o z)[i] = s[i + 1]
  BY <1>0, <1>1, <1>2, <1>4
<1> QED BY <1>3, <1>4, <1>5, <1>6, <1>7

\* Appending adds exactly that element to the range.
LEMMA AppendRange ==
  ASSUME NEW S, NEW s \in Seq(S), NEW x \in S
  PROVE  Range(Append(s, x)) = Range(s) \cup {x}
<1>1. /\ \A i \in 1 .. Len(s) : Append(s, x)[i] = s[i]
      /\ Append(s, x)[Len(s) + 1] = x
      /\ DOMAIN s = 1 .. Len(s)
      /\ DOMAIN Append(s, x) = 1 .. Len(s) + 1
      /\ Len(s) \in Nat
  BY AppendProperties, LenProperties
<1> QED BY <1>1 DEF Range

\* Appending to the second of two concatenated sequences.
LEMMA ConcatAppend ==
  ASSUME NEW S, NEW s \in Seq(S), NEW t \in Seq(S), NEW x \in S
  PROVE  s \o Append(t, x) = Append(s \o t, x)
<1>1. <<x>> \in Seq(S) /\ s \o t \in Seq(S)
  BY ConcatProperties
<1>2. Append(t, x) = t \o <<x>> /\ Append(s \o t, x) = (s \o t) \o <<x>>
  BY <1>1, AppendIsConcat
<1>3. (s \o t) \o <<x>> = s \o (t \o <<x>>)
  BY <1>1, ConcatAssociative
<1> QED BY <1>2, <1>3

\* Head and tail of a concatenation whose first part is not empty.
LEMMA ConcatHead ==
  ASSUME NEW S, NEW s \in Seq(S), NEW t \in Seq(S), s # <<>>
  PROVE  /\ s \o t # <<>>
         /\ Head(s \o t) = Head(s)
         /\ Tail(s \o t) = Tail(s) \o t
<1> DEFINE u == s \o t
           v == Tail(s) \o t
<1>1. /\ Len(s) \in Nat \ {0} /\ Len(t) \in Nat
      /\ Head(s) = s[1] /\ Tail(s) \in Seq(S) /\ Len(Tail(s)) = Len(s) - 1
      /\ \A i \in 1 .. Len(s) - 1 : Tail(s)[i] = s[i + 1]
  BY HeadTailProperties, LenProperties, EmptySeq
<1>2. /\ u \in Seq(S) /\ Len(u) = Len(s) + Len(t)
      /\ \A i \in 1 .. Len(s) + Len(t) :
           u[i] = IF i <= Len(s) THEN s[i] ELSE t[i - Len(s)]
  BY ConcatProperties
<1>3. /\ v \in Seq(S) /\ Len(v) = Len(Tail(s)) + Len(t)
      /\ \A i \in 1 .. Len(Tail(s)) + Len(t) :
           v[i] = IF i <= Len(Tail(s)) THEN Tail(s)[i] ELSE t[i - Len(Tail(s))]
  BY <1>1, ConcatProperties
<1> HIDE DEF u, v
<1>4. u # <<>>
  BY <1>1, <1>2, EmptySeq
<1>5. /\ Head(u) = u[1] /\ Tail(u) \in Seq(S) /\ Len(Tail(u)) = Len(u) - 1
      /\ \A i \in 1 .. Len(u) - 1 : Tail(u)[i] = u[i + 1]
  BY <1>2, <1>4, HeadTailProperties
<1>6. Head(u) = Head(s)
  BY <1>1, <1>2, <1>5
<1>7. Len(Tail(u)) = Len(v)
  BY <1>1, <1>2, <1>3, <1>5
<1>8. ASSUME NEW i \in 1 .. Len(Tail(u)) PROVE Tail(u)[i] = v[i]
  <2>1. i \in 1 .. Len(u) - 1 /\ i + 1 \in 1 .. Len(s) + Len(t)
    BY <1>1, <1>2, <1>5, <1>8
  <2>2. Tail(u)[i] = IF i + 1 <= Len(s) THEN s[i + 1] ELSE t[i + 1 - Len(s)]
    BY <1>2, <1>5, <2>1
  <2>3. v[i] = IF i <= Len(s) - 1 THEN Tail(s)[i] ELSE t[i - (Len(s) - 1)]
    BY <1>1, <1>3, <2>1
  <2>4. CASE i + 1 <= Len(s)
    <3>1. i \in 1 .. Len(s) - 1 /\ i <= Len(s) - 1
      BY <1>1, <2>1, <2>4
    <3> QED BY <1>1, <2>2, <2>3, <2>4, <3>1
  <2>5. CASE ~(i + 1 <= Len(s))
    <3>1. ~(i <= Len(s) - 1) /\ i + 1 - Len(s) = i - (Len(s) - 1)
      BY <1>1, <2>1, <2>5
    <3> QED BY <2>2, <2>3, <2>5, <3>1
  <2> QED BY <2>4, <2>5
<1>9. Tail(u) = v
  BY <1>3, <1>5, <1>7, <1>8, SeqEqual
<1> QED BY <1>4, <1>6, <1>9 DEF u, v

\* Removing the element between two parts of a sequence leaves the parts.
LEMMA RemoveBetween ==
  ASSUME NEW S, NEW s \in Seq(S), NEW t \in Seq(S), NEW x \in S
  PROVE  /\ Len(s) + 1 \in 1 .. Len(Append(s, x) \o t)
         /\ RemoveAt(Append(s, x) \o t, Len(s) + 1) = s \o t
<1> DEFINE a == Append(s, x)
           u == a \o t
           k == Len(s) + 1
           r == RemoveAt(u, k)
           v == s \o t
<1>1. /\ Len(s) \in Nat /\ Len(t) \in Nat /\ a \in Seq(S) /\ Len(a) = k
      /\ \A i \in 1 .. Len(s) : a[i] = s[i]
  BY AppendProperties, LenProperties
<1> HIDE DEF a
<1>2. /\ u \in Seq(S) /\ Len(u) = k + Len(t)
      /\ \A i \in 1 .. k + Len(t) : u[i] = IF i <= k THEN a[i] ELSE t[i - k]
  <2>1. /\ u \in Seq(S) /\ Len(u) = Len(a) + Len(t)
        /\ \A i \in 1 .. Len(a) + Len(t) :
             u[i] = IF i <= Len(a) THEN a[i] ELSE t[i - Len(a)]
    BY <1>1, ConcatProperties
  <2> HIDE DEF u, k
  <2> QED BY <1>1, <2>1
<1>3. /\ v \in Seq(S) /\ Len(v) = Len(s) + Len(t)
      /\ \A i \in 1 .. Len(s) + Len(t) :
           v[i] = IF i <= Len(s) THEN s[i] ELSE t[i - Len(s)]
  BY ConcatProperties
<1> HIDE DEF u, v
<1>4. k \in 1 .. Len(u)
  BY <1>1, <1>2
<1>5. /\ r \in Seq(S) /\ Len(r) = Len(u) - 1
      /\ \A i \in 1 .. k - 1 : r[i] = u[i]
      /\ \A i \in k .. Len(u) - 1 : r[i] = u[i + 1]
  BY <1>2, <1>4, RemoveAtLemma
<1> HIDE DEF r
<1>6. Len(r) = Len(v)
  BY <1>1, <1>2, <1>3, <1>5
<1>7. ASSUME NEW i \in 1 .. Len(r) PROVE r[i] = v[i]
  <2>1. i \in 1 .. Len(s) + Len(t)
    BY <1>3, <1>6
  <2>2. CASE i <= Len(s)
    <3>1. r[i] = u[i] /\ u[i] = a[i] /\ a[i] = s[i] /\ v[i] = s[i]
      BY <1>1, <1>2, <1>3, <1>5, <2>1, <2>2
    <3> QED BY <3>1
  <2>3. CASE ~(i <= Len(s))
    <3>1. i \in k .. Len(u) - 1 /\ i + 1 \in 1 .. k + Len(t) /\ ~(i + 1 <= k)
      BY <1>1, <1>2, <2>1, <2>3
    <3>2. i + 1 - k = i - Len(s)
      BY <1>1, <2>1
    <3>3. r[i] = t[i - Len(s)]
      BY <1>2, <1>5, <3>1, <3>2
    <3> QED BY <1>3, <2>1, <2>3, <3>3
  <2> QED BY <2>2, <2>3
<1>8. r = v
  BY <1>3, <1>5, <1>6, <1>7, SeqEqual
<1> QED BY <1>4, <1>8 DEF r, v, u, a
=============================================================================
