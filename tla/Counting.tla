------------------------------ MODULE Counting ------------------------------
(***************************************************************************)
(* How many elements of a sequence are in a set.                           *)
(***************************************************************************)
EXTENDS Naturals, Sequences, FiniteSets, FiniteSetTheorems, SequenceTheorems, TLAPS

Places(s, S) == {i \in 1..Len(s) : s[i] \in S}

Count(s, S) == Cardinality(Places(s, S))

\* A sequence has finitely many places, and no more than its length has any.
LEMMA CountType ==
  ASSUME NEW T, NEW s \in Seq(T), NEW S
  PROVE  /\ IsFiniteSet(Places(s, S))
         /\ Count(s, S) \in Nat
         /\ Count(s, S) <= Len(s)
<1>1. Len(s) \in Nat  OBVIOUS
<1>2. IsFiniteSet(1..Len(s)) /\ Cardinality(1..Len(s)) = Len(s)
  <2>1. /\ IsFiniteSet(1..Len(s))
        /\ Cardinality(1..Len(s)) = IF 1 > Len(s) THEN 0 ELSE Len(s) - 1 + 1
    BY <1>1, FS_Interval
  <2> QED  BY <1>1, <2>1
<1>3. Places(s, S) \in SUBSET (1..Len(s))  BY DEF Places
<1>4. IsFiniteSet(Places(s, S)) /\ Cardinality(Places(s, S)) <= Len(s)
  BY <1>2, <1>3, FS_Subset
<1>5. Cardinality(Places(s, S)) \in Nat  BY <1>4, FS_CardinalityType
<1> QED  BY <1>4, <1>5 DEF Count

\* Nothing is in the empty sequence.
LEMMA CountEmpty ==
  ASSUME NEW S
  PROVE  Count(<<>>, S) = 0
<1>1. Len(<<>>) = 0  OBVIOUS
<1>2. Places(<<>>, S) = {}  BY <1>1 DEF Places
<1> QED  BY <1>2, FS_EmptySet DEF Count

\* A member makes the count positive.
LEMMA CountPositive ==
  ASSUME NEW T, NEW s \in Seq(T), NEW S, NEW i \in 1..Len(s), s[i] \in S
  PROVE  Count(s, S) >= 1
<1>1. i \in Places(s, S)  BY DEF Places
<1>2. IsFiniteSet(Places(s, S)) /\ Count(s, S) \in Nat  BY CountType
<1>3. Count(s, S) # 0  BY <1>1, <1>2, FS_EmptySet DEF Count
<1> QED  BY <1>2, <1>3

\* What the elements before the appended one count, and it.
LEMMA CountAppend ==
  ASSUME NEW T, NEW s \in Seq(T), NEW x \in T, NEW S
  PROVE  Count(Append(s, x), S) = Count(s, S) + (IF x \in S THEN 1 ELSE 0)
<1>1. /\ Len(s) \in Nat
      /\ Len(Append(s, x)) = Len(s) + 1
      /\ \A i \in 1..Len(s) : Append(s, x)[i] = s[i]
      /\ Append(s, x)[Len(s) + 1] = x
  BY AppendProperties
<1>2. IsFiniteSet(Places(s, S)) /\ Count(s, S) \in Nat  BY CountType
<1>3. Len(s) + 1 \notin Places(s, S)  BY <1>1 DEF Places
<1>4. CASE x \in S
  <2>1. Places(Append(s, x), S) = Places(s, S) \cup {Len(s) + 1}
    BY <1>1, <1>4 DEF Places
  <2>2. Cardinality(Places(s, S) \cup {Len(s) + 1}) = Cardinality(Places(s, S)) + 1
    BY <1>2, <1>3, FS_AddElement
  <2> QED  BY <2>1, <2>2, <1>4 DEF Count
<1>5. CASE x \notin S
  <2>1. Places(Append(s, x), S) = Places(s, S)  BY <1>1, <1>5 DEF Places
  <2> QED  BY <2>1, <1>2, <1>5 DEF Count
<1> QED  BY <1>4, <1>5

\* A sequence counts what its head and its tail count.
LEMMA CountTail ==
  ASSUME NEW T, NEW s \in Seq(T), s # <<>>, NEW S
  PROVE  Count(s, S) = Count(Tail(s), S) + (IF Head(s) \in S THEN 1 ELSE 0)
<1>1. /\ Tail(s) \in Seq(T) /\ Head(s) = s[1]
      /\ Len(s) \in Nat \ {0} /\ Len(Tail(s)) = Len(s) - 1
      /\ \A i \in 1..Len(Tail(s)) : Tail(s)[i] = s[i + 1]
  BY HeadTailProperties, EmptySeq
<1> DEFINE Later == Places(s, S) \ {1}
           f == [i \in Places(Tail(s), S) |-> i + 1]
<1>2. /\ IsFiniteSet(Places(s, S)) /\ Count(s, S) \in Nat
      /\ IsFiniteSet(Places(Tail(s), S)) /\ Count(Tail(s), S) \in Nat
  BY <1>1, CountType
<1>3. f \in Bijection(Places(Tail(s), S), Later)
  <2>1. \A i \in Places(Tail(s), S) : i \in 1..(Len(s) - 1) /\ i + 1 \in Later
    BY <1>1 DEF Places
  <2>2. f \in [Places(Tail(s), S) -> Later]  BY <2>1
  <2>3. \A i, j \in Places(Tail(s), S) : f[i] = f[j] => i = j  BY <2>1
  <2>4. \A k \in Later : k - 1 \in Places(Tail(s), S) /\ f[k - 1] = k
    BY <1>1 DEF Places
  <2> HIDE DEF f, Later
  <2>5. f \in Injection(Places(Tail(s), S), Later)  BY <2>2, <2>3 DEF Injection, IsInjective
  <2>6. f \in Surjection(Places(Tail(s), S), Later)  BY <2>2, <2>4 DEF Surjection
  <2> QED  BY <2>5, <2>6 DEF Bijection
<1>4. Cardinality(Later) = Count(Tail(s), S)
  <2> HIDE DEF f, Later
  <2>1. ExistsBijection(Places(Tail(s), S), Later)  BY <1>3 DEF ExistsBijection
  <2> QED  BY <2>1, <1>2, FS_Bijection DEF Count
<1>5. Cardinality(Later) = IF 1 \in Places(s, S) THEN Count(s, S) - 1 ELSE Count(s, S)
  BY <1>2, FS_RemoveElement DEF Count
<1>6. 1 \in Places(s, S) <=> Head(s) \in S  BY <1>1 DEF Places
<1> HIDE DEF Later
<1> QED  BY <1>2, <1>4, <1>5, <1>6

\* A concatenation counts what its parts count.
LEMMA CountConcat ==
  ASSUME NEW T, NEW s \in Seq(T), NEW t \in Seq(T), NEW S
  PROVE  Count(s \o t, S) = Count(s, S) + Count(t, S)
<1>1. /\ Len(s) \in Nat /\ Len(t) \in Nat
      /\ s \o t \in Seq(T) /\ Len(s \o t) = Len(s) + Len(t)
      /\ \A i \in 1..(Len(s) + Len(t)) :
           (s \o t)[i] = IF i <= Len(s) THEN s[i] ELSE t[i - Len(s)]
  BY ConcatProperties
<1> DEFINE Later == {i \in Places(s \o t, S) : i > Len(s)}
           f == [i \in Places(t, S) |-> i + Len(s)]
<1>2. /\ IsFiniteSet(Places(s, S)) /\ Count(s, S) \in Nat
      /\ IsFiniteSet(Places(t, S)) /\ Count(t, S) \in Nat
      /\ IsFiniteSet(Places(s \o t, S))
  BY <1>1, CountType
<1>3. f \in Bijection(Places(t, S), Later)
  <2>1. \A i \in Places(t, S) : i \in 1..Len(t) /\ i + Len(s) \in Later
    <3>1. SUFFICES ASSUME NEW i \in Places(t, S)
                   PROVE  i \in 1..Len(t) /\ i + Len(s) \in Later
      OBVIOUS
    <3>2. i \in 1..Len(t) /\ t[i] \in S  BY DEF Places
    <3>3. i + Len(s) \in 1..(Len(s) + Len(t)) /\ ~ (i + Len(s) <= Len(s)) /\ (i + Len(s)) - Len(s) = i
      BY <3>2, <1>1
    <3>4. (s \o t)[i + Len(s)] = t[i]  BY <3>3, <1>1
    <3> QED  BY <3>2, <3>3, <3>4, <1>1 DEF Places
  <2>2. f \in [Places(t, S) -> Later]  BY <2>1
  <2>3. \A i, j \in Places(t, S) : f[i] = f[j] => i = j  BY <2>1, <1>1
  <2>4. \A k \in Later : k - Len(s) \in Places(t, S) /\ f[k - Len(s)] = k
    BY <1>1 DEF Places
  <2> HIDE DEF f, Later
  <2>5. f \in Injection(Places(t, S), Later)  BY <2>2, <2>3 DEF Injection, IsInjective
  <2>6. f \in Surjection(Places(t, S), Later)  BY <2>2, <2>4 DEF Surjection
  <2> QED  BY <2>5, <2>6 DEF Bijection
<1>4. IsFiniteSet(Later) /\ Cardinality(Later) = Count(t, S)
  <2> HIDE DEF f, Later
  <2>1. ExistsBijection(Places(t, S), Later)  BY <1>3 DEF ExistsBijection
  <2> QED  BY <2>1, <1>2, FS_Bijection DEF Count
<1>5. Places(s \o t, S) = Places(s, S) \cup Later
  BY <1>1 DEF Places
<1>6. Places(s, S) \cap Later = {}  BY <1>1 DEF Places
<1> HIDE DEF Later
<1>7. Cardinality(Places(s, S) \cup Later)
        = Cardinality(Places(s, S)) + Cardinality(Later) - Cardinality({})
  BY <1>2, <1>4, <1>6, FS_Union
<1> QED  BY <1>2, <1>4, <1>5, <1>7, FS_EmptySet DEF Count

\* The first n elements count no more than all.
LEMMA CountPrefix ==
  ASSUME NEW T, NEW s \in Seq(T), NEW n \in 0..Len(s), NEW S
  PROVE  /\ SubSeq(s, 1, n) \in Seq(T)
         /\ Count(SubSeq(s, 1, n), S) <= Count(s, S)
<1>1. Len(s) \in Nat /\ n \in Nat /\ n <= Len(s)  OBVIOUS
<1>2. /\ SubSeq(s, 1, n) \in Seq(T)
      /\ Len(SubSeq(s, 1, n)) = n
      /\ \A i \in 1..n : SubSeq(s, 1, n)[i] = s[i]
  <2>1. \A i \in 1..n : s[i] \in T  BY <1>1, ElementOfSeq
  <2>2. /\ SubSeq(s, 1, n) \in Seq(T)
        /\ Len(SubSeq(s, 1, n)) = IF 1 <= n THEN n - 1 + 1 ELSE 0
        /\ \A i \in 1..(n - 1 + 1) : SubSeq(s, 1, n)[i] = s[1 + i - 1]
    BY <2>1, <1>1, SubSeqProperties
  <2> QED  BY <2>2, <1>1
<1>3. Places(SubSeq(s, 1, n), S) \in SUBSET Places(s, S)
  BY <1>1, <1>2 DEF Places
<1>4. IsFiniteSet(Places(s, S))  BY CountType
<1> QED  BY <1>2, <1>3, <1>4, FS_Subset DEF Count

\* A sequence counts none of what no element is.
LEMMA CountNone ==
  ASSUME NEW T, NEW s \in Seq(T), NEW S, \A x \in T : x \notin S
  PROVE  Count(s, S) = 0
<1>1. Places(s, S) = {}
  BY ElementOfSeq DEF Places
<1> QED  BY <1>1, FS_EmptySet DEF Count

\* The sequence of one element.
LEMMA CountOne ==
  ASSUME NEW T, NEW x \in T, NEW S
  PROVE  /\ <<x>> \in Seq(T)
         /\ Count(<<x>>, S) = IF x \in S THEN 1 ELSE 0
<1>1. <<>> \in Seq(T) /\ Append(<<>>, x) = <<x>>  OBVIOUS
<1>2. Count(Append(<<>>, x), S) = Count(<<>>, S) + (IF x \in S THEN 1 ELSE 0)
  BY <1>1, CountAppend
<1>3. Count(<<>>, S) = 0  BY CountEmpty
<1> QED  BY <1>1, <1>2, <1>3

\* A sequence of members of U is one whatever else its elements are.
LEMMA SeqAll ==
  ASSUME NEW T, NEW s \in Seq(T), NEW U, \A i \in 1..Len(s) : s[i] \in U
  PROVE  s \in Seq(U)
<1>1. Len(s) \in Nat /\ s \in [1..Len(s) -> T]  BY LenProperties
<1>2. s \in [1..Len(s) -> U]  BY <1>1
<1> QED  BY <1>1, <1>2, SeqDef

\* What is counted zero times is not in the sequence.
LEMMA CountZero ==
  ASSUME NEW T, NEW s \in Seq(T), NEW S, Count(s, S) = 0
  PROVE  s \in Seq(T \ S)
<1>1. ASSUME NEW i \in 1..Len(s) PROVE s[i] \in T \ S
  <2>1. s[i] \in T  BY ElementOfSeq
  <2>2. s[i] \notin S  BY CountPositive
  <2> QED  BY <2>1, <2>2
<1> QED  BY <1>1, SeqAll

-----------------------------------------------------------------------------
\* How many of the first j elements are.
Upto(s, j, S) == Count(SubSeq(s, 1, j), S)

\* The first j elements of a sequence.
LEMMA FirstElements ==
  ASSUME NEW T, NEW s \in Seq(T), NEW j \in 0..Len(s)
  PROVE  /\ SubSeq(s, 1, j) \in Seq(T) /\ Len(SubSeq(s, 1, j)) = j
         /\ \A i \in 1..j : SubSeq(s, 1, j)[i] = s[i]
<1>1. Len(s) \in Nat /\ j \in Nat /\ j <= Len(s)  OBVIOUS
<1>2. \A i \in 1..j : s[i] \in T  BY <1>1, ElementOfSeq
<1>3. /\ SubSeq(s, 1, j) \in Seq(T)
      /\ Len(SubSeq(s, 1, j)) = IF 1 <= j THEN j - 1 + 1 ELSE 0
      /\ \A i \in 1..(j - 1 + 1) : SubSeq(s, 1, j)[i] = s[1 + i - 1]
  BY <1>1, <1>2, SubSeqProperties
<1> QED  BY <1>1, <1>3

\* None, all, and in between.
LEMMA UptoType ==
  ASSUME NEW T, NEW s \in Seq(T), NEW S
  PROVE  /\ Upto(s, 0, S) = 0
         /\ Upto(s, Len(s), S) = Count(s, S)
         /\ \A j \in 0..Len(s) : Upto(s, j, S) \in Nat /\ Upto(s, j, S) <= Count(s, S)
<1>1. Len(s) \in Nat /\ 0 \in 0..Len(s) /\ Len(s) \in 0..Len(s)  OBVIOUS
<1>2. SubSeq(s, 1, 0) = <<>>
  <2>1. SubSeq(s, 1, 0) \in Seq(T) /\ Len(SubSeq(s, 1, 0)) = 0
    BY <1>1, FirstElements
  <2> QED  BY <2>1, EmptySeq
<1>3. SubSeq(s, 1, Len(s)) = s
  <2>1. /\ SubSeq(s, 1, Len(s)) \in Seq(T) /\ Len(SubSeq(s, 1, Len(s))) = Len(s)
        /\ \A i \in 1..Len(s) : SubSeq(s, 1, Len(s))[i] = s[i]
    BY <1>1, FirstElements
  <2> QED  BY <2>1, SeqEqual
<1>4. ASSUME NEW j \in 0..Len(s)
      PROVE  Upto(s, j, S) \in Nat /\ Upto(s, j, S) <= Count(s, S)
  <2>1. SubSeq(s, 1, j) \in Seq(T) /\ Count(SubSeq(s, 1, j), S) <= Count(s, S)
    BY CountPrefix
  <2>2. Count(SubSeq(s, 1, j), S) \in Nat  BY <2>1, CountType
  <2> QED  BY <2>1, <2>2 DEF Upto
<1> QED  BY <1>2, <1>3, <1>4, CountEmpty DEF Upto

\* Appending changes none of the first elements.
LEMMA UptoAppend ==
  ASSUME NEW T, NEW s \in Seq(T), NEW x \in T, NEW j \in 0..Len(s), NEW S
  PROVE  Upto(Append(s, x), j, S) = Upto(s, j, S)
<1>1. /\ Append(s, x) \in Seq(T) /\ Len(s) \in Nat /\ Len(Append(s, x)) = Len(s) + 1
      /\ \A i \in 1..Len(s) : Append(s, x)[i] = s[i]
  BY AppendProperties
<1>2. j \in 0..Len(Append(s, x)) /\ j \in Nat /\ j <= Len(s)  BY <1>1
<1>3. /\ SubSeq(s, 1, j) \in Seq(T) /\ Len(SubSeq(s, 1, j)) = j
      /\ \A i \in 1..j : SubSeq(s, 1, j)[i] = s[i]
  BY FirstElements
<1>4. /\ SubSeq(Append(s, x), 1, j) \in Seq(T) /\ Len(SubSeq(Append(s, x), 1, j)) = j
      /\ \A i \in 1..j : SubSeq(Append(s, x), 1, j)[i] = Append(s, x)[i]
  BY <1>1, <1>2, FirstElements
<1>5. \A i \in 1..j : SubSeq(Append(s, x), 1, j)[i] = SubSeq(s, 1, j)[i]
  BY <1>1, <1>2, <1>3, <1>4
<1>6. SubSeq(Append(s, x), 1, j) = SubSeq(s, 1, j)  BY <1>3, <1>4, <1>5, SeqEqual
<1> QED  BY <1>6 DEF Upto

\* The first elements are the head and the first of the tail.
LEMMA UptoTail ==
  ASSUME NEW T, NEW s \in Seq(T), s # <<>>, NEW j \in 1..Len(s), NEW S
  PROVE  Upto(s, j, S) = Upto(Tail(s), j - 1, S) + (IF Head(s) \in S THEN 1 ELSE 0)
<1>1. /\ Tail(s) \in Seq(T) /\ Head(s) = s[1]
      /\ Len(s) \in Nat \ {0} /\ Len(Tail(s)) = Len(s) - 1
      /\ \A i \in 1..Len(Tail(s)) : Tail(s)[i] = s[i + 1]
  BY HeadTailProperties, EmptySeq
<1>2. j \in 0..Len(s) /\ j - 1 \in 0..Len(Tail(s)) /\ j \in Nat /\ 1 <= j  BY <1>1
<1> DEFINE p == SubSeq(s, 1, j)
           q == SubSeq(Tail(s), 1, j - 1)
<1>3. p \in Seq(T) /\ Len(p) = j /\ \A i \in 1..j : p[i] = s[i]
  BY <1>2, FirstElements
<1>4. q \in Seq(T) /\ Len(q) = j - 1 /\ \A i \in 1..(j - 1) : q[i] = Tail(s)[i]
  BY <1>1, <1>2, FirstElements
<1>5. Upto(s, j, S) = Count(p, S) /\ Upto(Tail(s), j - 1, S) = Count(q, S)  BY DEF Upto
<1> HIDE DEF p, q
<1>6. p # <<>>  BY <1>2, <1>3, EmptySeq
<1>7. /\ Tail(p) \in Seq(T) /\ Head(p) = p[1] /\ Len(Tail(p)) = j - 1
      /\ \A i \in 1..Len(Tail(p)) : Tail(p)[i] = p[i + 1]
  BY <1>3, <1>6, HeadTailProperties
<1>8. Tail(p) = q
  <2>1. \A i \in 1..(j - 1) : Tail(p)[i] = q[i]
    BY <1>1, <1>2, <1>3, <1>4, <1>7
  <2> QED  BY <1>4, <1>7, <2>1, SeqEqual
<1>9. Head(p) = Head(s)  BY <1>1, <1>2, <1>3, <1>7
<1>10. Count(p, S) = Count(Tail(p), S) + (IF Head(p) \in S THEN 1 ELSE 0)
  BY <1>3, <1>6, CountTail
<1> QED  BY <1>5, <1>8, <1>9, <1>10

=============================================================================
