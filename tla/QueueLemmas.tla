----------------------------- MODULE QueueLemmas -----------------------------
(***************************************************************************)
(* Facts about the sequence operators that model pendingCommandQueue       *)
(* (cmd_queue.c): what enq (Append), deq (Head, Tail) and the unlinking of *)
(* an inner node (RemoveAt) do to the set of commands of a queue and to    *)
(* the absence of repetitions.                                             *)
(***************************************************************************)
EXTENDS Integers, SequencesExt, SequenceTheorems, TLAPS

\* RemoveAt on a sequence of S.
LEMMA RemoveAtFacts ==
  ASSUME NEW S, NEW q \in Seq(S), NEW i \in DOMAIN q
  PROVE  /\ RemoveAt(q, i) \in Seq(S)
         /\ Len(RemoveAt(q, i)) = Len(q) - 1
         /\ \A j \in 1..Len(q) - 1 :
              RemoveAt(q, i)[j] = IF j < i THEN q[j] ELSE q[j + 1]
<1>1. i \in 1..Len(q) /\ Len(q) \in Nat
  BY LenProperties
<1> DEFINE a == SubSeq(q, 1, i - 1)  b == SubSeq(q, i + 1, Len(q))
<1>2. /\ a \in Seq(S) /\ Len(a) = i - 1
      /\ \A j \in 1..i - 1 : a[j] = q[j]
  <2>1. \A j \in 1..i - 1 : q[j] \in S
    BY <1>1, ElementOfSeq
  <2>2. QED  BY <1>1, <2>1, SubSeqProperties
<1>3. /\ b \in Seq(S) /\ Len(b) = Len(q) - i
      /\ \A j \in 1..Len(q) - i : b[j] = q[i + j]
  <2>1. \A j \in i + 1..Len(q) : q[j] \in S
    BY <1>1, ElementOfSeq
  <2>2. /\ b \in Seq(S)
        /\ Len(b) = IF i + 1 <= Len(q) THEN Len(q) - (i + 1) + 1 ELSE 0
        /\ \A j \in 1..Len(q) - (i + 1) + 1 : b[j] = q[i + 1 + j - 1]
    BY <1>1, <2>1, SubSeqProperties
  <2>3. QED  BY <1>1, <2>2
<1>4. /\ a \o b \in Seq(S)
      /\ Len(a \o b) = Len(a) + Len(b)
      /\ \A j \in 1..Len(a) + Len(b) :
           (a \o b)[j] = IF j <= Len(a) THEN a[j] ELSE b[j - Len(a)]
  BY <1>2, <1>3, ConcatProperties
<1>5. RemoveAt(q, i) = a \o b
  BY DEF RemoveAt
<1> HIDE DEF a, b
<1>6. Len(RemoveAt(q, i)) = Len(q) - 1
  BY <1>1, <1>2, <1>3, <1>4, <1>5
<1>7. ASSUME NEW j \in 1..Len(q) - 1
      PROVE  RemoveAt(q, i)[j] = IF j < i THEN q[j] ELSE q[j + 1]
  <2>1. RemoveAt(q, i)[j] = IF j <= i - 1 THEN a[j] ELSE b[j - (i - 1)]
    <3>1. Len(a) = i - 1 /\ j \in 1..Len(a) + Len(b)
      BY <1>1, <1>2, <1>3
    <3>2. (a \o b)[j] = IF j <= Len(a) THEN a[j] ELSE b[j - Len(a)]
      BY <1>4, <3>1
    <3>3. QED  BY <1>5, <3>1, <3>2
  <2>2. CASE j < i
    BY <1>1, <1>2, <2>1, <2>2
  <2>3. CASE j >= i
    <3>1. j - (i - 1) \in 1..Len(q) - i /\ i + (j - (i - 1)) = j + 1
      BY <1>1, <2>3
    <3>2. QED  BY <1>1, <1>3, <2>1, <2>3, <3>1
  <2>4. QED  BY <1>1, <2>2, <2>3
<1>8. QED  BY <1>4, <1>5, <1>6, <1>7

\* Removing a member of a queue without repetitions removes it from its set.
LEMMA RemoveAtSet ==
  ASSUME NEW S, NEW q \in Seq(S), IsInjective(q), NEW i \in DOMAIN q
  PROVE  /\ ToSet(RemoveAt(q, i)) = ToSet(q) \ {q[i]}
         /\ IsInjective(RemoveAt(q, i))
<1> DEFINE r == RemoveAt(q, i)
<1>1. /\ r \in Seq(S) /\ Len(r) = Len(q) - 1
      /\ \A j \in 1..Len(q) - 1 : r[j] = IF j < i THEN q[j] ELSE q[j + 1]
  BY RemoveAtFacts
<1>2. /\ DOMAIN q = 1..Len(q) /\ DOMAIN r = 1..Len(r)
      /\ Len(q) \in Nat /\ Len(r) \in Nat
  BY <1>1, LenProperties
<1> HIDE DEF r
<1>3. IsInjective(r)
  BY <1>1, <1>2 DEF IsInjective
<1>4. ASSUME NEW x \in ToSet(r)  PROVE x \in ToSet(q) \ {q[i]}
  <2>1. PICK j \in 1..Len(r) : x = r[j]
    BY <1>2 DEF ToSet
  <2>2. j \in 1..Len(q) - 1 /\ i \in 1..Len(q)
    BY <1>1, <1>2
  <2>3. PICK k \in 1..Len(q) : x = q[k] /\ k # i
    BY <1>1, <1>2, <2>1, <2>2
  <2>4. x # q[i]
    BY <1>2, <2>2, <2>3 DEF IsInjective
  <2>5. QED  BY <1>2, <2>3, <2>4 DEF ToSet
<1>5. ASSUME NEW x \in ToSet(q), x # q[i]  PROVE x \in ToSet(r)
  <2>1. PICK k \in 1..Len(q) : x = q[k] /\ k # i
    BY <1>2, <1>5 DEF ToSet
  <2>2. CASE k < i
    BY <1>1, <1>2, <2>1, <2>2 DEF ToSet
  <2>3. CASE k > i
    <3>1. k - 1 \in 1..Len(r) /\ r[k - 1] = q[k]
      BY <1>1, <1>2, <2>1, <2>3
    <3>2. QED  BY <1>2, <2>1, <3>1 DEF ToSet
  <2>4. QED  BY <1>2, <2>1, <2>2, <2>3
<1>6. QED  BY <1>3, <1>4, <1>5 DEF r

LEMMA AppendSet ==
  ASSUME NEW S, NEW q \in Seq(S), NEW e \in S
  PROVE  /\ Append(q, e) \in Seq(S)
         /\ ToSet(Append(q, e)) = ToSet(q) \cup {e}
         /\ IsInjective(q) /\ e \notin ToSet(q) => IsInjective(Append(q, e))
<1> DEFINE r == Append(q, e)
<1>1. r \in Seq(S) /\ Len(r) = Len(q) + 1
      /\ \A j \in 1..Len(q) + 1 : r[j] = IF j <= Len(q) THEN q[j] ELSE e
  BY AppendProperties
<1>2. /\ DOMAIN q = 1..Len(q) /\ DOMAIN r = 1..Len(r)
      /\ Len(q) \in Nat /\ Len(r) \in Nat
  BY <1>1, LenProperties
<1> HIDE DEF r
<1>3. ToSet(r) = ToSet(q) \cup {e}
  <2>1. ToSet(r) \subseteq ToSet(q) \cup {e}
    BY <1>1, <1>2 DEF ToSet
  <2>2. ToSet(q) \subseteq ToSet(r)
    BY <1>1, <1>2 DEF ToSet
  <2>3. e \in ToSet(r)
    <3>1. Len(q) + 1 \in DOMAIN r /\ r[Len(q) + 1] = e
      BY <1>1, <1>2
    <3>2. QED  BY <3>1 DEF ToSet
  <2>4. QED  BY <2>1, <2>2, <2>3
<1>4. IsInjective(q) /\ e \notin ToSet(q) => IsInjective(r)
  BY <1>1, <1>2 DEF IsInjective, ToSet
<1>5. QED  BY <1>1, <1>3, <1>4 DEF r

LEMMA TailSet ==
  ASSUME NEW S, NEW q \in Seq(S), q # <<>>
  PROVE  /\ Tail(q) \in Seq(S)
         /\ Head(q) \in S /\ Head(q) \in ToSet(q)
         /\ ToSet(Tail(q)) \subseteq ToSet(q)
         /\ ToSet(q) = ToSet(Tail(q)) \cup {Head(q)}
         /\ IsInjective(q) => /\ ToSet(Tail(q)) = ToSet(q) \ {Head(q)}
                              /\ IsInjective(Tail(q))
<1> DEFINE r == Tail(q)
<1>1. /\ Head(q) \in S /\ r \in Seq(S) /\ Len(r) = Len(q) - 1
      /\ \A j \in 1..Len(r) : r[j] = q[j + 1]
  BY HeadTailProperties
<1>2. /\ DOMAIN q = 1..Len(q) /\ DOMAIN r = 1..Len(r)
      /\ Len(q) \in Nat \ {0} /\ Len(r) \in Nat
  BY <1>1, LenProperties, EmptySeq
<1>3. Head(q) = q[1]
  OBVIOUS
<1> HIDE DEF r
<1>4. Head(q) \in ToSet(q)
  BY <1>2, <1>3 DEF ToSet
<1>5. ToSet(r) \subseteq ToSet(q)
  BY <1>1, <1>2 DEF ToSet
<1>6. ASSUME NEW x \in ToSet(q), x # Head(q)  PROVE x \in ToSet(r)
  <2>1. PICK k \in 1..Len(q) : x = q[k]
    BY <1>2 DEF ToSet
  <2>2. k - 1 \in 1..Len(r) /\ r[k - 1] = x
    BY <1>1, <1>2, <1>3, <1>6, <2>1
  <2>3. QED  BY <1>2, <2>2 DEF ToSet
<1>7. IsInjective(q) => Head(q) \notin ToSet(r) /\ IsInjective(r)
  <2>1. SUFFICES ASSUME IsInjective(q)
                 PROVE  Head(q) \notin ToSet(r) /\ IsInjective(r)
    OBVIOUS
  <2>2. \A j \in 1..Len(r) : j + 1 \in 1..Len(q) /\ j + 1 # 1 /\ r[j] = q[j + 1]
    BY <1>1, <1>2
  <2>3. \A j \in 1..Len(r) : r[j] # q[1]
    BY <1>2, <2>1, <2>2 DEF IsInjective
  <2>4. Head(q) \notin ToSet(r)
    BY <1>2, <1>3, <2>3 DEF ToSet
  <2>5. IsInjective(r)
    BY <1>2, <2>1, <2>2 DEF IsInjective
  <2>6. QED  BY <2>4, <2>5
<1>8. QED  BY <1>1, <1>4, <1>5, <1>6, <1>7 DEF r
=============================================================================
