-------------------------- MODULE ReplayNamesProofs --------------------------
(***************************************************************************)
(* Proofs about ReplayNames, for descriptions of any length.  Each         *)
(* recursive function is first shown to be the loop it stands for; what a  *)
(* loop keeps is then shown of the first turn that would break it.         *)
(***************************************************************************)
EXTENDS ReplayNames, SequenceTheorems, FiniteSetTheorems, WellFoundedInduction, TLAPS

-----------------------------------------------------------------------------
\* A set of numbers has a least one.
LEMMA LeastNumber ==
  ASSUME NEW S \in SUBSET Nat, S # {}
  PROVE  \E s \in S : \A t \in S : s <= t
<1>1. \E s \in S : \A t \in S : ~(<<t, s>> \in OpToRel(<, Nat))
  BY NatLessThanWellFounded, WFMin
<1>2. PICK s \in S : \A t \in S : ~(t < s)
  BY <1>1 DEF OpToRel
<1>3. QED
  BY <1>2

\* A loop of N turns that starts with c, as a function of the number of turns taken.
Loop(N, S, c, F) ==
  {h \in [0..N -> S] : h[0] = c /\ \A i \in 1..N : h[i] = F[<<h[i - 1], i>>]}

\* Every loop can be run to its end.
LEMMA LoopExists ==
  ASSUME NEW N \in Nat, NEW S, NEW c \in S, NEW F \in [S \X (1..N) -> S]
  PROVE  \E h : h \in Loop(N, S, c, F)
<1> DEFINE Loops(n, h) == /\ h \in [0..n -> S]
                          /\ h[0] = c
                          /\ \A i \in 1..n : h[i] = F[<<h[i - 1], i>>]
           Stuck == {n \in 0..N : ~(\E h : Loops(n, h))}
<1>1. SUFFICES ASSUME Stuck # {} PROVE FALSE
  <2> HIDE DEF Loops
  <2>1. N \in 0..N
    OBVIOUS
  <2>2. SUFFICES \E h : Loops(N, h)
    BY DEF Loop, Loops
  <2>3. QED
    BY <1>1, <2>1
<1>2. PICK n \in Stuck : \A m \in Stuck : n <= m
  <2> HIDE DEF Loops
  <2>1. Stuck \in SUBSET Nat
    OBVIOUS
  <2> HIDE DEF Stuck
  <2>2. QED
    BY <1>1, <2>1, LeastNumber
<1>3. CASE n = 0
  <2>1. Loops(0, [i \in 0..0 |-> c])
    OBVIOUS
  <2>2. QED
    BY <1>2, <1>3, <2>1
<1>4. CASE n # 0
  <2>1. n - 1 \in 0..N /\ n - 1 \notin Stuck /\ n \in 1..N
    BY <1>2, <1>4
  <2>2. PICK h : Loops(n - 1, h)
    BY <2>1
  <2>3. F[<<h[n - 1], n>>] \in S
    BY <2>1, <2>2
  <2> DEFINE g == [i \in 0..n |-> IF i = n THEN F[<<h[n - 1], n>>] ELSE h[i]]
  <2>4. \A i \in 0..n - 1 : g[i] = h[i] /\ h[i] \in S
    BY <2>1, <2>2
  <2>5. g[n] = F[<<g[n - 1], n>>]
    <3>1. g[n - 1] = h[n - 1] /\ g[n] = F[<<h[n - 1], n>>]
      BY <2>1, <2>4
    <3> HIDE DEF g
    <3>2. QED
      BY <3>1
  <2>6. \A i \in 1..n : g[i] = F[<<g[i - 1], i>>]
    <3>1. TAKE i \in 1..n
    <3>2. CASE i = n
      BY <2>5, <3>2
    <3>3. CASE i # n
      <4>1. i \in 1..n - 1 /\ i - 1 \in 0..n - 1
        BY <2>1, <3>3
      <4>2. h[i] = F[<<h[i - 1], i>>]
        BY <2>2, <4>1
      <4>3. g[i] = h[i] /\ g[i - 1] = h[i - 1]
        BY <2>1, <2>4, <4>1
      <4> HIDE DEF g
      <4>4. QED
        BY <4>2, <4>3
    <3>4. QED
      BY <3>2, <3>3
  <2>7. g \in [0..n -> S] /\ g[0] = c
    BY <2>1, <2>2, <2>3, <2>4
  <2>8. Loops(n, g)
    BY <2>6, <2>7
  <2>9. QED
    BY <1>2, <2>8
<1>5. QED
  BY <1>3, <1>4

-----------------------------------------------------------------------------
\* Texts.

\* What links are made of.
Letters == Characters \cup ToSet(ReplayFolder) \cup Figures
             \cup {"?", "_", "/", "-", ".", "r", "e", "p", "l", "a", "y", "c", "o"}

Texts == Seq(Letters)

\* What two texts make.
LEMMA Joined ==
  ASSUME NEW s \in Texts, NEW t \in Texts
  PROVE  /\ s \o t \in Texts /\ Len(s \o t) = Len(s) + Len(t)
         /\ \A i \in 1..Len(s) : (s \o t)[i] = s[i]
         /\ \A i \in 1..Len(t) : (s \o t)[Len(s) + i] = t[i]
<1>1. \A i \in 1..Len(s) + Len(t) :
        (s \o t)[i] = IF i <= Len(s) THEN s[i] ELSE t[i - Len(s)]
  BY ConcatProperties DEF Texts
<1>2. s \o t \in Texts /\ Len(s \o t) = Len(s) + Len(t)
  BY ConcatProperties DEF Texts
<1>3. Len(s) \in Nat /\ Len(t) \in Nat
  BY DEF Texts
<1>4. ASSUME NEW i \in 1..Len(t)
      PROVE  (s \o t)[Len(s) + i] = t[i]
  <2>1. Len(s) + i \in 1..Len(s) + Len(t) /\ ~(Len(s) + i <= Len(s)) /\ Len(s) + i - Len(s) = i
    BY <1>3
  <2>2. QED
    BY <1>1, <2>1
<1>5. ASSUME NEW i \in 1..Len(s)
      PROVE  (s \o t)[i] = s[i]
  <2>1. i \in 1..Len(s) + Len(t) /\ i <= Len(s)
    BY <1>3
  <2>2. QED
    BY <1>1, <2>1
<1>6. QED
  BY <1>2, <1>4, <1>5

\* Blanks change nothing but what they cover.
LEMMA Blanked ==
  ASSUME NEW s \in Texts,
         NEW i \in 1..Len(s), NEW n \in Nat, i + n <= Len(s) + 1
  PROVE  /\ Blank(s, i, n) \in Texts /\ Len(Blank(s, i, n)) = Len(s)
         /\ \A k \in 1..Len(s) :
              Blank(s, i, n)[k] = IF k \in i..i + n - 1 THEN "_" ELSE s[k]
<1> DEFINE a == SubSeq(s, 1, i - 1)
           b == [k \in 1..n |-> "_"]
           c == SubSeq(s, i + n, Len(s))
<1>1. a \in Texts /\ Len(a) = i - 1 /\ \A k \in 1..i - 1 : a[k] = s[k]
  <2>1. Len(s) \in Nat /\ \A k \in 1..i - 1 : k \in 1..Len(s)
    BY DEF Texts
  <2>2. QED
    BY <2>1, SubSeqProperties DEF Texts
<1>2. b \in Texts /\ Len(b) = n /\ \A k \in 1..n : b[k] = "_"
  <2>1. b \in [1..n -> Letters]
    BY DEF Letters
  <2>2. \A k \in 1..n : b[k] = "_"
    OBVIOUS
  <2> HIDE DEF b
  <2>3. b \in Seq(Letters)
    BY <2>1, SeqDef
  <2>4. Len(b) = n
    BY <2>1, <2>3, LenProperties
  <2>5. QED
    BY <2>2, <2>3, <2>4 DEF Texts
<1>3. /\ c \in Texts /\ Len(c) = Len(s) + 1 - i - n
      /\ \A k \in 1..Len(s) + 1 - i - n : c[k] = s[i + n + k - 1]
  <2>1. Len(s) \in Nat /\ \A k \in i + n..Len(s) : k \in 1..Len(s)
    BY DEF Texts
  <2>2. QED
    BY <2>1, SubSeqProperties DEF Texts
<1> HIDE DEF a, b, c
<1>4. /\ a \o b \in Texts /\ Len(a \o b) = i - 1 + n
      /\ \A k \in 1..i - 1 : (a \o b)[k] = s[k]
      /\ \A k \in 1..n : (a \o b)[i - 1 + k] = "_"
  <2>1. /\ a \o b \in Texts /\ Len(a \o b) = Len(a) + Len(b)
        /\ \A k \in 1..Len(a) : (a \o b)[k] = a[k]
        /\ \A k \in 1..Len(b) : (a \o b)[Len(a) + k] = b[k]
    BY <1>1, <1>2, Joined
  <2>2. QED
    BY <1>1, <1>2, <2>1
<1>5. /\ (a \o b) \o c \in Texts /\ Len((a \o b) \o c) = Len(s)
      /\ \A k \in 1..i - 1 + n : ((a \o b) \o c)[k] = (a \o b)[k]
      /\ \A k \in 1..Len(s) + 1 - i - n : ((a \o b) \o c)[i - 1 + n + k] = s[i + n + k - 1]
  <2>1. Len(s) \in Nat
    BY DEF Texts
  <2> DEFINE ab == a \o b
  <2> HIDE DEF ab
  <2>2. ab \in Texts /\ Len(ab) = i - 1 + n
    BY <1>4 DEF ab
  <2>3. /\ ab \o c \in Texts /\ Len(ab \o c) = Len(ab) + Len(c)
        /\ \A k \in 1..Len(ab) : (ab \o c)[k] = ab[k]
        /\ \A k \in 1..Len(c) : (ab \o c)[Len(ab) + k] = c[k]
    BY <1>3, <2>2, Joined
  <2>4. Len(ab \o c) = Len(s)
    BY <1>3, <2>1, <2>2, <2>3
  <2>5. QED
    BY <1>3, <2>1, <2>2, <2>3, <2>4 DEF ab
<1>6. Len(s) \in Nat
  BY DEF Texts
<1>7. ASSUME NEW k \in 1..Len(s)
      PROVE  ((a \o b) \o c)[k] = IF k \in i..i + n - 1 THEN "_" ELSE s[k]
  <2>1. CASE k < i
    <3>1. k \in 1..i - 1 /\ k \in 1..i - 1 + n /\ k \notin i..i + n - 1
      BY <2>1
    <3>2. (a \o b)[k] = s[k] /\ ((a \o b) \o c)[k] = (a \o b)[k]
      BY <1>4, <1>5, <3>1
    <3>3. QED
      BY <3>1, <3>2
  <2>2. CASE k \in i..i + n - 1
    <3>1. k - i + 1 \in 1..n /\ i - 1 + (k - i + 1) = k /\ k \in 1..i - 1 + n
      BY <2>2
    <3>2. (a \o b)[i - 1 + (k - i + 1)] = "_"
      BY <1>4, <3>1
    <3>3. QED
      BY <1>5, <2>2, <3>1, <3>2
  <2>3. CASE k >= i + n
    <3>1. /\ k - i - n + 1 \in 1..Len(s) + 1 - i - n
          /\ i - 1 + n + (k - i - n + 1) = k /\ i + n + (k - i - n + 1) - 1 = k
      BY <2>3
    <3>2. ((a \o b) \o c)[i - 1 + n + (k - i - n + 1)] = s[i + n + (k - i - n + 1) - 1]
      BY <1>5, <3>1
    <3>3. k \notin i..i + n - 1
      BY <2>3
    <3>4. ((a \o b) \o c)[k] = s[k]
      <4> DEFINE abc == (a \o b) \o c
      <4> HIDE DEF abc
      <4>1. abc[i - 1 + n + (k - i - n + 1)] = s[i + n + (k - i - n + 1) - 1]
        BY <3>2 DEF abc
      <4>2. abc[k] = s[k]
        BY <3>1, <4>1
      <4>3. QED
        BY <4>2 DEF abc
    <3>5. QED
      BY <3>3, <3>4
  <2>4. k < i \/ k \in i..i + n - 1 \/ k >= i + n
    BY <1>6
  <2>5. QED
    BY <2>1, <2>2, <2>3, <2>4
<1>8. Blank(s, i, n) = (a \o b) \o c
  BY DEF Blank, a, b, c
<1>9. QED
  BY <1>5, <1>7, <1>8

\* A text of three characters at a place.
LEMMA ClimbsMeans ==
  ASSUME NEW s \in Texts, NEW i \in 1..Len(s), i + 2 <= Len(s)
  PROVE  ClimbsAt(s, i) <=> s[i] = "." /\ s[i + 1] = "." /\ s[i + 2] = "/"
<1> DEFINE t == SubSeq(s, i, i + 2)
<1>1. t \in Texts /\ Len(t) = 3 /\ \A k \in 1..3 : t[k] = s[i + k - 1]
  <2>1. Len(s) \in Nat /\ \A k \in i..i + 2 : k \in 1..Len(s)
    BY DEF Texts
  <2>2. QED
    BY <2>1, SubSeqProperties DEF Texts
<1> HIDE DEF t
<1>2. t[1] = s[i] /\ t[2] = s[i + 1] /\ t[3] = s[i + 2]
  <2>1. t[1] = s[i + 1 - 1] /\ t[2] = s[i + 2 - 1] /\ t[3] = s[i + 3 - 1]
    BY <1>1
  <2>2. i + 1 - 1 = i /\ i + 2 - 1 = i + 1 /\ i + 3 - 1 = i + 2
    BY DEF Texts
  <2>3. QED
    BY <2>1, <2>2
<1>3. t = <<t[1], t[2], t[3]>>
  <2>1. t \in Seq(Letters) /\ Len(t) = 3
    BY <1>1 DEF Texts
  <2>2. QED
    BY <2>1
<1>4. t = <<".", ".", "/">> <=> t[1] = "." /\ t[2] = "." /\ t[3] = "/"
  BY <1>3
<1>5. QED
  BY <1>2, <1>4 DEF ClimbsAt, t

-----------------------------------------------------------------------------
\* getReplayFileName takes out of a name what leads elsewhere.

\* t is s, but for characters that were blanked.
Underscored(s, t) == Len(t) = Len(s) /\ \A k \in 1..Len(s) : t[k] \in {s[k], "_"}

\* Neither "../" nor "//" starts at i.
Harmless(s, i) ==
  /\ i + 2 <= Len(s) => ~(s[i] = "." /\ s[i + 1] = "." /\ s[i + 2] = "/")
  /\ i + 1 <= Len(s) => ~(s[i] = "/" /\ s[i + 1] = "/")

\* Cleaning up keeps the length of a description.
LEMMA CleanUpFacts ==
  ASSUME NEW d \in Seq(Characters)
  PROVE  CleanUp(d) \in Texts /\ Len(CleanUp(d)) = Len(d)
<1> DEFINE s == CleanUp(d)
<1>1. DOMAIN d = 1..Len(d) /\ Len(d) \in Nat /\ \A i \in 1..Len(d) : d[i] \in Characters
  BY LenProperties, ElementOfSeq
<1>2. s = [i \in 1..Len(d) |-> IF d[i] = "bad" THEN "?" ELSE d[i]]
  BY <1>1 DEF CleanUp
<1>3. \A i \in 1..Len(d) : s[i] \in Letters
  BY <1>1, <1>2 DEF Letters
<1>4. s \in [1..Len(d) -> Letters]
  BY <1>2, <1>3
<1> HIDE DEF s
<1>5. s \in Texts
  BY <1>1, <1>4, SeqDef DEF Texts
<1>6. Len(s) = Len(d)
  BY <1>1, <1>4, <1>5, LenProperties DEF Texts
<1>7. QED
  BY <1>5, <1>6 DEF s

\* A harmless place stays so under underscores.
LEMMA HarmlessKept ==
  ASSUME NEW s \in Texts, NEW t \in Texts, Underscored(s, t),
         NEW i \in 1..Len(s), Harmless(s, i)
  PROVE  Harmless(t, i)
<1>1. Len(s) \in Nat
  BY DEF Texts
<1>2. ASSUME i + 2 <= Len(t), t[i] = ".", t[i + 1] = ".", t[i + 2] = "/"
      PROVE  FALSE
  <2>1. i \in 1..Len(s) /\ i + 1 \in 1..Len(s) /\ i + 2 \in 1..Len(s) /\ i + 2 <= Len(s)
    <3>1. i + 2 <= Len(s)
      BY <1>2 DEF Underscored
    <3>2. QED
      BY <1>1, <3>1
  <2>2. t[i] \in {s[i], "_"} /\ t[i + 1] \in {s[i + 1], "_"} /\ t[i + 2] \in {s[i + 2], "_"}
    BY <2>1 DEF Underscored
  <2>3. s[i] = "." /\ s[i + 1] = "." /\ s[i + 2] = "/"
    BY <1>2, <2>2
  <2>4. QED
    BY <2>1, <2>3 DEF Harmless
<1>3. ASSUME i + 1 <= Len(t), t[i] = "/", t[i + 1] = "/"
      PROVE  FALSE
  <2>1. i \in 1..Len(s) /\ i + 1 \in 1..Len(s) /\ i + 1 <= Len(s)
    <3>1. i + 1 <= Len(s)
      BY <1>3 DEF Underscored
    <3>2. QED
      BY <1>1, <3>1
  <2>2. t[i] \in {s[i], "_"} /\ t[i + 1] \in {s[i + 1], "_"}
    BY <2>1 DEF Underscored
  <2>3. s[i] = "/" /\ s[i + 1] = "/"
    BY <1>3, <2>2
  <2>4. QED
    BY <2>1, <2>3 DEF Harmless
<1>4. QED
  BY <1>2, <1>3 DEF Harmless

\* Blanks are underscores.
LEMMA BlankedUnderscored ==
  ASSUME NEW s \in Texts, NEW i \in 1..Len(s), NEW n \in Nat, i + n <= Len(s) + 1
  PROVE  Underscored(s, Blank(s, i, n))
<1>1. \A k \in 1..Len(s) : Blank(s, i, n)[k] \in {s[k], "_"}
  BY Blanked
<1>2. QED
  BY <1>1, Blanked DEF Underscored

\* One turn of the loop makes its place harmless.
LEMMA NeutralAtFacts ==
  ASSUME NEW s \in Texts, NEW i \in 1..Len(s)
  PROVE  /\ NeutralAt(s, i) \in Texts /\ Underscored(s, NeutralAt(s, i))
         /\ Harmless(NeutralAt(s, i), i)
<1>1. Len(s) \in Nat
  BY DEF Texts
<1>2. CASE i + 2 <= Len(s) /\ ClimbsAt(s, i)
  <2>1. s[i] = "." /\ s[i + 1] = "." /\ s[i + 2] = "/"
    BY <1>2, ClimbsMeans
  <2>2. ~DoubledAt(s, i)
    BY <2>1 DEF DoubledAt
  <2>3. NeutralAt(s, i) = Blank(s, i, 3)
    BY <1>2, <2>2 DEF NeutralAt
  <2>4. i + 3 <= Len(s) + 1
    BY <1>1, <1>2
  <2>5. Blank(s, i, 3)[i] = "_"
    <3>1. i \in i..i + 3 - 1
      OBVIOUS
    <3>2. QED
      BY <2>4, <3>1, Blanked
  <2>6. Blank(s, i, 3) \in Texts /\ Underscored(s, Blank(s, i, 3))
    BY <2>4, Blanked, BlankedUnderscored
  <2>7. Harmless(Blank(s, i, 3), i)
    BY <2>5 DEF Harmless
  <2>8. QED
    BY <2>3, <2>6, <2>7
<1>3. CASE DoubledAt(s, i)
  <2>1. i < Len(s) /\ s[i] = "/" /\ s[i + 1] = "/"
    BY <1>3 DEF DoubledAt
  <2>2. ~(i + 2 <= Len(s) /\ ClimbsAt(s, i))
    BY <2>1, ClimbsMeans
  <2>3. NeutralAt(s, i) = Blank(s, i + 1, 1)
    BY <1>3, <2>2 DEF NeutralAt
  <2>4. i + 1 \in 1..Len(s) /\ i + 1 + 1 <= Len(s) + 1
    BY <1>1, <2>1
  <2>5. Blank(s, i + 1, 1)[i + 1] = "_" /\ Blank(s, i + 1, 1)[i] = s[i]
    <3>1. i + 1 \in i + 1..i + 1 + 1 - 1 /\ i \notin i + 1..i + 1 + 1 - 1
      OBVIOUS
    <3>2. /\ Len(Blank(s, i + 1, 1)) = Len(s)
          /\ \A k \in 1..Len(s) :
               Blank(s, i + 1, 1)[k] = IF k \in i + 1..i + 1 + 1 - 1 THEN "_" ELSE s[k]
      BY <2>4, Blanked, ZenonT(90)
    <3>3. QED
      BY <2>4, <3>1, <3>2
  <2>6. Blank(s, i + 1, 1) \in Texts /\ Underscored(s, Blank(s, i + 1, 1))
    BY <2>4, Blanked, BlankedUnderscored
  <2>7. Harmless(Blank(s, i + 1, 1), i)
    BY <2>1, <2>5 DEF Harmless
  <2>8. QED
    BY <2>3, <2>6, <2>7
<1>4. CASE ~(i + 2 <= Len(s) /\ ClimbsAt(s, i)) /\ ~DoubledAt(s, i)
  <2>1. NeutralAt(s, i) = s
    BY <1>4 DEF NeutralAt
  <2>2. Harmless(s, i)
    BY <1>1, <1>4, ClimbsMeans DEF Harmless, DoubledAt
  <2>3. QED
    BY <2>1, <2>2 DEF Underscored
<1>5. QED
  BY <1>2, <1>3, <1>4

\* The loop.
LEMMA NeutralFacts ==
  ASSUME NEW d \in Seq(Characters)
  PROVE  /\ Neutral(d) \in Texts /\ Underscored(CleanUp(d), Neutral(d))
         /\ \A i \in 1..Len(d) : Harmless(Neutral(d), i)
<1> DEFINE N == Len(d)
           S == {s \in Texts : Len(s) = N}
           F == [x \in S \X (1..N) |-> NeutralAt(x[1], x[2])]
           c == CleanUp(d)
<1>1. N \in Nat
  BY LenProperties
<1>2. c \in S
  BY CleanUpFacts
<1>3. \A s \in S, i \in 1..N : NeutralAt(s, i) \in S
  BY NeutralAtFacts DEF Underscored
<1>4. F \in [S \X (1..N) -> S]
  BY <1>3
<1>5. \A s \in S, i \in 1..N : F[<<s, i>>] = NeutralAt(s, i)
  OBVIOUS
<1> HIDE DEF F, S, c, N
<1>6. PICK h \in [0..N -> S] : h[0] = c /\ \A i \in 1..N : h[i] = F[<<h[i - 1], i>>]
  <2>1. \E h : h \in Loop(N, S, c, F)
    BY <1>1, <1>2, <1>4, LoopExists
  <2>2. QED
    BY <2>1 DEF Loop
<1>7. \A i \in 1..N : h[i] = NeutralAt(h[i - 1], i) /\ h[i - 1] \in S /\ h[i] \in S
  <2>1. TAKE i \in 1..N
  <2>2. i \in 0..N /\ i - 1 \in 0..N
    BY <1>1
  <2>3. QED
    BY <1>5, <1>6, <2>2
<1> DEFINE after == CHOOSE f : f = [i \in 0..N |-> IF i = 0 THEN c ELSE NeutralAt(f[i - 1], i)]
<1>8. h = [i \in 0..N |-> IF i = 0 THEN c ELSE NeutralAt(h[i - 1], i)]
  BY <1>1, <1>6, <1>7
<1>9. after = [i \in 0..N |-> IF i = 0 THEN c ELSE NeutralAt(after[i - 1], i)]
  BY <1>8
<1>10. Neutral(d) = after[N]
  BY DEF Neutral, c, N
<1> HIDE DEF after
<1>11. after[0] = c /\ \A i \in 1..N : after[i] = NeutralAt(after[i - 1], i)
  BY <1>1, <1>9
<1> DEFINE Sound(i) == /\ after[i] \in S /\ Underscored(c, after[i])
                       /\ \A k \in 1..i : Harmless(after[i], k)
           Wrong == {i \in 0..N : ~Sound(i)}
<1>12. Sound(0)
  BY <1>2, <1>11 DEF Underscored, S
<1>13. ASSUME NEW i \in 1..N, Sound(i - 1)
       PROVE  Sound(i)
  <2>1. after[i - 1] \in Texts /\ Len(after[i - 1]) = N /\ i \in 1..Len(after[i - 1])
    BY <1>13 DEF S
  <2>2. /\ after[i] \in Texts /\ Underscored(after[i - 1], after[i])
        /\ Harmless(after[i], i)
    BY <1>11, <2>1, NeutralAtFacts
  <2>3. after[i] \in S
    BY <2>1, <2>2 DEF S, Underscored
  <2>4. Underscored(c, after[i])
    BY <1>2, <1>13, <2>2 DEF S, Underscored
  <2>5. \A k \in 1..i - 1 : Harmless(after[i], k)
    <3>1. \A k \in 1..i - 1 : k \in 1..Len(after[i - 1]) /\ Harmless(after[i - 1], k)
      BY <1>1, <1>13, <2>1
    <3>2. QED
      BY <2>1, <2>2, <3>1, HarmlessKept
  <2>6. \A k \in 1..i : k = i \/ k \in 1..i - 1
    BY <1>1
  <2>7. QED
    BY <2>2, <2>3, <2>4, <2>5, <2>6
<1> HIDE DEF Sound
<1>14. Wrong = {}
  <2>1. SUFFICES ASSUME Wrong # {} PROVE FALSE
    OBVIOUS
  <2>2. PICK i \in Wrong : \A j \in Wrong : i <= j
    <3>1. Wrong \in SUBSET Nat
      OBVIOUS
    <3> HIDE DEF Wrong
    <3>2. QED
      BY <2>1, <3>1, LeastNumber
  <2>3. i \in 1..N /\ i - 1 \in 0..N /\ i - 1 \notin Wrong
    BY <1>1, <1>12, <2>2
  <2>4. QED
    BY <1>13, <2>2, <2>3
<1>15. Sound(N)
  BY <1>1, <1>14
<1>16. QED
  BY <1>10, <1>15 DEF Sound, S, c, N

-----------------------------------------------------------------------------
\* The path: nothing in it leads elsewhere.
LEMMA PathNameFacts ==
  ASSUME NEW d \in Seq(Characters)
  PROVE  /\ PathName(d) \in Texts /\ Len(PathName(d)) = Len(d)
         /\ \A i \in 1..Len(d) : Harmless(PathName(d), i)
         /\ Len(d) > 0 => PathName(d)[1] # "/"
<1> DEFINE s == Neutral(d)
           t == PathName(d)
<1>1. /\ Len(d) \in Nat /\ s \in Texts /\ Len(s) = Len(d)
      /\ \A k \in 1..Len(d) : Harmless(s, k)
  BY NeutralFacts, CleanUpFacts, LenProperties DEF Underscored
<1>2. t = IF s # <<>> /\ s[1] = "/" THEN Blank(s, 1, 1) ELSE s
  BY DEF PathName, Relative
<1> HIDE DEF s, t
<1>3. s # <<>> => 1 \in 1..Len(s) /\ 1 + 1 <= Len(s) + 1
  <2>1. s \in Seq(Letters)
    BY <1>1 DEF Texts
  <2>2. s # <<>> => Len(s) \in Nat \ {0}
    BY <2>1, EmptySeq
  <2>3. QED
    BY <2>2
<1>4. Len(d) > 0 => s # <<>>
  <2>1. s = <<>> => Len(s) = 0
    OBVIOUS
  <2>2. QED
    BY <1>1, <2>1
<1>5. CASE s # <<>> /\ s[1] = "/"
  <2>1. Blank(s, 1, 1) = t
    BY <1>2, <1>5
  <2>2. 1 \in 1..Len(s) /\ 1 + 1 <= Len(s) + 1
    BY <1>3, <1>5
  <2>3. t \in Texts /\ Underscored(s, t)
    <3>1. Blank(s, 1, 1) \in Texts /\ Underscored(s, Blank(s, 1, 1))
      BY <1>1, <2>2, Blanked, BlankedUnderscored
    <3>2. QED
      BY <2>1, <3>1
  <2>4. t[1] = "_"
    <3>1. 1 \in 1..1 + 1 - 1
      OBVIOUS
    <3>2. Blank(s, 1, 1)[1] = "_"
      BY <1>1, <2>2, <3>1, Blanked
    <3>3. QED
      BY <2>1, <3>2
  <2>5. \A k \in 1..Len(d) : Harmless(t, k)
    BY <1>1, <2>3, HarmlessKept
  <2>6. Len(t) = Len(d)
    BY <1>1, <2>3 DEF Underscored
  <2>7. QED
    BY <2>3, <2>4, <2>5, <2>6 DEF t
<1>6. CASE ~(s # <<>> /\ s[1] = "/")
  <2>1. t = s
    BY <1>2, <1>6
  <2>2. QED
    BY <1>1, <1>4, <1>6, <2>1 DEF t
<1>7. QED
  BY <1>5, <1>6

-----------------------------------------------------------------------------
\* The ID in figures.

\* The figures, their values, and what is not a figure.
LEMMA FigureFacts ==
  /\ \A k \in 0..9 : DigitChars[k + 1] \in Figures /\ Figure(DigitChars[k + 1]) = k
  /\ Figures \subseteq Letters /\ "/" \notin Figures /\ "." \notin Figures
  /\ "-" \notin Figures /\ "*" \notin Figures /\ "c" \notin Figures
<1>1. Figures = {DigitChars[i] : i \in 1..10}
  BY DEF Figures, ToSet, DigitChars
<1>2. \A i, j \in 1..10 : DigitChars[i] = DigitChars[j] => i = j
  BY DEF DigitChars
<1>3. ASSUME NEW k \in 0..9
      PROVE  DigitChars[k + 1] \in Figures /\ Figure(DigitChars[k + 1]) = k
  <2>1. k + 1 \in 1..10
    OBVIOUS
  <2>2. (CHOOSE i \in 1..10 : DigitChars[i] = DigitChars[k + 1]) = k + 1
    BY <1>2, <2>1
  <2>3. Figure(DigitChars[k + 1]) = k
    <3> DEFINE i == CHOOSE j \in 1..10 : DigitChars[j] = DigitChars[k + 1]
    <3>1. i = k + 1 /\ Figure(DigitChars[k + 1]) = i - 1
      BY <2>2 DEF Figure
    <3> HIDE DEF i
    <3>2. QED
      BY <3>1
  <2>4. QED
    BY <1>1, <2>1, <2>3
<1>4. \A i \in 1..10 : DigitChars[i] \notin {"/", ".", "-", "*", "c"}
  BY DEF DigitChars
<1>5. QED
  BY <1>1, <1>3, <1>4 DEF Letters

\* The figures of m, given those of less.
Step(f, m) ==
  IF m < 10 THEN <<DigitChars[m + 1]>> ELSE Append(f[m \div 10], DigitChars[(m % 10) + 1])

\* The figures of the numbers up to n.
Upto(n) == {f \in [0..n -> Seq(Figures)] : \A m \in 0..n : f[m] = Step(f, m)}

\* A figure more makes figures of figures.
LEMMA StepFacts ==
  ASSUME NEW m \in Nat, NEW f, m >= 10 => f[m \div 10] \in Seq(Figures)
  PROVE  Step(f, m) \in Seq(Figures)
<1>1. CASE m < 10
  <2>1. m \in 0..9
    BY <1>1
  <2>2. DigitChars[m + 1] \in Figures
    BY <2>1, FigureFacts
  <2>3. QED
    BY <1>1, <2>2 DEF Step
<1>2. CASE ~(m < 10)
  <2>1. m % 10 \in 0..9 /\ m >= 10
    BY <1>2
  <2>2. DigitChars[(m % 10) + 1] \in Figures
    BY <2>1, FigureFacts
  <2>3. QED
    BY <1>2, <2>1, <2>2 DEF Step
<1>3. QED
  BY <1>1, <1>2

\* Decimal recurs on a smaller number.
LEMMA TenthSmaller == \A m \in Nat : m >= 10 => m \div 10 \in 0..m - 1
OBVIOUS

\* There are figures of the numbers up to any number.
LEMMA UptoExists == \A n \in Nat : Upto(n) # {}
<1> DEFINE Lost == {n \in Nat : Upto(n) = {}}
<1>1. SUFFICES ASSUME Lost # {} PROVE FALSE
  OBVIOUS
<1>2. PICK n \in Lost : \A m \in Lost : n <= m
  <2>1. Lost \in SUBSET Nat
    OBVIOUS
  <2> HIDE DEF Lost
  <2>2. QED
    BY <1>1, <2>1, LeastNumber
<1>3. PICK f : n > 0 => f \in Upto(n - 1)
  <2>1. n > 0 => n - 1 \in Nat /\ n - 1 \notin Lost
    BY <1>2
  <2>2. QED
    BY <2>1
<1> DEFINE g == [m \in 0..n |-> IF m = n THEN Step(f, n) ELSE f[m]]
<1>4. \A m \in 0..n - 1 : f[m] \in Seq(Figures) /\ f[m] = Step(f, m) /\ g[m] = f[m]
  <2>1. TAKE m \in 0..n - 1
  <2>2. n > 0 /\ m \in 0..n /\ m # n
    BY <1>2
  <2>3. QED
    BY <1>3, <2>2 DEF Upto
<1>5. n \in Nat /\ (n >= 10 => n \div 10 \in 0..n - 1)
  BY <1>2, TenthSmaller
<1>6. Step(f, n) \in Seq(Figures)
  BY <1>4, <1>5, StepFacts
<1>7. \A m \in 0..n : m = n \/ m \in 0..n - 1
  BY <1>5
<1>8. g \in [0..n -> Seq(Figures)]
  BY <1>4, <1>5, <1>6, <1>7
<1>9. \A m \in 0..n : g[m] = Step(g, m)
  <2>1. TAKE m \in 0..n
  <2>2. g[m] = Step(f, m)
    <3>1. CASE m = n
      BY <3>1
    <3>2. CASE m # n
      BY <1>4, <1>7, <3>2
    <3>3. QED
      BY <3>1, <3>2
  <2>3. m >= 10 => g[m \div 10] = f[m \div 10]
    <3>1. m >= 10 => m \div 10 \in 0..n - 1
      BY <1>5, TenthSmaller
    <3>2. QED
      BY <1>4, <3>1
  <2> HIDE DEF g
  <2>4. QED
    BY <1>5, <2>2, <2>3 DEF Step
<1>10. Upto(n) # {}
  BY <1>8, <1>9 DEF Upto
<1>11. QED
  BY <1>2, <1>10

\* A number has one sequence of figures.
LEMMA UptoUnique ==
  ASSUME NEW n \in Nat, NEW m \in Nat, NEW f \in Upto(n), NEW g \in Upto(m)
  PROVE  \A k \in Nat : k <= n /\ k <= m => f[k] = g[k]
<1> DEFINE Apart == {k \in Nat : k <= n /\ k <= m /\ f[k] # g[k]}
<1>1. SUFFICES ASSUME Apart # {} PROVE FALSE
  OBVIOUS
<1>2. PICK k \in Apart : \A j \in Apart : k <= j
  <2>1. Apart \in SUBSET Nat
    OBVIOUS
  <2> HIDE DEF Apart
  <2>2. QED
    BY <1>1, <2>1, LeastNumber
<1>3. k >= 10 => f[k \div 10] = g[k \div 10]
  BY <1>2, TenthSmaller
<1>4. f[k] = Step(f, k) /\ g[k] = Step(g, k)
  BY <1>2 DEF Upto
<1>5. f[k] = g[k]
  BY <1>2, <1>3, <1>4 DEF Step
<1>6. QED
  BY <1>2, <1>5

\* The definition of Decimal defines it.
LEMMA DecimalStep ==
  \A n \in Nat : Decimal[n] \in Seq(Figures) /\ Decimal[n] = Step(Decimal, n)
<1> DEFINE f(n) == CHOOSE g : g \in Upto(n)
           D == [n \in Nat |-> f(n)[n]]
<1>1. \A n \in Nat : f(n) \in Upto(n)
  BY UptoExists
<1>2. \A n \in Nat : \A k \in 0..n : D[k] = f(n)[k]
  <2>1. TAKE n \in Nat
  <2>2. TAKE k \in 0..n
  <2>3. k \in Nat /\ f(k) \in Upto(k) /\ f(n) \in Upto(n) /\ k <= n /\ k <= k
    BY <1>1
  <2>4. f(k)[k] = f(n)[k]
    BY <2>3, UptoUnique
  <2>5. QED
    BY <2>3, <2>4
<1>3. ASSUME NEW n \in Nat
      PROVE  D[n] = Step(D, n) /\ D[n] \in Seq(Figures)
  <2>1. f(n)[n] = Step(f(n), n) /\ f(n)[n] \in Seq(Figures)
    <3>1. f(n) \in Upto(n) /\ n \in 0..n
      BY <1>1
    <3> HIDE DEF f
    <3>2. QED
      BY <3>1 DEF Upto
  <2>2. n >= 10 => D[n \div 10] = f(n)[n \div 10]
    <3>1. n >= 10 => n \div 10 \in 0..n
      BY TenthSmaller
    <3> HIDE DEF D, f
    <3>2. QED
      BY <1>2, <3>1
  <2>3. D[n] = f(n)[n]
    OBVIOUS
  <2> HIDE DEF D, f
  <2>4. QED
    BY <2>1, <2>2, <2>3 DEF Step
<1>4. D = [n \in Nat |-> Step(D, n)]
  BY <1>3
<1> HIDE DEF D
<1>5. Decimal = CHOOSE g : g = [n \in Nat |-> Step(g, n)]
  BY DEF Decimal, Step
<1>6. Decimal = [n \in Nat |-> Step(Decimal, n)]
  BY <1>4, <1>5
<1>7. \A n \in Nat : Decimal[n] = Step(Decimal, n)
  BY <1>6
<1> DEFINE Odd == {n \in Nat : Decimal[n] \notin Seq(Figures)}
<1>8. Odd = {}
  <2>1. SUFFICES ASSUME Odd # {} PROVE FALSE
    OBVIOUS
  <2>2. PICK n \in Odd : \A m \in Odd : n <= m
    <3>1. Odd \in SUBSET Nat
      OBVIOUS
    <3> HIDE DEF Odd
    <3>2. QED
      BY <2>1, <3>1, LeastNumber
  <2>3. n >= 10 => n \div 10 \in Nat /\ n \div 10 \notin Odd
    BY <2>2, TenthSmaller
  <2>4. Step(Decimal, n) \in Seq(Figures)
    BY <2>2, <2>3, StepFacts
  <2>5. QED
    BY <1>7, <2>2, <2>4
<1>9. QED
  BY <1>7, <1>8

-----------------------------------------------------------------------------
\* The name of a file: what stands before the description, where the last dash and
\* the last dot are.

Before(d) == IF Folders(d) = {} THEN 7 ELSE 0
Dash(d) == Before(d) + Len(d) + 1
Dot(d, id) == Dash(d) + Len(Decimal[id]) + 1

\* The parts of a file name: prefix, path, dash, figures and ".cor".
LEMMA WholeNameFacts ==
  ASSUME NEW d \in Seq(Characters), NEW id \in Nat
  PROVE  /\ WholeName(d, id) \in Texts /\ Len(WholeName(d, id)) = Dot(d, id) + 3
         /\ \A i \in 1..Before(d) : WholeName(d, id)[i] # "/"
         /\ \A i \in 1..Len(d) : WholeName(d, id)[Before(d) + i] = PathName(d)[i]
         /\ WholeName(d, id)[Dash(d)] = "-"
         /\ \A i \in 1..Len(Decimal[id]) : WholeName(d, id)[Dash(d) + i] = Decimal[id][i]
         /\ WholeName(d, id)[Dot(d, id)] = "." /\ WholeName(d, id)[Dot(d, id) + 1] = "c"
         /\ WholeName(d, id)[Dot(d, id) + 2] = "o" /\ WholeName(d, id)[Dot(d, id) + 3] = "r"
<1> DEFINE x == IF Folders(d) = {} THEN <<"r", "e", "p", "l", "a", "y", "-">> ELSE <<>>
           p == PathName(d)
           h == <<"-">>
           n == Decimal[id]
           e == <<".", "c", "o", "r">>
           f == WholeName(d, id)
<1>1. f = (((x \o p) \o h) \o n) \o e
  BY DEF WholeName
<1>2. x \in Texts /\ Len(x) = Before(d) /\ \A i \in 1..Before(d) : x[i] # "/"
  <2>1. CASE Folders(d) = {}
    <3>1. x = <<"r", "e", "p", "l", "a", "y", "-">> /\ Before(d) = 7
      BY <2>1 DEF Before
    <3>2. {"r", "e", "p", "l", "a", "y", "-"} \subseteq Letters
      BY DEF Letters
    <3>3. x \in Seq(Letters) /\ Len(x) = 7
      BY <3>1, <3>2
    <3>4. \A i \in 1..7 : x[i] # "/"
      BY <3>1
    <3>5. QED
      BY <3>1, <3>3, <3>4 DEF Texts
  <2>2. CASE Folders(d) # {}
    <3>1. x = <<>> /\ Before(d) = 0
      BY <2>2 DEF Before
    <3>2. QED
      BY <3>1 DEF Texts
  <2>3. QED
    BY <2>1, <2>2
<1>3. p \in Texts /\ Len(p) = Len(d) /\ Len(d) \in Nat
  BY PathNameFacts, LenProperties
<1>4. h \in Texts /\ Len(h) = 1 /\ h[1] = "-"
  <2>1. "-" \in Letters
    BY DEF Letters
  <2>2. QED
    BY <2>1 DEF Texts
<1>5. n \in Texts /\ Len(n) \in Nat
  <2>1. n \in Seq(Figures) /\ Figures \subseteq Letters
    BY DecimalStep, FigureFacts
  <2> HIDE DEF n
  <2>2. QED
    BY <2>1, SeqMonotonic DEF Texts
<1>6. /\ e \in Texts /\ Len(e) = 4
      /\ e[1] = "." /\ e[2] = "c" /\ e[3] = "o" /\ e[4] = "r"
  <2>1. {".", "c", "o", "r"} \subseteq Letters
    BY DEF Letters
  <2>2. QED
    BY <2>1 DEF Texts
<1>7. Before(d) \in Nat
  BY DEF Before
<1> DEFINE xp == x \o p
           xph == xp \o h
           xphn == xph \o n
<1> HIDE DEF x, p, h, n, e, f
<1>8. /\ xp \in Texts /\ Len(xp) = Before(d) + Len(d)
      /\ \A i \in 1..Before(d) : xp[i] = x[i]
      /\ \A i \in 1..Len(d) : xp[Before(d) + i] = p[i]
  <2>1. /\ xp \in Texts /\ Len(xp) = Len(x) + Len(p)
        /\ \A i \in 1..Len(x) : xp[i] = x[i]
        /\ \A i \in 1..Len(p) : xp[Len(x) + i] = p[i]
    BY <1>2, <1>3, Joined
  <2> HIDE DEF xp
  <2>2. QED
    BY <1>2, <1>3, <2>1
<1> HIDE DEF xp
<1>9. /\ xph \in Texts /\ Len(xph) = Dash(d)
      /\ \A i \in 1..Before(d) + Len(d) : xph[i] = xp[i]
      /\ xph[Dash(d)] = "-"
  <2>1. /\ xph \in Texts /\ Len(xph) = Len(xp) + Len(h)
        /\ \A i \in 1..Len(xp) : xph[i] = xp[i]
        /\ \A i \in 1..Len(h) : xph[Len(xp) + i] = h[i]
    BY <1>4, <1>8, Joined
  <2> HIDE DEF xph
  <2>2. 1 \in 1..Len(h)
    BY <1>4
  <2>3. xph[Len(xp) + 1] = h[1]
    BY <2>1, <2>2
  <2>4. QED
    BY <1>4, <1>8, <2>1, <2>3 DEF Dash
<1> HIDE DEF xph
<1>10. /\ xphn \in Texts /\ Len(xphn) = Dash(d) + Len(n)
       /\ \A i \in 1..Dash(d) : xphn[i] = xph[i]
       /\ \A i \in 1..Len(n) : xphn[Dash(d) + i] = n[i]
  <2>1. /\ xphn \in Texts /\ Len(xphn) = Len(xph) + Len(n)
        /\ \A i \in 1..Len(xph) : xphn[i] = xph[i]
        /\ \A i \in 1..Len(n) : xphn[Len(xph) + i] = n[i]
    BY <1>5, <1>9, Joined
  <2> HIDE DEF xphn
  <2>2. QED
    BY <1>9, <2>1
<1> HIDE DEF xphn
<1>11. /\ f \in Texts /\ Len(f) = Dash(d) + Len(n) + 4
       /\ \A i \in 1..Dash(d) + Len(n) : f[i] = xphn[i]
       /\ \A i \in 1..4 : f[Dash(d) + Len(n) + i] = e[i]
  <2>1. f = xphn \o e
    BY <1>1 DEF xphn, xph, xp
  <2>2. /\ xphn \o e \in Texts /\ Len(xphn \o e) = Len(xphn) + Len(e)
        /\ \A i \in 1..Len(xphn) : (xphn \o e)[i] = xphn[i]
        /\ \A i \in 1..Len(e) : (xphn \o e)[Len(xphn) + i] = e[i]
    BY <1>6, <1>10, Joined
  <2>3. QED
    BY <1>6, <1>10, <2>1, <2>2
<1>12. Dash(d) = Before(d) + Len(d) + 1 /\ Dash(d) \in Nat /\ Dot(d, id) = Dash(d) + Len(n) + 1
  BY <1>3, <1>7 DEF Dash, Dot, n
<1>13. ASSUME NEW i \in 1..Before(d)  PROVE f[i] # "/"
  <2>1. i \in 1..Before(d) + Len(d) /\ i \in 1..Dash(d) /\ i \in 1..Dash(d) + Len(n)
    BY <1>3, <1>5, <1>7, <1>12
  <2>2. f[i] = xphn[i] /\ xphn[i] = xph[i] /\ xph[i] = xp[i] /\ xp[i] = x[i]
    BY <1>8, <1>9, <1>10, <1>11, <2>1
  <2>3. QED
    BY <1>2, <2>2
<1>14. ASSUME NEW i \in 1..Len(d)  PROVE f[Before(d) + i] = p[i]
  <2>1. /\ Before(d) + i \in 1..Before(d) + Len(d) /\ Before(d) + i \in 1..Dash(d)
        /\ Before(d) + i \in 1..Dash(d) + Len(n)
    BY <1>3, <1>5, <1>7, <1>12
  <2>2. QED
    BY <1>8, <1>9, <1>10, <1>11, <2>1
<1>15. f[Dash(d)] = "-"
  <2>1. Dash(d) \in 1..Dash(d) /\ Dash(d) \in 1..Dash(d) + Len(n)
    BY <1>3, <1>5, <1>7, <1>12
  <2>2. f[Dash(d)] = xphn[Dash(d)] /\ xphn[Dash(d)] = xph[Dash(d)]
    BY <1>10, <1>11, <2>1
  <2>3. QED
    BY <1>9, <2>2
<1>16. ASSUME NEW i \in 1..Len(n)  PROVE f[Dash(d) + i] = n[i]
  <2>1. Dash(d) + i \in 1..Dash(d) + Len(n)
    BY <1>5, <1>12
  <2>2. QED
    BY <1>10, <1>11, <2>1
<1>17. /\ f[Dot(d, id)] = "." /\ f[Dot(d, id) + 1] = "c"
       /\ f[Dot(d, id) + 2] = "o" /\ f[Dot(d, id) + 3] = "r"
  <2>1. /\ f[Dash(d) + Len(n) + 1] = e[1] /\ f[Dash(d) + Len(n) + 2] = e[2]
        /\ f[Dash(d) + Len(n) + 3] = e[3] /\ f[Dash(d) + Len(n) + 4] = e[4]
    BY <1>11
  <2>2. /\ Dot(d, id) = Dash(d) + Len(n) + 1 /\ Dot(d, id) + 1 = Dash(d) + Len(n) + 2
        /\ Dot(d, id) + 2 = Dash(d) + Len(n) + 3 /\ Dot(d, id) + 3 = Dash(d) + Len(n) + 4
    BY <1>5, <1>12
  <2>3. QED
    BY <1>6, <2>1, <2>2
<1>18. Len(f) = Dot(d, id) + 3
  BY <1>5, <1>11, <1>12
<1>19. QED
  BY <1>11, <1>13, <1>14, <1>15, <1>16, <1>17, <1>18 DEF f, p, n

\* What is at none of these places is before them: arithmetic.
LEMMA BeforeThese ==
  ASSUME NEW j \in Nat, NEW a \in Nat, NEW m \in Nat, j # a, j - a \notin 1..m,
         j <= a + m + 4, j # a + m + 1, j # a + m + 2, j # a + m + 3, j # a + m + 4
  PROVE  j < a
OBVIOUS

\* Its slashes are those of the path, and it ends after them.
LEMMA WholeNameSlashes ==
  ASSUME NEW d \in Seq(Characters), NEW id \in Nat
  PROVE  /\ Before(d) \in Nat /\ Len(d) \in Nat /\ Dash(d) \in Nat /\ Len(Decimal[id]) \in Nat
         /\ \A j \in 1..Len(WholeName(d, id)) : WholeName(d, id)[j] = "/" =>
              /\ j - Before(d) \in 1..Len(d)
              /\ PathName(d)[j - Before(d)] = "/"
<1> DEFINE f == WholeName(d, id)
           n == Decimal[id]
<1>1. n \in Seq(Figures) /\ Len(n) \in Nat /\ \A i \in 1..Len(n) : n[i] \in Figures
  <2>1. n \in Seq(Figures)
    BY DecimalStep
  <2> HIDE DEF n
  <2>2. QED
    BY <2>1, ElementOfSeq
<1>2. Before(d) \in Nat /\ Len(d) \in Nat /\ Dash(d) \in Nat
  BY LenProperties DEF Before, Dash
<1>3. ASSUME NEW j \in 1..Len(f), f[j] = "/"
      PROVE  j - Before(d) \in 1..Len(d) /\ PathName(d)[j - Before(d)] = "/"
  <2>1. j \notin 1..Before(d)
    BY <1>3, WholeNameFacts
  <2>2. j # Dash(d)
    BY <1>3, WholeNameFacts
  <2>3. j - Dash(d) \notin 1..Len(n)
    <3>1. SUFFICES ASSUME j - Dash(d) \in 1..Len(n) PROVE FALSE
      OBVIOUS
    <3>2. \A i \in 1..Len(n) : f[Dash(d) + i] = n[i]
      BY WholeNameFacts
    <3> HIDE DEF f, n
    <3>3. f[Dash(d) + (j - Dash(d))] = n[j - Dash(d)] /\ Dash(d) + (j - Dash(d)) = j
      BY <1>2, <3>1, <3>2
    <3>4. "/" \in Figures
      BY <1>1, <1>3, <3>1, <3>3
    <3>5. QED
      BY <3>4, FigureFacts
  <2>4. j \notin {Dot(d, id), Dot(d, id) + 1, Dot(d, id) + 2, Dot(d, id) + 3}
    BY <1>3, WholeNameFacts
  <2>5. Len(f) = Dot(d, id) + 3 /\ Dot(d, id) = Dash(d) + Len(n) + 1
    BY WholeNameFacts DEF Dot
  <2> HIDE DEF f, n
  <2>6. j - Before(d) \in 1..Len(d)
    <3>1. j \in Nat /\ 1 <= j /\ j <= Dash(d) + Len(n) + 4
      BY <1>1, <1>2, <2>5
    <3>2. /\ j # Dash(d) + Len(n) + 1 /\ j # Dash(d) + Len(n) + 2
          /\ j # Dash(d) + Len(n) + 3 /\ j # Dash(d) + Len(n) + 4
      BY <1>1, <1>2, <2>4, <2>5
    <3>3. j < Dash(d)
      <4>1. Len(n) \in Nat
        BY <1>1
      <4>2. QED
        BY <1>2, <2>2, <2>3, <3>1, <3>2, <4>1, BeforeThese
    <3>4. QED
      BY <1>2, <2>1, <3>1, <3>3 DEF Dash
  <2>7. f[Before(d) + (j - Before(d))] = PathName(d)[j - Before(d)]
    BY <2>6, WholeNameFacts DEF f
  <2>8. Before(d) + (j - Before(d)) = j
    BY <1>2
  <2>9. QED
    BY <1>3, <2>6, <2>7, <2>8
<1>4. QED
  BY <1>1, <1>2, <1>3

NamesSpec == NamesInit /\ [][NamesNext]_namesVars

\* Slashes of a path are where folders end.
LEMMA FoldersFacts ==
  ASSUME NEW d \in Seq(Characters), NEW id \in Nat,
         NEW j \in 1..Len(WholeName(d, id)), WholeName(d, id)[j] = "/"
  PROVE  /\ Before(d) = 0 /\ j \in 1..Len(d) /\ PathName(d)[j] = "/"
         /\ SubSeq(WholeName(d, id), 1, j - 1) = SubSeq(PathName(d), 1, j - 1)
         /\ SubSeq(PathName(d), 1, j - 1) \in Folders(d)
<1> DEFINE f == WholeName(d, id)
           p == PathName(d)
<1>1. j - Before(d) \in 1..Len(d) /\ p[j - Before(d)] = "/"
  BY WholeNameSlashes
<1>2. DOMAIN d = 1..Len(d) /\ Len(d) \in Nat
  BY LenProperties
<1>3. SubSeq(p, 1, (j - Before(d)) - 1) \in Folders(d)
  BY <1>1, <1>2 DEF Folders
<1>4. Before(d) = 0
  BY <1>3 DEF Before
<1>5. j - Before(d) = j
  BY <1>4
<1>6. j \in 1..Len(d) /\ p[j] = "/" /\ SubSeq(p, 1, j - 1) \in Folders(d)
  BY <1>1, <1>3, <1>5
<1>7. SubSeq(f, 1, j - 1) = SubSeq(p, 1, j - 1)
  <2>1. /\ f \in Texts /\ p \in Texts /\ Len(p) = Len(d)
        /\ \A i \in 1..Len(d) : f[Before(d) + i] = p[i]
    BY WholeNameFacts, PathNameFacts
  <2> HIDE DEF f, p
  <2>2. \A i \in 1..j - 1 : i \in 1..Len(p) /\ i \in 1..Len(f) /\ f[i] = p[i]
    <3>1. TAKE i \in 1..j - 1
    <3>2. i \in 1..Len(d) /\ Before(d) + i = i /\ i \in 1..Len(f)
      BY <1>2, <1>4, <1>6, <2>1 DEF Texts, f
    <3>3. QED
      BY <2>1, <3>2
  <2>3. /\ SubSeq(f, 1, j - 1) \in Seq(Letters) /\ Len(SubSeq(f, 1, j - 1)) = j - 1
        /\ \A i \in 1..j - 1 : SubSeq(f, 1, j - 1)[i] = f[i]
    <3>1. \A i \in 1..j - 1 : i \in 1..Len(f)
      BY <2>2
    <3>2. QED
      BY <1>6, <2>1, <3>1, SubSeqProperties DEF Texts
  <2>4. /\ SubSeq(p, 1, j - 1) \in Seq(Letters) /\ Len(SubSeq(p, 1, j - 1)) = j - 1
        /\ \A i \in 1..j - 1 : SubSeq(p, 1, j - 1)[i] = p[i]
    <3>1. \A i \in 1..j - 1 : i \in 1..Len(p)
      BY <2>2
    <3>2. QED
      BY <1>6, <2>1, <3>1, SubSeqProperties DEF Texts
  <2>5. QED
    BY <2>2, <2>3, <2>4, SeqEqual
<1>8. QED
  BY <1>4, <1>6, <1>7

\* What follows the last slash is longer than "..": arithmetic.
LEMMA LastIsLong ==
  ASSUME NEW x \in Nat, NEW y \in Nat, NEW z \in Nat, NEW b, b = x + y + z + 5 + 1,
         NEW a \in Nat, a <= y
  PROVE  b - 1 - a > 2
OBVIOUS

\* No part of a path between slashes is empty or "..".
LEMMA ComponentFacts ==
  ASSUME NEW d \in Seq(Characters), NEW id \in Nat, NEW c \in Components(WholeName(d, id))
  PROVE  c \notin {<<>>, <<".", ".">>}
<1> DEFINE f == WholeName(d, id)
           p == PathName(d)
           Slashes == {i \in DOMAIN f : f[i] = "/"}
<1>1. /\ f \in Texts /\ Len(f) \in Nat /\ DOMAIN f = 1..Len(f)
      /\ Len(f) = Dot(d, id) + 3
  BY WholeNameFacts, LenProperties DEF Texts
<1>2. PICK a \in {0, Len(f) + 1} \cup Slashes, b \in {0, Len(f) + 1} \cup Slashes :
        a < b /\ c = SubSeq(f, a + 1, b - 1)
  BY DEF Components
<1>3. \A j \in Slashes : /\ j \in 1..Len(d) /\ p[j] = "/" /\ Before(d) = 0
  BY <1>1, FoldersFacts
<1>4. /\ Len(d) \in Nat /\ Before(d) \in Nat /\ Len(Decimal[id]) \in Nat
      /\ Len(f) = Before(d) + Len(d) + Len(Decimal[id]) + 5
  <2>1. Len(d) \in Nat /\ Before(d) \in Nat /\ Len(Decimal[id]) \in Nat
    BY WholeNameSlashes
  <2>2. QED
    BY <1>1, <2>1 DEF Dot, Dash
<1>5. a \in Nat /\ b \in Nat /\ b # 0 /\ b <= Len(f) + 1 /\ a <= Len(f)
  BY <1>1, <1>2
<1>6. /\ Len(c) = b - 1 - a
      /\ \A i \in 1..b - 1 - a : c[i] = f[a + i]
  <2>1. \A i \in a + 1..b - 1 : i \in 1..Len(f)
    BY <1>1, <1>5
  <2>2. /\ Len(SubSeq(f, a + 1, b - 1)) = IF a + 1 <= b - 1 THEN b - 1 - (a + 1) + 1 ELSE 0
        /\ \A i \in 1..b - 1 - (a + 1) + 1 : SubSeq(f, a + 1, b - 1)[i] = f[a + 1 + i - 1]
    BY <1>1, <1>5, <2>1, SubSeqProperties DEF Texts
  <2>3. /\ b - 1 - (a + 1) + 1 = b - 1 - a
        /\ (IF a + 1 <= b - 1 THEN b - 1 - (a + 1) + 1 ELSE 0) = b - 1 - a
        /\ \A i \in 1..b - 1 - a : a + 1 + i - 1 = a + i
    BY <1>2, <1>5
  <2> HIDE DEF f
  <2>4. QED
    BY <1>2, <2>2, <2>3
<1>7. /\ c = <<>> => Len(c) = 0
      /\ c = <<".", ".">> => Len(c) = 2 /\ c[1] = "." /\ c[2] = "."
  <2>1. Len(<<>>) = 0 /\ Len(<<".", ".">>) = 2 /\ <<".", ".">>[1] = "." /\ <<".", ".">>[2] = "."
    OBVIOUS
  <2>2. QED
    BY <2>1
<1> HIDE DEF f, p
<1>8. CASE b = Len(f) + 1
  <2>1. a <= Len(d)
    <3>1. a = 0 \/ a \in Slashes
      BY <1>2, <1>5
    <3> HIDE DEF Slashes
    <3>2. QED
      BY <1>3, <1>4, <3>1
  <2>2. b = Before(d) + Len(d) + Len(Decimal[id]) + 5 + 1
    BY <1>4, <1>8
  <2>3. b - 1 - a > 2
    BY <1>4, <1>5, <2>1, <2>2, LastIsLong
  <2>4. Len(c) = b - 1 - a
    BY <1>6
  <2>5. Len(c) > 2
    BY <2>3, <2>4, Zenon
  <2>6. Len(c) # 0 /\ Len(c) # 2
    BY <1>5, <2>4, <2>5
  <2>7. QED
    BY <1>7, <2>6
<1>9. CASE b # Len(f) + 1
  <2>1. b \in Slashes
    BY <1>2, <1>5, <1>9
  <2>2. b \in 1..Len(d) /\ p[b] = "/" /\ Before(d) = 0
    BY <1>3, <2>1
  <2>3. \A i \in 1..Len(d) : f[i] = p[i]
    <3>1. \A i \in 1..Len(d) : f[Before(d) + i] = p[i]
      BY WholeNameFacts DEF f, p
    <3>2. \A i \in 1..Len(d) : Before(d) + i = i
      BY <2>2
    <3>3. QED
      BY <3>1, <3>2
  <2>4. /\ Len(p) = Len(d) /\ p[1] # "/"
        /\ \A i \in 1..Len(d) : Harmless(p, i)
    BY <1>4, <2>2, PathNameFacts DEF p
  <2>5. c # <<>>
    <3>1. SUFFICES ASSUME b = a + 1 PROVE FALSE
      BY <1>5, <1>6, <1>7
    <3>2. a # 0
      BY <2>2, <2>4, <3>1
    <3>3. a \in Slashes
      BY <1>2, <1>5, <3>2
    <3>4. p[a] = "/" /\ a \in 1..Len(d) /\ a + 1 <= Len(p) /\ p[a + 1] = "/"
      BY <1>3, <2>2, <2>4, <3>1, <3>3
    <3>5. QED
      BY <2>4, <3>4 DEF Harmless
  <2>6. c # <<".", ".">>
    <3>1. SUFFICES ASSUME b = a + 3, c[1] = ".", c[2] = "." PROVE FALSE
      <4>1. b - 1 - a = 2 => b = a + 3
        BY <1>5
      <4>2. QED
        BY <1>6, <1>7, <4>1
    <3>2. 1 \in 1..b - 1 - a /\ 2 \in 1..b - 1 - a
      BY <1>5, <3>1
    <3>3. f[a + 1] = "." /\ f[a + 2] = "."
      BY <1>6, <3>1, <3>2
    <3>4. /\ a + 1 \in 1..Len(d) /\ a + 2 \in 1..Len(d) /\ a + 1 + 1 = a + 2 /\ a + 1 + 2 = b
          /\ a + 1 + 2 <= Len(p)
      BY <1>4, <1>5, <2>2, <2>4, <3>1
    <3>5. p[a + 1] = "." /\ p[a + 1 + 1] = "." /\ p[a + 1 + 2] = "/"
      BY <2>2, <2>3, <3>3, <3>4
    <3>6. QED
      BY <2>4, <3>4, <3>5 DEF Harmless
  <2>7. QED
    BY <2>5, <2>6
<1>10. QED
  BY <1>8, <1>9

-----------------------------------------------------------------------------
\* The description that is typed is a text of the characters there are.
Typed == description \in Seq(Characters)

\* That is an invariant.
LEMMA TypedInvariant == NamesSpec => []Typed
<1>1. NamesInit => Typed
  BY DEF NamesInit, Typed
<1>2. Typed /\ [NamesNext]_namesVars => Typed'
  BY DEF NamesNext, Type, Visit, namesVars, Typed
<1>3. QED
  BY <1>1, <1>2, PTL DEF NamesSpec

\* Whatever the description, if the name is not cut the file of a replay is below the
\* replay folder, and the folders on its path are those that were made for it.
THEOREM FilesBelowFolderHolds == NamesSpec => []FilesBelowFolder
<1>1. ASSUME Typed
      PROVE  FilesBelowFolder
  <2> DEFINE d == description
  <2>1. SUFFICES ASSUME NEW id \in GameIDs, Len(WholeName(d, id)) < BufferLength
                 PROVE  LET f == FileName(d, id) IN
                        /\ f[1] # "/" /\ Components(f) \cap {<<>>, <<".", ".">>} = {}
                        /\ {SubSeq(f, 1, i - 1) : i \in {j \in DOMAIN f : f[j] = "/"}}
                             \subseteq Folders(d)
    BY DEF FilesBelowFolder
  <2> DEFINE f == WholeName(d, id)
  <2>0. FileName(d, id) = f
    BY <2>1 DEF FileName, Cut
  <2>2. id \in Nat /\ d \in Seq(Characters)
    BY <1>1, NamesAssumption DEF Typed
  <2>3. f \in Texts /\ DOMAIN f = 1..Len(f) /\ Len(f) \in Nat /\ Len(f) = Dot(d, id) + 3
    BY <2>2, WholeNameFacts, LenProperties DEF Texts
  <2> HIDE DEF d
  <2>4. f[1] # "/"
    <3>1. SUFFICES ASSUME f[1] = "/" PROVE FALSE
      OBVIOUS
    <3>2. 1 \in 1..Len(f)
      <4>1. Before(d) \in Nat /\ Len(d) \in Nat /\ Len(Decimal[id]) \in Nat
        BY <2>2, WholeNameSlashes
      <4>2. QED
        BY <2>3, <4>1 DEF Dot, Dash
    <3>3. 1 \in 1..Len(d) /\ PathName(d)[1] = "/"
      BY <2>2, <3>1, <3>2, FoldersFacts
    <3>4. Len(d) > 0
      BY <3>3
    <3>5. QED
      BY <2>2, <3>3, <3>4, PathNameFacts
  <2>5. Components(f) \cap {<<>>, <<".", ".">>} = {}
    BY <2>2, ComponentFacts
  <2>6. ASSUME NEW i \in DOMAIN f, f[i] = "/"
        PROVE  SubSeq(f, 1, i - 1) \in Folders(d)
    BY <2>2, <2>3, <2>6, FoldersFacts
  <2>7. QED
    BY <2>0, <2>4, <2>5, <2>6
<1>2. QED
  BY <1>1, TypedInvariant, PTL

-----------------------------------------------------------------------------
\* mg_match: a state of its loop leads to a match when it is the end of both texts or
\* has a next state that leads to one.
Leads(D, E, M, n) ==
  {A \in SUBSET D : \A x \in D : x \in A <=> x \in E \/ (x \in M /\ n[x] \in A)}

\* There is a least such set.
LEMMA Leading ==
  ASSUME NEW D, NEW E \in SUBSET D, NEW M \in SUBSET D, NEW n \in [M -> D]
  PROVE  \E A : A \in Leads(D, E, M, n)
<1> DEFINE Closed(B) == \A x \in D : x \in E \/ (x \in M /\ n[x] \in B) => x \in B
           A == {x \in D : \A B \in SUBSET D : Closed(B) => x \in B}
<1>1. \A x \in D : x \in E \/ (x \in M /\ n[x] \in A) => x \in A
  OBVIOUS
<1>2. ASSUME NEW x \in A, ~(x \in E \/ (x \in M /\ n[x] \in A))
      PROVE  FALSE
  <2> DEFINE B == A \ {x}
  <2>1. Closed(B)
    <3>1. SUFFICES ASSUME NEW y \in D, y \in E \/ (y \in M /\ n[y] \in B) PROVE y \in B
      OBVIOUS
    <3>2. y \in A
      BY <1>1, <3>1
    <3>3. y # x
      BY <1>2, <3>1
    <3>4. QED
      BY <3>2, <3>3
  <2>2. B \in SUBSET D /\ x \notin B
    OBVIOUS
  <2> HIDE DEF B
  <2>3. QED
    BY <2>1, <2>2
<1>3. A \in SUBSET D
  OBVIOUS
<1> HIDE DEF A
<1>4. \A x \in D : x \in A <=> x \in E \/ (x \in M /\ n[x] \in A)
  BY <1>1, <1>2
<1>5. QED
  BY <1>3, <1>4 DEF Leads

\* Indices stay in range as the match goes on: arithmetic.
LEMMA Onward ==
  \A b \in Nat : \A a \in 1..b + 1 : a + 1 \in 0..b + 2 /\ (a <= b => a + 1 \in 1..b + 1)
OBVIOUS

\* One turn of the loop, given what the states lead to.
Turn(s, p, f, x) ==
  LET i == x[1]  ni == x[2]  j == x[3]  nj == x[4] IN
  IF i > Len(p) /\ j > Len(s) THEN TRUE
  ELSE IF i <= Len(p) /\ j <= Len(s) /\ p[i] = s[j] THEN f[<<i + 1, ni, j + 1, nj>>]
  ELSE IF i <= Len(p) /\ p[i] = "*" THEN f[<<i + 1, i, j, j + 1>>]
  ELSE IF nj \in 1..Len(s) + 1 /\ (j > Len(s) \/ s[j] # "/") THEN f[<<ni, ni, nj, nj>>]
  ELSE FALSE

States(s, p) == (1..Len(p) + 1) \X (1..Len(p) + 1) \X (1..Len(s) + 1) \X (0..Len(s) + 2)

\* Its definition defines a function.
LEMMA MatchTurns ==
  ASSUME NEW s, NEW p, Len(s) \in Nat, Len(p) \in Nat
  PROVE  \E f : /\ Match(s, p) = f[<<1, 1, 1, 0>>]
                /\ \A x \in States(s, p) : f[x] = Turn(s, p, f, x)
<1> DEFINE P == 1..Len(p) + 1
           S == 1..Len(s) + 1
           R == 0..Len(s) + 2
           D == States(s, p)
           Ends(x) == x[1] > Len(p) /\ x[3] > Len(s)
           Same(x) == x[1] <= Len(p) /\ x[3] <= Len(s) /\ p[x[1]] = s[x[3]]
           Star(x) == x[1] <= Len(p) /\ p[x[1]] = "*"
           Back(x) == x[4] \in S /\ (x[3] > Len(s) \/ s[x[3]] # "/")
           E == {x \in D : Ends(x)}
           M == {x \in D : ~Ends(x) /\ (Same(x) \/ Star(x) \/ Back(x))}
           Then(x) == IF Same(x) THEN <<x[1] + 1, x[2], x[3] + 1, x[4]>>
                      ELSE IF Star(x) THEN <<x[1] + 1, x[1], x[3], x[3] + 1>>
                      ELSE <<x[2], x[2], x[4], x[4]>>
           n == [x \in M |-> Then(x)]
<1>1. \A x \in D : x[1] \in P /\ x[2] \in P /\ x[3] \in S /\ x[4] \in R
  BY DEF States
<1>2. \A x \in M : Then(x) \in D
  <2>1. TAKE x \in M
  <2>2. x[1] \in P /\ x[2] \in P /\ x[3] \in S /\ x[4] \in R
    BY <1>1
  <2>3. CASE Same(x)
    <3>1. x[1] + 1 \in P /\ x[3] + 1 \in S
      <4>1. x[1] <= Len(p) /\ x[3] <= Len(s)
        BY <2>3
      <4>2. QED
        BY <2>2, <4>1, Onward, Zenon
    <3>2. Then(x) = <<x[1] + 1, x[2], x[3] + 1, x[4]>>
      BY <2>3
    <3>3. QED
      BY <2>2, <3>1, <3>2 DEF States
  <2>4. CASE ~Same(x) /\ Star(x)
    <3>1. x[1] + 1 \in P /\ x[3] + 1 \in R
      <4>1. x[1] <= Len(p)
        BY <2>4
      <4>2. QED
        BY <2>2, <4>1, Onward, Zenon
    <3>2. Then(x) = <<x[1] + 1, x[1], x[3], x[3] + 1>>
      BY <2>4
    <3>3. QED
      BY <2>2, <3>1, <3>2 DEF States
  <2>5. CASE ~Same(x) /\ ~Star(x)
    <3>1. x[4] \in S
      BY <2>1, <2>5
    <3>2. Then(x) = <<x[2], x[2], x[4], x[4]>>
      BY <2>5
    <3>3. QED
      BY <2>2, <3>1, <3>2 DEF States
  <2>6. QED
    BY <2>3, <2>4, <2>5
<1>3. n \in [M -> D] /\ E \in SUBSET D /\ M \in SUBSET D
  BY <1>2
<1>4. \A x \in M : n[x] = Then(x)
  OBVIOUS
<1>5. \E A : A \in Leads(D, E, M, n)
  <2> HIDE DEF n, E, M, D
  <2>1. QED
    BY <1>3, Leading
<1>6. PICK A \in SUBSET D : \A x \in D : x \in A <=> x \in E \/ (x \in M /\ n[x] \in A)
  <2> HIDE DEF n, E, M, D
  <2>1. QED
    BY <1>5 DEF Leads
<1> DEFINE h == [x \in D |-> IF x \in A THEN TRUE ELSE FALSE]
<1>7. \A x \in D : h[x] = IF x \in A THEN TRUE ELSE FALSE
  OBVIOUS
<1> HIDE DEF h
<1>8. \A x \in D : h[x] = Turn(s, p, h, x)
  <2>1. TAKE x \in D
  <2>2. x \in A <=> Ends(x) \/ (x \in M /\ n[x] \in A)
    <3>1. x \in A <=> x \in E \/ (x \in M /\ n[x] \in A)
      BY <1>6, <2>1
    <3>2. x \in E <=> Ends(x)
      BY <2>1
    <3>3. QED
      BY <3>1, <3>2
  <2>3. x \in M <=> ~Ends(x) /\ (Same(x) \/ Star(x) \/ Back(x))
    BY <2>1
  <2>4. x \in M => n[x] = Then(x) /\ n[x] \in D
    BY <1>2, <1>4
  <2>5. CASE Ends(x)
    <3>1. h[x] = TRUE
      BY <1>7, <2>1, <2>2, <2>5
    <3>2. Turn(s, p, h, x) = TRUE
      BY <2>5 DEF Turn
    <3>3. QED
      BY <3>1, <3>2
  <2>6. CASE x \in M
    <3>1. ~Ends(x) /\ n[x] \in D
      BY <2>3, <2>4, <2>6
    <3>2. x \in A <=> n[x] \in A
      BY <2>2, <2>6, <3>1
    <3>3. h[x] = h[n[x]]
      <4> HIDE DEF n, M, D
      <4>1. QED
        BY <1>7, <2>1, <3>1, <3>2
    <3>4. h[n[x]] = Turn(s, p, h, x)
      <4>1. Turn(s, p, h, x) = h[Then(x)]
        BY <2>3, <2>6, <3>1 DEF Turn
      <4>2. QED
        BY <2>4, <2>6, <4>1
    <3>5. QED
      BY <3>3, <3>4
  <2>7. CASE ~Ends(x) /\ x \notin M
    <3>1. h[x] = FALSE
      BY <1>7, <2>1, <2>2, <2>7
    <3>2. Turn(s, p, h, x) = FALSE
      BY <2>3, <2>7 DEF Turn
    <3>3. QED
      BY <3>1, <3>2
  <2>8. QED
    BY <2>5, <2>6, <2>7
<1> DEFINE from == CHOOSE f : f = [x \in D |-> Turn(s, p, f, x)]
<1>9. h = [x \in D |-> Turn(s, p, h, x)]
  <2>1. h = [x \in D |-> h[x]]
    BY DEF h
  <2>2. QED
    BY <1>8, <2>1
<1>10. from = [x \in D |-> Turn(s, p, from, x)]
  BY <1>9
<1>11. Match(s, p) = from[<<1, 1, 1, 0>>]
  BY DEF Match, Turn, States
<1> HIDE DEF from
<1>12. \A x \in D : from[x] = Turn(s, p, from, x)
  <2> HIDE DEF D
  <2>1. QED
    BY <1>10
<1>13. QED
  BY <1>11, <1>12

-----------------------------------------------------------------------------
\* The walk of mg_match through a link: s begins like the pattern p up to h, where the
\* pattern goes on with **/*.

Follows(s, p, h) ==
  /\ h \in Nat \ {0} /\ Len(p) = h + 4 /\ Len(s) \in Nat /\ h <= Len(s)
  /\ \A i \in 1..h : p[i] = s[i]
  /\ p[h + 1] = "*" /\ p[h + 2] = "*" /\ p[h + 3] = "/" /\ p[h + 4] = "*"
  /\ \A j \in 1..Len(s) : s[j] # "*"

\* A set that has each number after one that it has, up to b, has b.
Rises(a, b, S) == a \in S /\ \A i \in a..b - 1 : i \in S => i + 1 \in S

\* What rises from a to b holds at b.
LEMMA Upwards ==
  ASSUME NEW a \in Nat, NEW b \in Nat, a <= b, NEW S, Rises(a, b, S)
  PROVE  b \in S
<1> DEFINE Out == {i \in a..b : i \notin S}
<1>1. SUFFICES ASSUME Out # {} PROVE FALSE
  OBVIOUS
<1>2. PICK i \in Out : \A j \in Out : i <= j
  <2>1. Out \in SUBSET Nat
    OBVIOUS
  <2> HIDE DEF Out
  <2>2. QED
    BY <1>1, <2>1, LeastNumber
<1>3. i # a /\ i - 1 \in a..b - 1 /\ i - 1 \notin Out
  BY <1>2 DEF Rises
<1>4. QED
  BY <1>2, <1>3 DEF Rises

\* A set that has each number before one that it has, down to a, has a.
Descends(a, b, S) == b \in S /\ \A i \in a..b - 1 : i + 1 \in S => i \in S

\* What descends from b to a holds at a.
LEMMA Downwards ==
  ASSUME NEW a \in Nat, NEW b \in Nat, a <= b, NEW S, Descends(a, b, S)
  PROVE  a \in S
<1> DEFINE In == {i \in a..b : i \in S}
<1>1. PICK i \in In : \A j \in In : i <= j
  <2>1. In \in SUBSET Nat /\ In # {}
    BY DEF Descends
  <2> HIDE DEF In
  <2>2. QED
    BY <2>1, LeastNumber
<1>2. i \in a..b /\ i \in S
  OBVIOUS
<1>3. i # a => i - 1 \in a..b - 1 /\ i - 1 + 1 = i
  BY <1>2
<1>4. i # a => i - 1 \in In
  BY <1>2, <1>3 DEF Descends
<1>5. i = a
  BY <1>1, <1>2, <1>4
<1>6. QED
  BY <1>2, <1>5

\* f tells what each state of the loop leads to.
Walk(s, p, f) ==
  Len(s) \in Nat /\ Len(p) \in Nat /\ \A x \in States(s, p) : f[x] = Turn(s, p, f, x)

\* The same as long as both go on with the same character.
LEMMA SameTurn ==
  ASSUME NEW s, NEW p, NEW f, Walk(s, p, f)
  PROVE  \A x \in States(s, p) :
           x[1] <= Len(p) /\ x[3] <= Len(s) /\ p[x[1]] = s[x[3]]
             => f[x] = f[<<x[1] + 1, x[2], x[3] + 1, x[4]>>]
<1>1. SUFFICES ASSUME NEW x \in States(s, p),
                      x[1] <= Len(p), x[3] <= Len(s), p[x[1]] = s[x[3]]
               PROVE  f[x] = f[<<x[1] + 1, x[2], x[3] + 1, x[4]>>]
  OBVIOUS
<1>2. ~(x[1] > Len(p))
  BY <1>1 DEF States, Walk
<1>3. QED
  BY <1>1, <1>2 DEF Turn, Walk

\* At a star the walk goes on behind it, and is ready to come back.
LEMMA StarTurn ==
  ASSUME NEW s, NEW p, NEW f, Walk(s, p, f), \A j \in 1..Len(s) : s[j] # "*"
  PROVE  \A x \in States(s, p) :
           x[1] <= Len(p) /\ p[x[1]] = "*" => f[x] = f[<<x[1] + 1, x[1], x[3], x[3] + 1>>]
<1>1. SUFFICES ASSUME NEW x \in States(s, p), x[1] <= Len(p), p[x[1]] = "*"
               PROVE  f[x] = f[<<x[1] + 1, x[1], x[3], x[3] + 1>>]
  OBVIOUS
<1>2. ~(x[1] > Len(p))
  BY <1>1 DEF States, Walk
<1>3. x[3] <= Len(s) => x[3] \in 1..Len(s)
  BY DEF States, Walk
<1>4. ~(x[1] <= Len(p) /\ x[3] <= Len(s) /\ p[x[1]] = s[x[3]])
  BY <1>1, <1>3
<1>5. QED
  BY <1>1, <1>2, <1>4 DEF Turn, Walk

\* Where they differ it comes back, unless the text has a slash or there is nowhere to
\* come back to.
ComesBack(s, p, f, x) ==
  f[x] = IF x[4] \in 1..Len(s) + 1 /\ (x[3] > Len(s) \/ s[x[3]] # "/")
         THEN f[<<x[2], x[2], x[4], x[4]>>] ELSE FALSE

\* A character that does not match sends the match back to the last star.
LEMMA BackTurn ==
  ASSUME NEW s, NEW p, NEW f, Walk(s, p, f)
  PROVE  \A x \in States(s, p) :
           /\ x[1] <= Len(p) \/ x[3] <= Len(s)
           /\ x[1] <= Len(p) => p[x[1]] # "*" /\ (x[3] <= Len(s) => p[x[1]] # s[x[3]])
           => ComesBack(s, p, f, x)
<1>1. SUFFICES ASSUME NEW x \in States(s, p), x[1] <= Len(p) \/ x[3] <= Len(s),
                      x[1] <= Len(p) => /\ p[x[1]] # "*"
                                        /\ x[3] <= Len(s) => p[x[1]] # s[x[3]]
               PROVE  ComesBack(s, p, f, x)
  OBVIOUS
<1>2. ~(x[1] > Len(p) /\ x[3] > Len(s))
  BY <1>1 DEF States, Walk
<1>3. QED
  BY <1>1, <1>2 DEF Turn, Walk, ComesBack

NoSlash(s, j) == \A k \in j..Len(s) : s[k] # "/"
OneSlash(s, j) ==
  \E k \in j..Len(s) : s[k] = "/" /\ \A l \in j..Len(s) : s[l] = "/" => l = k

\* How many slashes are left after one more character.
LEMMA SlashesOnward ==
  ASSUME NEW s, NEW j \in Nat, Len(s) \in Nat, j <= Len(s)
  PROVE  /\ s[j] # "/" => /\ NoSlash(s, j) <=> NoSlash(s, j + 1)
                          /\ OneSlash(s, j) <=> OneSlash(s, j + 1)
         /\ s[j] = "/" => /\ ~NoSlash(s, j)
                          /\ OneSlash(s, j) <=> NoSlash(s, j + 1)
<1>1. /\ j \in j..Len(s)
      /\ \A k \in j..Len(s) : k = j \/ k \in j + 1..Len(s)
      /\ \A k \in j + 1..Len(s) : k \in j..Len(s) /\ k # j
  OBVIOUS
<1> DEFINE J == j..Len(s)
           K == j + 1..Len(s)
<1>2. j \in J /\ (\A k \in J : k = j \/ k \in K) /\ (\A k \in K : k \in J /\ k # j)
  BY <1>1
<1> HIDE DEF J, K
<1>3. s[j] # "/" => ((\A k \in J : s[k] # "/") <=> (\A k \in K : s[k] # "/"))
  BY <1>2
<1>4. s[j] # "/" => ((\E k \in J : s[k] = "/" /\ \A l \in J : s[l] = "/" => l = k)
                       <=> (\E k \in K : s[k] = "/" /\ \A l \in K : s[l] = "/" => l = k))
  BY <1>2, Zenon
<1>5. s[j] = "/" => ~(\A k \in J : s[k] # "/")
  BY <1>2
<1>6. s[j] = "/" => ((\E k \in J : s[k] = "/" /\ \A l \in J : s[l] = "/" => l = k)
                       <=> (\A k \in K : s[k] # "/"))
  BY <1>2, Zenon
<1>7. QED
  BY <1>3, <1>4, <1>5, <1>6 DEF NoSlash, OneSlash, J, K

\* The link of a game matches when there is one slash after the replay folder's.
LEMMA LinkMatches ==
  ASSUME NEW s, NEW p, NEW h, Follows(s, p, h)
  PROVE  Match(s, p) <=> OneSlash(s, h + 1)
<1> DEFINE N == Len(s)
           Q == Len(p)
<1>1. /\ h \in Nat \ {0} /\ Q = h + 4 /\ N \in Nat /\ Q \in Nat /\ h <= N
      /\ \A i \in 1..h : p[i] = s[i]
      /\ p[h + 1] = "*" /\ p[h + 2] = "*" /\ p[h + 3] = "/" /\ p[h + 4] = "*"
      /\ \A j \in 1..N : s[j] # "*"
  BY DEF Follows
<1>2. PICK f : /\ Match(s, p) = f[<<1, 1, 1, 0>>]
               /\ \A x \in States(s, p) : f[x] = Turn(s, p, f, x)
  BY <1>1, MatchTurns
<1>3. Walk(s, p, f)
  BY <1>1, <1>2 DEF Walk
<1>4. \A x \in States(s, p) :
        x[1] <= Q /\ x[3] <= N /\ p[x[1]] = s[x[3]]
          => f[x] = f[<<x[1] + 1, x[2], x[3] + 1, x[4]>>]
  BY <1>3, SameTurn
<1>5. \A x \in States(s, p) :
        x[1] <= Q /\ p[x[1]] = "*" => f[x] = f[<<x[1] + 1, x[1], x[3], x[3] + 1>>]
  BY <1>1, <1>3, StarTurn
<1>6. \A x \in States(s, p) :
        /\ x[1] <= Q \/ x[3] <= N
        /\ x[1] <= Q => p[x[1]] # "*" /\ (x[3] <= N => p[x[1]] # s[x[3]])
        => ComesBack(s, p, f, x)
  BY <1>3, BackTurn
<1> HIDE DEF N, Q
<1> DEFINE Along(k) == f[<<k, 1, k, 0>>]
           Look(j) == f[<<h + 3, h + 2, j, j + 1>>]
           Rest(j) == f[<<h + 5, h + 4, j, j + 1>>]
           Places == h + 1..N + 1
<1>7. \A i, ni \in 1..Q + 1, j \in 1..N + 1, nj \in 0..N + 2 :
        <<i, ni, j, nj>> \in States(s, p)
  BY DEF States, N, Q
\* The pattern's beginning.
<1>8. Along(1) = Along(h + 1)
  <2> DEFINE S == {k \in 1..h + 1 : Along(1) = Along(k)}
  <2>1. ASSUME NEW k \in 1..(h + 1) - 1
        PROVE  Along(k) = Along(k + 1)
    <3>1. k \in 1..h /\ k <= Q /\ k <= N /\ k \in 1..Q + 1 /\ 1 \in 1..Q + 1 /\ k \in 1..N + 1
          /\ 0 \in 0..N + 2
      BY <1>1
    <3> DEFINE x == <<k, 1, k, 0>>
    <3>2. x \in States(s, p)
      BY <1>7, <3>1
    <3>3. x[1] = k /\ x[2] = 1 /\ x[3] = k /\ x[4] = 0
      OBVIOUS
    <3>4. x[1] <= Q /\ x[3] <= N /\ p[x[1]] = s[x[3]]
      BY <1>1, <3>1, <3>3
    <3>5. f[x] = f[<<x[1] + 1, x[2], x[3] + 1, x[4]>>]
      <4> HIDE DEF x
      <4>1. QED
        BY <1>4, <3>2, <3>4
    <3>6. QED
      BY <3>5
  <2>2. 1 \in S /\ h + 1 \in Nat /\ 1 <= h + 1
    BY <1>1
  <2>3. \A k \in 1..(h + 1) - 1 : k \in S => k + 1 \in S
    <3>1. \A k \in 1..(h + 1) - 1 : k + 1 \in 1..h + 1
      BY <1>1
    <3> HIDE DEF Along
    <3>2. QED
      BY <2>1, <3>1
  <2>4. h + 1 \in S
    <3> HIDE DEF S
    <3>1. Rises(1, h + 1, S)
      BY <2>2, <2>3, Zenon DEF Rises
    <3>2. QED
      BY <2>2, <3>1, Upwards
  <2>5. QED
    BY <2>4
\* A star.
<1>9. ASSUME NEW i \in {h + 1, h + 2, h + 4}, NEW ni \in 1..Q + 1, NEW j \in 1..N + 1,
             NEW nj \in 0..N + 2
      PROVE  f[<<i, ni, j, nj>>] = f[<<i + 1, i, j, j + 1>>]
  <2> DEFINE x == <<i, ni, j, nj>>
  <2>1. i \in 1..Q + 1 /\ i <= Q
    BY <1>1
  <2>2. p[i] = "*"
    BY <1>1
  <2>3. x \in States(s, p)
    BY <1>7, <2>1
  <2>4. x[1] = i /\ x[3] = j
    OBVIOUS
  <2> HIDE DEF x
  <2>5. f[x] = f[<<x[1] + 1, x[1], x[3], x[3] + 1>>]
    BY <1>5, <2>1, <2>2, <2>3, <2>4
  <2>6. QED
    BY <2>4, <2>5 DEF x
<1>10. Match(s, p) = Look(h + 1)
  <2>1. /\ h + 1 \in 1..Q + 1 /\ h + 2 \in 1..Q + 1 /\ 1 \in 1..Q + 1 /\ h + 1 \in 1..N + 1
        /\ 0 \in 0..N + 2 /\ h + 2 \in 0..N + 2 /\ h + 1 + 1 = h + 2 /\ h + 2 + 1 = h + 3
    BY <1>1
  <2>2. Along(h + 1) = f[<<h + 2, h + 1, h + 1, h + 2>>]
    <3>1. f[<<h + 1, 1, h + 1, 0>>] = f[<<h + 1 + 1, h + 1, h + 1, h + 1 + 1>>]
      BY <1>9, <2>1
    <3>2. QED
      BY <2>1, <3>1
  <2>3. f[<<h + 2, h + 1, h + 1, h + 2>>] = f[<<h + 2 + 1, h + 2, h + 1, h + 1 + 1>>]
    BY <1>9, <2>1
  <2>4. QED
    BY <1>2, <1>8, <2>1, <2>2, <2>3
\* Behind the last star.
<1>11. ASSUME NEW j \in 1..N + 1
      PROVE  Rest(j) = IF j > N THEN TRUE ELSE IF s[j] = "/" THEN FALSE ELSE Rest(j + 1)
  <2> DEFINE x == <<h + 5, h + 4, j, j + 1>>
  <2>1. /\ h + 5 \in 1..Q + 1 /\ h + 4 \in 1..Q + 1 /\ j + 1 \in 0..N + 2
        /\ h + 5 > Q /\ h + 4 + 1 = h + 5
    BY <1>1
  <2>2. x \in States(s, p)
    BY <1>7, <2>1
  <2>3. x[1] = h + 5 /\ x[2] = h + 4 /\ x[3] = j /\ x[4] = j + 1
    OBVIOUS
  <2> HIDE DEF x
  <2>4. f[x] = Rest(j)
    BY DEF x
  <2>5. CASE j > N
    <3>1. Turn(s, p, f, x) = TRUE
      BY <2>1, <2>3, <2>5 DEF Turn, N, Q
    <3>2. QED
      BY <1>2, <2>2, <2>4, <2>5, <3>1
  <2>6. CASE j <= N
    <3>1. j + 1 \in 1..N + 1 /\ ~(j > N)
      BY <1>1, <2>6
    <3>2. x[1] <= Q \/ x[3] <= N
      BY <2>3, <2>6
    <3>3. ~(x[1] <= Q)
      BY <1>1, <2>1, <2>3
    <3>4. f[x] = IF x[4] \in 1..N + 1 /\ (x[3] > N \/ s[x[3]] # "/")
                 THEN f[<<x[2], x[2], x[4], x[4]>>] ELSE FALSE
      BY <1>6, <2>2, <3>2, <3>3 DEF ComesBack, N
    <3>5. f[x] = IF s[j] # "/" THEN f[<<h + 4, h + 4, j + 1, j + 1>>] ELSE FALSE
      BY <2>3, <3>1, <3>4
    <3>6. f[<<h + 4, h + 4, j + 1, j + 1>>] = Rest(j + 1)
      <4>1. f[<<h + 4, h + 4, j + 1, j + 1>>] = f[<<h + 4 + 1, h + 4, j + 1, j + 1 + 1>>]
        BY <1>9, <2>1, <3>1
      <4>2. QED
        BY <2>1, <4>1
    <3> HIDE DEF Rest
    <3>7. QED
      BY <2>4, <3>1, <3>5, <3>6
  <2>7. j > N \/ j <= N
    BY <1>1
  <2>8. QED
    BY <2>5, <2>6, <2>7, Zenon
<1>12. ASSUME NEW j \in 1..N + 1
      PROVE  Rest(j) = IF NoSlash(s, j) THEN TRUE ELSE FALSE
  <2> DEFINE S == {k \in j..N + 1 : Rest(k) = IF NoSlash(s, k) THEN TRUE ELSE FALSE}
  <2> HIDE DEF Rest
  <2>1. N + 1 \in S
    <3>1. N + 1 \in 1..N + 1 /\ N + 1 > N /\ N + 1..N = {} /\ N + 1 \in j..N + 1
      BY <1>1
    <3>2. NoSlash(s, N + 1)
      BY <3>1 DEF NoSlash, N
    <3>3. Rest(N + 1) = TRUE
      BY <1>11, <3>1
    <3>4. QED
      BY <3>1, <3>2, <3>3
  <2>2. ASSUME NEW k \in j..(N + 1) - 1, k + 1 \in S
        PROVE  k \in S
    <3>1. k \in 1..N + 1 /\ ~(k > N) /\ k \in j..N + 1 /\ k \in Nat /\ k <= N
      BY <1>1
    <3>2. Rest(k) = IF s[k] = "/" THEN FALSE ELSE Rest(k + 1)
      BY <1>11, <3>1
    <3>3. Rest(k + 1) = IF NoSlash(s, k + 1) THEN TRUE ELSE FALSE
      BY <2>2
    <3>4. NoSlash(s, k) <=> s[k] # "/" /\ NoSlash(s, k + 1)
      BY <1>1, <3>1, SlashesOnward DEF N
    <3>5. QED
      BY <3>1, <3>2, <3>3, <3>4
  <2>3. j \in S
    <3>1. j \in Nat /\ N + 1 \in Nat /\ j <= N + 1
      BY <1>1
    <3> HIDE DEF S
    <3>2. Descends(j, N + 1, S)
      BY <2>1, <2>2, Zenon DEF Descends
    <3>3. QED
      BY <3>1, <3>2, Downwards
  <2>4. QED
    BY <2>3
\* Between the stars.
<1>13. ASSUME NEW j \in Places
      PROVE  Look(j) = IF j > N THEN FALSE ELSE IF s[j] = "/" THEN Rest(j + 1) ELSE Look(j + 1)
  <2> DEFINE x == <<h + 3, h + 2, j, j + 1>>
  <2>1. /\ h + 3 \in 1..Q + 1 /\ h + 2 \in 1..Q + 1 /\ j \in 1..N + 1 /\ j + 1 \in 0..N + 2
        /\ h + 3 <= Q /\ h + 2 + 1 = h + 3 /\ h + 3 + 1 = h + 4 /\ h + 4 + 1 = h + 5
        /\ h + 4 \in 1..Q + 1 /\ (j <= N => j + 1 \in 1..N + 1)
    BY <1>1
  <2>2. x \in States(s, p)
    BY <1>7, <2>1
  <2>3. x[1] = h + 3 /\ x[2] = h + 2 /\ x[3] = j /\ x[4] = j + 1
    OBVIOUS
  <2> HIDE DEF x
  <2>4. f[x] = Look(j)
    BY DEF x
  <2>5. p[x[1]] = "/" /\ p[x[1]] # "*"
    BY <1>1, <2>3
  <2>6. CASE j <= N /\ s[j] = "/"
    <3>1. f[x] = f[<<x[1] + 1, x[2], x[3] + 1, x[4]>>]
      BY <1>4, <2>1, <2>2, <2>3, <2>5, <2>6
    <3>2. f[x] = f[<<h + 4, h + 2, j + 1, j + 1>>]
      BY <2>1, <2>3, <3>1
    <3>3. f[<<h + 4, h + 2, j + 1, j + 1>>] = f[<<h + 4 + 1, h + 4, j + 1, j + 1 + 1>>]
      BY <1>9, <2>1, <2>6
    <3>4. f[x] = Rest(j + 1) /\ ~(j > N)
      BY <1>1, <2>1, <2>6, <3>2, <3>3
    <3> HIDE DEF Look, Rest
    <3>5. QED
      BY <2>4, <2>6, <3>4
  <2>7. CASE ~(j <= N /\ s[j] = "/")
    <3>1. x[1] <= Q \/ x[3] <= N
      BY <2>1, <2>3
    <3>2. x[1] <= Q => p[x[1]] # "*" /\ (x[3] <= N => p[x[1]] # s[x[3]])
      BY <2>3, <2>5, <2>7
    <3>3. f[x] = IF x[4] \in 1..N + 1 /\ (x[3] > N \/ s[x[3]] # "/")
                 THEN f[<<x[2], x[2], x[4], x[4]>>] ELSE FALSE
      BY <1>6, <2>2, <3>1, <3>2 DEF ComesBack, N
    <3>4. CASE j <= N
      <4>1. j + 1 \in 1..N + 1 /\ ~(j > N)
        BY <1>1, <2>1, <3>4
      <4>2. f[x] = f[<<h + 2, h + 2, j + 1, j + 1>>]
        BY <2>3, <2>7, <3>3, <3>4, <4>1
      <4>3. f[<<h + 2, h + 2, j + 1, j + 1>>] = f[<<h + 2 + 1, h + 2, j + 1, j + 1 + 1>>]
        BY <1>9, <2>1, <4>1
      <4>4. f[x] = Look(j + 1)
        BY <2>1, <4>2, <4>3
      <4> HIDE DEF Look, Rest
      <4>5. QED
        BY <2>4, <2>7, <3>4, <4>1, <4>4
    <3>5. CASE j > N
      <4>1. j + 1 \notin 1..N + 1
        BY <1>1, <3>5
      <4>2. f[x] = FALSE
        BY <2>3, <3>3, <4>1
      <4> HIDE DEF Look, Rest
      <4>3. QED
        BY <2>4, <3>5, <4>2
    <3>6. j > N \/ j <= N
      BY <1>1
    <3>7. QED
      BY <3>4, <3>5, <3>6, Zenon
  <2>8. QED
    BY <2>6, <2>7
<1>14. Look(h + 1) = IF OneSlash(s, h + 1) THEN TRUE ELSE FALSE
  <2> DEFINE S == {k \in Places : Look(k) = IF OneSlash(s, k) THEN TRUE ELSE FALSE}
  <2> HIDE DEF Look, Rest
  <2>1. N + 1 \in S
    <3>1. N + 1 \in Places /\ N + 1 > N /\ N + 1..N = {}
      BY <1>1
    <3>2. ~OneSlash(s, N + 1)
      BY <3>1 DEF OneSlash, N
    <3>3. Look(N + 1) = FALSE
      BY <1>13, <3>1
    <3>4. QED
      BY <3>1, <3>2, <3>3
  <2>2. ASSUME NEW k \in h + 1..(N + 1) - 1, k + 1 \in S
        PROVE  k \in S
    <3>1. k \in Places /\ k + 1 \in 1..N + 1 /\ ~(k > N) /\ k \in Nat /\ k <= N
      BY <1>1
    <3>2. Look(k) = IF s[k] = "/" THEN Rest(k + 1) ELSE Look(k + 1)
      BY <1>13, <3>1
    <3>3. Look(k + 1) = IF OneSlash(s, k + 1) THEN TRUE ELSE FALSE
      BY <2>2
    <3>4. Rest(k + 1) = IF NoSlash(s, k + 1) THEN TRUE ELSE FALSE
      BY <1>12, <3>1
    <3>5. /\ s[k] = "/" => (OneSlash(s, k) <=> NoSlash(s, k + 1))
          /\ s[k] # "/" => (OneSlash(s, k) <=> OneSlash(s, k + 1))
      BY <1>1, <3>1, SlashesOnward DEF N
    <3>6. CASE s[k] = "/"
      BY <3>1, <3>2, <3>4, <3>5, <3>6
    <3>7. CASE s[k] # "/"
      BY <3>1, <3>2, <3>3, <3>5, <3>7
    <3>8. QED
      BY <3>6, <3>7
  <2>3. h + 1 \in S
    <3>1. h + 1 \in Nat /\ N + 1 \in Nat /\ h + 1 <= N + 1
      BY <1>1
    <3> HIDE DEF S
    <3>2. Descends(h + 1, N + 1, S)
      BY <2>1, <2>2, Zenon DEF Descends
    <3>3. QED
      BY <3>1, <3>2, Downwards
  <2>4. QED
    BY <2>3
<1>15. QED
  BY <1>10, <1>14

-----------------------------------------------------------------------------
\* The link of a game.

Above == Len(ReplayFolder) + 2

\* u is s and then t, all of characters in S.
Joins(s, t, S, u) ==
  /\ u \in Seq(S) /\ Len(s) \in Nat /\ Len(t) \in Nat /\ Len(u) = Len(s) + Len(t)
  /\ \A i \in 1..Len(s) : u[i] = s[i]
  /\ \A i \in 1..Len(t) : u[Len(s) + i] = t[i]

\* The characters of two texts put together.
LEMMA JoinedLetters ==
  ASSUME NEW S, NEW s \in Seq(S), NEW t \in Seq(S)
  PROVE  Joins(s, t, S, s \o t)
<1>1. Len(s) \in Nat /\ Len(t) \in Nat
  BY LenProperties
<1>2. \A i \in 1..Len(s) : i \in 1..Len(s) + Len(t) /\ i <= Len(s)
  BY <1>1
<1>3. \A i \in 1..Len(t) : Len(s) + i \in 1..Len(s) + Len(t) /\ ~(Len(s) + i <= Len(s))
                           /\ (Len(s) + i) - Len(s) = i
  BY <1>1
<1>4. QED
  BY <1>1, <1>2, <1>3, ConcatProperties DEF Joins

\* No text has a star in it.
LEMMA NoStars ==
  "*" \notin Letters
BY CharacterAssumption, FigureFacts DEF Letters

\* The replay folder is a text.
LEMMA FolderText ==
  ReplayFolder \in Texts
<1>1. ToSet(ReplayFolder) \subseteq Letters
  BY DEF Letters
<1>2. QED
  BY <1>1, NamesAssumption, SeqDef DEF Texts

\* The link of a game when nothing is cut.
WholeLink(d, id) == <<"/">> \o ReplayFolder \o <<"/">> \o WholeName(d, id)

\* It is the replay folder's, then the name of the file.
LEMMA LinkFacts ==
  ASSUME NEW d \in Seq(Characters), NEW id \in Nat
  PROVE  /\ Above \in Nat \ {0} /\ Len(WholeName(d, id)) \in Nat
         /\ WholeLink(d, id) \in Texts /\ Len(WholeLink(d, id)) = Above + Len(WholeName(d, id))
         /\ \A i \in 1..Len(WholeName(d, id)) : WholeLink(d, id)[Above + i] = WholeName(d, id)[i]
         /\ Follows(WholeLink(d, id), Wildcard, Above)
         /\ \A i \in 1..Above : WholeLink(d, id)[i] \notin Reserved
<1> DEFINE r == ReplayFolder
           f == WholeName(d, id)
           u == WholeLink(d, id)
           L == Letters \cup {"*"}
           one == <<"/">>
           tail == <<"/", "*", "*", "/", "*">>
           head == one \o r
           top == head \o one
<1>1. f \in Seq(Letters) /\ r \in Seq(Letters)
  BY WholeNameFacts, FolderText DEF Texts
<1>2. one \in Seq(Letters) /\ Len(one) = 1 /\ one[1] = "/"
  BY DEF Letters
<1>3. /\ tail \in Seq(L) /\ Len(tail) = 5 /\ tail[1] = "/" /\ tail[2] = "*" /\ tail[3] = "*"
      /\ tail[4] = "/" /\ tail[5] = "*"
  BY DEF Letters
<1> HIDE DEF f, r, one, tail
<1>4. /\ head \in Seq(Letters) /\ Len(head) = 1 + Len(r) /\ Len(r) \in Nat
      /\ \A i \in 1..Len(head) : head[i] \notin Reserved
  <2>1. Joins(one, r, Letters, head)
    BY <1>1, <1>2, JoinedLetters
  <2> HIDE DEF head
  <2>2. /\ head \in Seq(Letters) /\ Len(head) = 1 + Len(r) /\ Len(r) \in Nat
        /\ head[1] = "/" /\ \A i \in 1..Len(r) : head[1 + i] = r[i]
    BY <1>2, <2>1 DEF Joins
  <2>3. \A i \in 1..Len(r) : r[i] \notin Reserved
    <3>1. \A i \in 1..Len(r) : r[i] \in ToSet(r)
      <4>1. r \in Seq(ToSet(r))
        BY NamesAssumption DEF r
      <4>2. QED
        BY <4>1, ElementOfSeq
    <3>2. QED
      BY <3>1, FolderAssumption DEF r
  <2>4. ASSUME NEW i \in 1..Len(head), i # 1
        PROVE  head[i] \notin Reserved
    <3>1. i - 1 \in 1..Len(r) /\ 1 + (i - 1) = i
      BY <2>2, <2>4
    <3>2. head[1 + (i - 1)] = r[i - 1]
      BY <2>2, <3>1
    <3>3. QED
      BY <2>3, <3>1, <3>2
  <2>5. head[1] \notin Reserved
    BY <2>2 DEF Reserved
  <2>6. QED
    BY <2>2, <2>4, <2>5
<1> HIDE DEF head
<1>5. /\ top \in Seq(Letters) /\ Len(top) = Above
      /\ \A i \in 1..Len(head) : top[i] = head[i]
      /\ top[Above] = "/"
  <2>1. /\ top \in Seq(Letters) /\ Len(top) = Len(head) + Len(one)
        /\ \A i \in 1..Len(head) : top[i] = head[i]
        /\ \A i \in 1..Len(one) : top[Len(head) + i] = one[i]
    <3>1. Joins(head, one, Letters, top)
      BY <1>2, <1>4, JoinedLetters
    <3> HIDE DEF top
    <3>2. QED
      BY <3>1 DEF Joins
  <2>2. Above = Len(head) + 1
    BY <1>4 DEF Above, r
  <2>3. QED
    BY <1>2, <1>4, <2>1, <2>2
<1> HIDE DEF top
<1>6. /\ top \o f \in Seq(Letters) /\ Len(top \o f) = Above + Len(f)
      /\ Len(f) \in Nat /\ Above \in Nat
      /\ \A i \in 1..Above : (top \o f)[i] = top[i]
      /\ \A i \in 1..Len(f) : (top \o f)[Above + i] = f[i]
  <2>1. Joins(top, f, Letters, top \o f)
    BY <1>1, <1>5, JoinedLetters
  <2>2. QED
    BY <1>5, <2>1 DEF Joins
<1>7. u = top \o f /\ Wildcard = head \o tail
  BY DEF WholeLink, Wildcard, top, head, f, one, tail, r
<1>8. /\ Len(Wildcard) = Len(head) + 5
      /\ \A i \in 1..Len(head) : Wildcard[i] = head[i]
      /\ \A i \in 1..5 : Wildcard[Len(head) + i] = tail[i]
  <2>1. head \in Seq(L)
    <3>1. Letters \subseteq L
      OBVIOUS
    <3> HIDE DEF L
    <3>2. QED
      BY <1>4, <3>1, SeqDef
  <2> HIDE DEF L
  <2>2. Joins(head, tail, L, Wildcard)
    BY <1>3, <1>7, <2>1, JoinedLetters
  <2>3. QED
    BY <1>3, <2>2 DEF Joins
<1>9. Len(head) = Above - 1 /\ Above \in Nat \ {0}
  BY <1>4 DEF Above, r
<1>10. /\ Wildcard[Above] = "/" /\ Wildcard[Above + 1] = "*" /\ Wildcard[Above + 2] = "*"
       /\ Wildcard[Above + 3] = "/" /\ Wildcard[Above + 4] = "*"
  <2>1. /\ Len(head) + 1 = Above /\ Len(head) + 2 = Above + 1 /\ Len(head) + 3 = Above + 2
        /\ Len(head) + 4 = Above + 3 /\ Len(head) + 5 = Above + 4
        /\ 1 \in 1..5 /\ 2 \in 1..5 /\ 3 \in 1..5 /\ 4 \in 1..5 /\ 5 \in 1..5
    BY <1>4, <1>9
  <2>2. QED
    BY <1>3, <1>8, <2>1, Zenon
<1>11. \A i \in 1..Above : Wildcard[i] = u[i]
  <2>1. TAKE i \in 1..Above
  <2>2. i \in 1..Len(head) \/ i = Above
    BY <1>9
  <2>3. u[i] = top[i]
    BY <1>6, <1>7
  <2>4. CASE i \in 1..Len(head)
    BY <1>5, <1>8, <2>3, <2>4
  <2>5. CASE i = Above
    BY <1>5, <1>10, <2>3, <2>5
  <2>6. QED
    BY <2>2, <2>4, <2>5
<1>12. \A j \in 1..Len(u) : u[j] # "*"
  <2>1. u \in Seq(Letters)
    BY <1>6, <1>7
  <2> HIDE DEF u
  <2>2. \A j \in 1..Len(u) : u[j] \in Letters
    BY <2>1, ElementOfSeq
  <2>3. QED
    BY <2>2, NoStars
<1>13. Len(u) = Above + Len(f) /\ u \in Seq(Letters) /\ Len(Wildcard) = Above + 4
  BY <1>4, <1>6, <1>7, <1>8, <1>9, SMTT(30)
<1> HIDE DEF u
<1>14. Len(u) \in Nat /\ Above <= Len(u)
  BY <1>6, <1>13
<1>15. Follows(u, Wildcard, Above)
  BY <1>9, <1>10, <1>11, <1>12, <1>13, <1>14 DEF Follows
<1>16. \A i \in 1..Len(f) : u[Above + i] = f[i]
  BY <1>6, <1>7
<1>17. ASSUME NEW i \in 1..Above
       PROVE  u[i] \notin Reserved
  <2>1. i \in 1..Len(head) \/ i = Above
    BY <1>9
  <2>2. CASE i \in 1..Len(head)
    <3>1. u[i] = head[i]
      BY <1>5, <1>6, <1>7, <2>2
    <3>2. QED
      BY <1>4, <2>2, <3>1
  <2>3. CASE i = Above
    <3>1. u[i] = "/"
      BY <1>10, <1>11, <2>3
    <3>2. QED
      BY <3>1 DEF Reserved
  <2>4. QED
    BY <2>1, <2>2, <2>3
<1>18. QED
  BY <1>6, <1>9, <1>13, <1>15, <1>16, <1>17 DEF u, f, Texts

Slashes(d) == {j \in 1..Len(d) : PathName(d)[j] = "/"}

\* One folder for each slash of the path.
LEMMA OneFolder ==
  ASSUME NEW d \in Seq(Characters)
  PROVE  /\ Cardinality(Folders(d)) = 1 <=> \E z : Slashes(d) = {z}
         /\ Folders(d) = {} <=> Slashes(d) = {}
<1> DEFINE p == PathName(d)
           Z == Slashes(d)
           g == [z \in Z |-> SubSeq(p, 1, z - 1)]
<1>1. DOMAIN d = 1..Len(d) /\ Len(d) \in Nat /\ p \in Texts /\ Len(p) = Len(d)
  BY LenProperties, PathNameFacts
<1>2. Z \in SUBSET Nat /\ Z \subseteq 1..Len(d)
  BY DEF Slashes
<1>3. Folders(d) = {g[z] : z \in Z}
  <2>1. Folders(d) = {SubSeq(p, 1, z - 1) : z \in Z}
    BY <1>1 DEF Folders, Slashes
  <2> HIDE DEF Z, p
  <2>2. QED
    BY <2>1
<1>4. \A z \in Z : Len(g[z]) = z - 1
  <2>1. TAKE z \in Z
  <2>2. z \in 1..Len(p) /\ z - 1 \in 0..Len(p)
    BY <1>1, <1>2
  <2>3. \A i \in 1..z - 1 : i \in 1..Len(p)
    BY <1>1, <2>2
  <2> HIDE DEF p, Z
  <2>4. Len(SubSeq(p, 1, z - 1)) = IF 1 <= z - 1 THEN (z - 1) - 1 + 1 ELSE 0
    BY <1>1, <2>2, <2>3, SubSeqProperties DEF Texts
  <2>5. (IF 1 <= z - 1 THEN (z - 1) - 1 + 1 ELSE 0) = z - 1
    BY <1>1, <2>2
  <2>6. QED
    BY <2>4, <2>5
<1> HIDE DEF g
<1>5. \A y, z \in Z : g[y] = g[z] => y = z
  BY <1>2, <1>4
<1>6. IsFiniteSet(Folders(d))
  <2>1. IsFiniteSet(Z)
    <3>1. IsFiniteSet(1..Len(d))
      BY <1>1, FS_Interval
    <3>2. QED
      BY <1>2, <3>1, FS_Subset
  <2>2. g \in Surjection(Z, Folders(d))
    BY <1>3 DEF Surjection, g
  <2>3. QED
    BY <2>1, <2>2, FS_Surjection
<1> HIDE DEF Z
<1>7. Cardinality(Folders(d)) = 1 <=> \E x : Folders(d) = {x}
  BY <1>6, FS_Singleton
<1>8. ASSUME NEW x, Folders(d) = {x}
      PROVE  \E z : Z = {z}
  <2>1. PICK z \in Z : g[z] = x
    BY <1>3, <1>8
  <2>2. \A y \in Z : g[y] = x
    BY <1>3, <1>8
  <2>3. Z = {z}
    BY <1>5, <2>1, <2>2
  <2>4. QED
    BY <2>3
<1>9. ASSUME NEW z, Z = {z}
      PROVE  Folders(d) = {g[z]}
  BY <1>3, <1>9
<1>10. Folders(d) = {} <=> Z = {}
  BY <1>3
<1>11. QED
  BY <1>7, <1>8, <1>9, <1>10 DEF Z

\* A link, escaped or not, is routed to replays when its game is in one folder.
LEMMA RoutedFacts ==
  ASSUME NEW d \in Seq(Characters), NEW id \in Nat, NEW u,
         Follows(u, Wildcard, Above), Len(u) = Above + Len(WholeName(d, id)),
         \A i \in 1..Len(WholeName(d, id)) : u[Above + i] = "/" <=> WholeName(d, id)[i] = "/"
  PROVE  Routed(u) <=> Cardinality(Folders(d)) = 1
<1> DEFINE f == WholeName(d, id)
           Z == Slashes(d)
           K == Above + 1..Len(u)
<1>1. /\ Above \in Nat \ {0} /\ Len(f) \in Nat /\ Len(u) = Above + Len(f)
      /\ \A i \in 1..Len(f) : u[Above + i] = "/" <=> f[i] = "/"
      /\ Follows(u, Wildcard, Above)
  BY LinkFacts
<1>2. /\ Len(d) \in Nat /\ Len(f) = Before(d) + Len(d) + Len(Decimal[id]) + 5
      /\ Before(d) \in Nat /\ Len(Decimal[id]) \in Nat
  <2>1. Len(d) \in Nat /\ Before(d) \in Nat /\ Len(Decimal[id]) \in Nat
    BY WholeNameSlashes
  <2>2. Len(f) = Dot(d, id) + 3
    BY WholeNameFacts
  <2> HIDE DEF f
  <2>3. QED
    BY <2>1, <2>2 DEF Dot, Dash
<1>3. \A j \in 1..Len(f) : f[j] = "/" => j \in Z
  BY FoldersFacts DEF Slashes
<1>4. \A z \in Z : z \in 1..Len(f) /\ f[z] = "/"
  <2>1. TAKE z \in Z
  <2>2. Before(d) = 0
    BY OneFolder DEF Before
  <2>3. z \in 1..Len(d) /\ PathName(d)[z] = "/"
    BY DEF Slashes
  <2>4. z \in 1..Len(f) /\ Before(d) + z = z
    BY <1>2, <2>2, <2>3
  <2>5. \A i \in 1..Len(d) : f[Before(d) + i] = PathName(d)[i]
    BY WholeNameFacts
  <2> HIDE DEF f
  <2>6. QED
    BY <2>3, <2>4, <2>5
<1> HIDE DEF f, Z
<1>5. \A k \in K : k - Above \in 1..Len(f) /\ Above + (k - Above) = k
  BY <1>1
<1>6. \A k \in K : u[k] = "/" <=> k - Above \in Z
  BY <1>1, <1>3, <1>4, <1>5
<1>7. \A z \in Z : Above + z \in K /\ (Above + z) - Above = z
  BY <1>1, <1>4
<1>8. OneSlash(u, Above + 1) => \E z : Z = {z}
  <2>1. SUFFICES ASSUME NEW k \in K, u[k] = "/", \A l \in K : u[l] = "/" => l = k
                 PROVE  Z = {k - Above}
    BY DEF OneSlash
  <2>2. k - Above \in Z
    BY <1>6, <2>1
  <2>3. ASSUME NEW z \in Z
        PROVE  z = k - Above
    <3>1. Above + z = k
      BY <1>6, <1>7, <2>1
    <3>2. QED
      BY <1>7, <3>1
  <2>4. QED
    BY <2>2, <2>3
<1>9. ASSUME NEW z, Z = {z}
      PROVE  OneSlash(u, Above + 1)
  <2>1. Above + z \in K /\ u[Above + z] = "/"
    BY <1>6, <1>7, <1>9
  <2>2. \A l \in K : u[l] = "/" => l = Above + z
    BY <1>5, <1>6, <1>9
  <2>3. QED
    BY <2>1, <2>2 DEF OneSlash
<1>10. Routed(u) <=> OneSlash(u, Above + 1)
  BY <1>1, LinkMatches DEF Routed
<1>11. QED
  BY <1>8, <1>9, <1>10, OneFolder DEF Z

-----------------------------------------------------------------------------
\* The automaton that reads the ID.

Cursor == [state : 0..6, from : Nat, to : Nat]
Reading(s, f, t) == [state |-> s, from |-> f, to |-> t]

\* None of the other characters that the automaton looks for is a figure.
LEMMA NotFigures ==
  "o" \notin Figures /\ "r" \notin Figures /\ "c" \notin Figures
  /\ "-" \notin Figures /\ "." \notin Figures
<1>1. Figures = {DigitChars[i] : i \in 1..10}
  BY DEF Figures, ToSet, DigitChars
<1>2. \A i \in 1..10 : DigitChars[i] \notin {"o", "r"}
  BY DEF DigitChars
<1>3. QED
  BY <1>1, <1>2, FigureFacts

\* What the automaton knows is its state and where the ID starts and ends.
LEMMA CursorFields ==
  ASSUME NEW a \in Cursor
  PROVE  /\ a = Reading(a.state, a.from, a.to)
         /\ a.state \in 0..6 /\ a.from \in Nat /\ a.to \in Nat
BY DEF Cursor, Reading

\* What it makes of a character.
Reads(u, i, s, f, t) ==
  /\ ReadAt(u, Reading(s, f, t), i) \in Cursor
  /\ u[i] = "-" => ReadAt(u, Reading(s, f, t), i) = Reading(1, f, t)
  /\ u[i] \in Figures /\ s = 1 => ReadAt(u, Reading(s, f, t), i) = Reading(2, i, t)
  /\ u[i] \in Figures /\ s = 2 => ReadAt(u, Reading(s, f, t), i) = Reading(2, f, t)
  /\ u[i] = "." /\ s = 2 => ReadAt(u, Reading(s, f, t), i) = Reading(3, f, i - 1)
  /\ u[i] = "c" /\ s = 3 => ReadAt(u, Reading(s, f, t), i) = Reading(4, f, t)
  /\ u[i] = "o" /\ s = 4 => ReadAt(u, Reading(s, f, t), i) = Reading(5, f, t)
  /\ u[i] = "r" /\ s = 5 => ReadAt(u, Reading(s, f, t), i) = Reading(6, f, t)

\* ReadAt does what Reads says of it.
LEMMA ReadAtFacts ==
  ASSUME NEW u, NEW i \in Nat \ {0}, NEW s \in 0..6, NEW f \in Nat, NEW t \in Nat
  PROVE  Reads(u, i, s, f, t)
<1> USE DEF Reads
<1> DEFINE c == u[i]
           a == Reading(s, f, t)
           b == ReadAt(u, a, i)
           last == <<c, a.state>> \in {<<"c", 3>>, <<"o", 4>>, <<"r", 5>>}
<1>1. /\ a.state = s
      /\ \A x : [a EXCEPT !.state = x] = Reading(x, f, t)
      /\ [a EXCEPT !.state = 2, !.from = i] = Reading(2, i, t)
      /\ [a EXCEPT !.state = 3, !.to = i - 1] = Reading(3, f, i - 1)
      /\ [a EXCEPT !.state = @ + 1] = Reading(s + 1, f, t)
  <2>1. a.state = s
    BY DEF Reading
  <2>2. \A x : [a EXCEPT !.state = x] = Reading(x, f, t)
    BY DEF Reading
  <2>3. [a EXCEPT !.state = 2, !.from = i] = Reading(2, i, t)
    <3>1. [a EXCEPT !.state = 2] = Reading(2, f, t)
      BY <2>2
    <3>2. [Reading(2, f, t) EXCEPT !.from = i] = Reading(2, i, t)
      BY DEF Reading
    <3> HIDE DEF a
    <3>3. QED
      BY <3>1, <3>2
  <2>4. [a EXCEPT !.state = 3, !.to = i - 1] = Reading(3, f, i - 1)
    <3>1. [a EXCEPT !.state = 3] = Reading(3, f, t)
      BY <2>2
    <3>2. [Reading(3, f, t) EXCEPT !.to = i - 1] = Reading(3, f, i - 1)
      BY DEF Reading
    <3> HIDE DEF a
    <3>3. QED
      BY <3>1, <3>2
  <2>5. [a EXCEPT !.state = @ + 1] = Reading(s + 1, f, t)
    BY DEF Reading
  <2>6. QED
    BY <2>1, <2>2, <2>3, <2>4, <2>5
<1>2. last <=> (c = "c" /\ s = 3) \/ (c = "o" /\ s = 4) \/ (c = "r" /\ s = 5)
  BY <1>1
<1>3. b = CASE c = "-" -> [a EXCEPT !.state = 1]
            [] c \in Figures /\ a.state = 1 -> [a EXCEPT !.state = 2, !.from = i]
            [] c \in Figures /\ a.state = 2 -> a
            [] c = "." /\ a.state = 2 -> [a EXCEPT !.state = 3, !.to = i - 1]
            [] last -> [a EXCEPT !.state = @ + 1]
            [] OTHER -> [a EXCEPT !.state = 0]
  BY DEF ReadAt
<1>4. \A x \in 0..6, y, z \in Nat : Reading(x, y, z) \in Cursor
  BY DEF Reading, Cursor
<1> HIDE DEF b, c, last, a
<1>5. i - 1 \in Nat /\ i \in Nat
  OBVIOUS
<1>6. CASE c = "-"
  <2>1. b = Reading(1, f, t)
    BY <1>1, <1>2, <1>3, <1>6, NotFigures
  <2>2. QED
    BY <1>4, <1>6, <2>1, NotFigures DEF a, b, c
<1>7. CASE c \in Figures
  <2>1. c # "-" /\ c # "." /\ ~last
    BY <1>2, <1>7, NotFigures
  <2>2. CASE s = 1
    <3>1. b = Reading(2, i, t)
      BY <1>1, <1>3, <1>7, <2>1, <2>2
    <3>2. QED
      BY <1>4, <1>5, <1>7, <2>2, <3>1, NotFigures DEF a, b, c
  <2>3. CASE s = 2
    <3>1. b = a
      BY <1>1, <1>3, <1>7, <2>1, <2>3
    <3>2. QED
      BY <1>4, <1>7, <2>3, <3>1, NotFigures DEF a, b, c
  <2>4. CASE s \notin {1, 2}
    <3>1. b = Reading(0, f, t)
      BY <1>1, <1>3, <1>7, <2>1, <2>4
    <3>2. QED
      BY <1>4, <1>7, <2>4, <3>1, NotFigures DEF a, b, c
  <2>5. QED
    BY <2>2, <2>3, <2>4
<1>8. CASE c = "." /\ s = 2
  <2>1. b = Reading(3, f, i - 1)
    BY <1>1, <1>2, <1>3, <1>8, NotFigures
  <2>2. QED
    BY <1>4, <1>5, <1>8, <2>1, NotFigures DEF a, b, c
<1>9. CASE last
  <2>1. b = Reading(s + 1, f, t)
    BY <1>1, <1>2, <1>3, <1>9, NotFigures
  <2>2. CASE c = "c" /\ s = 3
    <3>1. b = Reading(4, f, t)
      BY <2>1, <2>2
    <3>2. QED
      BY <1>4, <2>2, <3>1, NotFigures DEF a, b, c
  <2>3. CASE c = "o" /\ s = 4
    <3>1. b = Reading(5, f, t)
      BY <2>1, <2>3
    <3>2. QED
      BY <1>4, <2>3, <3>1, NotFigures DEF a, b, c
  <2>4. CASE c = "r" /\ s = 5
    <3>1. b = Reading(6, f, t)
      BY <2>1, <2>4
    <3>2. QED
      BY <1>4, <2>4, <3>1, NotFigures DEF a, b, c
  <2>5. QED
    BY <1>2, <1>9, <2>2, <2>3, <2>4
<1>10. CASE c # "-" /\ c \notin Figures /\ ~(c = "." /\ s = 2) /\ ~last
  <2>1. b = Reading(0, f, t)
    BY <1>1, <1>3, <1>10
  <2>2. QED
    BY <1>2, <1>4, <1>10, <2>1 DEF a, b, c
<1>11. QED
  BY <1>6, <1>7, <1>8, <1>9, <1>10

\* Its definition is a loop over the characters.
LEMMA AutomatonTurns ==
  ASSUME NEW u, Len(u) \in Nat
  PROVE  \E after : /\ Automaton(u) = after[Len(u)]
                    /\ \A i \in 0..Len(u) : after[i] \in Cursor
                    /\ \A i \in 1..Len(u) : after[i] = ReadAt(u, after[i - 1], i)
<1> DEFINE N == Len(u)
           F == [x \in Cursor \X (1..N) |-> ReadAt(u, x[1], x[2])]
           c == [state |-> 0, from |-> 0, to |-> 0]
<1>1. N \in Nat
  OBVIOUS
<1>2. c \in Cursor
  BY DEF Cursor
<1>3. \A a \in Cursor, i \in 1..N : ReadAt(u, a, i) \in Cursor
  <2>1. TAKE a \in Cursor, i \in 1..N
  <2>2. i \in Nat \ {0}
    BY <1>1
  <2>3. ReadAt(u, Reading(a.state, a.from, a.to), i) \in Cursor
    <3>1. Reads(u, i, a.state, a.from, a.to)
      BY <2>2, CursorFields, ReadAtFacts
    <3>2. QED
      BY <3>1 DEF Reads
  <2>4. QED
    BY <2>3, CursorFields
<1>4. F \in [Cursor \X (1..N) -> Cursor]
  BY <1>3
<1>5. \A a \in Cursor, i \in 1..N : F[<<a, i>>] = ReadAt(u, a, i)
  OBVIOUS
<1> HIDE DEF F, c, N
<1>6. PICK h \in [0..N -> Cursor] : h[0] = c /\ \A i \in 1..N : h[i] = F[<<h[i - 1], i>>]
  <2>1. \E h : h \in Loop(N, Cursor, c, F)
    BY <1>1, <1>2, <1>4, LoopExists
  <2>2. QED
    BY <2>1 DEF Loop
<1>7. \A i \in 1..N : h[i] = ReadAt(u, h[i - 1], i)
  <2>1. TAKE i \in 1..N
  <2>2. i \in 0..N /\ i - 1 \in 0..N
    BY <1>1
  <2>3. QED
    BY <1>5, <1>6, <2>2
<1> DEFINE after == CHOOSE f : f = [i \in 0..N |-> IF i = 0 THEN c ELSE ReadAt(u, f[i - 1], i)]
<1>8. h = [i \in 0..N |-> IF i = 0 THEN c ELSE ReadAt(u, h[i - 1], i)]
  BY <1>1, <1>6, <1>7
<1>9. after = [i \in 0..N |-> IF i = 0 THEN c ELSE ReadAt(u, after[i - 1], i)]
  BY <1>8
<1>10. Automaton(u) = after[N]
  BY DEF Automaton, c, N
<1> HIDE DEF after
<1>11. after[0] = c /\ \A i \in 1..N : after[i] = ReadAt(u, after[i - 1], i)
  BY <1>1, <1>9
<1> DEFINE S == {i \in 0..N : \A k \in 0..i : after[k] \in Cursor}
<1>12. N \in S
  <2>1. 0 \in S
    <3>1. 0 \in 0..N /\ \A k \in 0..0 : k = 0
      BY <1>1
    <3>2. QED
      BY <1>2, <1>11, <3>1
  <2>2. \A i \in 0..N - 1 : i \in S => i + 1 \in S
    <3>1. SUFFICES ASSUME NEW i \in 0..N - 1, \A k \in 0..i : after[k] \in Cursor
                   PROVE  i + 1 \in S
      OBVIOUS
    <3>2. i + 1 \in 1..N /\ (i + 1) - 1 = i /\ i \in 0..i
      BY <1>1
    <3>3. after[i + 1] \in Cursor
      BY <1>3, <1>11, <3>1, <3>2
    <3>4. \A k \in 0..i + 1 : k = i + 1 \/ k \in 0..i
      BY <3>2
    <3>5. i + 1 \in 0..N
      BY <3>2
    <3>6. QED
      BY <3>1, <3>3, <3>4, <3>5
  <2> HIDE DEF S
  <2>3. Rises(0, N, S)
    BY <2>1, <2>2 DEF Rises
  <2>4. QED
    BY <1>1, <2>3, Upwards
<1>13. QED
  BY <1>10, <1>11, <1>12 DEF N

\* A number has at least one figure.
LEMMA DecimalLong == \A n \in Nat : Len(Decimal[n]) \in Nat \ {0}
<1>1. TAKE n \in Nat
<1>2. Decimal[n] \in Seq(Figures) /\ Decimal[n] = Step(Decimal, n)
  BY DecimalStep
<1>3. CASE n < 10
  BY <1>2, <1>3 DEF Step
<1>4. CASE n >= 10
  <2>1. n \div 10 \in Nat
    BY <1>4, TenthSmaller
  <2>2. Decimal[n \div 10] \in Seq(Figures)
    BY <2>1, DecimalStep
  <2>3. Decimal[n] = Append(Decimal[n \div 10], DigitChars[(n % 10) + 1])
    BY <1>2, <1>4 DEF Step
  <2>4. Decimal[n] # <<>>
    BY <2>2, <2>3, AppendProperties
  <2> HIDE DEF Decimal
  <2>5. QED
    BY <1>2, <2>4, EmptySeq, LenProperties
<1>5. QED
  BY <1>3, <1>4

\* Where the last dash, the figures and the ".cor" of a link are: arithmetic.
LEMMA LinkNumbers ==
  ASSUME NEW a \in Nat, NEW b \in Nat, NEW c \in Nat, NEW l \in Nat \ {0}
  PROVE  LET e == b + c + 1 IN
         /\ e \in 1..e + l + 1 + 3 /\ \A i \in 1..l : e + i \in 1..e + l + 1 + 3
         /\ \A i \in {0, 1, 2, 3} : e + l + 1 + i \in 1..e + l + 1 + 3
         /\ \A i \in 1..l : a + (e + i) = a + e + i
         /\ \A i \in {0, 1, 2, 3} : a + (e + l + 1 + i) = a + e + l + (1 + i)
         /\ a + (e + l + 1 + 3) = a + e + l + 4
         /\ a + e \in Nat \ {0} /\ a + e + l \in Nat /\ a + e + l >= a + e + 1
OBVIOUS

\* The end of a link: the last dash is at D, the last figure at E.
EndsIn(u, D, E, n) ==
  /\ D \in Nat \ {0} /\ E = D + Len(n) /\ Len(u) = E + 4
  /\ u[D] = "-" /\ \A i \in 1..Len(n) : u[D + i] = n[i]
  /\ u[E + 1] = "." /\ u[E + 2] = "c" /\ u[E + 3] = "o" /\ u[E + 4] = "r"

\* Every link ends with a dash, the figures of the ID and ".cor".
LEMMA LinkEnds ==
  ASSUME NEW d \in Seq(Characters), NEW id \in Nat
  PROVE  EndsIn(WholeLink(d, id), Above + Dash(d), Above + Dash(d) + Len(Decimal[id]), Decimal[id])
<1> DEFINE u == WholeLink(d, id)
           f == WholeName(d, id)
           e == Dash(d)
           a == Above
           n == Decimal[id]
           l == Len(n)
           o == Dot(d, id)
           b == Before(d)
           m == Len(d)
<1>1. b \in Nat /\ m \in Nat /\ a \in Nat /\ l \in Nat \ {0} /\ e = b + m + 1 /\ o = e + l + 1
  BY WholeNameSlashes, LinkFacts, DecimalLong DEF Dash, Dot
<1>2. /\ \A i \in 1..Len(f) : u[a + i] = f[i]
      /\ Len(u) = a + Len(f) /\ Len(f) = o + 3
      /\ f[e] = "-" /\ \A i \in 1..l : f[e + i] = n[i]
      /\ f[o] = "." /\ f[o + 1] = "c" /\ f[o + 2] = "o" /\ f[o + 3] = "r"
  BY LinkFacts, WholeNameFacts, ZenonT(30)
<1> HIDE DEF u, f, e, a, n, l, o, b, m
<1>3. /\ e \in 1..e + l + 1 + 3 /\ \A i \in 1..l : e + i \in 1..e + l + 1 + 3
      /\ \A i \in {0, 1, 2, 3} : e + l + 1 + i \in 1..e + l + 1 + 3
      /\ \A i \in 1..l : a + (e + i) = a + e + i
      /\ \A i \in {0, 1, 2, 3} : a + (e + l + 1 + i) = a + e + l + (1 + i)
      /\ a + (e + l + 1 + 3) = a + e + l + 4
      /\ a + e \in Nat \ {0} /\ a + e + l \in Nat
  BY <1>1, LinkNumbers
<1>4. o + 0 = o /\ 1 + 0 = 1 /\ 1 + 1 = 2 /\ 1 + 2 = 3 /\ 1 + 3 = 4
  BY <1>1
<1>5. \A i \in {0, 1, 2, 3} : u[a + e + l + (1 + i)] = f[o + i]
  BY <1>1, <1>2, <1>3
<1>6. /\ u[a + e + l + 1] = f[o + 0] /\ u[a + e + l + 2] = f[o + 1]
      /\ u[a + e + l + 3] = f[o + 2] /\ u[a + e + l + 4] = f[o + 3]
  <2>1. /\ u[a + e + l + (1 + 0)] = f[o + 0] /\ u[a + e + l + (1 + 1)] = f[o + 1]
        /\ u[a + e + l + (1 + 2)] = f[o + 2] /\ u[a + e + l + (1 + 3)] = f[o + 3]
    BY <1>5
  <2>2. QED
    BY <1>4, <2>1
<1>7. u[a + e] = "-" /\ \A i \in 1..l : u[a + e + i] = n[i]
  BY <1>1, <1>2, <1>3
<1>8. Len(u) = a + e + l + 4
  BY <1>1, <1>2, <1>3
<1>9. QED
  BY <1>2, <1>3, <1>4, <1>6, <1>7, <1>8 DEF EndsIn, u, e, a, n, l

\* In a link the ID is what the automaton has found in the end.
LEMMA AutomatonFacts ==
  ASSUME NEW u, NEW n \in Seq(Figures), Len(n) \in Nat \ {0}, NEW D, NEW E, EndsIn(u, D, E, n)
  PROVE  Automaton(u) = Reading(6, D + 1, E)
<1> DEFINE L == Len(n)
<1>1. /\ L \in Nat \ {0} /\ D \in Nat \ {0} /\ E = D + L /\ Len(u) = E + 4
      /\ u[D] = "-" /\ \A i \in 1..L : u[D + i] \in Figures
      /\ u[E + 1] = "." /\ u[E + 2] = "c" /\ u[E + 3] = "o" /\ u[E + 4] = "r"
  BY ElementOfSeq DEF EndsIn
<1> HIDE DEF L
<1>2. Len(u) \in Nat
  BY <1>1
<1>3. PICK after : /\ Automaton(u) = after[Len(u)]
                   /\ \A i \in 0..Len(u) : after[i] \in Cursor
                   /\ \A i \in 1..Len(u) : after[i] = ReadAt(u, after[i - 1], i)
  BY <1>2, AutomatonTurns
<1>4. 1 \in 0..6 /\ 2 \in 0..6 /\ 3 \in 0..6 /\ 4 \in 0..6 /\ 5 \in 0..6
  OBVIOUS
<1>5. PICK b, t \in Nat : after[D] = Reading(1, b, t)
  <2> DEFINE a == after[D - 1]
  <2>1. D \in 1..Len(u) /\ D - 1 \in 0..Len(u)
    BY <1>1
  <2>2. a \in Cursor /\ after[D] = ReadAt(u, a, D)
    BY <1>3, <2>1
  <2> HIDE DEF a
  <2>3. a = Reading(a.state, a.from, a.to) /\ a.state \in 0..6 /\ a.from \in Nat /\ a.to \in Nat
    BY <2>2, CursorFields
  <2>4. Reads(u, D, a.state, a.from, a.to)
    BY <1>1, <2>3, ReadAtFacts
  <2>5. QED
    BY <1>1, <2>2, <2>3, <2>4 DEF Reads
<1> DEFINE S == {i \in D + 1..E : after[i] = Reading(2, D + 1, t)}
<1>6. E \in S
  <2>1. D + 1 \in S
    <3>1. D + 1 \in D + 1..E /\ (D + 1) - 1 = D /\ D + 1 \in 1..Len(u) /\ D + 1 \in Nat \ {0}
      BY <1>1
    <3>2. after[D + 1] = ReadAt(u, Reading(1, b, t), D + 1)
      BY <1>3, <1>5, <3>1
    <3>3. u[D + 1] \in Figures
      BY <1>1
    <3>4. Reads(u, D + 1, 1, b, t)
      BY <1>4, <1>5, <3>1, ReadAtFacts
    <3>5. after[D + 1] = Reading(2, D + 1, t)
      BY <3>2, <3>3, <3>4 DEF Reads
    <3>6. QED
      BY <3>1, <3>5
  <2>2. ASSUME NEW i \in D + 1..E - 1, i \in S
        PROVE  i + 1 \in S
    <3>1. /\ i + 1 \in D + 1..E /\ (i + 1) - 1 = i /\ i + 1 \in 1..Len(u) /\ i + 1 \in Nat \ {0}
          /\ D + 1 \in Nat /\ (i + 1) - D \in 1..L /\ D + ((i + 1) - D) = i + 1
      BY <1>1
    <3>2. after[i + 1] = ReadAt(u, Reading(2, D + 1, t), i + 1)
      BY <1>3, <2>2, <3>1
    <3>3. u[i + 1] \in Figures
      BY <1>1, <3>1
    <3>4. Reads(u, i + 1, 2, D + 1, t)
      BY <1>4, <1>5, <3>1, ReadAtFacts
    <3>5. after[i + 1] = Reading(2, D + 1, t)
      BY <3>2, <3>3, <3>4 DEF Reads
    <3>6. QED
      BY <3>1, <3>5
  <2>3. D + 1 \in Nat /\ E \in Nat /\ D + 1 <= E
    BY <1>1
  <2> HIDE DEF S
  <2>4. Rises(D + 1, E, S)
    BY <2>1, <2>2 DEF Rises
  <2>5. QED
    BY <2>3, <2>4, Upwards
<1>7. after[E] = Reading(2, D + 1, t) /\ D + 1 \in Nat /\ E \in Nat
  BY <1>1, <1>6
<1> HIDE DEF S
<1>8. /\ E + 1 \in 1..Len(u) /\ E + 2 \in 1..Len(u) /\ E + 3 \in 1..Len(u) /\ E + 4 \in 1..Len(u)
      /\ E + 1 \in Nat \ {0} /\ E + 2 \in Nat \ {0} /\ E + 3 \in Nat \ {0} /\ E + 4 \in Nat \ {0}
      /\ (E + 1) - 1 = E /\ (E + 2) - 1 = E + 1 /\ (E + 3) - 1 = E + 2 /\ (E + 4) - 1 = E + 3
  BY <1>1, <1>7
<1>9. after[E + 1] = Reading(3, D + 1, E)
  <2>1. after[E + 1] = ReadAt(u, Reading(2, D + 1, t), E + 1)
    BY <1>3, <1>7, <1>8
  <2>2. Reads(u, E + 1, 2, D + 1, t)
    BY <1>4, <1>7, <1>8, ReadAtFacts
  <2>3. QED
    BY <1>1, <1>8, <2>1, <2>2 DEF Reads
<1>10. after[E + 2] = Reading(4, D + 1, E)
  <2>1. after[E + 2] = ReadAt(u, Reading(3, D + 1, E), E + 2)
    BY <1>3, <1>8, <1>9
  <2>2. Reads(u, E + 2, 3, D + 1, E)
    BY <1>4, <1>7, <1>8, ReadAtFacts
  <2>3. QED
    BY <1>1, <2>1, <2>2 DEF Reads
<1>11. after[E + 3] = Reading(5, D + 1, E)
  <2>1. after[E + 3] = ReadAt(u, Reading(4, D + 1, E), E + 3)
    BY <1>3, <1>8, <1>10
  <2>2. Reads(u, E + 3, 4, D + 1, E)
    BY <1>4, <1>7, <1>8, ReadAtFacts
  <2>3. QED
    BY <1>1, <2>1, <2>2 DEF Reads
<1>12. after[E + 4] = Reading(6, D + 1, E)
  <2>1. after[E + 4] = ReadAt(u, Reading(5, D + 1, E), E + 4)
    BY <1>3, <1>8, <1>11
  <2>2. Reads(u, E + 4, 5, D + 1, E)
    BY <1>4, <1>7, <1>8, ReadAtFacts
  <2>3. QED
    BY <1>1, <2>1, <2>2 DEF Reads
<1>13. QED
  BY <1>1, <1>3, <1>12

-----------------------------------------------------------------------------
\* The ID is read back as it was written.

\* The value of a figure.
LEMMA FigureRange == \A c \in Figures : Figure(c) \in 0..9
<1>1. TAKE c \in Figures
<1>2. Figures = {DigitChars[i] : i \in 1..10}
  BY DEF Figures, ToSet, DigitChars
<1>3. PICK i \in 1..10 : c = DigitChars[i]
  BY <1>2
<1>4. i - 1 \in 0..9 /\ (i - 1) + 1 = i
  OBVIOUS
<1>5. Figure(DigitChars[(i - 1) + 1]) = i - 1
  BY <1>4, FigureFacts
<1>6. QED
  BY <1>3, <1>4, <1>5

\* v adds the figures n up, one after the other.
Adds(v, n) == v[0] = 0 /\ \A k \in 1..Len(n) : v[k] = 10 * v[k - 1] + Figure(n[k])

\* The last figure of a number and the others.
LEMMA WholeAndRest ==
  \A m \in Nat : m >= 10 => 10 * (m \div 10) + (m % 10) = m /\ m % 10 \in 0..9
<1>1. TAKE m \in Nat
<1>2. m % 10 \in 0..9
  OBVIOUS
<1>3. 10 * (m \div 10) + (m % 10) = m
  OBVIOUS
<1>4. QED
  BY <1>2, <1>3

\* The figures of a number, added up, are that number.
LEMMA ReadsBack ==
  ASSUME NEW m \in Nat, NEW v, Adds(v, Decimal[m])
  PROVE  v[Len(Decimal[m])] = m
<1> DEFINE Wrong(x) == \E w : Adds(w, Decimal[x]) /\ w[Len(Decimal[x])] # x
           Bad == {x \in Nat : Wrong(x)}
<1>1. SUFFICES ASSUME Bad # {} PROVE FALSE
  OBVIOUS
<1>2. PICK x \in Bad : \A y \in Bad : x <= y
  <2>1. Bad \in SUBSET Nat
    OBVIOUS
  <2> HIDE DEF Bad
  <2>2. QED
    BY <1>1, <2>1, LeastNumber
<1>3. PICK w : Adds(w, Decimal[x]) /\ w[Len(Decimal[x])] # x
  BY <1>2
<1>4. x \in Nat /\ Decimal[x] = Step(Decimal, x)
  BY <1>2, DecimalStep
<1>5. w[0] = 0 /\ \A k \in 1..Len(Decimal[x]) : w[k] = 10 * w[k - 1] + Figure(Decimal[x][k])
  BY <1>3 DEF Adds
<1>6. CASE x < 10
  <2>1. Decimal[x] = <<DigitChars[x + 1]>>
    BY <1>4, <1>6 DEF Step
  <2>2. Len(Decimal[x]) = 1 /\ Decimal[x][1] = DigitChars[x + 1] /\ 1 \in 1..1 /\ 1 - 1 = 0
    BY <2>1
  <2>3. x \in 0..9
    BY <1>4, <1>6
  <2>4. w[1] = 10 * w[0] + Figure(DigitChars[x + 1])
    BY <1>5, <2>2
  <2>5. Figure(DigitChars[x + 1]) = x
    BY <2>3, FigureFacts
  <2>6. w[1] = x
    BY <1>4, <1>5, <2>4, <2>5
  <2>7. QED
    BY <1>3, <2>2, <2>6
<1>7. CASE x >= 10
  <2> DEFINE h == x \div 10
             p == Decimal[h]
             l == Len(p)
             q == DigitChars[(x % 10) + 1]
  <2>1. h \in Nat /\ h < x
    BY <1>4, <1>7, TenthSmaller
  <2>2. p \in Seq(Figures) /\ l \in Nat
    BY <2>1, DecimalStep, DecimalLong
  <2>3. Decimal[x] = Append(p, q)
    BY <1>4, <1>7 DEF Step
  <2>4. 10 * h + (x % 10) = x /\ x % 10 \in 0..9
    BY <1>4, <1>7, WholeAndRest
  <2>5. q \in Figures /\ Figure(q) = x % 10
    BY <2>4, FigureFacts
  <2>6. h \notin Bad
    BY <1>2, <1>4, <2>1
  <2> HIDE DEF p, q, l
  <2>7. /\ Len(Decimal[x]) = l + 1
        /\ \A k \in 1..l : Decimal[x][k] = p[k]
        /\ Decimal[x][l + 1] = q
    BY <2>2, <2>3, <2>5, AppendProperties DEF l
  <2>8. \A k \in 1..l : k \in 1..l + 1
    BY <2>2
  <2>9. Adds(w, p)
    BY <1>5, <2>7, <2>8 DEF Adds, l
  <2>10. w[l] = h
    BY <2>1, <2>6, <2>9 DEF p, l
  <2>11. l + 1 \in 1..l + 1 /\ (l + 1) - 1 = l
    BY <2>2
  <2>12. w[l + 1] = 10 * h + Figure(q)
    BY <1>5, <2>7, <2>10, <2>11
  <2>13. w[l + 1] = x
    BY <2>4, <2>5, <2>12
  <2>14. QED
    BY <1>3, <2>7, <2>13
<1>8. QED
  BY <1>4, <1>6, <1>7

\* IDOf reads the ID of a link.
LEMMA IDOfFacts ==
  ASSUME NEW u, NEW m \in Nat, NEW D, NEW E, EndsIn(u, D, E, Decimal[m])
  PROVE  IDOf(u, Reading(6, D + 1, E)) = m
<1> DEFINE n == Decimal[m]
           L == Len(n)
           N == E + 1
           Turned(x, i) == IF i < D + 1 THEN 0 ELSE IF u[i] = "." THEN x ELSE 10 * x + Figure(u[i])
           F == [x \in Nat \X (1..N) |-> Turned(x[1], x[2])]
<1>1. /\ L \in Nat \ {0} /\ D \in Nat \ {0} /\ E = D + L
      /\ \A i \in 1..L : u[D + i] = n[i] /\ n[i] \in Figures
      /\ u[E + 1] = "."
  <2>1. n \in Seq(Figures) /\ L \in Nat \ {0}
    BY DecimalStep, DecimalLong
  <2>2. QED
    BY <2>1, ElementOfSeq DEF EndsIn
<1> HIDE DEF n, L
<1>2. N \in Nat /\ 0 < D + 1 /\ 0 \in Nat
  BY <1>1
<1>3. \A i \in 1..N : i < D + 1 \/ u[i] = "." \/ u[i] \in Figures
  <2>1. SUFFICES ASSUME NEW i \in 1..N, ~(i < D + 1), i # E + 1
                 PROVE  u[i] \in Figures
    BY <1>1
  <2>2. i - D \in 1..L /\ D + (i - D) = i
    BY <1>1, <2>1
  <2>3. QED
    BY <1>1, <2>2
<1>4. \A x \in Nat, i \in 1..N : Turned(x, i) \in Nat
  <2>1. TAKE x \in Nat, i \in 1..N
  <2>2. CASE i < D + 1 \/ u[i] = "."
    BY <2>2
  <2>3. CASE u[i] \in Figures
    <3>1. Figure(u[i]) \in Nat
      BY <2>3, FigureRange
    <3>2. QED
      BY <3>1
  <2>4. QED
    BY <1>3, <2>2, <2>3
<1> HIDE DEF Turned
<1>5. F \in [Nat \X (1..N) -> Nat]
  BY <1>4
<1>6. \A x \in Nat, i \in 1..N : F[<<x, i>>] = Turned(x, i)
  OBVIOUS
<1> HIDE DEF F, N
<1>7. PICK h \in [0..N -> Nat] : h[0] = 0 /\ \A i \in 1..N : h[i] = F[<<h[i - 1], i>>]
  <2>1. \E h : h \in Loop(N, Nat, 0, F)
    BY <1>2, <1>5, LoopExists
  <2>2. QED
    BY <2>1 DEF Loop
<1>8. \A i \in 1..N : h[i] = Turned(h[i - 1], i)
  <2>1. TAKE i \in 1..N
  <2>2. i - 1 \in 0..N
    BY <1>2
  <2>3. QED
    BY <1>6, <1>7, <2>2
<1> DEFINE Value(f) == [i \in 0..N |-> IF i < D + 1 THEN 0
                                       ELSE IF u[i] = "." THEN f[i - 1]
                                            ELSE 10 * f[i - 1] + Figure(u[i])]
           value == CHOOSE f : f = Value(f)
<1>9. h = Value(h)
  <2>1. \A i \in 0..N : h[i] = Value(h)[i]
    <3>1. TAKE i \in 0..N
    <3>2. CASE i = 0
      BY <1>2, <1>7, <3>2
    <3>3. CASE i \in 1..N
      BY <1>8, <3>3 DEF Turned
    <3>4. QED
      BY <1>2, <3>2, <3>3
  <2>2. QED
    BY <1>7, <2>1
<1>10. value = Value(value)
  <2> HIDE DEF Value
  <2>1. QED
    BY <1>9
<1>11. IDOf(u, Reading(6, D + 1, E)) = value[N]
  BY DEF IDOf, Reading, N
<1> HIDE DEF value
<1>12. \A i \in 0..N : /\ i < D + 1 => value[i] = 0
                       /\ i >= D + 1 /\ u[i] = "." => value[i] = value[i - 1]
                       /\ i >= D + 1 /\ u[i] # "." => value[i] = 10 * value[i - 1] + Figure(u[i])
  BY <1>1, <1>2, <1>10, SMTT(30)
<1> HIDE DEF Value
<1> DEFINE v == [k \in 0..L |-> value[D + k]]
<1>13. v[0] = 0
  <2>1. D + 0 = D /\ D \in 0..N /\ D < D + 1 /\ 0 \in 0..L
    BY <1>1 DEF N
  <2>2. QED
    BY <1>12, <2>1
<1>14. ASSUME NEW k \in 1..L
       PROVE  v[k] = 10 * v[k - 1] + Figure(n[k])
  <2>1. /\ D + k \in 0..N /\ D + k >= D + 1 /\ (D + k) - 1 = D + (k - 1)
        /\ k \in 0..L /\ k - 1 \in 0..L
    BY <1>1 DEF N
  <2>2. u[D + k] = n[k] /\ u[D + k] # "."
    BY <1>1, FigureFacts
  <2>3. value[D + k] = 10 * value[D + (k - 1)] + Figure(n[k])
    BY <1>12, <2>1, <2>2
  <2>4. QED
    BY <2>1, <2>3
<1>15. v[L] = value[E] /\ value[N] = value[E]
  <2>1. L \in 0..L /\ D + L = E
    BY <1>1
  <2>2. N \in 0..N /\ N >= D + 1 /\ N = E + 1 /\ N - 1 = E
    BY <1>1 DEF N
  <2>3. value[N] = value[N - 1]
    BY <1>1, <1>12, <2>2
  <2>4. QED
    BY <2>1, <2>2, <2>3
<1>16. v[L] = m
  <2> HIDE DEF v
  <2>1. Adds(v, Decimal[m])
    BY <1>13, <1>14 DEF Adds, n, L
  <2>2. QED
    BY <2>1, ReadsBack DEF n, L
<1>17. QED
  BY <1>11, <1>15, <1>16

-----------------------------------------------------------------------------
\* The way of an escaped link to the server.

\* Escapes are told apart, from each other and from what texts are made of.
LEMMA EscapeFacts ==
  /\ \A c \in Reserved : EscapeOf(c) \in Escapes
  /\ \A b, c \in Reserved : EscapeOf(b) = EscapeOf(c) => b = c
  /\ Escapes \cap (Reserved \cup Letters) = {}
  /\ "\\" \notin Letters
<1>1. /\ EscapeOf("?") = "%3F" /\ EscapeOf("%") = "%25" /\ EscapeOf(" ") = "%20"
  BY DEF EscapeOf
<1>2. \A c \in Reserved : c = "?" \/ c = "%" \/ c = " "
  BY DEF Reserved
<1>3. \A b, c \in Reserved : EscapeOf(b) = EscapeOf(c) => b = c
  BY <1>1, <1>2
<1>4. \A c \in Reserved : EscapeOf(c) \in Escapes
  BY <1>1, <1>2 DEF Escapes
<1>5. Figures = {"0", "1", "2", "3", "4", "5", "6", "7", "8", "9"}
  BY DEF Figures, ToSet, DigitChars
<1>6. Escapes \cap Reserved = {}
  BY DEF Escapes, Reserved
<1>7. Escapes \cap Letters = {} /\ "\\" \notin Letters
  BY <1>5, CharacterAssumption DEF Letters, Escapes
<1>8. QED
  BY <1>3, <1>4, <1>6, <1>7

\* Escaping replaces characters, by ones that the server does not take for others.
LEMMA EscapedFacts ==
  ASSUME NEW u \in Texts
  PROVE  /\ Len(Escaped(u)) = Len(u) /\ DOMAIN Escaped(u) = 1..Len(u) /\ Len(u) \in Nat
         /\ \A i \in 1..Len(u) :
              /\ Escaped(u)[i] \notin Reserved \cup {"*"}
              /\ Escaped(u)[i] = u[i] \/ (u[i] \in Reserved /\ Escaped(u)[i] = EscapeOf(u[i]))
              /\ Escaped(u)[i] = "/" <=> u[i] = "/"
              /\ u[i] \notin Reserved => Escaped(u)[i] = u[i]
<1> DEFINE v == Escaped(u)
<1>1. DOMAIN u = 1..Len(u) /\ Len(u) \in Nat /\ \A i \in 1..Len(u) : u[i] \in Letters
  BY LenProperties, ElementOfSeq DEF Texts
<1>2. v = [i \in 1..Len(u) |-> IF u[i] \in Reserved THEN EscapeOf(u[i]) ELSE u[i]]
  BY <1>1 DEF Escaped
<1>3. \A i \in 1..Len(u) : v[i] = IF u[i] \in Reserved THEN EscapeOf(u[i]) ELSE u[i]
  BY <1>2
<1>4. v \in [1..Len(u) -> Letters \cup Escapes]
  BY <1>1, <1>2, EscapeFacts
<1> HIDE DEF v
<1>5. Len(v) = Len(u) /\ DOMAIN v = 1..Len(u)
  <2>1. v \in Seq(Letters \cup Escapes)
    BY <1>1, <1>4, SeqDef
  <2>2. QED
    BY <1>1, <1>4, <2>1, LenProperties
<1>6. "/" \notin Reserved /\ "/" \notin Escapes /\ "*" \notin Escapes
  BY DEF Reserved, Escapes
<1>7. ASSUME NEW i \in 1..Len(u)
      PROVE  /\ v[i] \notin Reserved \cup {"*"}
             /\ v[i] = u[i] \/ (u[i] \in Reserved /\ v[i] = EscapeOf(u[i]))
             /\ v[i] = "/" <=> u[i] = "/"
             /\ u[i] \notin Reserved => v[i] = u[i]
  <2>1. CASE u[i] \in Reserved
    <3>1. v[i] = EscapeOf(u[i]) /\ v[i] \in Escapes
      BY <1>3, <2>1, EscapeFacts
    <3>2. QED
      BY <1>6, <2>1, <3>1, EscapeFacts
  <2>2. CASE u[i] \notin Reserved
    <3>1. v[i] = u[i] /\ u[i] # "*"
      BY <1>1, <1>3, <2>2, NoStars
    <3>2. QED
      BY <2>2, <3>1
  <2>3. QED
    BY <2>1, <2>2
<1>8. QED
  BY <1>1, <1>5, <1>7 DEF v

\* Where nothing needs an escape, nothing is escaped.
LEMMA NothingEscaped ==
  ASSUME NEW u \in Texts, ToSet(u) \cap Reserved = {}
  PROVE  Escaped(u) = u
<1>1. DOMAIN u = 1..Len(u) /\ u \in [1..Len(u) -> Letters]
  BY LenProperties DEF Texts
<1>2. \A i \in DOMAIN u : u[i] \notin Reserved
  BY DEF ToSet
<1>3. Escaped(u) = [i \in DOMAIN u |-> u[i]]
  BY <1>2 DEF Escaped
<1>4. QED
  BY <1>1, <1>3

\* The server receives an escaped text whole, and decodes it to what it was.
LEMMA EscapedArrives ==
  ASSUME NEW u \in Texts
  PROVE  /\ Received(Escaped(u)) = Escaped(u)
         /\ "%" \notin ToSet(Escaped(u))
         /\ Decoded(Escaped(u)) = u
<1> DEFINE v == Escaped(u)
<1>1. /\ Len(v) = Len(u) /\ DOMAIN v = 1..Len(u) /\ Len(u) \in Nat
      /\ \A i \in 1..Len(u) :
           /\ v[i] \notin Reserved
           /\ v[i] = u[i] \/ (u[i] \in Reserved /\ v[i] = EscapeOf(u[i]))
           /\ u[i] \notin Reserved => v[i] = u[i]
  BY EscapedFacts
<1>2. DOMAIN u = 1..Len(u) /\ u \in [1..Len(u) -> Letters] /\ \A i \in 1..Len(u) : u[i] \in Letters
  BY LenProperties, ElementOfSeq DEF Texts
<1> HIDE DEF v
<1>3. Received(v) = v
  <2>1. {i \in DOMAIN v : v[i] \in {" ", "?"}} = {}
    BY <1>1 DEF Reserved
  <2>2. QED
    BY <2>1 DEF Received
<1>4. "%" \notin ToSet(v)
  BY <1>1 DEF ToSet, Reserved
<1>5. ASSUME NEW i \in 1..Len(u)
      PROVE  (IF v[i] \in Escapes THEN CHOOSE c \in Reserved : EscapeOf(c) = v[i] ELSE v[i]) = u[i]
  <2>1. CASE u[i] \in Reserved
    <3>1. v[i] = EscapeOf(u[i])
      BY <1>1, <2>1
    <3>2. v[i] \in Escapes /\ \A c \in Reserved : EscapeOf(c) = v[i] => c = u[i]
      BY <2>1, <3>1, EscapeFacts
    <3>3. (CHOOSE c \in Reserved : EscapeOf(c) = v[i]) = u[i]
      BY <2>1, <3>1, <3>2
    <3>4. QED
      BY <3>2, <3>3
  <2>2. CASE u[i] \notin Reserved
    <3>1. v[i] = u[i] /\ v[i] \notin Escapes
      BY <1>1, <1>2, <2>2, EscapeFacts
    <3>2. QED
      BY <3>1
  <2>3. QED
    BY <2>1, <2>2
<1>6. Decoded(v) = [i \in 1..Len(u) |-> u[i]]
  BY <1>1, <1>5 DEF Decoded
<1>7. Decoded(v) = u
  BY <1>2, <1>6
<1>8. QED
  BY <1>3, <1>4, <1>7 DEF v

-----------------------------------------------------------------------------
\* The file that is served.

\* Nothing in g leads elsewhere.
Smooth(g) ==
  \A m \in 1..Len(g) - 1 :
    g[m] = "/" => /\ g[m + 1] # "/"
                  /\ ~(m + 3 <= Len(g) /\ g[m + 1] = "." /\ g[m + 2] = "." /\ g[m + 3] = "/")

\* s is g, of which the first slash is doubled.
Doubles(s, g) ==
  /\ Len(g) >= 2 /\ g[1] = "." /\ g[2] = "/" /\ Len(s) = Len(g) + 1
  /\ s[1] = g[1] /\ s[2] = g[2] /\ s[3] = "/"
  /\ \A i \in 4..Len(s) : s[i] = g[i - 1]

\* Of such a text remove_double_dots drops the second slash and nothing else.
LEMMA DotsRemoved ==
  ASSUME NEW g \in Texts, NEW s \in Texts, Smooth(g), Doubles(s, g)
  PROVE  RemoveDots(s) = g
<1> DEFINE N == Len(s)
           M(i) == IF i <= 2 THEN i ELSE i - 1
           At(i) == [kept |-> SubSeq(g, 1, M(i)), skip |-> 0]
           h == [i \in 0..N |-> At(i)]
           c == [kept |-> <<>>, skip |-> 0]
<1>1. /\ N \in Nat /\ N >= 3 /\ Len(g) = N - 1
      /\ g[1] = "." /\ g[2] = "/" /\ s[1] = g[1] /\ s[2] = g[2] /\ s[3] = "/"
      /\ \A i \in 4..N : s[i] = g[i - 1]
  BY DEF Texts, Doubles
<1>2. (\A i \in 1..N - 1 : g[i] \in Letters) /\ \A i \in 1..N : s[i] \in Letters
  BY <1>1, ElementOfSeq DEF Texts
<1>3. \A x \in Letters : x \in Separators <=> x = "/"
  BY EscapeFacts DEF Separators
<1>4. \A m \in 0..N - 1 : /\ SubSeq(g, 1, m) \in Seq(Letters) /\ Len(SubSeq(g, 1, m)) = m
                          /\ \A k \in 1..m : SubSeq(g, 1, m)[k] = g[k]
  <2>1. TAKE m \in 0..N - 1
  <2>2. \A k \in 1..m : k \in 1..N - 1 /\ 1 + k - 1 = k
    BY <1>1
  <2>3. /\ SubSeq(g, 1, m) \in Seq(Letters)
        /\ Len(SubSeq(g, 1, m)) = IF 1 <= m THEN m - 1 + 1 ELSE 0
        /\ \A k \in 1..m - 1 + 1 : SubSeq(g, 1, m)[k] = g[1 + k - 1]
    BY <1>1, <1>2, <2>2, SubSeqProperties
  <2>4. (IF 1 <= m THEN m - 1 + 1 ELSE 0) = m /\ 1..m - 1 + 1 = 1..m
    BY <1>1
  <2>5. QED
    BY <2>2, <2>3, <2>4
<1> HIDE DEF N
\* The last character kept is a separator when it is a slash.
<1>5. \A m \in 0..N - 1 :
        LET k == SubSeq(g, 1, m) IN
        (k # <<>> /\ Last(k) \in Separators) <=> (m > 0 /\ g[m] = "/")
  <2>1. TAKE m \in 0..N - 1
  <2> DEFINE k == SubSeq(g, 1, m)
  <2>2. k \in Seq(Letters) /\ Len(k) = m /\ \A l \in 1..m : k[l] = g[l]
    BY <1>4
  <2> HIDE DEF k
  <2>3. CASE m = 0
    <3>1. k = <<>>
      BY <2>2, <2>3, EmptySeq
    <3>2. QED
      BY <2>3, <3>1 DEF k
  <2>4. CASE m > 0
    <3>1. m \in 1..m /\ m \in 1..N - 1
      BY <1>1, <2>4
    <3>2. k # <<>> /\ Last(k) = g[m]
      BY <2>2, <2>4, <3>1 DEF Last
    <3>3. g[m] \in Separators <=> g[m] = "/"
      BY <1>2, <1>3, <3>1
    <3>4. QED
      BY <2>4, <3>2, <3>3 DEF k
  <2>5. QED
    BY <1>1, <2>3, <2>4
\* One more character is kept.
<1>6. \A m \in 0..N - 2 : Append(SubSeq(g, 1, m), g[m + 1]) = SubSeq(g, 1, m + 1)
  <2>1. TAKE m \in 0..N - 2
  <2>2. m \in 0..N - 1 /\ m + 1 \in 0..N - 1 /\ m + 1 \in 1..N - 1
    BY <1>1
  <2> DEFINE a == SubSeq(g, 1, m)
             b == SubSeq(g, 1, m + 1)
  <2>3. /\ a \in Seq(Letters) /\ Len(a) = m /\ \A k \in 1..m : a[k] = g[k]
        /\ b \in Seq(Letters) /\ Len(b) = m + 1 /\ \A k \in 1..m + 1 : b[k] = g[k]
    BY <1>4, <2>2
  <2> HIDE DEF a, b
  <2>4. /\ Append(a, g[m + 1]) \in Seq(Letters) /\ Len(Append(a, g[m + 1])) = m + 1
        /\ \A k \in 1..m : Append(a, g[m + 1])[k] = a[k]
        /\ Append(a, g[m + 1])[m + 1] = g[m + 1]
    BY <1>2, <2>2, <2>3, AppendProperties
  <2>5. \A k \in 1..m + 1 : k \in 1..m \/ k = m + 1
    BY <2>2
  <2>6. \A k \in 1..m + 1 : Append(a, g[m + 1])[k] = b[k]
    BY <2>3, <2>4, <2>5
  <2>7. Append(a, g[m + 1]) = b
    BY <2>3, <2>4, <2>6, SeqEqual
  <2>8. QED
    BY <2>7 DEF a, b
\* A turn that keeps the character.
<1>7. ASSUME NEW i \in 1..N, NEW m \in 0..N - 2, s[i] = g[m + 1],
             m > 0 /\ g[m] = "/" => s[i] # "/" /\ ~ParentAt(s, i)
      PROVE  KeepAt(s, [kept |-> SubSeq(g, 1, m), skip |-> 0], i)
               = [kept |-> SubSeq(g, 1, m + 1), skip |-> 0]
  <2> DEFINE k == SubSeq(g, 1, m)
             a == [kept |-> k, skip |-> 0]
  <2>1. m \in 0..N - 1
    BY <1>1
  <2>2. (k # <<>> /\ Last(k) \in Separators) <=> (m > 0 /\ g[m] = "/")
    BY <1>5, <2>1
  <2>3. s[i] \in Separators <=> s[i] = "/"
    BY <1>2, <1>3
  <2>4. Append(k, s[i]) = SubSeq(g, 1, m + 1)
    BY <1>6, <1>7
  <2> HIDE DEF k
  <2>5. a.kept = k /\ a.skip = 0 /\ ~(a.skip > 0)
    OBVIOUS
  <2>6. [a EXCEPT !.kept = Append(@, s[i])] = [kept |-> Append(k, s[i]), skip |-> 0]
    <3>1. \A x : [a EXCEPT !.kept = x] = [kept |-> x, skip |-> 0]
      OBVIOUS
    <3> HIDE DEF a
    <3>2. QED
      BY <2>5, <3>1
  <2> HIDE DEF a
  <2>7. KeepAt(s, a, i) = [a EXCEPT !.kept = Append(@, s[i])]
    BY <1>7, <2>2, <2>3, <2>5 DEF KeepAt
  <2>8. QED
    BY <2>4, <2>6, <2>7 DEF a, k
\* The turn that drops the second slash.
<1>8. KeepAt(s, [kept |-> SubSeq(g, 1, 2), skip |-> 0], 3) = [kept |-> SubSeq(g, 1, 2), skip |-> 0]
  <2> DEFINE k == SubSeq(g, 1, 2)
             a == [kept |-> k, skip |-> 0]
  <2>1. 2 \in 0..N - 1
    BY <1>1
  <2>2. k # <<>> /\ Last(k) \in Separators
    BY <1>1, <1>5, <2>1
  <2>3. s[3] \in Separators /\ ~ParentAt(s, 3)
    BY <1>1 DEF Separators, ParentAt
  <2> HIDE DEF k
  <2>4. a.kept = k /\ a.skip = 0 /\ ~(a.skip > 0)
    OBVIOUS
  <2> HIDE DEF a
  <2>5. KeepAt(s, a, 3) = a
    BY <2>2, <2>3, <2>4 DEF KeepAt
  <2>6. QED
    BY <2>5 DEF a, k
<1>9. ASSUME NEW i \in 1..N
      PROVE  KeepAt(s, At(i - 1), i) = At(i)
  <2>1. CASE i = 1
    <3>1. M(i - 1) = 0 /\ M(i) = 0 + 1 /\ 0 \in 0..N - 2 /\ s[i] = g[0 + 1]
      BY <1>1, <2>1
    <3>2. QED
      BY <1>7, <3>1
  <2>2. CASE i = 2
    <3>1. M(i - 1) = 1 /\ M(i) = 1 + 1 /\ 1 \in 0..N - 2 /\ s[i] = g[1 + 1] /\ g[1] # "/"
      BY <1>1, <2>2
    <3>2. QED
      BY <1>7, <3>1
  <2>3. CASE i = 3
    <3>1. M(i - 1) = 2 /\ M(i) = 2
      BY <2>3
    <3>2. QED
      BY <1>8, <2>3, <3>1
  <2>4. CASE i >= 4
    <3> DEFINE m == i - 2
    <3>1. M(i - 1) = m /\ M(i) = m + 1 /\ m \in 0..N - 2 /\ i \in 4..N /\ m + 1 = i - 1
      BY <1>1, <2>4
    <3>2. s[i] = g[m + 1]
      BY <1>1, <3>1
    <3>3. ASSUME g[m] = "/"
          PROVE  s[i] # "/" /\ ~ParentAt(s, i)
      <4>1. m \in 1..Len(g) - 1
        BY <1>1, <3>1, <2>4
      <4>2. /\ g[m + 1] # "/"
            /\ ~(m + 3 <= Len(g) /\ g[m + 1] = "." /\ g[m + 2] = "." /\ g[m + 3] = "/")
        BY <3>3, <4>1 DEF Smooth
      <4>3. ASSUME ParentAt(s, i)  PROVE FALSE
        <5>1. i + 2 <= N /\ s[i] = "." /\ s[i + 1] = "." /\ s[i + 2] \in Separators
          BY <4>3 DEF ParentAt, N
        <5>2. /\ i + 1 \in 4..N /\ i + 2 \in 4..N /\ (i + 1) - 1 = m + 2 /\ (i + 2) - 1 = m + 3
              /\ m + 3 <= Len(g) /\ i + 2 \in 1..N
          BY <1>1, <3>1, <5>1
        <5>3. s[i + 1] = g[m + 2] /\ s[i + 2] = g[m + 3]
          BY <1>1, <5>2
        <5>4. s[i + 2] = "/"
          BY <1>2, <1>3, <5>1, <5>2
        <5>5. QED
          BY <3>2, <4>2, <5>1, <5>2, <5>3, <5>4
      <4>4. QED
        BY <3>2, <4>2, <4>3
    <3>4. QED
      BY <1>7, <3>1, <3>2, <3>3
  <2>5. QED
    BY <1>1, <2>1, <2>2, <2>3, <2>4
<1>10. At(0) = c
  <2>1. M(0) = 0 /\ 0 \in 0..N - 1
    BY <1>1
  <2>2. SubSeq(g, 1, 0) = <<>>
    BY <1>4, <2>1, EmptySeq
  <2>3. QED
    BY <2>1, <2>2
<1> HIDE DEF At, c
<1>11. h = [i \in 0..N |-> IF i = 0 THEN c ELSE KeepAt(s, h[i - 1], i)]
  <2>1. ASSUME NEW i \in 0..N
        PROVE  h[i] = IF i = 0 THEN c ELSE KeepAt(s, h[i - 1], i)
    <3>1. CASE i = 0
      BY <1>10, <3>1
    <3>2. CASE i # 0
      <4>1. i \in 1..N /\ i - 1 \in 0..N
        BY <1>1, <3>2
      <4>2. h[i] = At(i) /\ h[i - 1] = At(i - 1)
        BY <4>1
      <4> HIDE DEF h
      <4>3. QED
        BY <1>9, <3>2, <4>1, <4>2
    <3>3. QED
      BY <3>1, <3>2
  <2>2. h = [i \in 0..N |-> h[i]]
    OBVIOUS
  <2> HIDE DEF h
  <2>3. QED
    BY <2>1, <2>2
<1> DEFINE Turns(f) == [i \in 0..N |-> IF i = 0 THEN c ELSE KeepAt(s, f[i - 1], i)]
           turn == CHOOSE f : f = Turns(f)
<1>12. turn = Turns(turn)
  <2>1. h = Turns(h)
    BY <1>11
  <2> HIDE DEF Turns, h
  <2>2. QED
    BY <2>1
<1>13. RemoveDots(s) = turn[N].kept
  BY DEF RemoveDots, c, N
<1> HIDE DEF turn
<1>14. turn[0] = c /\ \A i \in 1..N : turn[i] = KeepAt(s, turn[i - 1], i)
  BY <1>1, <1>12
<1> HIDE DEF Turns
<1> DEFINE S == {i \in 0..N : turn[i] = At(i)}
<1>15. N \in S
  <2>1. 0 \in S
    BY <1>1, <1>10, <1>14
  <2>2. \A i \in 0..N - 1 : i \in S => i + 1 \in S
    <3>1. TAKE i \in 0..N - 1
    <3>2. i + 1 \in 1..N /\ i + 1 \in 0..N /\ (i + 1) - 1 = i
      BY <1>1
    <3>3. KeepAt(s, At(i), i + 1) = At(i + 1) /\ turn[i + 1] = KeepAt(s, turn[i], i + 1)
      BY <1>9, <1>14, <3>2
    <3>4. QED
      BY <3>2, <3>3
  <2> HIDE DEF S
  <2>3. Rises(0, N, S)
    BY <2>1, <2>2 DEF Rises
  <2>4. QED
    BY <1>1, <2>3, Upwards
<1>16. RemoveDots(s) = SubSeq(g, 1, N - 1)
  <2>1. At(N) = [kept |-> SubSeq(g, 1, N - 1), skip |-> 0]
    BY <1>1 DEF At
  <2>2. QED
    BY <1>13, <1>15, <2>1
<1>17. SubSeq(g, 1, N - 1) = g
  <2>1. N - 1 \in 0..N - 1 /\ g \in Seq(Letters)
    BY <1>1 DEF Texts
  <2>2. QED
    BY <1>1, <1>4, <2>1, SeqEqual
<1>18. QED
  BY <1>16, <1>17

\* Nowhere in the name of a file is there a "//" or a "../", and it begins with neither.
LEMMA NameSmooth ==
  ASSUME NEW d \in Seq(Characters), NEW id \in Nat
  PROVE  LET f == WholeName(d, id) IN
         /\ f \in Texts /\ Len(f) > 4 /\ f[Len(f)] = "r" /\ f[1] # "/"
         /\ \A i \in 1..Len(f) - 1 : ~(f[i] = "/" /\ f[i + 1] = "/")
         /\ \A i \in 1..Len(f) - 2 : ~(f[i] = "." /\ f[i + 1] = "." /\ f[i + 2] = "/")
<1> DEFINE f == WholeName(d, id)
           p == PathName(d)
<1>1. f \in Texts /\ Len(f) = Dot(d, id) + 3 /\ f[Dot(d, id) + 3] = "r" /\ f[Dash(d)] = "-"
  BY WholeNameFacts
<1>2. /\ Before(d) \in Nat /\ Len(d) \in Nat /\ Dash(d) = Before(d) + Len(d) + 1
      /\ Len(Decimal[id]) \in Nat /\ Dot(d, id) = Dash(d) + Len(Decimal[id]) + 1
  BY WholeNameSlashes DEF Dash, Dot
<1>3. Len(f) > 4 /\ Len(f) \in Nat /\ f[Len(f)] = "r"
  BY <1>1, <1>2
<1>4. ASSUME NEW j \in 1..Len(f), f[j] = "/"
      PROVE  Before(d) = 0 /\ j \in 1..Len(d) /\ p[j] = "/"
  BY <1>4, FoldersFacts
<1>5. \A k \in 1..Len(d) : f[Before(d) + k] = p[k]
  BY WholeNameFacts
<1>6. /\ Len(p) = Len(d) /\ \A k \in 1..Len(d) : Harmless(p, k)
      /\ Len(d) > 0 => p[1] # "/"
  BY PathNameFacts
<1> HIDE DEF f, p
<1>7. f[1] # "/"
  <2>1. SUFFICES ASSUME f[1] = "/"  PROVE FALSE
    OBVIOUS
  <2>2. 1 \in 1..Len(d) /\ p[1] = "/"
    BY <1>3, <1>4, <2>1
  <2>3. QED
    BY <1>2, <1>6, <2>2
<1>8. ASSUME NEW i \in 1..Len(f) - 1, f[i] = "/", f[i + 1] = "/"
      PROVE  FALSE
  <2>1. i \in 1..Len(f) /\ i + 1 \in 1..Len(f)
    BY <1>3
  <2>2. i \in 1..Len(d) /\ p[i] = "/" /\ i + 1 \in 1..Len(d) /\ p[i + 1] = "/"
    BY <1>4, <1>8, <2>1
  <2>3. i + 1 <= Len(p)
    BY <1>2, <1>6, <2>2
  <2>4. QED
    BY <1>6, <2>2, <2>3 DEF Harmless
<1>9. ASSUME NEW i \in 1..Len(f) - 2, f[i] = ".", f[i + 1] = ".", f[i + 2] = "/"
      PROVE  FALSE
  <2>1. i + 2 \in 1..Len(f)
    BY <1>3
  <2>2. Before(d) = 0 /\ i + 2 \in 1..Len(d) /\ p[i + 2] = "/"
    BY <1>4, <1>9, <2>1
  <2>3. /\ i \in 1..Len(d) /\ i + 1 \in 1..Len(d) /\ i + 2 <= Len(p)
        /\ Before(d) + i = i /\ Before(d) + (i + 1) = i + 1
    BY <1>2, <1>6, <2>2
  <2>4. f[Before(d) + i] = p[i] /\ f[Before(d) + (i + 1)] = p[i + 1]
    BY <1>5, <2>3
  <2>5. p[i] = "." /\ p[i + 1] = "."
    BY <1>9, <2>3, <2>4
  <2>6. QED
    BY <1>6, <2>2, <2>3, <2>5 DEF Harmless
<1>10. QED
  BY <1>1, <1>3, <1>7, <1>8, <1>9 DEF f

\* The file of a game when nothing is cut, as mg_http_serve_dir writes it.
WholePath(d, id) == ReplayFolder \o <<"/">> \o WholeName(d, id)
WholeFile(d, id) == <<".", "/">> \o WholePath(d, id)

\* The replay folder, and what is after it.
LEMMA PathFacts ==
  ASSUME NEW d \in Seq(Characters), NEW id \in Nat
  PROVE  LET t == ReplayFolder \o <<"/">>
             f == WholeName(d, id)
             q == WholePath(d, id)
         IN
         /\ t \in Texts /\ Len(t) = Above - 1 /\ t[Len(t)] = "/" /\ Straight(t)
         /\ q \in Texts /\ Len(q) = Len(t) + Len(f) /\ Len(t) \in Nat \ {0} /\ Len(f) \in Nat
         /\ \A i \in 1..Len(t) : q[i] = t[i]
         /\ \A i \in 1..Len(f) : q[Len(t) + i] = f[i]
         /\ WholeLink(d, id) = <<"/">> \o q
<1> DEFINE r == ReplayFolder
           one == <<"/">>
           t == r \o one
           f == WholeName(d, id)
           q == t \o f
<1>1. r \in Seq(Letters) /\ f \in Seq(Letters) /\ one \in Seq(Letters)
  <2>1. r \in Seq(Letters)
    BY FolderText DEF Texts
  <2>2. f \in Seq(Letters)
    BY WholeNameFacts DEF Texts
  <2>3. one \in Seq(Letters)
    BY DEF Letters
  <2>4. QED
    BY <2>1, <2>2, <2>3
<1>2. Len(one) = 1 /\ one[1] = "/"
  OBVIOUS
<1>3. WholePath(d, id) = q /\ WholeLink(d, id) = ((one \o r) \o one) \o f
  BY DEF WholePath, WholeLink
<1>4. Straight(t)
  BY FolderAssumption
<1> HIDE DEF r, one, f
<1>5. Joins(r, one, Letters, t)
  BY <1>1, JoinedLetters
<1>6. t \in Seq(Letters) /\ Len(r) \in Nat /\ Len(t) = Len(r) + 1 /\ t[Len(r) + 1] = "/"
  <2> HIDE DEF t
  <2>1. QED
    BY <1>2, <1>5 DEF Joins
<1>7. ((one \o r) \o one) \o f = one \o q
  <2>1. (one \o r) \o one = one \o t
    BY <1>1
  <2> HIDE DEF t
  <2>2. (one \o t) \o f = one \o (t \o f)
    BY <1>1, <1>6
  <2>3. QED
    BY <2>1, <2>2
<1> HIDE DEF t
<1>8. Joins(t, f, Letters, q)
  BY <1>1, <1>6, JoinedLetters
<1> HIDE DEF q
<1>9. /\ q \in Seq(Letters) /\ Len(q) = Len(t) + Len(f) /\ Len(f) \in Nat
      /\ \A i \in 1..Len(t) : q[i] = t[i]
      /\ \A i \in 1..Len(f) : q[Len(t) + i] = f[i]
  BY <1>8 DEF Joins
<1>10. Len(t) = Above - 1 /\ Len(t) \in Nat \ {0} /\ t[Len(t)] = "/"
  BY <1>6 DEF Above, r
<1>11. QED
  BY <1>3, <1>4, <1>6, <1>7, <1>9, <1>10 DEF Texts, r, one, t, f

\* Nothing in the path leads elsewhere.
LEMMA PathSmooth ==
  ASSUME NEW d \in Seq(Characters), NEW id \in Nat
  PROVE  LET q == WholePath(d, id) IN
         \A k \in 1..Len(q) :
           k = 1 \/ q[k - 1] = "/" =>
             q[k] # "/" /\ ~(k + 2 <= Len(q) /\ q[k] = "." /\ q[k + 1] = "." /\ q[k + 2] = "/")
<1> DEFINE t == ReplayFolder \o <<"/">>
           f == WholeName(d, id)
           q == WholePath(d, id)
           T == Len(t)
<1>1. /\ t \in Texts /\ t[T] = "/" /\ Straight(t)
      /\ q \in Texts /\ Len(q) = T + Len(f) /\ T \in Nat \ {0} /\ Len(f) \in Nat
      /\ \A i \in 1..T : q[i] = t[i]
      /\ \A i \in 1..Len(f) : q[T + i] = f[i]
  BY PathFacts
<1>2. /\ f[1] # "/" /\ Len(f) > 4
      /\ \A i \in 1..Len(f) - 1 : ~(f[i] = "/" /\ f[i + 1] = "/")
      /\ \A i \in 1..Len(f) - 2 : ~(f[i] = "." /\ f[i + 1] = "." /\ f[i + 2] = "/")
  BY NameSmooth
<1>3. \A i \in 1..T : i = 1 \/ t[i - 1] = "/" =>
        t[i] # "/" /\ ~(i + 2 <= T /\ t[i] = "." /\ t[i + 1] = "." /\ t[i + 2] = "/")
  <2>1. SUFFICES ASSUME NEW i \in 1..T, i = 1 \/ t[i - 1] = "/"
                 PROVE  t[i] # "/"
                        /\ ~(i + 2 <= T /\ t[i] = "." /\ t[i + 1] = "." /\ t[i + 2] = "/")
    OBVIOUS
  <2>2. DOMAIN t = 1..T
    BY <1>1, LenProperties DEF Texts
  <2> HIDE DEF t
  <2>3. t[i] # "/" /\ ~(i + 2 <= Len(t) /\ ClimbsAt(t, i))
    BY <1>1, <2>1, <2>2 DEF Straight
  <2>4. i + 2 <= Len(t) => (ClimbsAt(t, i) <=> t[i] = "." /\ t[i + 1] = "." /\ t[i + 2] = "/")
    BY <1>1, <2>1, ClimbsMeans
  <2>5. QED
    BY <2>3, <2>4
<1> HIDE DEF t, f, q, T
<1>4. \A k \in T + 1..Len(q) : k - T \in 1..Len(f) /\ T + (k - T) = k /\ q[k] = f[k - T]
  <2>1. TAKE k \in T + 1..Len(q)
  <2>2. k - T \in 1..Len(f) /\ T + (k - T) = k
    BY <1>1
  <2>3. QED
    BY <1>1, <2>2
<1>5. ASSUME NEW k \in 1..Len(q), k = 1 \/ q[k - 1] = "/"
      PROVE  q[k] # "/" /\ ~(k + 2 <= Len(q) /\ q[k] = "." /\ q[k + 1] = "." /\ q[k + 2] = "/")
  <2>1. CASE k <= T
    <3>1. k \in 1..T /\ q[k] = t[k] /\ (k # 1 => k - 1 \in 1..T)
      BY <1>1, <2>1
    <3>2. k = 1 \/ t[k - 1] = "/"
      BY <1>1, <1>5, <3>1
    <3>3. t[k] # "/" /\ ~(k + 2 <= T /\ t[k] = "." /\ t[k + 1] = "." /\ t[k + 2] = "/")
      BY <1>3, <3>1, <3>2
    <3>4. ASSUME k + 2 <= Len(q), q[k] = ".", q[k + 1] = ".", q[k + 2] = "/"
          PROVE  FALSE
      <4>1. CASE k + 2 <= T
        <5>1. k + 1 \in 1..T /\ k + 2 \in 1..T
          BY <1>1, <4>1
        <5>2. QED
          BY <1>1, <3>1, <3>3, <3>4, <4>1, <5>1
      <4>2. CASE k + 2 > T
        <5>1. k = T \/ k + 1 = T
          BY <1>1, <2>1, <4>2
        <5>2. T \in 1..T
          BY <1>1
        <5>3. q[T] = "/"
          BY <1>1, <5>2
        <5>4. QED
          BY <3>4, <5>1, <5>3
      <4>3. QED
        BY <1>1, <4>1, <4>2
    <3>5. QED
      BY <3>1, <3>3, <3>4
  <2>2. CASE k > T
    <3> DEFINE i == k - T
    <3>1. i \in 1..Len(f) /\ q[k] = f[i] /\ k \in T + 1..Len(q)
      BY <1>1, <1>4, <2>2
    <3>2. q[k] # "/"
      <4>1. CASE i = 1
        BY <1>2, <3>1, <4>1
      <4>2. CASE i # 1
        <5>1. k - 1 \in T + 1..Len(q) /\ (k - 1) - T = i - 1 /\ i - 1 \in 1..Len(f) - 1 /\ k # 1
          BY <1>1, <3>1, <4>2
        <5>2. f[i - 1] = "/" /\ (i - 1) + 1 = i
          <6>1. q[k - 1] = f[(k - 1) - T]
            BY <1>4, <5>1
          <6>2. q[k - 1] = "/"
            BY <1>5, <5>1
          <6>3. (i - 1) + 1 = i
            BY <1>1
          <6> HIDE DEF i
          <6>4. QED
            BY <5>1, <6>1, <6>2, <6>3
        <5>3. QED
          BY <1>2, <3>1, <5>1, <5>2
      <4>3. QED
        BY <4>1, <4>2
    <3>3. ASSUME k + 2 <= Len(q), q[k] = ".", q[k + 1] = ".", q[k + 2] = "/"
          PROVE  FALSE
      <4>1. /\ k + 1 \in T + 1..Len(q) /\ k + 2 \in T + 1..Len(q) /\ i \in 1..Len(f) - 2
            /\ (k + 1) - T = i + 1 /\ (k + 2) - T = i + 2
        BY <1>1, <3>1, <3>3
      <4>2. f[i] = "." /\ f[i + 1] = "." /\ f[i + 2] = "/"
        BY <1>4, <3>1, <3>3, <4>1
      <4>3. QED
        BY <1>2, <4>1, <4>2
    <3>4. QED
      BY <3>2, <3>3
  <2>3. QED
    BY <1>1, <2>1, <2>2
<1>6. QED
  BY <1>5 DEF q

\* The file that is served is the one of the link.
LEMMA ServedFacts ==
  ASSUME NEW d \in Seq(Characters), NEW id \in Nat
  PROVE  Served(Escaped(WholeLink(d, id))) = WholeFile(d, id)
<1> DEFINE q == WholePath(d, id)
           u == WholeLink(d, id)
           g == WholeFile(d, id)
           one == <<"/">>
           here == <<".", "/">>
           s == here \o u
<1>1. q \in Texts /\ Len(q) > 4 /\ q[Len(q)] = "r" /\ Len(q) \in Nat /\ u = one \o q
  <2> DEFINE t == ReplayFolder \o <<"/">>
             f == WholeName(d, id)
  <2>1. /\ q \in Texts /\ Len(q) = Len(t) + Len(f) /\ Len(t) \in Nat \ {0} /\ Len(f) \in Nat
        /\ \A i \in 1..Len(f) : q[Len(t) + i] = f[i]
        /\ u = one \o q
    BY PathFacts
  <2>2. Len(f) > 4 /\ f[Len(f)] = "r"
    BY NameSmooth
  <2> HIDE DEF t, f, u, q
  <2>3. Len(f) \in 1..Len(f)
    BY <2>1, <2>2
  <2>4. QED
    BY <2>1, <2>2, <2>3
<1>2. \A k \in 1..Len(q) :
        k = 1 \/ q[k - 1] = "/" =>
          q[k] # "/" /\ ~(k + 2 <= Len(q) /\ q[k] = "." /\ q[k + 1] = "." /\ q[k + 2] = "/")
  BY PathSmooth
<1>3. g = here \o q
  BY DEF WholeFile
<1>4. /\ one \in Seq(Letters) /\ Len(one) = 1 /\ one[1] = "/"
      /\ here \in Seq(Letters) /\ Len(here) = 2 /\ here[1] = "." /\ here[2] = "/"
  BY DEF Letters
<1> HIDE DEF q, u, g, one, here
<1>5. /\ u \in Texts /\ Len(u) = 1 + Len(q) /\ u[1] = "/"
      /\ \A i \in 1..Len(q) : u[1 + i] = q[i]
  <2>1. Joins(one, q, Letters, u)
    BY <1>1, <1>4, JoinedLetters DEF Texts
  <2>2. QED
    BY <1>4, <2>1 DEF Joins, Texts
<1>6. /\ g \in Texts /\ Len(g) = 2 + Len(q) /\ g[1] = "." /\ g[2] = "/"
      /\ \A i \in 1..Len(q) : g[2 + i] = q[i]
  <2>1. Joins(here, q, Letters, g)
    BY <1>1, <1>3, <1>4, JoinedLetters DEF Texts
  <2>2. QED
    BY <1>4, <2>1 DEF Joins, Texts
<1>7. /\ s \in Texts /\ Len(s) = 2 + Len(u) /\ s[1] = "." /\ s[2] = "/"
      /\ \A i \in 1..Len(u) : s[2 + i] = u[i]
  <2>1. Joins(here, u, Letters, s)
    BY <1>4, <1>5, JoinedLetters DEF Texts
  <2> HIDE DEF s
  <2>2. QED
    BY <1>4, <2>1 DEF Joins, Texts
<1> HIDE DEF s
<1>8. Doubles(s, g)
  <2>1. s[3] = "/"
    <3>1. 1 \in 1..Len(u) /\ 2 + 1 = 3
      BY <1>1, <1>5
    <3>2. QED
      BY <1>5, <1>7, <3>1
  <2>2. ASSUME NEW i \in 4..Len(s)
        PROVE  s[i] = g[i - 1]
    <3>1. /\ i - 3 \in 1..Len(q) /\ i - 2 \in 1..Len(u) /\ 2 + (i - 2) = i
          /\ 1 + (i - 3) = i - 2 /\ 2 + (i - 3) = i - 1
      BY <1>1, <1>5, <1>7
    <3>2. s[2 + (i - 2)] = u[i - 2] /\ u[1 + (i - 3)] = q[i - 3] /\ g[2 + (i - 3)] = q[i - 3]
      BY <1>5, <1>6, <1>7, <3>1
    <3>3. QED
      BY <3>1, <3>2
  <2>3. QED
    BY <1>1, <1>5, <1>6, <1>7, <2>1, <2>2 DEF Doubles
<1>9. Smooth(g)
  <2>1. SUFFICES ASSUME NEW m \in 1..Len(g) - 1, g[m] = "/"
                 PROVE  /\ g[m + 1] # "/"
                        /\ ~(m + 3 <= Len(g) /\ g[m + 1] = "." /\ g[m + 2] = "."
                             /\ g[m + 3] = "/")
    BY DEF Smooth
  <2> DEFINE k == m - 1
  <2>2. k \in 1..Len(q) /\ 2 + k = m + 1
    BY <1>1, <1>6, <2>1
  <2>3. k = 1 \/ q[k - 1] = "/"
    <3>1. SUFFICES ASSUME k # 1  PROVE q[k - 1] = "/"
      OBVIOUS
    <3>2. k - 1 \in 1..Len(q) /\ 2 + (k - 1) = m
      BY <2>2, <3>1
    <3>3. QED
      BY <1>6, <2>1, <3>2
  <2>4. q[k] # "/" /\ ~(k + 2 <= Len(q) /\ q[k] = "." /\ q[k + 1] = "." /\ q[k + 2] = "/")
    BY <1>2, <2>2, <2>3
  <2>5. g[m + 1] = q[k]
    BY <1>6, <2>2
  <2>6. ASSUME m + 3 <= Len(g)
        PROVE  k + 2 <= Len(q) /\ g[m + 2] = q[k + 1] /\ g[m + 3] = q[k + 2]
    <3>1. /\ k + 2 <= Len(q) /\ k + 1 \in 1..Len(q) /\ k + 2 \in 1..Len(q)
          /\ 2 + (k + 1) = m + 2 /\ 2 + (k + 2) = m + 3
      BY <1>1, <1>6, <2>2, <2>6
    <3>2. QED
      BY <1>6, <3>1
  <2>7. QED
    BY <2>4, <2>5, <2>6
<1>10. RemoveDots(s) = g
  BY <1>6, <1>7, <1>8, <1>9, DotsRemoved
<1>11. Trim(g) = g
  <2>1. Len(q) \in 1..Len(q)
    BY <1>1
  <2>2. g[2 + Len(q)] = "r"
    BY <1>1, <1>6, <2>1
  <2>3. QED
    BY <1>6, <2>2 DEF Trim
<1>12. "%" \notin ToSet(Escaped(u)) /\ Decoded(Escaped(u)) = u
  BY <1>5, EscapedArrives
<1>13. Served(Escaped(u)) = Trim(RemoveDots(s))
  BY <1>12 DEF Served, s, here
<1>14. QED
  BY <1>10, <1>11, <1>13 DEF u, g

-----------------------------------------------------------------------------
\* The page behind a link.

\* What an escaped link leads to.
LEMMA PageFacts ==
  ASSUME NEW d \in Seq(Characters), NEW id \in Nat, NEW running
  PROVE  PageOf(Escaped(WholeLink(d, id)), running) =
           IF Cardinality(Folders(d)) # 1 THEN [kind |-> "404"]
           ELSE IF id \in running THEN [kind |-> "status", game |-> id]
           ELSE [kind |-> "file", path |-> WholeFile(d, id)]
<1> DEFINE u == WholeLink(d, id)
           v == Escaped(u)
           f == WholeName(d, id)
           n == Decimal[id]
           D == Above + Dash(d)
           E == D + Len(n)
           a == Automaton(v)
<1>1. /\ u \in Texts /\ Len(u) = Above + Len(f) /\ Above \in Nat \ {0} /\ Len(f) \in Nat
      /\ \A i \in 1..Len(f) : u[Above + i] = f[i]
      /\ Follows(u, Wildcard, Above)
      /\ \A i \in 1..Above : u[i] \notin Reserved
  BY LinkFacts
<1>2. EndsIn(u, D, E, n)
  BY LinkEnds
<1>3. n \in Seq(Figures) /\ Len(n) \in Nat \ {0}
  BY DecimalStep, DecimalLong
<1>4. /\ Received(v) = v /\ Served(v) = WholeFile(d, id)
  BY <1>1, EscapedArrives, ServedFacts
<1> HIDE DEF u, f
<1>5. /\ Len(v) = Len(u) /\ Len(u) \in Nat
      /\ \A i \in 1..Len(u) : /\ v[i] \notin Reserved \cup {"*"}
                              /\ v[i] = "/" <=> u[i] = "/"
                              /\ u[i] \notin Reserved => v[i] = u[i]
  BY <1>1, EscapedFacts
<1> HIDE DEF v, D, E, n
<1>6. Follows(v, Wildcard, Above)
  <2>1. /\ Len(Wildcard) = Above + 4 /\ Above <= Len(u)
        /\ \A i \in 1..Above : Wildcard[i] = u[i]
        /\ Wildcard[Above + 1] = "*" /\ Wildcard[Above + 2] = "*"
        /\ Wildcard[Above + 3] = "/" /\ Wildcard[Above + 4] = "*"
    BY <1>1 DEF Follows
  <2>2. \A i \in 1..Above : i \in 1..Len(u) /\ v[i] = u[i]
    BY <1>1, <1>5, <2>1
  <2>3. \A i \in 1..Above : Wildcard[i] = v[i]
    BY <2>1, <2>2
  <2>4. \A j \in 1..Len(v) : v[j] # "*"
    BY <1>5
  <2>5. QED
    BY <1>1, <1>5, <2>1, <2>3, <2>4 DEF Follows
<1>7. Routed(v) <=> Cardinality(Folders(d)) = 1
  <2>1. ASSUME NEW i \in 1..Len(f)
        PROVE  v[Above + i] = "/" <=> f[i] = "/"
    <3>1. Above + i \in 1..Len(u) /\ u[Above + i] = f[i]
      BY <1>1
    <3>2. QED
      BY <1>5, <3>1
  <2>2. Len(v) = Above + Len(f)
    BY <1>1, <1>5
  <2>3. QED
    BY <1>6, <2>1, <2>2, RoutedFacts DEF f
<1>8. EndsIn(v, D, E, n)
  <2>1. /\ D \in Nat \ {0} /\ E = D + Len(n) /\ Len(u) = E + 4
        /\ u[D] = "-" /\ \A i \in 1..Len(n) : u[D + i] = n[i]
        /\ u[E + 1] = "." /\ u[E + 2] = "c" /\ u[E + 3] = "o" /\ u[E + 4] = "r"
    BY <1>2 DEF EndsIn
  <2>2. /\ D \in 1..Len(u) /\ \A i \in 1..Len(n) : D + i \in 1..Len(u)
        /\ E + 1 \in 1..Len(u) /\ E + 2 \in 1..Len(u) /\ E + 3 \in 1..Len(u) /\ E + 4 \in 1..Len(u)
    BY <1>3, <2>1
  <2>3. /\ "-" \notin Reserved /\ "." \notin Reserved /\ "c" \notin Reserved
        /\ "o" \notin Reserved /\ "r" \notin Reserved
    BY DEF Reserved
  <2>4. Figures = {"0", "1", "2", "3", "4", "5", "6", "7", "8", "9"}
    BY DEF Figures, ToSet, DigitChars
  <2>5. \A i \in 1..Len(n) : n[i] \notin Reserved
    <3>1. \A i \in 1..Len(n) : n[i] \in Figures
      BY <1>3, ElementOfSeq
    <3>2. QED
      BY <2>4, <3>1 DEF Reserved
  <2>6. v[D] = "-" /\ v[E + 1] = "." /\ v[E + 2] = "c" /\ v[E + 3] = "o" /\ v[E + 4] = "r"
    BY <1>5, <2>1, <2>2, <2>3
  <2>7. \A i \in 1..Len(n) : v[D + i] = n[i]
    BY <1>5, <2>1, <2>2, <2>5
  <2>8. QED
    BY <1>5, <2>1, <2>6, <2>7 DEF EndsIn
<1>9. a = Reading(6, D + 1, E) /\ IDOf(v, Reading(6, D + 1, E)) = id
  <2>1. IDOf(v, Reading(6, D + 1, E)) = id
    BY <1>8, IDOfFacts DEF n
  <2>2. a = Reading(6, D + 1, E)
    BY <1>3, <1>8, AutomatonFacts
  <2>3. QED
    BY <2>1, <2>2
<1> HIDE DEF a
<1>10. a.state = 6 /\ IDOf(v, a) = id
  <2>1. Reading(6, D + 1, E).state = 6
    BY DEF Reading
  <2>2. QED
    BY <1>9, <2>1
<1>11. PageOf(v, running) =
         CASE ~Routed(v) -> [kind |-> "404"]
           [] Routed(v) /\ a.state = 6 /\ IDOf(v, a) \in running ->
                [kind |-> "status", game |-> IDOf(v, a)]
           [] OTHER -> [kind |-> "file", path |-> Served(v)]
  BY <1>4 DEF PageOf, a
<1>12. CASE Cardinality(Folders(d)) # 1
  BY <1>7, <1>11, <1>12 DEF v, u
<1>13. CASE Cardinality(Folders(d)) = 1 /\ id \in running
  BY <1>7, <1>10, <1>11, <1>13 DEF v, u
<1>14. CASE Cardinality(Folders(d)) = 1 /\ id \notin running
  BY <1>4, <1>7, <1>10, <1>11, <1>14 DEF v, u
<1>15. QED
  BY <1>12, <1>13, <1>14

\* When the answer fits, nothing is cut.
LEMMA Uncut ==
  ASSUME NEW d \in Seq(Characters), NEW id \in Nat, AnswerFits(d, id)
  PROVE  Link(d, id) = WholeLink(d, id) /\ StoredPath(d, id) = WholePath(d, id)
<1> DEFINE t == ReplayFolder \o <<"/">>
           f == WholeName(d, id)
           q == WholePath(d, id)
           H == HeadLength(id)
<1>1. /\ Len(q) = Len(t) + Len(f) /\ Len(t) = Above - 1 /\ Len(t) \in Nat /\ Len(f) \in Nat
      /\ WholeLink(d, id) = <<"/">> \o q
  BY PathFacts
<1>2. H \in Nat
  <2>1. Len(Decimal[id]) \in Nat
    BY DecimalLong
  <2>2. QED
    BY <2>1 DEF HeadLength
<1>3. Len(t) = Len(ReplayFolder) + 1
  <2>1. Len(ReplayFolder) \in Nat
    BY FolderText, LenProperties DEF Texts
  <2>2. QED
    BY <1>1, <2>1 DEF Above
<1>4. H + Len(ReplayFolder) + 1 + Len(f) < BufferLength /\ BufferLength \in Nat
  BY NamesAssumption DEF AnswerFits
<1>5. q = ReplayFolder \o <<"/">> \o f
  BY DEF WholePath
<1> HIDE DEF t, f, q, H
<1>6. Len(f) < BufferLength /\ Len(q) < BufferLength /\ Len(q) < BufferLength - H
  <2>1. Len(ReplayFolder) \in Nat
    BY FolderText, LenProperties DEF Texts
  <2>2. QED
    BY <1>1, <1>2, <1>3, <1>4, <2>1
<1>7. FileName(d, id) = f
  BY <1>6 DEF FileName, Cut, f
<1>8. Path(d, id) = q
  BY <1>5, <1>7 DEF Path
<1>9. StoredPath(d, id) = q /\ Link(d, id) = <<"/">> \o q
  BY <1>6, <1>8 DEF StoredPath, Link, Cut, H
<1>10. QED
  BY <1>1, <1>9 DEF q

\* The page shown is the one behind what was sent for the game that was asked for.
PageInv ==
  /\ Typed
  /\ page.kind = "answer" =>
       LET link == Link(description, page.asked) IN
       /\ page.asked \in GameIDs
       /\ page.answer = PageOf(IF page.escaped THEN Escaped(link) ELSE link, page.running)

\* That is an invariant.
LEMMA PageInvariant == NamesSpec => []PageInv
<1>1. NamesInit => PageInv
  BY DEF NamesInit, NoPage, PageInv, Typed
<1>2. PageInv /\ [NamesNext]_namesVars => PageInv'
  <2>1. SUFFICES ASSUME PageInv, [NamesNext]_namesVars
                 PROVE  PageInv'
    OBVIOUS
  <2>2. ASSUME NEW c \in Characters, Type(c)
        PROVE  PageInv'
    BY <2>1, <2>2 DEF PageInv, Typed, Type, NoPage
  <2>3. ASSUME NEW id \in GameIDs, NEW running \in SUBSET GameIDs,
               NEW escaped \in BOOLEAN, Visit(id, running, escaped)
        PROVE  PageInv'
    <3>1. /\ page'.asked = id /\ page'.running = running /\ page'.escaped = escaped
          /\ page'.answer = PageOf(IF escaped THEN Escaped(Link(description, id))
                                   ELSE Link(description, id), running)
          /\ description' = description
      BY <2>3 DEF Visit
    <3>2. page'.answer = PageOf(IF page'.escaped THEN Escaped(Link(description', page'.asked))
                                ELSE Link(description', page'.asked), page'.running)
      BY <3>1
    <3>3. Typed'
      BY <2>1, <3>1 DEF PageInv, Typed
    <3>4. QED
      BY <3>1, <3>2, <3>3 DEF PageInv
  <2>4. CASE UNCHANGED namesVars
    BY <2>1, <2>4 DEF PageInv, Typed, namesVars
  <2>5. QED
    BY <2>1, <2>2, <2>3, <2>4 DEF NamesNext
<1>3. QED
  BY <1>1, <1>2, PTL DEF NamesSpec

\* Of a description of any length of which the answer fits its buffer, the link of a
\* game in one folder, escaped by the client if there is anything to escape, leads to
\* the status of that very game while it runs and to its file afterwards, and every
\* other link is a 404.
THEOREM LinkLeadsToGameHolds == NamesSpec => []LinkLeadsToGame
<1>1. PageInv => LinkLeadsToGame
  <2> DEFINE d == description
             id == page.asked
             link == Link(d, id)
  <2>1. SUFFICES ASSUME PageInv, Visited, page.escaped \/ ToSet(link) \cap Reserved = {}
                 PROVE  page.answer = IF Cardinality(Folders(d)) # 1 THEN [kind |-> "404"]
                                      ELSE OwnPage
    BY DEF LinkLeadsToGame
  <2>2. /\ d \in Seq(Characters) /\ id \in Nat /\ AnswerFits(d, id)
        /\ page.answer = PageOf(IF page.escaped THEN Escaped(link) ELSE link, page.running)
    BY <2>1, NamesAssumption DEF PageInv, Typed, Visited
  <2>3. link = WholeLink(d, id) /\ StoredPath(d, id) = WholePath(d, id)
    BY <2>2, Uncut
  <2>4. link \in Texts
    <3>1. WholeLink(d, id) \in Texts
      BY <2>2, LinkFacts
    <3>2. QED
      BY <2>3, <3>1
  <2>5. page.answer = PageOf(Escaped(link), page.running)
    <3> HIDE DEF link
    <3>1. CASE page.escaped
      BY <2>2, <3>1
    <3>2. CASE ~page.escaped
      <4>1. Escaped(link) = link
        BY <2>1, <2>4, <3>2, NothingEscaped
      <4>2. QED
        BY <2>2, <3>2, <4>1
    <3>3. QED
      BY <3>1, <3>2
  <2>6. page.answer = IF Cardinality(Folders(d)) # 1 THEN [kind |-> "404"]
                      ELSE IF id \in page.running THEN [kind |-> "status", game |-> id]
                      ELSE [kind |-> "file", path |-> WholeFile(d, id)]
    BY <2>2, <2>3, <2>5, PageFacts
  <2>7. OwnPage = IF id \in page.running THEN [kind |-> "status", game |-> id]
                  ELSE [kind |-> "file", path |-> WholeFile(d, id)]
    BY <2>3 DEF OwnPage, WholeFile
  <2> HIDE DEF d, id
  <2>8. QED
    BY <2>6, <2>7
<1>2. QED
  BY <1>1, PageInvariant, PTL
=============================================================================
