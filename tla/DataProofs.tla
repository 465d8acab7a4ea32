----------------------------- MODULE DataProofs -----------------------------
(***************************************************************************)
(* What the three algorithms on data compute, for every input: the search   *)
(* of memory.c, the translation of a conversation for OpenAI-compatible     *)
(* servers (provider.c) and parse_mentions (irc_parse.c).                   *)
(*                                                                          *)
(* Each is a loop over a list.  Its result is stated at once, and shown by  *)
(* induction over the turns of the loop; the induction is the argument that *)
(* there is no least turn at which the loop and the statement part.         *)
(***************************************************************************)
EXTENDS MemoryStore, LlmProvider, Mentions,
        FiniteSetTheorems, SequenceTheorems, WellFoundedInduction, TLAPS

(* Induction.  A set of numbers has a least one: an induction over numbers  *)
(* is the argument that the least number at which a claim fails does not    *)
(* exist.                                                                   *)
LEMMA LeastOf ==
    ASSUME NEW T \in SUBSET Nat, T # {}
    PROVE  \E x \in T : \A y \in T : x <= y
<1> DEFINE R == OpToRel(<, Nat)
<1>1. IsWellFoundedOn(R, Nat)
  BY NatLessThanWellFounded
<1>2. \A x, y \in Nat : y < x => <<y, x>> \in R
  BY DEF OpToRel
<1> HIDE DEF R
<1>3. PICK x \in T : \A y \in T : ~(<<y, x>> \in R)
  BY <1>1, WFMin
<1>4. ASSUME NEW y \in T PROVE x <= y
  <2>1. x \in Nat /\ y \in Nat
    OBVIOUS
  <2>2. ~(y < x)
    BY <1>2, <1>3, <2>1
  <2> QED
    BY <2>1, <2>2
<1> QED
  BY <1>4

(* What Min and Max choose.                                                 *)
LEMMA MinOf ==
    ASSUME NEW S \in SUBSET Nat, S # {}
    PROVE  Min(S) \in S /\ \A y \in S : Min(S) <= y
<1>1. \E x \in S : \A y \in S : x <= y
  BY LeastOf
<1> QED
  BY <1>1 DEF Min

(* The same for the largest number of a bounded set.                        *)
LEMMA MaxOf ==
    ASSUME NEW S \in SUBSET Nat, S # {}, NEW n \in Nat, \A y \in S : y <= n
    PROVE  Max(S) \in S /\ \A y \in S : y <= Max(S)
<1> DEFINE T == {b \in Nat : \A y \in S : y <= b}
<1>1. PICK b \in T : \A c \in T : b <= c
  <2>1. T \in SUBSET Nat /\ n \in T
    OBVIOUS
  <2> HIDE DEF T
  <2> QED
    BY <2>1, LeastOf
<1>2. b \in S
  <2> SUFFICES ASSUME b \notin S PROVE FALSE
    OBVIOUS
  <2>1. PICK y \in S : TRUE
    OBVIOUS
  <2>2. y <= b /\ y # b /\ y \in Nat /\ b \in Nat
    BY <1>1
  <2>3. \A z \in S : z <= b /\ z # b /\ z \in Nat
    BY <1>1
  <2>4. b - 1 \in Nat /\ \A z \in S : z <= b - 1
    BY <2>2, <2>3
  <2>5. b <= b - 1
    BY <1>1, <2>4
  <2> QED
    BY <2>2, <2>5
<1>3. \A y \in S : b >= y
  BY <1>1
<1>4. \E x \in S : \A y \in S : x >= y
  BY <1>2, <1>3
<1>5. Max(S) \in S /\ \A y \in S : Max(S) >= y
  BY <1>4 DEF Max
<1> QED
  BY <1>5

(* Listed: all numbers of the set, once, in increasing order.               *)
LEMMA ListedInOrder ==
    ASSUME NEW S \in SUBSET Nat, IsFiniteSet(S)
    PROVE  /\ Cardinality(S) \in Nat
           /\ Listed(S) \in [1..Cardinality(S) -> S]
           /\ \A k, l \in 1..Cardinality(S) : k < l => Listed(S)[k] < Listed(S)[l]
           /\ \A i \in S : \E k \in 1..Cardinality(S) : Listed(S)[k] = i
<1> DEFINE n == Cardinality(S)
           Up(i) == {j \in S : j <= i}
           rank == [i \in S |-> Cardinality(Up(i))]
<1>1. n \in Nat
  BY FS_CardinalityType
<1>2. ASSUME NEW i \in S
      PROVE  IsFiniteSet(Up(i)) /\ Cardinality(Up(i)) \in 1..n
  <2>1. Up(i) \in SUBSET S /\ i \in Up(i)
    OBVIOUS
  <2>2. IsFiniteSet(Up(i)) /\ Cardinality(Up(i)) <= n
    BY <2>1, FS_Subset
  <2>3. Cardinality(Up(i)) \in Nat /\ Cardinality(Up(i)) # 0
    BY <2>1, <2>2, FS_CardinalityType, FS_EmptySet
  <2> QED
    BY <1>1, <2>2, <2>3
<1>3. ASSUME NEW i \in S, NEW j \in S, i < j
      PROVE  Cardinality(Up(i)) < Cardinality(Up(j))
  <2>0. S \subseteq Nat
    OBVIOUS
  <2>1. Up(i) \in SUBSET Up(j) /\ j \in Up(j) /\ j \notin Up(i)
    <3>1. i \in Nat /\ j \in Nat
      BY <2>0
    <3>2. \A x \in S : x \in Nat
      BY <2>0
    <3>3. \A x \in S : x <= i => x <= j
      BY <1>3, <3>1, <3>2
    <3>4. j <= j /\ ~(j <= i)
      BY <1>3, <3>1
    <3> QED
      BY <3>3, <3>4, Zenon
  <2>2. Cardinality(Up(i)) <= Cardinality(Up(j)) /\ Cardinality(Up(i)) # Cardinality(Up(j))
    BY <1>2, <2>1, FS_Subset
  <2> QED
    BY <1>1, <1>2, <2>2
<1>4. rank \in Injection(S, 1..n)
  <2>1. rank \in [S -> 1..n]
    BY <1>2
  <2>2. ASSUME NEW i \in S, NEW j \in S, rank[i] = rank[j] PROVE i = j
    <3>1. CASE i < j
      BY <1>1, <1>2, <1>3, <2>2, <3>1
    <3>2. CASE j < i
      BY <1>1, <1>2, <1>3, <2>2, <3>2
    <3> QED
      BY <3>1, <3>2
  <2> QED
    BY <2>1, <2>2 DEF Injection, IsInjective
<1>5. ASSUME NEW k \in 1..n PROVE \E i \in S : Cardinality(Up(i)) = k
  <2>1. IsFiniteSet(1..n) /\ Cardinality(1..n) = n
    BY <1>1, FS_Interval
  <2>2. rank \in Surjection(S, 1..n)
    BY <1>4, <2>1, FS_Injection
  <2>3. PICK i \in S : rank[i] = k
    BY <2>2 DEF Surjection
  <2> QED
    BY <2>3
<1> DEFINE Nth(k) == CHOOSE i \in S : Cardinality(Up(i)) = k
<1>6. Listed(S) = [k \in 1..n |-> Nth(k)]
  BY DEF Listed
<1>7. ASSUME NEW k \in 1..n PROVE Nth(k) \in S /\ Cardinality(Up(Nth(k))) = k
  BY <1>5
<1> HIDE DEF Nth
<1>8. ASSUME NEW k \in 1..n
      PROVE  Listed(S)[k] \in S /\ Cardinality(Up(Listed(S)[k])) = k
  BY <1>6, <1>7
<1>9. Listed(S) \in [1..n -> S]
  BY <1>6, <1>7
<1>10. ASSUME NEW k \in 1..n, NEW l \in 1..n, k < l PROVE Listed(S)[k] < Listed(S)[l]
  <2> DEFINE a == Listed(S)[k]
             b == Listed(S)[l]
  <2>1. a \in S /\ b \in S /\ Cardinality(Up(a)) = k /\ Cardinality(Up(b)) = l
    BY <1>8
  <2>2. a \in Nat /\ b \in Nat
    BY <2>1
  <2>3. k \in Nat /\ l \in Nat
    BY <1>1
  <2>4. a # b /\ ~(b < a)
    <3>1. a # b
      BY <1>10, <2>1, <2>3
    <3>2. b < a => l < k
      BY <1>3, <2>1
    <3> QED
      BY <1>10, <2>3, <3>1, <3>2
  <2> HIDE DEF a, b
  <2>5. a < b
    BY <2>2, <2>4
  <2> QED
    BY <2>5 DEF a, b
<1>11. ASSUME NEW i \in S PROVE \E k \in 1..n : Listed(S)[k] = i
  <2> DEFINE k == Cardinality(Up(i))
  <2>1. k \in 1..n
    BY <1>2
  <2>2. Listed(S)[k] \in S /\ Cardinality(Up(Listed(S)[k])) = k
    BY <1>8, <2>1
  <2>3. Listed(S)[k] = i
    BY <1>4, <2>2 DEF Injection, IsInjective
  <2> QED
    BY <2>1, <2>3
<1> QED
  BY <1>1, <1>9, <1>10, <1>11

(* Of a run of numbers, Listed counts them off.                             *)
LEMMA ListedRun ==
    ASSUME NEW a \in Nat, NEW n \in Nat
    PROVE  Listed(a + 1..a + n) = [k \in 1..n |-> a + k]
<1> DEFINE S == a + 1..a + n
<1>1. Cardinality(S) = n
  BY FS_Interval
<1>2. ASSUME NEW i \in S PROVE Cardinality({j \in S : j <= i}) = i - a
  <2> DEFINE T == {j \in S : j <= i}
  <2>1. T = a + 1..i
    OBVIOUS
  <2>2. i \in Nat /\ a + 1 <= i /\ a + 1 \in Int /\ i \in Int
    OBVIOUS
  <2>3. Cardinality(a + 1..i) = i - (a + 1) + 1
    BY <2>2, FS_Interval
  <2> HIDE DEF T
  <2>4. Cardinality(T) = i - a
    BY <2>1, <2>2, <2>3
  <2> QED
    BY <2>4 DEF T
<1>3. ASSUME NEW k \in 1..n
      PROVE  (CHOOSE i \in S : Cardinality({j \in S : j <= i}) = k) = a + k
  <2>1. a + k \in S /\ Cardinality({j \in S : j <= a + k}) = k
    BY <1>2
  <2>2. \A i \in S : Cardinality({j \in S : j <= i}) = k => i = a + k
    BY <1>2
  <2> HIDE DEF S
  <2> QED
    BY <2>1, <2>2
<1> HIDE DEF S
<1> QED
  BY <1>1, <1>3 DEF Listed, S

(* Induction up to n, with the claim as the set of numbers it holds for.    *)
LEMMA UpTo ==
    ASSUME NEW n \in Nat, NEW G, 0 \in G, \A k \in 1..n : k - 1 \in G => k \in G
    PROVE  0..n \subseteq G
<1> DEFINE T == {k \in 0..n : k \notin G}
<1> SUFFICES ASSUME T # {} PROVE FALSE
  OBVIOUS
<1>1. T \in SUBSET Nat
  OBVIOUS
<1>2. PICK k \in T : \A m \in T : k <= m
  <2> HIDE DEF T
  <2> QED
    BY <1>1, LeastOf
<1>3. k \in 1..n /\ k - 1 \in 0..n /\ k \notin G
  BY <1>2
<1>4. k - 1 \notin T
  BY <1>2, <1>3
<1> QED
  BY <1>3, <1>4

(* A loop of n rounds computes something: the function a recursive          *)
(* definition asks for exists.                                              *)
IsLoop(f, n, V, base, step) ==
    /\ f \in [0..n -> V]
    /\ f[0] = base
    /\ \A k \in 1..n : f[k] = step[<<f[k - 1], k>>]

(* Such a loop exists, whatever it computes: by induction, a run of m turns *)
(* can be continued by one.                                                 *)
LEMMA LoopRuns ==
    ASSUME NEW n \in Nat, NEW V, NEW base \in V, NEW step \in [V \X (1..n) -> V]
    PROVE  \E f : IsLoop(f, n, V, base, step)
<1> DEFINE Run(f, m) ==
             /\ f \in [0..m -> V]
             /\ f[0] = base
             /\ \A k \in 1..m : f[k] = step[<<f[k - 1], k>>]
           G == {m \in 0..n : \E f : Run(f, m)}
<1>1. 0 \in G
  <2> DEFINE f == [k \in 0..0 |-> base]
  <2>1. 1..0 = {} /\ 0 \in 0..0 /\ 0 \in 0..n
    OBVIOUS
  <2>2. f \in [0..0 -> V] /\ f[0] = base
    BY <2>1
  <2> HIDE DEF f
  <2>3. Run(f, 0)
    BY <2>1, <2>2
  <2> QED
    BY <2>1, <2>3
<1>2. ASSUME NEW m \in 1..n, m - 1 \in G PROVE m \in G
  <2>1. PICK f : Run(f, m - 1)
    BY <1>2
  <2> DEFINE v == step[<<f[m - 1], m>>]
             h == [k \in 0..m |-> IF k = m THEN v ELSE f[k]]
  <2>2. m \in Nat /\ m - 1 \in Nat /\ m - 1 \in 0..m - 1
    OBVIOUS
  <2>3. f[m - 1] \in V
    BY <2>1, <2>2
  <2>4. v \in V
    BY <2>3
  <2>5. \A k \in 0..m : k # m => k \in 0..m - 1
    BY <2>2
  <2>6. h \in [0..m -> V]
    BY <2>1, <2>4, <2>5
  <2>7. h[0] = base
    BY <2>1, <2>2
  <2>8. ASSUME NEW k \in 1..m PROVE h[k] = step[<<h[k - 1], k>>]
    <3>1. k - 1 \in 0..m /\ k - 1 # m /\ k \in 0..m
      BY <2>2
    <3>2. h[k - 1] = f[k - 1]
      BY <3>1
    <3>3. CASE k = m
      BY <3>1, <3>2, <3>3
    <3>4. CASE k # m
      <4>1. h[k] = f[k] /\ k \in 1..m - 1
        BY <2>2, <3>1, <3>4
      <4> QED
        BY <2>1, <3>2, <4>1
    <3> QED
      BY <3>3, <3>4
  <2> HIDE DEF h
  <2>9. Run(h, m)
    BY <2>6, <2>7, <2>8
  <2>10. m \in 0..n
    OBVIOUS
  <2> QED
    BY <2>9, <2>10
<1>3. n \in 0..n
  OBVIOUS
<1>4. n \in G
  <2> HIDE DEF G
  <2> QED
    BY <1>1, <1>2, <1>3, UpTo
<1> QED
  BY <1>4 DEF IsLoop

-----------------------------------------------------------------------------
(* Memory: what a search returns.                                           *)

Entry == [kind : {"entry"}, id : Nat, words : SUBSET Words]

(* An entry matches a number of words, at most those of the query.          *)
LEMMA ScoreIsNat ==
    ASSUME NEW e \in Entry, NEW query \in SUBSET Words
    PROVE  Score(e, query) \in Nat
<1>1. e.words \cap query \in SUBSET Words
  BY DEF Entry
<1>2. IsFiniteSet(e.words \cap query)
  BY <1>1, FS_Subset, MemAssumption
<1>3. Cardinality(e.words \cap query) \in Nat
  BY <1>2, FS_CardinalityType
<1> QED
  BY <1>3 DEF Score

(* InsertAt moves what is behind the place one further.                     *)
LEMMA InsertedAt ==
    ASSUME NEW X, NEW s \in Seq(X), NEW e \in X, NEW q \in Nat, 1 <= q, q <= Len(s) + 1
    PROVE  /\ InsertAt(s, q, e) \in Seq(X)
           /\ Len(InsertAt(s, q, e)) = Len(s) + 1
           /\ \A k \in 1..(Len(s) + 1) :
                InsertAt(s, q, e)[k] =
                  IF k < q THEN s[k] ELSE IF k = q THEN e ELSE s[k - 1]
<1> DEFINE a == SubSeq(s, 1, q - 1)
           b == SubSeq(s, q, Len(s))
           c == a \o <<e>>
           d == c \o b
<1>1. Len(s) \in Nat
  OBVIOUS
<1>2. a \in Seq(X) /\ Len(a) = q - 1 /\ \A k \in 1..q - 1 : a[k] = s[k]
  BY <1>1, SubSeqProperties
<1>3. b \in Seq(X) /\ Len(b) = Len(s) + 1 - q
  BY <1>1, SubSeqProperties
<1>4. ASSUME NEW k \in 1..Len(s) + 1 - q PROVE b[k] = s[q + k - 1]
  BY <1>1, SubSeqProperties
<1>5. InsertAt(s, q, e) = d
  BY Zenon DEF InsertAt
<1> HIDE DEF a, b
<1>6. /\ c \in Seq(X)
      /\ Len(c) = q
      /\ \A k \in 1..q : c[k] = IF k < q THEN s[k] ELSE e
  BY <1>1, <1>2
<1> HIDE DEF c
<1>7. d \in Seq(X) /\ Len(d) = Len(s) + 1
  BY <1>1, <1>3, <1>6, SMTT(60)
<1>8. ASSUME NEW k \in 1..(Len(s) + 1)
      PROVE  d[k] = IF k < q THEN s[k] ELSE IF k = q THEN e ELSE s[k - 1]
  <2>1. CASE k <= q
    BY <1>1, <1>3, <1>6, <2>1
  <2>2. CASE k > q
    <3>1. d[k] = b[k - q] /\ k - q \in 1..Len(s) + 1 - q
      BY <1>1, <1>3, <1>6, <2>2
    <3>2. b[k - q] = s[q + (k - q) - 1]
      BY <1>4, <3>1
    <3>3. q + (k - q) - 1 = k - 1
      BY <1>1
    <3>4. ~(k < q) /\ k # q
      BY <1>1, <2>2
    <3> QED
      BY <3>1, <3>2, <3>3, <3>4
  <2>3. k <= q \/ k > q
    BY <1>1
  <2> QED
    BY <2>1, <2>2, <2>3
<1> HIDE DEF d
<1> QED
  BY <1>5, <1>7, <1>8

(* The smaller of two numbers.                                              *)
LEMMA MinOfTwo ==
    ASSUME NEW a \in Nat, NEW b \in Nat
    PROVE  Min({a, b}) = IF a <= b THEN a ELSE b
<1>1. Min({a, b}) \in {a, b} /\ Min({a, b}) <= a /\ Min({a, b}) <= b
  <2>1. {a, b} \in SUBSET Nat /\ {a, b} # {}
    OBVIOUS
  <2> QED
    BY <2>1, MinOf
<1> QED
  BY <1>1

(* Position: behind the last that matches at least as many words.           *)
LEMMA PositionIs ==
    ASSUME NEW top \in Seq(Entry), NEW query \in SUBSET Words, NEW s \in Nat
    PROVE  LET pos == Position(top, s, query)
           IN  /\ pos \in 0..Len(top)
               /\ pos > 0 => Score(top[pos], query) >= s
               /\ \A i \in 1..Len(top) : i > pos => Score(top[i], query) < s
<1> DEFINE P == {0} \cup {i \in DOMAIN top : Score(top[i], query) >= s}
           pos == Max(P)
<1>1. Len(top) \in Nat /\ DOMAIN top = 1..Len(top)
  OBVIOUS
<1>2. P \in SUBSET Nat /\ P # {} /\ \A i \in P : i <= Len(top)
  BY <1>1
<1>3. pos \in P /\ \A i \in P : i <= pos
  <2> HIDE DEF P
  <2> QED
    BY <1>1, <1>2, MaxOf
<1>4. pos \in 0..Len(top)
  BY <1>1, <1>3
<1>5. pos > 0 => Score(top[pos], query) >= s
  BY <1>3
<1>6. ASSUME NEW i \in 1..Len(top), i > pos PROVE Score(top[i], query) < s
  <2>1. i \notin P
    BY <1>1, <1>3, <1>4, <1>6
  <2>2. ~(Score(top[i], query) >= s)
    BY <1>1, <2>1
  <2>3. top[i] \in Entry
    BY <1>1
  <2>4. Score(top[i], query) \in Nat
    BY <2>3, ScoreIsNat
  <2> QED
    BY <2>2, <2>4
<1>7. Position(top, s, query) = pos
  BY Zenon DEF Position
<1> HIDE DEF pos
<1> QED
  BY <1>4, <1>5, <1>6, <1>7

(* Insert leaves the list alone, or shifts what comes behind by one and     *)
(* drops what no longer fits.                                               *)
IsInserted(new, top, e, s, pos, n) ==
    /\ new \in Seq(Entry)
    /\ s = 0 \/ pos >= n => new = top
    /\ ~(s = 0 \/ pos >= n) =>
         /\ Len(new) = IF n <= Len(top) + 1 THEN n ELSE Len(top) + 1
         /\ \A k \in 1..Len(new) :
              new[k] = IF k <= pos THEN top[k]
                       ELSE IF k = pos + 1 THEN e ELSE top[k - 1]

(* That is what Insert does.                                                *)
LEMMA InsertIs ==
    ASSUME NEW top \in Seq(Entry), NEW e \in Entry, NEW query \in SUBSET Words, NEW n \in Nat,
           NEW s \in Nat, s = Score(e, query),
           NEW pos \in Nat, pos = Position(top, s, query),
           NEW new, new = Insert(top, e, query, n)
    PROVE  IsInserted(new, top, e, s, pos, n)
<1> USE DEF IsInserted
<1> DEFINE q == pos + 1
           longer == InsertAt(top, q, e)
           m == Min({n, Len(longer)})
<1>1. CASE s = 0 \/ pos >= n
  <2>1. new = top
    BY <1>1, Zenon DEF Insert
  <2> QED
    BY <1>1, <2>1
<1>2. CASE ~(s = 0 \/ pos >= n)
  <2>1. new = SubSeq(longer, 1, m)
    BY <1>2, Zenon DEF Insert
  <2>3. pos \in 0..Len(top) /\ Len(top) \in Nat
    BY PositionIs
  <2>4. q \in Nat /\ 1 <= q /\ q <= Len(top) + 1
    BY <2>3
  <2> HIDE DEF q
  <2>5. /\ longer \in Seq(Entry)
        /\ Len(longer) = Len(top) + 1
        /\ \A k \in 1..(Len(top) + 1) :
             longer[k] = IF k < q THEN top[k] ELSE IF k = q THEN e ELSE top[k - 1]
    BY <2>4, InsertedAt
  <2> HIDE DEF longer
  <2>6. m = (IF n <= Len(top) + 1 THEN n ELSE Len(top) + 1) /\ m \in 0..Len(top) + 1
    <3>1. Len(longer) \in Nat /\ Len(longer) = Len(top) + 1
      BY <2>3, <2>5
    <3>2. m = IF n <= Len(longer) THEN n ELSE Len(longer)
      BY <3>1, MinOfTwo
    <3> HIDE DEF m
    <3> QED
      BY <2>3, <3>1, <3>2
  <2> HIDE DEF m
  <2>7. (\A i \in 1..m : longer[i] \in Entry) /\ m \in Nat
    BY <2>3, <2>5, <2>6
  <2>8. /\ new \in Seq(Entry)
        /\ Len(new) = m
        /\ \A k \in 1..m : new[k] = longer[k]
    BY <2>1, <2>7, SubSeqProperties
  <2>9. ASSUME NEW k \in 1..Len(new)
        PROVE  new[k] = IF k <= pos THEN top[k]
                        ELSE IF k = pos + 1 THEN e ELSE top[k - 1]
    <3>1. k \in 1..(Len(top) + 1) /\ (k < q <=> k <= pos)
      BY <2>3, <2>6, <2>8 DEF q
    <3> QED
      BY <2>5, <2>8, <3>1 DEF q
  <2>10. Len(new) = IF n <= Len(top) + 1 THEN n ELSE Len(top) + 1
    BY <2>6, <2>8
  <2> QED
    BY <1>2, <2>8, <2>9, <2>10
<1> QED
  BY <1>1, <1>2

(* One round of the search: when the list holds the best of the entries     *)
(* behind position m, then after Insert it holds the best of those from m   *)
(* on.                                                                      *)
LEMMA InsertKeepsBest ==
    ASSUME NEW list \in Seq(Entry), NEW query \in SUBSET Words, NEW n \in Nat,
           NEW m \in 1..Len(list), NEW top \in Seq(Entry),
           Best(top, list, m + 1..Len(list), query, n)
    PROVE  Best(Insert(top, list[m], query, n), list, m..Len(list), query, n)
<1> DEFINE L == Len(list)
           T == Len(top)
           sc(i) == Score(list[i], query)
           s == sc(m)
           pos == Position(top, s, query)
           new == Insert(top, list[m], query, n)
           old == Matching(list, m + 1..L, query)
           all == Matching(list, m..L, query)
<1>1. L \in Nat /\ T \in Nat /\ DOMAIN top = 1..T /\ m \in 1..L
  OBVIOUS
<1>2. \A i \in 1..L : list[i] \in Entry /\ sc(i) \in Nat
  BY ScoreIsNat
<1>3. list[m] \in Entry /\ s \in Nat
  BY <1>2
<1>4. \A i, j : Before(list, query, i, j) <=> sc(i) > sc(j) \/ (sc(i) = sc(j) /\ i > j)
  BY DEF Before
<1>5. /\ pos \in 0..T
      /\ pos > 0 => Score(top[pos], query) >= s
      /\ \A i \in 1..T : i > pos => Score(top[i], query) < s
  BY <1>3, PositionIs
<1>6. /\ new \in Seq(Entry)
      /\ s = 0 \/ pos >= n => new = top
      /\ ~(s = 0 \/ pos >= n) =>
           /\ Len(new) = IF n <= T + 1 THEN n ELSE T + 1
           /\ \A k \in 1..Len(new) :
                new[k] = IF k <= pos THEN top[k]
                         ELSE IF k = pos + 1 THEN list[m] ELSE top[k - 1]
  <2>2. pos \in Nat
    BY <1>1, <1>5
  <2> DEFINE e == list[m]
  <2>3. /\ e \in Entry /\ s \in Nat /\ s = Score(e, query)
        /\ pos = Position(top, s, query) /\ new = Insert(top, e, query, n)
    BY <1>3
  <2> HIDE DEF s, pos, new, e
  <2>4. IsInserted(new, top, e, s, pos, n)
    BY <2>2, <2>3, InsertIs
  <2> QED
    BY <2>4, Zenon DEF IsInserted, e
<1>7. (\A i : i \in old <=> i \in m + 1..L /\ sc(i) > 0)
      /\ (\A i : i \in all <=> i \in m..L /\ sc(i) > 0)
  BY DEF Matching
<1>8. \A i \in all : i \in old \/ (i = m /\ s > 0)
  BY <1>1, <1>7
<1>9. \A i \in old : i \in all /\ i \in 1..L /\ i > m /\ sc(i) \in Nat
  BY <1>1, <1>2, <1>7
<1>10. PICK pick \in [DOMAIN top -> old] :
         /\ \A k \in DOMAIN top : top[k] = list[pick[k]]
         /\ \A k, l \in DOMAIN top : k < l => Before(list, query, pick[k], pick[l])
         /\ T <= n
         /\ \A i \in old \ {pick[k] : k \in DOMAIN top} :
              T = n /\ \A k \in DOMAIN top : Before(list, query, pick[k], i)
  BY DEF Best
<1> DEFINE ps(k) == sc(pick[k])
<1>11. \A k \in 1..T : /\ pick[k] \in old
                       /\ Score(top[k], query) = ps(k)
                       /\ ps(k) \in Nat
                       /\ pick[k] > m /\ pick[k] \in Nat
  BY <1>1, <1>9, <1>10
<1> HIDE DEF L, T, sc, s, pos, new, old, all
<1>12. \A k \in 1..pos : ps(k) >= s
  <2> SUFFICES ASSUME NEW k \in 1..pos PROVE ps(k) >= s
    OBVIOUS
  <2>1. pos > 0 /\ pos \in 1..T /\ k \in 1..T
    BY <1>1, <1>5
  <2>2. ps(pos) >= s
    BY <1>5, <1>11, <2>1
  <2>3. k < pos => ps(k) >= ps(pos)
    <3>1. k < pos => Before(list, query, pick[k], pick[pos])
      BY <1>1, <1>10, <2>1
    <3>2. ps(k) \in Nat /\ ps(pos) \in Nat
      BY <1>11, <2>1
    <3> QED
      BY <1>4, <3>1, <3>2
  <2> HIDE DEF ps
  <2> QED
    BY <1>1, <1>3, <1>11, <2>1, <2>2, <2>3, SMTT(60)
<1>13. \A k \in 1..T : k > pos => ps(k) < s
  BY <1>5, <1>11
<1>14. CASE s = 0
  <2>1. all = old
    <3>1. \A i \in all : i \in old
      BY <1>8, <1>14
    <3>2. \A i \in old : i \in all
      BY <1>9
    <3> QED
      BY <3>1, <3>2, Zenon
  <2>2. Best(top, list, m..L, query, n)
    BY <1>10, <2>1 DEF Best, all, T
  <2> QED
    BY <1>6, <1>14, <2>2 DEF new, L
<1>15. CASE s # 0 /\ pos >= n
  <2>1. T = n /\ pos = T
    BY <1>1, <1>5, <1>10, <1>15
  <2>2. \A k \in 1..T : Before(list, query, pick[k], m)
    BY <1>1, <1>3, <1>4, <1>11, <1>12, <2>1 DEF s
  <2>3. pick \in [DOMAIN top -> all]
    BY <1>1, <1>9, <1>10
  <2>4. \A i \in all \ {pick[k] : k \in DOMAIN top} :
              T = n /\ \A k \in DOMAIN top : Before(list, query, pick[k], i)
    BY <1>1, <1>8, <1>10, <2>1, <2>2
  <2>5. Best(top, list, m..L, query, n)
    BY <1>10, <2>3, <2>4 DEF Best, all, T
  <2> QED
    BY <1>6, <1>15, <2>5 DEF new, L
<1>16. CASE s # 0 /\ pos < n
  <2> DEFINE p == [k \in 1..Len(new) |->
                     IF k <= pos THEN pick[k] ELSE IF k = pos + 1 THEN m ELSE pick[k - 1]]
  <2>1. /\ Len(new) = IF n <= T + 1 THEN n ELSE T + 1
        /\ \A k \in 1..Len(new) :
             new[k] = IF k <= pos THEN top[k]
                      ELSE IF k = pos + 1 THEN list[m] ELSE top[k - 1]
        /\ new \in Seq(Entry)
        /\ DOMAIN new = 1..Len(new)
    BY <1>1, <1>6, <1>5, <1>16
  <2>2. Len(new) \in Nat /\ Len(new) <= n /\ Len(new) <= T + 1 /\ T <= Len(new)
        /\ pos \in Nat /\ pos + 1 <= Len(new)
    BY <1>1, <1>5, <1>10, <1>16, <2>1
  <2>3. \A k \in 1..Len(new) : (k <= pos => k \in 1..T) /\ (k > pos + 1 => k - 1 \in 1..T)
    BY <1>1, <1>5, <2>2
  <2>4. m \in all
    <3>1. m \in m..L
      BY <1>1
    <3>2. sc(m) > 0
      BY <1>3, <1>16 DEF s
    <3> QED
      BY <1>7, <3>1, <3>2
  <2>5. p \in [1..Len(new) -> all]
    BY <1>9, <1>11, <2>2, <2>3, <2>4, SMTT(60)
  <2>6. \A k \in 1..Len(new) : new[k] = list[p[k]]
    BY <1>1, <1>10, <2>1, <2>2, <2>3, SMTT(60)
  <2>7. \A k \in 1..Len(new) : \/ k <= pos /\ p[k] = pick[k] /\ k \in 1..T
                               \/ k = pos + 1 /\ p[k] = m
                               \/ k > pos + 1 /\ p[k] = pick[k - 1] /\ k - 1 \in 1..T
    BY <1>5, <2>2, <2>3
  <2>8. \A k \in 1..pos : Before(list, query, pick[k], m)
    BY <1>1, <1>3, <1>4, <1>5, <1>11, <1>12 DEF s
  <2>9. \A k \in 1..T : k > pos => Before(list, query, m, pick[k])
    BY <1>1, <1>3, <1>4, <1>11, <1>13 DEF s
  <2> HIDE DEF p, ps
  <2>10. ASSUME NEW k \in 1..Len(new), NEW l \in 1..Len(new), k < l
         PROVE  Before(list, query, p[k], p[l])
    <3>1. k \in Nat /\ l \in Nat /\ pos \in Nat /\ T \in Nat
      BY <1>1, <2>2
    <3>2. CASE l <= pos
      <4>1. p[k] = pick[k] /\ p[l] = pick[l] /\ k \in 1..T /\ l \in 1..T
        BY <2>7, <2>10, <3>1, <3>2
      <4> QED
        BY <1>1, <1>10, <2>10, <4>1
    <3>3. CASE l = pos + 1
      <4>1. p[k] = pick[k] /\ p[l] = m /\ k \in 1..pos
        BY <2>7, <2>10, <3>1, <3>3
      <4> QED
        BY <2>8, <4>1
    <3>4. CASE l > pos + 1 /\ k = pos + 1
      <4>1. p[k] = m /\ p[l] = pick[l - 1] /\ l - 1 \in 1..T /\ l - 1 > pos
        BY <2>7, <3>1, <3>4
      <4> QED
        BY <2>9, <4>1
    <3>5. CASE l > pos + 1 /\ k <= pos
      <4>1. p[k] = pick[k] /\ p[l] = pick[l - 1] /\ k \in 1..T /\ l - 1 \in 1..T /\ k < l - 1
        BY <2>7, <3>1, <3>5
      <4> QED
        BY <1>1, <1>10, <4>1
    <3>6. CASE l > pos + 1 /\ k > pos + 1
      <4>1. /\ p[k] = pick[k - 1] /\ p[l] = pick[l - 1]
            /\ k - 1 \in 1..T /\ l - 1 \in 1..T /\ k - 1 < l - 1
        BY <2>7, <2>10, <3>1, <3>6
      <4> QED
        BY <1>1, <1>10, <4>1
    <3> QED
      BY <3>1, <3>2, <3>3, <3>4, <3>5, <3>6
  <2>11. ASSUME NEW i \in all \ {p[k] : k \in 1..Len(new)}
         PROVE  Len(new) = n /\ \A k \in 1..Len(new) : Before(list, query, p[k], i)
    <3>1. i \in old /\ \A k \in 1..Len(new) : i # p[k]
      <4>1. pos + 1 \in 1..Len(new) /\ p[pos + 1] = m
        BY <2>2, <2>7
      <4> QED
        BY <1>8, <2>11, <4>1
    <3>2. CASE \A j \in 1..T : i # pick[j]
      <4>1. T = n /\ \A k \in 1..T : Before(list, query, pick[k], i)
        BY <1>1, <1>10, <3>1, <3>2
      <4>2. Len(new) = n
        BY <1>1, <2>1, <4>1
      <4>3. Before(list, query, m, i)
        <5>1. pos + 1 \in 1..T
          BY <1>1, <1>16, <2>2, <4>1
        <5>2. ps(pos + 1) < s /\ Before(list, query, pick[pos + 1], i)
          BY <1>13, <2>2, <4>1, <5>1
        <5>3. ps(pos + 1) \in Nat /\ sc(i) \in Nat /\ s \in Nat
          BY <1>3, <1>9, <1>11, <3>1, <5>1
        <5> QED
          BY <1>4, <5>2, <5>3 DEF ps, s
      <4> QED
        BY <2>7, <4>1, <4>2, <4>3
    <3>3. ASSUME NEW j \in 1..T, i = pick[j]
          PROVE  Len(new) = n /\ \A k \in 1..Len(new) : Before(list, query, p[k], i)
      <4>1. j > pos
        <5>1. j <= pos => j \in 1..Len(new) /\ p[j] = pick[j]
          BY <1>1, <2>2, <2>7
        <5> QED
          BY <1>1, <2>2, <3>1, <3>3, <5>1
      <4>2. ~(j + 1 \in 1..Len(new))
        <5>1. j + 1 \in 1..Len(new) => p[j + 1] = pick[j + 1 - 1] /\ j + 1 - 1 = j
          BY <1>1, <2>2, <2>7, <4>1
        <5> QED
          BY <3>1, <3>3, <5>1
      <4>3. j = T /\ Len(new) = T /\ n = T
        BY <1>1, <2>1, <2>2, <4>2
      <4>4. ASSUME NEW k \in 1..Len(new) PROVE Before(list, query, p[k], i)
        <5>1. CASE k <= pos
          <6>1. p[k] = pick[k] /\ k \in 1..T /\ k < j
            BY <1>1, <2>2, <2>7, <4>1, <5>1
          <6> QED
            BY <1>1, <1>10, <3>3, <6>1
        <5>2. CASE k = pos + 1
          BY <2>2, <2>7, <2>9, <3>3, <4>1, <5>2
        <5>3. CASE k > pos + 1
          <6>1. p[k] = pick[k - 1] /\ k - 1 \in 1..T /\ k - 1 < j
            BY <1>1, <2>2, <2>7, <4>3, <5>3
          <6> QED
            BY <1>1, <1>10, <3>3, <6>1
        <5> QED
          BY <2>2, <5>1, <5>2, <5>3
      <4> QED
        BY <4>3, <4>4
    <3> QED
      BY <3>2, <3>3
  <2>12. Best(new, list, m..L, query, n)
    <3> SUFFICES \E w \in [DOMAIN new -> all] :
          /\ \A k \in DOMAIN new : new[k] = list[w[k]]
          /\ \A k, l \in DOMAIN new : k < l => Before(list, query, w[k], w[l])
          /\ Len(new) <= n
          /\ \A i \in all \ {w[k] : k \in DOMAIN new} :
               Len(new) = n /\ \A k \in DOMAIN new : Before(list, query, w[k], i)
      BY DEF Best, all
    <3>1. p \in [DOMAIN new -> all]
      BY <2>1, <2>5
    <3> WITNESS p \in [DOMAIN new -> all]
    <3> QED
      BY <2>1, <2>2, <2>6, <2>10, <2>11
  <2> QED
    BY <2>12 DEF new, L
<1> QED
  BY <1>3, <1>5, <1>14, <1>15, <1>16

(* memory_search returns the best of the entries it looked at.              *)
LEMMA SearchReturnsBest ==
    ASSUME NEW list \in Seq(Entry), NEW query \in SUBSET Words, NEW n \in Nat
    PROVE  Best(Top(list, query, n), list, DOMAIN list, query, n)
<1> DEFINE L == Len(list)
           V == Seq(Entry)
           Round(x, k) == Insert(x, list[L + 1 - k], query, n)
           step == [x \in V \X (1..L) |-> Round(x[1], x[2])]
           Loop(f) == f = [k \in 0..L |-> IF k = 0 THEN <<>> ELSE Round(f[k - 1], k)]
           top == CHOOSE f : Loop(f)
<1>1. L \in Nat /\ DOMAIN list = 1..L
  OBVIOUS
<1>2. ASSUME NEW x \in V, NEW k \in 1..L PROVE Round(x, k) \in V
  <2> DEFINE e == list[L + 1 - k]
             s == Score(e, query)
             pos == Position(x, s, query)
  <2>1. L + 1 - k \in 1..L
    BY <1>1
  <2>2. e \in Entry
    BY <1>1, <2>1
  <2>3. s \in Nat
    BY <2>2, ScoreIsNat
  <2>4. pos \in Nat
    BY <2>3, PositionIs
  <2> HIDE DEF e, s, pos
  <2>5. Insert(x, e, query, n) \in Seq(Entry)
    BY <2>2, <2>3, <2>4, InsertIs DEF s, pos, IsInserted
  <2> QED
    BY <2>5 DEF e
<1> HIDE DEF Round
<1>3. step \in [V \X (1..L) -> V]
  BY <1>2
<1>4. <<>> \in V
  OBVIOUS
<1>5. PICK run \in [0..L -> V] :
        run[0] = <<>> /\ \A k \in 1..L : run[k] = step[<<run[k - 1], k>>]
  <2> DEFINE base == <<>>
  <2>1. base \in V
    BY <1>4
  <2> HIDE DEF step, V, L, base
  <2>2. \E f : IsLoop(f, L, V, base, step)
    BY <1>1, <1>3, <2>1, LoopRuns
  <2> QED
    BY <2>2, Zenon DEF IsLoop, base
<1>6. Loop(run)
  <2>1. ASSUME NEW k \in 1..L PROVE run[k] = Round(run[k - 1], k)
    <3>1. k - 1 \in 0..L
      BY <1>1
    <3>2. run[k - 1] \in V /\ <<run[k - 1], k>> \in V \X (1..L)
      BY <1>5, <3>1, Zenon
    <3> QED
      BY <1>5, <3>2
  <2>2. ASSUME NEW k \in 0..L
        PROVE  run[k] = IF k = 0 THEN <<>> ELSE Round(run[k - 1], k)
    <3>1. k # 0 => k \in 1..L
      BY <1>1
    <3> QED
      BY <1>5, <2>1, <3>1
  <2> QED
    BY <1>5, <2>2
<1> HIDE DEF Loop
<1>7. Loop(top)
  BY <1>6
<1> HIDE DEF top
<1>8. Top(list, query, n) = top[L]
  BY Zenon DEF Top, top, Loop, Round
<1>9. top[0] = <<>> /\ \A k \in 1..L : top[k] = Round(top[k - 1], k)
  BY <1>1, <1>7 DEF Loop
<1> DEFINE Done(k) == top[k] \in V /\ Best(top[k], list, L + 1 - k..L, query, n)
           G == {k \in 0..L : Done(k)}
<1>10. Done(0)
  <2>1. L + 1 - 0..L = {} /\ Matching(list, {}, query) = {}
    BY <1>1 DEF Matching
  <2>2. \A at : at = {} => Best(<<>>, list, at, query, n)
    <3> SUFFICES Best(<<>>, list, {}, query, n)
      OBVIOUS
    <3>1. DOMAIN <<>> = {} /\ Len(<<>>) = 0
      OBVIOUS
    <3>2. <<>> \in [DOMAIN <<>> -> Matching(list, {}, query)]
      BY <3>1
    <3> SUFFICES \E pick \in [DOMAIN <<>> -> Matching(list, {}, query)] :
          /\ \A k \in DOMAIN <<>> : <<>>[k] = list[pick[k]]
          /\ \A k, l \in DOMAIN <<>> : k < l => Before(list, query, pick[k], pick[l])
          /\ Len(<<>>) <= n
          /\ \A i \in Matching(list, {}, query) \ {pick[k] : k \in DOMAIN <<>>} :
               Len(<<>>) = n /\ \A k \in DOMAIN <<>> : Before(list, query, pick[k], i)
      BY Zenon DEF Best
    <3> WITNESS <<>> \in [DOMAIN <<>> -> Matching(list, {}, query)]
    <3> QED
      BY <2>1, <3>1
  <2> QED
    BY <1>4, <1>9, <2>1, <2>2
<1>11. ASSUME NEW k \in 1..L, Done(k - 1) PROVE Done(k)
  <2> DEFINE m == L + 1 - k
  <2>1. m \in 1..L /\ m + 1 = L + 1 - (k - 1) /\ top[k - 1] \in V
    BY <1>1, <1>11
  <2>2. Best(top[k - 1], list, m + 1..L, query, n)
    BY <1>11, <2>1
  <2> HIDE DEF m
  <2>3. Best(Insert(top[k - 1], list[m], query, n), list, m..L, query, n)
    BY <2>1, <2>2, InsertKeepsBest
  <2>4. top[k] = Insert(top[k - 1], list[m], query, n)
    BY <1>9 DEF m, Round
  <2>5. top[k] \in V
    BY <1>2, <1>9, <2>1
  <2> QED
    BY <2>3, <2>4, <2>5 DEF m
<1>12. L \in G
  <2>1. 0 \in G /\ \A k \in 1..L : k - 1 \in G => k \in G
    BY <1>1, <1>10, <1>11
  <2>2. L \in 0..L
    BY <1>1
  <2> HIDE DEF G, L
  <2>3. 0..L \subseteq G
    BY <1>1, <2>1, UpTo
  <2> QED
    BY <2>2, <2>3
<1>13. Best(top[L], list, L + 1 - L..L, query, n) /\ L + 1 - L = 1
  BY <1>1, <1>12
<1> QED
  BY <1>1, <1>8, <1>13

-----------------------------------------------------------------------------
(* Memory: what was remembered is kept.                                     *)

Item == Entry \cup {Part, Nl}
IsEntry(i) == log[i].kind = "entry"

MemTypeOK ==
    /\ log \in Seq(Item)
    /\ cache.list \in Seq(Entry)
    /\ added \in Nat
    /\ remembered \subseteq Entry

(* The numbers of the entries grow along the log, up to the last one given  *)
(* out.                                                                     *)
InOrder ==
    /\ \A i \in DOMAIN log : IsEntry(i) => log[i].id <= added
    /\ \A i, j \in DOMAIN log : IsEntry(i) /\ IsEntry(j) /\ i < j => log[i].id < log[j].id

OnDisk(e) == \E i \in DOMAIN log : Begins(i) /\ log[i] = e

SearchBest == Best(last.top, last.over, DOMAIN last.over, last.query, last.n)

(* MemoryKept with what makes it inductive: the log's own order, where the  *)
(* entries stand in it, and what the lists hold.                            *)
MemInv ==
    /\ MemTypeOK
    /\ InOrder
    /\ \A e \in remembered \ hurt : OnDisk(e)
    /\ facts = saved
    /\ SearchBest

(* Picked: what a list holds at some positions, in the list's order.        *)
LEMMA PickedIs ==
    ASSUME NEW X, NEW list \in Seq(X), NEW S \in SUBSET DOMAIN list,
           NEW Y, \A i \in S : list[i] \in Y
    PROVE  /\ Picked(list, S) \in Seq(Y)
           /\ \A k \in DOMAIN Picked(list, S) : \E i \in S : Picked(list, S)[k] = list[i]
           /\ \A i \in S : \E k \in DOMAIN Picked(list, S) : Picked(list, S)[k] = list[i]
           /\ \A k, l \in DOMAIN Picked(list, S) :
                k < l => \E i, j \in S : /\ i < j
                                         /\ Picked(list, S)[k] = list[i]
                                         /\ Picked(list, S)[l] = list[j]
<1>1. DOMAIN list = 1..Len(list) /\ Len(list) \in Nat
  OBVIOUS
<1>2. IsFiniteSet(1..Len(list))
  BY <1>1, FS_Interval
<1>3. IsFiniteSet(S) /\ S \in SUBSET Nat
  BY <1>1, <1>2, FS_Subset
<1> DEFINE n == Cardinality(S)
           at == Listed(S)
           P == Picked(list, S)
<1>4. n \in Nat /\ at \in [1..n -> S]
  BY <1>3, ListedInOrder
<1>5. \A k, l \in 1..n : k < l => at[k] < at[l]
  BY <1>3, ListedInOrder
<1>6. \A i \in S : \E k \in 1..n : at[k] = i
  BY <1>3, ListedInOrder
<1>7. P = [k \in DOMAIN at |-> list[at[k]]]
  BY DEF Picked
<1> HIDE DEF n, at, P
<1>8. DOMAIN P = 1..n /\ \A k \in 1..n : P[k] = list[at[k]] /\ at[k] \in S
  BY <1>4, <1>7
<1>9. P \in Seq(Y)
  <2>1. P = [k \in 1..n |-> P[k]]
    BY <1>7, <1>8
  <2>2. \A k \in 1..n : P[k] \in Y
    BY <1>8
  <2>3. P \in [1..n -> Y]
    BY <2>1, <2>2
  <2> QED
    BY <1>4, <2>3
<1>10. \A i \in S : \E k \in DOMAIN P : P[k] = list[i]
  BY <1>6, <1>8
<1>11. \A k \in DOMAIN P : \E i \in S : P[k] = list[i]
  BY <1>8
<1>12. ASSUME NEW k \in DOMAIN P, NEW l \in DOMAIN P, k < l
       PROVE  \E i, j \in S : i < j /\ P[k] = list[i] /\ P[l] = list[j]
  BY <1>5, <1>8, <1>12
<1> QED
  BY <1>9, <1>10, <1>11, <1>12 DEF P

(* load_cache finds the entries that begin a line.                          *)
LEMMA ParsedIs ==
    ASSUME log \in Seq(Item)
    PROVE  /\ Parsed \in Seq(Entry)
           /\ \A i \in DOMAIN log : Begins(i) /\ IsEntry(i) =>
                \E k \in DOMAIN Parsed : Parsed[k] = log[i]
           /\ \A k, l \in DOMAIN Parsed :
                k < l => \E i, j \in DOMAIN log :
                           /\ i < j /\ IsEntry(i) /\ IsEntry(j)
                           /\ Parsed[k] = log[i] /\ Parsed[l] = log[j]
<1> DEFINE S == {i \in DOMAIN log : Begins(i) /\ log[i].kind = "entry"}
<1>1. S \in SUBSET DOMAIN log
  OBVIOUS
<1>2. ASSUME NEW i \in S PROVE log[i] \in Entry
  <2>1. log[i] \in Item /\ log[i].kind = "entry"
    OBVIOUS
  <2> QED
    BY <2>1 DEF Item, Part, Nl
<1>3. \A i \in S : i \in DOMAIN log /\ IsEntry(i)
  BY DEF IsEntry
<1>4. \A i \in DOMAIN log : Begins(i) /\ IsEntry(i) => i \in S
  BY DEF IsEntry
<1>5. Parsed = Picked(log, S)
  BY DEF Parsed
<1> HIDE DEF S
<1>6. /\ Picked(log, S) \in Seq(Entry)
      /\ \A i \in S : \E k \in DOMAIN Picked(log, S) : Picked(log, S)[k] = log[i]
      /\ \A k, l \in DOMAIN Picked(log, S) :
           k < l => \E i, j \in S : /\ i < j
                                    /\ Picked(log, S)[k] = log[i]
                                    /\ Picked(log, S)[l] = log[j]
  BY <1>1, <1>2, PickedIs
<1> QED
  BY <1>3, <1>4, <1>5, <1>6

(* MemoryKept follows from the invariant.                                   *)
LEMMA MemInvKeeps ==
    ASSUME MemInv PROVE MemoryKept
<1>1. log \in Seq(Item) /\ remembered \subseteq Entry
  BY DEF MemInv, MemTypeOK
<1>2. ASSUME NEW e \in remembered \ hurt PROVE e \in ToSet(Parsed)
  <2>1. PICK i \in DOMAIN log : Begins(i) /\ log[i] = e
    BY DEF MemInv, OnDisk
  <2>2. IsEntry(i)
    BY <1>1, <2>1 DEF IsEntry, Entry
  <2>3. PICK k \in DOMAIN Parsed : Parsed[k] = e
    BY <1>1, <2>1, <2>2, ParsedIs
  <2> QED
    BY <2>3 DEF ToSet
<1>3. ASSUME NEW k \in DOMAIN Parsed, NEW l \in DOMAIN Parsed, k < l
      PROVE  Parsed[k].id < Parsed[l].id
  <2>1. PICK i, j \in DOMAIN log : /\ i < j /\ IsEntry(i) /\ IsEntry(j)
                                   /\ Parsed[k] = log[i] /\ Parsed[l] = log[j]
    BY <1>1, <1>3, ParsedIs
  <2>2. log[i].id < log[j].id
    BY <2>1 DEF MemInv, InOrder
  <2> QED
    BY <2>1, <2>2
<1>4. facts = saved /\ SearchBest
  BY DEF MemInv
<1> QED
  BY <1>2, <1>3, <1>4 DEF MemoryKept, SearchBest

(* A log that grows by some items keeps what it held.                       *)
LEMMA LogGrows ==
    ASSUME MemInv, NEW out \in Seq(Item), log' = log \o out
    PROVE  /\ log' \in Seq(Item)
           /\ Len(log) \in Nat /\ Len(log') = Len(log) + Len(out)
           /\ DOMAIN log = 1..Len(log) /\ DOMAIN log' = 1..(Len(log) + Len(out))
           /\ \A i \in DOMAIN log : log'[i] = log[i] /\ i \in DOMAIN log'
           /\ \A i \in DOMAIN log' :
                i \notin DOMAIN log => i - Len(log) \in DOMAIN out /\ log'[i] = out[i - Len(log)]
           /\ \A e : OnDisk(e) => OnDisk(e)'
<1>1. log \in Seq(Item)
  BY DEF MemInv, MemTypeOK
<1>2. /\ log' \in Seq(Item)
      /\ Len(log) \in Nat /\ Len(log') = Len(log) + Len(out) /\ Len(out) \in Nat
      /\ DOMAIN log = 1..Len(log) /\ DOMAIN log' = 1..(Len(log) + Len(out))
      /\ DOMAIN out = 1..Len(out)
  BY <1>1
<1>3. ASSUME NEW i \in DOMAIN log PROVE log'[i] = log[i] /\ i \in DOMAIN log'
  BY <1>1, <1>2
<1>4. ASSUME NEW i \in DOMAIN log', i \notin DOMAIN log
      PROVE  i - Len(log) \in DOMAIN out /\ log'[i] = out[i - Len(log)]
  BY <1>1, <1>2, <1>4
<1>5. ASSUME NEW e, OnDisk(e) PROVE OnDisk(e)'
  <2>1. PICK i \in DOMAIN log : Begins(i) /\ log[i] = e
    BY <1>5 DEF OnDisk
  <2>2. i \in DOMAIN log' /\ log'[i] = e
    BY <1>3, <2>1
  <2>3. i = 1 \/ i - 1 \in DOMAIN log
    BY <1>2
  <2>4. Begins(i)'
    BY <1>3, <2>1, <2>3 DEF Begins
  <2> QED
    BY <2>2, <2>4 DEF OnDisk
<1> QED
  BY <1>2, <1>3, <1>4, <1>5

(* What load_cache leaves in the cache are entries.                         *)
LEMMA LoadedIs ==
    ASSUME MemInv, NEW loaded \in Loads
    PROVE  loaded \in Seq(Entry)
<1>1. Parsed \in Seq(Entry)
  BY ParsedIs DEF MemInv, MemTypeOK
<1>2. cache.list \in Seq(Entry) /\ <<>> \in Seq(Entry)
  BY DEF MemInv, MemTypeOK
<1> HIDE DEF Parsed
<1> QED
  BY <1>1, <1>2 DEF Loads

(* Nothing is the best of nothing.                                          *)
LEMMA NothingHolds ==
    Best(NoSearch.top, NoSearch.over, DOMAIN NoSearch.over, NoSearch.query, NoSearch.n)
<1>1. DOMAIN <<>> = {} /\ Len(<<>>) = 0
  OBVIOUS
<1>2. Matching(<<>>, {}, {}) = {}
  BY DEF Matching
<1>3. <<>> \in [{} -> {}]
  OBVIOUS
<1>4. Best(<<>>, <<>>, {}, {}, 1)
  <2> SUFFICES \E pick \in [{} -> {}] :
        /\ \A k \in {} : <<>>[k] = <<>>[pick[k]]
        /\ \A k, l \in {} : k < l => Before(<<>>, {}, pick[k], pick[l])
        /\ Len(<<>>) <= 1
        /\ \A i \in {} \ {pick[k] : k \in {}} :
             Len(<<>>) = 1 /\ \A k \in {} : Before(<<>>, {}, pick[k], i)
    BY <1>1, <1>2, Zenon DEF Best
  <2> WITNESS <<>> \in [{} -> {}]
  <2> QED
    BY <1>1
<1>5. NoSearch.over = <<>> /\ NoSearch.query = {} /\ NoSearch.n = 1 /\ NoSearch.top = <<>>
  BY DEF NoSearch
<1> QED
  BY <1>1, <1>4, <1>5, Zenon

(* Before a search there is nothing to be the best.                         *)
LEMMA NothingIsBest ==
    ASSUME last' = NoSearch PROVE SearchBest'
BY NothingHolds, Zenon DEF SearchBest

(* memory_add keeps the invariant: a new entry has a number of its own, and *)
(* one reported remembered began a line, or is hurt.                        *)
LEMMA AddStep ==
    ASSUME MemInv, NEW words \in SUBSET Words, MemoryAdd(words)
    PROVE  MemInv'
<1> DEFINE e == [kind |-> "entry", id |-> added + 1, words |-> words]
<1>1. PICK out \in {<<e, Nl>>, <<e>>, <<Part>>, <<>>}, loaded \in Loads :
        /\ log' = log \o out
        /\ cache' = Cached(IF Wrote(e, out) THEN Append(loaded, e) ELSE loaded)
        /\ remembered' = IF Wrote(e, out) THEN remembered \cup {e} ELSE remembered
        /\ hurt' = IF Unfinished THEN hurt \cup {e} ELSE hurt
  BY Zenon DEF MemoryAdd
<1>2. added' = added + 1 /\ added \in Nat /\ added' \in Nat /\ last' = NoSearch
      /\ facts' = facts /\ saved' = saved
  BY DEF MemoryAdd, MemInv, MemTypeOK
<1>3. e \in Entry /\ e \in Item /\ e.kind = "entry" /\ e.id = added + 1
  BY <1>2 DEF Entry, Item
<1>4. Part \in Item /\ Nl \in Item /\ Part.kind # "entry" /\ Nl.kind # "entry"
  BY DEF Item, Part, Nl
<1> HIDE DEF e
<1>5. out \in Seq(Item)
  <2>1. \A a, b \in Item : <<a, b>> \in Seq(Item) /\ <<a>> \in Seq(Item)
    OBVIOUS
  <2>2. <<>> \in Seq(Item)
    OBVIOUS
  <2> QED
    BY <1>3, <1>4, <2>1, <2>2, Zenon
<1>6. \A i \in DOMAIN out : out[i].kind = "entry" => i = 1 /\ out[i] = e
  BY <1>1, <1>4
<1>7. loaded \in Seq(Entry)
  BY <1>1, LoadedIs
<1>8. MemTypeOK'
  <2>1. log' \in Seq(Item)
    BY <1>1, <1>5, LogGrows
  <2>2. cache'.list \in Seq(Entry)
    BY <1>1, <1>3, <1>7 DEF Cached
  <2>3. remembered' \subseteq Entry
    BY <1>1, <1>3 DEF MemInv, MemTypeOK
  <2> QED
    BY <1>2, <2>1, <2>2, <2>3 DEF MemTypeOK
<1>9. /\ Len(log) \in Nat /\ Len(log') = Len(log) + Len(out)
      /\ DOMAIN log = 1..Len(log) /\ DOMAIN log' = 1..(Len(log) + Len(out))
      /\ \A i \in DOMAIN log : log'[i] = log[i] /\ i \in DOMAIN log'
      /\ \A i \in DOMAIN log' :
           i \notin DOMAIN log => i - Len(log) \in DOMAIN out /\ log'[i] = out[i - Len(log)]
  BY <1>1, <1>5, LogGrows
<1>10. \A d : OnDisk(d) => OnDisk(d)'
  BY <1>1, <1>5, LogGrows
<1>11. ASSUME NEW i \in DOMAIN log', IsEntry(i)', i \notin DOMAIN log
       PROVE  i = Len(log) + 1 /\ log'[i].id = added + 1
  <2>1. i - Len(log) \in DOMAIN out /\ log'[i] = out[i - Len(log)]
    BY <1>9, <1>11
  <2>2. i - Len(log) = 1 /\ log'[i] = e
    BY <1>6, <1>11, <2>1 DEF IsEntry
  <2> QED
    BY <1>3, <1>9, <2>2
<1>12. ASSUME NEW i \in DOMAIN log', IsEntry(i)', i \in DOMAIN log
       PROVE  IsEntry(i) /\ log'[i].id = log[i].id /\ log[i].id <= added /\ log[i].id \in Nat
  <2>1. log'[i] = log[i] /\ IsEntry(i)
    BY <1>9, <1>12 DEF IsEntry
  <2>2. log[i] \in Item
    BY <1>9, <1>12 DEF MemInv, MemTypeOK
  <2>3. log[i] \in Entry
    BY <1>4, <2>1, <2>2 DEF Item, IsEntry
  <2>4. log[i].id \in Nat
    BY <2>3 DEF Entry
  <2> QED
    BY <1>12, <2>1, <2>4 DEF MemInv, InOrder
<1>13. InOrder'
  <2>1. ASSUME NEW i \in DOMAIN log', IsEntry(i)' PROVE log'[i].id <= added'
    BY <1>2, <1>11, <1>12, <2>1
  <2>2. ASSUME NEW i \in DOMAIN log', NEW j \in DOMAIN log', IsEntry(i)', IsEntry(j)', i < j
        PROVE  log'[i].id < log'[j].id
    <3>1. CASE j \in DOMAIN log
      <4>1. i \in DOMAIN log
        BY <1>9, <2>2, <3>1
      <4> QED
        BY <1>12, <2>2, <3>1, <4>1 DEF MemInv, InOrder
    <3>2. CASE j \notin DOMAIN log
      <4>1. j = Len(log) + 1 /\ log'[j].id = added + 1
        BY <1>11, <2>2, <3>2
      <4>2. i \in DOMAIN log
        BY <1>9, <2>2, <4>1
      <4> QED
        BY <1>2, <1>12, <2>2, <4>1, <4>2
    <3> QED
      BY <3>1, <3>2
  <2> QED
    BY <2>1, <2>2 DEF InOrder
<1>14. ASSUME NEW d \in remembered' \ hurt' PROVE OnDisk(d)'
  <2>1. CASE d \in remembered
    <3>1. d \in remembered \ hurt
      BY <1>1, <1>14, <2>1
    <3> QED
      BY <1>10, <3>1 DEF MemInv
  <2>2. CASE d \notin remembered
    <3>1. d = e /\ Wrote(e, out) /\ ~Unfinished
      BY <1>1, <1>14, <2>2
    <3>2. out = <<e, Nl>>
      BY <3>1 DEF Wrote
    <3>3. PICK i \in DOMAIN log' : i \notin DOMAIN log /\ i - Len(log) = 1 /\ i = Len(log) + 1
      BY <1>9, <3>2
    <3>4. log'[i] = e
      BY <1>9, <3>2, <3>3
    <3>5. Begins(i)'
      <4>1. CASE log = <<>>
        BY <3>3, <4>1 DEF Begins
      <4>2. CASE log # <<>>
        <5>1. Last(log) = Nl
          BY <3>1, <4>2 DEF Unfinished
        <5>2. log \in Seq(Item)
          BY DEF MemInv, MemTypeOK
        <5>3. Len(log) \in DOMAIN log
          BY <4>2, <5>2
        <5>4. log'[Len(log)] = Nl
          BY <1>9, <5>1, <5>3 DEF Last
        <5> QED
          BY <1>9, <3>3, <5>4 DEF Begins
      <4> QED
        BY <4>1, <4>2
    <3> QED
      BY <3>1, <3>3, <3>4, <3>5 DEF OnDisk
  <2> QED
    BY <2>1, <2>2
<1>15. SearchBest'
  BY <1>2, NothingIsBest
<1>16. facts' = saved'
  BY <1>2 DEF MemInv
<1> QED
  BY <1>8, <1>13, <1>14, <1>15, <1>16 DEF MemInv

(* memory_search, memory_clear, a restart and the facts keep it too.        *)
LEMMA SearchStep ==
    ASSUME MemInv, NEW query \in SUBSET Words, NEW n \in 1..MaxTop, MemorySearch(query, n)
    PROVE  MemInv'
<1>1. PICK loaded \in Loads :
        /\ cache' = Cached(loaded)
        /\ last' = [over |-> loaded, query |-> query, n |-> n, top |-> Top(loaded, query, n)]
        /\ UNCHANGED <<log, facts, damaged, added, remembered, hurt, saved>>
  BY Zenon DEF MemorySearch
<1>2. loaded \in Seq(Entry)
  BY LoadedIs
<1>3. n \in Nat
  BY MemAssumption
<1>4. Best(Top(loaded, query, n), loaded, DOMAIN loaded, query, n)
  BY <1>2, <1>3, SearchReturnsBest
<1>5. SearchBest'
  <2>1. /\ last'.over = loaded /\ last'.query = query /\ last'.n = n
        /\ last'.top = Top(loaded, query, n)
    BY <1>1
  <2> QED
    BY <1>4, <2>1, Zenon DEF SearchBest
<1>6. MemTypeOK'
  BY <1>1, <1>2 DEF MemInv, MemTypeOK, Cached
<1>7. InOrder' /\ (\A e \in remembered' \ hurt' : OnDisk(e)') /\ facts' = saved'
  BY <1>1 DEF MemInv, InOrder, IsEntry, OnDisk, Begins
<1> QED
  BY <1>5, <1>6, <1>7 DEF MemInv

(* memory_clear keeps the invariant: an empty log and an empty cache agree. *)
LEMMA ClearStep ==
    ASSUME MemInv, MemoryClear
    PROVE  MemInv'
<1>1. SearchBest'
  BY NothingIsBest DEF MemoryClear
<1>2. MemTypeOK'
  BY DEF MemoryClear, MemInv, MemTypeOK, NoCache
<1>3. InOrder' /\ (\A e \in remembered' \ hurt' : OnDisk(e)') /\ facts' = saved'
  BY DEF MemoryClear, MemInv, InOrder
<1> QED
  BY <1>1, <1>2, <1>3 DEF MemInv

(* A restart keeps the invariant: what is loaded is what the log holds.     *)
LEMMA RestartStep ==
    ASSUME MemInv, MemRestart
    PROVE  MemInv'
<1>1. PICK out \in {<<>>, <<Part>>} : log' = log \o out
  <2>1. log \in Seq(Item)
    BY DEF MemInv, MemTypeOK
  <2>2. log = log \o <<>> /\ Append(log, Part) = log \o <<Part>>
    BY <2>1
  <2> QED
    BY <2>2 DEF MemRestart
<1>2. Part \in Item /\ Part.kind # "entry"
  BY DEF Item, Part
<1>3. out \in Seq(Item) /\ \A i \in DOMAIN out : out[i] = Part
  <2>1. <<>> \in Seq(Item) /\ DOMAIN <<>> = {}
    OBVIOUS
  <2>2. <<Part>> \in Seq(Item) /\ \A i \in DOMAIN <<Part>> : <<Part>>[i] = Part
    BY <1>2
  <2> QED
    BY <2>1, <2>2, Zenon
<1>4. UNCHANGED <<facts, damaged, added, remembered, hurt, saved>> /\ cache' = NoCache
  BY DEF MemRestart
<1>5. SearchBest'
  BY NothingIsBest DEF MemRestart
<1>6. MemTypeOK'
  <2>1. log' \in Seq(Item)
    BY <1>1, <1>3, LogGrows
  <2> QED
    BY <1>4, <2>1 DEF MemInv, MemTypeOK, NoCache
<1>7. /\ \A i \in DOMAIN log : log'[i] = log[i]
      /\ \A i \in DOMAIN log' :
           i \notin DOMAIN log => i - Len(log) \in DOMAIN out /\ log'[i] = out[i - Len(log)]
      /\ \A d : OnDisk(d) => OnDisk(d)'
  BY <1>1, <1>3, LogGrows
<1>8. \A i \in DOMAIN log' : IsEntry(i)' => i \in DOMAIN log /\ log'[i] = log[i] /\ IsEntry(i)
  BY <1>2, <1>3, <1>7 DEF IsEntry
<1>9. InOrder'
  <2>1. ASSUME NEW i \in DOMAIN log', IsEntry(i)' PROVE log'[i].id <= added'
    BY <1>4, <1>8, <2>1 DEF MemInv, InOrder
  <2>2. ASSUME NEW i \in DOMAIN log', NEW j \in DOMAIN log', IsEntry(i)', IsEntry(j)', i < j
        PROVE  log'[i].id < log'[j].id
    BY <1>8, <2>2 DEF MemInv, InOrder
  <2> QED
    BY <2>1, <2>2 DEF InOrder
<1>10. (\A e \in remembered' \ hurt' : OnDisk(e)') /\ facts' = saved'
  BY <1>4, <1>7 DEF MemInv
<1> QED
  BY <1>5, <1>6, <1>9, <1>10 DEF MemInv

(* Facts are kept apart from the log, and what is in memory is what is      *)
(* saved.                                                                   *)
LEMMA FactsStep ==
    ASSUME MemInv, FactsNext
    PROVE  MemInv'
<1>1. UNCHANGED <<log, cache, added, remembered, hurt, last>>
  BY DEF FactsNext, FactsSet, FactsClear, OwnerEdits
<1>2. facts' = saved'
  BY DEF MemInv, FactsNext, FactsSet, FactsLoaded, FactsClear, OwnerEdits
<1>3. MemTypeOK' /\ InOrder' /\ \A e \in remembered' \ hurt' : OnDisk(e)'
  BY <1>1 DEF MemInv, MemTypeOK, InOrder, IsEntry, OnDisk, Begins
<1>4. SearchBest'
  BY <1>1, Zenon DEF MemInv, SearchBest
<1> QED
  BY <1>2, <1>3, <1>4 DEF MemInv

(* What was reported remembered stays on the disk, in order, over full      *)
(* disks, crashes and restarts, unless it went to an unfinished line; the   *)
(* facts are those last saved; and every search returned the best matches,  *)
(* whatever the log, the query and the number of results: for any number of *)
(* words, keys, entries and results.                                        *)
THEOREM MemoryIsKept == MemSpec => []MemoryKept
<1>1. MemInit => MemInv
  <2> SUFFICES ASSUME MemInit PROVE MemInv
    OBVIOUS
  <2>1. MemTypeOK
    BY DEF MemInit, MemTypeOK, NoCache
  <2>2. InOrder /\ (\A e \in remembered \ hurt : OnDisk(e)) /\ facts = saved
    BY DEF MemInit, InOrder
  <2>3. SearchBest
    BY NothingHolds DEF MemInit, SearchBest
  <2> QED
    BY <2>1, <2>2, <2>3 DEF MemInv
<1>2. MemInv /\ [LogNext \/ FactsNext]_memVars => MemInv'
  <2> SUFFICES ASSUME MemInv, [LogNext \/ FactsNext]_memVars PROVE MemInv'
    OBVIOUS
  <2>1. CASE LogNext
    BY <2>1, AddStep, SearchStep, ClearStep, RestartStep DEF LogNext
  <2>2. CASE FactsNext
    BY <2>2, FactsStep
  <2>3. CASE UNCHANGED memVars
    <3>1. UNCHANGED <<log, cache, facts, added, remembered, hurt, saved, last>>
      BY <2>3 DEF memVars
    <3>2. /\ MemTypeOK' /\ InOrder' /\ \A e \in remembered' \ hurt' : OnDisk(e)'
          /\ facts' = saved'
      BY <3>1 DEF MemInv, MemTypeOK, InOrder, IsEntry, OnDisk, Begins
    <3>3. SearchBest'
      BY <3>1, Zenon DEF MemInv, SearchBest
    <3> QED
      BY <3>2, <3>3 DEF MemInv
  <2> QED
    BY <2>1, <2>2, <2>3
<1>3. MemInv => MemoryKept
  BY MemInvKeeps
<1> QED
  BY <1>1, <1>2, <1>3, PTL DEF MemSpec

-----------------------------------------------------------------------------
(* Sequences end to end: what FlattenSeq computes, with the partial results *)
(* in g.                                                                    *)

IsFlat(g, ss, X) ==
    /\ g \in [0..Len(ss) -> Seq(X)]
    /\ g[0] = <<>>
    /\ \A k \in 1..Len(ss) : g[k] = g[k - 1] \o ss[k]

(* The sequences of a sequence can be joined one by one.                    *)
LEMMA FlatExists ==
    ASSUME NEW X, NEW ss \in Seq(Seq(X))
    PROVE  \E g : IsFlat(g, ss, X)
<1> DEFINE n == Len(ss)
           V == Seq(X)
           step == [x \in V \X (1..n) |-> x[1] \o ss[x[2]]]
           base == <<>>
<1>1. n \in Nat /\ \A k \in 1..n : ss[k] \in V
  OBVIOUS
<1>2. step \in [V \X (1..n) -> V] /\ base \in V
  BY <1>1
<1>3. \A v \in V, k \in 1..n : step[<<v, k>>] = v \o ss[k]
  OBVIOUS
<1> HIDE DEF n, V, step, base
<1>4. PICK g : IsLoop(g, n, V, base, step)
  BY <1>1, <1>2, LoopRuns
<1>5. g \in [0..n -> V] /\ g[0] = base /\ \A k \in 1..n : g[k] = step[<<g[k - 1], k>>]
  BY <1>4, Zenon DEF IsLoop
<1>6. \A k \in 1..n : k - 1 \in 0..n
  BY <1>1
<1>7. \A k \in 1..n : g[k] = g[k - 1] \o ss[k]
  BY <1>3, <1>5, <1>6
<1> QED
  BY <1>5, <1>7 DEF IsFlat, n, V, base

(* FlattenSeq computes any such joining: there is only one.                 *)
LEMMA FlattenBy ==
    ASSUME NEW X, NEW ss \in Seq(Seq(X)), NEW g, IsFlat(g, ss, X)
    PROVE  FlattenSeq(ss) = g[Len(ss)] /\ FlattenSeq(ss) \in Seq(X)
<1> DEFINE n == Len(ss)
           Loop(f) == f = [i \in 1..n |-> IF i = 1 THEN ss[i] ELSE f[i - 1] \o ss[i]]
           top == CHOOSE f : Loop(f)
<1>1. n \in Nat /\ \A k \in 1..n : ss[k] \in Seq(X)
  OBVIOUS
<1>2. g \in [0..n -> Seq(X)] /\ g[0] = <<>> /\ \A k \in 1..n : g[k] = g[k - 1] \o ss[k]
  BY DEF IsFlat
<1>3. g[n] \in Seq(X)
  BY <1>1, <1>2
<1>4. CASE n = 0
  <2>1. ss = <<>>
    BY <1>4
  <2>2. FlattenSeq(ss) = ss
    BY <1>4 DEF FlattenSeq
  <2> QED
    BY <1>2, <1>3, <1>4, <2>1, <2>2
<1>5. CASE n # 0
  <2> DEFINE h == [i \in 1..n |-> g[i]]
  <2>1. g[1] = ss[1]
    <3>1. 1 \in 1..n /\ 1 - 1 = 0
      BY <1>1, <1>5
    <3>2. g[1] = <<>> \o ss[1]
      BY <1>2, <3>1
    <3> QED
      BY <1>1, <3>1, <3>2, ConcatEmptySeq
  <2>2. ASSUME NEW i \in 1..n PROVE h[i] = IF i = 1 THEN ss[i] ELSE h[i - 1] \o ss[i]
    <3>1. CASE i = 1
      BY <2>1, <3>1
    <3>2. CASE i # 1
      <4>1. i - 1 \in 1..n
        BY <1>1, <3>2
      <4> QED
        BY <1>2, <3>2, <4>1
    <3> QED
      BY <3>1, <3>2
  <2>3. h = [i \in 1..n |-> h[i]]
    OBVIOUS
  <2> HIDE DEF h
  <2>4. Loop(h)
    BY <2>2, <2>3
  <2> HIDE DEF Loop
  <2>5. Loop(top)
    BY <2>4
  <2>6. FlattenSeq(ss) = top[n]
    BY <1>5, Zenon DEF FlattenSeq, top, Loop
  <2> HIDE DEF top
  <2>7. \A i \in 1..n : top[i] = IF i = 1 THEN ss[i] ELSE top[i - 1] \o ss[i]
    BY <2>5 DEF Loop
  <2> DEFINE G == {k \in 0..n : k = 0 \/ top[k] = g[k]}
  <2>8. 0 \in G
    BY <1>1
  <2>9. ASSUME NEW k \in 1..n, k - 1 \in G PROVE k \in G
    <3>1. CASE k = 1
      BY <2>1, <2>7, <3>1
    <3>2. CASE k # 1
      <4>1. top[k - 1] = g[k - 1]
        BY <2>9, <3>2
      <4>2. top[k] = g[k - 1] \o ss[k]
        BY <2>7, <3>2, <4>1
      <4>3. top[k] = g[k]
        BY <1>2, <4>2
      <4> QED
        BY <4>3
    <3> QED
      BY <3>1, <3>2
  <2>10. n \in G
    <3>1. n \in 0..n
      BY <1>1
    <3> HIDE DEF G, n
    <3>2. 0..n \subseteq G
      BY <1>1, <2>8, <2>9, UpTo
    <3> QED
      BY <3>1, <3>2
  <2>11. top[n] = g[n]
    BY <1>5, <2>10
  <2> QED
    BY <1>3, <2>6, <2>11
<1> QED
  BY <1>4, <1>5

(* What is joined in two halves is joined as a whole.                       *)
LEMMA FlattenConcat ==
    ASSUME NEW X, NEW ss \in Seq(Seq(X)), NEW tt \in Seq(Seq(X))
    PROVE  FlattenSeq(ss \o tt) = FlattenSeq(ss) \o FlattenSeq(tt)
<1> DEFINE m == Len(ss)
           n == Len(tt)
           uu == ss \o tt
<1>1. PICK g : IsFlat(g, ss, X)
  BY FlatExists
<1>2. PICK h : IsFlat(h, tt, X)
  BY FlatExists
<1>3. FlattenSeq(ss) = g[m] /\ FlattenSeq(tt) = h[n]
  BY <1>1, <1>2, FlattenBy
<1>4. /\ m \in Nat /\ g \in [0..m -> Seq(X)] /\ g[0] = <<>>
      /\ \A k \in 1..m : g[k] = g[k - 1] \o ss[k]
  <2>1. m \in Nat
    OBVIOUS
  <2> QED
    BY <1>1, <2>1, Zenon DEF IsFlat
<1>5. /\ n \in Nat /\ h \in [0..n -> Seq(X)] /\ h[0] = <<>>
      /\ \A k \in 1..n : h[k] = h[k - 1] \o tt[k]
  <2>1. n \in Nat
    OBVIOUS
  <2> QED
    BY <1>2, <2>1, Zenon DEF IsFlat
<1>6. /\ uu \in Seq(Seq(X)) /\ Len(uu) = m + n
      /\ \A k \in 1..m + n : uu[k] = IF k <= m THEN ss[k] ELSE tt[k - m]
  OBVIOUS
<1>7. \A k \in 1..n : tt[k] \in Seq(X)
  OBVIOUS
<1> HIDE DEF m, n, uu
<1> DEFINE f == [k \in 0..m + n |-> IF k <= m THEN g[k] ELSE g[m] \o h[k - m]]
<1>8. f \in [0..m + n -> Seq(X)]
  <2>1. ASSUME NEW k \in 0..m + n
        PROVE  (IF k <= m THEN g[k] ELSE g[m] \o h[k - m]) \in Seq(X)
    <3>1. CASE k <= m
      BY <1>4, <3>1
    <3>2. CASE ~(k <= m)
      <4>1. g[m] \in Seq(X) /\ h[k - m] \in Seq(X)
        BY <1>4, <1>5, <3>2
      <4> QED
        BY <3>2, <4>1
    <3> QED
      BY <3>1, <3>2
  <2> QED
    BY <2>1
<1>9. f[0] = <<>>
  BY <1>4, <1>5
<1>10. ASSUME NEW k \in 1..m + n PROVE f[k] = f[k - 1] \o uu[k]
  <2>1. k - 1 \in 0..m + n /\ k \in 0..m + n
    BY <1>4, <1>5
  <2>2. CASE k <= m
    <3>1. k \in 1..m /\ k - 1 <= m
      BY <1>4, <1>5, <2>2
    <3>2. f[k] = g[k] /\ f[k - 1] = g[k - 1] /\ uu[k] = ss[k]
      BY <1>6, <2>1, <3>1
    <3> QED
      BY <1>4, <3>1, <3>2
  <2>3. CASE ~(k <= m)
    <3> DEFINE j == k - m
    <3>1. j \in 1..n /\ j - 1 \in 0..n
      BY <1>4, <1>5, <2>3
    <3>2. f[k] = g[m] \o h[j] /\ uu[k] = tt[j] /\ h[j] = h[j - 1] \o tt[j]
      BY <1>5, <1>6, <2>1, <2>3, <3>1
    <3>3. f[k - 1] = g[m] \o h[j - 1]
      <4>1. CASE k - 1 <= m
        <5>1. k - 1 = m /\ j - 1 = 0
          BY <1>4, <2>3, <4>1
        <5>2. g[m] \in Seq(X)
          BY <1>4
        <5>3. f[k - 1] = g[m] /\ h[j - 1] = <<>>
          BY <1>5, <2>1, <4>1, <5>1
        <5> QED
          BY <5>2, <5>3, ConcatEmptySeq
      <4>2. CASE ~(k - 1 <= m)
        <5>1. (k - 1) - m = j - 1
          BY <1>4
        <5> QED
          BY <2>1, <4>2, <5>1
      <4> QED
        BY <4>1, <4>2
    <3>4. g[m] \in Seq(X) /\ h[j - 1] \in Seq(X) /\ tt[j] \in Seq(X)
      BY <1>4, <1>5, <1>7, <3>1
    <3> HIDE DEF f, j
    <3>5. (g[m] \o h[j - 1]) \o tt[j] = g[m] \o (h[j - 1] \o tt[j])
      <4> DEFINE a == g[m]
                 b == h[j - 1]
                 c == tt[j]
      <4> HIDE DEF a, b, c
      <4>1. a \in Seq(X) /\ b \in Seq(X) /\ c \in Seq(X)
        BY <3>4 DEF a, b, c
      <4>2. (a \o b) \o c = a \o (b \o c)
        BY <4>1, SMTT(60)
      <4> QED
        BY <4>2 DEF a, b, c
    <3> QED
      BY <3>2, <3>3, <3>5
  <2> QED
    BY <2>2, <2>3
<1>11. f[m + n] = g[m] \o h[n]
  <2>1. CASE n = 0
    <3>1. f[m + n] = g[m] /\ h[n] = <<>> /\ g[m] \in Seq(X)
      BY <1>4, <1>5, <2>1
    <3> QED
      BY <3>1, ConcatEmptySeq
  <2>2. CASE n # 0
    <3>1. ~(m + n <= m) /\ (m + n) - m = n /\ m + n \in 0..m + n
      BY <1>4, <1>5, <2>2
    <3> QED
      BY <3>1
  <2> QED
    BY <2>1, <2>2
<1> HIDE DEF f
<1>12. IsFlat(f, uu, X)
  BY <1>6, <1>8, <1>9, <1>10 DEF IsFlat
<1>13. FlattenSeq(uu) = f[m + n]
  BY <1>6, <1>12, FlattenBy
<1> QED
  BY <1>3, <1>11, <1>13 DEF uu

(* Nothing, joined, is nothing.                                             *)
LEMMA FlattenNone ==
    ASSUME NEW X, NEW ss \in Seq(Seq(X)), \A k \in 1..Len(ss) : ss[k] = <<>>
    PROVE  FlattenSeq(ss) = <<>>
<1> DEFINE n == Len(ss)
           g == [k \in 0..n |-> <<>>]
<1>1. n \in Nat
  OBVIOUS
<1>2. g \in [0..n -> Seq(X)] /\ g[0] = <<>>
  BY <1>1
<1>3. ASSUME NEW k \in 1..n PROVE g[k] = g[k - 1] \o ss[k]
  <2>1. g[k] = <<>> /\ g[k - 1] = <<>> /\ ss[k] = <<>>
    BY <1>1
  <2>2. <<>> \o <<>> = <<>>
    OBVIOUS
  <2> QED
    BY <2>1, <2>2
<1>4. g[n] = <<>>
  BY <1>1
<1> HIDE DEF g
<1>5. IsFlat(g, ss, X)
  BY <1>2, <1>3 DEF IsFlat
<1> QED
  BY <1>4, <1>5, FlattenBy

(* A single sequence is its own joining.                                    *)
LEMMA FlattenOne ==
    ASSUME NEW X, NEW s \in Seq(X)
    PROVE  FlattenSeq(<<s>>) = s
<1> DEFINE g == [k \in 0..1 |-> IF k = 0 THEN <<>> ELSE s]
<1>1. <<s>> \in Seq(Seq(X)) /\ Len(<<s>>) = 1 /\ <<s>>[1] = s
  OBVIOUS
<1>2. g \in [0..1 -> Seq(X)] /\ g[0] = <<>> /\ g[1] = s
  OBVIOUS
<1>3. <<>> \o s = s
  OBVIOUS
<1> HIDE DEF g
<1>4. IsFlat(g, <<s>>, X)
  <2>1. \A k \in 1..1 : k = 1 /\ k - 1 = 0
    OBVIOUS
  <2> QED
    BY <1>1, <1>2, <1>3, <2>1 DEF IsFlat
<1> QED
  BY <1>1, <1>2, <1>4, FlattenBy

(* Of sequences of one element each, those elements.                        *)
LEMMA FlattenSingles ==
    ASSUME NEW X, NEW s \in Seq(X), NEW ss \in Seq(Seq(X)), Len(ss) = Len(s),
           \A k \in 1..Len(s) : ss[k] = <<s[k]>>
    PROVE  FlattenSeq(ss) = s
<1> DEFINE n == Len(s)
           g == [k \in 0..n |-> SubSeq(s, 1, k)]
<1>1. n \in Nat /\ \A k \in 1..n : s[k] \in X
  OBVIOUS
<1>2. \A k \in 0..n : SubSeq(s, 1, k) \in Seq(X) /\ Len(SubSeq(s, 1, k)) = k
  BY <1>1
<1>3. g \in [0..n -> Seq(X)]
  BY <1>2
<1>4. g[0] = <<>>
  <2>1. g[0] \in Seq(X) /\ Len(g[0]) = 0
    BY <1>1, <1>2
  <2> QED
    BY <2>1
<1>5. g[n] = s
  <2>1. g[n] = SubSeq(s, 1, n)
    BY <1>1
  <2>2. SubSeq(s, 1, n) = s
    BY <1>1
  <2> QED
    BY <2>1, <2>2
<1>6. ASSUME NEW k \in 1..n PROVE g[k] = g[k - 1] \o ss[k]
  <2> DEFINE j == k - 1
  <2>1. k \in 0..n /\ j \in 0..n
    BY <1>1
  <2>2. g[k] = SubSeq(s, 1, k) /\ g[j] = SubSeq(s, 1, j)
    <3> HIDE DEF j
    <3> QED
      BY <2>1, Zenon
  <2>3. g[k] = SubSeq(s, 1, k) /\ g[k - 1] = SubSeq(s, 1, k - 1) /\ ss[k] = <<s[k]>>
    BY <2>2, Zenon
  <2>4. SubSeq(s, 1, k) = SubSeq(s, 1, k - 1) \o <<s[k]>>
    BY <1>1, SMTT(60)
  <2> QED
    BY <2>3, <2>4
<1> HIDE DEF g
<1>7. IsFlat(g, ss, X)
  BY <1>3, <1>4, <1>6 DEF IsFlat
<1> QED
  BY <1>5, <1>7, FlattenBy

(* A run of a list, picked out of it.                                       *)
LEMMA PickedRun ==
    ASSUME NEW list, NEW a \in Nat, NEW n \in Nat
    PROVE  /\ DOMAIN Picked(list, a + 1..a + n) = 1..n
           /\ \A k \in 1..n : Picked(list, a + 1..a + n)[k] = list[a + k]
<1> DEFINE S == a + 1..a + n
           at == Listed(S)
<1>1. at = [k \in 1..n |-> a + k]
  BY ListedRun
<1>2. Picked(list, S) = [k \in DOMAIN at |-> list[at[k]]]
  BY DEF Picked
<1> HIDE DEF at
<1>3. DOMAIN at = 1..n /\ \A k \in 1..n : at[k] = a + k
  BY <1>1
<1> QED
  BY <1>2, <1>3

-----------------------------------------------------------------------------
(* The conversation an OpenAI-compatible server is sent.                    *)

Block == [type : {"text", "tool_use", "tool_result"}, id : Nat]
Message == [role : {"user", "assistant"}, blocks : Seq(Block)]
OaiMessage == [role : {"user", "assistant", "tool"}, ids : Seq(Nat)]

(* The blocks of a type, and their ids.                                     *)
LEMMA IdsAre ==
    ASSUME NEW blocks \in Seq(Block), NEW type
    PROVE  Ids(blocks, type) \in Seq(Nat)
<1> DEFINE S == {i \in DOMAIN blocks : blocks[i].type = type}
           of == OfType(blocks, type)
<1>1. S \in SUBSET DOMAIN blocks /\ \A i \in S : blocks[i] \in Block
  OBVIOUS
<1>2. of = Picked(blocks, S)
  BY DEF OfType
<1> HIDE DEF S
<1>3. Picked(blocks, S) \in Seq(Block)
  BY <1>1, PickedIs
<1>4. of \in Seq(Block)
  BY <1>2, <1>3
<1>5. Ids(blocks, type) = [i \in DOMAIN of |-> of[i].id]
  BY DEF Ids
<1> HIDE DEF of
<1>6. DOMAIN of = 1..Len(of) /\ Len(of) \in Nat /\ \A i \in 1..Len(of) : of[i] \in Block
  BY <1>4
<1>7. \A i \in 1..Len(of) : of[i].id \in Nat
  BY <1>6 DEF Block
<1>8. Ids(blocks, type) \in [1..Len(of) -> Nat]
  BY <1>5, <1>6, <1>7
<1> QED
  BY <1>6, <1>8

(* append_openai_message writes messages that the server knows.             *)
LEMMA AppendIs ==
    ASSUME NEW m \in Message
    PROVE  AppendOpenai(m) \in Seq(OaiMessage)
<1>1. m.blocks \in Seq(Block)
  BY DEF Message
<1>2. <<Oai("assistant", Ids(m.blocks, "tool_use"))>> \in Seq(OaiMessage)
  <2>1. Ids(m.blocks, "tool_use") \in Seq(Nat)
    BY <1>1, IdsAre
  <2>2. Oai("assistant", Ids(m.blocks, "tool_use")) \in OaiMessage
    BY <2>1 DEF Oai, OaiMessage
  <2> QED
    BY <2>2
<1>3. ToolMessages(m) \in Seq(OaiMessage)
  <2> DEFINE ids == Ids(m.blocks, "tool_result")
  <2>1. ids \in Seq(Nat)
    BY <1>1, IdsAre
  <2>2. ToolMessages(m) = [i \in DOMAIN ids |-> Oai("tool", <<ids[i]>>)]
    BY DEF ToolMessages
  <2> HIDE DEF ids
  <2>3. \A i \in DOMAIN ids : Oai("tool", <<ids[i]>>) \in OaiMessage
    BY <2>1 DEF Oai, OaiMessage
  <2>4. ToolMessages(m) \in [1..Len(ids) -> OaiMessage]
    BY <2>1, <2>2, <2>3
  <2>5. Len(ids) \in Nat
    BY <2>1
  <2> QED
    BY <2>4, <2>5
<1>4. UserText(m) \in Seq(OaiMessage)
  <2>1. Oai("user", <<>>) \in OaiMessage
    BY DEF Oai, OaiMessage
  <2> QED
    BY <2>1 DEF UserText
<1> QED
  BY <1>2, <1>3, <1>4 DEF AppendOpenai

(* Both conversions go message by message.                                  *)
LEMMA ToOpenaiIs ==
    ASSUME NEW h \in Seq(Message)
    PROVE  /\ [i \in DOMAIN h |-> AppendOpenai(h[i])] \in Seq(Seq(OaiMessage))
           /\ ToOpenai(h) \in Seq(OaiMessage)
<1> DEFINE ss == [i \in DOMAIN h |-> AppendOpenai(h[i])]
<1>1. \A i \in DOMAIN h : AppendOpenai(h[i]) \in Seq(OaiMessage)
  BY AppendIs
<1>2. ss \in Seq(Seq(OaiMessage))
  BY <1>1
<1>3. ToOpenai(h) = FlattenSeq(ss)
  BY DEF ToOpenai
<1> HIDE DEF ss
<1>4. PICK g : IsFlat(g, ss, OaiMessage)
  BY <1>2, FlatExists
<1>5. FlattenSeq(ss) \in Seq(OaiMessage)
  BY <1>2, <1>4, FlattenBy
<1> QED
  BY <1>2, <1>3, <1>5 DEF ss

(* A function on 1..n is a sequence of length n.                            *)
LEMMA SeqIs ==
    ASSUME NEW X, NEW n \in Nat, NEW f \in [1..n -> X]
    PROVE  f \in Seq(X) /\ Len(f) = n
OBVIOUS

IsConcat(c, a, b) ==
    /\ DOMAIN c = 1..Len(a) + Len(b)
    /\ \A i \in 1..Len(a) : c[i] = a[i]
    /\ \A k \in 1..Len(b) : Len(a) + k \in DOMAIN c /\ c[Len(a) + k] = b[k]

(* Where the elements of a concatenation are.                               *)
LEMMA ConcatAt ==
    ASSUME NEW X, NEW a \in Seq(X), NEW b \in Seq(X)
    PROVE  IsConcat(a \o b, a, b)
BY DEF IsConcat

IsAppend(b, a, x) ==
    /\ Len(b) = Len(a) + 1 /\ DOMAIN b = 1..Len(a) + 1
    /\ b[Len(a) + 1] = x
    /\ \A p \in 1..Len(a) : b[p] = a[p]

(* Where the elements of a sequence with one more are.                      *)
LEMMA AppendAt ==
    ASSUME NEW X, NEW a \in Seq(X), NEW x \in X
    PROVE  Append(a, x) \in Seq(X) /\ IsAppend(Append(a, x), a, x)
BY DEF IsAppend

(* A sequence with the elements of two others in turn is their              *)
(* concatenation.                                                           *)
LEMMA ConcatIs ==
    ASSUME NEW X, NEW a \in Seq(X), NEW b \in Seq(X), NEW c \in Seq(X),
           Len(c) = Len(a) + Len(b),
           \A i \in 1..Len(a) : c[i] = a[i],
           \A i \in 1..Len(b) : c[Len(a) + i] = b[i]
    PROVE  c = a \o b
<1>1. Len(a) \in Nat /\ Len(b) \in Nat
  OBVIOUS
<1>2. /\ a \o b \in Seq(X) /\ Len(a \o b) = Len(c)
      /\ \A i \in 1..Len(c) : (a \o b)[i] = IF i <= Len(a) THEN a[i] ELSE b[i - Len(a)]
  OBVIOUS
<1>3. ASSUME NEW i \in 1..Len(c) PROVE c[i] = (a \o b)[i]
  <2>1. CASE i <= Len(a)
    BY <1>1, <1>2, <2>1
  <2>2. CASE ~(i <= Len(a))
    <3>1. PICK k \in 1..Len(b) : i = Len(a) + k /\ k = i - Len(a)
      <4>1. i - Len(a) \in 1..Len(b) /\ i = Len(a) + (i - Len(a))
        BY <1>1, <2>2
      <4> QED
        BY <4>1
    <3>2. (a \o b)[i] = b[k]
      BY <1>2, <2>2, <3>1
    <3>3. c[Len(a) + k] = b[k]
      BY <3>1
    <3> QED
      BY <3>1, <3>2, <3>3
  <2> QED
    BY <2>1, <2>2
<1> QED
  BY <1>2, <1>3, SeqEqual

(* A history is translated message by message: a longer one begins with the *)
(* translation of the shorter one.                                          *)
LEMMA ToOpenaiConcat ==
    ASSUME NEW h \in Seq(Message), NEW m \in Seq(Message)
    PROVE  ToOpenai(h \o m) = ToOpenai(h) \o ToOpenai(m)
<1> DEFINE Of(x) == [i \in DOMAIN x |-> AppendOpenai(x[i])]
<1>1. Of(h) \in Seq(Seq(OaiMessage)) /\ Of(m) \in Seq(Seq(OaiMessage))
  BY ToOpenaiIs
<1>2. Of(h \o m) = Of(h) \o Of(m)
  <2>1. /\ h \o m \in Seq(Message) /\ Len(h) \in Nat /\ Len(m) \in Nat
        /\ DOMAIN (h \o m) = 1..Len(h) + Len(m)
        /\ \A i \in 1..Len(h) : (h \o m)[i] = h[i]
        /\ \A i \in 1..Len(m) : (h \o m)[Len(h) + i] = m[i]
    OBVIOUS
  <2>2. Of(h \o m) \in Seq(Seq(OaiMessage))
    BY <2>1, ToOpenaiIs
  <2>3. Len(Of(h)) = Len(h) /\ Len(Of(m)) = Len(m) /\ Len(Of(h \o m)) = Len(h) + Len(m)
    BY <2>1
  <2>4. \A i \in 1..Len(h) : Of(h \o m)[i] = Of(h)[i]
    BY <2>1
  <2>5. \A i \in 1..Len(m) : Of(h \o m)[Len(h) + i] = Of(m)[i]
    BY <2>1
  <2> DEFINE a == Of(h)
             b == Of(m)
             c == Of(h \o m)
  <2>6. /\ Len(c) = Len(a) + Len(b)
        /\ \A i \in 1..Len(a) : c[i] = a[i]
        /\ \A i \in 1..Len(b) : c[Len(a) + i] = b[i]
    BY <2>3, <2>4, <2>5
  <2> HIDE DEF a, b, c
  <2>7. c = a \o b
    BY <1>1, <2>2, <2>6, ConcatIs DEF a, b, c
  <2> QED
    BY <2>7 DEF a, b, c
<1>3. \A x : ToOpenai(x) = FlattenSeq(Of(x))
  BY DEF ToOpenai
<1> HIDE DEF Of
<1>4. FlattenSeq(Of(h) \o Of(m)) = FlattenSeq(Of(h)) \o FlattenSeq(Of(m))
  BY <1>1, FlattenConcat
<1> QED
  BY <1>2, <1>3, <1>4

(* The translation of a history of one message.                             *)
LEMMA ToOpenaiOne ==
    ASSUME NEW m \in Message
    PROVE  ToOpenai(<<m>>) = AppendOpenai(m)
<1>1. AppendOpenai(m) \in Seq(OaiMessage)
  BY AppendIs
<1>2. [i \in DOMAIN <<m>> |-> AppendOpenai(<<m>>[i])] = <<AppendOpenai(m)>>
  OBVIOUS
<1>3. FlattenSeq(<<AppendOpenai(m)>>) = AppendOpenai(m)
  BY <1>1, FlattenOne
<1> QED
  BY <1>2, <1>3 DEF ToOpenai

(* The ids that the messages of a role carry are numbers.                   *)
LEMMA IdsOfIs ==
    ASSUME NEW s \in Seq(OaiMessage), NEW role
    PROVE  /\ [j \in DOMAIN s |-> IF s[j].role = role THEN s[j].ids ELSE <<>>] \in Seq(Seq(Nat))
           /\ IdsOf(s, role) \in Seq(Nat)
<1> DEFINE ss == [j \in DOMAIN s |-> IF s[j].role = role THEN s[j].ids ELSE <<>>]
<1>1. DOMAIN s = 1..Len(s) /\ Len(s) \in Nat /\ <<>> \in Seq(Nat)
  OBVIOUS
<1>2. ss \in Seq(Seq(Nat))
  <2>1. \A j \in 1..Len(s) : s[j] \in OaiMessage
    BY <1>1
  <2>2. \A j \in 1..Len(s) : s[j].ids \in Seq(Nat)
    BY <2>1 DEF OaiMessage
  <2>3. ss \in [1..Len(s) -> Seq(Nat)]
    BY <1>1, <2>2
  <2> HIDE DEF ss
  <2> QED
    BY <1>1, <2>3
<1>3. IdsOf(s, role) = FlattenSeq(ss)
  BY DEF IdsOf
<1> HIDE DEF ss
<1>4. PICK g : IsFlat(g, ss, Nat)
  BY <1>2, FlatExists
<1>5. FlattenSeq(ss) \in Seq(Nat)
  BY <1>2, <1>4, FlattenBy
<1> QED
  BY <1>2, <1>3, <1>5 DEF ss

(* The ids of a longer history are those of the shorter one, then the new   *)
(* ones.                                                                    *)
LEMMA IdsOfConcat ==
    ASSUME NEW s \in Seq(OaiMessage), NEW t \in Seq(OaiMessage), NEW role
    PROVE  IdsOf(s \o t, role) = IdsOf(s, role) \o IdsOf(t, role)
<1> DEFINE Of(x) == [j \in DOMAIN x |-> IF x[j].role = role THEN x[j].ids ELSE <<>>]
<1>1. Of(s) \in Seq(Seq(Nat)) /\ Of(t) \in Seq(Seq(Nat))
  BY IdsOfIs
<1>2. Of(s \o t) = Of(s) \o Of(t)
  <2>1. /\ s \o t \in Seq(OaiMessage) /\ Len(s) \in Nat /\ Len(t) \in Nat
        /\ DOMAIN (s \o t) = 1..Len(s) + Len(t)
        /\ \A i \in 1..Len(s) : (s \o t)[i] = s[i]
        /\ \A i \in 1..Len(t) : (s \o t)[Len(s) + i] = t[i]
    OBVIOUS
  <2>2. Of(s \o t) \in Seq(Seq(Nat))
    BY <2>1, IdsOfIs
  <2>3. Len(Of(s)) = Len(s) /\ Len(Of(t)) = Len(t) /\ Len(Of(s \o t)) = Len(s) + Len(t)
    BY <2>1
  <2>4. \A i \in 1..Len(s) : Of(s \o t)[i] = Of(s)[i]
    BY <2>1
  <2>5. \A i \in 1..Len(t) : Of(s \o t)[Len(s) + i] = Of(t)[i]
    BY <2>1
  <2> DEFINE a == Of(s)
             b == Of(t)
             c == Of(s \o t)
  <2>6. /\ Len(c) = Len(a) + Len(b)
        /\ \A i \in 1..Len(a) : c[i] = a[i]
        /\ \A i \in 1..Len(b) : c[Len(a) + i] = b[i]
    BY <2>3, <2>4, <2>5
  <2> HIDE DEF a, b, c
  <2>7. c = a \o b
    BY <1>1, <2>2, <2>6, ConcatIs DEF a, b, c
  <2> QED
    BY <2>7 DEF a, b, c
<1>3. /\ IdsOf(s \o t, role) = FlattenSeq(Of(s \o t))
      /\ IdsOf(s, role) = FlattenSeq(Of(s)) /\ IdsOf(t, role) = FlattenSeq(Of(t))
  BY DEF IdsOf
<1> HIDE DEF Of
<1>4. FlattenSeq(Of(s) \o Of(t)) = FlattenSeq(Of(s)) \o FlattenSeq(Of(t))
  BY <1>1, FlattenConcat
<1> QED
  BY <1>2, <1>3, <1>4

(* The messages of a turn, as the server gets them: the calls, if there is  *)
(* a reply, then their answers, then perhaps a text.                        *)
Answers(ids) == [i \in 1..Len(ids) |-> Oai("tool", <<ids[i]>>)]

Answered(s) ==
    \A j \in DOMAIN s :
      s[j].role = "assistant" =>
        \A i \in DOMAIN s[j].ids : j + i \in DOMAIN s /\ s[j + i] = Oai("tool", <<s[j].ids[i]>>)

(* The ids of the calls are among the first n; those above r, which are     *)
(* random, are all different.                                               *)
Distinct(ids, r) ==
    \A i, j \in DOMAIN ids : ids[i] = ids[j] => i = j \/ ids[i] <= r

WellFormed(s, n) ==
    /\ s \in Seq(OaiMessage)
    /\ IdsOf(s, "assistant") \in Seq(1..ServerIds + n)
    /\ Distinct(IdsOf(s, "assistant"), ServerIds)
    /\ IdsOf(s, "tool") = IdsOf(s, "assistant")
    /\ Answered(s)

(* The ids of a reply that follows n calls: given, or the next random ones. *)
IsReplyIds(ids, n) ==
    \A i \in 1..Len(ids) : ids[i] \in 1..ServerIds \/ ids[i] = ServerIds + (n + i)

(* One "tool" message for each id, in order, carrying it.                   *)
LEMMA AnswersAre ==
    ASSUME NEW ids \in Seq(Nat)
    PROVE  /\ Answers(ids) \in Seq(OaiMessage)
           /\ Len(Answers(ids)) = Len(ids)
           /\ \A i \in 1..Len(ids) : Answers(ids)[i] = Oai("tool", <<ids[i]>>)
           /\ IdsOf(Answers(ids), "tool") = ids
           /\ IdsOf(Answers(ids), "assistant") = <<>>
<1> DEFINE n == Len(ids)
           s == Answers(ids)
           Of(role) == [j \in DOMAIN s |-> IF s[j].role = role THEN s[j].ids ELSE <<>>]
<1>1. n \in Nat /\ \A i \in 1..n : ids[i] \in Nat
  OBVIOUS
<1>2. \A i \in 1..n : Oai("tool", <<ids[i]>>) \in OaiMessage
  BY <1>1 DEF Oai, OaiMessage
<1>3. DOMAIN s = 1..n /\ \A i \in 1..n : s[i] = Oai("tool", <<ids[i]>>)
  BY DEF Answers
<1>4. s \in [1..n -> OaiMessage]
  BY <1>2 DEF Answers
<1> HIDE DEF s
<1>5. s \in Seq(OaiMessage) /\ Len(s) = n
  BY <1>1, <1>4
<1>6. \A i \in 1..n : s[i].role = "tool" /\ s[i].ids = <<ids[i]>>
  BY <1>3 DEF Oai
<1>7. /\ Of("tool") \in Seq(Seq(Nat)) /\ Of("assistant") \in Seq(Seq(Nat))
      /\ Len(Of("tool")) = n /\ Len(Of("assistant")) = n
  <2>1. Of("tool") \in Seq(Seq(Nat)) /\ Of("assistant") \in Seq(Seq(Nat))
    BY <1>5, IdsOfIs
  <2> QED
    BY <1>1, <1>3, <2>1
<1>8. \A i \in 1..n : Of("tool")[i] = <<ids[i]>> /\ Of("assistant")[i] = <<>>
  BY <1>3, <1>6
<1>9. IdsOf(s, "tool") = FlattenSeq(Of("tool")) /\ IdsOf(s, "assistant") = FlattenSeq(Of("assistant"))
  BY DEF IdsOf
<1> HIDE DEF Of
<1>10. FlattenSeq(Of("tool")) = ids
  BY <1>7, <1>8, FlattenSingles
<1>11. FlattenSeq(Of("assistant")) = <<>>
  BY <1>7, <1>8, FlattenNone
<1> QED
  BY <1>3, <1>5, <1>9, <1>10, <1>11 DEF s

(* The ids of a single message.                                             *)
LEMMA IdsOfOne ==
    ASSUME NEW m \in OaiMessage, NEW role
    PROVE  IdsOf(<<m>>, role) = IF m.role = role THEN m.ids ELSE <<>>
<1> DEFINE v == IF m.role = role THEN m.ids ELSE <<>>
<1>1. v \in Seq(Nat)
  BY DEF OaiMessage
<1>2. [j \in DOMAIN <<m>> |-> IF <<m>>[j].role = role THEN <<m>>[j].ids ELSE <<>>] = <<v>>
  OBVIOUS
<1>3. IdsOf(<<m>>, role) = FlattenSeq(<<v>>)
  BY <1>2 DEF IdsOf
<1> HIDE DEF v
<1>4. FlattenSeq(<<v>>) = v
  BY <1>1, FlattenOne
<1> QED
  BY <1>3, <1>4 DEF v

(* An empty history carries no ids.                                         *)
LEMMA IdsOfNone ==
    ASSUME NEW role
    PROVE  IdsOf(<<>>, role) = <<>>
<1>1. [j \in DOMAIN <<>> |-> IF <<>>[j].role = role THEN <<>>[j].ids ELSE <<>>] = <<>>
  OBVIOUS
<1>2. FlattenSeq(<<>>) = <<>>
  BY DEF FlattenSeq
<1> QED
  BY <1>1, <1>2 DEF IdsOf

IsReply(a, ids) == (a = <<>> /\ ids = <<>>) \/ a = <<Oai("assistant", ids)>>
IsText(u) == u = <<>> \/ u = <<Oai("user", <<>>)>>

(* A turn answers each of its calls.                                        *)
LEMMA TurnIs ==
    ASSUME NEW ids \in Seq(Nat),
           NEW a \in Seq(OaiMessage), IsReply(a, ids),
           NEW u \in Seq(OaiMessage), IsText(u)
    PROVE  LET t == a \o (Answers(ids) \o u) IN
           /\ t \in Seq(OaiMessage)
           /\ IdsOf(t, "assistant") = ids /\ IdsOf(t, "tool") = ids
           /\ Answered(t)
<1> DEFINE w == Answers(ids)
           r == w \o u
           t == a \o r
           n == Len(ids)
<1>1. /\ w \in Seq(OaiMessage) /\ Len(w) = n /\ n \in Nat
      /\ \A i \in 1..n : w[i] = Oai("tool", <<ids[i]>>)
      /\ IdsOf(w, "tool") = ids /\ IdsOf(w, "assistant") = <<>>
  BY AnswersAre
<1> HIDE DEF w
<1>2. Oai("assistant", ids) \in OaiMessage /\ Oai("user", <<>>) \in OaiMessage
  BY DEF Oai, OaiMessage
<1>3. r \in Seq(OaiMessage)
  BY <1>1
<1>4. IdsOf(u, "tool") = <<>> /\ IdsOf(u, "assistant") = <<>>
  <2>1. CASE u = <<>>
    BY <2>1, IdsOfNone
  <2>2. CASE u = <<Oai("user", <<>>)>>
    <3>1. Oai("user", <<>>).role = "user"
      BY DEF Oai
    <3> QED
      BY <1>2, <2>2, <3>1, IdsOfOne
  <2> QED
    BY <2>1, <2>2 DEF IsText
<1>5. IdsOf(a, "tool") = <<>> /\ IdsOf(a, "assistant") = ids
  <2>1. CASE a = <<>> /\ ids = <<>>
    BY <2>1, IdsOfNone
  <2>2. CASE a = <<Oai("assistant", ids)>>
    <3>1. Oai("assistant", ids).role = "assistant" /\ Oai("assistant", ids).ids = ids
      BY DEF Oai
    <3> QED
      BY <1>2, <2>2, <3>1, IdsOfOne
  <2> QED
    BY <2>1, <2>2 DEF IsReply
<1>6. IdsOf(r, "tool") = ids /\ IdsOf(r, "assistant") = <<>>
  <2>1. IdsOf(r, "tool") = IdsOf(w, "tool") \o IdsOf(u, "tool")
    BY <1>1, IdsOfConcat, ZenonT(60)
  <2>2. IdsOf(r, "assistant") = IdsOf(w, "assistant") \o IdsOf(u, "assistant")
    BY <1>1, IdsOfConcat, ZenonT(60)
  <2>3. ids \o <<>> = ids /\ <<>> \o <<>> = <<>>
    OBVIOUS
  <2> QED
    BY <1>1, <1>4, <2>1, <2>2, <2>3, Zenon
<1>7. IdsOf(t, "tool") = ids /\ IdsOf(t, "assistant") = ids
  <2> HIDE DEF r
  <2>1. IdsOf(t, "tool") = IdsOf(a, "tool") \o IdsOf(r, "tool")
    BY <1>3, IdsOfConcat
  <2>2. IdsOf(t, "assistant") = IdsOf(a, "assistant") \o IdsOf(r, "assistant")
    BY <1>3, IdsOfConcat
  <2>3. ids \o <<>> = ids /\ <<>> \o ids = ids
    OBVIOUS
  <2> QED
    BY <1>5, <1>6, <2>1, <2>2, <2>3, Zenon
<1>8. t \in Seq(OaiMessage) /\ Len(r) = n + Len(u) /\ Len(u) \in Nat /\ Len(t) = Len(a) + Len(r)
  BY <1>1, <1>3
<1>9. \A i \in 1..n : r[i] = Oai("tool", <<ids[i]>>)
  BY <1>1, <1>3
<1>10. \A k \in 1..Len(r) : r[k].role # "assistant"
  <2>1. ASSUME NEW k \in 1..Len(r) PROVE r[k].role # "assistant"
    <3>1. CASE k <= n
      <4>1. k \in 1..n
        BY <1>1, <1>8, <3>1
      <4>2. r[k] = Oai("tool", <<ids[k]>>)
        BY <1>9, <4>1, Zenon
      <4> QED
        BY <4>2 DEF Oai
    <3>2. CASE ~(k <= n)
      <4>1. r[k] = u[k - n] /\ k - n \in 1..Len(u)
        BY <1>1, <1>3, <1>8, <3>2
      <4>2. u[k - n] = Oai("user", <<>>)
        BY <4>1 DEF IsText
      <4> QED
        BY <4>1, <4>2 DEF Oai
    <3> QED
      BY <3>1, <3>2
  <2> QED
    BY <2>1
<1>11. Answered(t)
  <2>1. CASE a = <<>>
    <3>1. t = r
      BY <1>3, <2>1
    <3> QED
      BY <1>3, <1>10, <3>1 DEF Answered
  <2>2. CASE a = <<Oai("assistant", ids)>>
    <3>1. /\ Len(a) = 1 /\ DOMAIN t = 1..1 + Len(r) /\ t[1] = Oai("assistant", ids)
          /\ \A k \in 1..Len(r) : t[1 + k] = r[k]
      BY <1>3, <1>8, <2>2
    <3>2. t[1].ids = ids /\ DOMAIN ids = 1..n
      BY <3>1 DEF Oai
    <3>3. ASSUME NEW j \in DOMAIN t, t[j].role = "assistant" PROVE j = 1
      <4> SUFFICES ASSUME j # 1 PROVE FALSE
        OBVIOUS
      <4>1. j - 1 \in 1..Len(r) /\ 1 + (j - 1) = j
        BY <1>3, <3>1
      <4> QED
        BY <1>10, <3>1, <3>3, <4>1
    <3>4. ASSUME NEW i \in DOMAIN ids PROVE 1 + i \in DOMAIN t /\ t[1 + i] = Oai("tool", <<ids[i]>>)
      <4>1. i \in 1..n /\ i \in 1..Len(r)
        BY <1>1, <1>8, <3>2
      <4> QED
        BY <1>3, <1>8, <1>9, <3>1, <4>1, SMTT(60)
    <3> HIDE DEF t
    <3> QED
      BY <3>2, <3>3, <3>4 DEF Answered
  <2> QED
    BY <2>1, <2>2 DEF IsReply
<1> QED
  BY <1>7, <1>8, <1>11 DEF w

(* A well-formed conversation stays so when a turn follows with ids that    *)
(* are new or the server's.                                                 *)
LEMMA WellFormedGrows ==
    ASSUME NEW s, NEW n \in Nat, WellFormed(s, n),
           NEW ids \in Seq(Nat), IsReplyIds(ids, n),
           NEW t \in Seq(OaiMessage), IdsOf(t, "assistant") = ids, IdsOf(t, "tool") = ids,
           Answered(t)
    PROVE  WellFormed(s \o t, n + Len(ids))
<1> DEFINE called == IdsOf(s, "assistant")
           k == Len(ids)
           m == Len(called)
           u == s \o t
           r == ServerIds
<1>1. /\ s \in Seq(OaiMessage) /\ called \in Seq(1..r + n) /\ Distinct(called, r)
      /\ IdsOf(s, "tool") = called /\ Answered(s)
  BY DEF WellFormed
<1>2. u \in Seq(OaiMessage) /\ k \in Nat
  BY <1>1
<1>3. IdsOf(u, "assistant") = called \o ids /\ IdsOf(u, "tool") = called \o ids
  <2>1. IdsOf(u, "assistant") = IdsOf(s, "assistant") \o IdsOf(t, "assistant")
    BY <1>1, IdsOfConcat
  <2>2. IdsOf(u, "tool") = IdsOf(s, "tool") \o IdsOf(t, "tool")
    BY <1>1, IdsOfConcat
  <2> QED
    BY <1>1, <2>1, <2>2, Zenon
<1> HIDE DEF called
<1> DEFINE all == called \o ids
<1>a. r \in Nat /\ \A i \in 1..k : ids[i] \in 1..r \/ ids[i] = r + (n + i)
  BY LlmAssumption DEF IsReplyIds
<1> HIDE DEF r
<1>4. /\ m \in Nat /\ DOMAIN called = 1..m /\ DOMAIN all = 1..m + k
      /\ \A i \in 1..m : called[i] \in 1..r + n /\ all[i] = called[i]
      /\ \A i \in 1..m + k : i \notin 1..m => i - m \in 1..k /\ all[i] = ids[i - m]
      /\ called \in Seq(Nat)
  <2> DEFINE X == 1..r + n
  <2>1. called \in Seq(X) /\ X \subseteq Nat
    <3>1. X \subseteq Nat
      BY <1>a
    <3> QED BY <1>1, <3>1, Zenon DEF X
  <2> HIDE DEF X
  <2>3. m \in Nat /\ DOMAIN called = 1..m /\ \A i \in 1..m : called[i] \in X
    BY <2>1
  <2>2. called \in Seq(Nat) /\ m \in Nat /\ DOMAIN called = 1..m
    <3>1. called \in [1..m -> X]
      BY <2>1
    <3> HIDE DEF m
    <3>2. called \in [1..m -> Nat]
      BY <2>1, <3>1
    <3> QED BY <2>3, <3>2, SeqIs
  <2>4. /\ DOMAIN all = 1..m + k /\ \A i \in 1..m : all[i] = called[i]
        /\ \A i \in 1..m + k : i \notin 1..m => i - m \in 1..k /\ all[i] = ids[i - m]
    BY <2>2
  <2> HIDE DEF all, m, k
  <2> QED BY <2>2, <2>3, <2>4 DEF X
<1> HIDE DEF all, m
<1>5. \A i \in 1..m + k :
        i \notin 1..m => all[i] \in 1..r \/ all[i] = r + (n + (i - m))
  BY <1>4, <1>a
<1>6. all \in Seq(1..r + (n + k))
  <2>1. ASSUME NEW i \in 1..m + k PROVE all[i] \in 1..r + (n + k)
    <3>1. CASE i \in 1..m
      BY <1>2, <1>4, <1>a, <3>1
    <3>2. CASE i \notin 1..m
      BY <1>2, <1>4, <1>5, <1>a, <3>2
    <3> QED
      BY <3>1, <3>2
  <2>2. all \in Seq(Nat)
    <3>1. called \in Seq(Nat)
      BY <1>4
    <3> QED
      BY <3>1 DEF all
  <2>3. all \in [1..m + k -> 1..r + (n + k)]
    BY <1>4, <2>1, <2>2
  <2>4. m + k \in Nat
    BY <1>2, <1>4
  <2> DEFINE X == 1..r + (n + k)
             l == m + k
  <2> HIDE DEF X, l
  <2>5. all \in [1..l -> X] /\ l \in Nat
    BY <2>3, <2>4 DEF X, l
  <2>6. all \in Seq(X)
    BY <2>5, SeqIs
  <2> QED
    BY <2>6 DEF X
<1>7. Distinct(all, r)
  <2>1. ASSUME NEW i \in 1..m + k, NEW j \in 1..m + k, all[i] = all[j] PROVE i = j \/ all[i] <= r
    <3>1. CASE i \in 1..m /\ j \in 1..m
      BY <1>1, <1>4, <2>1, <3>1 DEF Distinct
    <3>2. CASE i \in 1..m /\ j \notin 1..m
      BY <1>2, <1>4, <1>5, <1>a, <2>1, <3>2
    <3>3. CASE i \notin 1..m /\ j \in 1..m
      BY <1>2, <1>4, <1>5, <1>a, <2>1, <3>3
    <3>4. CASE i \notin 1..m /\ j \notin 1..m
      BY <1>2, <1>4, <1>5, <1>a, <2>1, <3>4
    <3> QED
      BY <3>1, <3>2, <3>3, <3>4
  <2> QED
    BY <1>4, <2>1 DEF Distinct
<1>8. Answered(u)
  <2> DEFINE l == Len(s)
  <2>1. /\ l \in Nat /\ Len(t) \in Nat /\ DOMAIN s = 1..l /\ DOMAIN t = 1..Len(t)
        /\ DOMAIN u = 1..l + Len(t)
        /\ \A j \in 1..l : u[j] = s[j]
        /\ \A j \in 1..Len(t) : u[l + j] = t[j]
    BY <1>1
  <2>2. \A j \in DOMAIN t : t[j].ids \in Seq(Nat)
    <3>1. \A j \in DOMAIN t : t[j] \in OaiMessage
      OBVIOUS
    <3> QED
      BY <3>1 DEF OaiMessage
  <2> HIDE DEF u, l
  <2>3. ASSUME NEW j \in DOMAIN u, u[j].role = "assistant", NEW i \in DOMAIN u[j].ids
        PROVE  j + i \in DOMAIN u /\ u[j + i] = Oai("tool", <<u[j].ids[i]>>)
    <3>1. CASE j \in 1..l
      <4>1. u[j] = s[j] /\ j \in DOMAIN s
        BY <2>1, <3>1
      <4>2. j + i \in DOMAIN s /\ s[j + i] = Oai("tool", <<s[j].ids[i]>>)
        BY <1>1, <2>3, <4>1, Zenon DEF Answered
      <4>3. j + i \in DOMAIN u /\ u[j + i] = s[j + i]
        BY <2>1, <4>2
      <4> QED
        BY <4>1, <4>2, <4>3
    <3>2. CASE j \notin 1..l
      <4> DEFINE h == j - l
      <4>1. h \in DOMAIN t /\ l + h = j /\ h \in Nat
        BY <2>1, <3>2
      <4> HIDE DEF h
      <4>2. u[j] = t[h]
        BY <2>1, <4>1
      <4>3. h + i \in DOMAIN t /\ t[h + i] = Oai("tool", <<t[h].ids[i]>>)
        BY <2>3, <4>1, <4>2, Zenon DEF Answered
      <4>4. i \in Nat
        BY <2>2, <2>3, <4>1, <4>2
      <4>5. l + (h + i) = j + i
        BY <2>1, <4>1, <4>4
      <4>6. j + i \in DOMAIN u /\ u[j + i] = t[h + i]
        <5>1. u[l + (h + i)] = t[h + i] /\ l + (h + i) \in DOMAIN u
          BY <2>1, <4>3
        <5> QED
          BY <4>5, <5>1
      <4> QED
        BY <4>2, <4>3, <4>6
    <3> QED
      BY <3>1, <3>2
  <2> QED
    BY <2>3 DEF Answered
<1> HIDE DEF u
<1>9. WellFormed(u, n + k)
  BY <1>2, <1>3, <1>6, <1>7, <1>8 DEF WellFormed, all, r
<1> QED
  BY <1>9 DEF u

(* The history holds messages, and so far the server accepts it; the ids    *)
(* of the calls are those given out so far.                                 *)
TalkInv ==
    /\ history \in Seq(Message)
    /\ used \in Nat
    /\ WellFormed(ToOpenai(history), used)

(* When the blocks of a type are a run of the message's, so are their ids.  *)
LEMMA IdsOfRun ==
    ASSUME NEW blocks \in Seq(Block), NEW type, NEW a \in Nat, NEW ids \in Seq(Nat),
           \A i \in DOMAIN blocks : blocks[i].type = type <=> i \in a + 1..a + Len(ids),
           \A k \in 1..Len(ids) : a + k \in DOMAIN blocks /\ blocks[a + k].id = ids[k]
    PROVE  Ids(blocks, type) = ids
<1> DEFINE n == Len(ids)
           S == {i \in DOMAIN blocks : blocks[i].type = type}
           of == OfType(blocks, type)
<1>1. n \in Nat /\ DOMAIN ids = 1..n
  OBVIOUS
<1>2. S = a + 1..a + n
  <2>1. ASSUME NEW i \in a + 1..a + n PROVE i \in DOMAIN blocks
    <3>1. i - a \in 1..n /\ a + (i - a) = i
      BY <1>1
    <3> QED
      BY <3>1
  <2> QED
    BY <2>1
<1>3. of = Picked(blocks, S)
  BY DEF OfType
<1> HIDE DEF S, of, n
<1>4. /\ DOMAIN Picked(blocks, a + 1..a + n) = 1..n
      /\ \A k \in 1..n : Picked(blocks, a + 1..a + n)[k] = blocks[a + k]
  BY <1>1, PickedRun
<1>5. DOMAIN of = 1..n /\ \A k \in 1..n : of[k].id = ids[k]
  BY <1>2, <1>3, <1>4 DEF n
<1>6. Ids(blocks, type) = [i \in DOMAIN of |-> of[i].id]
  BY DEF Ids, of
<1>7. Ids(blocks, type) = [k \in 1..n |-> ids[k]]
  BY <1>5, <1>6
<1> QED
  BY <1>1, <1>7

(* The answer to the calls is converted to one message for each, behind the *)
(* calls; a text may follow.                                                *)
IsAnswer(answer, ids) ==
    answer = IF ids = <<>> THEN <<Text>> ELSE [i \in DOMAIN ids |-> Result(ids[i])]

(* The results come first in the message that answers, one for each call.   *)
LEMMA AnswerBlocks ==
    ASSUME NEW ids \in Seq(Nat), NEW answer, IsAnswer(answer, ids)
    PROVE  /\ answer \in Seq(Block)
           /\ \A i \in DOMAIN answer : answer[i].type = "tool_result" <=> i \in 1..Len(ids)
           /\ \A i \in 1..Len(ids) : i \in DOMAIN answer /\ answer[i].id = ids[i]
<1> DEFINE n == Len(ids)
<1>1. n \in Nat /\ DOMAIN ids = 1..n /\ \A i \in 1..n : ids[i] \in Nat
  OBVIOUS
<1>2. CASE ids = <<>>
  <2>1. answer = <<Text>> /\ n = 0
    BY <1>2 DEF IsAnswer
  <2>2. Text \in Block /\ Text.type = "text"
    BY DEF Text, Block
  <2>3. 1..n = {} /\ DOMAIN <<Text>> = {1} /\ <<Text>>[1] = Text
    BY <2>1
  <2>4. <<Text>> \in Seq(Block)
    BY <2>2
  <2> QED
    BY <2>1, <2>2, <2>3, <2>4, Zenon
<1>3. CASE ids # <<>>
  <2>1. answer = [i \in 1..n |-> Result(ids[i])]
    BY <1>1, <1>3 DEF IsAnswer
  <2>2. \A i \in 1..n : /\ Result(ids[i]) \in Block
                        /\ Result(ids[i]).type = "tool_result" /\ Result(ids[i]).id = ids[i]
    BY <1>1 DEF Result, Block
  <2>3. DOMAIN answer = 1..n /\ \A i \in 1..n : answer[i] = Result(ids[i])
    BY <2>1
  <2>4. answer \in [1..n -> Block]
    BY <2>1, <2>2
  <2>5. answer \in Seq(Block)
    BY <1>1, <2>4
  <2> QED
    BY <2>2, <2>3, <2>5
<1> QED
  BY <1>2, <1>3

(* The message that answers is translated to one "tool" message for each    *)
(* call, then the text, if any.                                             *)
LEMMA AnswerIs ==
    ASSUME NEW ids \in Seq(Nat), NEW answer, IsAnswer(answer, ids),
           NEW m, m = [role |-> "user", blocks |-> answer]
    PROVE  /\ m \in Message
           /\ UserText(m) \in Seq(OaiMessage)
           /\ IsText(UserText(m))
           /\ AppendOpenai(m) = Answers(ids) \o UserText(m)
<1> DEFINE n == Len(ids)
<1>1. /\ answer \in Seq(Block) /\ n \in Nat /\ DOMAIN ids = 1..n
      /\ \A i \in DOMAIN answer : answer[i].type = "tool_result" <=> i \in 1..n
      /\ \A i \in 1..n : i \in DOMAIN answer /\ answer[i].id = ids[i]
  <2>1. n \in Nat /\ DOMAIN ids = 1..n
    OBVIOUS
  <2> QED
    BY <2>1, AnswerBlocks
<1>2. m \in Message /\ m.role = "user" /\ m.blocks = answer
  BY <1>1 DEF Message
<1>3. IsText(UserText(m)) /\ UserText(m) \in Seq(OaiMessage)
  <2>1. UserText(m) = <<>> \/ UserText(m) = <<Oai("user", <<>>)>>
    BY DEF UserText
  <2>2. Oai("user", <<>>) \in OaiMessage
    BY DEF Oai, OaiMessage
  <2>3. <<Oai("user", <<>>)>> \in Seq(OaiMessage) /\ <<>> \in Seq(OaiMessage)
    BY <2>2
  <2> QED
    BY <2>1, <2>3, Zenon DEF IsText
<1>4. Ids(answer, "tool_result") = ids
  <2> DEFINE z == 0
  <2>1. /\ z \in Nat
        /\ \A i \in DOMAIN answer : answer[i].type = "tool_result" <=> i \in z + 1..z + n
        /\ \A k \in 1..n : z + k \in DOMAIN answer /\ answer[z + k].id = ids[k]
    BY <1>1
  <2> HIDE DEF z
  <2> QED
    BY <1>1, <2>1, IdsOfRun
<1>5. ToolMessages(m) = Answers(ids)
  BY <1>1, <1>2, <1>4 DEF ToolMessages, Answers
<1>6. AppendOpenai(m) = ToolMessages(m) \o UserText(m)
  BY <1>2 DEF AppendOpenai
<1> QED
  BY <1>2, <1>3, <1>5, <1>6

(* A reply is converted to one message with the calls in it.                *)
IsLead(text) == \A i \in 1..Len(text) : text[i].type = "text"
IsContent(content, text, ids) == content = text \o [i \in DOMAIN ids |-> Use(ids[i])]

(* The message of the model is translated to one "assistant" message with   *)
(* the ids of its calls, unless it is empty.                                *)
LEMMA ReplyIs ==
    ASSUME NEW ids \in Seq(Nat), NEW text \in Seq(Block), IsLead(text),
           NEW content, IsContent(content, text, ids)
    PROVE  /\ [role |-> "assistant", blocks |-> content] \in Message
           /\ AppendOpenai([role |-> "assistant", blocks |-> content]) = <<Oai("assistant", ids)>>
           /\ content = <<>> => ids = <<>>
<1> DEFINE n == Len(ids)
           a == Len(text)
           uses == [i \in DOMAIN ids |-> Use(ids[i])]
           m == [role |-> "assistant", blocks |-> content]
<1>1. n \in Nat /\ a \in Nat /\ DOMAIN ids = 1..n /\ \A i \in 1..n : ids[i] \in Nat
  OBVIOUS
<1>2. \A i \in 1..n : Use(ids[i]) \in Block /\ Use(ids[i]).type = "tool_use" /\ Use(ids[i]).id = ids[i]
  BY <1>1 DEF Use, Block
<1>3. uses \in [1..n -> Block] /\ \A i \in 1..n : uses[i] = Use(ids[i])
  BY <1>1, <1>2
<1>4. uses \in Seq(Block) /\ Len(uses) = n
  BY <1>1, <1>3, SeqIs
<1> HIDE DEF uses
<1>5. content = text \o uses
  BY DEF uses, IsContent
<1>6. /\ content \in Seq(Block) /\ DOMAIN content = 1..a + n /\ Len(content) = a + n
      /\ \A i \in 1..a : content[i] = text[i]
      /\ \A k \in 1..n : a + k \in DOMAIN content /\ content[a + k] = uses[k]
  <2>1. IsConcat(text \o uses, text, uses)
    BY <1>4, ConcatAt
  <2>2. text \o uses \in Seq(Block) /\ Len(text \o uses) = Len(text) + Len(uses)
    BY <1>4, ConcatProperties
  <2> QED
    BY <1>4, <1>5, <2>1, <2>2, Zenon DEF IsConcat
<1>7. m \in Message /\ m.role = "assistant" /\ m.blocks = content
  BY <1>6 DEF Message
<1>8. \A k \in 1..n : a + k \in DOMAIN content /\ content[a + k].id = ids[k]
                      /\ content[a + k].type = "tool_use"
  BY <1>2, <1>3, <1>6
<1>9. \A i \in 1..a : content[i].type # "tool_use"
  BY <1>6 DEF IsLead
<1>10. \A i \in DOMAIN content : content[i].type = "tool_use" <=> i \in a + 1..a + n
  <2>1. ASSUME NEW i \in DOMAIN content, i \in a + 1..a + n PROVE content[i].type = "tool_use"
    <3>1. i - a \in 1..n /\ a + (i - a) = i
      BY <1>1, <2>1
    <3> QED
      BY <1>8, <3>1
  <2>2. ASSUME NEW i \in DOMAIN content, i \notin a + 1..a + n PROVE i \in 1..a
    BY <1>1, <1>6, <2>2
  <2> QED
    BY <1>9, <2>1, <2>2
<1>11. Ids(content, "tool_use") = ids
  <2>1. \A k \in 1..n : a + k \in DOMAIN content /\ content[a + k].id = ids[k]
    BY <1>8
  <2> HIDE DEF a
  <2> QED
    BY <1>1, <1>6, <1>10, <2>1, IdsOfRun
<1>12. AppendOpenai(m) = <<Oai("assistant", ids)>>
  BY <1>7, <1>11 DEF AppendOpenai
<1>13. content = <<>> => ids = <<>>
  BY <1>1, <1>6
<1> QED
  BY <1>7, <1>12, <1>13

(* The ids of a reply's calls are the server's or the next random ones.     *)
LEMMA FromOpenaiIs ==
    ASSUME used \in Nat, NEW calls \in SeqOf(ReplyCalls, MaxCalls)
    PROVE  FromOpenai(calls) \in Seq(Nat) /\ IsReplyIds(FromOpenai(calls), used)
<1> DEFINE S == {i \in DOMAIN calls : calls[i].named}
           named == Picked(calls, S)
           n == Len(named)
           ids == FromOpenai(calls)
<1>1. calls \in Seq(ReplyCalls)
  BY LlmAssumption DEF SeqOf
<1>2. S \in SUBSET DOMAIN calls /\ \A i \in S : calls[i] \in ReplyCalls
  BY <1>1
<1> HIDE DEF S
<1>3. named \in Seq(ReplyCalls)
  BY <1>1, <1>2, PickedIs
<1> HIDE DEF named
<1>4. n \in Nat /\ DOMAIN named = 1..n /\ \A i \in 1..n : named[i] \in ReplyCalls
  BY <1>3
<1>5. ids = [i \in DOMAIN named |-> Id(named[i], used + i)]
  BY DEF FromOpenai, named, S
<1> HIDE DEF n, ids
<1>6. ASSUME NEW i \in 1..n
      PROVE  LET x == Id(named[i], used + i) IN
             x \in Nat /\ (x \in 1..ServerIds \/ x = ServerIds + (used + i))
  <2>1. named[i].id \in 0..ServerIds /\ used + i \in Nat
    BY <1>4 DEF ReplyCalls
  <2> QED BY <2>1, LlmAssumption DEF Id
<1>7. /\ ids \in [1..n -> Nat]
      /\ \A i \in 1..n : ids[i] \in 1..ServerIds \/ ids[i] = ServerIds + (used + i)
  BY <1>4, <1>5, <1>6
<1>8. ids \in Seq(Nat) /\ Len(ids) = n
  BY <1>4, <1>7, SeqIs
<1> QED
  BY <1>7, <1>8 DEF IsReplyIds, ids

(* A turn keeps the invariant.                                              *)
LEMMA ConverseStep ==
    ASSUME TalkInv, NEW text \in {<<>>, <<Text>>}, NEW calls \in SeqOf(ReplyCalls, MaxCalls),
           Converse(text, calls)
    PROVE  TalkInv'
<1> DEFINE ids == FromOpenai(calls)
           content == text \o [i \in DOMAIN ids |-> Use(ids[i])]
           answer == IF ids = <<>> THEN <<Text>> ELSE [i \in DOMAIN ids |-> Result(ids[i])]
           p == [role |-> "assistant", blocks |-> content]
           q == [role |-> "user", blocks |-> answer]
           reply == IF content = <<>> THEN <<>> ELSE <<p>>
           a == IF content = <<>> THEN <<>> ELSE <<Oai("assistant", ids)>>
           t == a \o (Answers(ids) \o UserText(q))
<1>1. history \in Seq(Message) /\ used \in Nat /\ WellFormed(ToOpenai(history), used)
  BY DEF TalkInv
<1>2. ids \in Seq(Nat) /\ IsReplyIds(ids, used)
  BY <1>1, FromOpenaiIs
<1>3. history' = history \o reply \o <<q>> /\ used' = used + Len(ids)
  BY Zenon DEF Converse
<1> HIDE DEF ids
<1>4. text \in Seq(Block) /\ \A i \in 1..Len(text) : text[i].type = "text"
  <2>1. Text \in Block /\ Text.type = "text"
    BY DEF Text, Block
  <2>2. <<>> \in Seq(Block) /\ \A i \in 1..Len(<<>>) : <<>>[i].type = "text"
    OBVIOUS
  <2>3. <<Text>> \in Seq(Block) /\ \A i \in 1..Len(<<Text>>) : <<Text>>[i].type = "text"
    BY <2>1
  <2> QED
    BY <2>2, <2>3, Zenon
<1> HIDE DEF content
<1>5. p \in Message /\ AppendOpenai(p) = <<Oai("assistant", ids)>> /\ (content = <<>> => ids = <<>>)
  <2>1. IsContent(content, text, ids)
    BY DEF content, IsContent
  <2>2. IsLead(text)
    BY <1>4 DEF IsLead
  <2> QED
    BY <1>2, <1>4, <2>1, <2>2, ReplyIs
<1>6. IsAnswer(answer, ids)
  BY DEF IsAnswer
<1> HIDE DEF answer, p
<1>7. /\ q \in Message /\ UserText(q) \in Seq(OaiMessage) /\ IsText(UserText(q))
      /\ AppendOpenai(q) = Answers(ids) \o UserText(q)
  BY <1>2, <1>6, AnswerIs
<1> HIDE DEF q
<1>8. ToOpenai(reply) = a /\ reply \in Seq(Message) /\ a \in Seq(OaiMessage) /\ IsReply(a, ids)
  <2>1. CASE content = <<>>
    <3>1. reply = <<>> /\ a = <<>> /\ ids = <<>>
      BY <1>5, <2>1
    <3>2. [i \in DOMAIN <<>> |-> AppendOpenai(<<>>[i])] = <<>> /\ FlattenSeq(<<>>) = <<>>
      BY DEF FlattenSeq
    <3>3. ToOpenai(<<>>) = <<>>
      BY <3>2 DEF ToOpenai
    <3>4. <<>> \in Seq(Message) /\ <<>> \in Seq(OaiMessage)
      OBVIOUS
    <3> QED
      BY <3>1, <3>3, <3>4, Zenon DEF IsReply
  <2>2. CASE content # <<>>
    <3>1. reply = <<p>> /\ a = <<Oai("assistant", ids)>>
      BY <2>2
    <3>2. ToOpenai(<<p>>) = a
      BY <1>5, <3>1, ToOpenaiOne
    <3>3. <<p>> \in Seq(Message)
      BY <1>5
    <3>4. Oai("assistant", ids) \in OaiMessage
      BY <1>2 DEF Oai, OaiMessage
    <3>5. a \in Seq(OaiMessage)
      BY <3>1, <3>4
    <3> QED
      BY <3>1, <3>2, <3>3, <3>5, Zenon DEF IsReply
  <2> QED
    BY <2>1, <2>2
<1> HIDE DEF reply, a
<1>9. ToOpenai(<<q>>) = Answers(ids) \o UserText(q) /\ <<q>> \in Seq(Message)
  <2>1. ToOpenai(<<q>>) = AppendOpenai(q)
    BY <1>7, ToOpenaiOne
  <2>2. <<q>> \in Seq(Message)
    BY <1>7
  <2> QED
    BY <1>7, <2>1, <2>2
<1>10. /\ t \in Seq(OaiMessage) /\ IdsOf(t, "assistant") = ids /\ IdsOf(t, "tool") = ids
       /\ Answered(t)
  BY <1>2, <1>7, <1>8, TurnIs
<1>11. history \o reply \in Seq(Message) /\ history' \in Seq(Message)
  BY <1>1, <1>3, <1>8, <1>9
<1>12. ToOpenai(history') = ToOpenai(history) \o t
  <2> DEFINE x == ToOpenai(history)
             y == Answers(ids) \o UserText(q)
  <2>1. ToOpenai(history \o reply) = x \o a
    BY <1>1, <1>8, ToOpenaiConcat
  <2>2. ToOpenai((history \o reply) \o <<q>>) = ToOpenai(history \o reply) \o ToOpenai(<<q>>)
    BY <1>9, <1>11, ToOpenaiConcat
  <2>3. x \in Seq(OaiMessage) /\ y \in Seq(OaiMessage) /\ t = a \o y
    <3>1. x \in Seq(OaiMessage)
      BY <1>1, ToOpenaiIs
    <3>2. Answers(ids) \in Seq(OaiMessage)
      BY <1>2, AnswersAre
    <3> QED
      BY <1>7, <3>1, <3>2
  <2> HIDE DEF x, y, t
  <2>4. (x \o a) \o y = x \o (a \o y)
    BY <1>8, <2>3, SMTT(60)
  <2>5. ToOpenai(<<q>>) = y
    BY <1>9 DEF y
  <2> QED
    BY <1>3, <2>1, <2>2, <2>3, <2>4, <2>5, Zenon DEF x
<1> HIDE DEF t
<1>13. WellFormed(ToOpenai(history) \o t, used + Len(ids))
  BY <1>1, <1>2, <1>10, WellFormedGrows
<1>14. used' \in Nat
  BY <1>1, <1>2, <1>3
<1> QED
  BY <1>3, <1>11, <1>12, <1>13, <1>14 DEF TalkInv

(* A conversation that an OpenAI-compatible server is sent is one it        *)
(* accepts, however many turns and tool calls it has and whichever of them  *)
(* lack a name or an id: every call has an id, of its own unless the server *)
(* gave it twice, and is answered, once, right behind the message that made *)
(* it.                                                                      *)
THEOREM ServersAcceptTheHistory == LlmSpec => []TranslationWellFormed
<1>1. HttpInit /\ LlmInit => TalkInv
  <2> SUFFICES ASSUME LlmInit PROVE TalkInv
    OBVIOUS
  <2> DEFINE q == [role |-> "user", blocks |-> <<Text>>]
             none == <<>>
             t == none \o (Answers(none) \o UserText(q))
  <2>1. history = <<q>> /\ used = 0
    BY DEF LlmInit, Text
  <2>2. none \in Seq(Nat) /\ none \in Seq(OaiMessage) /\ IsReply(none, none) /\ Len(none) = 0
    BY DEF IsReply
  <2>3. IsAnswer(<<Text>>, none)
    BY DEF IsAnswer
  <2> HIDE DEF none, q
  <2>4. /\ q \in Message /\ UserText(q) \in Seq(OaiMessage) /\ IsText(UserText(q))
        /\ AppendOpenai(q) = Answers(none) \o UserText(q)
    BY <2>2, <2>3, AnswerIs DEF q
  <2>5. /\ t \in Seq(OaiMessage) /\ IdsOf(t, "assistant") = none /\ IdsOf(t, "tool") = none
        /\ Answered(t)
    BY <2>2, <2>4, TurnIs
  <2>6. ToOpenai(history) = t
    <3>1. ToOpenai(history) = Answers(none) \o UserText(q)
      BY <2>1, <2>4, ToOpenaiOne
    <3>2. Answers(none) \in Seq(OaiMessage)
      BY <2>2, AnswersAre
    <3>3. Answers(none) \o UserText(q) \in Seq(OaiMessage)
      BY <2>4, <3>2
    <3>4. t = Answers(none) \o UserText(q)
      BY <3>3, ConcatEmptySeq DEF none
    <3> QED
      BY <3>1, <3>4
  <2>7. none \in Seq(1..ServerIds + 0) /\ Distinct(none, ServerIds)
    BY DEF none, Distinct
  <2>8. WellFormed(t, 0)
    <3> HIDE DEF t
    <3> QED
      BY <2>5, <2>7, Zenon DEF WellFormed
  <2>9. history \in Seq(Message)
    BY <2>1, <2>4
  <2> QED
    BY <2>1, <2>6, <2>8, <2>9 DEF TalkInv
<1>2. TalkInv /\ [CallNext \/ TalkNext]_<<httpVars, llmVars>> => TalkInv'
  <2> SUFFICES ASSUME TalkInv, [CallNext \/ TalkNext]_<<httpVars, llmVars>> PROVE TalkInv'
    OBVIOUS
  <2>1. CASE TalkNext
    BY <2>1, ConverseStep DEF TalkNext
  <2>2. CASE CallNext \/ UNCHANGED <<httpVars, llmVars>>
    <3>1. UNCHANGED <<history, used>>
      BY <2>2 DEF CallNext, LlmStart, LlmTry, Between, llmVars
    <3> QED
      BY <3>1 DEF TalkInv
  <2> QED
    BY <2>1, <2>2
<1>3. TalkInv => TranslationWellFormed
  <2> SUFFICES ASSUME TalkInv PROVE TranslationWellFormed
    OBVIOUS
  <2> DEFINE s == ToOpenai(history)
             called == IdsOf(s, "assistant")
  <2>1. /\ called \in Seq(1..ServerIds + used) /\ used \in Nat /\ Distinct(called, ServerIds)
        /\ IdsOf(s, "tool") = called /\ Answered(s)
    BY Zenon DEF TalkInv, WellFormed
  <2> HIDE DEF called
  <2>2. \A i \in DOMAIN called : called[i] > 0
    BY <2>1, LlmAssumption
  <2> HIDE DEF s
  <2>3. \A i, j \in DOMAIN called :
          called[i] > 0 /\ (called[i] = called[j] => i = j \/ called[i] <= ServerIds)
    BY <2>1, <2>2, Zenon DEF Distinct
  <2> QED BY <2>1, <2>3, Zenon DEF TranslationWellFormed, Answered, s, called
<1> QED
  BY <1>1, <1>2, <1>3, PTL DEF LlmSpec

-----------------------------------------------------------------------------
(* Which agent gets which text.  The routes after i turns, said at once: of *)
(* the mentions seen so far, room permitting, each has the nearest text     *)
(* behind it, if there is one yet.  c is the room that the hub's text       *)
(* leaves, seg the texts behind the mentions and agent the agents named.    *)

SeenAt(c, i) == IF i <= c THEN i ELSE c
TextsAt(seg, c, j, i) == {l \in j..SeenAt(c, i) : seg[l] # <<>>}
TextAt(seg, c, j, i) ==
    IF TextsAt(seg, c, j, i) = {} THEN <<>> ELSE seg[Min(TextsAt(seg, c, j, i))]
PendingAt(seg, c, i) == Max({0} \cup TextsAt(seg, c, 1, i))
OutAt(hub, agent, seg, c, i) ==
    [p \in 1..Len(hub) + SeenAt(c, i) |->
       IF p <= Len(hub) THEN hub[p]
       ELSE Route(agent[p - Len(hub)], TextAt(seg, c, p - Len(hub), i))]

(* How far the texts reach.                                                 *)
LEMMA PendingIs ==
    ASSUME NEW seg, NEW c \in Nat, NEW i \in Nat
    PROVE  /\ SeenAt(c, i) \in Nat
           /\ PendingAt(seg, c, i) \in 0..SeenAt(c, i)
           /\ PendingAt(seg, c, i) = 0 \/ PendingAt(seg, c, i) \in TextsAt(seg, c, 1, i)
           /\ \A l \in TextsAt(seg, c, 1, i) : l <= PendingAt(seg, c, i)
<1> DEFINE n == SeenAt(c, i)
           T == TextsAt(seg, c, 1, i)
           S == {0} \cup T
<1>1. n \in Nat
  BY DEF SeenAt
<1>2. S \in SUBSET Nat /\ 0 \in S /\ \A y \in S : y <= n
  BY <1>1 DEF TextsAt
<1>3. PendingAt(seg, c, i) = Max(S)
  BY DEF PendingAt
<1>4. \A y \in S : y \in 0..n
  BY <1>1, <1>2
<1>5. \A y \in T : y \in S
  OBVIOUS
<1>6. \A y \in S : y = 0 \/ y \in T
  OBVIOUS
<1> HIDE DEF n, S, T
<1>7. Max(S) \in S /\ \A y \in S : y <= Max(S)
  BY <1>1, <1>2, MaxOf
<1> QED
  BY <1>1, <1>3, <1>4, <1>5, <1>6, <1>7 DEF n, T

(* A mention has a text exactly if the texts reach as far as it.            *)
LEMMA ServedIs ==
    ASSUME NEW seg, NEW c \in Nat, NEW i \in Nat, NEW j \in 1..SeenAt(c, i)
    PROVE  TextsAt(seg, c, j, i) # {} <=> j <= PendingAt(seg, c, i)
<1> DEFINE p == PendingAt(seg, c, i)
           n == SeenAt(c, i)
<1>1. /\ n \in Nat /\ p \in 0..n
      /\ p = 0 \/ p \in TextsAt(seg, c, 1, i)
      /\ \A l \in TextsAt(seg, c, 1, i) : l <= p
  BY PendingIs
<1> HIDE DEF p
<1>2. j \in Nat /\ 1 <= j
  BY <1>1
<1>3. ASSUME NEW l \in TextsAt(seg, c, j, i) PROVE j <= p
  <2>1. l \in TextsAt(seg, c, 1, i) /\ j <= l /\ l \in Nat
    BY <1>1, <1>2 DEF TextsAt
  <2> QED
    BY <1>1, <1>2, <2>1
<1>4. ASSUME j <= p PROVE p \in TextsAt(seg, c, j, i)
  <2>1. p \in TextsAt(seg, c, 1, i)
    BY <1>1, <1>2, <1>4
  <2> QED
    BY <1>1, <1>2, <1>4, <2>1 DEF TextsAt
<1> QED
  BY <1>3, <1>4 DEF p

(* A turn that brings no text, and one that does.                           *)
AddsText(seg, c, i, j) ==
    /\ SeenAt(c, i) = i /\ SeenAt(c, i - 1) = i - 1
    /\ seg[i] = <<>> => TextsAt(seg, c, j, i) = TextsAt(seg, c, j, i - 1)
    /\ seg[i] # <<>> => TextsAt(seg, c, j, i) = TextsAt(seg, c, j, i - 1) \cup {i}
    /\ TextsAt(seg, c, i, i - 1) = {}

(* Only a turn with a text changes what texts there are.                    *)
LEMMA TextsStep ==
    ASSUME NEW seg, NEW c \in Nat, NEW i \in Nat, 1 <= i, i <= c, NEW j \in 1..i
    PROVE  AddsText(seg, c, i, j)
<1>1. SeenAt(c, i) = i /\ SeenAt(c, i - 1) = i - 1
  BY DEF SeenAt
<1>2. j..i = (j..i - 1) \cup {i} /\ i \notin j..i - 1
  OBVIOUS
<1>3. i..i - 1 = {}
  OBVIOUS
<1>4. ASSUME seg[i] = <<>> PROVE TextsAt(seg, c, j, i) = TextsAt(seg, c, j, i - 1)
  BY <1>1, <1>2, <1>4, Zenon DEF TextsAt
<1>5. ASSUME seg[i] # <<>> PROVE TextsAt(seg, c, j, i) = TextsAt(seg, c, j, i - 1) \cup {i}
  BY <1>1, <1>2, <1>5, Zenon DEF TextsAt
<1>6. TextsAt(seg, c, i, i - 1) = {}
  BY <1>1, <1>3 DEF TextsAt
<1> QED
  BY <1>1, <1>4, <1>5, <1>6, Zenon DEF AddsText

(* The nearest text behind a mention that has one stays the nearest.        *)
LEMMA TextStays ==
    ASSUME NEW seg, NEW c \in Nat, NEW i \in Nat, 1 <= i, i <= c, seg[i] # <<>>, NEW j \in 1..i
    PROVE  /\ j <= PendingAt(seg, c, i - 1) =>
                TextAt(seg, c, j, i) = TextAt(seg, c, j, i - 1)
           /\ ~(j <= PendingAt(seg, c, i - 1)) => TextAt(seg, c, j, i) = seg[i]
           /\ PendingAt(seg, c, i) = i
<1> DEFINE T == TextsAt(seg, c, j, i - 1)
           U == TextsAt(seg, c, j, i)
           p == PendingAt(seg, c, i - 1)
<1>1. U = T \cup {i} /\ SeenAt(c, i) = i /\ SeenAt(c, i - 1) = i - 1
  <2>1. AddsText(seg, c, i, j)
    BY TextsStep
  <2> QED
    BY <2>1, Zenon DEF AddsText
<1>2. i - 1 \in Nat /\ j \in Nat
  OBVIOUS
<1>3. T \in SUBSET Nat /\ \A l \in T : l \in j..i - 1
  BY <1>1, <1>2 DEF TextsAt
<1>4. j = i => T = {}
  BY <1>3
<1>5. j # i => j \in 1..SeenAt(c, i - 1)
  BY <1>1, <1>2
<1>6. p \in 0..i - 1
  BY <1>1, <1>2, PendingIs
<1>7. T # {} <=> j <= p
  <2>1. CASE j = i
    BY <1>4, <1>6, <2>1
  <2>2. CASE j # i
    BY <1>2, <1>5, <2>2, ServedIs
  <2> QED
    BY <2>1, <2>2
<1>8. U # {}
  BY <1>1
<1> HIDE DEF T, U, p
<1>9. TextAt(seg, c, j, i) = seg[Min(U)]
  BY <1>8 DEF TextAt, U
<1>10. ASSUME T # {} PROVE Min(U) = Min(T)
  <2>1. Min(T) \in T /\ \A y \in T : Min(T) <= y
    BY <1>3, <1>10, MinOf
  <2>2. U \in SUBSET Nat
    BY <1>1, <1>3
  <2>3. Min(U) \in U /\ \A y \in U : Min(U) <= y
    BY <1>8, <2>2, MinOf
  <2>4. Min(T) \in Nat /\ Min(T) <= i - 1 /\ Min(U) \in Nat
    <3>1. Min(T) \in j..i - 1
      BY <1>3, <2>1
    <3>2. Min(U) \in Nat
      BY <2>2, <2>3
    <3> QED
      BY <1>2, <3>1, <3>2
  <2>5. Min(T) \in U
    BY <1>1, <2>1
  <2>6. Min(U) <= Min(T)
    BY <2>3, <2>5
  <2>7. Min(U) # i
    BY <2>4, <2>6
  <2>8. Min(U) \in T
    BY <1>1, <2>3, <2>7
  <2>9. Min(T) <= Min(U)
    BY <2>1, <2>8
  <2> QED
    BY <2>4, <2>6, <2>9
<1>11. ASSUME T # {} PROVE TextAt(seg, c, j, i) = TextAt(seg, c, j, i - 1)
  <2>1. TextAt(seg, c, j, i - 1) = seg[Min(T)]
    BY <1>11 DEF TextAt, T
  <2> QED
    BY <1>9, <1>10, <1>11, <2>1
<1>12. ASSUME T = {} PROVE TextAt(seg, c, j, i) = seg[i]
  <2>1. U = {i}
    BY <1>1, <1>12
  <2>2. U \in SUBSET Nat
    BY <2>1
  <2>3. Min(U) \in U
    BY <1>8, <2>2, MinOf
  <2>4. Min(U) = i
    BY <2>1, <2>3
  <2> QED
    BY <1>9, <2>4
<1>13. PendingAt(seg, c, i) = i
  <2>1. i \in TextsAt(seg, c, 1, i)
    <3>1. i \in 1..i
      OBVIOUS
    <3> QED
      BY <1>1, <3>1 DEF TextsAt
  <2>2. /\ PendingAt(seg, c, i) \in 0..SeenAt(c, i)
        /\ \A l \in TextsAt(seg, c, 1, i) : l <= PendingAt(seg, c, i)
    BY PendingIs
  <2> QED
    BY <1>1, <2>1, <2>2
<1> QED
  BY <1>7, <1>11, <1>12, <1>13 DEF p

Routes(A, T) == [agent : A, text : T]

IsOut(out, hub, agent, seg, c, i) ==
    /\ Len(out) = Len(hub) + SeenAt(c, i)
    /\ DOMAIN out = 1..Len(hub) + SeenAt(c, i)
    /\ \A p \in 1..Len(hub) + SeenAt(c, i) :
         out[p] = IF p <= Len(hub) THEN hub[p]
                  ELSE Route(agent[p - Len(hub)], TextAt(seg, c, p - Len(hub), i))

(* The routes so far form a sequence.                                       *)
LEMMA OutIs ==
    ASSUME NEW n \in Nat, NEW A, NEW T, <<>> \in T, NEW agent \in [1..n -> A],
           NEW seg \in [1..n -> T], NEW hub \in Seq(Routes(A, T)), NEW c \in Nat, NEW i \in 0..n
    PROVE  /\ OutAt(hub, agent, seg, c, i) \in Seq(Routes(A, T))
           /\ IsOut(OutAt(hub, agent, seg, c, i), hub, agent, seg, c, i)
<1> DEFINE h == Len(hub)
           k == SeenAt(c, i)
           out == OutAt(hub, agent, seg, c, i)
           R == Routes(A, T)
<1>1. h \in Nat /\ \A p \in 1..h : hub[p] \in R
  OBVIOUS
<1>2. k \in Nat /\ k <= n
  BY DEF SeenAt
<1>3. ASSUME NEW j \in 1..k PROVE Route(agent[j], TextAt(seg, c, j, i)) \in R
  <2> DEFINE S == TextsAt(seg, c, j, i)
  <2>1. j \in 1..n
    BY <1>2
  <2>2. S \in SUBSET Nat /\ \A l \in S : l \in 1..n
    BY <1>2 DEF TextsAt
  <2>3. CASE S = {}
    <3>1. TextAt(seg, c, j, i) = <<>>
      BY <2>3 DEF TextAt
    <3> QED
      BY <2>1, <3>1 DEF Route, Routes
  <2>4. CASE S # {}
    <3>1. TextAt(seg, c, j, i) = seg[Min(S)]
      BY <2>4 DEF TextAt
    <3> HIDE DEF S
    <3>2. Min(S) \in S
      BY <2>2, <2>4, MinOf
    <3>3. seg[Min(S)] \in T
      BY <2>2, <3>2
    <3> QED
      BY <2>1, <3>1, <3>3 DEF Route, Routes
  <2> QED
    BY <2>3, <2>4
<1> HIDE DEF R, k
<1>4. ASSUME NEW p \in 1..h + k
      PROVE  (IF p <= h THEN hub[p] ELSE Route(agent[p - h], TextAt(seg, c, p - h, i))) \in R
  <2>1. CASE p <= h
    <3>1. p \in 1..h
      BY <1>1, <1>2, <2>1
    <3> QED
      BY <1>1, <2>1, <3>1
  <2>2. CASE ~(p <= h)
    <3>1. p - h \in 1..k
      BY <1>1, <1>2, <2>2
    <3> QED
      BY <1>3, <2>2, <3>1
  <2> QED
    BY <2>1, <2>2
<1>5. out = [p \in 1..h + k |->
               IF p <= h THEN hub[p] ELSE Route(agent[p - h], TextAt(seg, c, p - h, i))]
  BY DEF OutAt, k
<1>6. h + k \in Nat
  BY <1>1, <1>2
<1> DEFINE N == h + k
<1>7. out \in [1..N -> R]
  BY <1>4, <1>5
<1>8. out \in Seq(R) /\ Len(out) = N
  <2> HIDE DEF N, out
  <2>1. N \in Nat
    BY <1>6 DEF N
  <2> QED
    BY <1>7, <2>1, SeqIs
<1>9. \A p \in 1..h + k :
        out[p] = IF p <= h THEN hub[p] ELSE Route(agent[p - h], TextAt(seg, c, p - h, i))
  BY <1>5
<1>10. DOMAIN out = 1..h + k
  BY <1>5
<1> QED
  BY <1>8, <1>9, <1>10, Zenon DEF R, k, IsOut

(* After i turns.                                                           *)
StateAt(hub, agent, seg, c, i) ==
    [out |-> OutAt(hub, agent, seg, c, i), pending |-> Len(hub) + PendingAt(seg, c, i)]

(* Without room for another mention a turn changes nothing.                 *)
LEMMA FullStep ==
    ASSUME NEW hub, NEW agent, NEW seg, NEW c \in Nat, NEW i \in Nat, i > c
    PROVE  /\ StateAt(hub, agent, seg, c, i) = StateAt(hub, agent, seg, c, i - 1)
           /\ SeenAt(c, i - 1) = c
<1>1. SeenAt(c, i) = c /\ SeenAt(c, i - 1) = c
  BY DEF SeenAt
<1>2. \A j : TextsAt(seg, c, j, i) = TextsAt(seg, c, j, i - 1)
  BY <1>1 DEF TextsAt
<1>3. ASSUME NEW j PROVE TextAt(seg, c, j, i) = TextAt(seg, c, j, i - 1)
  <2>1. TextsAt(seg, c, j, i) = TextsAt(seg, c, j, i - 1)
    BY <1>2
  <2> QED
    BY <2>1 DEF TextAt
<1>4. PendingAt(seg, c, i) = PendingAt(seg, c, i - 1)
  BY <1>2, Zenon DEF PendingAt
<1>5. OutAt(hub, agent, seg, c, i) = OutAt(hub, agent, seg, c, i - 1)
  BY <1>1, <1>3, Zenon DEF OutAt
<1> QED
  BY <1>1, <1>4, <1>5 DEF StateAt

(* What the loop works on: n mentions, the agents they name and the texts   *)
(* behind them, and the text of the hub.                                    *)
Setting(n, A, T, hub, agent, seg, c) ==
    /\ n \in Nat /\ <<>> \in T
    /\ agent \in [1..n -> A] /\ seg \in [1..n -> T]
    /\ hub \in Seq(Routes(A, T))
    /\ c \in Nat /\ Len(hub) + c = MaxRoutes

(* A turn of the loop leads from one such state to the next.                *)
LEMMA TurnStep ==
    ASSUME NEW n, NEW A, NEW T, NEW hub, NEW agent, NEW seg, NEW c,
           Setting(n, A, T, hub, agent, seg, c), NEW i \in 1..n,
           NEW s, NEW m, Segment(s, m, i) = seg[i], s[m[i]].name = agent[i]
    PROVE  Turn(s, m, StateAt(hub, agent, seg, c, i - 1), i) = StateAt(hub, agent, seg, c, i)
<1> USE DEF Setting
<1> DEFINE h == Len(hub)
           R == Routes(A, T)
           pend == PendingAt(seg, c, i - 1)
           out0 == OutAt(hub, agent, seg, c, i - 1)
           out1 == OutAt(hub, agent, seg, c, i)
           acc == StateAt(hub, agent, seg, c, i - 1)
           x == Route(agent[i], seg[i])
           out == Append(out0, x)
<1>1. h \in Nat /\ i \in Nat /\ 1 <= i /\ i - 1 \in 0..n /\ i \in 0..n
  OBVIOUS
<1>2. acc.out = out0 /\ acc.pending = h + pend /\ acc = [out |-> out0, pending |-> h + pend]
  BY DEF StateAt
<1>3. /\ out0 \in Seq(R) /\ Len(out0) = h + SeenAt(c, i - 1)
      /\ \A p \in 1..h + SeenAt(c, i - 1) :
           out0[p] = IF p <= h THEN hub[p] ELSE Route(agent[p - h], TextAt(seg, c, p - h, i - 1))
  <2>1. out0 \in Seq(R) /\ IsOut(out0, hub, agent, seg, c, i - 1)
    BY <1>1, OutIs
  <2> QED
    BY <2>1, Zenon DEF IsOut
<1>4. /\ out1 \in Seq(R) /\ Len(out1) = h + SeenAt(c, i) /\ DOMAIN out1 = 1..h + SeenAt(c, i)
      /\ \A p \in 1..h + SeenAt(c, i) :
           out1[p] = IF p <= h THEN hub[p] ELSE Route(agent[p - h], TextAt(seg, c, p - h, i))
  <2>1. out1 \in Seq(R) /\ IsOut(out1, hub, agent, seg, c, i)
    BY <1>1, OutIs
  <2> QED
    BY <2>1, Zenon DEF IsOut
<1>5. Turn(s, m, acc, i) =
        IF Len(out0) >= MaxRoutes THEN acc
        ELSE IF seg[i] = <<>> THEN [acc EXCEPT !.out = out]
        ELSE [out |-> Filled(out, h + pend, seg[i]), pending |-> Len(out)]
  <2> HIDE DEF out0, acc, pend
  <2> QED
    BY <1>2, Zenon DEF Turn
<1> HIDE DEF acc, out0, out1, R, h
<1>6. CASE i > c
  <2>1. SeenAt(c, i - 1) = c /\ StateAt(hub, agent, seg, c, i) = acc
    <3>1. /\ StateAt(hub, agent, seg, c, i) = StateAt(hub, agent, seg, c, i - 1)
          /\ SeenAt(c, i - 1) = c
      BY <1>1, <1>6, FullStep
    <3> QED
      BY <3>1, Zenon DEF acc
  <2>2. Len(out0) >= MaxRoutes
    BY <1>1, <1>3, <2>1, MentionsAssumption DEF h
  <2> QED
    BY <1>5, <2>1, <2>2, Zenon DEF acc
<1>7. CASE ~(i > c)
  <2>1. i <= c /\ SeenAt(c, i) = i /\ SeenAt(c, i - 1) = i - 1
    BY <1>1, <1>7 DEF SeenAt
  <2>2. ~(Len(out0) >= MaxRoutes)
    BY <1>1, <1>3, <2>1, MentionsAssumption DEF h
  <2>3. pend \in 0..i - 1
    BY <1>1, <2>1, PendingIs, SMTT(60)
  <2>4. x \in R
    BY DEF R, Route, Routes
  <2> HIDE DEF x, pend
  <2>5. /\ out \in Seq(R) /\ Len(out) = h + i /\ DOMAIN out = 1..h + i
        /\ out[h + i] = x
        /\ \A p \in 1..h + (i - 1) : out[p] = out0[p]
    <3>1. out \in Seq(R) /\ IsAppend(out, out0, x)
      BY <1>3, <2>4, AppendAt
    <3>2. Len(out0) = h + (i - 1) /\ Len(out0) + 1 = h + i
      BY <1>1, <1>3, <2>1
    <3> HIDE DEF out
    <3> QED
      BY <3>1, <3>2, Zenon DEF IsAppend
  <2> HIDE DEF out
  <2>6. CASE seg[i] = <<>>
    <3>1. ASSUME NEW j \in 1..i PROVE TextAt(seg, c, j, i) = TextAt(seg, c, j, i - 1)
      <4>1. TextsAt(seg, c, j, i) = TextsAt(seg, c, j, i - 1)
        BY <1>1, <2>1, <2>6, TextsStep DEF AddsText
      <4> QED
        BY <4>1 DEF TextAt
    <3>2. TextAt(seg, c, i, i - 1) = <<>>
      <4>1. i \in 1..i
        BY <1>1
      <4> QED
        BY <1>1, <2>1, <4>1, TextsStep DEF AddsText, TextAt
    <3>3. ASSUME NEW p \in 1..h + i PROVE out[p] = out1[p]
      <4>1. CASE p = h + i
        <5>1. p - h = i /\ ~(p <= h) /\ i \in 1..i
          BY <1>1, <4>1
        <5>2. out1[p] = Route(agent[i], TextAt(seg, c, i, i))
          BY <1>4, <2>1, <5>1
        <5> QED
          BY <2>5, <2>6, <3>1, <3>2, <4>1, <5>1, <5>2 DEF x
      <4>2. CASE p # h + i
        <5>1. p \in 1..h + (i - 1) /\ (~(p <= h) => p - h \in 1..i)
          BY <1>1, <4>2
        <5>2. out[p] = IF p <= h THEN hub[p] ELSE Route(agent[p - h], TextAt(seg, c, p - h, i - 1))
          BY <1>3, <2>1, <2>5, <5>1
        <5>3. out1[p] = IF p <= h THEN hub[p] ELSE Route(agent[p - h], TextAt(seg, c, p - h, i))
          BY <1>4, <2>1
        <5> QED
          BY <3>1, <5>1, <5>2, <5>3
      <4> QED
        BY <4>1, <4>2
    <3>4. out = out1
      BY <1>4, <2>1, <2>5, <3>3, SeqEqual
    <3>5. PendingAt(seg, c, i) = pend
      <4>1. 1 \in 1..i
        BY <1>1
      <4>2. TextsAt(seg, c, 1, i) = TextsAt(seg, c, 1, i - 1)
        BY <1>1, <2>1, <2>6, <4>1, TextsStep DEF AddsText
      <4> QED
        BY <4>2, Zenon DEF PendingAt, pend
    <3>6. Turn(s, m, acc, i) = [out |-> out1, pending |-> h + pend]
      <4>1. Turn(s, m, acc, i) = [acc EXCEPT !.out = out]
        BY <1>5, <2>2, <2>6, Zenon
      <4> QED
        BY <1>2, <3>4, <4>1
    <3> QED
      BY <3>5, <3>6 DEF StateAt, acc, h, out1
  <2>7. CASE seg[i] # <<>>
    <3> DEFINE fill == Filled(out, h + pend, seg[i])
    <3>1. fill = [p \in 1..h + i |-> IF p > h + pend THEN Route(out[p].agent, seg[i]) ELSE out[p]]
      BY <2>5, Zenon DEF Filled
    <3> HIDE DEF fill
    <3>2. PendingAt(seg, c, i) = i
      <4>1. i \in 1..i
        BY <1>1
      <4> QED
        BY <1>1, <2>1, <2>7, <4>1, TextStays
    <3>3. ASSUME NEW j \in 1..i
          PROVE  TextAt(seg, c, j, i) = IF j <= pend THEN TextAt(seg, c, j, i - 1) ELSE seg[i]
      BY <1>1, <2>1, <2>7, TextStays DEF pend
    <3>4. ASSUME NEW p \in 1..h + i PROVE fill[p] = out1[p]
      <4>1. fill[p] = IF p > h + pend THEN Route(out[p].agent, seg[i]) ELSE out[p]
        BY <3>1
      <4>2. out1[p] = IF p <= h THEN hub[p] ELSE Route(agent[p - h], TextAt(seg, c, p - h, i))
        BY <1>4, <2>1
      <4>3. CASE p <= h
        <5>1. ~(p > h + pend) /\ p \in 1..h + (i - 1)
          BY <1>1, <2>3, <4>3
        <5>2. out[p] = hub[p]
          BY <1>3, <2>1, <2>5, <4>3, <5>1
        <5> QED
          BY <4>1, <4>2, <4>3, <5>1, <5>2
      <4>4. CASE ~(p <= h)
        <5> DEFINE j == p - h
        <5>1. j \in 1..i /\ (p > h + pend <=> ~(j <= pend)) /\ (j # i => p \in 1..h + (i - 1))
              /\ (j = i => p = h + i)
          BY <1>1, <2>3, <4>4
        <5>2. out1[p] = Route(agent[j], TextAt(seg, c, j, i))
          BY <4>2, <4>4
        <5>3. out[p].agent = agent[j]
          <6>1. CASE j = i
            BY <2>5, <5>1, <6>1 DEF x, Route
          <6>2. CASE j # i
            <7>1. out[p] = Route(agent[j], TextAt(seg, c, j, i - 1))
              BY <1>3, <2>1, <2>5, <4>4, <5>1, <6>2
            <7> QED
              BY <7>1 DEF Route
          <6> QED
            BY <6>1, <6>2
        <5>4. CASE j <= pend
          <6>1. j # i
            BY <1>1, <2>3, <5>4
          <6>2. out[p] = Route(agent[j], TextAt(seg, c, j, i - 1))
            BY <1>3, <2>1, <2>5, <4>4, <5>1, <6>1
          <6> QED
            BY <3>3, <4>1, <5>1, <5>2, <5>4, <6>2
        <5>5. CASE ~(j <= pend)
          BY <3>3, <4>1, <5>1, <5>2, <5>3, <5>5
        <5> QED
          BY <5>4, <5>5
      <4> QED
        BY <4>3, <4>4
    <3>5. fill = out1
      <4>1. DOMAIN fill = 1..h + i /\ DOMAIN out1 = 1..h + i
        BY <1>4, <2>1, <3>1
      <4>2. out1 = [p \in 1..h + i |-> out1[p]]
        <5>1. out1 \in Seq(R)
          BY <1>4
        <5>2. out1 = [p \in DOMAIN out1 |-> out1[p]]
          BY <5>1
        <5> QED
          BY <4>1, <5>2, Zenon
      <4>3. fill = [p \in 1..h + i |-> fill[p]]
        BY <3>1
      <4>4. [p \in 1..h + i |-> fill[p]] = [p \in 1..h + i |-> out1[p]]
        BY <3>4
      <4> QED
        BY <4>2, <4>3, <4>4, Zenon
    <3>6. Turn(s, m, acc, i) = [out |-> out1, pending |-> h + i]
      BY <1>5, <2>2, <2>5, <2>7, <3>5, Zenon DEF fill
    <3> QED
      BY <3>2, <3>6 DEF StateAt, acc, h, out1
  <2> QED
    BY <2>6, <2>7
<1> QED
  BY <1>6, <1>7

(* The text before the first mention, if there is one.                      *)
LEMMA HubIs ==
    ASSUME NEW s, NEW m, NEW A, NEW T, Hub \in A, SetText(s, Positions(1, m[1] - 1)) \in T
    PROVE  BeforeFirst(s, m) \in Seq(Routes(A, T)) /\ Len(BeforeFirst(s, m)) \in {0, 1}
<1> DEFINE text == SetText(s, Positions(1, m[1] - 1))
           x == Route(Hub, text)
<1>1. x \in Routes(A, T)
  BY DEF Route, Routes
<1>2. BeforeFirst(s, m) = IF text = <<>> THEN <<>> ELSE <<x>>
  BY DEF BeforeFirst
<1> HIDE DEF text, x
<1>3. <<>> \in Seq(Routes(A, T)) /\ Len(<<>>) = 0
  OBVIOUS
<1>4. <<x>> \in Seq(Routes(A, T)) /\ Len(<<x>>) = 1
  BY <1>1
<1> QED
  BY <1>2, <1>3, <1>4, Zenon

(* The loop of parse_mentions ends in the state said at once.               *)
LEMMA TurnsAre ==
    ASSUME NEW n, NEW A, NEW T, NEW hub, NEW agent, NEW seg, NEW c,
           Setting(n, A, T, hub, agent, seg, c),
           NEW s, NEW m, Len(m) = n, BeforeFirst(s, m) = hub,
           \A i \in 1..n : Segment(s, m, i) = seg[i] /\ s[m[i]].name = agent[i]
    PROVE  Turns(s, m) = StateAt(hub, agent, seg, c, n)
<1> DEFINE st(i) == StateAt(hub, agent, seg, c, i)
           first == [out |-> hub, pending |-> Len(hub)]
           Loop(f) == f = [i \in 0..n |-> IF i = 0 THEN first ELSE Turn(s, m, f[i - 1], i)]
           acc == CHOOSE f : Loop(f)
           F == [i \in 0..n |-> st(i)]
<1>1. ASSUME NEW i \in 1..n PROVE Turn(s, m, st(i - 1), i) = st(i)
  <2>1. Segment(s, m, i) = seg[i] /\ s[m[i]].name = agent[i]
    OBVIOUS
  <2> QED
    BY <2>1, TurnStep
<1> USE DEF Setting
<1>2. st(0) = first
  <2>1. SeenAt(c, 0) = 0 /\ Len(hub) \in Nat /\ Len(hub) + 0 = Len(hub)
    BY DEF SeenAt
  <2>2. TextsAt(seg, c, 1, 0) = {}
    BY <2>1 DEF TextsAt
  <2>3. PendingAt(seg, c, 0) = 0
    <3>1. 0 \in Nat
      OBVIOUS
    <3>2. PendingAt(seg, c, 0) = 0 \/ PendingAt(seg, c, 0) \in TextsAt(seg, c, 1, 0)
      BY <3>1, PendingIs
    <3> QED
      BY <2>2, <3>2
  <2>4. OutAt(hub, agent, seg, c, 0) = hub
    <3>1. OutAt(hub, agent, seg, c, 0) =
            [p \in 1..Len(hub) |->
               IF p <= Len(hub) THEN hub[p]
               ELSE Route(agent[p - Len(hub)], TextAt(seg, c, p - Len(hub), 0))]
      BY <2>1, Zenon DEF OutAt
    <3>2. \A p \in 1..Len(hub) : p <= Len(hub)
      BY <2>1
    <3>3. OutAt(hub, agent, seg, c, 0) = [p \in 1..Len(hub) |-> hub[p]]
      BY <3>1, <3>2
    <3>4. hub = [p \in 1..Len(hub) |-> hub[p]]
      OBVIOUS
    <3> QED
      BY <3>3, <3>4, Zenon
  <2> QED
    BY <2>1, <2>3, <2>4 DEF StateAt
<1> HIDE DEF st, first
<1>3. Loop(F)
  <2>1. ASSUME NEW i \in 0..n PROVE F[i] = IF i = 0 THEN first ELSE Turn(s, m, F[i - 1], i)
    <3>1. CASE i = 0
      BY <1>2, <3>1
    <3>2. CASE i # 0
      <4>1. i \in 1..n /\ i - 1 \in 0..n
        BY <3>2
      <4>2. F[i] = st(i) /\ F[i - 1] = st(i - 1)
        BY <4>1
      <4> QED
        BY <1>1, <3>2, <4>1, <4>2
    <3> QED
      BY <3>1, <3>2
  <2>2. F = [i \in 0..n |-> F[i]]
    OBVIOUS
  <2> HIDE DEF F
  <2>3. [i \in 0..n |-> F[i]] = [i \in 0..n |-> IF i = 0 THEN first ELSE Turn(s, m, F[i - 1], i)]
    BY <2>1, Zenon
  <2> QED
    BY <2>2, <2>3
<1> HIDE DEF Loop
<1>4. Loop(acc)
  BY <1>3
<1>5. Turns(s, m) = acc[n]
  BY Zenon DEF Turns, acc, Loop, first
<1> HIDE DEF acc
<1>6. \A i \in 0..n : acc[i] = IF i = 0 THEN first ELSE Turn(s, m, acc[i - 1], i)
  BY <1>4, Zenon DEF Loop
<1> DEFINE G == {i \in 0..n : acc[i] = st(i)}
<1>7. 0 \in G
  BY <1>2, <1>6
<1>8. ASSUME NEW i \in 1..n, i - 1 \in G PROVE i \in G
  <2>1. i \in 0..n /\ i # 0 /\ acc[i - 1] = st(i - 1)
    BY <1>8
  <2>2. acc[i] = Turn(s, m, st(i - 1), i)
    BY <1>6, <2>1
  <2> QED
    BY <1>1, <2>1, <2>2
<1>9. n \in G
  <2>1. n \in 0..n
    OBVIOUS
  <2> HIDE DEF G
  <2>2. 0..n \subseteq G
    BY <1>7, <1>8, UpTo
  <2> QED
    BY <2>1, <2>2
<1> QED
  BY <1>5, <1>9 DEF st

(* A word is part of any text made of positions that include it.            *)
LEMMA WordKept ==
    ASSUME NEW s, NEW positions \in Seq(Nat), NEW k \in 1..Len(positions),
           s[positions[k]].kind = "word"
    PROVE  positions[k] \in ToSet(SetText(s, positions)) /\ SetText(s, positions) # <<>>
<1> DEFINE solid == {l \in DOMAIN positions : s[positions[l]].kind # "punct"}
           b == Min(solid)
           n == Len(positions)
           text == SubSeq(positions, b, n)
<1>1. n \in Nat /\ DOMAIN positions = 1..n
  OBVIOUS
<1>2. solid \in SUBSET Nat /\ k \in solid /\ \A l \in solid : l \in 1..n
  BY <1>1
<1>3. SetText(s, positions) = text
  BY <1>2 DEF SetText
<1> HIDE DEF solid, n
<1>4. b \in solid /\ \A l \in solid : b <= l
  BY <1>2, MinOf
<1> HIDE DEF b
<1>5. b \in 1..n /\ b <= k /\ k \in 1..n
  BY <1>2, <1>4
<1>6. text \in Seq(Nat) /\ Len(text) = n - b + 1 /\ \A l \in 1..n - b + 1 : text[l] = positions[b + l - 1]
  BY <1>1, <1>5, SubSeqProperties DEF n
<1> DEFINE l == k - b + 1
<1>7. l \in 1..n - b + 1 /\ b + l - 1 = k /\ l \in Nat
  BY <1>1, <1>5
<1> HIDE DEF l, text
<1>8. text[l] = positions[k] /\ l \in DOMAIN text
  BY <1>6, <1>7
<1>9. positions[k] \in ToSet(text)
  BY <1>8 DEF ToSet
<1>10. text # <<>>
  BY <1>6, <1>7
<1> QED
  BY <1>3, <1>9, <1>10

(* The positions from one number to another.                                *)
ArePositions(f, from, to) ==
    /\ f \in Seq(Nat) /\ Len(f) = to + 1 - from
    /\ \A k \in 1..to + 1 - from : f[k] = from + k - 1

(* Positions lists them, each once.                                         *)
LEMMA PositionsAre ==
    ASSUME NEW from \in Nat, NEW to \in Nat, from <= to + 1
    PROVE  ArePositions(Positions(from, to), from, to)
<1> DEFINE n == to + 1 - from
           f == Positions(from, to)
<1>1. n \in Nat
  OBVIOUS
<1>2. f = [k \in 1..n |-> from + k - 1]
  BY DEF Positions
<1> HIDE DEF n, f
<1>3. f \in [1..n -> Nat] /\ \A k \in 1..n : f[k] = from + k - 1
  BY <1>1, <1>2
<1>4. f \in Seq(Nat) /\ Len(f) = n
  BY <1>1, <1>3, SeqIs
<1> QED
  BY <1>3, <1>4, Zenon DEF f, n, ArePositions

(* The mentions of a message are positions in it, where a mention stands.   *)
LEMMA MentionsAre ==
    ASSUME NEW s \in Seq(Tokens)
    PROVE  /\ MentionsOf(s) \in Seq(1..Len(s))
           /\ \A k \in DOMAIN MentionsOf(s) : IsMention(s, MentionsOf(s)[k])
<1> DEFINE n == Len(s)
           S == {i \in DOMAIN s : IsMention(s, i)}
           at == Listed(S)
           b == Min({MaxMentions, Len(at)})
           m == SubSeq(at, 1, b)
<1>1. n \in Nat /\ S \subseteq 1..n
  OBVIOUS
<1>2. S \in SUBSET Nat /\ IsFiniteSet(S)
  <2>1. IsFiniteSet(1..n)
    BY <1>1, FS_Interval
  <2> QED
    BY <1>1, <2>1, FS_Subset
<1>3. MentionsOf(s) = m
  BY Zenon DEF MentionsOf
<1>4. \A i \in S : IsMention(s, i)
  OBVIOUS
<1> HIDE DEF S, n
<1>5. Cardinality(S) \in Nat /\ at \in [1..Cardinality(S) -> S]
  BY <1>2, ListedInOrder
<1> HIDE DEF at
<1>6. at \in Seq(S) /\ Len(at) = Cardinality(S)
  BY <1>5, SeqIs
<1>7. b \in Nat /\ b <= Len(at)
  BY <1>5, <1>6, MinOfTwo, MentionsAssumption
<1> HIDE DEF b
<1>8. \A i \in 1..b : at[i] \in S
  BY <1>5, <1>6, <1>7
<1>9. 1 \in Int /\ b \in Int
  BY <1>7
<1>10. m \in Seq(S)
  BY <1>8, <1>9, SubSeqProperties, SMTT(30)
<1> HIDE DEF m
<1>11. \A k \in DOMAIN m : m[k] \in S
  BY <1>10
<1>12. m \in Seq(1..n)
  <2> DEFINE X == 1..n
  <2>1. Len(m) \in Nat /\ m \in [1..Len(m) -> S]
    BY <1>10
  <2>2. S \subseteq X
    BY <1>1
  <2> HIDE DEF X
  <2>3. m \in [1..Len(m) -> X]
    BY <2>1, <2>2
  <2>4. m \in Seq(X)
    BY <2>1, <2>3, SeqIs
  <2> QED
    BY <2>4 DEF X
<1> QED
  BY <1>3, <1>4, <1>11, <1>12 DEF n

(* The loop of parse_mentions, for some mentions of a message.              *)
EndsAt(s, m, n, hub) ==
    \E A, T, agent, seg, c :
      /\ Setting(n, A, T, hub, agent, seg, c)
      /\ Turns(s, m) = StateAt(hub, agent, seg, c, n)
      /\ \A i \in 1..n : Segment(s, m, i) = seg[i] /\ s[m[i]].name = agent[i]

(* Its routes are those said at once, for some room, agents and texts.      *)
LEMMA TurnsEnd ==
    ASSUME NEW s, NEW m \in Seq(Nat)
    PROVE  EndsAt(s, m, Len(m), BeforeFirst(s, m))
<1> DEFINE n == Len(m)
           hub == BeforeFirst(s, m)
           agent == [i \in 1..n |-> s[m[i]].name]
           seg == [i \in 1..n |-> Segment(s, m, i)]
           c == MaxRoutes - Len(hub)
           first == SetText(s, Positions(1, m[1] - 1))
           A == {agent[i] : i \in 1..n} \cup {Hub}
           T == {seg[i] : i \in 1..n} \cup {first} \cup {<<>>}
<1>1. n \in Nat
  OBVIOUS
<1>2. \A i \in 1..n : Segment(s, m, i) = seg[i] /\ s[m[i]].name = agent[i]
  OBVIOUS
<1>3. Hub \in A /\ agent \in [1..n -> A]
  BY Zenon
<1>4. first \in T
  BY Zenon
<1>5. <<>> \in T
  BY Zenon
<1>6. seg \in [1..n -> T]
  BY Zenon
<1> HIDE DEF A, T, seg, agent, n, first
<1>7. hub \in Seq(Routes(A, T)) /\ Len(hub) \in {0, 1}
  BY <1>3, <1>4, HubIs DEF first
<1> HIDE DEF hub
<1>8. c \in Nat /\ Len(hub) + c = MaxRoutes
  <2> DEFINE h == Len(hub)
  <2>1. h = 0 \/ h = 1
    BY <1>7, Zenon
  <2> HIDE DEF h
  <2>2. MaxRoutes - h \in Nat /\ h + (MaxRoutes - h) = MaxRoutes
    BY <2>1, MentionsAssumption
  <2> QED
    BY <2>2 DEF h
<1> HIDE DEF c
<1>9. Setting(n, A, T, hub, agent, seg, c)
  BY <1>1, <1>3, <1>5, <1>6, <1>7, <1>8, Zenon DEF Setting
<1>10. Turns(s, m) = StateAt(hub, agent, seg, c, n)
  <2>1. Len(m) = n /\ BeforeFirst(s, m) = hub
    BY DEF n, hub
  <2> QED
    BY <1>2, <1>9, <2>1, TurnsAre
<1>11. n = Len(m) /\ hub = BeforeFirst(s, m)
  BY DEF n, hub
<1>12. EndsAt(s, m, n, hub)
  <2> SUFFICES \E AA, TT, a, g, d :
                 /\ Setting(n, AA, TT, hub, a, g, d)
                 /\ Turns(s, m) = StateAt(hub, a, g, d, n)
                 /\ \A i \in 1..n : Segment(s, m, i) = g[i] /\ s[m[i]].name = a[i]
    BY Zenon DEF EndsAt
  <2> WITNESS A, T, agent, seg, c
  <2> QED
    BY <1>2, <1>9, <1>10, Zenon
<1> QED
  BY <1>11, <1>12

(* Whom parse_mentions serves, and in which order.                          *)
Served(s, m) == Listed({i \in 1..Counted(s, m) : TextsAfter(s, m, i) # {}})

(* The mentions that have a text behind them come before those without.     *)
LEMMA ServedAre ==
    ASSUME NEW A, NEW T, NEW agent, NEW seg, NEW c, NEW s, NEW m,
           Setting(Len(m), A, T, BeforeFirst(s, m), agent, seg, c),
           \A i \in 1..Len(m) : Segment(s, m, i) = seg[i]
    PROVE  /\ PendingAt(seg, c, Len(m)) \in Nat
           /\ DOMAIN Served(s, m) = 1..PendingAt(seg, c, Len(m))
           /\ \A k \in 1..PendingAt(seg, c, Len(m)) :
                /\ Served(s, m)[k] = k
                /\ k \in 1..Len(m)
                /\ Segment(s, m, Min(TextsAfter(s, m, k))) = TextAt(seg, c, k, Len(m))
<1> USE DEF Setting
<1> DEFINE n == Len(m)
           P == PendingAt(seg, c, n)
           z == 0
<1>1. Counted(s, m) = SeenAt(c, n)
  <2>1. MaxRoutes - Len(BeforeFirst(s, m)) = c
    BY MentionsAssumption
  <2>2. Min({n, c}) = IF n <= c THEN n ELSE c
    BY MinOfTwo
  <2> QED
    BY <2>1, <2>2 DEF Counted, SeenAt
<1>2. SeenAt(c, n) \in Nat /\ n \in Nat /\ SeenAt(c, n) <= n
  BY DEF SeenAt
<1>3. P \in 0..SeenAt(c, n)
  BY PendingIs
<1>4. ASSUME NEW i \in 1..SeenAt(c, n) PROVE TextsAfter(s, m, i) = TextsAt(seg, c, i, n)
  <2>1. \A j \in i..SeenAt(c, n) : j \in 1..n
    BY <1>2
  <2>2. \A j \in i..SeenAt(c, n) : Segment(s, m, j) # <<>> <=> seg[j] # <<>>
    BY <2>1, Zenon
  <2> QED
    BY <1>1, <2>2, Zenon DEF TextsAfter, TextsAt
<1>5. ASSUME NEW i \in 1..SeenAt(c, n) PROVE TextsAfter(s, m, i) # {} <=> i <= P
  <2>1. TextsAt(seg, c, i, n) # {} <=> i <= P
    BY ServedIs
  <2> QED
    BY <1>4, <2>1, Zenon
<1> HIDE DEF P, n, Setting
<1>6. {i \in 1..Counted(s, m) : TextsAfter(s, m, i) # {}} = z + 1..z + P
  <2>1. \A i : i \in z + 1..z + P <=> i \in 1..SeenAt(c, n) /\ i <= P
    BY <1>2, <1>3
  <2> HIDE DEF z
  <2> QED
    BY <1>1, <1>5, <2>1, Zenon
<1>7. z \in Nat /\ P \in Nat
  BY <1>2, <1>3
<1> HIDE DEF z
<1>8. Served(s, m) = [k \in 1..P |-> z + k]
  BY <1>6, <1>7, ListedRun DEF Served
<1>9. DOMAIN Served(s, m) = 1..P /\ \A k \in 1..P : Served(s, m)[k] = k
  BY <1>8 DEF z
<1>10. ASSUME NEW k \in 1..P PROVE Segment(s, m, Min(TextsAfter(s, m, k))) = TextAt(seg, c, k, n)
  <2> DEFINE S == TextsAt(seg, c, k, n)
             l == Min(S)
  <2>1. k \in 1..SeenAt(c, n) /\ k <= P /\ k \in Nat
    BY <1>2, <1>3
  <2>2. TextsAfter(s, m, k) = S /\ S # {}
    BY <1>4, <1>5, <2>1, Zenon
  <2>3. S \in SUBSET Nat /\ \A j \in S : j \in 1..n
    BY <1>2, <2>1 DEF TextsAt
  <2>4. TextAt(seg, c, k, n) = seg[l]
    BY <2>2, Zenon DEF TextAt
  <2> HIDE DEF S
  <2>5. l \in S
    BY <2>2, <2>3, MinOf
  <2>6. l \in 1..n
    BY <2>3, <2>5
  <2> HIDE DEF l
  <2>7. Segment(s, m, l) = seg[l]
    BY <2>6, Zenon DEF n
  <2> QED
    BY <2>2, <2>4, <2>7, Zenon DEF l
<1>11. \A k \in 1..P : k \in 1..n
  BY <1>2, <1>3 DEF n, Setting
<1> QED
  BY <1>7, <1>9, <1>10, <1>11, Zenon DEF P, n

(* What the loop hands out: the text before the first mention, then to each *)
(* mention that has one the nearest text behind it.                         *)
LEMMA RoutedByTurns ==
    ASSUME NEW s, NEW m \in Seq(Nat)
    PROVE  SubSeq(Turns(s, m).out, 1, Turns(s, m).pending) =
             BeforeFirst(s, m) \o [k \in DOMAIN Served(s, m) |->
               Route(s[m[Served(s, m)[k]]].name,
                     Segment(s, m, Min(TextsAfter(s, m, Served(s, m)[k]))))]
<1> DEFINE n == Len(m)
           hub == BeforeFirst(s, m)
           h == Len(hub)
<1>1. PICK A, T, agent, seg, c :
        /\ Setting(n, A, T, hub, agent, seg, c)
        /\ Turns(s, m) = StateAt(hub, agent, seg, c, n)
        /\ \A i \in 1..n : Segment(s, m, i) = seg[i] /\ s[m[i]].name = agent[i]
  <2> HIDE DEF n, hub
  <2>1. EndsAt(s, m, n, hub)
    BY TurnsEnd DEF n, hub
  <2> QED
    BY <2>1, Zenon DEF EndsAt
<1> DEFINE P == PendingAt(seg, c, n)
           R == Routes(A, T)
           out == OutAt(hub, agent, seg, c, n)
           text(k) == TextAt(seg, c, k, n)
           given == [k \in 1..P |-> Route(agent[k], text(k))]
           sub == SubSeq(out, 1, h + P)
<1>2. /\ P \in Nat /\ DOMAIN Served(s, m) = 1..P
      /\ \A k \in 1..P : /\ Served(s, m)[k] = k /\ k \in 1..n
                         /\ Segment(s, m, Min(TextsAfter(s, m, k))) = text(k)
  <2>1. \A i \in 1..Len(m) : Segment(s, m, i) = seg[i]
    BY <1>1, Zenon
  <2>2. Setting(Len(m), A, T, BeforeFirst(s, m), agent, seg, c)
    BY <1>1, Zenon
  <2> QED
    BY <2>1, <2>2, ServedAre
<1>3. /\ n \in Nat /\ c \in Nat /\ hub \in Seq(R) /\ h \in Nat /\ n \in 0..n
      /\ SeenAt(c, n) \in Nat /\ P <= SeenAt(c, n)
  <2>1. n \in Nat /\ c \in Nat /\ hub \in Seq(R)
    BY <1>1, Zenon DEF Setting
  <2>2. P \in 0..SeenAt(c, n) /\ SeenAt(c, n) \in Nat
    BY <2>1, PendingIs
  <2> QED
    BY <2>1, <2>2
<1>4. out \in Seq(R) /\ IsOut(out, hub, agent, seg, c, n)
  <2>1. <<>> \in T /\ agent \in [1..n -> A] /\ seg \in [1..n -> T]
    BY <1>1, Zenon DEF Setting
  <2> QED
    BY <1>3, <2>1, OutIs
<1>5. Turns(s, m).out = out /\ Turns(s, m).pending = h + P
  <2> HIDE DEF out, P, h, hub
  <2>1. Turns(s, m) = [out |-> out, pending |-> h + P]
    BY <1>1, Zenon DEF StateAt, out, P, h
  <2> QED
    BY <2>1
<1>6. [k \in DOMAIN Served(s, m) |->
         Route(s[m[Served(s, m)[k]]].name,
               Segment(s, m, Min(TextsAfter(s, m, Served(s, m)[k]))))] = given
  <2>1. ASSUME NEW k \in 1..P
        PROVE  Route(s[m[Served(s, m)[k]]].name,
                     Segment(s, m, Min(TextsAfter(s, m, Served(s, m)[k])))) =
               Route(agent[k], text(k))
    <3>1. /\ Served(s, m)[k] = k /\ k \in 1..n
          /\ Segment(s, m, Min(TextsAfter(s, m, k))) = text(k)
      BY <1>2, Zenon
    <3>2. s[m[k]].name = agent[k]
      BY <1>1, <3>1, Zenon
    <3> QED
      BY <3>1, <3>2, Zenon
  <2> QED
    BY <1>2, <2>1, Zenon
<1> HIDE DEF P, R, out, h, hub, text
<1>7. /\ \A p \in 1..h : p \in 1..h + P /\ p \in 1..h + SeenAt(c, n) /\ p <= h
      /\ \A k \in 1..P : /\ h + k \in 1..h + P /\ h + k \in 1..h + SeenAt(c, n)
                         /\ ~(h + k <= h) /\ (h + k) - h = k
      /\ \A p \in 1..h + P : p \in 1..Len(out)
  <2>1. Len(out) = h + SeenAt(c, n)
    BY <1>4, Zenon DEF IsOut, h
  <2> QED
    BY <1>2, <1>3, <2>1
<1>8. \A p \in 1..h : out[p] = hub[p]
  BY <1>4, <1>7, Zenon DEF IsOut, h
<1>9. ASSUME NEW k \in 1..P PROVE out[h + k] = Route(agent[k], text(k))
  <2> DEFINE p == h + k
  <2>1. p \in 1..h + SeenAt(c, n) /\ ~(p <= h) /\ p - h = k
    BY <1>7, Zenon
  <2> HIDE DEF p
  <2>2. out[p] = IF p <= h THEN hub[p] ELSE Route(agent[p - h], text(p - h))
    BY <1>4, <2>1, Zenon DEF IsOut, h, text
  <2>3. out[p] = Route(agent[k], text(k))
    BY <2>1, <2>2, Zenon
  <2> QED
    BY <2>3 DEF p
<1>10. sub \in Seq(R) /\ Len(sub) = h + P /\ \A p \in 1..h + P : sub[p] = out[p]
  <2> DEFINE N == h + P
  <2>1. N \in Nat
    BY <1>2, <1>3
  <2>2. \A p \in 1..N : out[p] \in R
    BY <1>4, <1>7
  <2> HIDE DEF N
  <2>3. /\ SubSeq(out, 1, N) \in Seq(R)
        /\ Len(SubSeq(out, 1, N)) = IF 1 <= N THEN N - 1 + 1 ELSE 0
        /\ \A i \in 1..N - 1 + 1 : SubSeq(out, 1, N)[i] = out[1 + i - 1]
    BY <2>1, <2>2, SubSeqProperties
  <2>4. N - 1 + 1 = N /\ \A i \in 1..N : 1 + i - 1 = i
    BY <2>1
  <2>5. (IF 1 <= N THEN N - 1 + 1 ELSE 0) = N
    BY <2>1
  <2> QED
    BY <2>3, <2>4, <2>5, Zenon DEF N
<1>11. given \in Seq(R) /\ Len(given) = P /\ \A k \in 1..P : given[k] = Route(agent[k], text(k))
  <2>1. \A k \in 1..P : given[k] = Route(agent[k], text(k))
    OBVIOUS
  <2>2. \A k \in 1..P : Route(agent[k], text(k)) \in R
    <3> SUFFICES ASSUME NEW k \in 1..P PROVE out[h + k] \in R
      BY <1>9, Zenon
    <3>1. h + k \in 1..Len(out)
      BY <1>7, Zenon
    <3> QED
      BY <1>4, <3>1
  <2>3. given \in [1..P -> R]
    BY <2>2, Zenon
  <2> HIDE DEF given
  <2> QED
    BY <1>2, <2>1, <2>3, SeqIs
<1> HIDE DEF given, sub
<1>12. sub = hub \o given
  <2>1. Len(sub) = Len(hub) + Len(given)
    BY <1>10, <1>11, Zenon DEF h
  <2>2. \A i \in 1..Len(hub) : sub[i] = hub[i]
    BY <1>7, <1>8, <1>10, Zenon DEF h
  <2>3. \A i \in 1..Len(given) : sub[Len(hub) + i] = given[i]
    BY <1>7, <1>9, <1>10, <1>11, Zenon DEF h
  <2> QED
    BY <1>3, <1>10, <1>11, <2>1, <2>2, <2>3, ConcatIs
<1> QED
  BY <1>5, <1>6, <1>12, Zenon DEF sub, hub

(* The whole message keeps every word, and so does the message without one  *)
(* of its mentions.                                                         *)
LEMMA WholeKept ==
    ASSUME NEW s, NEW n \in Nat, NEW w \in 1..n, s[w].kind = "word"
    PROVE  w \in ToSet(SetText(s, Positions(1, n)))
<1> DEFINE f == Positions(1, n)
           one == 1
<1>1. one \in Nat /\ one <= n + 1 /\ n + 1 - one = n /\ one + w - 1 = w
  OBVIOUS
<1>2. f = Positions(one, n)
  OBVIOUS
<1> HIDE DEF one, f
<1>3. f \in Seq(Nat) /\ Len(f) = n /\ f[w] = w
  <2>1. ArePositions(f, one, n)
    BY <1>1, <1>2, PositionsAre
  <2> QED
    BY <1>1, <2>1, Zenon DEF ArePositions
<1>4. w \in 1..Len(f) /\ s[f[w]].kind = "word"
  BY <1>3, Zenon
<1>5. f[w] \in ToSet(SetText(s, f))
  BY <1>3, <1>4, WordKept
<1> QED
  BY <1>3, <1>5 DEF f

(* A word that is not the mention taken out is still there.                 *)
LEMMA RestKept ==
    ASSUME NEW s, NEW n \in Nat, NEW w \in 1..n, s[w].kind = "word", NEW i \in 1..n, w # i
    PROVE  /\ w \in ToSet(SetText(s, Positions(1, i - 1) \o Positions(i + 1, n)))
           /\ SetText(s, Positions(1, i - 1) \o Positions(i + 1, n)) # <<>>
<1> DEFINE a == Positions(1, i - 1)
           b == Positions(i + 1, n)
           f == a \o b
           one == 1
           p == i - 1
           q == i + 1
<1>1. /\ one \in Nat /\ p \in Nat /\ q \in Nat /\ one <= p + 1 /\ q <= n + 1
      /\ p + 1 - one = p /\ n + 1 - q \in Nat /\ p = i - 1 /\ q = i + 1 /\ one = 1
  OBVIOUS
<1>2. a = Positions(one, p) /\ b = Positions(q, n)
  OBVIOUS
<1> HIDE DEF one, p, q, a, b
<1>3. a \in Seq(Nat) /\ Len(a) = p /\ \A k \in 1..p : a[k] = one + k - 1
  <2>1. ArePositions(a, one, p)
    BY <1>1, <1>2, PositionsAre
  <2> QED
    BY <1>1, <2>1, Zenon DEF ArePositions
<1>4. b \in Seq(Nat) /\ Len(b) = n + 1 - q /\ \A k \in 1..n + 1 - q : b[k] = q + k - 1
  <2>1. ArePositions(b, q, n)
    BY <1>1, <1>2, PositionsAre
  <2> QED
    BY <2>1, Zenon DEF ArePositions
<1>5. IsConcat(f, a, b) /\ f \in Seq(Nat)
  BY <1>3, <1>4, ConcatAt
<1> HIDE DEF f
<1>6. \E k \in 1..Len(f) : f[k] = w
  <2>1. CASE w < i
    <3>1. w \in 1..p /\ one + w - 1 = w /\ w \in 1..p + (n + 1 - q)
      BY <1>1, <2>1
    <3>2. a[w] = w
      BY <1>3, <3>1
    <3>3. f[w] = a[w] /\ w \in 1..Len(f)
      BY <1>3, <1>4, <1>5, <3>1 DEF IsConcat
    <3> QED
      BY <3>2, <3>3
  <2>2. CASE ~(w < i)
    <3> DEFINE k == w - i
    <3>1. k \in 1..n + 1 - q /\ q + k - 1 = w /\ p + k \in 1..p + (n + 1 - q)
      BY <1>1, <2>2
    <3> HIDE DEF k
    <3>2. b[k] = w
      BY <1>4, <3>1
    <3>3. f[p + k] = b[k] /\ p + k \in 1..Len(f)
      BY <1>3, <1>4, <1>5, <3>1 DEF IsConcat
    <3> QED
      BY <3>2, <3>3
  <2> QED
    BY <2>1, <2>2
<1>7. PICK k \in 1..Len(f) : f[k] = w
  BY <1>6
<1>8. s[f[k]].kind = "word"
  BY <1>7, Zenon
<1>9. f[k] \in ToSet(SetText(s, f)) /\ SetText(s, f) # <<>>
  BY <1>5, <1>8, WordKept
<1> QED
  BY <1>7, <1>9, Zenon DEF f, a, b

(* What MentionsRouted says of a message and its routes.                    *)
HasAll(s, m) == \E k \in DOMAIN m : s[m[k]].name = All
WordsReach(s, r, agent) ==
    \A i \in DOMAIN s :
      s[i].kind = "word" =>
        Len(r) = 1 /\ r[1].agent = agent /\ i \in ToSet(r[1].text)

(* A message without a mention, and one with an @all, reach their readers   *)
(* with every word.                                                         *)
LEMMA WordsReachHub ==
    ASSUME NEW s \in Seq(Tokens)
    PROVE  WordsReach(s, <<Route(Hub, SetText(s, Positions(1, Len(s))))>>, Hub)
<1> SUFFICES ASSUME NEW w \in DOMAIN s, s[w].kind = "word"
             PROVE  LET r == <<Route(Hub, SetText(s, Positions(1, Len(s))))>>
                    IN  Len(r) = 1 /\ r[1].agent = Hub /\ w \in ToSet(r[1].text)
  BY Zenon DEF WordsReach
<1> DEFINE text == SetText(s, Positions(1, Len(s)))
<1>1. Len(s) \in Nat /\ w \in 1..Len(s)
  OBVIOUS
<1>2. w \in ToSet(text)
  BY <1>1, WholeKept
<1> HIDE DEF text
<1> QED
  BY <1>2 DEF Route, text

(* With an @all, they reach every agent.                                    *)
LEMMA WordsReachAll ==
    ASSUME NEW s \in Seq(Tokens), NEW i \in 1..Len(s), s[i].kind # "word"
    PROVE  WordsReach(s, ToAll(s, i), All)
<1> SUFFICES ASSUME NEW w \in DOMAIN s, s[w].kind = "word"
             PROVE  LET r == ToAll(s, i)
                    IN  Len(r) = 1 /\ r[1].agent = All /\ w \in ToSet(r[1].text)
  BY Zenon DEF WordsReach
<1> DEFINE clean == SetText(s, Positions(1, i - 1) \o Positions(i + 1, Len(s)))
<1>1. Len(s) \in Nat /\ w \in 1..Len(s) /\ w # i
  OBVIOUS
<1>2. w \in ToSet(clean) /\ clean # <<>>
  BY <1>1, RestKept
<1>3. ToAll(s, i) = <<Route(All, clean)>>
  BY <1>2, Zenon DEF ToAll
<1> HIDE DEF clean
<1> QED
  BY <1>2, <1>3 DEF Route

(* parse_mentions routes every message as its comments promise.             *)
LEMMA ParseRoutes ==
    ASSUME NEW s \in Seq(Tokens)
    PROVE  LET m == MentionsOf(s)
           IN  IF m # <<>> /\ ~HasAll(s, m)
               THEN ParseMentions(s) = BeforeFirst(s, m) \o [k \in DOMAIN Served(s, m) |->
                      Route(s[m[Served(s, m)[k]]].name,
                            Segment(s, m, Min(TextsAfter(s, m, Served(s, m)[k]))))]
               ELSE WordsReach(s, ParseMentions(s), IF HasAll(s, m) THEN All ELSE Hub)
<1> DEFINE m == MentionsOf(s)
           alls == {k \in DOMAIN m : s[m[k]].name = All}
<1>1. m \in Seq(1..Len(s)) /\ \A k \in DOMAIN m : IsMention(s, m[k])
  BY MentionsAre
<1>2. HasAll(s, m) <=> alls # {}
  BY Zenon DEF HasAll
<1>3. ParseMentions(s) =
        IF s = <<>> THEN <<>>
        ELSE IF m = <<>> THEN <<Route(Hub, SetText(s, Positions(1, Len(s))))>>
        ELSE IF alls # {} THEN ToAll(s, m[Min(alls)])
        ELSE SubSeq(Turns(s, m).out, 1, Turns(s, m).pending)
  BY Zenon DEF ParseMentions
<1>4. alls \in SUBSET Nat /\ \A k \in alls : k \in DOMAIN m
  BY <1>1
<1>5. s = <<>> => m = <<>>
  BY <1>1
<1>6. m = <<>> => ~HasAll(s, m)
  BY DEF HasAll
<1>7. m \in Seq(Nat)
  BY <1>1
<1> HIDE DEF m, alls
<1>8. CASE m # <<>> /\ ~HasAll(s, m)
  <2>1. ParseMentions(s) = SubSeq(Turns(s, m).out, 1, Turns(s, m).pending)
    BY <1>2, <1>3, <1>5, <1>8, Zenon
  <2>2. SubSeq(Turns(s, m).out, 1, Turns(s, m).pending) =
          BeforeFirst(s, m) \o [k \in DOMAIN Served(s, m) |->
            Route(s[m[Served(s, m)[k]]].name,
                  Segment(s, m, Min(TextsAfter(s, m, Served(s, m)[k]))))]
    BY <1>7, RoutedByTurns
  <2> QED
    BY <1>8, <2>1, <2>2, Zenon DEF m
<1>9. CASE m = <<>>
  <2>1. WordsReach(s, ParseMentions(s), Hub)
    <3>1. CASE s = <<>>
      BY <3>1 DEF WordsReach
    <3>2. CASE s # <<>>
      BY <1>3, <1>9, <3>2, WordsReachHub
    <3> QED
      BY <3>1, <3>2
  <2> QED
    BY <1>6, <1>9, <2>1, Zenon DEF m
<1>10. CASE m # <<>> /\ HasAll(s, m)
  <2> DEFINE k == Min(alls)
             i == m[k]
  <2>1. alls # {}
    BY <1>2, <1>10
  <2>2. k \in alls
    BY <1>4, <2>1, MinOf
  <2>3. k \in DOMAIN m
    BY <1>4, <2>2
  <2> HIDE DEF k
  <2>4. i \in 1..Len(s) /\ s[i].kind # "word"
    <3>1. i \in 1..Len(s) /\ IsMention(s, i)
      BY <1>1, <2>3 DEF m
    <3> QED
      BY <3>1 DEF IsMention
  <2>5. ParseMentions(s) = ToAll(s, i)
    BY <1>3, <1>5, <1>10, <2>1, Zenon DEF k
  <2> HIDE DEF i
  <2>6. WordsReach(s, ParseMentions(s), All)
    BY <2>4, <2>5, WordsReachAll
  <2> QED
    BY <1>10, <2>6, Zenon DEF m
<1> QED
  BY <1>8, <1>9, <1>10, Zenon

(* Every message the owner types, however long, whatever its mentions and   *)
(* however many, reaches the agents that the comments of parse_mentions     *)
(* name, with the texts they promise.                                       *)
THEOREM MentionsAreRouted == MentionsSpec => []MentionsRouted
<1> DEFINE Inv == msg \in Seq(Tokens) /\ routes = ParseMentions(msg)
<1>1. MentionsInit => Inv
  BY DEF MentionsInit, ParseMentions
<1>2. Inv /\ [Types]_mentionVars => Inv'
  <2> SUFFICES ASSUME Inv, [Types]_mentionVars PROVE Inv'
    OBVIOUS
  <2>1. CASE Types
    <3>1. PICK token \in Tokens : msg' = Append(msg, token)
      BY <2>1 DEF Types
    <3>2. msg' \in Seq(Tokens)
      BY <3>1
    <3> QED
      BY <2>1, <3>2, Zenon DEF Types
  <2>2. CASE UNCHANGED mentionVars
    BY <2>2, Zenon DEF mentionVars
  <2> QED
    BY <2>1, <2>2
<1>3. Inv => MentionsRouted
  <2> SUFFICES ASSUME Inv PROVE MentionsRouted
    OBVIOUS
  <2> DEFINE m == MentionsOf(msg)
  <2>1. IF m # <<>> /\ ~HasAll(msg, m)
        THEN routes = BeforeFirst(msg, m) \o [k \in DOMAIN Served(msg, m) |->
               Route(msg[m[Served(msg, m)[k]]].name,
                     Segment(msg, m, Min(TextsAfter(msg, m, Served(msg, m)[k]))))]
        ELSE WordsReach(msg, routes, IF HasAll(msg, m) THEN All ELSE Hub)
    <3>1. msg \in Seq(Tokens) /\ routes = ParseMentions(msg)
      OBVIOUS
    <3> QED
      BY <3>1, ParseRoutes, Zenon
  <2> QED
    BY <2>1, Zenon DEF MentionsRouted, HasAll, WordsReach, Served
<1> QED
  BY <1>1, <1>2, <1>3, PTL DEF MentionsSpec
=============================================================================
