------------------------------ MODULE NumberSets ------------------------------
(***************************************************************************)
(* Facts that several proofs need about sets of numbers (the least, the    *)
(* greatest, all in order), about SetToSeq, and about loops: induction     *)
(* over the turns of a loop, and what Total adds up to.                    *)
(***************************************************************************)
EXTENDS Integers, Sequences, FiniteSets, SequencesExt, Loops, FiniteSetTheorems,
        SequenceTheorems, WellFoundedInduction, TLAPS

-----------------------------------------------------------------------------
\* Sequences, whatever their elements are

IsSeq(s) == s \in Seq({s[i] : i \in DOMAIN s})

LEMMA SeqFacts ==
    ASSUME NEW s, IsSeq(s)
    PROVE  Len(s) \in Nat /\ DOMAIN s = 1..Len(s)
BY DEF IsSeq

LEMMA InSeq ==
    ASSUME NEW S, NEW s \in Seq(S)
    PROVE  IsSeq(s)
<1>1. Len(s) \in Nat /\ DOMAIN s = 1..Len(s)
  OBVIOUS
<1>2. s = [i \in 1..Len(s) |-> s[i]]
  OBVIOUS
<1>3. [i \in 1..Len(s) |-> s[i]] \in Seq({s[i] : i \in DOMAIN s})
  BY <1>1
<1>4. QED
  BY <1>2, <1>3 DEF IsSeq

LEMMA IsSeqIn ==
    ASSUME NEW s, IsSeq(s), NEW S, \A i \in 1..Len(s) : s[i] \in S
    PROVE  s \in Seq(S)
<1>1. Len(s) \in Nat /\ DOMAIN s = 1..Len(s)
  BY SeqFacts
<1>2. s = [i \in 1..Len(s) |-> s[i]]
  BY <1>1 DEF IsSeq
<1>3. [i \in 1..Len(s) |-> s[i]] \in Seq(S)
  BY <1>1
<1> QED BY <1>2, <1>3

LEMMA EmptyFacts ==
    IsSeq(<<>>) /\ Len(<<>>) = 0
<1>1. <<>> \in Seq({}) /\ Len(<<>>) = 0
  BY EmptySeq
<1>2. QED
  BY <1>1, InSeq

LEMMA AppendFacts ==
    ASSUME NEW s, IsSeq(s), NEW x
    PROVE  /\ IsSeq(Append(s, x)) /\ Len(Append(s, x)) = Len(s) + 1
           /\ DOMAIN Append(s, x) = 1..(Len(s) + 1)
           /\ \A i \in 1..Len(s) : Append(s, x)[i] = s[i]
           /\ Append(s, x)[Len(s) + 1] = x
<1>1. PICK S : s \in Seq(S)
  BY DEF IsSeq
<1>2. s \in Seq(S \cup {x}) /\ x \in S \cup {x}
  BY <1>1
<1>3. Append(s, x) \in Seq(S \cup {x})
  BY <1>2
<1>4. /\ Len(Append(s, x)) = Len(s) + 1 /\ Append(s, x)[Len(s) + 1] = x
      /\ \A i \in 1..Len(s) : Append(s, x)[i] = s[i]
  BY <1>2, AppendProperties
<1>5. DOMAIN Append(s, x) = 1..Len(Append(s, x))
  BY <1>3
<1>6. QED
  BY <1>3, <1>4, <1>5, InSeq

LEMMA ConcatFacts ==
    ASSUME NEW s, IsSeq(s), NEW u, IsSeq(u)
    PROVE  /\ IsSeq(s \o u) /\ Len(s \o u) = Len(s) + Len(u)
           /\ DOMAIN (s \o u) = 1..(Len(s) + Len(u))
           /\ \A i \in 1..Len(s) : (s \o u)[i] = s[i]
           /\ \A i \in 1..Len(u) : (s \o u)[Len(s) + i] = u[i]
<1>1. PICK S : s \in Seq(S)
  BY DEF IsSeq
<1>2. PICK U : u \in Seq(U)
  BY DEF IsSeq
<1>3. s \in Seq(S \cup U) /\ u \in Seq(S \cup U)
  BY <1>1, <1>2
<1>4. s \o u \in Seq(S \cup U)
  BY <1>3
<1>5. /\ Len(s \o u) = Len(s) + Len(u)
      /\ \A i \in 1..(Len(s) + Len(u)) : (s \o u)[i] = IF i <= Len(s) THEN s[i] ELSE u[i - Len(s)]
  BY <1>3, ConcatProperties
<1>6. Len(s) \in Nat /\ Len(u) \in Nat /\ DOMAIN (s \o u) = 1..Len(s \o u)
  BY <1>3, <1>4
<1>7. \A i \in 1..Len(u) : (s \o u)[Len(s) + i] = u[i]
  <2>1. TAKE i \in 1..Len(u)
  <2>2. Len(s) + i \in 1..(Len(s) + Len(u)) /\ ~(Len(s) + i <= Len(s)) /\ (Len(s) + i) - Len(s) = i
    BY <1>6
  <2>3. QED
    BY <1>5, <2>2
<1>8. \A i \in 1..Len(s) : (s \o u)[i] = s[i]
  BY <1>5, <1>6
<1>9. QED
  BY <1>4, <1>5, <1>6, <1>7, <1>8, InSeq

-----------------------------------------------------------------------------
\* Sets of numbers

\* A set of natural numbers has a least member.
LEMMA HasLeast ==
    ASSUME NEW S, \A k \in S : k \in Nat, S # {}
    PROVE  \E x \in S : \A y \in S : x <= y
<1> DEFINE R == OpToRel(<, Nat)
<1>1. IsWellFoundedOn(R, Nat)
  BY NatLessThanWellFounded
<1>2. PICK x \in S : \A y \in S : ~(<<y, x>> \in R)
  <2>1. S \subseteq Nat
    OBVIOUS
  <2> HIDE DEF R
  <2> QED BY <1>1, <2>1, WFMin
<1>3. \A y \in S : ~(y < x)
  BY <1>2 DEF OpToRel
<1> QED BY <1>3

\* Max picks the greatest member of a bounded set.
LEMMA HasGreatest ==
    ASSUME NEW S, \A k \in S : k \in Nat, NEW n \in Nat, S # {}, \A x \in S : x <= n
    PROVE  Max(S) \in S /\ \A y \in S : y <= Max(S)
<1> DEFINE T == {k \in Nat : \E x \in S : x + k = n}
<1>1. \A k \in T : k \in Nat
  OBVIOUS
<1>2. T # {}
  <2>1. PICK x \in S : TRUE
    OBVIOUS
  <2>2. n - x \in T
    BY <2>1
  <2> QED BY <2>2
<1>3. PICK m \in T : \A t \in T : m <= t
  <2> HIDE DEF T
  <2> QED BY <1>1, <1>2, HasLeast
<1>4. PICK x \in S : x + m = n
  BY <1>3
<1>5. ASSUME NEW y \in S PROVE x >= y
  <2>1. n - y \in T
    OBVIOUS
  <2>2. m <= n - y
    BY <1>3, <2>1
  <2> QED BY <1>4, <2>2
<1>6. \A y \in S : Max(S) >= y
  BY <1>4, <1>5 DEF Max
<1>7. Max(S) \in S
  BY <1>4, <1>5 DEF Max
<1> QED BY <1>6, <1>7

\* A finite set of integers can be listed in ascending order: by rank.
LEMMA ListedInOrder ==
    ASSUME NEW S, \A k \in S : k \in Int, IsFiniteSet(S)
    PROVE  \E s \in [1..Cardinality(S) -> S] : \A i, j \in DOMAIN s : i < j => s[i] < s[j]
<1> DEFINE Upto(x) == {y \in S : y <= x}
           rank == [x \in S |-> Cardinality(Upto(x))]
           n == Cardinality(S)
<1>1. n \in Nat
  BY FS_CardinalityType
<1>2. \A x \in S : IsFiniteSet(Upto(x)) /\ Cardinality(Upto(x)) \in 1..n
  <2> TAKE x \in S
  <2>1. Upto(x) \in SUBSET S
    OBVIOUS
  <2>2. x \in Upto(x)
    OBVIOUS
  <2> HIDE DEF Upto
  <2>3. IsFiniteSet(Upto(x)) /\ Cardinality(Upto(x)) <= n
    BY <2>1, FS_Subset
  <2>4. Cardinality(Upto(x)) \in Nat
    BY <2>3, FS_CardinalityType
  <2>5. Cardinality(Upto(x)) # 0
    BY <2>2, <2>3, FS_EmptySet
  <2> QED BY <1>1, <2>3, <2>4, <2>5
<1>3. ASSUME NEW x \in S, NEW y \in S, x < y
      PROVE  rank[x] < rank[y]
  <2>1. Upto(x) \in SUBSET Upto(y)
    BY <1>3
  <2>2. y \in Upto(y) /\ y \notin Upto(x)
    BY <1>3
  <2> HIDE DEF Upto
  <2>3. Cardinality(Upto(x)) <= Cardinality(Upto(y)) /\ Cardinality(Upto(x)) # Cardinality(Upto(y))
    BY <1>2, <2>1, <2>2, FS_Subset
  <2>4. Cardinality(Upto(x)) < Cardinality(Upto(y))
    BY <1>1, <1>2, <2>3
  <2> QED BY <2>4
<1>4. rank \in [S -> 1..n]
  <2> HIDE DEF Upto
  <2> QED BY <1>2
<1> HIDE DEF rank, n
<1>5. rank \in Injection(S, 1..n)
  <2>1. ASSUME NEW x \in S, NEW y \in S, rank[x] = rank[y]
        PROVE  x = y
    <3>1. rank[x] \in Int /\ x \in Int /\ y \in Int
      BY <1>1, <1>4
    <3>2. ~(x < y) /\ ~(y < x)
      BY <1>3, <2>1, <3>1
    <3> QED BY <3>1, <3>2
  <2> QED BY <1>4, <2>1 DEF Injection, IsInjective
<1>6. IsFiniteSet(1..n) /\ Cardinality(1..n) = n
  BY <1>1, FS_Interval
<1>7. rank \in Surjection(S, 1..n)
  BY <1>5, <1>6, FS_Injection DEF n
<1>8. \A i \in 1..n : \E x \in S : rank[x] = i
  BY <1>7 DEF Surjection
<1> DEFINE s == [i \in 1..n |-> CHOOSE x \in S : rank[x] = i]
<1>9. s \in [1..n -> S] /\ \A i \in 1..n : rank[s[i]] = i
  BY <1>8
<1> HIDE DEF s
<1>10. ASSUME NEW i \in 1..n, NEW j \in 1..n, i < j
       PROVE  s[i] < s[j]
  <2>1. s[i] \in S /\ s[j] \in S /\ s[i] \in Int /\ s[j] \in Int /\ i \in Int /\ j \in Int
    BY <1>1, <1>9
  <2>2. CASE s[j] = s[i]
    BY <1>9, <1>10, <2>1, <2>2
  <2>3. CASE s[j] < s[i]
    <3>1. rank[s[j]] < rank[s[i]]
      BY <1>3, <2>1, <2>3
    <3> QED BY <1>9, <1>10, <2>1, <3>1
  <2> QED BY <2>1, <2>2, <2>3
<1> QED BY <1>9, <1>10 DEF n

\* A list in ascending order of as many members as the set has is all of it.
LEMMA OrderedIsOnto ==
    ASSUME NEW S, \A k \in S : k \in Int, IsFiniteSet(S)
    PROVE  \A s \in [1..Cardinality(S) -> S] :
              (\A i, j \in DOMAIN s : i < j => s[i] < s[j]) =>
                 \A x \in S : \E i \in 1..Cardinality(S) : s[i] = x
<1> DEFINE n == Cardinality(S)
<1>1. n \in Nat
  BY FS_CardinalityType
<1>2. n = Cardinality(S)
  OBVIOUS
<1> HIDE DEF n
<1> SUFFICES ASSUME NEW s \in [1..n -> S], \A i, j \in DOMAIN s : i < j => s[i] < s[j]
             PROVE  \A x \in S : \E i \in 1..n : s[i] = x
  BY <1>2
<1>3. ASSUME NEW i \in 1..n, NEW j \in 1..n, s[i] = s[j]
      PROVE  i = j
  <2>1. s[i] \in Int /\ i \in Int /\ j \in Int /\ i \in DOMAIN s /\ j \in DOMAIN s
    BY <1>1
  <2>2. ~(i < j) /\ ~(j < i)
    BY <1>3, <2>1
  <2> QED BY <2>1, <2>2
<1>4. s \in Injection(1..n, S)
  BY <1>3 DEF Injection, IsInjective
<1>5. IsFiniteSet(1..n) /\ Cardinality(1..n) = n
  BY <1>1, FS_Interval
<1>6. s \in Surjection(1..n, S)
  BY <1>2, <1>4, <1>5, FS_Injection
<1>7. \A x \in S : \E i \in 1..n : s[i] = x
  BY <1>6 DEF Surjection
<1> QED BY <1>7

\* Min picks the least member of a finite set of integers, Max the greatest.
LEMMA FiniteMin ==
    ASSUME NEW S, \A k \in S : k \in Int, IsFiniteSet(S), S # {}
    PROVE  Min(S) \in S /\ \A y \in S : Min(S) <= y
<1> DEFINE n == Cardinality(S)
<1>1. PICK s \in [1..n -> S] : \A i, j \in DOMAIN s : i < j => s[i] < s[j]
  BY ListedInOrder
<1>2. n \in Nat /\ \A x \in S : \E i \in 1..n : s[i] = x
  BY <1>1, OrderedIsOnto, FS_CardinalityType
<1> HIDE DEF n
<1>3. 1 \in 1..n /\ s[1] \in S
  <2>1. PICK x \in S : TRUE
    OBVIOUS
  <2>2. PICK i \in 1..n : s[i] = x
    BY <1>2
  <2> QED BY <1>1, <1>2, <2>2
<1>4. \A y \in S : s[1] <= y
  <2> TAKE y \in S
  <2>1. PICK i \in 1..n : s[i] = y
    BY <1>2
  <2>2. i = 1 \/ 1 < i
    BY <1>2
  <2> QED BY <1>1, <1>3, <2>1, <2>2
<1> QED BY <1>3, <1>4 DEF Min

LEMMA FiniteMax ==
    ASSUME NEW S, \A k \in S : k \in Int, IsFiniteSet(S), S # {}
    PROVE  Max(S) \in S /\ \A y \in S : y <= Max(S)
<1> DEFINE n == Cardinality(S)
<1>1. PICK s \in [1..n -> S] : \A i, j \in DOMAIN s : i < j => s[i] < s[j]
  BY ListedInOrder
<1>2. n \in Nat /\ \A x \in S : \E i \in 1..n : s[i] = x
  BY <1>1, OrderedIsOnto, FS_CardinalityType
<1> HIDE DEF n
<1>3. n \in 1..n /\ s[n] \in S
  <2>1. PICK x \in S : TRUE
    OBVIOUS
  <2>2. PICK i \in 1..n : s[i] = x
    BY <1>2
  <2> QED BY <1>1, <1>2, <2>2
<1>4. \A y \in S : s[n] >= y
  <2> TAKE y \in S
  <2>1. PICK i \in 1..n : s[i] = y
    BY <1>2
  <2>2. i = n \/ i < n
    BY <1>2
  <2> QED BY <1>1, <1>3, <2>1, <2>2
<1>5. Max(S) \in S /\ \A y \in S : Max(S) >= y
  BY <1>3, <1>4 DEF Max
<1> QED BY <1>5

\* SetToSeq lists every member of a finite set.
LEMMA SetToSeqFacts ==
    ASSUME NEW S, IsFiniteSet(S)
    PROVE  /\ SetToSeq(S) \in Seq(S)
           /\ \A x \in S : \E i \in DOMAIN SetToSeq(S) : SetToSeq(S)[i] = x
<1> DEFINE n == Cardinality(S)
           s == SetToSeq(S)
<1>1. n \in Nat /\ \E f \in [1..n -> S] : IsInjective(f)
  BY FS_CardinalityType DEF ExistsBijection, Bijection, Injection
<1>2. s \in [1..n -> S] /\ IsInjective(s)
  BY <1>1 DEF SetToSeq
<1> HIDE DEF s, n
<1>3. s \in Injection(1..n, S)
  BY <1>2 DEF Injection
<1>4. IsFiniteSet(1..n) /\ Cardinality(1..n) = n
  BY <1>1, FS_Interval
<1>5. s \in Surjection(1..n, S)
  BY <1>3, <1>4, FS_Injection DEF n
<1>6. s \in Seq(S)
  BY <1>1, <1>2, SeqDef
<1> QED BY <1>2, <1>5, <1>6 DEF Surjection, s

-----------------------------------------------------------------------------
\* Induction over data: what holds at 0 and is carried from each turn to the next
\* holds at every turn.  The property is a set of numbers, since no theorem with
\* an operator as a parameter can be used.

LEMMA Induct ==
    ASSUME NEW n \in Nat, NEW S, 0 \in S, \A k \in 1..n : k - 1 \in S => k \in S
    PROVE  \A k \in 0..n : k \in S
<1> DEFINE Bad == {k \in 0..n : k \notin S}
<1>1. ASSUME Bad # {} PROVE FALSE
  <2>1. \A k \in Bad : k \in Nat
    OBVIOUS
  <2>2. PICK m \in Bad : \A k \in Bad : m <= k
    <3> HIDE DEF Bad
    <3> QED BY <1>1, <2>1, HasLeast
  <2>3. m \in 1..n
    BY <2>2
  <2>4. m - 1 \in 0..n /\ m - 1 \notin Bad
    BY <2>2, <2>3
  <2>5. m - 1 \in S
    BY <2>4
  <2> QED BY <2>2, <2>3, <2>5
<1> QED BY <1>1

\* A list of numbers has a greatest one.
LEMMA Greatest ==
    ASSUME NEW n \in Nat \ {0}, NEW v \in [1..n -> Int]
    PROVE  \E i \in 1..n : \A j \in 1..n : v[j] <= v[i]
<1> DEFINE S == {m \in 0..n : m = 0 \/ \E i \in 1..m : \A j \in 1..m : v[j] <= v[i]}
<1>1. 0 \in S
  OBVIOUS
<1>2. ASSUME NEW m \in 1..n, m - 1 \in S PROVE m \in S
  <2>1. \A j \in 1..m : j = m \/ j \in 1..(m - 1)
    OBVIOUS
  <2>2. CASE m = 1
    <3>1. \A j \in 1..m : v[j] <= v[1]
      BY <2>2
    <3> QED BY <2>2, <3>1
  <2>3. CASE m # 1
    <3>1. PICK i \in 1..(m - 1) : \A j \in 1..(m - 1) : v[j] <= v[i]
      BY <1>2, <2>3
    <3>2. i \in 1..m /\ m \in 1..m /\ i \in 1..n /\ v[i] \in Int /\ v[m] \in Int /\ \A j \in 1..m : v[j] \in Int
      OBVIOUS
    <3>3. CASE v[m] <= v[i]
      <4>1. \A j \in 1..m : v[j] <= v[i]
        BY <2>1, <3>1, <3>3
      <4> QED BY <3>2, <4>1
    <3>4. CASE v[i] < v[m]
      <4>1. \A j \in 1..m : v[j] <= v[m]
        BY <2>1, <3>1, <3>2, <3>4
      <4> QED BY <3>2, <4>1
    <3> QED BY <3>2, <3>3, <3>4
  <2> QED BY <2>2, <2>3
<1>3. \A m \in 0..n : m \in S
  <2> HIDE DEF S
  <2> QED BY <1>1, <1>2, Induct
<1>4. n \in 0..n /\ n # 0
  OBVIOUS
<1>5. n \in S
  BY <1>3, <1>4
<1> QED BY <1>4, <1>5

LEMMA MulLess ==
    ASSUME NEW s \in Nat \ {0}, NEW a \in Int, NEW b \in Int, s * a < s * b
    PROVE  a < b
<1>1. CASE b <= a
  <2>1. s * (a - b) >= 0
    BY <1>1
  <2>2. s * (a - b) = s * a - s * b
    OBVIOUS
  <2> QED BY <2>1, <2>2
<1> QED BY <1>1

-----------------------------------------------------------------------------
\* Loops.  A loop of n turns over states D is a function from turns to states.

Steps(D, n) == [1..n -> [D -> D]]

Runs(f, D, base, n, step) ==
    f \in [0..n -> D] /\ f[0] = base /\ \A k \in 1..n : f[k] = step[k][f[k - 1]]

\* What the recursive definition of the loop says.
Follows(f, D, base, n, step) ==
    /\ f = [k \in 0..n |-> f[k]] /\ f[0] = base
    /\ \A k \in 1..n : f[k - 1] \in D => f[k] = step[k][f[k - 1]]

\* A definition by recursion over 0..n has a solution.
LEMMA LoopExists ==
    ASSUME NEW D, NEW base \in D, NEW n \in Nat, NEW step \in Steps(D, n)
    PROVE  \E f : Runs(f, D, base, n, step)
<1> DEFINE Ok(m) == \E f : Runs(f, D, base, m, step)
           S == {m \in 0..n : Ok(m)}
<1>1. Ok(0)
  <2> DEFINE g == [k \in 0..0 |-> base]
  <2>1. g \in [0..0 -> D] /\ g[0] = base
    OBVIOUS
  <2> HIDE DEF g
  <2>2. \A k \in 1..0 : FALSE
    OBVIOUS
  <2> QED BY <2>1, <2>2 DEF Runs
<1>2. ASSUME NEW m \in 1..n, Ok(m - 1) PROVE Ok(m)
  <2>1. PICK f \in [0..(m - 1) -> D] : f[0] = base /\ \A k \in 1..(m - 1) : f[k] = step[k][f[k - 1]]
    BY <1>2 DEF Runs
  <2> DEFINE g == [k \in 0..m |-> IF k = m THEN step[m][f[m - 1]] ELSE f[k]]
  <2>2. m - 1 \in 0..(m - 1) /\ f[m - 1] \in D /\ step[m] \in [D -> D]
    BY DEF Steps
  <2>3. g \in [0..m -> D]
    BY <2>2
  <2>4. g[0] = base /\ \A k \in 1..m : g[k] = step[k][g[k - 1]]
    BY <2>1, <2>2
  <2> QED BY <2>3, <2>4 DEF Runs
<1> HIDE DEF Ok
<1>3. 0 \in S /\ \A k \in 1..n : k - 1 \in S => k \in S
  BY <1>1, <1>2
<1>4. \A k \in 0..n : k \in S
  <2> HIDE DEF S
  <2> QED BY <1>3, Induct
<1>5. n \in 0..n
  OBVIOUS
<1>6. Ok(n)
  BY <1>4, <1>5
<1> QED BY <1>6 DEF Ok

\* What follows the definition stays in D.
LEMMA LoopRuns ==
    ASSUME NEW D, NEW base \in D, NEW n \in Nat, NEW step \in Steps(D, n),
           NEW f, Follows(f, D, base, n, step)
    PROVE  Runs(f, D, base, n, step)
<1> DEFINE S == {k \in 0..n : f[k] \in D}
<1>1. 0 \in S
  BY DEF Follows
<1>2. ASSUME NEW k \in 1..n, k - 1 \in S PROVE k \in S
  <2>1. f[k] = step[k][f[k - 1]] /\ f[k - 1] \in D
    BY <1>2 DEF Follows
  <2>2. step[k] \in [D -> D]
    BY DEF Steps
  <2> QED BY <2>1, <2>2
<1>3. \A k \in 0..n : k \in S
  <2> HIDE DEF S
  <2> QED BY <1>1, <1>2, Induct
<1>4. f \in [0..n -> D]
  BY <1>3 DEF Follows
<1>5. \A k \in 1..n : f[k - 1] \in D
  BY <1>3
<1> QED BY <1>4, <1>5 DEF Follows, Runs

\* Total adds up.
LEMMA TotalDef ==
    ASSUME NEW n \in Nat, NEW s \in [1..n -> Int]
    PROVE  \E f \in [0..n -> Int] : /\ f[0] = 0 /\ \A k \in 1..n : f[k] = f[k - 1] + s[k]
                                    /\ Total(s) = f[n]
<1> DEFINE P(f) == f = [k \in 0..n |-> IF k = 0 THEN 0 ELSE f[k - 1] + s[k]]
           c == CHOOSE f : P(f)
           step == [k \in 1..n |-> [x \in Int |-> x + s[k]]]
           D == Int
           z == 0
<1>0. Len(s) = n
  OBVIOUS
<1>1. Total(s) = c[n]
  BY <1>0 DEF Total
<1>2. z \in D /\ step \in Steps(D, n)
  BY DEF Steps
<1>3. \A k \in 1..n : \A x \in D : step[k][x] = x + s[k]
  OBVIOUS
<1> HIDE DEF step, D, z
<1>4. PICK g : Runs(g, D, z, n, step)
  BY <1>2, LoopExists
<1>5. P(g)
  BY <1>3, <1>4 DEF z, Runs
<1>6. P(c)
  <2> HIDE DEF P
  <2> QED BY <1>5
<1> HIDE DEF c
<1>7. Follows(c, D, z, n, step)
  BY <1>3, <1>6 DEF z, Follows
<1>8. Runs(c, D, z, n, step)
  BY <1>2, <1>7, LoopRuns
<1>9. c \in [0..n -> D] /\ \A k \in 1..n : c[k] = step[k][c[k - 1]]
  BY <1>8 DEF Runs
<1>10. \A k \in 1..n : c[k] = c[k - 1] + s[k]
  <2> TAKE k \in 1..n
  <2>1. k - 1 \in 0..n
    OBVIOUS
  <2>2. c[k - 1] \in D
    BY <1>9, <2>1
  <2> QED BY <1>3, <1>9, <2>2
<1>11. c[0] = 0
  BY <1>8 DEF Runs, z
<1>12. c \in [0..n -> Int]
  BY <1>9 DEF D
<1> QED BY <1>1, <1>10, <1>11, <1>12

\* Prefix sums are unique: they say what Total is.
LEMMA TotalIs ==
    ASSUME NEW n \in Nat, NEW s \in [1..n -> Int], NEW f \in [0..n -> Int], f[0] = 0,
           \A k \in 1..n : f[k] = f[k - 1] + s[k]
    PROVE  Total(s) = f[n]
<1>1. PICK g \in [0..n -> Int] : g[0] = 0 /\ (\A k \in 1..n : g[k] = g[k - 1] + s[k]) /\ Total(s) = g[n]
  BY TotalDef
<1> DEFINE S == {k \in 0..n : g[k] = f[k]}
<1>2. 0 \in S /\ \A k \in 1..n : k - 1 \in S => k \in S
  BY <1>1
<1>3. \A k \in 0..n : k \in S
  <2> HIDE DEF S
  <2> QED BY <1>2, Induct
<1> QED BY <1>1, <1>3

LEMMA TotalType ==
    ASSUME NEW n \in Nat, NEW s \in [1..n -> Int]
    PROVE  /\ Total(s) \in Int
           /\ (\A k \in 1..n : s[k] >= 0) => Total(s) >= 0
<1>1. PICK f \in [0..n -> Int] : f[0] = 0 /\ (\A k \in 1..n : f[k] = f[k - 1] + s[k]) /\ Total(s) = f[n]
  BY TotalDef
<1>2. ASSUME \A k \in 1..n : s[k] >= 0 PROVE f[n] >= 0
  <2> DEFINE S == {k \in 0..n : f[k] >= 0}
  <2>1. 0 \in S /\ \A k \in 1..n : k - 1 \in S => k \in S
    BY <1>1, <1>2
  <2>2. \A k \in 0..n : k \in S
    <3> HIDE DEF S
    <3> QED BY <2>1, Induct
  <2> QED BY <2>2
<1> QED BY <1>1, <1>2

\* The last element comes on top of the others.
LEMMA TotalLast ==
    ASSUME NEW n \in Nat, NEW s \in [1..(n + 1) -> Int]
    PROVE  Total(s) = Total([k \in 1..n |-> s[k]]) + s[n + 1]
<1>0. PICK m \in Nat : m = n + 1
  OBVIOUS
<1>1. PICK f \in [0..m -> Int] : f[0] = 0 /\ (\A k \in 1..m : f[k] = f[k - 1] + s[k]) /\ Total(s) = f[m]
  BY <1>0, TotalDef
<1> DEFINE t == [k \in 1..n |-> s[k]]
           g == [k \in 0..n |-> f[k]]
<1>2. t \in [1..n -> Int] /\ g \in [0..n -> Int] /\ g[0] = 0 /\ \A k \in 1..n : g[k] = g[k - 1] + t[k]
  BY <1>0, <1>1
<1>3. Total(t) = g[n]
  <2> HIDE DEF t, g
  <2> QED BY <1>2, TotalIs
<1> QED BY <1>0, <1>1, <1>3

\* One element is replaced.
LEMMA TotalUpdate ==
    ASSUME NEW n \in Nat, NEW s \in [1..n -> Int], NEW t \in [1..n -> Int], NEW j \in 1..n,
           \A k \in 1..n : k # j => t[k] = s[k]
    PROVE  Total(t) = Total(s) - s[j] + t[j]
<1>1. PICK f \in [0..n -> Int] : f[0] = 0 /\ (\A k \in 1..n : f[k] = f[k - 1] + s[k]) /\ Total(s) = f[n]
  BY TotalDef
<1> DEFINE g == [k \in 0..n |-> IF k < j THEN f[k] ELSE f[k] - s[j] + t[j]]
<1>2. s[j] \in Int /\ t[j] \in Int /\ j \in Int /\ \A k \in 0..n : f[k] \in Int
  OBVIOUS
<1>3. g \in [0..n -> Int] /\ g[0] = 0
  <2>1. g \in [0..n -> Int]
    BY <1>2
  <2>2. 0 \in 0..n /\ 0 < j
    OBVIOUS
  <2> QED BY <1>1, <2>1, <2>2
<1>4. ASSUME NEW k \in 1..n PROVE g[k] = g[k - 1] + t[k]
  <2>1. f[k] = f[k - 1] + s[k] /\ f[k] \in Int /\ f[k - 1] \in Int /\ s[k] \in Int
    BY <1>1
  <2>2. CASE k < j
    BY <2>1, <2>2
  <2>3. CASE k = j
    BY <1>2, <2>1, <2>3
  <2>4. CASE k > j
    <3>1. g[k] = f[k] - s[j] + t[j] /\ g[k - 1] = f[k - 1] - s[j] + t[j] /\ t[k] = s[k]
      <4>1. k \in 0..n /\ k - 1 \in 0..n /\ ~(k < j) /\ ~(k - 1 < j) /\ k # j
        BY <2>4
      <4> QED BY <4>1
    <3> HIDE DEF g
    <3> QED BY <1>2, <2>1, <3>1
  <2> QED BY <1>2, <2>2, <2>3, <2>4
<1>5. Total(t) = g[n]
  <2> HIDE DEF g
  <2> QED BY <1>3, <1>4, TotalIs
<1> QED BY <1>1, <1>5

LEMMA TotalMono ==
    ASSUME NEW n \in Nat, NEW s \in [1..n -> Int], NEW t \in [1..n -> Int],
           \A k \in 1..n : s[k] <= t[k]
    PROVE  Total(s) <= Total(t)
<1>1. PICK f \in [0..n -> Int] : f[0] = 0 /\ (\A k \in 1..n : f[k] = f[k - 1] + s[k]) /\ Total(s) = f[n]
  BY TotalDef
<1>2. PICK g \in [0..n -> Int] : g[0] = 0 /\ (\A k \in 1..n : g[k] = g[k - 1] + t[k]) /\ Total(t) = g[n]
  BY TotalDef
<1> DEFINE S == {k \in 0..n : f[k] <= g[k]}
<1>3. 0 \in S
  BY <1>1, <1>2
<1>4. ASSUME NEW k \in 1..n, k - 1 \in S PROVE k \in S
  <2>1. f[k] = f[k - 1] + s[k] /\ g[k] = g[k - 1] + t[k] /\ f[k - 1] <= g[k - 1] /\ s[k] <= t[k]
    BY <1>1, <1>2, <1>4
  <2>2. f[k - 1] \in Int /\ g[k - 1] \in Int /\ s[k] \in Int /\ t[k] \in Int
    BY <1>1, <1>2
  <2> QED BY <2>1, <2>2
<1>5. \A k \in 0..n : k \in S
  <2> HIDE DEF S
  <2> QED BY <1>3, <1>4, Induct
<1> QED BY <1>1, <1>2, <1>5

\* s holds what b says of the keys that r lists, each once.
Lists(n, K, b, r, s) == r \in [1..n -> K] /\ IsInjective(r) /\ s = [i \in 1..n |-> b[r[i]]]

SameKeys(n, p, q) ==
    (\A i \in 1..n : \E j \in 1..n : p[i] = q[j]) /\ (\A j \in 1..n : \E i \in 1..n : p[i] = q[j])

\* Two lists of the same distinct keys have the same total, in whatever order.
LEMMA TotalPermuted ==
    ASSUME NEW K, NEW b \in [K -> Int], NEW n \in Nat, NEW p, NEW q, NEW s, NEW t,
           Lists(n, K, b, p, s), Lists(n, K, b, q, t), SameKeys(n, p, q)
    PROVE  Total(s) = Total(t)
<1> DEFINE Sum(m, r) == Total([i \in 1..m |-> b[r[i]]])
           Keys(m, r) == {r[i] : i \in 1..m}
           Injs(m) == {r \in [1..m -> K] : IsInjective(r)}
           Ok(m) == \A r, w \in Injs(m) : Keys(m, r) = Keys(m, w) => Sum(m, r) = Sum(m, w)
           S == {m \in 0..n : Ok(m)}
<1>1. Ok(0)
  <2>1. \A r, w : [i \in 1..0 |-> b[r[i]]] = [i \in 1..0 |-> b[w[i]]]
    OBVIOUS
  <2> QED BY <2>1
<1>2. ASSUME NEW m \in 1..n, Ok(m - 1) PROVE Ok(m)
  <2> DEFINE l == m - 1
  <2> SUFFICES ASSUME NEW r \in Injs(m), NEW w \in Injs(m), Keys(m, r) = Keys(m, w)
               PROVE  Sum(m, r) = Sum(m, w)
    OBVIOUS
  <2>1. l \in Nat /\ m \in Nat /\ l + 1 = m /\ m \in 1..m
    OBVIOUS
  <2>2. PICK j \in 1..m : w[j] = r[m]
    BY <2>1
  <2> DEFINE cut(x) == [i \in 1..l |-> x[i]]
             u == [i \in 1..m |-> IF i = j THEN w[m] ELSE IF i = m THEN r[m] ELSE w[i]]
             bw == [i \in 1..m |-> b[w[i]]]
             bu == [i \in 1..m |-> b[u[i]]]
             v == [i \in 1..m |-> IF i = j THEN b[w[m]] ELSE b[w[i]]]
  <2>3. bw \in [1..m -> Int] /\ v \in [1..m -> Int] /\ bu \in [1..m -> Int] /\ u \in [1..m -> K]
    OBVIOUS
  <2>4. Total(v) = Total(bw) - bw[j] + v[j]
    <3> HIDE DEF bw
    <3>1. \A k \in 1..m : k # j => v[k] = bw[k]
      BY DEF bw
    <3> HIDE DEF v
    <3> QED BY <2>1, <2>3, <3>1, TotalUpdate
  <2>5. Total(bu) = Total(v) - v[m] + bu[m]
    <3>1. \A k \in 1..m : k # m => bu[k] = v[k]
      OBVIOUS
    <3> HIDE DEF bu, v
    <3> QED BY <2>1, <2>3, <3>1, TotalUpdate
  <2>6. Total(bu) = Total(bw)
    <3>1. v[m] = b[w[m]] /\ v[j] = b[w[m]] /\ bw[j] = b[r[m]] /\ bu[m] = b[r[m]]
      BY <2>1, <2>2
    <3>2. Total(bw) \in Int /\ Total(v) \in Int /\ b[w[m]] \in Int /\ b[r[m]] \in Int
      <4>1. Total(bw) \in Int /\ Total(v) \in Int
        <5> HIDE DEF bw, v
        <5> QED BY <2>1, <2>3, TotalType
      <4> QED BY <4>1, <2>1
    <3> HIDE DEF bu, bw, v
    <3> QED BY <2>4, <2>5, <3>1, <3>2
  <2>7. u[m] = r[m] /\ IsInjective(u) /\ Keys(m, u) = Keys(m, w)
    <3>1. u[m] = r[m]
      BY <2>1, <2>2
    <3>2. \A i, k \in 1..m : w[i] = w[k] => i = k
      BY DEF IsInjective
    <3>3. \A i, k \in 1..m : u[i] = u[k] => i = k
      BY <2>1, <2>2, <3>2
    <3>4. IsInjective(u)
      BY <3>3, <2>3 DEF IsInjective
    <3>5. \A i \in 1..m : u[i] \in Keys(m, w)
      BY <2>1, <2>2
    <3>6. u[j] = w[m] /\ \A i \in 1..m : i # j /\ i # m => u[i] = w[i]
      BY <2>1
    <3>7. \A i \in 1..m : w[i] \in Keys(m, u)
      <4> TAKE i \in 1..m
      <4>1. CASE i = j
        BY <4>1, <2>1, <2>2, <3>1
      <4>2. CASE i = m
        BY <4>2, <3>6
      <4>3. CASE i # j /\ i # m
        BY <4>3, <3>6
      <4> QED BY <4>1, <4>2, <4>3
    <3> QED BY <3>1, <3>4, <3>5, <3>7
  <2>8. cut(r) \in Injs(l) /\ cut(u) \in Injs(l) /\ Keys(l, cut(r)) = Keys(l, cut(u))
    <3> HIDE DEF u
    <3>1. \A i \in 1..l : i \in 1..m /\ i # m
      BY <2>1
    <3>2. ASSUME NEW x \in [1..m -> K], IsInjective(x)
          PROVE  cut(x) \in Injs(l) /\ Keys(l, cut(x)) = Keys(m, x) \ {x[m]}
      <4>1. cut(x) \in [1..l -> K] /\ \A i \in 1..l : cut(x)[i] = x[i]
        BY <3>1
      <4>2. IsInjective(cut(x))
        BY <3>1, <3>2, <4>1 DEF IsInjective
      <4>3. \A i \in 1..m : i \in 1..l \/ i = m
        BY <2>1
      <4>4. \A i \in 1..l : x[i] # x[m]
        BY <2>1, <3>1, <3>2 DEF IsInjective
      <4>5. Keys(l, cut(x)) = {x[i] : i \in 1..l}
        BY <4>1
      <4>6. {x[i] : i \in 1..l} = {x[i] : i \in 1..m} \ {x[m]}
        BY <3>1, <4>3, <4>4
      <4> QED BY <4>1, <4>2, <4>5, <4>6
    <3> QED BY <2>3, <2>7, <3>2
  <2>9. Sum(l, cut(r)) = Sum(l, cut(u))
    <3> HIDE DEF l, u
    <3> QED BY <1>2, <2>8 DEF l
  <2>10. ASSUME NEW x \in [1..m -> K]
         PROVE  Sum(m, x) = Sum(l, cut(x)) + b[x[m]]
    <3> DEFINE bx == [i \in 1..(l + 1) |-> b[x[i]]]
    <3>1. bx \in [1..(l + 1) -> Int] /\ bx[l + 1] = b[x[m]] /\ bx = [i \in 1..m |-> b[x[i]]]
      BY <2>1
    <3>2. [k \in 1..l |-> bx[k]] = [i \in 1..l |-> b[cut(x)[i]]]
      OBVIOUS
    <3>3. Total(bx) = Total([k \in 1..l |-> bx[k]]) + bx[l + 1]
      <4> HIDE DEF bx, l
      <4> QED BY <2>1, <3>1, TotalLast
    <3> QED BY <3>1, <3>2, <3>3
  <2>11. Sum(m, u) = Sum(m, w)
    BY <2>6
  <2> HIDE DEF u, l, Sum
  <2> QED BY <2>3, <2>7, <2>9, <2>10, <2>11
<1>3. 0 \in S /\ \A k \in 1..n : k - 1 \in S => k \in S
  <2> HIDE DEF Ok
  <2> QED BY <1>1, <1>2
<1>4. \A k \in 0..n : k \in S
  <2> HIDE DEF S
  <2> QED BY <1>3, Induct
<1>5. Ok(n)
  <2> HIDE DEF Ok
  <2> QED BY <1>4
<1>6. /\ p \in Injs(n) /\ q \in Injs(n)
      /\ s = [i \in 1..n |-> b[p[i]]] /\ t = [i \in 1..n |-> b[q[i]]]
  BY DEF Lists
<1>7. Keys(n, p) = Keys(n, q)
  BY DEF SameKeys
<1> QED BY <1>5, <1>6, <1>7

\* c holds, after each turn, what Filter has kept so far.
Filters(c, n, s, T) ==
    /\ c[0] = <<>>
    /\ \A k \in 1..n : c[k] = IF s[k] \in T THEN Append(c[k - 1], s[k]) ELSE c[k - 1]
    /\ \A k \in 0..n : /\ IsSeq(c[k]) /\ Len(c[k]) \in Nat
                       /\ \A i \in 1..Len(c[k]) : c[k][i] \in T /\ \E j \in 1..n : c[k][i] = s[j]

LEMMA FilterDef ==
    ASSUME NEW s, IsSeq(s), NEW T
    PROVE  \E c : Filter(s, T) = c[Len(s)] /\ Filters(c, Len(s), s, T)
<1> DEFINE n == Len(s)
           D == Seq({s[i] : i \in 1..n} \cap T)
           P(f) == f = [k \in 0..n |-> IF k = 0 THEN <<>>
                                       ELSE IF s[k] \in T THEN Append(f[k - 1], s[k]) ELSE f[k - 1]]
           c == CHOOSE f : P(f)
           step == [k \in 1..n |-> [x \in D |-> IF s[k] \in T THEN Append(x, s[k]) ELSE x]]
           z == <<>>
<1>0. n \in Nat /\ n = Len(s)
  BY SeqFacts
<1>1. Filter(s, T) = c[n]
  BY DEF Filter
<1> HIDE DEF n
<1>2. z \in D /\ step \in Steps(D, n)
  <2>1. ASSUME NEW k \in 1..n, NEW x \in D PROVE (IF s[k] \in T THEN Append(x, s[k]) ELSE x) \in D
    OBVIOUS
  <2> QED BY <2>1 DEF Steps
<1>3. \A k \in 1..n : \A x \in D : step[k][x] = IF s[k] \in T THEN Append(x, s[k]) ELSE x
  OBVIOUS
<1>3a. \A x \in D : /\ IsSeq(x) /\ Len(x) \in Nat
                    /\ \A i \in 1..Len(x) : x[i] \in T /\ \E j \in 1..n : x[i] = s[j]
  <2> SUFFICES ASSUME NEW x \in D
               PROVE  /\ IsSeq(x) /\ Len(x) \in Nat
                      /\ \A i \in 1..Len(x) : x[i] \in T /\ \E j \in 1..n : x[i] = s[j]
    OBVIOUS
  <2>1. IsSeq(x)
    BY InSeq
  <2>2. Len(x) \in Nat /\ \A i \in 1..Len(x) : x[i] \in {s[j] : j \in 1..n} \cap T
    OBVIOUS
  <2> QED BY <2>1, <2>2
<1> HIDE DEF step, D, z
<1>4. PICK g : Runs(g, D, z, n, step)
  BY <1>0, <1>2, LoopExists
<1>5. P(g)
  <2>1. g = [k \in 0..n |-> g[k]] /\ g[0] = <<>>
    BY <1>4 DEF Runs, z
  <2>2. ASSUME NEW k \in 1..n PROVE g[k] = IF s[k] \in T THEN Append(g[k - 1], s[k]) ELSE g[k - 1]
    <3>1. k - 1 \in 0..n
      BY <1>0
    <3>2. g[k - 1] \in D /\ g[k] = step[k][g[k - 1]]
      BY <1>4, <3>1 DEF Runs
    <3> QED BY <1>3, <3>2
  <2>3. \A k \in 0..n : k = 0 \/ k \in 1..n
    BY <1>0
  <2> QED BY <2>1, <2>2, <2>3, Zenon
<1>6. P(c)
  <2> HIDE DEF P
  <2> QED BY <1>5
<1> HIDE DEF c
<1>7. Follows(c, D, z, n, step)
  <2>0. 0 \in 0..n
    BY <1>0
  <2>1. c = [k \in 0..n |-> c[k]]
    BY <1>6, Zenon
  <2>2. \A k \in 1..n : k \in 0..n /\ k # 0
    BY <1>0
  <2>3. c[0] = <<>>
    BY <1>6, <2>0, Zenon
  <2>4. \A k \in 1..n : c[k] = IF s[k] \in T THEN Append(c[k - 1], s[k]) ELSE c[k - 1]
    BY <1>6, <2>2, Zenon
  <2> HIDE DEF P
  <2> QED BY <1>3, <2>1, <2>3, <2>4 DEF z, Follows
<1>8. Runs(c, D, z, n, step)
  BY <1>0, <1>2, <1>7, LoopRuns
<1> HIDE DEF P
<1>9. c \in [0..n -> D] /\ c[0] = <<>>
  BY <1>8 DEF Runs, z
<1>10. \A k \in 1..n : c[k] = IF s[k] \in T THEN Append(c[k - 1], s[k]) ELSE c[k - 1]
  <2> TAKE k \in 1..n
  <2>1. k - 1 \in 0..n
    BY <1>0
  <2>2. c[k - 1] \in D /\ c[k] = step[k][c[k - 1]]
    BY <1>8, <2>1 DEF Runs
  <2> QED BY <1>3, <2>2
<1>11. Filters(c, n, s, T)
  BY <1>3a, <1>9, <1>10 DEF Filters
<1> QED BY <1>0, <1>1, <1>11

LEMMA FilterFacts ==
    ASSUME NEW s, IsSeq(s), NEW T
    PROVE  /\ IsSeq(Filter(s, T))
           /\ \A i \in 1..Len(Filter(s, T)) : /\ Filter(s, T)[i] \in T
                                              /\ \E j \in 1..Len(s) : Filter(s, T)[i] = s[j]
<1>1. PICK c : Filter(s, T) = c[Len(s)] /\ Filters(c, Len(s), s, T)
  BY FilterDef
<1>2. Len(s) \in 0..Len(s)
  BY SeqFacts
<1> QED BY <1>1, <1>2 DEF Filters

\* What v says of the elements of s.
Values(v, s) == [i \in 1..Len(s) |-> v[s[i]]]

\* Elements that count for nothing may be left out of a sum.
LEMMA FilterTotal ==
    ASSUME NEW X, NEW s \in Seq(X), NEW T, NEW v \in [X -> Int], \A x \in X : x \notin T => v[x] = 0
    PROVE  Total(Values(v, Filter(s, T))) = Total(Values(v, s))
<1>0. IsSeq(s) /\ Len(s) \in Nat /\ \A j \in 1..Len(s) : s[j] \in X
  BY InSeq
<1>1. PICK c : Filter(s, T) = c[Len(s)] /\ Filters(c, Len(s), s, T)
  BY <1>0, FilterDef
<1> DEFINE n == Len(s)
           all == [i \in 1..n |-> v[s[i]]]
           val(r) == [i \in 1..Len(r) |-> v[r[i]]]
<1>2. n \in Nat /\ all \in [1..n -> Int]
  BY <1>0
<1>3. PICK f \in [0..n -> Int] : f[0] = 0 /\ (\A k \in 1..n : f[k] = f[k - 1] + all[k]) /\ Total(all) = f[n]
  <2> HIDE DEF all, n
  <2> QED BY <1>2, TotalDef
<1>4. \A k \in 1..n : f[k] = f[k - 1] + v[s[k]]
  BY <1>3
<1>5. \A k \in 0..n : /\ IsSeq(c[k]) /\ Len(c[k]) \in Nat /\ \A i \in 1..Len(c[k]) : c[k][i] \in X
  BY <1>0, <1>1 DEF Filters
<1> DEFINE S == {k \in 0..n : Total(val(c[k])) = f[k]}
<1> HIDE DEF n, all
<1>6. 0 \in S
  <2>1. c[0] = <<>> /\ 0 \in 0..n
    BY <1>1, <1>2 DEF Filters, n
  <2>2. Len(<<>>) = 0
    OBVIOUS
  <2>3. val(<<>>) \in [1..0 -> Int]
    BY <2>2
  <2> DEFINE g == [k \in 0..0 |-> 0]
             w == val(<<>>)
  <2>4. g \in [0..0 -> Int] /\ g[0] = 0 /\ \A k \in 1..0 : g[k] = g[k - 1] + w[k]
    OBVIOUS
  <2>5. Total(w) = 0
    <3>1. w \in [1..0 -> Int] /\ g[0] = 0
      BY <2>3, <2>4
    <3> HIDE DEF w, g
    <3>2. Total(w) = g[0]
      BY <2>4, <3>1, TotalIs
    <3> QED BY <3>1, <3>2
  <2> QED BY <1>3, <2>1, <2>5
<1>7. ASSUME NEW k \in 1..n, k - 1 \in S PROVE k \in S
  <2>0. k \in 0..n /\ k - 1 \in 0..n /\ s[k] \in X /\ f[k] \in Int /\ f[k - 1] \in Int /\ v[s[k]] \in Int
    <3>1. k \in 0..n /\ k - 1 \in 0..n
      BY <1>2
    <3>2. s[k] \in X
      BY <1>0 DEF n
    <3> QED BY <1>3, <3>1, <3>2
  <2>1. CASE s[k] \notin T
    <3>1. c[k] = c[k - 1] /\ v[s[k]] = 0
      BY <1>1, <2>0, <2>1 DEF Filters, n
    <3>2. Total(val(c[k])) = f[k - 1] /\ f[k] = f[k - 1] + 0
      BY <1>4, <1>7, <3>1
    <3> QED BY <2>0, <3>2
  <2>2. CASE s[k] \in T
    <3> DEFINE a == c[k - 1]
               m == Len(a)
               b == Append(a, s[k])
    <3>1. c[k] = b /\ IsSeq(a) /\ m \in Nat /\ \A i \in 1..m : a[i] \in X
      BY <1>1, <1>5, <2>0, <2>2 DEF Filters, n
    <3>2. Len(b) = m + 1 /\ (\A i \in 1..m : b[i] = a[i]) /\ b[m + 1] = s[k]
      <4> HIDE DEF a
      <4> QED BY <3>1, AppendFacts
    <3>3. Total(val(a)) = f[k - 1]
      BY <1>7
    <3> HIDE DEF a, m, b
    <3>4. PICK l \in Nat : l = m + 1
      BY <3>1
    <3>5. \A i \in 1..l : i = l \/ i \in 1..m
      BY <3>1, <3>4
    <3>6. val(b) \in [1..l -> Int] /\ val(b)[l] = v[s[k]]
      <4>1. \A i \in 1..l : b[i] \in X
        BY <2>0, <3>1, <3>2, <3>4, <3>5
      <4>2. l \in 1..l /\ Len(b) = l /\ b[l] = s[k]
        BY <3>1, <3>2, <3>4
      <4> QED BY <4>1, <4>2
    <3>7. [i \in 1..m |-> val(b)[i]] = val(a)
      <4>1. \A i \in 1..m : i \in 1..Len(b) /\ val(b)[i] = v[a[i]]
        BY <3>1, <3>2
      <4> QED BY <4>1 DEF m
    <3> DEFINE vb == val(b)
    <3>8. Total(vb) = Total([i \in 1..m |-> vb[i]]) + vb[m + 1]
      <4>1. vb \in [1..(m + 1) -> Int]
        BY <3>4, <3>6
      <4> HIDE DEF vb
      <4> QED BY <3>1, <4>1, TotalLast
    <3>9. Total(val(b)) = f[k - 1] + v[s[k]]
      BY <3>3, <3>4, <3>6, <3>7, <3>8
    <3> QED BY <1>4, <2>0, <3>1, <3>9
  <2> QED BY <2>1, <2>2
<1>8. \A k \in 0..n : k \in S
  <2> HIDE DEF S
  <2> QED BY <1>2, <1>6, <1>7, Induct
<1>9. n \in S
  <2>1. n \in 0..n
    BY <1>2
  <2> QED BY <1>8, <2>1
<1> QED BY <1>1, <1>3, <1>9 DEF n, all, Values

LEMMA DivFacts ==
    ASSUME NEW p \in Nat, NEW t \in Nat \ {0}
    PROVE  p \div t \in Nat /\ t * (p \div t) <= p
<1>1. p \div t \in Nat /\ (p % t) \in Nat /\ p = t * (p \div t) + (p % t)
  OBVIOUS
<1> QED BY <1>1

LEMMA MulAddLeq ==
    ASSUME NEW t \in Int, NEW a \in Int, NEW x \in Int, NEW y \in Int, NEW p \in Int, NEW q \in Int,
           t * x <= a * y, t * p <= a * q
    PROVE  t * (x + p) <= a * (y + q)
<1>1. t * (x + p) = t * x + t * p /\ a * (y + q) = a * y + a * q
  OBVIOUS
<1>2. PICK i \in Int : i = t * x
  OBVIOUS
<1>3. PICK j \in Int : j = t * p
  OBVIOUS
<1>4. PICK k \in Int : k = a * y
  OBVIOUS
<1>5. PICK l \in Int : l = a * q
  OBVIOUS
<1>6. i <= k /\ j <= l
  BY <1>2, <1>3, <1>4, <1>5
<1>7. i + j <= k + l
  BY <1>6
<1> QED BY <1>1, <1>2, <1>3, <1>4, <1>5, <1>7

\* Parts that are none above its share by weight add up to no more than the whole.
LEMMA SharesTotal ==
    ASSUME NEW n \in Nat, NEW w \in [1..n -> Nat], NEW A \in Nat, NEW T \in Nat \ {0}, T = Total(w),
           NEW d \in [1..n -> Nat], \A i \in 1..n : T * d[i] <= A * w[i]
    PROVE  Total(d) <= A
<1>1. \A i \in 1..n : d[i] \in Nat /\ T * d[i] <= A * w[i]
  OBVIOUS
<1>2. d \in [1..n -> Int] /\ w \in [1..n -> Int]
  OBVIOUS
<1>3. PICK f \in [0..n -> Int] : f[0] = 0 /\ (\A k \in 1..n : f[k] = f[k - 1] + d[k]) /\ Total(d) = f[n]
  BY <1>2, TotalDef
<1>4. PICK g \in [0..n -> Int] : g[0] = 0 /\ (\A k \in 1..n : g[k] = g[k - 1] + w[k]) /\ Total(w) = g[n]
  BY <1>2, TotalDef
<1> DEFINE S == {k \in 0..n : T * f[k] <= A * g[k]}
<1>5. 0 \in S
  <2>1. T * 0 = 0 /\ A * 0 = 0
    OBVIOUS
  <2> QED BY <1>3, <1>4, <2>1
<1>6. ASSUME NEW k \in 1..n, k - 1 \in S PROVE k \in S
  <2>1. PICK x \in Int, y \in Int, p \in Nat, q \in Nat : x = f[k - 1] /\ y = g[k - 1] /\ p = d[k] /\ q = w[k]
    <3>1. f[k - 1] \in Int /\ g[k - 1] \in Int /\ d[k] \in Nat /\ w[k] \in Nat
      BY <1>1
    <3> QED BY <3>1
  <2>2. f[k] = x + p /\ g[k] = y + q /\ T * x <= A * y /\ T * p <= A * q
    BY <1>1, <1>3, <1>4, <1>6, <2>1
  <2>4. T * (x + p) <= A * (y + q)
    BY <2>2, MulAddLeq
  <2> QED BY <2>2, <2>4
<1>7. \A k \in 0..n : k \in S
  <2> HIDE DEF S
  <2> QED BY <1>5, <1>6, Induct
<1>8. T * f[n] <= A * g[n] /\ f[n] \in Int
  BY <1>7
<1>9. ASSUME f[n] > A PROVE FALSE
  <2>1. PICK x \in Int : x = f[n]
    BY <1>8
  <2>2. T * (x - A) > 0
    BY <1>9, <2>1
  <2>3. T * (x - A) = T * x - T * A /\ T * A = A * T
    BY <2>1
  <2>4. T * x <= A * T
    BY <1>4, <1>8, <2>1
  <2> QED BY <2>2, <2>3, <2>4
<1>10. Total(d) <= A
  <2>1. f[n] <= A
    BY <1>8, <1>9
  <2> QED BY <1>3, <2>1
<1> QED BY <1>10

=============================================================================
