----------------------------- MODULE ListProofs -----------------------------
(***************************************************************************)
(* Facts about numbers and lists that the proofs of the components need.   *)
(* What is shown of every number up to some n is shown by the set of those *)
(* of which it holds: Upward and Downward say when it is all of them.      *)
(***************************************************************************)
EXTENDS Lists, TLAPS, SequenceTheorems, FiniteSetTheorems, NaturalsInduction,
        WellFoundedInduction

CONSTANT Op(_, _) \* any operator, to fold a list with

-----------------------------------------------------------------------------
(* Numbers.                                                                *)

LEMMA LeastExists ==
    ASSUME NEW S, S \subseteq Nat, S # {}
    PROVE  \E x \in S : \A y \in S : x <= y
<1> DEFINE R == {ss \in Nat \X Nat : ss[1] < ss[2]}
<1>1. IsWellFoundedOn(R, Nat)
  <2>1. R = OpToRel(<, Nat)
    BY Zenon DEF OpToRel
  <2>2. QED
    BY <2>1, NatLessThanWellFounded, Zenon
<1>2. \A x, y \in Nat : x < y => <<x, y>> \in R
  BY SMT
<1> HIDE DEF R
<1>3. PICK x \in S : \A y \in S : <<y, x>> \notin R
  BY <1>1, WFMin, Zenon
<1>4. ASSUME NEW y \in S PROVE x <= y
  <2>1. x \in Nat /\ y \in Nat
    OBVIOUS
  <2>2. ~(y < x)
    BY <1>2, <1>3, <2>1, Zenon
  <2>3. QED
    BY <2>1, <2>2
<1>5. QED
  BY <1>3, <1>4

\* A set has all numbers up to n, if it has 0 and with each its successor.
LEMMA Upward ==
    ASSUME NEW n \in Nat, NEW S, 0 \in S, \A i \in 0..(n - 1) : i \in S => i + 1 \in S
    PROVE  \A i \in 0..n : i \in S
<1> DEFINE T == (0..n) \ S
<1>1. SUFFICES ASSUME T # {} PROVE FALSE
  OBVIOUS
<1>2. T \subseteq Nat
  OBVIOUS
<1>3. PICK x \in T : \A y \in T : x <= y
  BY <1>1, <1>2, LeastExists
<1>4. x - 1 \in 0..(n - 1) /\ x - 1 \in 0..n /\ x - 1 \notin T
  BY <1>3
<1>5. QED
  BY <1>3, <1>4

\* A set of numbers up to n is all of them, if it has each whose successors it has.
LEMMA Downward ==
    ASSUME NEW n \in Nat, NEW S \in SUBSET (1..n),
           \A i \in 1..n : (\A j \in (i + 1)..n : j \in S) => i \in S
    PROVE  S = 1..n
<1> DEFINE T == {n - i : i \in (1..n) \ S}
<1>1. SUFFICES ASSUME S # 1..n PROVE FALSE
  OBVIOUS
<1>2. PICK i \in 1..n : i \notin S
  BY <1>1
<1>3. T \subseteq Nat /\ n - i \in T
  BY <1>2
<1>4. PICK m \in T : \A y \in T : m <= y
  BY <1>3, LeastExists
<1>5. PICK x \in (1..n) \ S : m = n - x
  BY <1>4
<1>6. ASSUME NEW j \in (x + 1)..n, j \notin S PROVE FALSE
  <2>1. n - j \in T
    BY <1>6
  <2>2. n - x <= n - j
    BY <1>4, <1>5, <2>1
  <2>3. QED
    BY <1>6, <2>2
<1>7. QED
  BY <1>5, <1>6

-----------------------------------------------------------------------------
(* Sequences.                                                              *)

LEMMA SeqIsSeq == ASSUME NEW S, NEW s \in Seq(S) PROVE IsSeq(s)
  BY DEF IsSeq, ToSet

LEMMA SeqFacts ==
    ASSUME NEW s, IsSeq(s)
    PROVE  /\ Len(s) \in Nat /\ DOMAIN s = 1..Len(s)
           /\ ToSet(s) = {s[i] : i \in 1..Len(s)}
  BY LenProperties DEF IsSeq, ToSet

LEMMA AppendIsSeq ==
    ASSUME NEW s, IsSeq(s), NEW e
    PROVE  /\ IsSeq(Append(s, e))
           /\ Len(Append(s, e)) = Len(s) + 1 /\ Len(s) \in Nat
           /\ Append(s, e)[Len(s) + 1] = e
           /\ \A i \in 1..Len(s) : Append(s, e)[i] = s[i]
<1> DEFINE S == ToSet(s) \cup {e}
<1>1. s \in Seq(S)
  BY SeqMonotonic DEF IsSeq
<1>2. e \in S
  OBVIOUS
<1> HIDE DEF S
<1>3. /\ Append(s, e) \in Seq(S) /\ Len(Append(s, e)) = Len(s) + 1
      /\ Append(s, e)[Len(s) + 1] = e
      /\ \A i \in 1..Len(s) : Append(s, e)[i] = s[i]
  BY <1>1, <1>2, AppendProperties
<1>4. Len(s) \in Nat
  BY <1>1, LenProperties
<1>5. IsSeq(Append(s, e))
  BY <1>3, SeqIsSeq
<1>6. QED
  BY <1>3, <1>4, <1>5

LEMMA AppendToSet ==
    ASSUME NEW s, IsSeq(s), NEW e
    PROVE  ToSet(Append(s, e)) = ToSet(s) \cup {e}
<1>1. /\ IsSeq(Append(s, e)) /\ Len(Append(s, e)) = Len(s) + 1 /\ Len(s) \in Nat
      /\ Append(s, e)[Len(s) + 1] = e
      /\ \A i \in 1..Len(s) : Append(s, e)[i] = s[i]
  BY AppendIsSeq
<1>2. /\ ToSet(s) = {s[i] : i \in 1..Len(s)}
      /\ ToSet(Append(s, e)) = {Append(s, e)[i] : i \in 1..(Len(s) + 1)}
  BY <1>1, SeqFacts
<1>3. QED
  BY <1>1, <1>2

LEMMA FunctionIsSeq ==
    ASSUME NEW n \in Nat, NEW f, f = [i \in 1..n |-> f[i]]
    PROVE  IsSeq(f) /\ Len(f) = n /\ ToSet(f) = {f[i] : i \in 1..n}
<1> DEFINE S == {f[i] : i \in 1..n}
<1>1. f \in [1..n -> S]
  OBVIOUS
<1> HIDE DEF S
<1>2. f \in Seq(S) /\ Len(f) = n /\ DOMAIN f = 1..n
  BY <1>1
<1>3. ToSet(f) = S
  BY <1>2 DEF ToSet, S
<1>4. QED
  BY <1>2, <1>3 DEF S, IsSeq

LEMMA SubSeqFacts ==
    ASSUME NEW s, IsSeq(s), NEW a \in Nat \ {0}, NEW b \in 0..Len(s), a <= b + 1
    PROVE  /\ SubSeq(s, a, b) \in Seq(ToSet(s)) /\ Len(SubSeq(s, a, b)) = b + 1 - a
           /\ \A j \in 1..(b + 1 - a) : SubSeq(s, a, b)[j] = s[a - 1 + j]
<1> DEFINE S == ToSet(s)
           q == SubSeq(s, a, b)
<1>1. /\ Len(s) \in Nat /\ a \in Int /\ b \in Int
      /\ \A i \in a..b : s[i] \in S
  BY LenProperties DEF IsSeq
<1> HIDE DEF S
<1>2. /\ q \in Seq(S) /\ Len(q) = IF a <= b THEN b - a + 1 ELSE 0
      /\ \A j \in 1..(b - a + 1) : q[j] = s[a + j - 1]
  BY <1>1, SubSeqProperties
<1> HIDE DEF q
<1>3. Len(q) = b + 1 - a
  BY <1>1, <1>2
<1>4. ASSUME NEW j \in 1..(b + 1 - a) PROVE q[j] = s[a - 1 + j]
  <2>1. j \in 1..(b - a + 1) /\ a + j - 1 = a - 1 + j
    BY <1>1
  <2>2. QED
    BY <1>2, <2>1
<1>5. QED
  BY <1>2, <1>3, <1>4 DEF q, S

-----------------------------------------------------------------------------
(* Kept.                                                                   *)

KeptUpto(s, T, f) ==
    [i \in 0..Len(s) |->
        IF i = 0 THEN <<>>
        ELSE IF s[i] \in T THEN Append(f[i - 1], s[i]) ELSE f[i - 1]]

\* What f says of the elements up to each.
KeptBy(s, T, f) ==
    /\ f[0] = <<>>
    /\ \A i \in 1..Len(s) : f[i] = IF s[i] \in T THEN Append(f[i - 1], s[i]) ELSE f[i - 1]

LEMMA KeptExists ==
    ASSUME NEW s, Len(s) \in Nat, NEW T
    PROVE  \E f : f = KeptUpto(s, T, f)
<1> DEFINE n == Len(s)
           At(f, i) == IF i = 0 THEN <<>>
                       ELSE IF s[i] \in T THEN Append(f[i - 1], s[i]) ELSE f[i - 1]
           Right(f, k) == \A i \in 0..k : f[i] = At(f, i)
           Good == {k \in 0..n : \E f : Right(f, k)}
<1>1. n \in Nat /\ 0 \in 0..n
  OBVIOUS
<1> HIDE DEF n
<1>2. 0 \in Good
  <2> DEFINE f == [i \in {0} |-> <<>>]
  <2>1. Right(f, 0)
    OBVIOUS
  <2>2. QED
    BY <1>1, <2>1
<1>3. ASSUME NEW k \in 0..(n - 1), k \in Good PROVE k + 1 \in Good
  <2>1. PICK f : Right(f, k)
    BY <1>3
  <2> DEFINE g == [i \in 0..(k + 1) |-> IF i = k + 1 THEN At(f, i) ELSE f[i]]
  <2>2. ASSUME NEW i \in 0..(k + 1) PROVE g[i] = At(g, i)
    <3>1. i # 0 => i - 1 \in 0..(k + 1) /\ i - 1 # k + 1
      BY <1>1
    <3>2. At(g, i) = At(f, i)
      BY <3>1
    <3>3. QED
      BY <1>1, <2>1, <3>2
  <2>3. Right(g, k + 1)
    BY <2>2
  <2>4. k + 1 \in 0..n
    BY <1>1
  <2>5. QED
    BY <2>3, <2>4
<1>4. PICK f : Right(f, n)
  <2> HIDE DEF Good
  <2>1. \A i \in 0..n : i \in Good
    BY <1>1, <1>2, <1>3, Upward
  <2>2. n \in Good
    BY <1>1, <2>1
  <2>3. QED
    BY <2>2 DEF Good
<1> DEFINE h == [i \in 0..n |-> f[i]]
<1>5. ASSUME NEW i \in 0..n PROVE h[i] = At(h, i)
  <2>1. i # 0 => i - 1 \in 0..n
    BY <1>1
  <2>2. At(h, i) = At(f, i)
    BY <2>1
  <2>3. QED
    BY <1>4, <2>2
<1>6. h = [i \in 0..n |-> At(h, i)]
  BY <1>5
<1>7. h = KeptUpto(s, T, h)
  BY <1>6 DEF KeptUpto, n
<1>8. QED
  BY <1>7

LEMMA KeptSteps ==
    ASSUME NEW s, Len(s) \in Nat, NEW T
    PROVE  \E f : Kept(s, T) = f[Len(s)] /\ KeptBy(s, T, f)
<1> DEFINE f == CHOOSE f : f = KeptUpto(s, T, f)
<1>1. f = KeptUpto(s, T, f)
  BY KeptExists
<1>2. Kept(s, T) = f[Len(s)]
  BY DEF Kept, KeptUpto
<1> HIDE DEF f
<1>3. \A i \in 0..Len(s) : f[i] = IF i = 0 THEN <<>>
                                  ELSE IF s[i] \in T THEN Append(f[i - 1], s[i]) ELSE f[i - 1]
  BY <1>1 DEF KeptUpto
<1>4. KeptBy(s, T, f)
  BY <1>3 DEF KeptBy
<1>5. QED
  BY <1>2, <1>4

\* Of the elements of s, Kept has those in T.
LEMMA KeptFacts ==
    ASSUME NEW s, IsSeq(s), NEW T
    PROVE  IsSeq(Kept(s, T)) /\ ToSet(Kept(s, T)) = ToSet(s) \cap T
<1>1. /\ Len(s) \in Nat /\ DOMAIN s = 1..Len(s)
      /\ ToSet(s) = {s[i] : i \in 1..Len(s)}
  BY SeqFacts
<1>2. PICK f : Kept(s, T) = f[Len(s)] /\ KeptBy(s, T, f)
  BY <1>1, KeptSteps
<1> DEFINE n == Len(s)
           Right(i) == IsSeq(f[i]) /\ ToSet(f[i]) = {s[j] : j \in 1..i} \cap T
           Good == {i \in 0..n : Right(i)}
<1> HIDE DEF n
<1>3. 0 \in Good
  <2>1. IsSeq(<<>>) /\ ToSet(<<>>) = {}
    BY DEF IsSeq, ToSet
  <2>2. QED
    BY <1>1, <1>2, <2>1 DEF n, KeptBy
<1>4. ASSUME NEW i \in 0..(n - 1), i \in Good PROVE i + 1 \in Good
  <2>1. i + 1 \in 1..n /\ i + 1 - 1 = i
    BY <1>1 DEF n
  <2>2. f[i + 1] = IF s[i + 1] \in T THEN Append(f[i], s[i + 1]) ELSE f[i]
    BY <1>2, <2>1 DEF n, KeptBy
  <2>3. {s[j] : j \in 1..(i + 1)} = {s[j] : j \in 1..i} \cup {s[i + 1]}
    BY <2>1
  <2>4. CASE s[i + 1] \in T
    <3>1. f[i + 1] = Append(f[i], s[i + 1])
      BY <2>2, <2>4
    <3>2. IsSeq(f[i + 1]) /\ ToSet(f[i + 1]) = ToSet(f[i]) \cup {s[i + 1]}
      BY <1>4, <3>1, AppendIsSeq, AppendToSet
    <3>3. QED
      BY <1>4, <2>1, <2>3, <2>4, <3>2
  <2>5. CASE s[i + 1] \notin T
    BY <1>4, <2>1, <2>2, <2>3, <2>5
  <2>6. QED
    BY <2>4, <2>5
<1>5. n \in Good
  <2> HIDE DEF Good
  <2>1. n \in Nat /\ n \in 0..n
    BY <1>1 DEF n
  <2>2. \A i \in 0..n : i \in Good
    BY <1>3, <1>4, <2>1, Upward
  <2>3. QED
    BY <2>1, <2>2
<1>6. QED
  BY <1>1, <1>2, <1>5 DEF n
-----------------------------------------------------------------------------
(* Folding a list with Op: the result is the last of the values that one   *)
(* gets by applying it to the elements in turn.  FoldLeft takes them out   *)
(* of the set of all positions, the last of them first.  For an operator   *)
(* of the model, this is cited from an instance of this module.            *)

LEMMA MaxAt ==
    ASSUME NEW k \in Nat, NEW T \in SUBSET (1..k), k \in T
    PROVE  Max(T) = k
<1>1. \A y \in T : k >= y
  OBVIOUS
<1>2. \A x \in T : (\A y \in T : x >= y) => x = k
  OBVIOUS
<1>3. QED
  BY <1>1, <1>2 DEF Max

LEMMA MaxIn ==
    ASSUME NEW n \in Nat, NEW T \in SUBSET (1..n), T # {}
    PROVE  Max(T) \in T
<1> DEFINE S == {n - i : i \in T}
<1>1. S \subseteq Nat /\ S # {}
  <2>1. \A i \in T : n - i \in Nat
    OBVIOUS
  <2>2. QED
    BY <2>1
<1>2. PICK m \in S : \A y \in S : m <= y
  BY <1>1, LeastExists
<1>3. PICK x \in T : m = n - x
  BY <1>2
<1>4. ASSUME NEW y \in T PROVE x >= y
  <2>1. m <= n - y
    BY <1>2
  <2>2. QED
    BY <1>3, <2>1
<1>5. QED
  BY <1>4 DEF Max

\* The values v on the way through s.
Folded(s, base, v) == v[0] = base /\ \A k \in 1..Len(s) : v[k] = Op(v[k - 1], s[k])

\* A function that says what each set of positions gives.
StepAt(s, base, f, T) == IF T = {} THEN base ELSE Op(f[T \ {Max(T)}], s[Max(T)])
Reaches(s, base, f, k) == \A T \in SUBSET (1..k) : f[T] = StepAt(s, base, f, T)

LEMMA FoldGrows ==
    ASSUME NEW s, NEW base, NEW k \in Nat, NEW f, Reaches(s, base, f, k)
    PROVE  \E g : Reaches(s, base, g, k + 1)
<1> DEFINE g == [T \in SUBSET (1..(k + 1)) |-> IF k + 1 \in T THEN StepAt(s, base, f, T) ELSE f[T]]
<1>1. ASSUME NEW T \in SUBSET (1..(k + 1)) PROVE g[T] = StepAt(s, base, g, T)
  <2> DEFINE U == T \ {Max(T)}
  <2>1. U \in SUBSET (1..(k + 1)) /\ k + 1 \notin U
    <3>1. k + 1 \in T => Max(T) = k + 1
      BY MaxAt
    <3>2. QED
      BY <3>1
  <2>2. g[U] = f[U]
    BY <2>1
  <2>3. StepAt(s, base, g, T) = StepAt(s, base, f, T)
    BY <2>2 DEF StepAt
  <2>4. CASE k + 1 \in T
    BY <2>3, <2>4
  <2>5. CASE k + 1 \notin T
    <3>1. T \in SUBSET (1..k)
      BY <2>5
    <3>2. g[T] = f[T]
      BY <2>5
    <3>3. QED
      BY <2>3, <3>1, <3>2 DEF Reaches
  <2>6. QED
    BY <2>4, <2>5
<1> HIDE DEF g
<1>2. QED
  BY <1>1 DEF Reaches

LEMMA FoldExists ==
    ASSUME NEW s, NEW base, NEW n \in Nat
    PROVE  \E f : f = [T \in SUBSET (1..n) |-> StepAt(s, base, f, T)]
<1> DEFINE Good == {k \in 0..n : \E f : Reaches(s, base, f, k)}
<1>1. 0 \in Good
  <2> DEFINE f == [T \in {{}} |-> base]
  <2>1. \A T \in SUBSET (1..0) : T = {}
    OBVIOUS
  <2>2. Reaches(s, base, f, 0)
    BY <2>1 DEF Reaches, StepAt
  <2> HIDE DEF f
  <2>3. QED
    BY <2>2
<1>2. ASSUME NEW k \in 0..(n - 1), k \in Good PROVE k + 1 \in Good
  <2>1. PICK f : Reaches(s, base, f, k)
    BY <1>2
  <2>2. k + 1 \in 0..n /\ k \in Nat
    OBVIOUS
  <2>3. QED
    BY <2>1, <2>2, FoldGrows
<1>3. PICK f : Reaches(s, base, f, n)
  <2> HIDE DEF Good
  <2>1. \A i \in 0..n : i \in Good
    BY <1>1, <1>2, Upward
  <2>2. n \in Good
    BY <2>1
  <2>3. QED
    BY <2>2 DEF Good
<1> DEFINE h == [T \in SUBSET (1..n) |-> f[T]]
<1>4. ASSUME NEW T \in SUBSET (1..n) PROVE h[T] = StepAt(s, base, h, T)
  <2>1. T \ {Max(T)} \in SUBSET (1..n)
    OBVIOUS
  <2>2. StepAt(s, base, h, T) = StepAt(s, base, f, T)
    BY <2>1 DEF StepAt
  <2>3. QED
    BY <1>3, <2>2 DEF Reaches
<1>5. h = [T \in SUBSET (1..n) |-> StepAt(s, base, h, T)]
  BY <1>4
<1>6. QED
  BY <1>5

THEOREM FoldSteps ==
    ASSUME NEW S, NEW s \in Seq(S), NEW base
    PROVE  \E v : Folded(s, base, v) /\ FoldLeft(Op, base, s) = v[Len(s)]
<1> DEFINE n == Len(s)
           G(f) == [T \in SUBSET (1..n) |-> StepAt(s, base, f, T)]
           t == CHOOSE f : f = G(f)
           v == [k \in 0..n |-> t[1..k]]
<1>1. n \in Nat /\ DOMAIN s = 1..n
  BY LenProperties
<1>2. FoldLeft(Op, base, s) = t[1..n]
  BY <1>1 DEF FoldLeft, MapThenFoldSet, StepAt
<1> HIDE DEF n
<1>3. t = G(t)
  <2>1. \E f : f = G(f)
    BY <1>1, FoldExists
  <2> HIDE DEF G
  <2>2. QED
    BY <2>1
<1>4. \A T \in SUBSET (1..n) : t[T] = StepAt(s, base, t, T)
  BY <1>3
<1> HIDE DEF t
<1>5. v[0] = base
  <2>1. {} \in SUBSET (1..n) /\ 1..0 = {} /\ 0 \in 0..n
    BY <1>1
  <2>2. t[{}] = base
    BY <1>4, <2>1 DEF StepAt
  <2>3. QED
    BY <2>1, <2>2
<1>6. ASSUME NEW k \in 1..n PROVE v[k] = Op(v[k - 1], s[k])
  <2>1. 1..k \in SUBSET (1..n) /\ 1..k # {} /\ (1..k) \ {k} = 1..(k - 1)
    BY <1>1
  <2>2. Max(1..k) = k
    <3>1. k \in Nat /\ 1..k \in SUBSET (1..k) /\ k \in 1..k
      BY <1>1
    <3>2. QED
      BY <3>1, MaxAt
  <2>3. t[1..k] = Op(t[1..(k - 1)], s[k])
    BY <1>4, <2>1, <2>2 DEF StepAt
  <2>4. k \in 0..n /\ k - 1 \in 0..n
    BY <1>1
  <2>5. QED
    BY <2>3, <2>4
<1>7. v[n] = t[1..n]
  BY <1>1
<1> HIDE DEF v
<1>8. Folded(s, base, v)
  BY <1>5, <1>6 DEF Folded, n
<1>9. QED
  BY <1>2, <1>7, <1>8 DEF n

\* The sums v of the first of w's numbers, up to n.
SumBy(w, n, v) == v[0] = 0 /\ \A k \in 1..n : v[k] = v[k - 1] + w[k]

LEMMA SumLess ==
    ASSUME NEW n \in Nat, NEW w, NEW v, SumBy(w, n, v), NEW u, NEW x, SumBy(u, n, x),
           \A i \in 1..n : w[i] \in Nat /\ u[i] \in Nat /\ w[i] <= u[i]
    PROVE  v[n] \in Nat /\ x[n] \in Nat /\ v[n] <= x[n]
<1> DEFINE Good == {k \in 0..n : v[k] \in Nat /\ x[k] \in Nat /\ v[k] <= x[k]}
<1>1. 0 \in Good
  BY DEF SumBy
<1>2. ASSUME NEW k \in 0..(n - 1), k \in Good PROVE k + 1 \in Good
  <2>1. k + 1 \in 1..n /\ k + 1 - 1 = k
    OBVIOUS
  <2>2. v[k + 1] = v[k] + w[k + 1] /\ x[k + 1] = x[k] + u[k + 1]
    BY <2>1 DEF SumBy
  <2>3. QED
    BY <1>2, <2>1, <2>2
<1> HIDE DEF Good
<1>3. \A i \in 0..n : i \in Good
  BY <1>1, <1>2, Upward
<1>4. n \in Good
  BY <1>3
<1>5. QED
  BY <1>4 DEF Good

LEMMA SumNat ==
    ASSUME NEW n \in Nat, NEW w, NEW v, SumBy(w, n, v), \A i \in 1..n : w[i] \in Nat
    PROVE  v[n] \in Nat
<1>1. \A i \in 1..n : w[i] \in Nat /\ w[i] \in Nat /\ w[i] <= w[i]
  OBVIOUS
<1>2. QED
  BY <1>1, SumLess

\* Numbers that are those of w, but the one at i, and one more at the end.
LEMMA SumReplaced ==
    ASSUME NEW n \in Nat, NEW w, NEW v, SumBy(w, n, v), \A j \in 1..n : w[j] \in Nat,
           NEW i \in 1..n, NEW u, NEW x, SumBy(u, n, x), \A j \in 1..n : u[j] \in Nat,
           \A j \in 1..(i - 1) : u[j] = w[j], \A j \in i..(n - 1) : u[j] = w[j + 1]
    PROVE  x[n] + w[i] = v[n] + u[n]
<1> DEFINE Right(k) == /\ v[k] \in Nat /\ x[k] \in Nat
                       /\ k < i => x[k] = v[k]
                       /\ k >= i /\ k < n => v[k + 1] = x[k] + w[i]
           Good == {k \in 0..n : Right(k)}
<1>1. /\ v[0] = 0 /\ x[0] = 0
      /\ \A k \in 1..n : v[k] = v[k - 1] + w[k] /\ x[k] = x[k - 1] + u[k]
  BY DEF SumBy
<1>2. 0 \in Good
  BY <1>1
<1>3. ASSUME NEW k \in 0..(n - 1), k \in Good PROVE k + 1 \in Good
  <2>1. /\ k + 1 \in 1..n
        /\ v[k + 1] = v[k] + w[k + 1] /\ x[k + 1] = x[k] + u[k + 1]
        /\ w[k + 1] \in Nat /\ u[k + 1] \in Nat /\ w[i] \in Nat
    BY <1>1
  <2>2. v[k + 1] \in Nat /\ x[k + 1] \in Nat
    BY <1>3, <2>1
  <2>3. k + 1 < i => x[k + 1] = v[k + 1]
    BY <1>3, <2>1
  <2>4. ASSUME k + 1 >= i, k + 1 < n PROVE v[k + 2] = x[k + 1] + w[i]
    <3>1. v[k + 2] = v[k + 1] + w[k + 2] /\ w[k + 2] \in Nat
      BY <1>1, <2>4
    <3>2. u[k + 1] = w[k + 2]
      BY <2>4
    <3>3. CASE k + 1 = i
      BY <1>3, <2>1, <3>1, <3>2, <3>3
    <3>4. CASE k + 1 > i
      BY <1>3, <2>1, <2>4, <3>1, <3>2, <3>4
    <3>5. QED
      BY <2>4, <3>3, <3>4
  <2>5. QED
    BY <2>1, <2>2, <2>3, <2>4
<1> HIDE DEF Good
<1>4. \A k \in 0..n : k \in Good
  BY <1>2, <1>3, Upward
<1>5. Right(n - 1) /\ n - 1 \in 0..n
  BY <1>4 DEF Good
<1>6. v[n] = v[n - 1] + w[n] /\ x[n] = x[n - 1] + u[n] /\ w[i] \in Nat /\ u[n] \in Nat
  BY <1>1
<1>7. CASE i = n
  BY <1>5, <1>6, <1>7
<1>8. CASE i < n
  BY <1>5, <1>6, <1>8
<1>9. QED
  BY <1>7, <1>8

LEMMA SumMore ==
    ASSUME NEW n \in Nat, NEW w, NEW v, SumBy(w, n, v), \A j \in 1..n : w[j] \in Nat,
           NEW u, NEW x, SumBy(u, n + 1, x), \A j \in 1..n : u[j] = w[j]
    PROVE  x[n + 1] = v[n] + u[n + 1]
<1> DEFINE Good == {k \in 0..n : x[k] = v[k]}
<1>1. /\ v[0] = 0 /\ x[0] = 0 /\ \A k \in 1..n : v[k] = v[k - 1] + w[k]
      /\ \A k \in 1..(n + 1) : x[k] = x[k - 1] + u[k]
  BY DEF SumBy
<1>2. 0 \in Good
  BY <1>1
<1>3. ASSUME NEW k \in 0..(n - 1), k \in Good PROVE k + 1 \in Good
  <2>1. k + 1 \in 1..n /\ k + 1 \in 1..(n + 1) /\ k + 1 - 1 = k /\ k + 1 \in 0..n
    OBVIOUS
  <2>2. QED
    BY <1>1, <1>3, <2>1
<1> HIDE DEF Good
<1>4. \A k \in 0..n : k \in Good
  BY <1>2, <1>3, Upward
<1>5. x[n] = v[n]
  BY <1>4 DEF Good
<1>6. n + 1 \in 1..(n + 1) /\ n + 1 - 1 = n
  OBVIOUS
<1>7. QED
  BY <1>1, <1>5, <1>6
-----------------------------------------------------------------------------
(* Finite sets.                                                            *)

\* The image of a finite set, given as a function's.
LEMMA ImageFinite ==
    ASSUME NEW S, IsFiniteSet(S), NEW f, DOMAIN f = S
    PROVE  /\ IsFiniteSet({f[x] : x \in S})
           /\ Cardinality({f[x] : x \in S}) <= Cardinality(S)
<1> DEFINE T == {f[x] : x \in S}
           g == [x \in S |-> f[x]]
<1>1. g \in Surjection(S, T)
  BY DEF Surjection
<1>2. QED
  BY <1>1, FS_Surjection

\* ... and as large, if no two of its elements are mapped to one.
OneToOne(f) == \A x, y \in DOMAIN f : f[x] = f[y] => x = y

LEMMA ImageCardinality ==
    ASSUME NEW S, IsFiniteSet(S), NEW f, DOMAIN f = S, OneToOne(f)
    PROVE  /\ IsFiniteSet({f[x] : x \in S})
           /\ Cardinality({f[x] : x \in S}) = Cardinality(S)
<1> DEFINE T == {f[x] : x \in S}
           g == [x \in S |-> f[x]]
<1>1. g \in Surjection(S, T) /\ g \in Injection(S, T)
  BY DEF Surjection, Injection, IsInjective, OneToOne
<1>2. QED
  BY <1>1, FS_Surjection

\* Of so many different values, one is not used.
LEMMA SomeUnused ==
    ASSUME NEW U, IsFiniteSet(U), NEW f, DOMAIN f = 0..Cardinality(U),
           OneToOne(f)
    PROVE  \E s \in 0..Cardinality(U) : f[s] \notin U
<1> DEFINE n == Cardinality(U)
           T == {f[s] : s \in 0..n}
<1>1. n \in Nat
  BY FS_CardinalityType
<1>2. IsFiniteSet(0..n) /\ Cardinality(0..n) = n + 1
  BY <1>1, FS_Interval
<1>3. IsFiniteSet(T) /\ Cardinality(T) = n + 1
  <2>1. DOMAIN f = 0..n
    OBVIOUS
  <2> HIDE DEF n
  <2>2. QED
    BY <1>2, <2>1, ImageCardinality
<1>4. SUFFICES ASSUME T \subseteq U PROVE FALSE
  OBVIOUS
<1>5. Cardinality(T) <= n
  BY <1>4, FS_Subset
<1>6. QED
  BY <1>1, <1>3, <1>5

IsStrictOrder(S, R) ==
    /\ \A x \in S : <<x, x>> \notin R
    /\ \A x, y, z \in S : <<x, y>> \in R /\ <<y, z>> \in R => <<x, z>> \in R
    /\ \A x, y \in S : x # y => <<x, y>> \in R \/ <<y, x>> \in R

\* The number of elements before each in a strict and total order R.
RankOf(S, R, x) == Cardinality({y \in S : <<y, x>> \in R})

\* Every element has a rank of its own, and every rank up to the size is one's.
IsRanked(S, R) ==
    /\ Cardinality(S) \in Nat
    /\ \A x, y \in S : RankOf(S, R, x) = RankOf(S, R, y) => x = y
    /\ \A i \in 1..Cardinality(S) : \E x \in S : RankOf(S, R, x) = i - 1

LEMMA Ranked ==
    ASSUME NEW S, IsFiniteSet(S), NEW R, IsStrictOrder(S, R)
    PROVE  IsRanked(S, R)
<1> DEFINE n == Cardinality(S)
           B(x) == {y \in S : <<y, x>> \in R}
           r == [x \in S |-> RankOf(S, R, x) + 1]
<1>1. n \in Nat
  BY FS_CardinalityType
<1>2. \A x \in S : B(x) \in SUBSET S /\ IsFiniteSet(B(x)) /\ Cardinality(B(x)) \in Nat
  BY FS_Subset, FS_CardinalityType
<1>3. ASSUME NEW x \in S PROVE RankOf(S, R, x) \in 0..(n - 1)
  <2>1. B(x) # S /\ Cardinality(B(x)) <= n
    BY <1>2, FS_Subset DEF IsStrictOrder
  <2>2. Cardinality(B(x)) # n
    BY <1>2, <2>1, FS_Subset
  <2>3. Cardinality(B(x)) \in Nat /\ RankOf(S, R, x) = Cardinality(B(x))
    BY <1>2 DEF RankOf
  <2> HIDE DEF B, n
  <2>4. QED
    BY <1>1, <2>1, <2>2, <2>3
<1>4. ASSUME NEW x \in S, NEW y \in S, <<x, y>> \in R
      PROVE  RankOf(S, R, x) # RankOf(S, R, y)
  <2>1. B(x) \in SUBSET B(y) /\ x \in B(y) /\ x \notin B(x)
    BY <1>4 DEF IsStrictOrder
  <2>2. Cardinality(B(y)) = Cardinality(B(x)) => B(y) = B(x)
    BY <1>2, <2>1, FS_Subset
  <2>3. QED
    BY <2>1, <2>2 DEF RankOf
<1>5. \A x, y \in S : RankOf(S, R, x) = RankOf(S, R, y) => x = y
  BY <1>4 DEF IsStrictOrder
<1>6. r \in Injection(S, 1..n)
  <2>1. \A x \in S : r[x] \in 1..n
    BY <1>1, <1>3
  <2>2. \A x, y \in S : r[x] = r[y] => x = y
    BY <1>1, <1>3, <1>5
  <2>3. QED
    BY <2>1, <2>2 DEF Injection, IsInjective
<1>7. r \in Surjection(S, 1..n)
  <2>1. IsFiniteSet(1..n) /\ Cardinality(1..n) = n
    BY <1>1, FS_Interval
  <2>2. QED
    BY <1>6, <2>1, FS_Injection
<1>8. ASSUME NEW i \in 1..n PROVE \E x \in S : RankOf(S, R, x) = i - 1
  <2>1. PICK x \in S : r[x] = i
    BY <1>7 DEF Surjection
  <2>2. RankOf(S, R, x) \in 0..(n - 1)
    BY <1>3
  <2>3. QED
    BY <1>1, <2>1, <2>2
<1>9. QED
  BY <1>1, <1>5, <1>8 DEF IsRanked

\* A list of all of a finite set, each once.
Lists(S, s) ==
    /\ s \in Seq(S) /\ Len(s) = Cardinality(S) /\ ToSet(s) = S
    /\ \A i, j \in 1..Len(s) : s[i] = s[j] => i = j

\* InOrder lists a set, when it takes the member of each rank.
LEMMA RanksList ==
    ASSUME NEW S, IsFiniteSet(S), NEW R, IsStrictOrder(S, R),
           NEW s, s \in [1..Cardinality(S) -> S],
           \A i \in 1..Cardinality(S) : RankOf(S, R, s[i]) = i - 1
    PROVE  Lists(S, s)
<1> DEFINE n == Cardinality(S)
<1>1. /\ n \in Nat
      /\ \A x, y \in S : RankOf(S, R, x) = RankOf(S, R, y) => x = y
      /\ \A i \in 1..n : \E x \in S : RankOf(S, R, x) = i - 1
  BY Ranked DEF IsRanked
<1>2. \A i \in 1..n : s[i] \in S /\ RankOf(S, R, s[i]) = i - 1
  OBVIOUS
<1>3. s \in Seq(S) /\ Len(s) = n /\ DOMAIN s = 1..n
  BY <1>1, LenProperties
<1>4. \A i, j \in 1..n : s[i] = s[j] => i = j
  <2> SUFFICES ASSUME NEW i \in 1..n, NEW j \in 1..n, s[i] = s[j] PROVE i = j
    OBVIOUS
  <2>1. i - 1 = j - 1
    BY <1>2
  <2>2. QED
    BY <1>1, <2>1
<1>5. \A x \in S : \E i \in 1..n : s[i] = x
  <2>1. s \in Injection(1..n, S)
    BY <1>2, <1>4 DEF Injection, IsInjective
  <2>2. IsFiniteSet(1..n) /\ Cardinality(1..n) = n
    BY <1>1, FS_Interval
  <2>3. s \in Surjection(1..n, S)
    BY <2>1, <2>2, FS_Injection
  <2>4. QED
    BY <2>3 DEF Surjection
<1>6. ToSet(s) = S
  BY <1>2, <1>3, <1>5 DEF ToSet
<1> HIDE DEF n
<1>7. QED
  BY <1>3, <1>4, <1>6 DEF Lists, n

LEMMA AscendingLists ==
    ASSUME NEW S \in SUBSET Int, IsFiniteSet(S)
    PROVE  Lists(S, InOrder(S, <))
<1> DEFINE R == {p \in S \X S : p[1] < p[2]}
           n == Cardinality(S)
           s == [i \in 1..n |-> CHOOSE x \in S : Cardinality({y \in S : y < x}) = i - 1]
<1>1. \A x, y \in S : <<x, y>> \in R <=> x < y
  OBVIOUS
<1> HIDE DEF R
<1>2. \A x \in S : RankOf(S, R, x) = Cardinality({y \in S : y < x})
  <2>1. \A x \in S : {y \in S : <<y, x>> \in R} = {y \in S : y < x}
    BY <1>1
  <2>2. QED
    BY <2>1 DEF RankOf
<1>3. IsStrictOrder(S, R)
  BY <1>1 DEF IsStrictOrder
<1>4. \A i \in 1..n : \E x \in S : RankOf(S, R, x) = i - 1
  <2>1. IsRanked(S, R)
    BY <1>3, Ranked, Zenon
  <2>2. QED
    BY <2>1 DEF IsRanked
<1>5. \A i \in 1..n : s[i] \in S /\ RankOf(S, R, s[i]) = i - 1
  <2> SUFFICES ASSUME NEW i \in 1..n PROVE s[i] \in S /\ RankOf(S, R, s[i]) = i - 1
    OBVIOUS
  <2>1. \E x \in S : Cardinality({y \in S : y < x}) = i - 1
    BY <1>2, <1>4
  <2>2. s[i] \in S /\ Cardinality({y \in S : y < s[i]}) = i - 1
    BY <2>1
  <2>3. QED
    BY <1>2, <2>2
<1>6. s \in [1..n -> S]
  BY <1>5
<1>7. InOrder(S, <) = s
  BY Zenon DEF InOrder
<1> HIDE DEF s
<1>8. Lists(S, s)
  BY <1>3, <1>5, <1>6, RanksList
<1>9. QED
  BY <1>7, <1>8, Zenon
=============================================================================
