----------------------------- MODULE WireProofs -----------------------------
(***************************************************************************)
(* Who is asked for in a burst, and what a sensor makes of it: the cells   *)
(* of a zone of any size; the frames of a burst; a plan that grows while   *)
(* bursts of it are sent, cut and begun again.                             *)
(*                                                                         *)
(* Cells is a recursive function.  That there is such a function, and what *)
(* it returns, is shown by a last position at which it would not be so.    *)
(***************************************************************************)
EXTENDS Wire, ListProofs

-----------------------------------------------------------------------------
(* Numbers.                                                                *)

LEMMA TakeFacts ==
    ASSUME NEW left \in Nat \ {0}
    PROVE  /\ Take(left) \in 1..left /\ Take(left) <= CELL_SIZE
           /\ left # 1 => Take(left) >= 2 /\ left - Take(left) # 1
  BY DEF Take, Least, CELL_SIZE

-----------------------------------------------------------------------------
(* The cells.                                                              *)

\* What Cells says of the cells from each position, given those from later ones.
Grown(nodes, f) ==
    [i \in 1..(Len(nodes) + 1) |->
        IF i > Len(nodes) THEN <<>>
        ELSE <<SubSeq(nodes, i, i + Take(Len(nodes) - i + 1) - 1)>>
               \o f[i + Take(Len(nodes) - i + 1)]]
From(nodes) == CHOOSE f : f = Grown(nodes, f)

LEMMA CellsAreFrom == ASSUME NEW nodes PROVE Cells(nodes) = From(nodes)[1]
  BY DEF Cells, From, Grown

LEMMA FromExists ==
    ASSUME NEW nodes, Len(nodes) \in Nat
    PROVE  From(nodes) = Grown(nodes, From(nodes))
<1> DEFINE n == Len(nodes)
           D == 1..(n + 1)
           T(i) == Take(n - i + 1)
           One(i) == SubSeq(nodes, i, i + T(i) - 1)
           At(f, i) == IF i > n THEN <<>> ELSE <<One(i)>> \o f[i + T(i)]
           Right(f, i) == \A j \in i..(n + 1) : f[j] = At(f, j)
           Good == {i \in D : \E f : Right(f, i)}
<1>1. n \in Nat
  OBVIOUS
<1>2. \A i \in 1..n : T(i) \in 1..(n - i + 1)
  <2> SUFFICES ASSUME NEW i \in 1..n PROVE T(i) \in 1..(n - i + 1)
    OBVIOUS
  <2>1. n - i + 1 \in Nat \ {0}
    BY <1>1
  <2>2. QED
    BY <2>1, TakeFacts
<1>3. \A f : Grown(nodes, f) = [i \in D |-> At(f, i)]
  BY DEF Grown
<1> HIDE DEF T, One, n
<1>4. ASSUME NEW i \in D, \A j \in (i + 1)..(n + 1) : j \in Good
      PROVE  i \in Good
  <2>1. CASE i = n + 1
    <3> DEFINE f == [j \in D |-> <<>>]
    <3>1. Right(f, i)
      BY <1>1, <2>1
    <3>2. QED
      BY <3>1
  <2>2. CASE i # n + 1
    <3>1. i \in 1..n /\ i + 1 \in (i + 1)..(n + 1)
      BY <1>1, <2>2
    <3>2. PICK f : Right(f, i + 1)
      BY <1>4, <3>1
    <3> DEFINE g == [j \in D |-> IF j = i THEN At(f, i) ELSE f[j]]
    <3>3. ASSUME NEW j \in i..(n + 1) PROVE g[j] = At(g, j)
      <4>1. At(g, j) = At(f, j)
        <5>1. CASE j > n
          BY <5>1
        <5>2. CASE j \in 1..n
          <6>1. j + T(j) \in (i + 1)..(n + 1)
            BY <1>1, <1>2, <3>1, <3>3, <5>2
          <6>2. g[j + T(j)] = f[j + T(j)]
            BY <1>1, <3>1, <6>1
          <6>3. QED
            BY <6>2
        <5>3. QED
          BY <1>1, <3>1, <3>3, <5>1, <5>2
      <4>2. j \in D /\ (j = i \/ j \in (i + 1)..(n + 1))
        BY <1>1, <3>1, <3>3
      <4>3. CASE j = i
        BY <4>1, <4>2, <4>3
      <4>4. CASE j # i
        BY <3>2, <4>1, <4>2, <4>4
      <4>5. QED
        BY <4>3, <4>4
    <3>4. Right(g, i)
      BY <3>3
    <3>5. QED
      BY <3>4
  <2>3. QED
    BY <2>1, <2>2
<1>5. Good = D
  <2>1. n + 1 \in Nat /\ Good \in SUBSET (1..(n + 1))
    BY <1>1
  <2> HIDE DEF Good
  <2>2. QED
    BY <1>4, <2>1, Downward
<1>6. PICK f : Right(f, 1)
  <2>1. 1 \in D
    BY <1>1
  <2>2. 1 \in Good
    BY <1>5, <2>1
  <2>3. QED
    BY <2>2
<1> DEFINE h == [i \in D |-> f[i]]
<1>7. ASSUME NEW i \in D PROVE h[i] = At(h, i)
  <2>1. CASE i > n
    BY <1>6, <2>1
  <2>2. CASE i \in 1..n
    <3>1. i + T(i) \in D
      BY <1>1, <1>2, <2>2
    <3>2. QED
      BY <1>6, <2>2, <3>1
  <2>3. QED
    BY <1>1, <2>1, <2>2
<1>8. h = Grown(nodes, h)
  BY ZenonT(20), <1>3, <1>7
<1>9. QED
  BY <1>8 DEF From

\* What is claimed of the cells of the nodes from position i: a cell is a part of
\* them, from a to b, of two to CELL_SIZE nodes, and every node is in one.
Part(nodes, i, cell, a, b) ==
    /\ a \in i..Len(nodes) /\ b \in (a + 1)..Len(nodes) /\ b - a < CELL_SIZE
    /\ cell = SubSeq(nodes, a, b)
Parted(nodes, i, cells) ==
    /\ \A c \in DOMAIN cells : \E a, b \in 1..Len(nodes) : Part(nodes, i, cells[c], a, b)
    /\ \A j \in i..Len(nodes) :
        \E c \in DOMAIN cells, a, b \in 1..Len(nodes) :
            Part(nodes, i, cells[c], a, b) /\ j \in a..b

LEMMA InFront ==
    ASSUME NEW S, NEW x \in S, NEW s \in Seq(S)
    PROVE  LET t == <<x>> \o s
           IN  /\ t \in Seq(S) /\ t[1] = x /\ 1 \in DOMAIN t
               /\ \A c \in DOMAIN s : c + 1 \in DOMAIN t /\ t[c + 1] = s[c]
               /\ \A c \in DOMAIN t : c = 1 \/ (c - 1 \in DOMAIN s /\ t[c] = s[c - 1])
<1> DEFINE t == <<x>> \o s
<1>1. <<x>> \in Seq(S) /\ Len(<<x>>) = 1 /\ <<x>>[1] = x
  OBVIOUS
<1>2. /\ t \in Seq(S) /\ Len(t) = 1 + Len(s)
      /\ \A c \in 1..(1 + Len(s)) : t[c] = IF c <= 1 THEN <<x>>[c] ELSE s[c - 1]
  BY <1>1, ConcatProperties
<1>3. Len(s) \in Nat /\ DOMAIN s = 1..Len(s) /\ DOMAIN t = 1..(1 + Len(s))
  BY <1>2, LenProperties
<1> HIDE DEF t
<1>4. 1 \in DOMAIN t /\ t[1] = x
  BY <1>1, <1>2, <1>3
<1>5. ASSUME NEW c \in DOMAIN s PROVE c + 1 \in DOMAIN t /\ t[c + 1] = s[c]
  <2>1. c + 1 \in 1..(1 + Len(s)) /\ ~(c + 1 <= 1) /\ c + 1 - 1 = c
    BY <1>3
  <2>2. QED
    BY <1>2, <1>3, <2>1
<1>6. ASSUME NEW c \in DOMAIN t, c # 1 PROVE c - 1 \in DOMAIN s /\ t[c] = s[c - 1]
  BY <1>2, <1>3, <1>6
<1>7. QED
  BY <1>2, <1>4, <1>5, <1>6 DEF t

LEMMA CellsFrom ==
    ASSUME NEW S, NEW nodes \in Seq(S)
    PROVE  \A i \in 1..(Len(nodes) + 1) :
              /\ From(nodes)[i] \in Seq(Seq(S))
              /\ Len(nodes) - i + 1 # 1 => Parted(nodes, i, From(nodes)[i])
<1> DEFINE n == Len(nodes)
           D == 1..(n + 1)
           F == From(nodes)
           T(i) == Take(n - i + 1)
           Right(i) == F[i] \in Seq(Seq(S)) /\ (n - i + 1 # 1 => Parted(nodes, i, F[i]))
           Good == {i \in D : Right(i)}
<1>1. n \in Nat /\ nodes \in [1..n -> S]
  BY LenProperties
<1>2. \A i \in 1..n : /\ T(i) \in 1..(n - i + 1) /\ T(i) <= CELL_SIZE
                      /\ n - i + 1 # 1 => T(i) >= 2 /\ n - (i + T(i)) + 1 # 1
  <2> SUFFICES ASSUME NEW i \in 1..n
               PROVE  /\ T(i) \in 1..(n - i + 1) /\ T(i) <= CELL_SIZE
                      /\ n - i + 1 # 1 => T(i) >= 2 /\ n - (i + T(i)) + 1 # 1
    OBVIOUS
  <2>1. n - i + 1 \in Nat \ {0}
    BY <1>1
  <2> DEFINE left == n - i + 1
  <2>2. Take(left) \in 1..left /\ Take(left) <= CELL_SIZE
        /\ (left # 1 => Take(left) >= 2 /\ left - Take(left) # 1)
    BY <2>1, TakeFacts
  <2>3. Take(left) \in Int
    BY <2>1, <2>2
  <2>4. n - (i + Take(left)) + 1 = left - Take(left)
    BY <1>1, <2>3
  <2>5. QED
    BY <2>2, <2>4
<1>3. /\ \A i \in D : i > n => F[i] = <<>>
      /\ \A i \in 1..n : F[i] = <<SubSeq(nodes, i, i + T(i) - 1)>> \o F[i + T(i)]
  <2>1. F = Grown(nodes, F)
    BY <1>1, FromExists
  <2>2. Grown(nodes, F) = [i \in D |-> IF i > n THEN <<>>
                              ELSE <<SubSeq(nodes, i, i + T(i) - 1)>> \o F[i + T(i)]]
    BY DEF Grown
  <2> HIDE DEF F, T
  <2>3. \A i \in D : F[i] = IF i > n THEN <<>>
                            ELSE <<SubSeq(nodes, i, i + T(i) - 1)>> \o F[i + T(i)]
    BY <2>1, <2>2
  <2>4. \A i \in 1..n : i \in D /\ ~(i > n)
    BY <1>1
  <2> HIDE DEF D, n
  <2>5. QED
    BY <2>3, <2>4
<1> HIDE DEF F, T, n
<1>4. ASSUME NEW i \in D, \A j \in (i + 1)..(n + 1) : j \in Good
      PROVE  i \in Good
  <2>1. CASE i > n
    <3>1. F[i] = <<>> /\ i = n + 1
      BY <1>1, <1>3, <2>1
    <3>2. <<>> \in Seq(Seq(S)) /\ DOMAIN <<>> = {}
      BY EmptySeq
    <3>3. Parted(nodes, i, <<>>)
      BY <1>1, <3>1, <3>2 DEF Parted, n
    <3>4. QED
      BY <3>1, <3>2, <3>3
  <2>2. CASE i \in 1..n
    <3> DEFINE k == i + T(i)
               cell == SubSeq(nodes, i, k - 1)
    <3>1. k \in (i + 1)..(n + 1) /\ k \in D
      BY <1>1, <1>2, <2>2
    <3>2. Right(k)
      BY <1>4, <3>1
    <3>3. F[i] = <<cell>> \o F[k]
      <4>1. F[i] = <<SubSeq(nodes, i, i + T(i) - 1)>> \o F[i + T(i)]
        BY <1>3, <2>2
      <4>2. k - 1 = i + T(i) - 1
        BY <1>1, <1>2, <2>2
      <4>3. QED
        BY <4>1, <4>2, Zenon
    <3>4. cell \in Seq(S)
      <4>1. i \in 1..n /\ k - 1 \in 1..n
        BY <1>1, <2>2, <3>1
      <4>2. \A j \in i..(k - 1) : j \in 1..n
        BY <1>1, <4>1
      <4>3. QED
        BY <1>1, <4>1, <4>2, SubSeqProperties DEF n
    <3> HIDE DEF cell
    <3> DEFINE rest == F[k]
    <3>5. F[k] = rest /\ rest \in Seq(Seq(S))
      BY <3>2
    <3> HIDE DEF rest
    <3>6. /\ F[i] \in Seq(Seq(S)) /\ F[i][1] = cell /\ 1 \in DOMAIN F[i]
          /\ \A c \in DOMAIN rest : c + 1 \in DOMAIN F[i] /\ F[i][c + 1] = rest[c]
          /\ \A c \in DOMAIN F[i] : c = 1 \/ (c - 1 \in DOMAIN rest /\ F[i][c] = rest[c - 1])
      BY <3>3, <3>4, <3>5, InFront
    <3>7. ASSUME n - i + 1 # 1 PROVE Parted(nodes, i, F[i])
      <4>1. Parted(nodes, k, rest) /\ T(i) >= 2
        BY <1>2, <2>2, <3>2, <3>5, <3>7
      <4>2. Part(nodes, i, cell, i, k - 1) /\ k - 1 \in 1..n
        BY <1>1, <1>2, <2>2, <3>1, <4>1 DEF Part, n, cell, CELL_SIZE
      <4>3. \A a, b \in 1..n : \A x : Part(nodes, k, x, a, b) => Part(nodes, i, x, a, b)
        BY <1>1, <3>1 DEF Part, n
      <4>4. ASSUME NEW c \in DOMAIN F[i]
            PROVE  \E a, b \in 1..n : Part(nodes, i, F[i][c], a, b)
        <5>1. CASE c = 1
          BY <2>2, <3>6, <4>2, <5>1
        <5>2. CASE c # 1
          <6>1. c - 1 \in DOMAIN rest /\ F[i][c] = rest[c - 1]
            BY <3>6, <5>2
          <6>2. PICK a, b \in 1..n : Part(nodes, k, rest[c - 1], a, b)
            BY <4>1, <6>1 DEF Parted, n
          <6>3. QED
            BY <4>3, <6>1, <6>2
        <5>3. QED
          BY <5>1, <5>2
      <4>5. ASSUME NEW j \in i..n
            PROVE  \E c \in DOMAIN F[i], a, b \in 1..n :
                      Part(nodes, i, F[i][c], a, b) /\ j \in a..b
        <5>1. CASE j \in i..(k - 1)
          BY <2>2, <3>6, <4>2, <5>1
        <5>2. CASE j \in k..n
          <6>1. PICK c \in DOMAIN rest, a, b \in 1..n : Part(nodes, k, rest[c], a, b) /\ j \in a..b
            BY <4>1, <5>2 DEF Parted, n
          <6>2. c + 1 \in DOMAIN F[i] /\ F[i][c + 1] = rest[c]
            BY <3>6, <6>1
          <6>3. QED
            BY <4>3, <6>1, <6>2
        <5>3. QED
          BY <1>1, <3>1, <4>5, <5>1, <5>2
      <4>6. QED
        BY <4>4, <4>5 DEF Parted, n
    <3>8. QED
      BY <3>6, <3>7
  <2>3. QED
    BY <1>1, <2>1, <2>2
<1>5. Good = D
  <2>1. n + 1 \in Nat /\ Good \in SUBSET (1..(n + 1))
    BY <1>1
  <2> HIDE DEF Good
  <2>2. QED
    BY <1>4, <2>1, Downward
<1>6. QED
  BY <1>5 DEF F, n

\* For any two nodes and more: Cells cuts them into cells of two to CELL_SIZE.
LEMMA CellsParted ==
    ASSUME NEW S, NEW nodes \in Seq(S), Len(nodes) >= 2
    PROVE  Parted(nodes, 1, Cells(nodes))
<1>1. Len(nodes) \in Nat
  BY LenProperties
<1>2. 1 \in 1..(Len(nodes) + 1) /\ Len(nodes) - 1 + 1 # 1
  <2>1. \A n \in Nat : n >= 2 => 1 \in 1..(n + 1) /\ n - 1 + 1 # 1
    OBVIOUS
  <2>2. QED
    BY <1>1, <2>1
<1>3. QED
  BY <1>2, CellsFrom, CellsAreFrom

-----------------------------------------------------------------------------
(* The edges.                                                              *)

\* The edges of the cell from a to b.
Edges(nodes, a, b, edges) ==
    /\ IsSeq(edges) /\ Len(edges) = b - a + 1 /\ DOMAIN edges = 1..(b - a + 1)
    /\ \A e \in 1..(b - a) : edges[e] = [requester |-> nodes[a], owner |-> nodes[a + e]]
    /\ edges[b - a + 1] = [requester |-> nodes[a + 1], owner |-> nodes[a]]

LEMMA PartEdges ==
    ASSUME NEW S, NEW nodes \in Seq(S), NEW cell, NEW a, NEW b, Part(nodes, 1, cell, a, b)
    PROVE  Edges(nodes, a, b, CellEdges(cell))
<1> DEFINE n == Len(nodes)
           Edge(r, o) == [requester |-> nodes[r], owner |-> nodes[o]]
           polls == [i \in 1..(b - a) |-> Edge(a, a + i)]
<1>1. n \in Nat /\ a \in 1..n /\ b \in (a + 1)..n /\ cell = SubSeq(nodes, a, b)
  BY LenProperties DEF Part
<1>2. /\ Len(cell) = b - a + 1
      /\ \A i \in 1..(b - a + 1) : cell[i] = nodes[a + i - 1]
  <2>1. \A j \in a..b : j \in 1..n
    BY <1>1
  <2>2. QED
    BY <1>1, <2>1, SubSeqProperties
<1>3. cell[1] = nodes[a] /\ cell[2] = nodes[a + 1]
  <2>1. 1 \in 1..(b - a + 1) /\ 2 \in 1..(b - a + 1) /\ a + 1 - 1 = a /\ a + 2 - 1 = a + 1
    BY <1>1
  <2>2. QED
    BY <1>2, <2>1
<1>4. [i \in 1..(Len(cell) - 1) |-> [requester |-> cell[1], owner |-> cell[i + 1]]] = polls
  <2>1. Len(cell) - 1 = b - a
    BY <1>1, <1>2
  <2>2. ASSUME NEW i \in 1..(b - a) PROVE cell[i + 1] = nodes[a + i]
    <3>1. i + 1 \in 1..(b - a + 1) /\ a + (i + 1) - 1 = a + i
      BY <1>1
    <3>2. QED
      BY <1>2, <3>1
  <2>3. QED
    BY <1>3, <2>1, <2>2
<1>5. CellEdges(cell) = Append(polls, Edge(a + 1, a))
  <2>1. Len(cell) # 1
    BY <1>1, <1>2
  <2>2. CellEdges(cell) =
          Append([i \in 1..(Len(cell) - 1) |-> [requester |-> cell[1], owner |-> cell[i + 1]]],
                 [requester |-> cell[2], owner |-> cell[1]])
    BY <2>1, Zenon DEF CellEdges
  <2> HIDE DEF polls
  <2>3. QED
    BY <1>3, <1>4, <2>2, Zenon
<1> DEFINE E == {Edge(r, o) : r \in 1..n, o \in 1..n}
<1>6. polls \in Seq(E) /\ Len(polls) = b - a /\ Edge(a + 1, a) \in E
  <2>1. \A i \in 1..(b - a) : a + i \in 1..n
    BY <1>1
  <2>2. b - a \in Nat /\ polls \in [1..(b - a) -> E]
    BY <1>1, <2>1
  <2>3. a + 1 \in 1..n
    BY <1>1
  <2>5. Edge(a + 1, a) \in E
    BY <1>1, <2>3
  <2> HIDE DEF E, Edge, polls
  <2>4. polls \in Seq(E)
    BY <2>2, SeqDef
  <2>6. Len(polls) = b - a
    BY <2>2, <2>4, LenProperties
  <2>7. QED
    BY <2>4, <2>5, <2>6
<1>7. \A i \in 1..(b - a) : polls[i] = Edge(a, a + i)
  OBVIOUS
<1> HIDE DEF E, Edge, polls
<1>8. /\ Append(polls, Edge(a + 1, a)) \in Seq(E)
      /\ Len(Append(polls, Edge(a + 1, a))) = b - a + 1
      /\ \A i \in 1..(b - a) : Append(polls, Edge(a + 1, a))[i] = polls[i]
      /\ Append(polls, Edge(a + 1, a))[b - a + 1] = Edge(a + 1, a)
  BY <1>6, AppendProperties
<1>9. QED
  BY <1>5, <1>7, <1>8, LenProperties, SeqIsSeq DEF Edge, Edges

-----------------------------------------------------------------------------
(* The nodes of a zone.                                                    *)

LEMMA ZoneNodesSeq ==
    ASSUME NEW zone, NEW reals, IsFiniteSet(reals), reals # {}
    PROVE  \E S : ZoneNodes(zone, reals) \in Seq(S) /\ Len(ZoneNodes(zone, reals)) >= 2
<1> DEFINE station == Station(zone)
           alt == [ip |-> station.ip - 1, mac |-> StableMac(station.ip - 1)]
           real == ByAddress(reals)
           nodes == IF station.ip \in {r.ip : r \in reals} THEN real ELSE <<station>> \o real
           S == {real[i] : i \in 1..Cardinality(reals)} \cup {station, alt}
<1>1. Cardinality(reals) \in Nat \ {0}
  BY FS_CardinalityType, FS_EmptySet
<1>2. real = [i \in 1..Cardinality(reals) |-> real[i]]
  <2> DEFINE Nth(i) == CHOOSE x \in reals : Cardinality({y \in reals : y.ip < x.ip}) = i - 1
  <2>1. real = [i \in 1..Cardinality(reals) |-> Nth(i)]
    BY DEF ByAddress, InOrder
  <2> HIDE DEF Nth, real
  <2>2. QED
    BY <2>1
<1> HIDE DEF real, station, alt
<1>3. real \in Seq(S) /\ Len(real) = Cardinality(reals)
  <2>1. real \in [1..Cardinality(reals) -> S]
    BY <1>2
  <2> HIDE DEF S
  <2>2. real \in Seq(S)
    BY <1>1, <2>1, SeqDef
  <2>3. QED
    BY <1>1, <2>1, <2>2, LenProperties
<1>4. /\ <<station>> \in Seq(S) /\ Len(<<station>>) = 1
      /\ <<alt>> \in Seq(S) /\ Len(<<alt>>) = 1
  BY DEF S
<1> HIDE DEF S
<1>5. nodes \in Seq(S) /\ Len(nodes) \in Nat \ {0}
  <2>1. /\ <<station>> \o real \in Seq(S)
        /\ Len(<<station>> \o real) = 1 + Cardinality(reals)
    BY <1>3, <1>4, ConcatProperties
  <2>2. QED
    BY <1>1, <1>3, <2>1
<1> HIDE DEF nodes
<1>6. <<alt>> \o nodes \in Seq(S) /\ Len(<<alt>> \o nodes) = 1 + Len(nodes)
  BY <1>4, <1>5, ConcatProperties
<1>7. ZoneNodes(zone, reals) = IF Len(nodes) = 1 THEN <<alt>> \o nodes ELSE nodes
  BY DEF ZoneNodes, nodes, station, alt, real
<1>8. QED
  BY <1>5, <1>6, <1>7

-----------------------------------------------------------------------------
(* The theorems of the cells.                                              *)

\* simulate/roles.rs:233-236, 325-349: in a zone of any size every node, the station
\* or an asset, is asked for in some cell by another node of the zone.
THEOREM EveryNodeAsked ==
    ASSUME NEW zone, NEW reals, IsFiniteSet(reals), reals # {}
    PROVE  LET nodes == ZoneNodes(zone, reals)
           IN  \A i \in 1..Len(nodes) :
                  \E c \in DOMAIN Cells(nodes) :
                  \E e \in DOMAIN CellEdges(Cells(nodes)[c]) :
                  \E r \in (1..Len(nodes)) \ {i} :
                     CellEdges(Cells(nodes)[c])[e] = [requester |-> nodes[r], owner |-> nodes[i]]
<1> DEFINE nodes == ZoneNodes(zone, reals)
<1>1. PICK S : nodes \in Seq(S) /\ Len(nodes) >= 2
  BY ZoneNodesSeq
<1> HIDE DEF nodes
<1>2. Parted(nodes, 1, Cells(nodes)) /\ Len(nodes) \in Nat
  BY <1>1, CellsParted, LenProperties
<1> SUFFICES ASSUME NEW i \in 1..Len(nodes)
             PROVE  \E c \in DOMAIN Cells(nodes) :
                    \E e \in DOMAIN CellEdges(Cells(nodes)[c]) :
                    \E r \in (1..Len(nodes)) \ {i} :
                       CellEdges(Cells(nodes)[c])[e] = [requester |-> nodes[r], owner |-> nodes[i]]
  BY DEF nodes
<1>3. PICK c \in DOMAIN Cells(nodes), a, b \in 1..Len(nodes) :
          Part(nodes, 1, Cells(nodes)[c], a, b) /\ i \in a..b
  BY <1>2 DEF Parted
<1> DEFINE cell == Cells(nodes)[c]
           edges == CellEdges(cell)
<1>4. Part(nodes, 1, cell, a, b)
  BY <1>3
<1> HIDE DEF cell
<1>5. /\ DOMAIN edges = 1..(b - a + 1)
      /\ \A e \in 1..(b - a) : edges[e] = [requester |-> nodes[a], owner |-> nodes[a + e]]
      /\ edges[b - a + 1] = [requester |-> nodes[a + 1], owner |-> nodes[a]]
  <2>1. Edges(nodes, a, b, edges)
    BY <1>1, <1>4, PartEdges, Zenon
  <2>2. QED
    BY <2>1 DEF Edges
<1>6. b \in (a + 1)..Len(nodes)
  BY <1>3 DEF Part
<1> HIDE DEF edges
<1>7. CASE i = a
  <2>1. b - a + 1 \in DOMAIN edges /\ a + 1 \in (1..Len(nodes)) \ {i}
    BY <1>2, <1>5, <1>6, <1>7
  <2>2. QED
    BY <1>5, <1>7, <2>1 DEF edges, cell
<1>8. CASE i # a
  <2>1. i - a \in DOMAIN edges /\ i - a \in 1..(b - a) /\ a + (i - a) = i
        /\ a \in (1..Len(nodes)) \ {i}
    BY <1>2, <1>3, <1>5, <1>6, <1>8
  <2>2. QED
    BY <1>5, <2>1 DEF edges, cell
<1>9. QED
  BY <1>7, <1>8

\* simulate/roles.rs:42-45, 298-315: in a zone of any size no cell has more than
\* CELL_SIZE edges, of which its first node asks all but one and its second node one.
THEOREM NobodySweeps ==
    ASSUME NEW zone, NEW reals, IsFiniteSet(reals), reals # {}
    PROVE  LET nodes == ZoneNodes(zone, reals)
           IN  \A c \in DOMAIN Cells(nodes) :
                  LET edges == CellEdges(Cells(nodes)[c])
                  IN  /\ Len(edges) \in 2..CELL_SIZE
                      /\ \E a \in 1..Len(nodes) :
                         \A e \in DOMAIN edges :
                            IF e < Len(edges) THEN edges[e].requester = nodes[a]
                            ELSE edges[e].requester = nodes[a + 1]
<1> DEFINE nodes == ZoneNodes(zone, reals)
<1>1. PICK S : nodes \in Seq(S) /\ Len(nodes) >= 2
  BY ZoneNodesSeq
<1> HIDE DEF nodes
<1>2. Parted(nodes, 1, Cells(nodes)) /\ Len(nodes) \in Nat
  BY <1>1, CellsParted, LenProperties
<1> SUFFICES ASSUME NEW c \in DOMAIN Cells(nodes)
             PROVE  LET edges == CellEdges(Cells(nodes)[c])
                    IN  /\ Len(edges) \in 2..CELL_SIZE
                        /\ \E a \in 1..Len(nodes) :
                           \A e \in DOMAIN edges :
                              IF e < Len(edges) THEN edges[e].requester = nodes[a]
                              ELSE edges[e].requester = nodes[a + 1]
  BY DEF nodes
<1>3. PICK a, b \in 1..Len(nodes) : Part(nodes, 1, Cells(nodes)[c], a, b)
  BY <1>2 DEF Parted
<1> DEFINE cell == Cells(nodes)[c]
           edges == CellEdges(cell)
<1>4. Part(nodes, 1, cell, a, b)
  BY <1>3
<1> HIDE DEF cell
<1>5. /\ Len(edges) = b - a + 1 /\ DOMAIN edges = 1..(b - a + 1)
      /\ \A e \in 1..(b - a) : edges[e] = [requester |-> nodes[a], owner |-> nodes[a + e]]
      /\ edges[b - a + 1] = [requester |-> nodes[a + 1], owner |-> nodes[a]]
  <2>1. Edges(nodes, a, b, edges)
    BY <1>1, <1>4, PartEdges, Zenon
  <2>2. QED
    BY <2>1 DEF Edges
<1>6. b \in (a + 1)..Len(nodes) /\ b - a < CELL_SIZE
  BY <1>3 DEF Part
<1> HIDE DEF edges
<1>7. Len(edges) \in 2..CELL_SIZE
  BY <1>2, <1>5, <1>6 DEF CELL_SIZE
<1>8. ASSUME NEW e \in DOMAIN edges
      PROVE  IF e < Len(edges) THEN edges[e].requester = nodes[a]
             ELSE edges[e].requester = nodes[a + 1]
  <2>1. e \in 1..(b - a) \/ e = b - a + 1
    BY <1>2, <1>5, <1>6
  <2>2. e < Len(edges) <=> e \in 1..(b - a)
    BY <1>2, <1>5, <1>6
  <2>3. CASE e \in 1..(b - a)
    <3>1. edges[e] = [requester |-> nodes[a], owner |-> nodes[a + e]]
      BY <1>5, <2>3
    <3>2. QED
      BY <2>2, <2>3, <3>1
  <2>4. CASE e = b - a + 1
    <3>1. ~(e < Len(edges)) /\ edges[e] = [requester |-> nodes[a + 1], owner |-> nodes[a]]
      BY <1>2, <1>5, <1>6, <2>4
    <3>2. QED
      BY <3>1
  <2>5. QED
    BY <2>1, <2>3, <2>4
<1>9. QED
  BY <1>7, <1>8 DEF edges, cell

-----------------------------------------------------------------------------
(* Sequences in sequences.                                                 *)

\* s is the part of t after its first m elements.
Within(s, t, m) ==
    m \in Nat /\ m + Len(s) <= Len(t) /\ \A i \in 1..Len(s) : t[m + i] = s[i]

LEMMA ConcatFacts ==
    ASSUME NEW s, IsSeq(s), NEW t, IsSeq(t)
    PROVE  /\ IsSeq(s \o t) /\ Len(s \o t) = Len(s) + Len(t)
           /\ ToSet(s \o t) = ToSet(s) \cup ToSet(t)
           /\ Within(s, s \o t, 0) /\ Within(t, s \o t, Len(s))
<1> DEFINE S == ToSet(s) \cup ToSet(t)
           u == s \o t
<1>1. s \in Seq(S) /\ t \in Seq(S)
  BY SeqMonotonic DEF IsSeq
<1>2. /\ u \in Seq(S) /\ Len(u) = Len(s) + Len(t)
      /\ \A i \in 1..(Len(s) + Len(t)) : u[i] = IF i <= Len(s) THEN s[i] ELSE t[i - Len(s)]
  BY <1>1, ConcatProperties
<1>3. /\ Len(s) \in Nat /\ ToSet(s) = {s[i] : i \in 1..Len(s)}
      /\ Len(t) \in Nat /\ ToSet(t) = {t[i] : i \in 1..Len(t)}
  BY SeqFacts
<1>4. IsSeq(u)
  BY <1>2, SeqIsSeq
<1>5. ToSet(u) = {u[i] : i \in 1..Len(u)}
  BY <1>4, SeqFacts
<1> HIDE DEF u, S
<1>6. \A i \in 1..Len(s) : i \in 1..Len(u) /\ u[0 + i] = s[i] /\ u[i] = s[i]
  BY <1>2, <1>3
<1>7. ASSUME NEW i \in 1..Len(t) PROVE Len(s) + i \in 1..Len(u) /\ u[Len(s) + i] = t[i]
  <2>1. /\ Len(s) + i \in 1..(Len(s) + Len(t)) /\ ~(Len(s) + i <= Len(s))
        /\ Len(s) + i - Len(s) = i
    BY <1>3
  <2>2. QED
    BY <1>2, <2>1
<1>8. ASSUME NEW i \in 1..Len(u) PROVE u[i] \in ToSet(s) \cup ToSet(t)
  <2>1. CASE i <= Len(s)
    BY <1>2, <1>3, <2>1
  <2>2. CASE ~(i <= Len(s))
    <3>1. i - Len(s) \in 1..Len(t)
      BY <1>2, <1>3, <2>2
    <3>2. QED
      BY <1>2, <1>3, <2>2, <3>1
  <2>3. QED
    BY <2>1, <2>2
<1>9. ToSet(u) = ToSet(s) \cup ToSet(t)
  <2>1. \A i \in 1..Len(s) : s[i] \in ToSet(u)
    BY <1>5, <1>6
  <2>2. \A i \in 1..Len(t) : t[i] \in ToSet(u)
    <3> SUFFICES ASSUME NEW i \in 1..Len(t) PROVE t[i] \in ToSet(u)
      OBVIOUS
    <3>1. Len(s) + i \in 1..Len(u) /\ u[Len(s) + i] = t[i]
      BY <1>7
    <3>2. QED
      BY <1>5, <3>1
  <2>3. QED
    BY <1>3, <1>5, <1>8, <2>1, <2>2
<1>10. Within(s, u, 0) /\ Within(t, u, Len(s))
  BY <1>2, <1>3, <1>6, <1>7 DEF Within
<1>11. QED
  BY <1>2, <1>4, <1>9, <1>10 DEF u

LEMMA WithinTrans ==
    ASSUME NEW r, NEW s, NEW t, Len(r) \in Nat, Len(s) \in Nat, Len(t) \in Nat,
           NEW m, NEW n, Within(r, s, m), Within(s, t, n)
    PROVE  Within(r, t, n + m)
<1>1. m \in Nat /\ n \in Nat /\ m + Len(r) <= Len(s) /\ n + Len(s) <= Len(t)
  BY DEF Within
<1>2. \A i \in 1..Len(r) : m + i \in 1..Len(s) /\ n + (m + i) = (n + m) + i
  BY <1>1
<1>3. QED
  BY <1>1, <1>2 DEF Within

Join(s, t) == s \o t
Joining == INSTANCE ListProofs WITH Op <- Join

LEMMA FlattenSteps ==
    ASSUME NEW ss, IsSeq(ss), \A k \in 1..Len(ss) : IsSeq(ss[k])
    PROVE  \E v : /\ v[0] = <<>> /\ \A k \in 1..Len(ss) : v[k] = v[k - 1] \o ss[k]
                  /\ FlattenSeq(ss) = v[Len(ss)]
<1> DEFINE n == Len(ss)
           G(f) == [i \in 1..n |-> IF i = 1 THEN ss[i] ELSE f[i - 1] \o ss[i]]
           F == CHOOSE f : f = G(f)
<1>1. n \in Nat
  BY SeqFacts
<1>2. CASE n = 0
  <2> DEFINE v == [k \in {0} |-> <<>>]
  <2>1. ss = <<>> /\ FlattenSeq(ss) = ss
    BY <1>2, EmptySeq DEF FlattenSeq, IsSeq
  <2>2. v[0] = <<>> /\ \A k \in 1..n : v[k] = v[k - 1] \o ss[k]
    BY <1>2
  <2>3. QED
    BY <1>2, <2>1, <2>2
<1>3. CASE n # 0
  <2>1. PICK v : v[0] = <<>> /\ \A k \in 1..n : v[k] = v[k - 1] \o ss[k]
    <3>1. PICK v : Joining!Folded(ss, <<>>, v)
      BY Joining!FoldSteps DEF IsSeq
    <3>2. QED
      BY <3>1 DEF Joining!Folded, Join
  <2> DEFINE f == [i \in 1..n |-> v[i]]
  <2>2. 1 \in 1..n
    BY <1>1, <1>3
  <2>3. <<>> \o ss[1] = ss[1]
    BY <2>2, ConcatEmptySeq DEF IsSeq
  <2>4. v[1] = ss[1]
    <3>1. v[1] = v[1 - 1] \o ss[1]
      BY <2>1, <2>2, Zenon
    <3>2. 1 - 1 = 0
      OBVIOUS
    <3>3. QED
      BY <2>1, <2>3, <3>1, <3>2
  <2>5. \A i \in 1..n : i # 1 => i - 1 \in 1..n /\ f[i - 1] = v[i - 1]
    BY <1>1
  <2>6. f = G(f)
    <3> HIDE DEF n
    <3>1. ASSUME NEW i \in 1..n PROVE f[i] = G(f)[i]
      BY <2>1, <2>4, <2>5
    <3> HIDE DEF f
    <3>2. f = [i \in 1..n |-> f[i]]
      BY DEF f
    <3>3. QED
      BY <3>1, <3>2
  <2>7. F = G(F)
    BY <2>6
  <2>8. FlattenSeq(ss) = F[n]
    BY <1>3 DEF FlattenSeq
  <2> HIDE DEF F, n
  <2> DEFINE w == [i \in 0..n |-> IF i = 0 THEN <<>> ELSE F[i]]
  <2>9. \A i \in 1..n : F[i] = IF i = 1 THEN ss[i] ELSE F[i - 1] \o ss[i]
    BY <2>7
  <2>10. ASSUME NEW k \in 1..n PROVE w[k] = w[k - 1] \o ss[k]
    <3>1. CASE k = 1
      <4>1. w[k - 1] = <<>> /\ w[k] = F[k]
        BY <1>1, <3>1
      <4>2. QED
        BY <2>3, <2>9, <3>1, <4>1
    <3>2. CASE k # 1
      <4>1. k - 1 \in 0..n /\ k - 1 # 0 /\ k \in 0..n /\ k # 0
        BY <1>1, <3>2
      <4>2. w[k - 1] = F[k - 1] /\ w[k] = F[k]
        BY <4>1
      <4>3. QED
        BY <2>9, <3>2, <4>2
    <3>3. QED
      BY <3>1, <3>2
  <2>11. w[0] = <<>> /\ w[n] = F[n]
    BY <1>1, <1>3
  <2> HIDE DEF w
  <2>12. QED
    BY <2>8, <2>10, <2>11 DEF n
<1>4. QED
  BY <1>2, <1>3

\* The parts of a flattened list are in it, each whole, and nothing else is.
LEMMA FlattenFacts ==
    ASSUME NEW ss, IsSeq(ss), \A k \in 1..Len(ss) : IsSeq(ss[k])
    PROVE  /\ IsSeq(FlattenSeq(ss))
           /\ ToSet(FlattenSeq(ss)) = UNION {ToSet(ss[k]) : k \in 1..Len(ss)}
           /\ \A k \in 1..Len(ss) : \E m : Within(ss[k], FlattenSeq(ss), m)
<1> DEFINE n == Len(ss)
<1>1. n \in Nat
  BY SeqFacts
<1>2. PICK v : /\ v[0] = <<>> /\ \A k \in 1..n : v[k] = v[k - 1] \o ss[k]
               /\ FlattenSeq(ss) = v[n]
  BY FlattenSteps
<1> DEFINE Right(k) == /\ IsSeq(v[k]) /\ ToSet(v[k]) = UNION {ToSet(ss[j]) : j \in 1..k}
                       /\ \A j \in 1..k : \E m : Within(ss[j], v[k], m)
           T == {k \in 0..n : Right(k)}
<1>3. 0 \in T
  <2>1. IsSeq(<<>>) /\ ToSet(<<>>) = {}
    BY DEF IsSeq, ToSet
  <2>2. QED
    BY <1>1, <1>2, <2>1
<1>4. ASSUME NEW k \in 0..(n - 1), k \in T PROVE k + 1 \in T
  <2>1. k + 1 \in 1..n /\ k + 1 \in 0..n /\ (k + 1) - 1 = k /\ 1..(k + 1) = 1..k \cup {k + 1}
    BY <1>1
  <2> DEFINE x == ss[k + 1]
  <2>2. v[k + 1] = v[k] \o x /\ IsSeq(x) /\ Right(k)
    <3>1. v[k + 1] = v[(k + 1) - 1] \o x
      <4>1. \A j \in 1..n : v[j] = v[j - 1] \o ss[j]
        BY <1>2
      <4>2. k + 1 \in 1..n
        BY <2>1
      <4>3. QED
        BY <4>1, <4>2
    <3>2. IsSeq(x)
      BY <2>1
    <3>3. Right(k)
      BY <1>4
    <3>4. QED
      BY <2>1, <3>1, <3>2, <3>3
  <2>3. /\ IsSeq(v[k] \o x) /\ ToSet(v[k] \o x) = ToSet(v[k]) \cup ToSet(x)
        /\ Within(v[k], v[k] \o x, 0) /\ Within(x, v[k] \o x, Len(v[k]))
    BY <2>2, ConcatFacts
  <2>4. ToSet(v[k + 1]) = UNION {ToSet(ss[j]) : j \in 1..(k + 1)}
    BY <2>1, <2>2, <2>3
  <2>5. ASSUME NEW j \in 1..(k + 1) PROVE \E m : Within(ss[j], v[k + 1], m)
    <3>1. CASE j = k + 1
      BY <2>2, <2>3, <3>1
    <3>2. CASE j \in 1..k
      <4>1. PICK m : Within(ss[j], v[k], m)
        BY <2>2, <3>2
      <4>2. j \in 1..n
        BY <1>1, <3>2
      <4>3. Len(ss[j]) \in Nat /\ Len(v[k]) \in Nat /\ Len(v[k] \o x) \in Nat
        BY <2>2, <2>3, <4>2, SeqFacts
      <4>4. Within(ss[j], v[k] \o x, 0 + m)
        BY <2>3, <4>1, <4>3, WithinTrans
      <4>5. QED
        BY <2>2, <4>4
    <3>3. QED
      BY <2>1, <3>1, <3>2
  <2> HIDE DEF x
  <2>6. QED
    BY <2>1, <2>2, <2>3, <2>4, <2>5
<1> HIDE DEF T, Right
<1>5. n \in T
  <2>1. \A k \in 0..n : k \in T
    BY <1>1, <1>3, <1>4, Upward
  <2>2. n \in 0..n
    BY <1>1
  <2>3. QED
    BY <2>1, <2>2
<1>6. QED
  BY <1>2, <1>5 DEF T, Right
-----------------------------------------------------------------------------
(* The order of a list.                                                    *)

\* s has x somewhere, and y somewhere after it.
Before(s, x, y) == \E i, j \in 1..Len(s) : i < j /\ s[i] = x /\ s[j] = y

LEMMA BeforeWithin ==
    ASSUME NEW s, NEW t, Len(s) \in Nat, Len(t) \in Nat, NEW m, Within(s, t, m),
           NEW x, NEW y, Before(s, x, y)
    PROVE  Before(t, x, y)
<1>1. PICK i, j \in 1..Len(s) : i < j /\ s[i] = x /\ s[j] = y
  BY DEF Before
<1>2. /\ m + i \in 1..Len(t) /\ m + j \in 1..Len(t) /\ m + i < m + j
      /\ t[m + i] = s[i] /\ t[m + j] = s[j]
  BY <1>1 DEF Within
<1>3. QED
  BY <1>1, <1>2 DEF Before

LEMMA BeforeAppend ==
    ASSUME NEW s, IsSeq(s), NEW e
    PROVE  /\ \A x, y : Before(s, x, y) => Before(Append(s, e), x, y)
           /\ \A x \in ToSet(s) : Before(Append(s, e), x, e)
<1>1. /\ Len(s) \in Nat /\ Len(Append(s, e)) = Len(s) + 1 /\ Append(s, e)[Len(s) + 1] = e
      /\ \A i \in 1..Len(s) : Append(s, e)[i] = s[i]
  BY AppendIsSeq
<1>2. ToSet(s) = {s[i] : i \in 1..Len(s)}
  BY SeqFacts
<1> DEFINE t == Append(s, e)
<1> HIDE DEF t
<1>3. ASSUME NEW x, NEW y, Before(s, x, y) PROVE Before(t, x, y)
  <2>1. PICK i, j \in 1..Len(s) : i < j /\ s[i] = x /\ s[j] = y
    BY <1>3 DEF Before
  <2>2. i \in 1..Len(t) /\ j \in 1..Len(t) /\ t[i] = x /\ t[j] = y
    BY <1>1, <2>1 DEF t
  <2>3. QED
    BY <2>1, <2>2 DEF Before
<1>4. ASSUME NEW x \in ToSet(s) PROVE Before(t, x, e)
  <2>1. PICK i \in 1..Len(s) : s[i] = x
    BY <1>2
  <2>2. /\ i \in 1..Len(t) /\ Len(s) + 1 \in 1..Len(t) /\ i < Len(s) + 1
        /\ t[i] = x /\ t[Len(s) + 1] = e
    BY <1>1, <2>1 DEF t
  <2>3. QED
    BY <2>2 DEF Before
<1>5. QED
  BY <1>3, <1>4 DEF t

\* Kept keeps the order.
LEMMA KeptOrder ==
    ASSUME NEW s, IsSeq(s), NEW T, NEW x \in T, NEW y \in T, Before(s, x, y)
    PROVE  Before(Kept(s, T), x, y)
<1>1. Len(s) \in Nat
  BY SeqFacts
<1>2. PICK f : Kept(s, T) = f[Len(s)] /\ KeptBy(s, T, f)
  BY <1>1, KeptSteps
<1> DEFINE n == Len(s)
           Right(k) == /\ IsSeq(f[k]) /\ \A i \in 1..k : s[i] \in T => s[i] \in ToSet(f[k])
                       /\ \A i, j \in 1..k : i < j /\ s[i] \in T /\ s[j] \in T =>
                            Before(f[k], s[i], s[j])
           Good == {k \in 0..n : Right(k)}
<1> HIDE DEF n
<1>3. 0 \in Good
  <2>1. IsSeq(<<>>)
    BY DEF IsSeq, ToSet
  <2>2. QED
    BY <1>1, <1>2, <2>1 DEF n, KeptBy
<1>4. ASSUME NEW k \in 0..(n - 1), k \in Good PROVE k + 1 \in Good
  <2>1. k + 1 \in 0..n /\ k + 1 \in 1..n /\ k + 1 - 1 = k /\ 1..(k + 1) = 1..k \cup {k + 1}
    BY <1>1 DEF n
  <2>2. f[k + 1] = IF s[k + 1] \in T THEN Append(f[k], s[k + 1]) ELSE f[k]
    BY <1>2, <2>1 DEF n, KeptBy
  <2>3. Right(k)
    BY <1>4
  <2>4. CASE s[k + 1] \in T
    <3>1. f[k + 1] = Append(f[k], s[k + 1])
      BY <2>2, <2>4
    <3>2. IsSeq(f[k + 1]) /\ ToSet(f[k + 1]) = ToSet(f[k]) \cup {s[k + 1]}
      BY <2>3, <3>1, AppendIsSeq, AppendToSet
    <3>3. \A i \in 1..(k + 1) : s[i] \in T => s[i] \in ToSet(f[k + 1])
      BY <2>1, <2>3, <3>2
    <3>4. ASSUME NEW i \in 1..(k + 1), NEW j \in 1..(k + 1), i < j, s[i] \in T, s[j] \in T
          PROVE  Before(f[k + 1], s[i], s[j])
      <4>1. i \in 1..k
        BY <1>1, <3>4 DEF n
      <4>2. CASE j = k + 1
        <5>1. s[i] \in ToSet(f[k])
          BY <2>3, <3>4, <4>1
        <5>2. QED
          BY <2>3, <3>1, <4>2, <5>1, BeforeAppend
      <4>3. CASE j \in 1..k
        <5>1. Before(f[k], s[i], s[j])
          BY <2>3, <3>4, <4>1, <4>3
        <5>2. QED
          BY <2>3, <3>1, <5>1, BeforeAppend
      <4>4. QED
        BY <2>1, <4>2, <4>3
    <3> HIDE DEF Good
    <3>5. Right(k + 1)
      BY <3>2, <3>3, <3>4
    <3>6. QED
      BY <2>1, <3>5 DEF Good
  <2>5. CASE s[k + 1] \notin T
    <3>1. f[k + 1] = f[k]
      BY <2>2, <2>5
    <3>2. \A i \in 1..(k + 1) : s[i] \in T => i \in 1..k
      BY <2>1, <2>5
    <3>3. Right(k + 1)
      BY <2>3, <3>1, <3>2
    <3>4. QED
      BY <2>1, <3>3
  <2>6. QED
    BY <2>4, <2>5
<1>5. Right(n)
  <2> HIDE DEF Good
  <2>1. n \in Nat /\ n \in 0..n
    BY <1>1 DEF n
  <2>2. \A k \in 0..n : k \in Good
    BY <1>3, <1>4, <2>1, Upward
  <2>3. n \in Good
    BY <2>1, <2>2
  <2>4. QED
    BY <2>3 DEF Good
<1>6. PICK i, j \in 1..Len(s) : i < j /\ s[i] = x /\ s[j] = y
  BY DEF Before
<1>7. QED
  BY <1>2, <1>5, <1>6 DEF n
-----------------------------------------------------------------------------
(* The nodes of a zone, by their addresses.                                *)

LEMMA PlaceInZone ==
    ASSUME NEW zone \in Nat, NEW o \in 1..(Width - 1)
    PROVE  zone * Width + o \in Nat /\ (zone * Width + o) \div Width = zone
<1>1. Width \in Nat /\ Width > 3 /\ o \in Nat /\ o < Width
  BY WidthAssumption
<1>2. zone * Width \in Nat
  BY <1>1
<1>3. QED
  BY <1>1, <1>2

LEMMA StationPlace ==
    ASSUME NEW zone \in Nat
    PROVE  LET s == StationAddr(zone)
           IN  /\ s \in Nat /\ s \div Width = zone
               /\ s - 1 \in Nat /\ (s - 1) \div Width = zone
<1> DEFINE o == Least(250, Width - 2)
<1>1. Width \in Nat /\ Width > 3
  BY WidthAssumption
<1>2. o \in 2..(Width - 1) /\ o \in 1..(Width - 1) /\ o - 1 \in 1..(Width - 1)
  BY <1>1 DEF Least
<1>3. zone * Width \in Nat
  BY <1>1
<1>4. StationAddr(zone) = zone * Width + o
  BY DEF StationAddr
<1> HIDE DEF o
<1>5. StationAddr(zone) - 1 = zone * Width + (o - 1)
  BY <1>2, <1>3, <1>4
<1>6. QED
  BY <1>2, <1>4, <1>5, PlaceInZone

\* Nodes, or devices, that share no address.
Addresses(S) ==
    /\ IsFiniteSet(S) /\ \A x \in S : x.ip \in Nat
    /\ \A x, y \in S : x.ip = y.ip => x = y

LEMMA ByAddressLists ==
    ASSUME NEW S, Addresses(S)
    PROVE  Lists(S, ByAddress(S))
<1> DEFINE R == {p \in S \X S : p[1].ip < p[2].ip}
           n == Cardinality(S)
           s == [i \in 1..n |-> CHOOSE x \in S : Cardinality({y \in S : y.ip < x.ip}) = i - 1]
<1>1. \A x, y \in S : <<x, y>> \in R <=> x.ip < y.ip
  OBVIOUS
<1> HIDE DEF R
<1>2. \A x \in S : RankOf(S, R, x) = Cardinality({y \in S : y.ip < x.ip})
  <2>1. \A x \in S : {y \in S : <<y, x>> \in R} = {y \in S : y.ip < x.ip}
    BY <1>1
  <2>2. QED
    BY <2>1 DEF RankOf
<1>3. IsStrictOrder(S, R)
  BY <1>1 DEF IsStrictOrder, Addresses
<1>4. \A i \in 1..n : \E x \in S : RankOf(S, R, x) = i - 1
  <2>1. IsRanked(S, R)
    BY <1>3, Ranked, Zenon DEF Addresses
  <2>2. QED
    BY <2>1 DEF IsRanked
<1>5. \A i \in 1..n : s[i] \in S /\ RankOf(S, R, s[i]) = i - 1
  <2> SUFFICES ASSUME NEW i \in 1..n PROVE s[i] \in S /\ RankOf(S, R, s[i]) = i - 1
    OBVIOUS
  <2>1. \E x \in S : Cardinality({y \in S : y.ip < x.ip}) = i - 1
    BY <1>2, <1>4
  <2>2. s[i] \in S /\ Cardinality({y \in S : y.ip < s[i].ip}) = i - 1
    BY <2>1
  <2>3. QED
    BY <1>2, <2>2
<1>6. s \in [1..n -> S]
  BY <1>5
<1>7. ByAddress(S) = s
  BY Zenon DEF ByAddress, InOrder
<1> HIDE DEF s
<1>8. Lists(S, s)
  BY <1>3, <1>5, <1>6, RanksList DEF Addresses
<1>9. QED
  BY <1>7, <1>8, Zenon

\* A list of nodes of one zone, each with its own address.
Zoned(zone, s) ==
    /\ IsSeq(s) /\ \A i \in 1..Len(s) : s[i].ip \in Nat /\ s[i].ip \div Width = zone
    /\ \A i, j \in 1..Len(s) : s[i].ip = s[j].ip => i = j

LEMMA ZonedMore ==
    ASSUME NEW zone, NEW s, Zoned(zone, s), NEW x, x.ip \in Nat, x.ip \div Width = zone,
           \A i \in 1..Len(s) : s[i].ip # x.ip
    PROVE  /\ Zoned(zone, <<x>> \o s) /\ Len(<<x>> \o s) = Len(s) + 1
           /\ ToSet(<<x>> \o s) = {x} \cup ToSet(s)
<1> DEFINE t == <<x>> \o s
<1>1. IsSeq(<<x>>) /\ Len(<<x>>) = 1 /\ <<x>>[1] = x /\ ToSet(<<x>>) = {x}
  BY DEF IsSeq, ToSet
<1>2. IsSeq(s) /\ Len(s) \in Nat
  BY SeqFacts DEF Zoned
<1>3. /\ IsSeq(t) /\ Len(t) = Len(<<x>>) + Len(s) /\ ToSet(t) = ToSet(<<x>>) \cup ToSet(s)
      /\ Within(<<x>>, t, 0) /\ Within(s, t, Len(<<x>>))
  BY <1>1, <1>2, ConcatFacts
<1> HIDE DEF t
<1>4. t[1] = x
  <2>1. t[0 + 1] = <<x>>[1]
    BY <1>1, <1>3 DEF Within
  <2>2. QED
    BY <1>1, <2>1
<1>5. \A i \in 1..Len(s) : t[1 + i] = s[i]
  BY <1>1, <1>3 DEF Within
<1>6. \A i \in 1..Len(t) : i = 1 \/ (i - 1 \in 1..Len(s) /\ t[i] = s[i - 1])
  <2> SUFFICES ASSUME NEW i \in 1..Len(t), i # 1 PROVE i - 1 \in 1..Len(s) /\ t[i] = s[i - 1]
    OBVIOUS
  <2>1. i - 1 \in 1..Len(s) /\ 1 + (i - 1) = i
    BY <1>1, <1>2, <1>3
  <2>2. QED
    BY <1>5, <2>1
<1>7. \A i \in 1..Len(t) : t[i].ip \in Nat /\ t[i].ip \div Width = zone
  BY <1>4, <1>6 DEF Zoned
<1>8. ASSUME NEW i \in 1..Len(t), NEW j \in 1..Len(t), t[i].ip = t[j].ip PROVE i = j
  <2>1. CASE i = 1 /\ j = 1
    BY <2>1
  <2>2. CASE i = 1 /\ j # 1
    BY <1>4, <1>6, <1>8, <2>2
  <2>3. CASE i # 1 /\ j = 1
    BY <1>4, <1>6, <1>8, <2>3
  <2>4. CASE i # 1 /\ j # 1
    <3>1. i - 1 \in 1..Len(s) /\ j - 1 \in 1..Len(s) /\ s[i - 1].ip = s[j - 1].ip
      BY <1>6, <1>8, <2>4
    <3>2. i - 1 = j - 1
      BY <3>1 DEF Zoned
    <3>3. QED
      BY <3>2
  <2>5. QED
    BY <2>1, <2>2, <2>3, <2>4
<1>9. Zoned(zone, t)
  BY <1>3, <1>7, <1>8 DEF Zoned
<1>10. QED
  BY <1>1, <1>2, <1>3, <1>9 DEF t

\* Assets of one zone, as ArpEdges takes them.
Reals(zone, S) ==
    /\ S # {} /\ Addresses(S)
    /\ \A a \in S : a = [ip |-> a.ip, mac |-> a.mac] /\ a.ip \div Width = zone

\* The nodes of a zone are its assets and at most two others, at addresses of their own.
NodesOK(zone, reals, nodes) ==
    /\ Zoned(zone, nodes) /\ Len(nodes) >= 2 /\ reals \subseteq ToSet(nodes)
    /\ \A x \in ToSet(nodes) : \A a \in reals : x.ip = a.ip => x = a

LEMMA ZoneNodesOK ==
    ASSUME NEW zone \in Nat, NEW reals, Reals(zone, reals)
    PROVE  NodesOK(zone, reals, ZoneNodes(zone, reals))
<1> DEFINE station == Station(zone)
           alt == [ip |-> station.ip - 1, mac |-> StableMac(station.ip - 1)]
           real == ByAddress(reals)
           nodes == IF station.ip \in {r.ip : r \in reals} THEN real ELSE <<station>> \o real
<1>1. /\ station.ip \in Nat /\ station.ip \div Width = zone
      /\ alt.ip \in Nat /\ alt.ip \div Width = zone /\ alt.ip # station.ip
  BY StationPlace DEF Station
<1>2. /\ IsSeq(real) /\ Len(real) = Cardinality(reals) /\ ToSet(real) = reals
      /\ \A i, j \in 1..Len(real) : real[i] = real[j] => i = j
  <2>1. Lists(reals, real)
    BY ByAddressLists DEF Reals
  <2> HIDE DEF real
  <2>2. QED
    BY <2>1, SeqIsSeq DEF Lists
<1>3. Cardinality(reals) \in Nat \ {0}
  BY FS_CardinalityType, FS_EmptySet DEF Reals, Addresses
<1> HIDE DEF real, station, alt
<1>4. Zoned(zone, real)
  <2>1. \A i \in 1..Len(real) : real[i] \in reals
    BY <1>2, SeqFacts
  <2>2. QED
    BY <1>2, <2>1 DEF Zoned, Reals, Addresses
<1>5. /\ Zoned(zone, nodes) /\ Len(nodes) \in Nat \ {0} /\ reals \subseteq ToSet(nodes)
      /\ \A x \in ToSet(nodes) : \A a \in reals : x.ip = a.ip => x = a
      /\ station.ip \in {x.ip : x \in ToSet(nodes)}
  <2>1. CASE station.ip \in {r.ip : r \in reals}
    <3>1. nodes = real
      BY <2>1
    <3>2. QED
      BY <1>2, <1>3, <1>4, <2>1, <3>1 DEF Reals, Addresses
  <2>2. CASE station.ip \notin {r.ip : r \in reals}
    <3>1. nodes = <<station>> \o real
      BY <2>2
    <3>2. \A i \in 1..Len(real) : real[i].ip # station.ip
      BY <1>2, <2>2, SeqFacts
    <3>3. /\ Zoned(zone, nodes) /\ Len(nodes) = Len(real) + 1
          /\ ToSet(nodes) = {station} \cup reals
      BY <1>1, <1>2, <1>4, <3>1, <3>2, ZonedMore
    <3>4. QED
      BY <1>2, <1>3, <2>2, <3>3 DEF Reals, Addresses
  <2>3. QED
    BY <2>1, <2>2
<1> HIDE DEF nodes
<1>6. ZoneNodes(zone, reals) = IF Len(nodes) = 1 THEN <<alt>> \o nodes ELSE nodes
  BY DEF ZoneNodes, nodes, station, alt, real
<1>7. CASE Len(nodes) # 1
  <2>1. ZoneNodes(zone, reals) = nodes
    BY <1>6, <1>7
  <2>2. Len(nodes) >= 2
    <3>1. \A m \in Nat \ {0} : m # 1 => m >= 2
      OBVIOUS
    <3>2. Len(nodes) \in Nat \ {0}
      BY <1>5
    <3>3. QED
      BY <1>7, <3>1, <3>2, Zenon
  <2>3. NodesOK(zone, reals, nodes)
    BY <1>5, <2>2, Zenon DEF NodesOK
  <2>4. QED
    BY <2>1, <2>3
<1>8. CASE Len(nodes) = 1
  <2>1. ToSet(nodes) = {nodes[1]} /\ IsSeq(nodes)
    BY <1>5, <1>8, SeqFacts DEF Zoned
  <2>2. \A i \in 1..Len(nodes) : nodes[i].ip = station.ip
    BY <1>5, <1>8, <2>1
  <2>3. \A a \in reals : a.ip = station.ip
    BY <1>5, <2>1, <2>2, <1>8
  <2>4. /\ Zoned(zone, <<alt>> \o nodes) /\ Len(<<alt>> \o nodes) = Len(nodes) + 1
        /\ ToSet(<<alt>> \o nodes) = {alt} \cup ToSet(nodes)
    BY <1>1, <1>5, <2>2, ZonedMore
  <2>5. QED
    BY <1>1, <1>5, <1>6, <1>8, <2>3, <2>4 DEF NodesOK
<1>9. QED
  BY <1>7, <1>8

-----------------------------------------------------------------------------
(* Who asks whom in a zone.                                                *)

Distinct(nodes) == \A i, j \in 1..Len(nodes) : nodes[i] = nodes[j] => i = j

LEMMA PartFacts ==
    ASSUME NEW S, NEW nodes \in Seq(S), NEW i \in Nat \ {0}, NEW cell, NEW a, NEW b,
           Part(nodes, i, cell, a, b)
    PROVE  a \in 1..Len(nodes) /\ b \in 1..Len(nodes) /\ Len(cell) = b - a + 1 /\ cell[1] = nodes[a]
<1>1. /\ Len(nodes) \in Nat /\ a \in 1..Len(nodes) /\ b \in (a + 1)..Len(nodes)
      /\ b \in 1..Len(nodes) /\ cell = SubSeq(nodes, a, b)
  BY LenProperties DEF Part
<1>2. \A j \in a..b : j \in 1..Len(nodes)
  BY <1>1
<1>3. 1 \in 1..(b - a + 1) /\ a + 1 - 1 = a
  BY <1>1
<1>4. Len(cell) = b - a + 1 /\ \A j \in 1..(b - a + 1) : cell[j] = nodes[a + j - 1]
  BY <1>1, <1>2, SubSeqProperties
<1>5. QED
  BY <1>1, <1>3, <1>4

\* A part of different nodes is at one place alone.
LEMMA PartPlace ==
    ASSUME NEW S, NEW nodes \in Seq(S), Distinct(nodes), NEW i \in Nat \ {0}, NEW k \in Nat \ {0},
           NEW cell, NEW a, NEW b, Part(nodes, i, cell, a, b), NEW x, NEW y,
           Part(nodes, k, cell, x, y)
    PROVE  a = x /\ b = y
<1>1. a \in 1..Len(nodes) /\ b \in 1..Len(nodes) /\ Len(cell) = b - a + 1 /\ cell[1] = nodes[a]
  BY PartFacts
<1>2. x \in 1..Len(nodes) /\ y \in 1..Len(nodes) /\ Len(cell) = y - x + 1 /\ cell[1] = nodes[x]
  BY PartFacts
<1>3. a = x
  BY <1>1, <1>2 DEF Distinct
<1>4. QED
  BY <1>1, <1>2, <1>3

\* No node is in two cells.
Apart(nodes, i, cells) ==
    \A c, d \in DOMAIN cells : \A a, b, x, y \in 1..Len(nodes) :
        c # d /\ Part(nodes, i, cells[c], a, b) /\ Part(nodes, i, cells[d], x, y) =>
            b < x \/ y < a

LEMMA CellsApartFrom ==
    ASSUME NEW S, NEW nodes \in Seq(S), Distinct(nodes)
    PROVE  \A i \in 1..(Len(nodes) + 1) : Apart(nodes, i, From(nodes)[i])
<1> DEFINE n == Len(nodes)
           D == 1..(n + 1)
           F == From(nodes)
           T(i) == Take(n - i + 1)
           Good == {i \in D : Apart(nodes, i, F[i])}
<1>1. n \in Nat
  BY LenProperties
<1>2. \A i \in 1..n : /\ T(i) \in 1..(n - i + 1)
                      /\ n - i + 1 # 1 => T(i) >= 2 /\ n - (i + T(i)) + 1 # 1
  <2> SUFFICES ASSUME NEW i \in 1..n
               PROVE  /\ T(i) \in 1..(n - i + 1)
                      /\ n - i + 1 # 1 => T(i) >= 2 /\ n - (i + T(i)) + 1 # 1
    OBVIOUS
  <2> DEFINE left == n - i + 1
  <2>1. left \in Nat \ {0}
    BY <1>1
  <2>2. Take(left) \in 1..left /\ (left # 1 => Take(left) >= 2 /\ left - Take(left) # 1)
    BY <2>1, TakeFacts
  <2>3. Take(left) \in Int
    BY <2>1, <2>2
  <2>4. n - (i + Take(left)) + 1 = left - Take(left)
    BY <1>1, <2>3
  <2>5. QED
    BY <2>2, <2>4
<1>3. /\ \A i \in D : i > n => F[i] = <<>>
      /\ \A i \in 1..n : F[i] = <<SubSeq(nodes, i, i + T(i) - 1)>> \o F[i + T(i)]
  <2>1. F = Grown(nodes, F)
    BY <1>1, FromExists
  <2>2. Grown(nodes, F) = [i \in D |-> IF i > n THEN <<>>
                              ELSE <<SubSeq(nodes, i, i + T(i) - 1)>> \o F[i + T(i)]]
    BY DEF Grown
  <2> HIDE DEF F, T
  <2>3. \A i \in D : F[i] = IF i > n THEN <<>>
                            ELSE <<SubSeq(nodes, i, i + T(i) - 1)>> \o F[i + T(i)]
    BY <2>1, <2>2
  <2>4. \A i \in 1..n : i \in D /\ ~(i > n)
    BY <1>1
  <2> HIDE DEF D, n
  <2>5. QED
    BY <2>3, <2>4
<1>4. \A i \in D : F[i] \in Seq(Seq(S)) /\ (n - i + 1 # 1 => Parted(nodes, i, F[i]))
  BY CellsFrom
<1> HIDE DEF F, T, n
<1>5. ASSUME NEW i \in D, \A j \in (i + 1)..(n + 1) : j \in Good
      PROVE  i \in Good
  <2>1. CASE i > n
    <3>1. F[i] = <<>> /\ DOMAIN <<>> = {}
      BY <1>3, <2>1
    <3>2. QED
      BY <3>1 DEF Apart
  <2>2. CASE i \in 1..n
    <3> DEFINE k == i + T(i)
               cell == SubSeq(nodes, i, k - 1)
               rest == F[k]
    <3>1. k \in (i + 1)..(n + 1) /\ k \in D
      BY <1>1, <1>2, <2>2
    <3>2. Apart(nodes, k, rest) /\ rest \in Seq(Seq(S))
      BY <1>4, <1>5, <3>1
    <3>3. F[i] = <<cell>> \o rest
      <4>1. F[i] = <<SubSeq(nodes, i, i + T(i) - 1)>> \o F[i + T(i)]
        BY <1>3, <2>2
      <4>2. k - 1 = i + T(i) - 1
        BY <1>1, <1>2, <2>2
      <4>3. QED
        BY <4>1, <4>2, Zenon
    <3>4. cell \in Seq(S)
      <4>1. i \in 1..n /\ k - 1 \in 1..n
        BY <1>1, <2>2, <3>1
      <4>2. \A j \in i..(k - 1) : j \in 1..n
        BY <1>1, <4>1
      <4>3. QED
        BY <1>1, <4>1, <4>2, SubSeqProperties DEF n
    <3>5. n - i + 1 # 1 => Parted(nodes, k, rest) /\ k >= i + 2
      <4> SUFFICES ASSUME n - i + 1 # 1 PROVE Parted(nodes, k, rest) /\ k >= i + 2
        OBVIOUS
      <4>1. T(i) \in 1..(n - i + 1) /\ T(i) >= 2 /\ n - k + 1 # 1
        BY <1>2, <2>2
      <4>2. Parted(nodes, k, rest)
        BY <1>4, <3>1, <4>1
      <4>3. k >= i + 2
        BY <1>1, <2>2, <4>1
      <4>4. QED
        BY <4>2, <4>3
    <3> HIDE DEF cell, rest, k
    <3>6. \A c \in DOMAIN F[i] : (c = 1 /\ F[i][c] = cell)
                                  \/ (c # 1 /\ c - 1 \in DOMAIN rest /\ F[i][c] = rest[c - 1])
      <4>1. /\ F[i][1] = cell
            /\ \A c \in DOMAIN F[i] : c = 1 \/ (c - 1 \in DOMAIN rest /\ F[i][c] = rest[c - 1])
        BY <3>2, <3>3, <3>4, InFront
      <4>2. QED
        BY <4>1
    <3>7. ASSUME NEW c \in DOMAIN F[i], NEW d \in DOMAIN F[i],
                 NEW a \in 1..n, NEW b \in 1..n, NEW x \in 1..n, NEW y \in 1..n,
                 c # d, Part(nodes, i, F[i][c], a, b), Part(nodes, i, F[i][d], x, y)
          PROVE  b < x \/ y < a
      <4>1. i # n
        BY <1>1, <3>7 DEF Part, n
      <4>2. Parted(nodes, k, rest) /\ k >= i + 2 /\ i + 1 \in 1..n
        <5>1. n - i + 1 # 1
          BY <1>1, <2>2, <4>1
        <5>2. QED
          BY <1>1, <2>2, <3>5, <4>1, <5>1
      <4>3. Part(nodes, i, cell, i, k - 1) /\ k - 1 \in Int
        <5>1. k - i <= CELL_SIZE
          BY <1>1, <2>2, TakeFacts DEF k, T
        <5>2. QED
          BY <1>1, <2>2, <3>1, <4>2, <5>1 DEF Part, n, cell, CELL_SIZE
      <4>4. \A e \in DOMAIN rest : \A p, q \in 1..n :
               Part(nodes, i, rest[e], p, q) => Part(nodes, k, rest[e], p, q)
        <5> SUFFICES ASSUME NEW e \in DOMAIN rest, NEW p \in 1..n, NEW q \in 1..n,
                            Part(nodes, i, rest[e], p, q)
                     PROVE  Part(nodes, k, rest[e], p, q)
          OBVIOUS
        <5>1. PICK u \in 1..n, v \in 1..n : Part(nodes, k, rest[e], u, v)
          BY <4>2 DEF Parted, n
        <5>2. i \in Nat \ {0} /\ k \in Nat \ {0}
          BY <1>1, <2>2, <3>1
        <5>3. p = u /\ q = v
          BY <5>1, <5>2, PartPlace
        <5>4. QED
          BY <5>1, <5>3
      <4>5. i \in Nat \ {0} /\ k \in Nat \ {0}
        BY <1>1, <2>2, <3>1
      <4>6. CASE c = 1 /\ d # 1
        <5>1. F[i][c] = cell /\ d - 1 \in DOMAIN rest /\ F[i][d] = rest[d - 1]
          BY <3>6, <4>6
        <5>2. a = i /\ b = k - 1
          BY <3>7, <4>3, <4>5, <5>1, PartPlace
        <5>3. Part(nodes, k, rest[d - 1], x, y)
          BY <3>7, <4>4, <5>1
        <5>4. QED
          BY <1>1, <4>5, <5>2, <5>3 DEF Part
      <4>7. CASE c # 1 /\ d = 1
        <5>1. F[i][d] = cell /\ c - 1 \in DOMAIN rest /\ F[i][c] = rest[c - 1]
          BY <3>6, <4>7
        <5>2. x = i /\ y = k - 1
          BY <3>7, <4>3, <4>5, <5>1, PartPlace
        <5>3. Part(nodes, k, rest[c - 1], a, b)
          BY <3>7, <4>4, <5>1
        <5>4. QED
          BY <1>1, <4>5, <5>2, <5>3 DEF Part
      <4>8. CASE c # 1 /\ d # 1
        <5>1. /\ c - 1 \in DOMAIN rest /\ F[i][c] = rest[c - 1]
              /\ d - 1 \in DOMAIN rest /\ F[i][d] = rest[d - 1]
          BY <3>6, <4>8
        <5>2. c - 1 # d - 1
          <6>1. F[i] \in Seq(Seq(S))
            BY <1>4
          <6>2. c \in Int /\ d \in Int
            BY SMTT(20), <6>1, LenProperties
          <6>3. QED
            BY <3>7, <6>2
        <5>3. Part(nodes, k, rest[c - 1], a, b) /\ Part(nodes, k, rest[d - 1], x, y)
          BY <3>7, <4>4, <5>1
        <5>4. QED
          BY <3>2, <5>1, <5>2, <5>3 DEF Apart, n
      <4>9. QED
        BY <3>7, <4>6, <4>7, <4>8
    <3>8. QED
      BY <3>7 DEF Apart, n
  <2>3. QED
    BY <1>1, <2>1, <2>2
<1>6. Good = D
  <2>1. n + 1 \in Nat /\ Good \in SUBSET (1..(n + 1))
    BY <1>1
  <2> HIDE DEF Good
  <2>2. QED
    BY <1>5, <2>1, Downward
<1>7. QED
  BY <1>6 DEF F, n

LEMMA CellsApart ==
    ASSUME NEW S, NEW nodes \in Seq(S), Distinct(nodes)
    PROVE  Apart(nodes, 1, Cells(nodes))
<1>1. Len(nodes) \in Nat
  BY LenProperties
<1>2. \A n \in Nat : 1 \in 1..(n + 1)
  OBVIOUS
<1>3. QED
  BY <1>1, <1>2, CellsApartFrom, CellsAreFrom

\* The edges of the cells of the nodes.
OfCells(nodes) == FlattenSeq([i \in DOMAIN Cells(nodes) |-> CellEdges(Cells(nodes)[i])])

\* An edge of the cell from a to b.
EdgeOf(nodes, a, b, e) ==
    \/ \E j \in 1..(b - a) : e = [requester |-> nodes[a], owner |-> nodes[a + j]]
    \/ e = [requester |-> nodes[a + 1], owner |-> nodes[a]]

LEMMA OfCellsFacts ==
    ASSUME NEW S, NEW nodes \in Seq(S), Len(nodes) >= 2
    PROVE  /\ IsSeq(OfCells(nodes))
           /\ \A e : e \in ToSet(OfCells(nodes)) <=>
                \E c \in DOMAIN Cells(nodes), a, b \in 1..Len(nodes) :
                    Part(nodes, 1, Cells(nodes)[c], a, b) /\ EdgeOf(nodes, a, b, e)
<1> DEFINE cells == Cells(nodes)
           ss == [i \in DOMAIN cells |-> CellEdges(cells[i])]
           n == Len(nodes)
<1>1. n \in Nat
  BY LenProperties
<1>2. Parted(nodes, 1, cells)
  BY CellsParted
<1>3. cells \in Seq(Seq(S))
  <2>1. \A m \in Nat : 1 \in 1..(m + 1)
    OBVIOUS
  <2>2. QED
    BY <1>1, <2>1, CellsFrom, CellsAreFrom
<1>4. Len(cells) \in Nat /\ DOMAIN cells = 1..Len(cells)
  BY <1>3, LenProperties
<1>5. OfCells(nodes) = FlattenSeq(ss)
  BY DEF OfCells
<1>6. \A c \in DOMAIN cells : \E a, b \in 1..n :
          Part(nodes, 1, cells[c], a, b) /\ Edges(nodes, a, b, CellEdges(cells[c]))
  <2> SUFFICES ASSUME NEW c \in DOMAIN cells
               PROVE  \E a, b \in 1..n :
                  Part(nodes, 1, cells[c], a, b) /\ Edges(nodes, a, b, CellEdges(cells[c]))
    OBVIOUS
  <2>1. PICK a \in 1..n, b \in 1..n : Part(nodes, 1, cells[c], a, b)
    BY <1>2 DEF Parted
  <2>2. Edges(nodes, a, b, CellEdges(cells[c]))
    BY <2>1, PartEdges, Zenon
  <2>3. QED
    BY <2>1, <2>2
<1> HIDE DEF cells
<1>7. /\ IsSeq(ss) /\ Len(ss) = Len(cells)
      /\ \A i \in 1..Len(cells) : ss[i] = CellEdges(cells[i])
  <2>1. ss = [i \in 1..Len(cells) |-> ss[i]]
    BY <1>4
  <2>2. \A i \in 1..Len(cells) : ss[i] = CellEdges(cells[i])
    BY <1>4
  <2> HIDE DEF ss
  <2>3. QED
    BY <1>4, <2>1, <2>2, FunctionIsSeq
<1> HIDE DEF ss
<1>8. \A i \in 1..Len(ss) : IsSeq(ss[i])
  BY <1>4, <1>6, <1>7 DEF Edges
<1>9. /\ IsSeq(FlattenSeq(ss))
      /\ ToSet(FlattenSeq(ss)) = UNION {ToSet(ss[k]) : k \in 1..Len(ss)}
  BY <1>7, <1>8, FlattenFacts
<1>10. \A a, b \in 1..n : \A edges : Edges(nodes, a, b, edges) /\ b > a =>
          \A e : e \in ToSet(edges) <=> EdgeOf(nodes, a, b, e)
  <2> SUFFICES ASSUME NEW a \in 1..n, NEW b \in 1..n, NEW edges, Edges(nodes, a, b, edges), b > a,
                      NEW e
               PROVE  e \in ToSet(edges) <=> EdgeOf(nodes, a, b, e)
    OBVIOUS
  <2>1. ToSet(edges) = {edges[j] : j \in 1..(b - a + 1)}
    BY SeqFacts DEF Edges
  <2>2. 1..(b - a + 1) = 1..(b - a) \cup {b - a + 1}
    BY <1>1
  <2>3. QED
    BY <2>1, <2>2 DEF Edges, EdgeOf
<1>11. \A c \in DOMAIN cells : \A a, b \in 1..n : Part(nodes, 1, cells[c], a, b) =>
          b > a /\ Edges(nodes, a, b, ss[c])
  <2> SUFFICES ASSUME NEW c \in DOMAIN cells, NEW a \in 1..n, NEW b \in 1..n,
                      Part(nodes, 1, cells[c], a, b)
               PROVE  b > a /\ Edges(nodes, a, b, ss[c])
    OBVIOUS
  <2>1. Edges(nodes, a, b, CellEdges(cells[c]))
    BY PartEdges, Zenon
  <2>2. b > a
    BY <1>1 DEF Part
  <2>3. QED
    BY <1>4, <1>7, <2>1, <2>2
<1>12. ASSUME NEW e
       PROVE  e \in ToSet(OfCells(nodes)) <=>
                \E c \in DOMAIN cells, a, b \in 1..n :
                    Part(nodes, 1, cells[c], a, b) /\ EdgeOf(nodes, a, b, e)
  <2>1. ASSUME e \in ToSet(OfCells(nodes))
        PROVE  \E c \in DOMAIN cells, a, b \in 1..n :
                    Part(nodes, 1, cells[c], a, b) /\ EdgeOf(nodes, a, b, e)
    <3>1. PICK c \in DOMAIN cells : e \in ToSet(ss[c])
      BY <1>4, <1>5, <1>7, <1>9, <2>1
    <3>2. PICK a \in 1..n, b \in 1..n : Part(nodes, 1, cells[c], a, b)
      BY <1>6
    <3>3. EdgeOf(nodes, a, b, e)
      BY <1>10, <1>11, <3>1, <3>2
    <3>4. QED
      BY <3>2, <3>3
  <2>2. ASSUME NEW c \in DOMAIN cells, NEW a \in 1..n, NEW b \in 1..n,
               Part(nodes, 1, cells[c], a, b), EdgeOf(nodes, a, b, e)
        PROVE  e \in ToSet(OfCells(nodes))
    <3>1. e \in ToSet(ss[c])
      BY <1>10, <1>11, <2>2
    <3>2. QED
      BY <1>4, <1>5, <1>7, <1>9, <3>1
  <2>3. QED
    BY <2>1, <2>2
<1>13. QED
  BY <1>5, <1>9, <1>12 DEF cells

\* Nobody is the first of more than CELL_SIZE - 1 of the pairs.
Few(A) ==
    \A r : LET Q == {q \in A : q[1] = r} IN IsFiniteSet(Q) /\ Cardinality(Q) <= CELL_SIZE - 1

Asking(edges) == {<<e.requester.ip, e.owner.ip>> : e \in ToSet(edges)}

LEMMA AtMost ==
    ASSUME NEW m \in Nat, NEW f, NEW Q, Q \subseteq {f[j] : j \in 1..m}, DOMAIN f = 1..m
    PROVE  IsFiniteSet(Q) /\ Cardinality(Q) <= m
<1>1. IsFiniteSet(1..m) /\ Cardinality(1..m) = m
  BY FS_Interval
<1> DEFINE T == {f[j] : j \in 1..m}
<1>2. IsFiniteSet(T) /\ Cardinality(T) <= m
  BY <1>1, ImageFinite
<1> HIDE DEF T
<1>3. IsFiniteSet(Q) /\ Cardinality(Q) <= Cardinality(T)
  BY <1>2, FS_Subset DEF T
<1>4. Cardinality(Q) \in Nat /\ Cardinality(T) \in Nat
  BY <1>2, <1>3, FS_CardinalityType
<1>5. QED
  BY <1>2, <1>3, <1>4

\* A node of one cell asks for the others of it, or for one of it.
LEMMA FewAsked ==
    ASSUME NEW zone, NEW nodes, Zoned(zone, nodes), Len(nodes) >= 2
    PROVE  Few(Asking(OfCells(nodes)))
<1> DEFINE n == Len(nodes)
           S == ToSet(nodes)
           cells == Cells(nodes)
           A == Asking(OfCells(nodes))
<1>1. nodes \in Seq(S) /\ n \in Nat
  BY SeqFacts DEF Zoned, IsSeq
<1>2. Parted(nodes, 1, cells)
  BY <1>1, CellsParted
<1>3. Distinct(nodes)
  BY DEF Zoned, Distinct
<1>4. Apart(nodes, 1, cells)
  BY <1>1, <1>3, CellsApart
<1>5. \A e : e \in ToSet(OfCells(nodes)) <=>
                \E c \in DOMAIN cells, a, b \in 1..n :
                    Part(nodes, 1, cells[c], a, b) /\ EdgeOf(nodes, a, b, e)
  BY <1>1, OfCellsFacts
<1> HIDE DEF cells
<1>6. SUFFICES ASSUME NEW r
               PROVE  /\ IsFiniteSet({q \in A : q[1] = r})
                      /\ Cardinality({q \in A : q[1] = r}) <= CELL_SIZE - 1
  BY DEF Few
<1> DEFINE Q == {q \in A : q[1] = r}
<1>7. \A q \in Q : \E c \in DOMAIN cells, a, b \in 1..n : \E e :
          /\ Part(nodes, 1, cells[c], a, b) /\ EdgeOf(nodes, a, b, e)
          /\ q = <<r, e.owner.ip>> /\ e.requester.ip = r
  BY <1>5 DEF Asking
<1> HIDE DEF Q, A, S
<1>8. CASE \E k \in 1..n : nodes[k].ip = r
  <2>1. PICK k \in 1..n : nodes[k].ip = r
    BY <1>8
  <2>2. PICK c \in DOMAIN cells, a \in 1..n, b \in 1..n :
            Part(nodes, 1, cells[c], a, b) /\ k \in a..b
    BY <1>2, <2>1 DEF Parted
  <2>3. a < b /\ b - a <= CELL_SIZE - 1 /\ a + 1 \in 1..n
    BY <1>1, <2>2 DEF Part, CELL_SIZE
  <2>4. ASSUME NEW q \in Q
        PROVE  \/ k = a /\ \E j \in 1..(b - a) : q = <<r, nodes[a + j].ip>>
               \/ k = a + 1 /\ q = <<r, nodes[a].ip>>
    <3>0. PICK d \in DOMAIN cells, x \in 1..n, y \in 1..n : \E e :
              /\ Part(nodes, 1, cells[d], x, y) /\ EdgeOf(nodes, x, y, e)
              /\ q = <<r, e.owner.ip>> /\ e.requester.ip = r
      BY <1>7, Zenon
    <3>1. PICK e : /\ Part(nodes, 1, cells[d], x, y) /\ EdgeOf(nodes, x, y, e)
                   /\ q = <<r, e.owner.ip>> /\ e.requester.ip = r
      BY <3>0
    <3>2. x < y /\ x + 1 \in 1..n
      BY <1>1, <3>1 DEF Part
    <3>3. k \in {x, x + 1}
      <4>1. e.requester = nodes[x] \/ e.requester = nodes[x + 1]
        BY <3>1 DEF EdgeOf
      <4>2. QED
        BY <2>1, <3>1, <3>2, <4>1 DEF Zoned
    <3>4. d = c
      <4>1. ~(b < x) /\ ~(y < a)
        BY <1>1, <2>2, <3>2, <3>3
      <4>2. QED
        BY <1>4, <2>2, <3>1, <4>1 DEF Apart
    <3>5. x = a /\ y = b
      BY <1>1, <1>3, <2>2, <3>1, <3>4, PartPlace
    <3>6. CASE \E j \in 1..(b - a) : e = [requester |-> nodes[a], owner |-> nodes[a + j]]
      <4>1. PICK j \in 1..(b - a) : e = [requester |-> nodes[a], owner |-> nodes[a + j]]
        BY <3>6
      <4>2. nodes[a].ip = r /\ q = <<r, nodes[a + j].ip>>
        BY <3>1, <4>1
      <4>3. k = a
        BY <2>1, <2>2, <4>2 DEF Zoned
      <4>4. QED
        BY <4>2, <4>3
    <3>7. CASE e = [requester |-> nodes[a + 1], owner |-> nodes[a]]
      <4>1. nodes[a + 1].ip = r /\ q = <<r, nodes[a].ip>>
        BY <3>1, <3>7
      <4>2. k = a + 1
        BY <2>1, <2>3, <4>1 DEF Zoned
      <4>3. QED
        BY <4>1, <4>2
    <3>8. QED
      BY <3>1, <3>5, <3>6, <3>7 DEF EdgeOf
  <2> DEFINE m == IF k = a THEN b - a ELSE 1
             f == [j \in 1..m |-> IF k = a THEN <<r, nodes[a + j].ip>> ELSE <<r, nodes[a].ip>>]
  <2>5. m \in Nat /\ m <= CELL_SIZE - 1
    BY <1>1, <2>3 DEF CELL_SIZE
  <2>6. Q \subseteq {f[j] : j \in 1..m}
    <3>1. ASSUME NEW q \in Q PROVE \E j \in 1..m : q = f[j]
      <4>1. CASE k = a
        <5>0. k # a + 1
          BY <1>1, <4>1
        <5>1. PICK j \in 1..(b - a) : q = <<r, nodes[a + j].ip>>
          BY <2>4, <5>0, Zenon
        <5>2. QED
          BY <4>1, <5>1
      <4>2. CASE k # a
        <5>1. q = <<r, nodes[a].ip>> /\ 1 \in 1..m
          BY <2>4, <4>2
        <5>2. QED
          BY <4>2, <5>1
      <4>3. QED
        BY <4>1, <4>2
    <3>2. QED
      BY <3>1
  <2>7. DOMAIN f = 1..m
    OBVIOUS
  <2> HIDE DEF f, m
  <2>8. IsFiniteSet(Q) /\ Cardinality(Q) <= m
    BY <2>5, <2>6, <2>7, AtMost
  <2>9. IsFiniteSet(Q) /\ Cardinality(Q) <= CELL_SIZE - 1
    <3>1. Cardinality(Q) \in Nat
      BY <2>8, FS_CardinalityType
    <3>2. QED
      BY <2>5, <2>8, <3>1 DEF CELL_SIZE
  <2>10. QED
    BY <2>9 DEF Q
<1>9. CASE ~\E k \in 1..n : nodes[k].ip = r
  <2>1. Q = {}
    <3> SUFFICES ASSUME NEW q \in Q PROVE FALSE
      OBVIOUS
    <3>0. PICK d \in DOMAIN cells, x \in 1..n, y \in 1..n : \E e :
              /\ Part(nodes, 1, cells[d], x, y) /\ EdgeOf(nodes, x, y, e)
              /\ q = <<r, e.owner.ip>> /\ e.requester.ip = r
      BY <1>7, Zenon
    <3>1. PICK e : /\ Part(nodes, 1, cells[d], x, y) /\ EdgeOf(nodes, x, y, e)
                   /\ q = <<r, e.owner.ip>> /\ e.requester.ip = r
      BY <3>0
    <3>2. x + 1 \in 1..n
      BY <1>1, <3>1 DEF Part
    <3>3. e.requester = nodes[x] \/ e.requester = nodes[x + 1]
      BY <3>1 DEF EdgeOf
    <3>4. QED
      BY <1>9, <3>1, <3>2, <3>3
  <2>2. IsFiniteSet(Q) /\ Cardinality(Q) <= CELL_SIZE - 1
    BY <2>1, FS_EmptySet DEF CELL_SIZE
  <2>3. QED
    BY <2>2 DEF Q
<1>10. QED
  BY <1>8, <1>9

\* What the edges of a zone are, of whose nodes the assets are some.
ZoneEdges(zone, reals, edges) ==
    /\ IsSeq(edges)
    /\ \A a \in reals : \E e \in ToSet(edges) : e.owner = a
    /\ \A e \in ToSet(edges) :
        /\ e.requester.ip \div Width = zone /\ e.owner.ip \div Width = zone
        /\ \A a \in reals : e.owner.ip = a.ip => e.owner = a
    /\ Few(Asking(edges))

LEMMA ZoneEdgesOK ==
    ASSUME NEW zone \in Nat, NEW reals, Reals(zone, reals)
    PROVE  ZoneEdges(zone, reals, OfCells(ZoneNodes(zone, reals)))
<1> DEFINE nodes == ZoneNodes(zone, reals)
           n == Len(nodes)
<1>1. NodesOK(zone, reals, nodes)
  BY ZoneNodesOK
<1> HIDE DEF nodes
<1>2. /\ Zoned(zone, nodes) /\ n >= 2 /\ n \in Nat /\ nodes \in Seq(ToSet(nodes))
      /\ ToSet(nodes) = {nodes[i] : i \in 1..n}
  BY <1>1, SeqFacts DEF NodesOK, Zoned, IsSeq
<1>3. /\ IsSeq(OfCells(nodes))
      /\ \A e : e \in ToSet(OfCells(nodes)) <=>
                \E c \in DOMAIN Cells(nodes), a, b \in 1..n :
                    Part(nodes, 1, Cells(nodes)[c], a, b) /\ EdgeOf(nodes, a, b, e)
  BY <1>2, OfCellsFacts
<1>4. Few(Asking(OfCells(nodes)))
  BY <1>2, FewAsked
<1>5. ASSUME NEW x \in reals PROVE \E e \in ToSet(OfCells(nodes)) : e.owner = x
  <2>1. PICK i \in 1..n : nodes[i] = x
    BY <1>1, <1>2 DEF NodesOK
  <2>2. Parted(nodes, 1, Cells(nodes))
    BY <1>2, CellsParted
  <2>3. PICK c \in DOMAIN Cells(nodes), a \in 1..n, b \in 1..n :
            Part(nodes, 1, Cells(nodes)[c], a, b) /\ i \in a..b
    BY <2>2 DEF Parted
  <2>4. CASE i = a
    <3> DEFINE e == [requester |-> nodes[a + 1], owner |-> nodes[a]]
    <3>1. EdgeOf(nodes, a, b, e)
      BY DEF EdgeOf
    <3>2. e \in ToSet(OfCells(nodes))
      BY <1>3, <2>3, <3>1
    <3>3. QED
      BY <2>1, <2>4, <3>2
  <2>5. CASE i # a
    <3> DEFINE e == [requester |-> nodes[a], owner |-> nodes[a + (i - a)]]
    <3>1. i - a \in 1..(b - a) /\ a + (i - a) = i
      <4> HIDE DEF n
      <4>1. n \in Nat /\ i \in a..b
        BY <1>2, <2>3
      <4>2. QED
        BY <2>5, <4>1
    <3>2. EdgeOf(nodes, a, b, e)
      BY <3>1 DEF EdgeOf
    <3>3. e \in ToSet(OfCells(nodes))
      BY <1>3, <2>3, <3>2
    <3>4. QED
      BY <2>1, <3>1, <3>3
  <2>6. QED
    BY <2>4, <2>5
<1>6. ASSUME NEW e \in ToSet(OfCells(nodes))
      PROVE  /\ e.requester.ip \div Width = zone /\ e.owner.ip \div Width = zone
             /\ \A x \in reals : e.owner.ip = x.ip => e.owner = x
  <2>1. PICK c \in DOMAIN Cells(nodes), a \in 1..n, b \in 1..n :
            Part(nodes, 1, Cells(nodes)[c], a, b) /\ EdgeOf(nodes, a, b, e)
    BY <1>3
  <2>2. a + 1 \in 1..n /\ \A j \in 1..(b - a) : a + j \in 1..n
    <3>1. b \in (a + 1)..n /\ n \in Nat
      BY <1>2, <2>1 DEF Part
    <3> HIDE DEF n
    <3>2. QED
      BY <3>1
  <2>3. \E p, o \in 1..n : e.requester = nodes[p] /\ e.owner = nodes[o]
    BY <2>1, <2>2 DEF EdgeOf
  <2>4. e.requester \in ToSet(nodes) /\ e.owner \in ToSet(nodes)
    BY <1>2, <2>3
  <2>5. \A x \in ToSet(nodes) : x.ip \div Width = zone
    <3>1. \A k \in 1..n : nodes[k].ip \div Width = zone
      BY <1>2, Zenon DEF Zoned
    <3>2. QED
      BY <1>2, <3>1, Zenon
  <2>6. \A y \in ToSet(nodes) : \A x \in reals : y.ip = x.ip => y = x
    BY <1>1, Zenon DEF NodesOK
  <2>7. QED
    BY <2>4, <2>5, <2>6, Zenon
<1>7. QED
  BY <1>3, <1>4, <1>5, <1>6 DEF ZoneEdges, nodes

-----------------------------------------------------------------------------
(* Who asks whom in a plant.                                               *)

\* Assets that share no address, each in the zone of its address.
Plant(assets) == Addresses(assets) /\ \A a \in assets : InZone(a)

EdgesOK(assets, edges) ==
    /\ IsSeq(edges)
    /\ \A a \in assets : \E e \in ToSet(edges) : e.owner = [ip |-> a.ip, mac |-> a.mac]
    /\ \A e \in ToSet(edges) : \A a \in assets : e.owner.ip = a.ip => e.owner.mac = a.mac
    /\ Few(Asking(edges))

OfZone(assets, z) == {[ip |-> a.ip, mac |-> a.mac] : a \in {b \in assets : b.zone = z}}

LEMMA ZoneReals ==
    ASSUME NEW assets, Plant(assets), NEW z \in {a.zone : a \in assets}
    PROVE  z \in Nat /\ Reals(z, OfZone(assets, z))
<1> DEFINE T == {b \in assets : b.zone = z}
           f == [a \in T |-> [ip |-> a.ip, mac |-> a.mac]]
<1>1. Width \in Nat /\ Width > 3
  BY WidthAssumption
<1>2. \A a \in assets : a.ip \in Nat /\ a.zone = a.ip \div Width
  BY DEF Plant, InZone
<1>3. z \in Nat /\ T # {}
  <2>1. \A i \in Nat : i \div Width \in Nat
    BY <1>1
  <2>2. QED
    BY <1>2, <2>1
<1>4. IsFiniteSet(T)
  BY FS_Subset DEF Plant, Addresses
<1>5. OfZone(assets, z) = {f[a] : a \in T} /\ DOMAIN f = T
  BY DEF OfZone
<1>6. IsFiniteSet(OfZone(assets, z))
  <2> HIDE DEF f, T
  <2>1. QED
    BY <1>4, <1>5, ImageFinite
<1>7. \A x \in OfZone(assets, z) : \E a \in T : x = [ip |-> a.ip, mac |-> a.mac]
  BY DEF OfZone
<1>8. OfZone(assets, z) # {}
  BY <1>3 DEF OfZone
<1>9. Addresses(OfZone(assets, z))
  <2>1. \A x \in OfZone(assets, z) : x.ip \in Nat
    BY <1>2, <1>7
  <2>2. ASSUME NEW x \in OfZone(assets, z), NEW y \in OfZone(assets, z), x.ip = y.ip PROVE x = y
    <3>1. PICK a \in T : x = [ip |-> a.ip, mac |-> a.mac]
      BY <1>7
    <3>2. PICK b \in T : y = [ip |-> b.ip, mac |-> b.mac]
      BY <1>7
    <3>3. a = b
      BY <2>2, <3>1, <3>2 DEF Plant, Addresses
    <3>4. QED
      BY <3>1, <3>2, <3>3
  <2>3. QED
    BY <1>6, <2>1, <2>2 DEF Addresses
<1>10. \A x \in OfZone(assets, z) : x = [ip |-> x.ip, mac |-> x.mac] /\ x.ip \div Width = z
  BY <1>2, <1>7
<1>11. QED
  BY <1>3, <1>8, <1>9, <1>10 DEF Reals

LEMMA ArpEdgesOK ==
    ASSUME NEW assets, Plant(assets)
    PROVE  EdgesOK(assets, ArpEdges(assets))
<1> DEFINE Zones == {a.zone : a \in assets}
           zones == InOrder(Zones, <)
           Z(z) == OfCells(ZoneNodes(z, OfZone(assets, z)))
           ss == [i \in DOMAIN zones |-> Z(zones[i])]
           edges == FlattenSeq(ss)
<1>1. ArpEdges(assets) = edges
  BY DEF ArpEdges, OfCells, OfZone
<1>2. \A z \in Zones : z \in Nat /\ Reals(z, OfZone(assets, z))
  BY ZoneReals
<1>3. \A z \in Zones : ZoneEdges(z, OfZone(assets, z), Z(z))
  BY <1>2, ZoneEdgesOK
<1>4. IsFiniteSet(Zones)
  <2> DEFINE f == [a \in assets |-> a.zone]
  <2>1. IsFiniteSet(assets) /\ DOMAIN f = assets /\ Zones = {f[a] : a \in assets}
    BY DEF Plant, Addresses
  <2> HIDE DEF f, Zones
  <2>2. QED
    BY <2>1, ImageFinite
<1>5. Lists(Zones, zones)
  <2>1. Zones \in SUBSET Int
    BY <1>2
  <2> HIDE DEF Zones
  <2>2. QED
    BY <1>4, <2>1, AscendingLists
<1> HIDE DEF zones, Z
<1> DEFINE n == Len(zones)
<1>6. /\ n \in Nat /\ DOMAIN zones = 1..n /\ Zones = {zones[i] : i \in 1..n}
      /\ \A i, j \in 1..n : zones[i] = zones[j] => i = j
  <2> HIDE DEF Zones
  <2>1. zones \in Seq(Zones) /\ ToSet(zones) = Zones /\ \A i, j \in 1..n : zones[i] = zones[j] => i = j
    BY <1>5 DEF Lists
  <2>2. IsSeq(zones)
    BY <2>1, SeqIsSeq
  <2>3. QED
    BY <2>1, <2>2, SeqFacts
<1>7. \A i \in 1..n : ZoneEdges(zones[i], OfZone(assets, zones[i]), Z(zones[i]))
  BY <1>3, <1>6
<1>8. IsSeq(ss) /\ Len(ss) = n /\ \A i \in 1..n : ss[i] = Z(zones[i])
  <2>1. ss = [i \in 1..n |-> ss[i]] /\ \A i \in 1..n : ss[i] = Z(zones[i])
    BY <1>6
  <2> HIDE DEF ss
  <2>2. QED
    BY <1>6, <2>1, FunctionIsSeq
<1> HIDE DEF ss
<1>9. \A i \in 1..n : ZoneEdges(zones[i], OfZone(assets, zones[i]), ss[i])
  BY <1>7, <1>8
<1>10. IsSeq(edges) /\ ToSet(edges) = UNION {ToSet(ss[i]) : i \in 1..n}
  BY <1>8, <1>9, FlattenFacts DEF ZoneEdges
<1> HIDE DEF edges, n
<1>11. ASSUME NEW a \in assets
       PROVE  \E e \in ToSet(edges) : e.owner = [ip |-> a.ip, mac |-> a.mac]
  <2>1. PICK i \in 1..n : zones[i] = a.zone
    BY <1>6
  <2>2. [ip |-> a.ip, mac |-> a.mac] \in OfZone(assets, zones[i])
    BY <2>1 DEF OfZone
  <2>3. PICK e \in ToSet(ss[i]) : e.owner = [ip |-> a.ip, mac |-> a.mac]
    BY <1>9, <2>2 DEF ZoneEdges
  <2>4. QED
    BY <1>10, <2>3
<1>12. ASSUME NEW e \in ToSet(edges), NEW a \in assets, e.owner.ip = a.ip
       PROVE  e.owner.mac = a.mac
  <2>1. PICK i \in 1..n : e \in ToSet(ss[i])
    BY <1>10
  <2>2. e.owner.ip \div Width = zones[i]
    BY <1>9, <2>1 DEF ZoneEdges
  <2>3. a.zone = zones[i]
    BY <1>12, <2>2 DEF Plant, InZone
  <2>4. [ip |-> a.ip, mac |-> a.mac] \in OfZone(assets, zones[i])
    BY <2>3 DEF OfZone
  <2>5. e.owner = [ip |-> a.ip, mac |-> a.mac]
    <3>1. \A x \in OfZone(assets, zones[i]) : e.owner.ip = x.ip => e.owner = x
      BY <1>9, <2>1 DEF ZoneEdges
    <3>2. QED
      BY <1>12, <2>4, <3>1
  <2>6. QED
    BY <2>5
<1>13. ASSUME NEW r
       PROVE  /\ IsFiniteSet({q \in Asking(edges) : q[1] = r})
              /\ Cardinality({q \in Asking(edges) : q[1] = r}) <= CELL_SIZE - 1
  <2> DEFINE Q == {q \in Asking(edges) : q[1] = r}
  <2>1. CASE Q = {}
    BY <2>1, FS_EmptySet DEF CELL_SIZE
  <2>2. CASE Q # {}
    <3>1. \A q \in Q : \E i \in 1..n : zones[i] = r \div Width /\ q \in Asking(ss[i])
      <4> SUFFICES ASSUME NEW q \in Q
                   PROVE  \E i \in 1..n : zones[i] = r \div Width /\ q \in Asking(ss[i])
        OBVIOUS
      <4>1. PICK e \in ToSet(edges) : q = <<e.requester.ip, e.owner.ip>>
        BY DEF Asking
      <4>2. PICK i \in 1..n : e \in ToSet(ss[i])
        BY <1>10
      <4>3. e.requester.ip \div Width = zones[i] /\ e.requester.ip = r
        BY <1>9, <4>1, <4>2 DEF ZoneEdges
      <4>4. q \in Asking(ss[i])
        BY <4>1, <4>2 DEF Asking
      <4>5. QED
        BY <4>3, <4>4
    <3>2. PICK i \in 1..n : zones[i] = r \div Width
      BY <2>2, <3>1
    <3> DEFINE U == {q \in Asking(ss[i]) : q[1] = r}
    <3>3. Q \subseteq U
      BY <1>6, <3>1, <3>2 DEF n
    <3>4. IsFiniteSet(U) /\ Cardinality(U) <= CELL_SIZE - 1
      <4>1. Few(Asking(ss[i]))
        BY <1>9 DEF ZoneEdges
      <4>2. QED
        BY <4>1 DEF Few
    <3> HIDE DEF U, Q
    <3>5. IsFiniteSet(Q) /\ Cardinality(Q) <= Cardinality(U)
      BY <3>3, <3>4, FS_Subset
    <3>6. Cardinality(U) \in Nat /\ Cardinality(Q) \in Nat
      BY <3>4, <3>5, FS_CardinalityType
    <3>7. Cardinality(Q) <= CELL_SIZE - 1
      BY <3>4, <3>5, <3>6 DEF CELL_SIZE
    <3>8. QED
      BY <3>5, <3>7 DEF Q
  <2>3. QED
    BY <2>1, <2>2
<1>14. Few(Asking(edges))
  BY <1>13 DEF Few
<1>15. QED
  BY <1>1, <1>10, <1>11, <1>12, <1>14 DEF EdgesOK

-----------------------------------------------------------------------------
(* The resolutions of a burst, among its other frames.                     *)

\* The two frames of Resolve.
Question(r, o) == [kind |-> "who_has", src |-> r.ip, dst |-> o.ip, smac |-> r.mac]
Answer(r, o) == [kind |-> "is_at", src |-> o.ip, dst |-> r.ip, smac |-> o.mac]

\* Who is asked for by whom in a set of frames.
Asks(S) == {<<f.src, f.dst>> : f \in {g \in S : g.kind = "who_has"}}

\* What makes every asset known and nobody look like a scanner.
ArpOK(assets, frames) ==
    /\ IsSeq(frames)
    /\ \A a \in assets : \E r : Before(frames, Question(r, a), Answer(r, a))
    /\ \A f \in ToSet(frames) : f.kind = "is_at" => \A a \in assets : f.src = a.ip => f.smac = a.mac
    /\ Few(Asks(ToSet(frames)))

\* Frames of conversations, and what switches say.
Quiet(frames) ==
    IsSeq(frames) /\ \A f \in ToSet(frames) : f.kind \in {"tcp", "udp", "lldp", "cdp"}

LEMMA QuietEmpty == Quiet(<<>>)
  BY DEF Quiet, IsSeq, ToSet

LEMMA QuietConcat ==
    ASSUME NEW s, Quiet(s), NEW t, Quiet(t)
    PROVE  Quiet(s \o t)
<1>1. IsSeq(s \o t) /\ ToSet(s \o t) = ToSet(s) \cup ToSet(t)
  BY ConcatFacts DEF Quiet
<1>2. QED
  BY <1>1 DEF Quiet

LEMMA QuietFlatten ==
    ASSUME NEW ss, IsSeq(ss), \A k \in 1..Len(ss) : Quiet(ss[k])
    PROVE  Quiet(FlattenSeq(ss))
<1>1. \A k \in 1..Len(ss) : IsSeq(ss[k]) /\ \A f \in ToSet(ss[k]) : f.kind \in {"tcp", "udp", "lldp", "cdp"}
  BY DEF Quiet
<1>2. /\ IsSeq(FlattenSeq(ss))
      /\ ToSet(FlattenSeq(ss)) = UNION {ToSet(ss[k]) : k \in 1..Len(ss)}
  BY <1>1, FlattenFacts
<1>3. QED
  BY <1>1, <1>2 DEF Quiet

LEMMA FewLess ==
    ASSUME NEW A, Few(A), NEW B, B \subseteq A
    PROVE  Few(B)
<1> SUFFICES ASSUME NEW r
             PROVE  /\ IsFiniteSet({q \in B : q[1] = r})
                    /\ Cardinality({q \in B : q[1] = r}) <= CELL_SIZE - 1
  BY DEF Few
<1> DEFINE Q == {q \in A : q[1] = r}
           U == {q \in B : q[1] = r}
<1>1. IsFiniteSet(Q) /\ Cardinality(Q) <= CELL_SIZE - 1
  BY DEF Few
<1>2. U \subseteq Q
  OBVIOUS
<1> HIDE DEF Q, U
<1>3. IsFiniteSet(U) /\ Cardinality(U) <= Cardinality(Q)
  BY <1>1, <1>2, FS_Subset
<1>4. Cardinality(U) \in Nat /\ Cardinality(Q) \in Nat
  BY <1>1, <1>3, FS_CardinalityType
<1>5. Cardinality(U) <= CELL_SIZE - 1
  BY <1>1, <1>3, <1>4 DEF CELL_SIZE
<1>6. QED
  BY <1>3, <1>5 DEF U

LEMMA ResolvesOK ==
    ASSUME NEW assets, NEW edges, EdgesOK(assets, edges)
    PROVE  ArpOK(assets, FlattenSeq([i \in DOMAIN edges |->
                            Resolve(edges[i].requester, edges[i].owner)]))
<1> DEFINE R(i) == Resolve(edges[i].requester, edges[i].owner)
           ss == [i \in DOMAIN edges |-> R(i)]
           frames == FlattenSeq(ss)
           n == Len(edges)
           Q(i) == Question(edges[i].requester, edges[i].owner)
           A(i) == Answer(edges[i].requester, edges[i].owner)
<1>1. IsSeq(edges) /\ n \in Nat /\ DOMAIN edges = 1..n /\ ToSet(edges) = {edges[i] : i \in 1..n}
  BY SeqFacts DEF EdgesOK
<1>2. \A i \in 1..n : R(i) = <<Q(i), A(i)>>
  BY DEF Resolve, Question, Answer
<1> HIDE DEF R
<1>3. IsSeq(ss) /\ Len(ss) = n /\ \A i \in 1..n : ss[i] = <<Q(i), A(i)>>
  <2>1. ss = [i \in 1..n |-> ss[i]] /\ \A i \in 1..n : ss[i] = R(i)
    BY <1>1
  <2> HIDE DEF ss, Q, A
  <2>2. QED
    BY <1>1, <1>2, <2>1, FunctionIsSeq
<1> HIDE DEF ss
<1>4. \A x, y : /\ IsSeq(<<x, y>>) /\ ToSet(<<x, y>>) = {x, y} /\ Before(<<x, y>>, x, y)
                /\ Len(<<x, y>>) \in Nat
  BY DEF IsSeq, ToSet, Before
<1>5. \A i \in 1..n : IsSeq(ss[i]) /\ ToSet(ss[i]) = {Q(i), A(i)} /\ Before(ss[i], Q(i), A(i))
                       /\ Len(ss[i]) \in Nat
  <2> HIDE DEF Q, A, n
  <2> SUFFICES ASSUME NEW i \in 1..n
               PROVE  /\ IsSeq(ss[i]) /\ ToSet(ss[i]) = {Q(i), A(i)} /\ Before(ss[i], Q(i), A(i))
                      /\ Len(ss[i]) \in Nat
    OBVIOUS
  <2>1. ss[i] = <<Q(i), A(i)>>
    BY <1>3
  <2> DEFINE p == <<Q(i), A(i)>>
  <2>2. IsSeq(p) /\ ToSet(p) = {Q(i), A(i)} /\ Before(p, Q(i), A(i)) /\ Len(p) \in Nat
    BY <1>4, Zenon
  <2> HIDE DEF p
  <2>3. ss[i] = p
    BY <2>1 DEF p
  <2>4. QED
    BY <2>2, <2>3, Zenon
<1>6. /\ IsSeq(frames) /\ ToSet(frames) = UNION {ToSet(ss[i]) : i \in 1..n}
      /\ \A i \in 1..n : \E m : Within(ss[i], frames, m)
  <2> HIDE DEF n
  <2>1. \A k \in 1..Len(ss) : IsSeq(ss[k])
    BY <1>3, <1>5
  <2>2. QED
    BY <1>3, <2>1, FlattenFacts
<1> HIDE DEF frames, n
<1>7. \A f \in ToSet(frames) : \E i \in 1..n : f \in {Q(i), A(i)}
  BY <1>5, <1>6
<1>8. ASSUME NEW a \in assets PROVE \E r : Before(frames, Question(r, a), Answer(r, a))
  <2>1. PICK i \in 1..n : edges[i].owner = [ip |-> a.ip, mac |-> a.mac]
    BY <1>1 DEF EdgesOK
  <2>2. Q(i) = Question(edges[i].requester, a) /\ A(i) = Answer(edges[i].requester, a)
    BY <2>1 DEF Question, Answer
  <2>3. PICK m : Within(ss[i], frames, m)
    BY <1>6
  <2>4. Len(frames) \in Nat
    BY <1>6, SeqFacts
  <2> HIDE DEF Q, A
  <2>5. Before(frames, Q(i), A(i))
    BY <1>5, <2>3, <2>4, BeforeWithin
  <2>6. QED
    BY <2>2, <2>5
<1>9. ASSUME NEW f \in ToSet(frames), f.kind = "is_at", NEW a \in assets, f.src = a.ip
      PROVE  f.smac = a.mac
  <2>1. PICK i \in 1..n : f \in {Q(i), A(i)}
    BY <1>7
  <2>2. f = A(i)
    BY <1>9, <2>1 DEF Question, Answer
  <2>3. f.src = edges[i].owner.ip /\ f.smac = edges[i].owner.mac
    BY <2>2 DEF Answer
  <2>4. edges[i] \in ToSet(edges)
    BY <1>1
  <2>5. QED
    BY <1>9, <2>3, <2>4 DEF EdgesOK
<1>10. Asks(ToSet(frames)) \subseteq Asking(edges)
  <2> SUFFICES ASSUME NEW f \in ToSet(frames), f.kind = "who_has"
               PROVE  <<f.src, f.dst>> \in Asking(edges)
    BY DEF Asks
  <2>1. PICK i \in 1..n : f \in {Q(i), A(i)}
    BY <1>7
  <2>2. f = Q(i)
    BY <2>1 DEF Question, Answer
  <2>3. f.src = edges[i].requester.ip /\ f.dst = edges[i].owner.ip
    BY <2>2 DEF Question
  <2>4. edges[i] \in ToSet(edges)
    BY <1>1
  <2>5. QED
    BY <2>3, <2>4 DEF Asking
<1>11. Few(Asks(ToSet(frames)))
  BY <1>10, FewLess DEF EdgesOK
<1>12. ArpOK(assets, frames)
  BY <1>6, <1>8, <1>9, <1>11 DEF ArpOK
<1>13. QED
  BY <1>12 DEF frames, ss, R

LEMMA ArpConcat ==
    ASSUME NEW assets, NEW s, ArpOK(assets, s), NEW t, Quiet(t)
    PROVE  ArpOK(assets, s \o t)
<1>1. /\ IsSeq(s) /\ Len(s) \in Nat /\ IsSeq(t)
      /\ \A f \in ToSet(t) : f.kind \notin {"who_has", "is_at"}
  BY SeqFacts DEF ArpOK, Quiet
<1>2. IsSeq(s \o t) /\ ToSet(s \o t) = ToSet(s) \cup ToSet(t) /\ Within(s, s \o t, 0)
  BY <1>1, ConcatFacts
<1> DEFINE u == s \o t
<1>3. Len(u) \in Nat
  BY <1>2, SeqFacts
<1> HIDE DEF u
<1>4. ASSUME NEW a \in assets PROVE \E r : Before(u, Question(r, a), Answer(r, a))
  <2>1. PICK r : Before(s, Question(r, a), Answer(r, a))
    BY DEF ArpOK
  <2>2. Before(u, Question(r, a), Answer(r, a))
    BY <1>1, <1>2, <1>3, <2>1, BeforeWithin DEF u
  <2>3. QED
    BY <2>2
<1>5. Asks(ToSet(u)) = Asks(ToSet(s))
  BY <1>1, <1>2 DEF Asks, u
<1>6. Few(Asks(ToSet(u)))
  BY <1>5 DEF ArpOK
<1>7. \A f \in ToSet(u) : f.kind = "is_at" => f \in ToSet(s)
  BY <1>1, <1>2 DEF u
<1>8. QED
  BY <1>2, <1>4, <1>6, <1>7 DEF ArpOK, u

LEMMA ArpKept ==
    ASSUME NEW assets, NEW s, ArpOK(assets, s)
    PROVE  ArpOK(assets, Kept(s, {f \in ToSet(s) : Sendable(f)}))
<1> DEFINE T == {f \in ToSet(s) : Sendable(f)}
           u == Kept(s, T)
<1>1. IsSeq(s) /\ ToSet(s) = {s[i] : i \in 1..Len(s)}
  BY SeqFacts DEF ArpOK
<1>2. IsSeq(u) /\ ToSet(u) = ToSet(s) \cap T
  BY <1>1, KeptFacts
<1>3. ASSUME NEW a \in assets PROVE \E r : Before(u, Question(r, a), Answer(r, a))
  <2>1. PICK r : Before(s, Question(r, a), Answer(r, a))
    BY DEF ArpOK
  <2>2. Question(r, a) \in ToSet(s) /\ Answer(r, a) \in ToSet(s)
    BY <1>1, <2>1 DEF Before
  <2>3. Sendable(Question(r, a)) /\ Sendable(Answer(r, a))
    BY DEF Sendable, Question, Answer
  <2>4. Question(r, a) \in T /\ Answer(r, a) \in T
    BY <2>2, <2>3
  <2> HIDE DEF T
  <2>5. Before(u, Question(r, a), Answer(r, a))
    BY <1>1, <2>1, <2>4, KeptOrder
  <2>6. QED
    BY <2>5
<1> HIDE DEF u
<1>4. Asks(ToSet(u)) \subseteq Asks(ToSet(s))
  BY <1>2 DEF Asks
<1>5. Few(Asks(ToSet(u)))
  BY <1>4, FewLess DEF ArpOK
<1>6. ArpOK(assets, u)
  BY <1>2, <1>3, <1>5 DEF ArpOK
<1>7. QED
  BY <1>6 DEF u

-----------------------------------------------------------------------------
(* Conversations.                                                          *)

\* Messages of a client and a server.
Said(script) == IsSeq(script) /\ \A m \in ToSet(script) : m.by \in {"client", "server"}

LEMMA OneSaid ==
    ASSUME NEW m, m.by \in {"client", "server"}
    PROVE  Said(<<m>>)
  BY DEF Said, IsSeq, ToSet

LEMMA TwoSaid ==
    ASSUME NEW m, m.by \in {"client", "server"}, NEW k, k.by \in {"client", "server"}
    PROVE  Said(<<m, k>>)
  BY DEF Said, IsSeq, ToSet

LEMMA SaidConcat ==
    ASSUME NEW s, Said(s), NEW t, Said(t)
    PROVE  Said(s \o t)
<1>1. IsSeq(s \o t) /\ ToSet(s \o t) = ToSet(s) \cup ToSet(t)
  BY ConcatFacts DEF Said
<1>2. QED
  BY <1>1 DEF Said

LEMMA SaidFlatten ==
    ASSUME NEW ss, IsSeq(ss), \A k \in 1..Len(ss) : Said(ss[k])
    PROVE  Said(FlattenSeq(ss))
<1>1. \A k \in 1..Len(ss) : IsSeq(ss[k]) /\ \A m \in ToSet(ss[k]) : m.by \in {"client", "server"}
  BY DEF Said
<1>2. /\ IsSeq(FlattenSeq(ss))
      /\ ToSet(FlattenSeq(ss)) = UNION {ToSet(ss[k]) : k \in 1..Len(ss)}
  BY <1>1, FlattenFacts
<1>3. QED
  BY <1>1, <1>2 DEF Said

LEMMA MessageBy ==
    ASSUME NEW op, NEW no, NEW len
    PROVE  /\ Ask(op, no).by = "client" /\ Reply(op, no).by = "server"
           /\ Carrying(Ask(op, no), len).by = "client"
           /\ Carrying(Reply(op, no), len).by = "server"
  BY DEF Ask, Reply, Carrying

LEMMA PairSaid ==
    ASSUME NEW op, NEW no
    PROVE  Said(Pair(op, no))
  BY MessageBy, TwoSaid DEF Pair

LEMMA S7Said ==
    ASSUME NEW calls, Said(calls)
    PROVE  Said(S7(calls))
<1>1. Said(Pair("cotp", 1) \o Pair("setup", 0))
  BY PairSaid, SaidConcat
<1>2. QED
  BY <1>1, SaidConcat DEF S7

LEMMA S7DownloadSaid ==
    ASSUME NEW len
    PROVE  Said(S7Download(len))
<1>1. Said(<<Carrying(Ask("download_block", 0), len), Carrying(Reply("download_block", 0), len)>>)
  BY MessageBy, TwoSaid
<1>2. Said(Pair("request_download", 0)) /\ Said(Pair("download_ended", 0))
  BY PairSaid
<1> DEFINE x == Pair("request_download", 0)
           y == <<Carrying(Ask("download_block", 0), len),
                  Carrying(Reply("download_block", 0), len)>>
           z == Pair("download_ended", 0)
<1>3. S7Download(len) = S7(x \o y \o z)
  BY DEF S7Download
<1> HIDE DEF x, y, z
<1>4. Said(x \o y)
  BY <1>1, <1>2, SaidConcat DEF x, y
<1>5. Said(x \o y \o z)
  BY <1>2, <1>4, SaidConcat DEF z
<1>6. QED
  BY <1>3, <1>5, S7Said

LEMMA Iec104Said ==
    ASSUME NEW op
    PROVE  Said(Iec104(op))
<1> DEFINE Info(by, ns, nr) == [Ask(op, ns) EXCEPT !.by = by, !.kind = "info", !.nr = nr]
           m1 == Info("client", 0, 0)
           m2 == Info("server", 0, 1)
           m3 == Info("server", 1, 1)
           m4 == [Info("client", NoNumber, 2) EXCEPT !.kind = "ack"]
<1>1. Iec104(op) = Pair("startdt", NoNumber) \o <<m1, m2, m3, m4>>
  BY DEF Iec104
<1>2. \A by, ns, nr : Info(by, ns, nr).by = by
  BY DEF Ask
<1>3. m4.by = "client"
  BY DEF Ask
<1>4. /\ m1.by \in {"client", "server"} /\ m2.by \in {"client", "server"}
      /\ m3.by \in {"client", "server"} /\ m4.by \in {"client", "server"}
  BY <1>2, <1>3
<1> HIDE DEF m1, m2, m3, m4
<1>5. Said(<<m1, m2, m3, m4>>)
  BY <1>4 DEF Said, IsSeq, ToSet
<1>6. QED
  BY <1>1, <1>5, PairSaid, SaidConcat

LEMMA TristationSaid ==
    ASSUME NEW len \in Nat, NEW chunk \in Nat
    PROVE  Said(TristationDownload(len, chunk))
<1> DEFINE size == IF chunk = 0 THEN 1 ELSE chunk
           n == (len + size - 1) \div size
           C(i) == <<Carrying(Ask("download", i - 1),
                                IF i * size <= len THEN size ELSE len - (i - 1) * size),
                       Reply("download", NoNumber)>>
           chunks == [i \in 1..n |-> C(i)]
           x == Pair("allocate", NoNumber)
           y == FlattenSeq(chunks)
           z == Pair("set_state", NoNumber)
<1>1. TristationDownload(len, chunk) = x \o y \o z
  BY DEF TristationDownload
<1>2. n \in Nat
  <2>1. size \in Nat \ {0}
    OBVIOUS
  <2> HIDE DEF size
  <2>2. len + size - 1 \in Nat
    BY <2>1
  <2>3. \A a \in Nat, b \in Nat \ {0} : a \div b \in Nat
    OBVIOUS
  <2>4. QED
    BY <2>1, <2>2, <2>3
<1>3. \A i \in 1..n : Said(C(i))
  <2> SUFFICES ASSUME NEW i \in 1..n PROVE Said(C(i))
    OBVIOUS
  <2> DEFINE part == IF i * size <= len THEN size ELSE len - (i - 1) * size
             m == Carrying(Ask("download", i - 1), part)
             k == Reply("download", NoNumber)
  <2> HIDE DEF part, n, size
  <2>1. m.by \in {"client", "server"} /\ k.by \in {"client", "server"}
    BY MessageBy
  <2> HIDE DEF m, k
  <2>2. Said(<<m, k>>)
    BY <2>1, TwoSaid
  <2>3. QED
    BY <2>2 DEF m, k, part, size
<1> HIDE DEF n, C
<1>4. IsSeq(chunks) /\ Len(chunks) = n /\ \A i \in 1..n : chunks[i] = C(i)
  <2>1. chunks = [i \in 1..n |-> chunks[i]] /\ \A i \in 1..n : chunks[i] = C(i)
    OBVIOUS
  <2> HIDE DEF chunks
  <2>2. QED
    BY <1>2, <2>1, FunctionIsSeq
<1> HIDE DEF chunks
<1>5. Said(y)
  BY <1>3, <1>4, SaidFlatten
<1>6. Said(x) /\ Said(z)
  BY PairSaid
<1> HIDE DEF x, y, z
<1>7. Said(x \o y)
  BY <1>5, <1>6, SaidConcat
<1>8. QED
  BY <1>1, <1>6, <1>7, SaidConcat

-----------------------------------------------------------------------------
(* Their frames.                                                           *)

LEMMA QuietDatagrams ==
    ASSUME NEW client, NEW server, NEW cport, NEW sport, NEW script, IsSeq(script)
    PROVE  Quiet(Datagrams(client, server, cport, sport, script))
<1> DEFINE n == Len(script)
           D(i) == Datagram(client, server, cport, sport, script[i])
           s == [i \in DOMAIN script |-> D(i)]
<1>1. n \in Nat /\ DOMAIN script = 1..n
  BY SeqFacts
<1>2. \A i : D(i).kind = "udp"
  BY DEF Datagram
<1> HIDE DEF D, n
<1>3. s = [i \in 1..n |-> s[i]] /\ \A i \in 1..n : s[i] = D(i)
  BY <1>1
<1>4. Datagrams(client, server, cport, sport, script) = s
  BY DEF Datagrams, D
<1> HIDE DEF s
<1>5. IsSeq(s) /\ ToSet(s) = {s[i] : i \in 1..n}
  BY <1>1, <1>3, FunctionIsSeq
<1>6. QED
  BY <1>2, <1>3, <1>4, <1>5 DEF Quiet

\* What Session has of its segments, each time it makes one.
SegmentsOf(acc) ==
    acc = [client |-> acc.client, server |-> acc.server, frames |-> acc.frames]
      /\ IsSeq(acc.frames)

LEMMA SegmentOK ==
    ASSUME NEW acc, SegmentsOf(acc), NEW s, s.msg.by \in {"client", "server"}
    PROVE  SegmentsOf(Segment(acc, s))
<1> DEFINE other == IF s.msg.by = "client" THEN "server" ELSE "client"
           consumed == s.msg.len + (IF s.flags \cap {"syn", "fin"} # {} THEN 1 ELSE 0)
           frame == [seq |-> acc[s.msg.by], ack |-> acc[other], flags |-> s.flags,
                                 msg |-> s.msg]
           next == (acc[s.msg.by] + consumed) % SeqSpan
           frames == Append(acc.frames, frame)
<1>1. Segment(acc, s) = [acc EXCEPT !.frames = frames, ![s.msg.by] = next]
  <2>1. Segment(acc, s) = [acc EXCEPT !.frames = Append(@, frame), ![s.msg.by] = (@ + consumed) % SeqSpan]
    BY DEF Segment
  <2> HIDE DEF frame, consumed
  <2>2. QED
    BY <2>1 DEF SegmentsOf
<1>2. IsSeq(frames)
  BY AppendIsSeq DEF SegmentsOf
<1> HIDE DEF frames, next
<1>3. CASE s.msg.by = "client"
  <2>1. Segment(acc, s) = [client |-> next, server |-> acc.server, frames |-> frames]
    BY <1>1, <1>3 DEF SegmentsOf
  <2>2. QED
    BY <1>2, <2>1 DEF SegmentsOf
<1>4. CASE s.msg.by = "server"
  <2>1. Segment(acc, s) = [client |-> acc.client, server |-> next, frames |-> frames]
    BY <1>1, <1>4 DEF SegmentsOf
  <2>2. QED
    BY <1>2, <2>1 DEF SegmentsOf
<1>5. QED
  BY <1>3, <1>4

LEMMA SegmentsSaid ==
    ASSUME NEW script, Said(script)
    PROVE  /\ IsSeq(Segments(script))
           /\ \A i \in 1..Len(Segments(script)) :
                Segments(script)[i].msg.by \in {"client", "server"}
<1> DEFINE Bare(by, flags) ==
              [flags |-> flags, msg |-> [Ask("none", NoNumber) EXCEPT !.by = by, !.kind = "none",
                                                                      !.len = 0]]
           b1 == Bare("client", {"syn"})
           b2 == Bare("server", {"syn", "ack"})
           b3 == Bare("client", {"ack"})
           b4 == Bare("client", {"fin", "ack"})
           b5 == Bare("server", {"ack"})
           b6 == Bare("server", {"fin", "ack"})
           P(i) == [flags |-> {"psh", "ack"}, msg |-> script[i]]
           said == [i \in DOMAIN script |-> P(i)]
           By(x) == x.msg.by \in {"client", "server"}
<1>1. Segments(script) = <<b1, b2, b3>> \o said \o <<b4, b5, b6, b3>>
  BY DEF Segments
<1>2. \A by, flags : Bare(by, flags).msg.by = by
  BY DEF Ask
<1>3. By(b1) /\ By(b2) /\ By(b3) /\ By(b4) /\ By(b5) /\ By(b6)
  BY <1>2
<1> HIDE DEF Bare, b1, b2, b3, b4, b5, b6
<1>4. Len(script) \in Nat /\ DOMAIN script = 1..Len(script)
      /\ ToSet(script) = {script[i] : i \in 1..Len(script)}
  BY SeqFacts DEF Said
<1>5. \A i \in 1..Len(script) : By(P(i))
  BY <1>4 DEF Said
<1>6. IsSeq(said) /\ \A x \in ToSet(said) : By(x)
  <2> HIDE DEF P, By
  <2>1. said = [i \in 1..Len(script) |-> said[i]] /\ \A i \in 1..Len(script) : said[i] = P(i)
    BY <1>4
  <2> HIDE DEF said
  <2>2. IsSeq(said) /\ ToSet(said) = {said[i] : i \in 1..Len(script)}
    BY <1>4, <2>1, FunctionIsSeq
  <2>3. QED
    BY <1>5, <2>1, <2>2
<1> HIDE DEF By, said
<1>7. IsSeq(<<b1, b2, b3>>) /\ \A x \in ToSet(<<b1, b2, b3>>) : By(x)
  BY <1>3 DEF IsSeq, ToSet
<1>8. IsSeq(<<b4, b5, b6, b3>>) /\ \A x \in ToSet(<<b4, b5, b6, b3>>) : By(x)
  BY <1>3 DEF IsSeq, ToSet
<1> DEFINE u == <<b1, b2, b3>>
           v == <<b4, b5, b6, b3>>
<1> HIDE DEF u, v
<1>9. IsSeq(u \o said) /\ ToSet(u \o said) = ToSet(u) \cup ToSet(said)
  BY <1>6, <1>7, ConcatFacts DEF u
<1>10. IsSeq(u \o said \o v) /\ ToSet(u \o said \o v) = ToSet(u \o said) \cup ToSet(v)
  BY <1>8, <1>9, ConcatFacts DEF v
<1>11. \A x \in ToSet(u \o said \o v) : By(x)
  BY <1>6, <1>7, <1>8, <1>9, <1>10 DEF u, v
<1>12. Segments(script) = u \o said \o v
  BY <1>1 DEF u, v
<1> DEFINE w == u \o said \o v
<1> HIDE DEF w
<1>13. IsSeq(w) /\ \A i \in 1..Len(w) : w[i] \in ToSet(w)
  BY <1>10, SeqFacts DEF w
<1>14. QED
  BY <1>11, <1>12, <1>13 DEF By, w

Segmenting == INSTANCE ListProofs WITH Op <- Segment

LEMMA QuietSession ==
    ASSUME NEW client, NEW server, NEW cport, NEW sport, NEW script, Said(script)
    PROVE  Quiet(Session(client, server, cport, sport, script))
<1> DEFINE start == [client |-> (client.ip + cport) % SeqSpan,
                     server |-> (7 * server.ip) % SeqSpan, frames |-> <<>>]
           list == Segments(script)
           end == FoldLeft(Segment, start, list)
           segments == end.frames
<1>1. IsSeq(list) /\ \A i \in 1..Len(list) : list[i].msg.by \in {"client", "server"}
  BY SegmentsSaid
<1>2. SegmentsOf(start)
  BY DEF SegmentsOf, IsSeq, ToSet
<1> HIDE DEF start, list
<1>3. SegmentsOf(end)
  <2>1. PICK v : Segmenting!Folded(list, start, v) /\ Segmenting!FoldLeft(Segment, start, list) = v[Len(list)]
    BY <1>1, Segmenting!FoldSteps DEF IsSeq
  <2>2. end = v[Len(list)]
    BY <2>1 DEF FoldLeft, MapThenFoldSet, Max, Segmenting!FoldLeft, Segmenting!MapThenFoldSet, Segmenting!Max
  <2>3. v[0] = start /\ \A k \in 1..Len(list) : v[k] = Segment(v[k - 1], list[k])
    BY <2>1 DEF Segmenting!Folded
  <2> DEFINE n == Len(list)
             T == {k \in 0..n : SegmentsOf(v[k])}
  <2>4. n \in Nat
    BY <1>1, SeqFacts
  <2> HIDE DEF n
  <2>5. 0 \in T
    BY <1>2, <2>3, <2>4
  <2>6. ASSUME NEW k \in 0..(n - 1), k \in T PROVE k + 1 \in T
    <3>1. k + 1 \in 1..n /\ k + 1 \in 0..n /\ (k + 1) - 1 = k
      BY <2>4
    <3>2. v[k + 1] = Segment(v[k], list[k + 1]) /\ list[k + 1].msg.by \in {"client", "server"}
      BY <1>1, <2>3, <3>1 DEF n
    <3>3. SegmentsOf(v[k + 1])
      BY <2>6, <3>2, SegmentOK
    <3>4. QED
      BY <3>1, <3>3
  <2> HIDE DEF T
  <2>7. \A k \in 0..n : k \in T
    BY <2>4, <2>5, <2>6, Upward
  <2>8. n \in 0..n
    BY <2>4
  <2>9. SegmentsOf(v[n])
    BY <2>7, <2>8 DEF T
  <2>10. QED
    BY <2>2, <2>9 DEF n
<1>4. IsSeq(segments)
  BY <1>3 DEF SegmentsOf
<1> DEFINE n == Len(segments)
           Frame(s, d) ==
             [kind |-> "tcp", src |-> d.src, dst |-> d.dst, smac |-> d.smac, dmac |-> d.dmac,
              conn |-> d.conn, msg |-> d.msg, seq |-> s.seq, ack |-> s.ack, flags |-> s.flags]
           F(i) == Frame(segments[i], Datagram(client, server, cport, sport, segments[i].msg))
           frames == [i \in DOMAIN segments |-> F(i)]
<1>5. Session(client, server, cport, sport, script) = frames
  BY DEF Session, start, list
<1> HIDE DEF segments
<1>6. n \in Nat /\ DOMAIN segments = 1..n
  BY <1>4, SeqFacts
<1>7. \A i : F(i).kind = "tcp"
  OBVIOUS
<1> HIDE DEF F, n
<1>8. frames = [i \in 1..n |-> frames[i]] /\ \A i \in 1..n : frames[i] = F(i)
  BY <1>6
<1> HIDE DEF frames
<1>9. IsSeq(frames) /\ ToSet(frames) = {frames[i] : i \in 1..n}
  BY <1>6, <1>8, FunctionIsSeq
<1>10. QED
  BY <1>5, <1>7, <1>8, <1>9 DEF Quiet

-----------------------------------------------------------------------------
(* The identity burst.                                                     *)

Spoken == {"enip", "modbus", "s7", "snmp"}

\* What a plan is at any time: see IsPlant.
PlanOK(p) ==
    /\ IsSeq(p.devices) /\ IsFiniteSet(p.hosts)
    /\ \A d \in ToSet(p.devices) :
        InZone(d) /\ (d.cve => d.protocol \in Spoken) /\ \A h \in p.hosts : d.ip # h.ip
    /\ \A i, j \in 1..Len(p.devices) : p.devices[i].ip = p.devices[j].ip => i = j
    /\ \A h, g \in p.hosts : InZone(h) /\ (h.ip = g.ip => h = g)

LEMMA DevicesFacts ==
    ASSUME NEW p, PlanOK(p)
    PROVE  /\ Len(p.devices) \in Nat /\ DOMAIN p.devices = 1..Len(p.devices)
           /\ ToSet(p.devices) = {p.devices[i] : i \in 1..Len(p.devices)}
           /\ Addresses(ToSet(p.devices))
<1>1. /\ Len(p.devices) \in Nat /\ DOMAIN p.devices = 1..Len(p.devices)
      /\ ToSet(p.devices) = {p.devices[i] : i \in 1..Len(p.devices)}
  BY SeqFacts DEF PlanOK
<1> DEFINE n == Len(p.devices)
           f == [i \in 1..n |-> p.devices[i]]
<1>2. IsFiniteSet(ToSet(p.devices))
  <2>1. IsFiniteSet(1..n) /\ DOMAIN f = 1..n
    BY <1>1, FS_Interval
  <2>2. ToSet(p.devices) = {f[i] : i \in 1..n}
    BY <1>1
  <2> HIDE DEF f, n
  <2>3. IsFiniteSet({f[i] : i \in 1..n})
    BY <2>1, ImageFinite
  <2>4. QED
    BY <2>2, <2>3, Zenon
<1>3. \A d \in ToSet(p.devices) : d.ip \in Nat
  BY DEF PlanOK, InZone
<1>4. \A d, e \in ToSet(p.devices) : d.ip = e.ip => d = e
  BY <1>1 DEF PlanOK
<1>5. QED
  BY <1>1, <1>2, <1>3, <1>4 DEF Addresses

LEMMA PlantOfPlan ==
    ASSUME NEW p, PlanOK(p)
    PROVE  Plant(Assets(p))
<1> DEFINE n == Len(p.devices)
           a(i) == [ip |-> p.devices[i].ip, mac |-> p.devices[i].mac, zone |-> p.devices[i].zone]
           f == [i \in 1..n |-> a(i)]
           T == {f[i] : i \in 1..n}
<1>1. /\ n \in Nat /\ DOMAIN p.devices = 1..n /\ \A i \in 1..n : p.devices[i] \in ToSet(p.devices)
  BY DevicesFacts
<1>2. Assets(p) = T \cup p.hosts
  BY <1>1 DEF Assets
<1>3. IsFiniteSet(T)
  <2>1. IsFiniteSet(1..n) /\ DOMAIN f = 1..n
    BY <1>1, FS_Interval
  <2> HIDE DEF f, n
  <2>2. QED
    BY <2>1, ImageFinite
<1>4. \A x \in T : \E i \in 1..n : x = a(i) /\ InZone(p.devices[i]) /\ x.ip = p.devices[i].ip
  <2>1. \A x \in T : \E i \in 1..n : x = a(i)
    OBVIOUS
  <2>2. \A i \in 1..n : InZone(p.devices[i])
    BY <1>1 DEF PlanOK
  <2>3. \A i : a(i).ip = p.devices[i].ip
    OBVIOUS
  <2> HIDE DEF a, T
  <2>4. QED
    BY <2>1, <2>2, <2>3
<1>5. \A x \in T : InZone(x)
  <2>1. \A i \in 1..n : InZone(p.devices[i]) => InZone(a(i))
    BY DEF InZone
  <2>2. QED
    BY <1>4, <2>1
<1>6. \A x, y \in T : x.ip = y.ip => x = y
  <2> SUFFICES ASSUME NEW x \in T, NEW y \in T, x.ip = y.ip PROVE x = y
    OBVIOUS
  <2>1. PICK i \in 1..n : x = a(i) /\ x.ip = p.devices[i].ip
    BY <1>4
  <2>2. PICK j \in 1..n : y = a(j) /\ y.ip = p.devices[j].ip
    BY <1>4
  <2>3. i = j
    BY <2>1, <2>2 DEF PlanOK
  <2>4. QED
    BY <2>1, <2>2, <2>3
<1>7. \A x \in T : \A h \in p.hosts : x.ip # h.ip
  <2>1. \A i \in 1..n : \A h \in p.hosts : p.devices[i].ip # h.ip
    BY <1>1 DEF PlanOK
  <2>2. \A x \in T : \E i \in 1..n : x.ip = p.devices[i].ip
    BY <1>4
  <2> HIDE DEF T, n
  <2>3. QED
    BY <2>1, <2>2
<1> HIDE DEF T
<1>8. IsFiniteSet(Assets(p))
  <2>1. IsFiniteSet(p.hosts)
    BY DEF PlanOK
  <2>2. QED
    BY <1>2, <1>3, <2>1, FS_Union
<1>9. \A x \in Assets(p) : InZone(x) /\ x.ip \in Nat
  BY <1>2, <1>5 DEF PlanOK, InZone
<1>10. \A x, y \in Assets(p) : x.ip = y.ip => x = y
  BY <1>2, <1>6, <1>7 DEF PlanOK
<1>11. QED
  BY <1>8, <1>9, <1>10 DEF Plant, Addresses

LEMMA QuietIdentity ==
    ASSUME NEW d, d.protocol \in Spoken, NEW client, NEW beacons, NEW n
    PROVE  Quiet(AssertIdentity(d, client, beacons, n))
<1> DEFINE port == EphemeralPort(n, d.ip)
           b == IF beacons /\ d.class \notin Infra THEN <<Lldp(d), Cdp(d)>> ELSE <<>>
           snmp == Datagrams(client, End(d), port, 161, Snmp(Ids + (n % Ids)))
<1>1. /\ Said(ListIdentity) /\ Said(DeviceId) /\ Said(ReadSzl) /\ Said(Snmp(Ids + (n % Ids)))
  BY PairSaid, S7Said DEF ListIdentity, DeviceId, Modbus, ReadSzl, Snmp
<1>2. /\ Quiet(Datagrams(client, End(d), port, 44818, ListIdentity))
      /\ Quiet(Session(client, End(d), port, 502, DeviceId))
      /\ Quiet(Session(client, End(d), port, 102, ReadSzl))
      /\ Quiet(snmp)
  BY <1>1, QuietDatagrams, QuietSession DEF Said
<1>3. Quiet(b)
  <2>1. Quiet(<<Lldp(d), Cdp(d)>>)
    BY DEF Quiet, IsSeq, ToSet, Lldp, Cdp
  <2>2. QED
    BY <2>1, QuietEmpty
<1> HIDE DEF snmp, b
<1>4. Quiet(b \o snmp)
  BY <1>2, <1>3, QuietConcat
<1>5. AssertIdentity(d, client, beacons, n) =
        CASE d.protocol = "enip" -> Datagrams(client, End(d), port, 44818, ListIdentity)
          [] d.protocol = "modbus" -> Session(client, End(d), port, 502, DeviceId)
          [] d.protocol = "s7" -> Session(client, End(d), port, 102, ReadSzl)
          [] d.protocol = "snmp" -> b \o snmp
  BY DEF AssertIdentity, b, snmp
<1>6. QED
  BY <1>2, <1>4, <1>5 DEF Spoken

LEMMA QuietName ==
    ASSUME NEW devices, NEW d, NEW n
    PROVE  Quiet(AskName(devices, d, n))
<1> DEFINE resolvers == SelectSeq(devices, LAMBDA e : e.class = "Firewall" /\ e.zone = d.zone)
           talk == Datagrams(End(d), End(Last(resolvers)), EphemeralPort(n, d.ip), 53,
                             Dns(BitXor(n, d.ip) % 65536))
<1>1. AskName(devices, d, n) = IF ~d.named \/ resolvers = <<>> \/ Last(resolvers).ip = d.ip
                               THEN <<>> ELSE talk
  BY DEF AskName
<1>2. IsSeq(Dns(BitXor(n, d.ip) % 65536))
  BY PairSaid DEF Dns, Said
<1>3. Quiet(talk)
  BY <1>2, QuietDatagrams
<1> HIDE DEF resolvers, talk
<1>4. QED
  BY <1>1, <1>3, QuietEmpty

\* Who is polled from another zone is a device of the plan, and can answer.
LEMMA CrossingsFacts ==
    ASSUME NEW p, PlanOK(p), NEW zones, IsFiniteSet(zones)
    PROVE  /\ IsSeq(Crossings(p.devices, zones, NsMost))
           /\ \A c \in ToSet(Crossings(p.devices, zones, NsMost)) : c.server.protocol \in Spoken
<1> DEFINE devices == p.devices
           Servers(z) == {d \in ToSet(devices) : d.zone = z /\ d.cve /\ d.class \notin Infra}
           Below(z) == InOrder({y.net : y \in {x \in zones : x.level = z.level - 1}}, <)
           South(z) == Below(z)[Index(z.net, Len(Below(z))) + 1]
           servers(z) == ByAddress(Servers(South(z)))
           C(z, i) == [client |-> [ip |-> StationAddr(z.net),
                                   mac |-> ConduitMac(devices, z.net, South(z))],
                       server |-> servers(z)[i]]
           Polls(z) == [i \in 1..Least(NsMost, Len(servers(z))) |-> C(z, i)]
           Of(z) == IF Below(z) = <<>> THEN <<>> ELSE Polls(z)
           order == InOrder(zones, LAMBDA y, z :
                        y.level < z.level \/ (y.level = z.level /\ y.net < z.net))
           ss == [i \in DOMAIN order |-> Of(order[i])]
           n == Cardinality(zones)
           OK(s) == IsSeq(s) /\ \A c \in ToSet(s) : c.server.protocol \in Spoken
<1>1. Crossings(devices, zones, NsMost) = FlattenSeq(ss)
  BY Zenon DEF Crossings
<1>2. DOMAIN order = 1..n /\ n \in Nat
  <2>1. DOMAIN order = 1..n
    BY Zenon DEF InOrder
  <2> HIDE DEF order
  <2>2. QED
    BY <2>1, FS_CardinalityType
<1> HIDE DEF order
<1>3. \A z : OK(Polls(z))
  <2> SUFFICES ASSUME NEW z PROVE OK(Polls(z))
    OBVIOUS
  <2> DEFINE S == Servers(South(z))
             s == servers(z)
             m == Least(NsMost, Len(s))
             polls == Polls(z)
  <2>1. \A d \in S : d.protocol \in Spoken
    BY DEF PlanOK
  <2>2. Addresses(S)
    <3>1. S \subseteq ToSet(devices) /\ Addresses(ToSet(devices))
      BY DevicesFacts
    <3> HIDE DEF S, devices
    <3>2. IsFiniteSet(S)
      BY <3>1, FS_Subset DEF Addresses
    <3>3. QED
      BY <3>1, <3>2 DEF Addresses
  <2>3. Lists(S, s)
    <3>1. s = ByAddress(S)
      OBVIOUS
    <3> HIDE DEF S, s
    <3>2. QED
      BY <2>2, <3>1, ByAddressLists
  <2>4. polls = [i \in 1..m |-> polls[i]] /\ \A i \in 1..m : polls[i].server = s[i]
    OBVIOUS
  <2> HIDE DEF S, s, polls
  <2>5. Len(s) \in Nat /\ \A i \in 1..Len(s) : s[i] \in S
    BY <2>3, SeqIsSeq, SeqFacts DEF Lists
  <2>6. m \in Nat /\ 1..m \subseteq 1..Len(s)
    BY <2>5, CadenceAssumption DEF Least
  <2> HIDE DEF m
  <2>7. IsSeq(polls) /\ ToSet(polls) = {polls[i] : i \in 1..m}
    BY <2>4, <2>6, FunctionIsSeq
  <2>8. QED
    BY <2>1, <2>4, <2>5, <2>6, <2>7 DEF polls
<1> HIDE DEF Polls
<1>4. OK(<<>>)
  BY DEF IsSeq, ToSet
<1>5. \A z : OK(Of(z))
  BY <1>3, <1>4
<1> HIDE DEF Of
<1>6. IsSeq(ss) /\ Len(ss) = n /\ \A i \in 1..n : ss[i] = Of(order[i])
  <2>1. ss = [i \in 1..n |-> ss[i]] /\ \A i \in 1..n : ss[i] = Of(order[i])
    BY <1>2
  <2> HIDE DEF ss, n
  <2>2. QED
    BY <1>2, <2>1, FunctionIsSeq
<1> HIDE DEF ss
<1>7. /\ IsSeq(FlattenSeq(ss))
      /\ ToSet(FlattenSeq(ss)) = UNION {ToSet(ss[k]) : k \in 1..Len(ss)}
  BY <1>5, <1>6, FlattenFacts
<1>8. OK(FlattenSeq(ss))
  BY <1>5, <1>6, <1>7
<1>9. QED
  BY <1>1, <1>8

LEMMA FiniteZones ==
    ASSUME NEW p, PlanOK(p)
    PROVE  IsFiniteSet({[net |-> z, level |-> Level[z]] : z \in Subnets(p)})
<1> DEFINE n == Len(p.devices)
           f == [i \in 1..n |-> p.devices[i].zone]
           S == Subnets(p)
           g == [z \in S |-> [net |-> z, level |-> Level[z]]]
<1>1. n \in Nat /\ DOMAIN p.devices = 1..n
  BY DevicesFacts
<1>2. Subnets(p) = BareZones \cup {f[i] : i \in 1..n}
  BY <1>1 DEF Subnets
<1>3. IsFiniteSet(1..n) /\ DOMAIN f = 1..n
  BY <1>1, FS_Interval
<1> HIDE DEF f, n
<1>4. IsFiniteSet({f[i] : i \in 1..n})
  BY <1>3, ImageFinite
<1>5. IsFiniteSet(S)
  <2>1. IsFiniteSet(BareZones)
    BY WorldsAssumption, Zenon
  <2>2. QED
    BY <1>2, <1>4, <2>1, FS_Union DEF S
<1>6. {[net |-> z, level |-> Level[z]] : z \in S} = {g[z] : z \in S} /\ DOMAIN g = S
  OBVIOUS
<1> HIDE DEF g, S
<1>7. IsFiniteSet({g[z] : z \in S})
  BY <1>5, <1>6, ImageFinite
<1>8. QED
  BY <1>6, <1>7 DEF S

\* A burst of the identities of a plan.
LEMMA AssertionsOK ==
    ASSUME NEW p, PlanOK(p), NEW r, NEW n
    PROVE  ArpOK(Assets(p), BuildAssertions(p, r, n))
<1> DEFINE edges == ArpEdges(Assets(p))
           known == Kept(p.devices, {d \in ToSet(p.devices) : d.cve})
           beacons == r % BeaconEvery = 0
           zones == {[net |-> z, level |-> Level[z]] : z \in Subnets(p)}
           crossings == IF r % NsCadence # 0 THEN <<>> ELSE Crossings(p.devices, zones, NsMost)
           f1 == FlattenSeq([i \in DOMAIN edges |-> Resolve(edges[i].requester, edges[i].owner)])
           T2(i) == AssertIdentity(known[i], Station(known[i].zone), beacons, n)
           s2 == [i \in DOMAIN known |-> T2(i)]
           T3(i) == AskName(p.devices, p.devices[i], n)
           s3 == [i \in DOMAIN p.devices |-> T3(i)]
           T4(i) == AssertIdentity(crossings[i].server, crossings[i].client, FALSE, n)
           s4 == [i \in DOMAIN crossings |-> T4(i)]
<1>1. BuildAssertions(p, r, n) = f1 \o FlattenSeq(s2) \o FlattenSeq(s3) \o FlattenSeq(s4)
  BY DEF BuildAssertions
<1>2. ArpOK(Assets(p), f1)
  BY PlantOfPlan, ArpEdgesOK, ResolvesOK
<1>3. \A s : IsSeq(s) => /\ Len(s) \in Nat /\ DOMAIN s = 1..Len(s)
                         /\ \A i \in 1..Len(s) : s[i] \in ToSet(s)
  BY SeqFacts
<1>4. IsSeq(known) /\ \A i \in 1..Len(known) : known[i].protocol \in Spoken
  <2>1. IsSeq(known) /\ ToSet(known) = ToSet(p.devices) \cap {d \in ToSet(p.devices) : d.cve}
    BY KeptFacts DEF PlanOK
  <2> HIDE DEF known
  <2>2. QED
    BY <1>3, <2>1 DEF PlanOK
<1>5. IsSeq(crossings) /\ \A i \in 1..Len(crossings) : crossings[i].server.protocol \in Spoken
  <2>1. IsSeq(crossings) /\ \A c \in ToSet(crossings) : c.server.protocol \in Spoken
    <3>1. IsSeq(<<>>) /\ ToSet(<<>>) = {}
      BY DEF IsSeq, ToSet
    <3>2. IsFiniteSet(zones)
      BY FiniteZones
    <3> HIDE DEF zones
    <3>3. QED
      BY <3>1, <3>2, CrossingsFacts
  <2> HIDE DEF crossings
  <2>2. QED
    BY <1>3, <2>1
<1> HIDE DEF known, crossings, f1, beacons
<1>6. Quiet(FlattenSeq(s2))
  <2>1. \A i \in 1..Len(known) : Quiet(T2(i))
    BY <1>4, QuietIdentity
  <2> HIDE DEF T2
  <2>2. s2 = [i \in 1..Len(known) |-> s2[i]] /\ \A i \in 1..Len(known) : s2[i] = T2(i)
    BY <1>3, <1>4
  <2> HIDE DEF s2
  <2>3. IsSeq(s2) /\ Len(s2) = Len(known)
    BY <1>3, <1>4, <2>2, FunctionIsSeq
  <2>4. QED
    BY <2>1, <2>2, <2>3, QuietFlatten
<1>7. Quiet(FlattenSeq(s3))
  <2>0. IsSeq(p.devices)
    BY DEF PlanOK
  <2>1. \A i \in 1..Len(p.devices) : Quiet(T3(i))
    BY QuietName
  <2> HIDE DEF T3
  <2>2. s3 = [i \in 1..Len(p.devices) |-> s3[i]] /\ \A i \in 1..Len(p.devices) : s3[i] = T3(i)
    BY <1>3, <2>0
  <2> HIDE DEF s3
  <2>3. IsSeq(s3) /\ Len(s3) = Len(p.devices)
    BY <1>3, <2>0, <2>2, FunctionIsSeq
  <2>4. QED
    BY <2>1, <2>2, <2>3, QuietFlatten
<1>8. Quiet(FlattenSeq(s4))
  <2>1. \A i \in 1..Len(crossings) : Quiet(T4(i))
    BY <1>5, QuietIdentity
  <2> HIDE DEF T4
  <2>2. s4 = [i \in 1..Len(crossings) |-> s4[i]] /\ \A i \in 1..Len(crossings) : s4[i] = T4(i)
    BY <1>3, <1>5
  <2> HIDE DEF s4
  <2>3. IsSeq(s4) /\ Len(s4) = Len(crossings)
    BY <1>3, <1>5, <2>2, FunctionIsSeq
  <2>4. QED
    BY <2>1, <2>2, <2>3, QuietFlatten
<1> HIDE DEF s2, s3, s4
<1>9. ArpOK(Assets(p), f1 \o FlattenSeq(s2))
  BY <1>2, <1>6, ArpConcat
<1>10. ArpOK(Assets(p), f1 \o FlattenSeq(s2) \o FlattenSeq(s3))
  BY <1>7, <1>9, ArpConcat
<1>11. ArpOK(Assets(p), f1 \o FlattenSeq(s2) \o FlattenSeq(s3) \o FlattenSeq(s4))
  BY <1>8, <1>10, ArpConcat
<1>12. QED
  BY <1>1, <1>11

-----------------------------------------------------------------------------
(* The attack frames.                                                      *)

LEMMA TalkSaid ==
    ASSUME NEW ev, ev.emit \in EmitKind \ {"c2_beacon", "remote_access"},
           ev.len \in Nat, ev.chunk \in Nat
    PROVE  Said(Talk(ev).script)
<1>1. /\ Said(ReadSzl) /\ Said(WriteDbWord) /\ Said(PlcStop) /\ Said(WriteRegister)
  BY PairSaid, S7Said DEF ReadSzl, WriteDbWord, PlcStop, WriteRegister, Modbus
<1>2. \A op : Said(Iec101(op)) /\ Said(Cip(op))
  <2> SUFFICES ASSUME NEW op PROVE Said(Iec101(op)) /\ Said(Cip(op))
    OBVIOUS
  <2>1. Said(<<Ask("register", 0), Reply("register", CipSession)>>)
    BY MessageBy, TwoSaid
  <2>2. Said(Pair(op, CipSession)) /\ Said(Pair(op, NoNumber))
    BY PairSaid
  <2>3. QED
    BY <2>1, <2>2, SaidConcat DEF Iec101, Cip
<1>3. /\ Said(Dnp3Read) /\ Said(OpcUa) /\ Said(Smb) /\ Said(TristationStatus)
  BY PairSaid DEF Dnp3Read, OpcUa, Smb, TristationStatus
<1>4. Said(Dnp3Operate)
  BY PairSaid, SaidConcat DEF Dnp3Operate
<1>5. Said(S7Download(ev.len)) /\ Said(TristationDownload(ev.len, ev.chunk))
  BY S7DownloadSaid, TristationSaid
<1>6. Said(Moxa(ev.len))
  BY MessageBy, TwoSaid DEF Moxa
<1>7. \A op : Said(Iec104(op))
  BY Iec104Said
<1>8. CASE ev.emit \in {"s7_read", "s7_program_download", "s7_write", "s7_stop", "modbus_write"}
  BY <1>1, <1>5, <1>8 DEF Talk
<1>9. CASE ev.emit \in {"iec104_interrogation", "iec104_command", "dnp3_read", "dnp3_operate"}
  BY <1>3, <1>4, <1>7, <1>9 DEF Talk
<1>10. CASE ev.emit \in {"cip_read", "cip_write", "opcua_read", "iec101_interrogation",
                         "iec101_command"}
  BY <1>2, <1>3, <1>10 DEF Talk
<1>11. CASE ev.emit \in {"wiper", "tristation_status", "tristation_download", "moxa_brick"}
  BY <1>3, <1>5, <1>6, <1>11 DEF Talk
<1>12. QED
  BY <1>8, <1>9, <1>10, <1>11 DEF EmitKind

\* An event of a playbook, as IsPlaybook has them.
Emission(ev) == ev.emit \in EmitKind /\ {ev.len, ev.chunk} \subseteq Nat

LEMMA QuietRender ==
    ASSUME NEW ev, Emission(ev), NEW devices, NEW n
    PROVE  Quiet(Render(ev, devices, n))
<1>1. \A d, port : ev.emit # "c2_beacon" => Quiet(OnTarget(devices, ev, d, port))
  <2> SUFFICES ASSUME NEW d, NEW port, ev.emit # "c2_beacon"
               PROVE  Quiet(OnTarget(devices, ev, d, port))
    OBVIOUS
  <2>1. CASE ev.emit = "remote_access"
    <3>1. Said(Pair("init", NoNumber))
      BY PairSaid
    <3>2. [Ask("active", NoNumber) EXCEPT !.kind = "note"].by = "client"
      BY DEF Ask
    <3>3. Said(<<[Ask("active", NoNumber) EXCEPT !.kind = "note"]>>)
      <4> DEFINE note == [Ask("active", NoNumber) EXCEPT !.kind = "note"]
      <4>1. note.by \in {"client", "server"}
        BY <3>2
      <4> HIDE DEF note
      <4>2. Said(<<note>>)
        BY <4>1, OneSaid
      <4>3. QED
        BY <4>2 DEF note
    <3>4. Said(RemoteControl)
      BY <3>1, <3>3, SaidConcat DEF RemoteControl
    <3>5. QED
      BY <2>1, <3>4, QuietSession DEF OnTarget
  <2>2. CASE ev.emit # "remote_access"
    <3>1. Said(Talk(ev).script)
      BY <2>2, TalkSaid DEF Emission
    <3>2. QED
      BY <2>2, <3>1, QuietSession, QuietDatagrams DEF OnTarget, Said
  <2>3. QED
    BY <2>1, <2>2
<1>2. \A host : Quiet(Beaconing(devices, host, n))
  <2> SUFFICES ASSUME NEW host PROVE Quiet(Beaconing(devices, host, n))
    OBVIOUS
  <2> DEFINE g == Gateway(devices, host.zone)
  <2>1. Said(Dns(n % 65536)) /\ Said(Http)
    BY PairSaid DEF Dns, Http
  <2>2. Beaconing(devices, host, n) =
          Datagrams(End(host), g, FirstPort + (n % Ports), 53, Dns(n % 65536))
          \o Session(End(host), [ip |-> C2Ip, mac |-> g.mac], FirstPort + ((n + 1) % Ports),
                     80, Http)
    BY DEF Beaconing
  <2> HIDE DEF g
  <2>3. /\ Quiet(Datagrams(End(host), g, FirstPort + (n % Ports), 53, Dns(n % 65536)))
        /\ Quiet(Session(End(host), [ip |-> C2Ip, mac |-> g.mac], FirstPort + ((n + 1) % Ports),
                     80, Http))
    BY <2>1, QuietDatagrams, QuietSession DEF Said
  <2>4. QED
    BY <2>2, <2>3, QuietConcat
<1> DEFINE found == Targets(devices, ev.target)
           d == CHOOSE e \in found : TRUE
<1>3. Render(ev, devices, n) =
        IF ev.emit = "c2_beacon"
        THEN IF devices = <<>> THEN <<>>
             ELSE Beaconing(devices, IF found = {} THEN devices[1] ELSE d, n)
        ELSE IF found = {} THEN <<>> ELSE OnTarget(devices, ev, d, FirstPort + (n % Ports))
  BY DEF Render
<1> HIDE DEF found, d
<1>4. QED
  BY <1>1, <1>2, <1>3, QuietEmpty

LEMMA QuietSub ==
    ASSUME NEW s, Quiet(s), NEW a \in Nat \ {0}, NEW b \in 0..Len(s)
    PROVE  /\ Quiet(SubSeq(s, a, b))
           /\ Len(SubSeq(s, a, b)) = IF a <= b THEN b - a + 1 ELSE 0
<1> DEFINE S == ToSet(s)
           q == SubSeq(s, a, b)
<1>1. s \in Seq(S) /\ Len(s) \in Nat /\ b \in Int /\ a \in Int
  BY SeqFacts DEF Quiet, IsSeq
<1>2. \A i \in a..b : i \in 1..Len(s) /\ s[i] \in S
  <2>1. \A i \in 1..Len(s) : s[i] \in S
    BY SeqFacts DEF Quiet
  <2>2. \A i \in a..b : i \in 1..Len(s)
    BY <1>1
  <2>3. QED
    BY <2>1, <2>2
<1> HIDE DEF S
<1>3. q \in Seq(S) /\ Len(q) = IF a <= b THEN b - a + 1 ELSE 0
  BY <1>1, <1>2, SubSeqProperties
<1> HIDE DEF q
<1>4. IsSeq(q) /\ ToSet(q) \subseteq S
  <2>1. IsSeq(q)
    BY <1>3, SeqIsSeq
  <2>2. ToSet(q) = {q[i] : i \in 1..Len(q)} /\ Len(q) \in Nat
    BY <2>1, SeqFacts
  <2>3. \A i \in 1..Len(q) : q[i] \in S
    BY <1>3, LenProperties
  <2>4. QED
    BY <2>1, <2>2, <2>3
<1>5. QED
  BY <1>3, <1>4 DEF Quiet, S, q

\* A walk: its nonce is pinned while a part of an event is left.
WalkOK(w) ==
    /\ w = [phase |-> w.phase, cursor |-> w.cursor, bursts |-> w.bursts, offset |-> w.offset,
            spill |-> w.spill]
    /\ w.cursor \in Nat \ {0} /\ w.offset \in Nat /\ w.spill \in Nat \cup {None}
    /\ w.spill # None <=> w.offset > 0

\* What phase_frames has after some turns of its loop, k at most, that began at w.
TurnsOf(acc, w, k) ==
    /\ acc = [frames |-> acc.frames, walk |-> acc.walk, devices |-> acc.devices,
              nonce |-> acc.nonce]
    /\ Quiet(acc.frames) /\ Len(acc.frames) <= Cap /\ acc.nonce \in Nat
    /\ WalkOK(acc.walk) /\ acc.walk.phase = w.phase
    /\ acc.walk.cursor <= w.cursor + k

LEMMA TurnOK ==
    ASSUME NEW w, w.cursor \in Nat, NEW k \in Nat, NEW acc, TurnsOf(acc, w, k),
           NEW ev, Emission(ev)
    PROVE  TurnsOf(Turn(acc, ev), w, k + 1)
<1> DEFINE walk0 == acc.walk
           own == Nonce(acc)
           frames == Render(ev, acc.devices, own)
           rest == SubSeq(frames, walk0.offset + 1, Len(frames))
           take == Least(Cap - Len(acc.frames), Len(rest))
           part == SubSeq(rest, 1, take)
           done == [walk0 EXCEPT !.cursor = @ + 1, !.offset = 0, !.spill = None]
           left == [walk0 EXCEPT !.offset = @ + take, !.spill = own]
           next == IF take = Len(rest) THEN done ELSE left
<1>1. Cap \in Nat \ {0}
  BY CadenceAssumption
<1>2. /\ Len(acc.frames) \in Nat /\ Len(acc.frames) <= Cap /\ WalkOK(walk0)
      /\ walk0.cursor \in Nat \ {0} /\ walk0.offset \in Nat /\ acc.nonce \in Nat
      /\ walk0.spill \in Nat \cup {None} /\ walk0.cursor <= w.cursor + k
      /\ walk0.phase = w.phase /\ Quiet(acc.frames)
  BY SeqFacts DEF TurnsOf, WalkOK, Quiet
<1>3. CASE ~(Len(acc.frames) < Cap)
  <2>1. Turn(acc, ev) = acc
    BY <1>3 DEF Turn
  <2>2. walk0.cursor <= w.cursor + (k + 1)
    BY <1>2
  <2>3. QED
    BY <2>1, <2>2 DEF TurnsOf
<1>4. CASE Len(acc.frames) < Cap
  <2>1. own \in Nat
    <3>1. own = IF walk0.spill = None THEN acc.nonce + walk0.cursor - 1 ELSE walk0.spill
      BY DEF Nonce
    <3>2. QED
      BY <1>2, <3>1
  <2>2. Quiet(frames) /\ Len(frames) \in Nat
    BY QuietRender, SeqFacts DEF Quiet
  <2>3. Turn(acc, ev) = [acc EXCEPT !.frames = acc.frames \o part, !.walk = next]
    <3>1. Turn(acc, ev) = Slice(acc, frames, own)
      BY <1>4 DEF Turn
    <3>2. Slice(acc, frames, own) = [acc EXCEPT !.frames = acc.frames \o part, !.walk = next]
      BY DEF Slice
    <3>3. QED
      BY <3>1, <3>2, Zenon
  <2> HIDE DEF own, frames
  <2>4. walk0.offset + 1 \in Nat \ {0} /\ Len(frames) \in 0..Len(frames)
    BY <1>2, <2>2
  <2>5. Quiet(rest) /\ Len(rest) \in Nat
    BY <2>2, <2>4, QuietSub, SeqFacts DEF Quiet
  <2> HIDE DEF rest
  <2>6. take \in Nat /\ take \in 0..Len(rest) /\ take <= Cap - Len(acc.frames)
        /\ (take # Len(rest) => take > 0)
    <3>1. \A c, l, r \in Nat : l < c =>
            /\ Least(c - l, r) \in 0..r /\ Least(c - l, r) \in Nat /\ Least(c - l, r) <= c - l
            /\ Least(c - l, r) # r => Least(c - l, r) > 0
      BY DEF Least
    <3>2. QED
      BY <1>1, <1>2, <1>4, <2>5, <3>1
  <2> HIDE DEF take
  <2>7. Quiet(part) /\ Len(part) = take
    <3>1. 1 \in Nat \ {0} /\ (IF 1 <= take THEN take - 1 + 1 ELSE 0) = take
      BY <2>6
    <3>2. QED
      BY <2>5, <2>6, <3>1, QuietSub
  <2> HIDE DEF part
  <2>8. Quiet(acc.frames \o part) /\ Len(acc.frames \o part) <= Cap
    <3>1. Quiet(acc.frames \o part)
      BY <1>2, <2>7, QuietConcat
    <3>2. Len(acc.frames \o part) = Len(acc.frames) + Len(part)
      BY <1>2, <2>7, ConcatFacts DEF Quiet
    <3>3. QED
      BY <1>1, <1>2, <2>6, <2>7, <3>1, <3>2
  <2>9. WalkOK(next) /\ next.phase = w.phase /\ next.cursor <= w.cursor + (k + 1)
    <3>1. CASE take = Len(rest)
      <4>1. next = [phase |-> walk0.phase, cursor |-> walk0.cursor + 1, bursts |-> walk0.bursts,
                    offset |-> 0, spill |-> None]
        BY <1>2, <3>1 DEF WalkOK
      <4> HIDE DEF next
      <4>2. QED
        BY <1>2, <4>1 DEF WalkOK
    <3>2. CASE take # Len(rest)
      <4>1. next = [phase |-> walk0.phase, cursor |-> walk0.cursor, bursts |-> walk0.bursts,
                    offset |-> walk0.offset + take, spill |-> own]
        BY <1>2, <3>2 DEF WalkOK
      <4>2. own # None
        BY <2>1 DEF None
      <4> HIDE DEF next
      <4>3. QED
        BY SMTT(20), <1>2, <2>1, <2>6, <3>2, <4>1, <4>2 DEF WalkOK
    <3>3. QED
      BY <3>1, <3>2
  <2> HIDE DEF next
  <2>10. Turn(acc, ev) = [frames |-> acc.frames \o part, walk |-> next, devices |-> acc.devices,
                          nonce |-> acc.nonce]
    BY <2>3 DEF TurnsOf
  <2>11. QED
    BY <1>2, <2>8, <2>9, <2>10 DEF TurnsOf
<1>5. QED
  BY <1>3, <1>4

Walking == INSTANCE ListProofs WITH Op <- Turn

\* A walk in a playbook.
WalkIn(w, phases) ==
    /\ WalkOK(w)
    /\ phases # <<>> =>
        w.phase \in DOMAIN phases /\ w.cursor \in 1..Len(phases[w.phase].events) + 1

LEMMA PhaseFramesOK ==
    ASSUME NEW phases, IsPlaybook(phases), phases # <<>>, NEW w, WalkIn(w, phases),
           NEW devices, NEW n \in Nat
    PROVE  /\ Quiet(PhaseFrames(w, phases, devices, n).frames)
           /\ WalkIn(PhaseFrames(w, phases, devices, n).walk, phases)
<1> DEFINE events == phases[w.phase].events
           start == [frames |-> <<>>, walk |-> w, devices |-> devices, nonce |-> n]
           list == SubSeq(events, w.cursor, Len(events))
           end == FoldLeft(Turn, start, list)
           m == Len(list)
<1>1. PhaseFrames(w, phases, devices, n) = [frames |-> end.frames, walk |-> Dwelt(end.walk, w, phases)]
  BY DEF PhaseFrames
<1>2. /\ Len(phases) \in Nat /\ DOMAIN phases = 1..Len(phases) /\ ToSet(phases) = {phases[i] : i \in 1..Len(phases)}
      /\ Len(phases) >= 1
  <2>1. /\ Len(phases) \in Nat /\ DOMAIN phases = 1..Len(phases)
        /\ ToSet(phases) = {phases[i] : i \in 1..Len(phases)}
    BY SeqFacts DEF IsPlaybook
  <2>2. Len(phases) # 0
    BY EmptySeq DEF IsPlaybook, IsSeq
  <2>3. QED
    BY <2>1, <2>2
<1>3. \A i \in 1..Len(phases) : /\ IsSeq(phases[i].events) /\ Len(phases[i].events) \in Nat
                                /\ \A j \in 1..Len(phases[i].events) : Emission(phases[i].events[j])
  <2> SUFFICES ASSUME NEW i \in 1..Len(phases)
               PROVE  /\ IsSeq(phases[i].events) /\ Len(phases[i].events) \in Nat
                      /\ \A j \in 1..Len(phases[i].events) : Emission(phases[i].events[j])
    OBVIOUS
  <2>1. phases[i] \in ToSet(phases)
    BY <1>2
  <2>2. IsSeq(phases[i].events) /\ \A ev \in ToSet(phases[i].events) : Emission(ev)
    BY <2>1 DEF IsPlaybook, Emission
  <2>3. QED
    BY <2>2, SeqFacts
<1>4. /\ w.phase \in 1..Len(phases) /\ w.cursor \in 1..Len(events) + 1 /\ WalkOK(w)
  BY <1>2 DEF WalkIn
<1>5. IsSeq(events) /\ Len(events) \in Nat /\ \A j \in 1..Len(events) : Emission(events[j])
  BY <1>3, <1>4
<1> HIDE DEF events
<1>6. /\ IsSeq(list) /\ m = Len(events) + 1 - w.cursor /\ m \in Nat
      /\ \A j \in 1..m : Emission(list[j])
  <2>1. /\ w.cursor \in Nat \ {0} /\ Len(events) \in 0..Len(events) /\ w.cursor <= Len(events) + 1
        /\ \A j \in 1..(Len(events) + 1 - w.cursor) : w.cursor - 1 + j \in 1..Len(events)
    BY <1>4, <1>5
  <2>2. /\ list \in Seq(ToSet(events)) /\ m = Len(events) + 1 - w.cursor
        /\ \A j \in 1..(Len(events) + 1 - w.cursor) : list[j] = events[w.cursor - 1 + j]
    BY <1>5, <2>1, SubSeqFacts
  <2> HIDE DEF list
  <2>3. QED
    BY <1>5, <2>1, <2>2, SeqIsSeq, SeqFacts
<1>7. TurnsOf(start, w, 0)
  <2>1. Len(<<>>) = 0 /\ Cap \in Nat /\ w.cursor <= w.cursor + 0
    BY <1>4, <1>5, CadenceAssumption
  <2>2. QED
    BY <1>4, <2>1, QuietEmpty DEF TurnsOf
<1> HIDE DEF start, list
<1>8. TurnsOf(end, w, m)
  <2>1. PICK v : Walking!Folded(list, start, v) /\ Walking!FoldLeft(Turn, start, list) = v[m]
    BY <1>6, Walking!FoldSteps DEF IsSeq
  <2>2. end = v[m]
    BY <2>1 DEF FoldLeft, MapThenFoldSet, Max, Walking!FoldLeft, Walking!MapThenFoldSet, Walking!Max
  <2>3. v[0] = start /\ \A k \in 1..m : v[k] = Turn(v[k - 1], list[k])
    BY <2>1 DEF Walking!Folded
  <2> DEFINE T == {k \in 0..m : TurnsOf(v[k], w, k)}
  <2> HIDE DEF m
  <2>4. 0 \in T
    BY <1>6, <1>7, <2>3
  <2>5. ASSUME NEW k \in 0..(m - 1), k \in T PROVE k + 1 \in T
    <3>1. k + 1 \in 1..m /\ k + 1 \in 0..m /\ (k + 1) - 1 = k /\ k \in Nat
      BY <1>6
    <3>2. v[k + 1] = Turn(v[k], list[k + 1]) /\ Emission(list[k + 1])
      BY <1>6, <2>3, <3>1
    <3>3. w.cursor \in Nat
      BY <1>4, <1>5
    <3>4. TurnsOf(v[k + 1], w, k + 1)
      BY <2>5, <3>1, <3>2, <3>3, TurnOK
    <3>5. QED
      BY <3>1, <3>4
  <2> HIDE DEF T
  <2>6. \A k \in 0..m : k \in T
    BY <1>6, <2>4, <2>5, Upward
  <2>7. m \in 0..m
    BY <1>6
  <2>8. TurnsOf(v[m], w, m)
    BY <2>6, <2>7 DEF T
  <2>9. QED
    BY <2>2, <2>8
<1> HIDE DEF end
<1>9. /\ Quiet(end.frames) /\ WalkOK(end.walk) /\ end.walk.phase = w.phase
      /\ end.walk.cursor \in 1..Len(events) + 1
  <2>1. /\ Quiet(end.frames) /\ WalkOK(end.walk) /\ end.walk.phase = w.phase
        /\ end.walk.cursor <= w.cursor + m
    BY <1>8 DEF TurnsOf
  <2>2. end.walk.cursor \in Nat \ {0}
    BY <2>1 DEF WalkOK
  <2> HIDE DEF m
  <2>3. QED
    BY <1>4, <1>5, <1>6, <2>1, <2>2
<1>10. WalkIn(Dwelt(end.walk, w, phases), phases)
  <2> DEFINE x == end.walk
             d == Dwelt(x, w, phases)
             next == NextPhase(phases, w.phase)
  <2>1. CASE d = [StartWalk EXCEPT !.phase = next]
    <3>1. next \in 1..Len(phases)
      BY <1>2, <1>4 DEF NextPhase
    <3>2. d = [phase |-> next, cursor |-> 1, bursts |-> 0, offset |-> 0, spill |-> None]
      BY <2>1 DEF StartWalk
    <3>3. 1 \in 1..Len(phases[next].events) + 1
      BY <1>3, <3>1
    <3> HIDE DEF d, next
    <3>4. QED
      BY <1>2, <3>1, <3>2, <3>3 DEF WalkIn, WalkOK, d
  <2>2. CASE d = [x EXCEPT !.bursts = @ + 1]
    <3>1. d = [phase |-> x.phase, cursor |-> x.cursor, bursts |-> x.bursts + 1,
               offset |-> x.offset, spill |-> x.spill]
      BY <1>9, <2>2 DEF WalkOK
    <3> HIDE DEF d
    <3>2. WalkOK(d)
      BY <1>9, <3>1 DEF WalkOK
    <3>3. d.phase = w.phase /\ d.cursor = x.cursor
      BY <1>9, <3>1
    <3>4. QED
      BY <1>2, <1>4, <1>9, <3>2, <3>3 DEF WalkIn, d, events
  <2>3. QED
    BY <2>1, <2>2 DEF Dwelt
<1>11. QED
  BY <1>1, <1>9, <1>10

-----------------------------------------------------------------------------
(* The plan, as it grows.                                                  *)

LEMMA TailFacts ==
    ASSUME NEW s, IsSeq(s), s # <<>>
    PROVE  /\ IsSeq(Tail(s)) /\ Head(s) \in ToSet(s) /\ ToSet(Tail(s)) \subseteq ToSet(s)
           /\ Len(s) \in Nat /\ Len(Tail(s)) = Len(s) - 1 /\ Head(s) = s[1]
           /\ \A i \in 1..(Len(s) - 1) : Tail(s)[i] = s[i + 1]
<1> DEFINE S == ToSet(s)
           t == Tail(s)
<1>1. s \in Seq(S) /\ Len(s) \in Nat /\ S = {s[i] : i \in 1..Len(s)}
  BY SeqFacts DEF IsSeq
<1> HIDE DEF S
<1>2. /\ Head(s) = s[1] /\ t \in Seq(S) /\ Len(t) = Len(s) - 1 /\ 1 \in 1..Len(s)
      /\ \A i \in 1..Len(t) : t[i] = s[i + 1]
  BY <1>1, HeadTailProperties, EmptySeq
<1> HIDE DEF t
<1>3. IsSeq(t) /\ ToSet(t) = {t[i] : i \in 1..Len(t)}
  BY <1>2, SeqIsSeq, SeqFacts
<1>4. ToSet(t) \subseteq S
  <2>1. \A i \in 1..Len(t) : i + 1 \in 1..Len(s)
    BY <1>1, <1>2
  <2>2. \A i \in 1..Len(t) : t[i] \in S
    BY <1>1, <1>2, <2>1
  <2>3. QED
    BY <1>3, <2>2
<1>5. QED
  BY <1>1, <1>2, <1>3, <1>4 DEF S, t

\* A list in two parts.
Split(all, s, t) ==
    /\ IsSeq(s) /\ IsSeq(t) /\ Len(all) = Len(s) + Len(t)
    /\ Within(s, all, 0) /\ Within(t, all, Len(s))

LEMMA SplitMoves ==
    ASSUME NEW all, NEW s, NEW t, Split(all, s, t), NEW k \in 0..Len(t)
    PROVE  Split(all, s \o SubSeq(t, 1, k), SubSeq(t, k + 1, Len(t)))
<1> DEFINE x == SubSeq(t, 1, k)
           y == SubSeq(t, k + 1, Len(t))
           u == s \o x
           n == Len(s)
           m == Len(t)
<1>1. IsSeq(s) /\ IsSeq(t) /\ n \in Nat /\ m \in Nat /\ Len(all) = n + m
  BY SeqFacts DEF Split
<1>2. /\ \A i \in 1..n : s[i] = all[i]
      /\ \A i \in 1..m : t[i] = all[n + i]
  <2>1. \A i \in 1..n : all[0 + i] = s[i] /\ 0 + i = i
    BY <1>1 DEF Split, Within
  <2>2. QED
    BY <2>1 DEF Split, Within
<1>3. IsSeq(x) /\ Len(x) = k /\ \A j \in 1..k : x[j] = t[j]
  <2>1. /\ x \in Seq(ToSet(t)) /\ Len(x) = k + 1 - 1
        /\ \A j \in 1..(k + 1 - 1) : x[j] = t[1 - 1 + j]
    BY <1>1, SubSeqFacts
  <2>2. k + 1 - 1 = k /\ \A j \in 1..k : 1 - 1 + j = j
    BY <1>1
  <2> HIDE DEF x
  <2>3. QED
    BY <2>1, <2>2, SeqIsSeq
<1>4. IsSeq(y) /\ Len(y) = m - k /\ \A j \in 1..(m - k) : y[j] = t[k + j]
  <2>0. k + 1 \in Nat \ {0} /\ m \in 0..m /\ k + 1 <= m + 1
    BY <1>1
  <2>1. /\ y \in Seq(ToSet(t)) /\ Len(y) = m + 1 - (k + 1)
        /\ \A j \in 1..(m + 1 - (k + 1)) : y[j] = t[(k + 1) - 1 + j]
    BY <1>1, <2>0, SubSeqFacts
  <2>2. m + 1 - (k + 1) = m - k /\ \A j \in 1..(m - k) : (k + 1) - 1 + j = k + j
    BY <1>1
  <2> HIDE DEF y, m
  <2>3. QED
    BY <2>1, <2>2, SeqIsSeq
<1> HIDE DEF x, y
<1>5. /\ IsSeq(u) /\ Len(u) = n + k /\ Within(s, u, 0) /\ Within(x, u, n)
  BY <1>1, <1>3, ConcatFacts
<1> HIDE DEF u, n, m
<1>6. ASSUME NEW i \in 1..(n + k) PROVE all[0 + i] = u[i]
  <2>1. CASE i \in 1..n
    <3>1. u[0 + i] = s[i] /\ 0 + i = i
      BY <1>1, <1>5, <2>1 DEF Within, n
    <3>2. QED
      BY <1>2, <2>1, <3>1
  <2>2. CASE i \notin 1..n
    <3>1. i - n \in 1..k /\ n + (i - n) = i /\ i - n \in 1..m /\ 0 + i = i
      BY <1>1, <2>2 DEF m
    <3>2. u[n + (i - n)] = x[i - n]
      BY <1>3, <1>5, <3>1 DEF Within
    <3>3. all[n + (i - n)] = t[i - n]
      BY <1>2, <3>1
    <3>4. QED
      BY <1>3, <3>1, <3>2, <3>3
  <2>3. QED
    BY <2>1, <2>2
<1>7. ASSUME NEW j \in 1..(m - k) PROVE all[(n + k) + j] = y[j]
  <2>1. k + j \in 1..m /\ n + (k + j) = (n + k) + j
    BY <1>1
  <2>2. QED
    BY <1>2, <1>4, <2>1
<1>8. Within(u, all, 0)
  BY <1>1, <1>5, <1>6 DEF Within, m
<1>9. Within(y, all, n + k)
  BY <1>1, <1>4, <1>7 DEF Within, m
<1>10. Len(all) = Len(u) + Len(y)
  BY <1>1, <1>4, <1>5 DEF m
<1>11. Split(all, u, y)
  BY <1>4, <1>5, <1>8, <1>9, <1>10 DEF Split
<1>12. QED
  BY <1>11 DEF u, x, y, m

\* Of a plant, the plan has the first devices and some hosts, the others are to come.
Growing(all, hosts) ==
    /\ IsPlant(all, hosts)
    /\ Split(all, plan.devices, world.coming)
    /\ IsFiniteSet(plan.hosts) /\ plan.hosts \subseteq ToSet(hosts)
    /\ IsSeq(world.hosts) /\ ToSet(world.hosts) \subseteq ToSet(hosts)

PlanInv ==
    /\ plan = [devices |-> plan.devices, hosts |-> plan.hosts]
    /\ world = [devices |-> world.devices, coming |-> world.coming, hosts |-> world.hosts,
                phases |-> world.phases, sealed |-> world.sealed]
    /\ IsPlaybook(world.phases)
    /\ \E all, hosts : Growing(all, hosts)

LEMMA PlanInvOK ==
    ASSUME PlanInv
    PROVE  PlanOK(plan)
<1>1. PICK all, hosts : Growing(all, hosts)
  BY DEF PlanInv
<1> DEFINE devices == plan.devices
           n == Len(devices)
<1>2. /\ IsSeq(devices) /\ n \in Nat /\ ToSet(devices) = {devices[i] : i \in 1..n}
      /\ IsSeq(all) /\ DOMAIN all = 1..Len(all) /\ Len(all) \in Nat
      /\ ToSet(all) = {all[i] : i \in 1..Len(all)}
  <2>1. IsSeq(devices)
    BY <1>1 DEF Growing, Split
  <2>2. IsSeq(all)
    BY <1>1, Zenon DEF Growing, IsPlant
  <2>3. n \in Nat /\ ToSet(devices) = {devices[i] : i \in 1..n}
    BY <2>1, SeqFacts
  <2>4. /\ DOMAIN all = 1..Len(all) /\ Len(all) \in Nat
        /\ ToSet(all) = {all[i] : i \in 1..Len(all)}
    BY <2>2, SeqFacts
  <2>5. QED
    BY <2>1, <2>2, <2>3, <2>4
<1>3. \A i \in 1..n : i \in 1..Len(all) /\ devices[i] = all[i]
  <2>0. Within(devices, all, 0)
    BY <1>1 DEF Growing, Split
  <2>1. n <= Len(all) /\ \A i \in 1..n : all[0 + i] = devices[i] /\ 0 + i = i
    BY <1>2, <2>0 DEF Within
  <2>2. QED
    BY <1>2, <2>1
<1>4. \A d \in ToSet(devices) : d \in ToSet(all)
  BY <1>2, <1>3
<1>5. \A d \in ToSet(devices) :
        InZone(d) /\ (d.cve => d.protocol \in Spoken) /\ \A h \in plan.hosts : d.ip # h.ip
  BY <1>1, <1>4 DEF Growing, IsPlant, Spoken
<1>6. \A i, j \in 1..n : devices[i].ip = devices[j].ip => i = j
  BY <1>1, <1>2, <1>3 DEF Growing, IsPlant
<1>7. \A h, g \in plan.hosts : InZone(h) /\ (h.ip = g.ip => h = g)
  BY <1>1 DEF Growing, IsPlant
<1>8. QED
  BY <1>1, <1>2, <1>5, <1>6, <1>7 DEF Growing, PlanOK

LEMMA PlanInvInit ==
    ASSUME Init
    PROVE  PlanInv
<1>1. PICK w \in Worlds : /\ world = [w EXCEPT !.devices = <<>>]
                          /\ plan = [devices |-> w.devices, hosts |-> {}]
  BY DEF Init
<1>2. /\ w = [devices |-> w.devices, coming |-> w.coming, hosts |-> w.hosts,
              phases |-> w.phases, sealed |-> w.sealed]
      /\ IsSeq(w.devices) /\ IsSeq(w.coming)
      /\ IsPlant(w.devices \o w.coming, w.hosts) /\ IsPlaybook(w.phases)
  BY WorldsAssumption, Zenon
<1>3. world = [devices |-> <<>>, coming |-> w.coming, hosts |-> w.hosts,
               phases |-> w.phases, sealed |-> w.sealed]
  BY <1>1, <1>2
<1>4. plan.devices = w.devices /\ plan.hosts = {} /\ world.coming = w.coming /\ world.hosts = w.hosts
  BY <1>1, <1>3
<1>5. Split(w.devices \o w.coming, w.devices, w.coming)
  BY <1>2, ConcatFacts DEF Split
<1>6. IsSeq(w.hosts)
  BY <1>2 DEF IsPlant
<1>7. Growing(w.devices \o w.coming, w.hosts)
  BY <1>2, <1>4, <1>5, <1>6, FS_EmptySet DEF Growing
<1>8. IsPlaybook(world.phases)
  BY <1>2, <1>3
<1>9. QED
  BY <1>1, <1>3, <1>7, <1>8 DEF PlanInv

\* A plan that takes the next k devices.
Fabricates(k) ==
    /\ plan' = [plan EXCEPT !.devices = @ \o SubSeq(world.coming, 1, k)]
    /\ world' = [world EXCEPT !.coming = SubSeq(@, k + 1, Len(@))]

LEMMA TickFabricates ==
    ASSUME PlanInv, Tick
    PROVE  \E k \in 0..Len(world.coming) : Fabricates(k)
<1>1. PICK all, hosts : Growing(all, hosts)
  BY DEF PlanInv
<1>2. Len(world.coming) \in Nat
  BY <1>1, SeqFacts DEF Growing, Split
<1>3. \E k \in IF world.sealed THEN {0} ELSE 0..Least(Batch, Len(world.coming)) : Fabricates(k)
  BY Zenon DEF Tick, Fabricates
<1>4. PICK k \in IF world.sealed THEN {0} ELSE 0..Least(Batch, Len(world.coming)) : Fabricates(k)
  BY <1>3
<1>5. k \in 0..Len(world.coming)
  BY <1>2, CadenceAssumption DEF Least
<1>6. QED
  BY <1>4, <1>5

LEMMA PlanInvStep ==
    ASSUME PlanInv, Next
    PROVE  PlanInv' /\ world'.phases = world.phases
<1>1. PICK all, hosts : Growing(all, hosts)
  BY DEF PlanInv
<1>2. CASE Tick
  <2>1. PICK k \in 0..Len(world.coming) : Fabricates(k)
    BY <1>2, TickFabricates
  <2>2. plan' = [devices |-> plan.devices \o SubSeq(world.coming, 1, k), hosts |-> plan.hosts]
    BY <2>1 DEF PlanInv, Fabricates
  <2>3. world' = [devices |-> world.devices,
                  coming |-> SubSeq(world.coming, k + 1, Len(world.coming)),
                  hosts |-> world.hosts, phases |-> world.phases, sealed |-> world.sealed]
    BY <2>1 DEF PlanInv, Fabricates
  <2>4. Split(all, plan'.devices, world'.coming)
    <3>1. Split(all, plan.devices \o SubSeq(world.coming, 1, k),
                SubSeq(world.coming, k + 1, Len(world.coming)))
      BY <1>1, SplitMoves DEF Growing
    <3>2. QED
      BY <2>2, <2>3, <3>1
  <2>5. plan'.hosts = plan.hosts /\ world'.hosts = world.hosts /\ world'.phases = world.phases
    BY <2>2, <2>3
  <2>6. Growing(all, hosts)'
    BY <1>1, <2>4, <2>5 DEF Growing
  <2>7. plan' = [devices |-> plan'.devices, hosts |-> plan'.hosts]
    BY <2>2
  <2>8. world' = [devices |-> world'.devices, coming |-> world'.coming, hosts |-> world'.hosts,
                  phases |-> world'.phases, sealed |-> world'.sealed]
    BY <2>3
  <2>9. QED
    BY <2>5, <2>6, <2>7, <2>8 DEF PlanInv
<1>3. CASE Register
  <2>0. /\ plan' = [plan EXCEPT !.hosts = @ \cup {Head(world.hosts)}]
        /\ world' = [world EXCEPT !.hosts = Tail(@)] /\ world.hosts # <<>>
    BY <1>3 DEF Register
  <2>1. plan' = [devices |-> plan.devices, hosts |-> plan.hosts \cup {Head(world.hosts)}]
    BY <2>0 DEF PlanInv
  <2>2. world' = [devices |-> world.devices, coming |-> world.coming, hosts |-> Tail(world.hosts),
                  phases |-> world.phases, sealed |-> world.sealed]
    BY <2>0 DEF PlanInv
  <2>3. /\ IsSeq(Tail(world.hosts)) /\ Head(world.hosts) \in ToSet(world.hosts)
        /\ ToSet(Tail(world.hosts)) \subseteq ToSet(world.hosts)
    BY <1>1, <2>0, TailFacts DEF Growing
  <2>4. IsFiniteSet(plan.hosts \cup {Head(world.hosts)})
    BY <1>1, FS_AddElement DEF Growing
  <2>5. /\ plan'.devices = plan.devices /\ plan'.hosts = plan.hosts \cup {Head(world.hosts)}
        /\ world'.coming = world.coming /\ world'.hosts = Tail(world.hosts)
        /\ world'.phases = world.phases
    BY <2>1, <2>2
  <2>6. Growing(all, hosts)'
    BY <1>1, <2>3, <2>4, <2>5 DEF Growing
  <2>7. plan' = [devices |-> plan'.devices, hosts |-> plan'.hosts]
    BY <2>1
  <2>8. world' = [devices |-> world'.devices, coming |-> world'.coming, hosts |-> world'.hosts,
                  phases |-> world'.phases, sealed |-> world'.sealed]
    BY <2>2
  <2>9. QED
    BY <2>5, <2>6, <2>7, <2>8 DEF PlanInv
<1>4. CASE Skip \/ Send \/ Cut \/ Restart
  <2>1. UNCHANGED <<plan, world>>
    BY <1>4 DEF Skip, Send, Cut, Restart, daemon
  <2>2. QED
    BY <1>1, <2>1 DEF PlanInv, Growing
<1>5. QED
  BY <1>2, <1>3, <1>4 DEF Next

LEMMA AssetsGrow ==
    ASSUME PlanInv, Tick
    PROVE  Assets(plan) \subseteq Assets(plan')
<1>1. PICK all, hosts : Growing(all, hosts)
  BY DEF PlanInv
<1>2. PICK k \in 0..Len(world.coming) : Fabricates(k)
  BY TickFabricates
<1> DEFINE s == plan.devices
           x == SubSeq(world.coming, 1, k)
           u == s \o x
<1>3. plan' = [devices |-> u, hosts |-> plan.hosts]
  BY <1>2 DEF PlanInv, Fabricates
<1>4. IsSeq(s) /\ IsSeq(world.coming)
  BY <1>1 DEF Growing, Split
<1>5. IsSeq(x)
  <2>1. 1 \in Nat \ {0} /\ 1 <= k + 1
    OBVIOUS
  <2>2. x \in Seq(ToSet(world.coming))
    BY <1>4, <2>1, SubSeqFacts
  <2>3. QED
    BY <2>2, SeqIsSeq
<1> HIDE DEF x
<1>6. IsSeq(u) /\ Within(s, u, 0) /\ Len(s) \in Nat /\ Len(u) \in Nat
  BY <1>4, <1>5, ConcatFacts, SeqFacts
<1>7. DOMAIN s = 1..Len(s) /\ DOMAIN u = 1..Len(u)
  BY <1>4, <1>6, SeqFacts
<1> HIDE DEF u
<1>8. \A i \in DOMAIN s : i \in DOMAIN u /\ u[i] = s[i]
  <2>1. Len(s) <= Len(u) /\ \A i \in 1..Len(s) : u[0 + i] = s[i] /\ 0 + i = i
    BY <1>6 DEF Within
  <2>2. QED
    BY <1>6, <1>7, <2>1
<1> DEFINE A(d) == [ip |-> d.ip, mac |-> d.mac, zone |-> d.zone]
<1>9. Assets(plan) = {A(s[i]) : i \in DOMAIN s} \cup plan.hosts
  BY DEF Assets
<1>10. Assets(plan') = {A(u[i]) : i \in DOMAIN u} \cup plan.hosts
  BY <1>3 DEF Assets
<1> HIDE DEF A, s
<1>11. QED
  BY <1>8, <1>9, <1>10

-----------------------------------------------------------------------------
(* The sensor.                                                             *)

SensorOK(s) ==
    /\ s = [bound |-> s.bound, asked |-> s.asked, streams |-> s.streams, talks |-> s.talks]
    /\ DOMAIN s.streams \subseteq DOMAIN s.talks

\* What a frame teaches the sensor of addresses.
Taught(f, s) ==
    /\ s.asked = IF f.kind = "who_has" THEN sensor.asked \cup {<<f.src, f.dst>>}
                 ELSE sensor.asked
    /\ s.bound = IF f.kind = "is_at" /\ <<f.dst, f.src>> \in sensor.asked
                 THEN With(sensor.bound, f.src, f.smac) ELSE sensor.bound

LEMMA SeesOK ==
    ASSUME SensorOK(sensor), NEW f
    PROVE  SensorOK(Sees(f)) /\ Taught(f, Sees(f))
<1> DEFINE Told(bound, asked, streams, talks) ==
             [bound |-> bound, asked |-> asked, streams |-> streams, talks |-> talks]
           s == sensor
<1>1. s = Told(s.bound, s.asked, s.streams, s.talks) /\ DOMAIN s.streams \subseteq DOMAIN s.talks
  BY DEF SensorOK
<1>2. ASSUME f.kind \notin {"who_has", "is_at"}, Sees(f) = sensor
      PROVE  SensorOK(Sees(f)) /\ Taught(f, Sees(f))
  BY <1>2 DEF Taught
<1>3. ASSUME f.kind \notin {"who_has", "is_at"}, NEW streams, NEW talks,
             Sees(f) = [sensor EXCEPT !.streams = streams, !.talks = talks],
             DOMAIN streams \subseteq DOMAIN talks
      PROVE  SensorOK(Sees(f)) /\ Taught(f, Sees(f))
  <2>1. Sees(f) = Told(s.bound, s.asked, streams, talks)
    BY <1>1, <1>3
  <2>2. QED
    BY <1>3, <2>1 DEF SensorOK, Taught
<1>4. CASE f.kind = "who_has"
  <2>1. Sees(f) = [sensor EXCEPT !.asked = @ \cup {<<f.src, f.dst>>}]
    BY <1>4 DEF Sees
  <2>2. Sees(f) = Told(s.bound, s.asked \cup {<<f.src, f.dst>>}, s.streams, s.talks)
    BY <1>1, <2>1
  <2>3. QED
    BY <1>1, <1>4, <2>2 DEF SensorOK, Taught
<1>5. CASE f.kind = "is_at"
  <2> DEFINE bound == IF <<f.dst, f.src>> \in sensor.asked
                      THEN With(sensor.bound, f.src, f.smac) ELSE sensor.bound
  <2>1. Sees(f) = [sensor EXCEPT !.bound = bound]
    BY <1>5 DEF Sees
  <2>2. Sees(f) = Told(bound, s.asked, s.streams, s.talks)
    BY <1>1, <2>1
  <2>3. QED
    BY <1>1, <1>5, <2>2 DEF SensorOK, Taught
<1>6. CASE f.kind \in {"tcp", "udp"} /\ f.conn \in torn
  <2>1. Sees(f) = sensor
    BY <1>6 DEF Sees
  <2>2. QED
    BY <1>2, <1>6, <2>1
<1>7. CASE f.kind = "udp" /\ f.conn \notin torn
  <2>1. Sees(f) = [sensor EXCEPT !.talks = With(@, f.conn, Heard(TalkOf(f.conn), f.msg))]
    BY <1>7 DEF Sees
  <2>2. Sees(f) = Told(s.bound, s.asked, s.streams,
                       With(s.talks, f.conn, Heard(TalkOf(f.conn), f.msg)))
    BY <1>1, <2>1
  <2>3. DOMAIN With(s.talks, f.conn, Heard(TalkOf(f.conn), f.msg)) = DOMAIN s.talks \cup {f.conn}
    BY DEF With
  <2>4. QED
    BY <1>1, <1>7, <2>2, <2>3 DEF SensorOK, Taught
<1>8. CASE f.kind = "tcp" /\ f.conn \notin torn /\ Closes(f)
  <2>1. Sees(f) = [sensor EXCEPT !.streams = Without(s.streams, {f.conn}),
                                 !.talks = Without(s.talks, {f.conn})]
    BY <1>8 DEF Sees
  <2>2. DOMAIN Without(s.streams, {f.conn}) \subseteq DOMAIN Without(s.talks, {f.conn})
    BY <1>1 DEF Without
  <2>3. QED
    BY <1>3, <1>8, <2>1, <2>2
<1>9. CASE f.kind = "tcp" /\ f.conn \notin torn /\ ~Closes(f)
  <2> DEFINE heard == Heard(IF Syn(f) THEN Silent ELSE TalkOf(f.conn), f.msg)
  <2>1. Sees(f) = [sensor EXCEPT !.streams = With(s.streams, f.conn, Followed(StreamOf(f), f)),
                                 !.talks = With(s.talks, f.conn, heard)]
    BY <1>9 DEF Sees
  <2>2. DOMAIN With(s.streams, f.conn, Followed(StreamOf(f), f))
          \subseteq DOMAIN With(s.talks, f.conn, heard)
    <3>1. /\ DOMAIN With(s.streams, f.conn, Followed(StreamOf(f), f))
               = DOMAIN s.streams \cup {f.conn}
          /\ DOMAIN With(s.talks, f.conn, heard) = DOMAIN s.talks \cup {f.conn}
      BY DEF With
    <3>2. QED
      BY <1>1, <3>1
  <2> HIDE DEF heard
  <2>3. QED
    BY <1>3, <1>9, <2>1, <2>2
<1>10. CASE f.kind \notin {"who_has", "is_at", "tcp", "udp"}
  <2>1. Sees(f) = sensor
    BY <1>10 DEF Sees
  <2>2. QED
    BY <1>2, <1>10, <2>1
<1>11. QED
  BY <1>4, <1>5, <1>6, <1>7, <1>8, <1>9, <1>10

-----------------------------------------------------------------------------
(* The inductive invariant, in its parts.                                  *)

NumInv == run \in 0..MaxRuns /\ nonce \in 0..run /\ restarts \in 0..MaxRestarts

BurstInv == IsSeq(burst) /\ \A f \in ToSet(burst) : Sendable(f)

\* An asset is bound, or will be: its answer is still to be sent, and the question was
\* asked or is to be sent before it.
Binds(a) ==
    \/ a.ip \in DOMAIN sensor.bound /\ sensor.bound[a.ip] = a.mac
    \/ \E r : Before(burst, Question(r, a), Answer(r, a))
    \/ \E r : <<r.ip, a.ip>> \in sensor.asked /\ Answer(r, a) \in ToSet(burst)

\* Nobody answers for an asset but itself.
OwnMac(a) == \A f \in ToSet(burst) : f.kind = "is_at" /\ f.src = a.ip => f.smac = a.mac

ArpInv ==
    /\ announced \subseteq Assets(plan)
    /\ \A a \in announced : Binds(a) /\ OwnMac(a)
    /\ Few(sensor.asked \cup Asks(ToSet(burst)))

IInv ==
    /\ PlanInv /\ NumInv /\ WalkIn(walk, world.phases) /\ BurstInv
    /\ SensorOK(sensor) /\ ArpInv

LEMMA FewNone == Few({})
<1>1. \A r : {q \in {} : q[1] = r} = {}
  OBVIOUS
<1>2. QED
  BY <1>1, FS_EmptySet DEF Few, CELL_SIZE

LEMMA NoFrames == IsSeq(<<>>) /\ ToSet(<<>>) = {} /\ Asks({}) = {}
  BY DEF IsSeq, ToSet, Asks

LEMMA StartWalkIn ==
    ASSUME NEW phases, IsPlaybook(phases)
    PROVE  WalkIn(StartWalk, phases)
<1>1. WalkOK(StartWalk) /\ StartWalk.phase = 1 /\ StartWalk.cursor = 1
  BY DEF WalkOK, StartWalk, None
<1>2. ASSUME phases # <<>>
      PROVE  1 \in DOMAIN phases /\ 1 \in 1..Len(phases[1].events) + 1
  <2>1. IsSeq(phases) /\ Len(phases) \in Nat /\ DOMAIN phases = 1..Len(phases)
        /\ ToSet(phases) = {phases[i] : i \in 1..Len(phases)}
    BY SeqFacts DEF IsPlaybook
  <2>2. 1 \in 1..Len(phases)
    BY <1>2, <2>1, EmptySeq DEF IsSeq
  <2>3. phases[1] \in ToSet(phases)
    BY <2>1, <2>2
  <2>4. Len(phases[1].events) \in Nat
    BY <2>3, SeqFacts DEF IsPlaybook
  <2>5. QED
    BY <2>1, <2>2, <2>4
<1>3. QED
  BY <1>1, <1>2 DEF WalkIn

LEMMA TailIn ==
    ASSUME NEW s, IsSeq(s), s # <<>>, NEW y \in ToSet(s)
    PROVE  y = Head(s) \/ y \in ToSet(Tail(s))
<1> DEFINE n == Len(s)
           t == Tail(s)
<1>1. /\ n \in Nat /\ IsSeq(t) /\ Len(t) = n - 1 /\ Head(s) = s[1]
      /\ \A i \in 1..(n - 1) : t[i] = s[i + 1]
      /\ ToSet(s) = {s[i] : i \in 1..n}
  BY TailFacts, SeqFacts
<1>2. ToSet(t) = {t[i] : i \in 1..(n - 1)}
  BY ZenonT(20), <1>1, SeqFacts
<1>3. PICK i \in 1..n : y = s[i]
  BY <1>1
<1> HIDE DEF n, t
<1>4. CASE i # 1
  <2>1. i - 1 \in 1..(n - 1) /\ (i - 1) + 1 = i
    BY <1>1, <1>4
  <2>2. t[i - 1] = s[i]
    BY <1>1, <2>1
  <2>3. y \in ToSet(t)
    BY <1>2, <1>3, <2>1, <2>2
  <2>4. QED
    BY <2>3 DEF t
<1>5. QED
  BY <1>1, <1>3, <1>4

LEMMA TailBefore ==
    ASSUME NEW s, IsSeq(s), s # <<>>, NEW x, NEW y, Before(s, x, y)
    PROVE  (x = Head(s) /\ y \in ToSet(Tail(s))) \/ Before(Tail(s), x, y)
<1> DEFINE n == Len(s)
           t == Tail(s)
<1>1. /\ n \in Nat /\ IsSeq(t) /\ Len(t) = n - 1 /\ Head(s) = s[1]
      /\ \A i \in 1..(n - 1) : t[i] = s[i + 1]
  BY TailFacts
<1>2. ToSet(t) = {t[i] : i \in 1..(n - 1)}
  BY <1>1, SeqFacts
<1>3. PICK i \in 1..n, j \in 1..n : i < j /\ s[i] = x /\ s[j] = y
  BY DEF Before
<1> HIDE DEF n, t
<1>4. j - 1 \in 1..(n - 1) /\ (j - 1) + 1 = j
  BY <1>1, <1>3
<1>5. t[j - 1] = y
  BY <1>1, <1>3, <1>4
<1>6. y \in ToSet(t)
  BY <1>2, <1>4, <1>5
<1>7. CASE i # 1
  <2>1. i - 1 \in 1..(n - 1) /\ (i - 1) + 1 = i /\ i - 1 < j - 1
    BY <1>1, <1>3, <1>7
  <2>2. t[i - 1] = x
    BY <1>1, <1>3, <2>1
  <2>3. Before(t, x, y)
    BY <1>1, <1>4, <1>5, <2>1, <2>2 DEF Before
  <2>4. QED
    BY <2>3 DEF t
<1>8. CASE i = 1
  BY <1>1, <1>3, <1>6, <1>8 DEF t
<1>9. QED
  BY <1>7, <1>8

-----------------------------------------------------------------------------
(* Its steps.                                                              *)

LEMMA IInvInit ==
    ASSUME Init
    PROVE  IInv
<1>1. PlanInv
  BY PlanInvInit
<1>2. NumInv
  BY BoundsAssumption DEF Init, NumInv
<1>3. IsPlaybook(world.phases)
  BY <1>1 DEF PlanInv
<1>4. walk = StartWalk /\ burst = <<>> /\ announced = {} /\ sensor = Blind
  BY DEF Init
<1>5. WalkIn(walk, world.phases)
  BY <1>3, <1>4, StartWalkIn
<1>6. BurstInv
  BY <1>4, NoFrames DEF BurstInv
<1>7. SensorOK(sensor)
  BY <1>4 DEF SensorOK, Blind
<1>8. ArpInv
  <2>1. sensor.asked \cup Asks(ToSet(burst)) = {}
    BY <1>4, NoFrames DEF Blind
  <2>2. QED
    BY <1>4, <2>1, FewNone DEF ArpInv
<1>9. QED
  BY <1>1, <1>2, <1>5, <1>6, <1>7, <1>8 DEF IInv

LEMMA AttackOK ==
    ASSUME PlanInv, NumInv, WalkIn(walk, world.phases), NEW devices
    PROVE  /\ Quiet(Attack(devices).frames)
           /\ WalkIn(Attack(devices).walk, world.phases)
<1>1. IsPlaybook(world.phases) /\ nonce \in Nat
  BY DEF PlanInv, NumInv
<1>2. CASE world.phases = <<>>
  BY <1>2, QuietEmpty DEF Attack
<1>3. CASE world.phases # <<>>
  <2>1. Attack(devices) = PhaseFrames(walk, world.phases, devices, nonce)
    BY <1>3 DEF Attack
  <2>2. QED
    BY <1>1, <1>3, <2>1, PhaseFramesOK
<1>4. QED
  BY <1>2, <1>3

\* A burst that the sensor has not begun to see.
LEMMA FreshBurst ==
    ASSUME SensorOK(sensor), NEW conns, sensor' = GivesUp(conns)
    PROVE  SensorOK(sensor') /\ sensor'.asked = {} /\ sensor'.bound = <<>>
<1>1. sensor' = [bound |-> <<>>, asked |-> {}, streams |-> Without(sensor.streams, conns),
                 talks |-> Without(sensor.talks, conns)]
  BY DEF GivesUp
<1>2. DOMAIN Without(sensor.streams, conns) \subseteq DOMAIN Without(sensor.talks, conns)
  BY DEF SensorOK, Without
<1>3. QED
  BY <1>1, <1>2 DEF SensorOK

\* No burst, and nothing announced.
LEMMA NoBurst ==
    ASSUME burst' = <<>>, announced' = {}, sensor'.asked = {}
    PROVE  BurstInv' /\ ArpInv'
<1>1. BurstInv'
  BY NoFrames DEF BurstInv
<1>2. sensor'.asked \cup Asks(ToSet(burst')) = {}
  BY NoFrames
<1>3. ArpInv'
  BY <1>2, FewNone DEF ArpInv
<1>4. QED
  BY <1>1, <1>3

LEMMA AnnounceOK ==
    ASSUME SensorOK(sensor), NEW p, NEW identities, ArpOK(Assets(p), identities),
           NEW attack, Quiet(attack.frames), Announce(p, identities, attack),
           Assets(plan') = Assets(p)
    PROVE  BurstInv' /\ SensorOK(sensor') /\ ArpInv'
<1> DEFINE frames == identities \o attack.frames
           S == {f \in ToSet(frames) : Sendable(f)}
<1>1. sensor' = GivesUp(torn')
  BY Zenon DEF Announce
<1>2. SensorOK(sensor') /\ sensor'.asked = {}
  BY <1>1, FreshBurst
<1>3. \/ burst' = Kept(frames, S) /\ announced' = Assets(p)
      \/ burst' = <<>> /\ announced' = {}
  BY Zenon DEF Announce
<1>4. CASE burst' = <<>> /\ announced' = {}
  BY <1>2, <1>4, NoBurst
<1>5. CASE burst' = Kept(frames, S) /\ announced' = Assets(p)
  <2>1. ArpOK(Assets(p), frames)
    BY ArpConcat
  <2>2. ArpOK(Assets(p), burst')
    BY <1>5, <2>1, ArpKept
  <2>3. IsSeq(frames)
    BY <2>1 DEF ArpOK
  <2>4. ToSet(burst') \subseteq S
    BY <1>5, <2>3, KeptFacts
  <2>5. BurstInv'
    BY <2>2, <2>4 DEF BurstInv, ArpOK
  <2>6. announced' \subseteq Assets(plan')
    BY <1>5
  <2>7. ASSUME NEW a \in announced' PROVE Binds(a)' /\ OwnMac(a)'
    BY <1>5, <2>2, <2>7 DEF ArpOK, Binds, OwnMac
  <2>8. Few(sensor'.asked \cup Asks(ToSet(burst')))
    <3>1. sensor'.asked \cup Asks(ToSet(burst')) = Asks(ToSet(burst'))
      BY <1>2
    <3>2. QED
      BY <2>2, <3>1 DEF ArpOK
  <2>9. ArpInv'
    BY <2>6, <2>7, <2>8 DEF ArpInv
  <2>10. QED
    BY <1>2, <2>5, <2>9
<1>6. QED
  BY <1>3, <1>4, <1>5

LEMMA SendOK ==
    ASSUME SensorOK(sensor), BurstInv, ArpInv, Send
    PROVE  BurstInv' /\ SensorOK(sensor') /\ ArpInv'
<1> DEFINE f == Head(burst)
           t == Tail(burst)
<1>1. /\ burst # <<>> /\ IsSeq(burst) /\ sensor' = Sees(f) /\ burst' = t
      /\ announced' = announced /\ plan' = plan
  BY DEF Send, BurstInv, daemon
<1>2. IsSeq(t) /\ f \in ToSet(burst) /\ ToSet(t) \subseteq ToSet(burst)
  BY <1>1, TailFacts
<1>3. SensorOK(sensor') /\ Taught(f, sensor')
  BY <1>1, SeesOK
<1>4. BurstInv'
  BY <1>1, <1>2 DEF BurstInv
<1>5. sensor.asked \subseteq sensor'.asked
  BY <1>3 DEF Taught
<1>6. ASSUME NEW a \in announced PROVE Binds(a)'
  <2>1. Binds(a) /\ OwnMac(a)
    BY DEF ArpInv
  <2>2. f.kind = "is_at" /\ f.src = a.ip => f.smac = a.mac
    BY <1>2, <2>1 DEF OwnMac
  <2>3. CASE a.ip \in DOMAIN sensor.bound /\ sensor.bound[a.ip] = a.mac
    <3>1. a.ip \in DOMAIN sensor'.bound /\ sensor'.bound[a.ip] = a.mac
      BY <1>3, <2>2, <2>3 DEF Taught, With
    <3>2. QED
      BY <3>1 DEF Binds
  <2>4. ASSUME NEW r, Before(burst, Question(r, a), Answer(r, a)) PROVE Binds(a)'
    <3>1. CASE Before(t, Question(r, a), Answer(r, a))
      BY <1>1, <3>1 DEF Binds
    <3>2. CASE Question(r, a) = f /\ Answer(r, a) \in ToSet(t)
      <4>1. f.kind = "who_has" /\ f.src = r.ip /\ f.dst = a.ip
        BY <3>2 DEF Question
      <4>2. <<r.ip, a.ip>> \in sensor'.asked
        BY <1>3, <4>1 DEF Taught
      <4>3. QED
        BY <1>1, <3>2, <4>2 DEF Binds
    <3>3. QED
      BY <1>1, <2>4, <3>1, <3>2, TailBefore
  <2>5. ASSUME NEW r, <<r.ip, a.ip>> \in sensor.asked, Answer(r, a) \in ToSet(burst)
        PROVE  Binds(a)'
    <3>1. CASE Answer(r, a) \in ToSet(t)
      BY <1>1, <1>5, <2>5, <3>1 DEF Binds
    <3>2. CASE Answer(r, a) = f
      <4>1. f.kind = "is_at" /\ f.src = a.ip /\ f.dst = r.ip /\ f.smac = a.mac
        BY <3>2 DEF Answer
      <4>2. sensor'.bound = With(sensor.bound, a.ip, a.mac)
        BY <1>3, <2>5, <4>1 DEF Taught
      <4>3. a.ip \in DOMAIN sensor'.bound /\ sensor'.bound[a.ip] = a.mac
        BY <4>2 DEF With
      <4>4. QED
        BY <4>3 DEF Binds
    <3>3. QED
      BY <1>1, <2>5, <3>1, <3>2, TailIn
  <2>6. QED
    BY <2>1, <2>3, <2>4, <2>5 DEF Binds
<1>7. ASSUME NEW a \in announced PROVE OwnMac(a)'
  BY <1>1, <1>2 DEF ArpInv, OwnMac
<1>8. Few(sensor'.asked \cup Asks(ToSet(burst')))
  <2>1. sensor'.asked \cup Asks(ToSet(t)) \subseteq sensor.asked \cup Asks(ToSet(burst))
    BY <1>2, <1>3 DEF Taught, Asks
  <2>2. QED
    BY <1>1, <2>1, FewLess DEF ArpInv
<1>9. announced' \subseteq Assets(plan)'
  BY <1>1 DEF ArpInv
<1>10. ArpInv'
  BY <1>1, <1>6, <1>7, <1>8, <1>9 DEF ArpInv
<1>11. QED
  BY <1>3, <1>4, <1>10

LEMMA PlanNext == PlanInv' => PlanOK(plan')
<1>1. PlanInv => PlanOK(plan)
  BY PlanInvOK
<1>2. PlanInv' => PlanOK(plan)'
  BY <1>1, PTL
<1>3. QED
  BY <1>2 DEF PlanOK

LEMMA TickOK ==
    ASSUME IInv, PlanInv', world'.phases = world.phases, Tick
    PROVE  /\ NumInv' /\ WalkIn(walk', world'.phases)
           /\ BurstInv' /\ SensorOK(sensor') /\ ArpInv'
<1>1. /\ run' = run + 1 /\ run < MaxRuns /\ restarts' = restarts
      /\ \/ UNCHANGED <<nonce, walk, burst, announced, opened, clashed, torn, sensor>>
         \/ \E identities \in {BuildAssertions(plan', run, nonce)},
               attack \in {Attack(plan'.devices)} : Announce(plan', identities, attack)
  BY Zenon DEF Tick
<1>2. CASE UNCHANGED <<nonce, walk, burst, announced, opened, clashed, torn, sensor>>
  <2>1. NumInv'
    BY <1>1, <1>2, BoundsAssumption DEF IInv, NumInv
  <2>2. WalkIn(walk', world'.phases) /\ SensorOK(sensor')
    BY <1>2 DEF IInv
  <2>3. BurstInv'
    BY <1>2 DEF IInv, BurstInv
  <2>4. Assets(plan) \subseteq Assets(plan')
    BY AssetsGrow DEF IInv
  <2>5. ArpInv'
    BY <1>2, <2>4 DEF IInv, ArpInv, Binds, OwnMac
  <2>6. QED
    BY <2>1, <2>2, <2>3, <2>5
<1>3. CASE \E identities \in {BuildAssertions(plan', run, nonce)},
              attack \in {Attack(plan'.devices)} : Announce(plan', identities, attack)
  <2> DEFINE identities == BuildAssertions(plan', run, nonce)
             attack == Attack(plan'.devices)
  <2>1. Announce(plan', identities, attack)
    BY <1>3, Zenon
  <2>2. ArpOK(Assets(plan'), identities)
    BY PlanNext, AssertionsOK
  <2>3. Quiet(attack.frames) /\ WalkIn(attack.walk, world.phases)
    BY AttackOK DEF IInv
  <2> HIDE DEF identities, attack
  <2>4. nonce' = nonce + 1 /\ walk' = attack.walk
    BY <2>1, Zenon DEF Announce
  <2>5. NumInv'
    BY <1>1, <2>4, BoundsAssumption DEF IInv, NumInv
  <2>6. SensorOK(sensor)
    BY DEF IInv
  <2>7. BurstInv' /\ SensorOK(sensor') /\ ArpInv'
    BY <2>1, <2>2, <2>3, <2>6, AnnounceOK
  <2>8. QED
    BY <2>3, <2>4, <2>5, <2>7
<1>4. QED
  BY <1>1, <1>2, <1>3

LEMMA IInvStep ==
    ASSUME IInv, [Next]_vars
    PROVE  IInv'
<1>1. CASE Next
  <2>1. PlanInv' /\ world'.phases = world.phases
    BY <1>1, PlanInvStep DEF IInv
  <2>2. CASE Tick
    BY <2>1, <2>2, TickOK DEF IInv
  <2>3. CASE Skip
    <3>1. NumInv'
      BY <2>3, BoundsAssumption DEF Skip, IInv, NumInv
    <3>2. UNCHANGED <<world, plan, walk, burst, announced, sensor>>
      BY <2>3 DEF Skip
    <3>3. WalkIn(walk', world'.phases) /\ SensorOK(sensor')
      BY <3>2 DEF IInv
    <3>4. BurstInv' /\ ArpInv'
      BY <3>2 DEF IInv, BurstInv, ArpInv, Binds, OwnMac
    <3>5. QED
      BY <2>1, <3>1, <3>3, <3>4 DEF IInv
  <2>4. CASE Register
    <3>1. UNCHANGED <<run, nonce, walk, restarts, sensor>> /\ burst = <<>> /\ burst' = <<>>
          /\ announced' = {}
      BY <2>4 DEF Register
    <3>2. NumInv' /\ WalkIn(walk', world'.phases) /\ SensorOK(sensor')
      BY <2>1, <3>1 DEF IInv, NumInv
    <3>3. BurstInv'
      BY <3>1 DEF IInv, BurstInv
    <3>4. Few(sensor'.asked \cup Asks(ToSet(burst')))
      BY <3>1 DEF IInv, ArpInv
    <3>5. ArpInv'
      BY <3>1, <3>4 DEF ArpInv
    <3>6. QED
      BY <2>1, <3>2, <3>3, <3>5 DEF IInv
  <2>5. CASE Send
    <3>1. UNCHANGED daemon
      BY <2>5 DEF Send
    <3>2. NumInv' /\ WalkIn(walk', world'.phases)
      BY <3>1 DEF daemon, IInv, NumInv
    <3>3. BurstInv' /\ SensorOK(sensor') /\ ArpInv'
      BY <2>5, SendOK DEF IInv
    <3>4. QED
      BY <2>1, <3>2, <3>3 DEF IInv
  <2>6. CASE Cut
    <3>1. UNCHANGED daemon /\ burst' = <<>> /\ announced' = {} /\ sensor' = GivesUp(torn')
      BY <2>6 DEF Cut
    <3>2. NumInv' /\ WalkIn(walk', world'.phases)
      BY <3>1 DEF daemon, IInv, NumInv
    <3>3. SensorOK(sensor') /\ sensor'.asked = {}
      BY <3>1, FreshBurst DEF IInv
    <3>4. BurstInv' /\ ArpInv'
      BY <3>1, <3>3, NoBurst
    <3>5. QED
      BY <2>1, <3>2, <3>3, <3>4 DEF IInv
  <2>7. CASE Restart
    <3>1. /\ run' = 0 /\ nonce' = 0 /\ restarts < MaxRestarts /\ restarts' = restarts + 1
          /\ walk' = StartWalk /\ burst' = <<>> /\ announced' = {} /\ sensor' = Blind
      BY <2>7 DEF Restart
    <3>2. NumInv'
      BY <3>1, BoundsAssumption DEF IInv, NumInv
    <3>3. IsPlaybook(world.phases)
      BY DEF IInv, PlanInv
    <3>4. WalkIn(walk', world'.phases)
      BY <2>1, <3>1, <3>3, StartWalkIn
    <3>5. SensorOK(sensor') /\ sensor'.asked = {}
      BY <3>1 DEF SensorOK, Blind
    <3>6. BurstInv' /\ ArpInv'
      BY <3>1, <3>5, NoBurst
    <3>7. QED
      BY <2>1, <3>2, <3>4, <3>5, <3>6 DEF IInv
  <2>8. QED
    BY <1>1, <2>2, <2>3, <2>4, <2>5, <2>6, <2>7 DEF Next
<1>2. CASE UNCHANGED vars
  BY <1>2 DEF vars, daemon, IInv, PlanInv, Growing, NumInv, BurstInv, ArpInv, Binds, OwnMac
<1>3. QED
  BY <1>1, <1>2

LEMMA Invariance == Spec => []IInv
<1>1. Init => IInv
  BY IInvInit
<1>2. IInv /\ [Next]_vars => IInv'
  BY IInvStep
<1>3. QED
  BY <1>1, <1>2, PTL DEF Spec

-----------------------------------------------------------------------------
(* The theorems of the burst.                                              *)

\* scenario/engine.rs:41-49, simulate/engine.rs:880-1010: for any plans, playbooks and
\* bounds, a nonce is pinned if and only if an event is in mid-spill, the cursor stays in
\* the playbook, a burst introduces assets of the plan alone, and has sendable frames alone.
THEOREM TypeCorrect == Spec => []TypeOK
<1>1. IInv => TypeOK
  <2> SUFFICES ASSUME IInv PROVE TypeOK
    OBVIOUS
  <2>1. run \in 0..MaxRuns /\ nonce \in 0..run /\ restarts \in 0..MaxRestarts
    BY DEF IInv, NumInv
  <2>2. WalkIn(walk, world.phases)
    BY DEF IInv
  <2>3. walk.spill # None <=> walk.offset > 0
    BY <2>2 DEF WalkIn, WalkOK
  <2>4. world.phases # <<>> =>
          walk.phase \in DOMAIN world.phases
            /\ walk.cursor \in 1..Len(world.phases[walk.phase].events) + 1
    BY <2>2 DEF WalkIn
  <2>5. announced \subseteq Assets(plan) /\ \A f \in ToSet(burst) : Sendable(f)
    BY DEF IInv, ArpInv, BurstInv
  <2>6. DOMAIN sensor.streams \subseteq DOMAIN sensor.talks
    BY DEF IInv, SensorOK
  <2>7. QED
    BY <2>1, <2>3, <2>4, <2>5, <2>6 DEF TypeOK
<1>2. QED
  BY <1>1, Invariance, PTL

\* simulate/roles.rs:233-236, 325-349 and simulate/engine.rs:970-1010: for a plan of any
\* size that grows in any way, after every burst that came through, cut and restarted
\* before at will, the sensor has each asset at its address with its own MAC.
THEOREM AssetsBind == Spec => []EveryAssetBinds
<1>1. IInv => EveryAssetBinds
  <2> SUFFICES ASSUME IInv, burst = <<>>, NEW a \in announced
               PROVE  a.ip \in DOMAIN sensor.bound /\ sensor.bound[a.ip] = a.mac
    BY DEF EveryAssetBinds
  <2>1. Binds(a)
    BY DEF IInv, ArpInv
  <2>2. ToSet(burst) = {} /\ Len(burst) = 0
    BY NoFrames, EmptySeq
  <2>3. \A r : ~Before(burst, Question(r, a), Answer(r, a))
    BY <2>2 DEF Before
  <2>4. QED
    BY <2>1, <2>2, <2>3 DEF Binds
<1>2. QED
  BY <1>1, Invariance, PTL

\* simulate/roles.rs:37-45, 235, 298-315: for a plan of any size, at no time has the
\* sensor heard one address ask for more than CELL_SIZE - 1 others in a burst.
THEOREM NobodyScans == Spec => []NoScan
<1>1. IInv => NoScan
  <2> SUFFICES ASSUME IInv, NEW r
               PROVE  Cardinality({q \in sensor.asked : q[1] = r}) <= CELL_SIZE - 1
    BY DEF NoScan
  <2>1. Few(sensor.asked)
    BY FewLess DEF IInv, ArpInv
  <2>2. QED
    BY <2>1 DEF Few
<1>2. QED
  BY <1>1, Invariance, PTL
=============================================================================
