-------------------------------- MODULE Lists -------------------------------
(***************************************************************************)
(* Lists and maps made from others, written so that they can be reasoned   *)
(* about.                                                                  *)
(***************************************************************************)
EXTENDS Integers, FiniteSets, Sequences, SequencesExt

\* A sequence of something.
IsSeq(s) == s \in Seq(ToSet(s))

\* The elements of s that are in T, in their order.
Kept(s, T) ==
    LET Upto[i \in 0..Len(s)] ==
          IF i = 0 THEN <<>>
          ELSE IF s[i] \in T THEN Append(Upto[i - 1], s[i]) ELSE Upto[i - 1]
    IN  Upto[Len(s)]

\* A map with b for a.
With(map, a, b) == [k \in DOMAIN map \cup {a} |-> IF k = a THEN b ELSE map[k]]

\* The members of a set in the order of Before, which is strict and total on it.
InOrder(S, Before(_, _)) ==
    [i \in 1..Cardinality(S) |->
        CHOOSE x \in S : Cardinality({y \in S : Before(y, x)}) = i - 1]
=============================================================================
