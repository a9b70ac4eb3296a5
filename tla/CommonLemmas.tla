---------------------------- MODULE CommonLemmas ----------------------------
(***************************************************************************)
(* The extrema of sets of naturals, for the proofs about loops that look   *)
(* for the first or the best match; recursion over an interval, for those  *)
(* about what is built up byte by byte or atom by atom; and sequences of   *)
(* anything, for the logs of packets and elements.                         *)
(***************************************************************************)
EXTENDS FiniteSetsExt, WellFoundedInduction, SequenceTheorems, TLAPS

\* A non-empty set of naturals has a smallest member, which Min gives.
LEMMA MinMember ==
  ASSUME NEW S \in SUBSET Nat, S # {}
  PROVE  Min(S) \in S /\ \A n \in S : Min(S) <= n
<1>1. PICK m \in S : \A n \in S : ~ (<<n, m>> \in OpToRel(<, Nat))
  BY NatLessThanWellFounded, WFMin
<1>2. \A n \in S : ~ (n < m)
  BY <1>1, Zenon DEF OpToRel
<1>3. \A n \in S : m <= n
  BY <1>2
<1>4. QED  BY <1>3 DEF Min

\* A non-empty bounded set of naturals has a largest member, which Max gives.
LEMMA MaxMember ==
  ASSUME NEW k \in Nat, NEW S \in SUBSET (0..k), S # {}
  PROVE  Max(S) \in S /\ \A n \in S : n <= Max(S)
<1> DEFINE T == {k - n : n \in S}
<1>1. T \in SUBSET Nat /\ T # {}
  <2>1. \A n \in S : k - n \in Nat
    OBVIOUS
  <2>2. QED  BY <2>1, Zenon
<1>2. PICK m \in T : \A n \in T : m <= n
  BY <1>1, MinMember
<1>3. PICK x \in S : m = k - x
  BY <1>2
<1>4. \A n \in S : n <= x
  <2> TAKE n \in S
  <2>2. k - n \in T
    OBVIOUS
  <2>3. k - x <= k - n
    BY <2>2, <1>2, <1>3
  <2>4. QED  BY <2>3
<1>5. QED  BY <1>4 DEF Max

----------------------------------------------------------------------------
(* Recursion over an interval, for the functions that a model defines by   *)
(* recursion: induction in its first-order form, by the least exception.   *)

\* A set that has 0 and, with every number below N, the next one.
LEMMA IntervalInduction ==
  ASSUME NEW N \in Nat, NEW T, 0 \in T, \A n \in 1..N : n - 1 \in T => n \in T
  PROVE  0..N \subseteq T
<1> DEFINE S == {n \in 0..N : n \notin T}
<1> SUFFICES ASSUME S # {} PROVE FALSE
  OBVIOUS
<1>1. S \in SUBSET Nat
  OBVIOUS
<1>2. Min(S) \in S /\ \A n \in S : Min(S) <= n
  BY <1>1, MinMember
<1> DEFINE m == Min(S)
<1>3. m \in 0..N /\ m \notin T
  BY <1>2
<1> HIDE DEF m
<1>4. m \in 1..N /\ m - 1 \in 0..N /\ ~(m <= m - 1)
  BY <1>3
<1>5. m - 1 \in T
  BY <1>2, <1>4 DEF m
<1>6. QED  BY <1>3, <1>4, <1>5

\* A start value b and a function for every step give a sequence of values.
Iterates(f, N, S, b, step) ==
  f \in [0..N -> S] /\ f[0] = b /\ \A n \in 1..N : f[n] = step[n][f[n - 1]]

LEMMA Iteration ==
  ASSUME NEW N \in Nat, NEW S, NEW b \in S, NEW step \in [1..N -> [S -> S]]
  PROVE  \E f : Iterates(f, N, S, b, step)
<1> DEFINE Good(k) == \E f \in [0..k -> S] : f[0] = b /\ \A n \in 1..k : f[n] = step[n][f[n - 1]]
           T == {k \in 0..N : Good(k)}
<1>1. 0 \in T
  <2> DEFINE g == [k \in 0..0 |-> b]
  <2>1. g \in [0..0 -> S] /\ g[0] = b /\ \A n \in 1..0 : g[n] = step[n][g[n - 1]]
    OBVIOUS
  <2> HIDE DEF g
  <2>2. Good(0)
    BY <2>1, Zenon
  <2>3. QED  BY <2>2
<1>2. ASSUME NEW k \in 1..N, k - 1 \in T PROVE k \in T
  <2>1. PICK f \in [0..(k - 1) -> S] : f[0] = b /\ \A n \in 1..(k - 1) : f[n] = step[n][f[n - 1]]
    BY <1>2
  <2> DEFINE g == [n \in 0..k |-> IF n = k THEN step[k][f[k - 1]] ELSE f[n]]
  <2>2. step[k][f[k - 1]] \in S
    <3>1. f[k - 1] \in S
      BY <2>1
    <3>2. QED  BY <3>1
  <2>3. g \in [0..k -> S]
    BY <2>1, <2>2
  <2>4. g[0] = b
    BY <2>1
  <2>5. ASSUME NEW n \in 1..k PROVE g[n] = step[n][g[n - 1]]
    <3>1. n - 1 \in 0..k /\ n - 1 # k /\ n \in 0..k
      BY <1>2
    <3>2. g[n - 1] = f[n - 1]
      BY <3>1
    <3>3. CASE n = k
      BY <3>2, <3>3
    <3>4. CASE n # k
      <4>1. n \in 1..(k - 1)
        BY <1>2, <3>4
      <4>2. g[n] = f[n]
        BY <3>1, <3>4
      <4>3. QED  BY <4>1, <4>2, <3>2, <2>1
    <3>5. QED  BY <3>3, <3>4
  <2> HIDE DEF g
  <2>6. Good(k)
    BY <2>3, <2>4, <2>5
  <2>7. QED  BY <2>6, <1>2
<1>3. 0..N \subseteq T
  <2> HIDE DEF T
  <2>1. \A k \in 1..N : k - 1 \in T => k \in T
    BY <1>2
  <2>2. QED  BY <1>1, <2>1, IntervalInduction
<1>4. N \in T
  BY <1>3
<1>5. QED  BY <1>4 DEF Iterates

----------------------------------------------------------------------------
(* Sequences of anything.                                                  *)

IsSeq(s) == \E S : s \in Seq(S)

LEMMA AnySeqLen == ASSUME NEW s, IsSeq(s) PROVE Len(s) \in Nat
<1>1. PICK S : s \in Seq(S)
  BY DEF IsSeq
<1>2. QED  BY <1>1, LenProperties

LEMMA AnyEmpty == IsSeq(<<>>) /\ Len(<<>>) = 0
<1>1. <<>> \in Seq(Nat) /\ Len(<<>>) = 0
  OBVIOUS
<1>2. QED  BY <1>1 DEF IsSeq

LEMMA AnySingle == ASSUME NEW x PROVE IsSeq(<<x>>) /\ Len(<<x>>) = 1 /\ <<x>>[1] = x
<1>1. <<x>> \in Seq({x}) /\ Len(<<x>>) = 1 /\ <<x>>[1] = x
  OBVIOUS
<1>2. QED  BY <1>1 DEF IsSeq

LEMMA AnyConcat ==
  ASSUME NEW s, NEW t, IsSeq(s), IsSeq(t)
  PROVE  /\ IsSeq(s \o t) /\ Len(s \o t) = Len(s) + Len(t)
         /\ Len(s) \in Nat /\ Len(t) \in Nat
         /\ \A k \in 1..Len(s) : (s \o t)[k] = s[k]
         /\ \A k \in (Len(s) + 1)..(Len(s) + Len(t)) : (s \o t)[k] = t[k - Len(s)]
<1>1. PICK S : s \in Seq(S)
  BY DEF IsSeq
<1>2. PICK T : t \in Seq(T)
  BY DEF IsSeq
<1> DEFINE U == S \cup T
<1>3. S \subseteq U /\ T \subseteq U
  OBVIOUS
<1> HIDE DEF U
<1>4. s \in Seq(U) /\ t \in Seq(U)
  BY <1>1, <1>2, <1>3, SeqMonotonic
<1>5. /\ s \o t \in Seq(U)
      /\ Len(s \o t) = Len(s) + Len(t)
      /\ \A i \in 1 .. Len(s) + Len(t) : (s \o t)[i] = IF i <= Len(s) THEN s[i] ELSE t[i - Len(s)]
  BY <1>4, ConcatProperties
<1>6. Len(s) \in Nat /\ Len(t) \in Nat
  BY <1>4, LenProperties
<1>7. IsSeq(s \o t)
  BY <1>5 DEF IsSeq
<1>8. QED  BY <1>5, <1>6, <1>7

\* A sequence grows by one element.
LEMMA AnyOneMore ==
  ASSUME NEW s, NEW x, IsSeq(s)
  PROVE  /\ IsSeq(s \o <<x>>) /\ Len(s) \in Nat /\ Len(s \o <<x>>) = Len(s) + 1
         /\ (s \o <<x>>)[Len(s) + 1] = x
         /\ \A k \in 1..Len(s) : (s \o <<x>>)[k] = s[k]
<1>1. IsSeq(<<x>>) /\ Len(<<x>>) = 1 /\ <<x>>[1] = x
  BY AnySingle
<1>2. /\ IsSeq(s \o <<x>>) /\ Len(s \o <<x>>) = Len(s) + Len(<<x>>)
      /\ Len(s) \in Nat
      /\ \A k \in 1..Len(s) : (s \o <<x>>)[k] = s[k]
      /\ \A k \in (Len(s) + 1)..(Len(s) + Len(<<x>>)) : (s \o <<x>>)[k] = <<x>>[k - Len(s)]
  BY <1>1, AnyConcat
<1>3. QED  BY <1>1, <1>2

LEMMA AnyNoMore == ASSUME NEW s, IsSeq(s) PROVE s \o <<>> = s
<1>1. PICK S : s \in Seq(S)
  BY DEF IsSeq
<1>2. QED  BY <1>1, ConcatEmptySeq

LEMMA AnyAppend == ASSUME NEW s, NEW x, IsSeq(s) PROVE Append(s, x) = s \o <<x>>
<1>1. PICK S : s \in Seq(S)
  BY DEF IsSeq
<1> DEFINE U == S \cup {x}
<1>2. S \subseteq U /\ x \in U
  OBVIOUS
<1> HIDE DEF U
<1>3. s \in Seq(U)
  BY <1>1, <1>2, SeqMonotonic
<1>4. QED  BY <1>2, <1>3, AppendIsConcat
=============================================================================
