---------------------------- MODULE SequenceFacts ----------------------------
(***************************************************************************)
(* Facts about naturals and sequences that the proofs of several modules   *)
(* need and the library does not state: induction over a set of naturals,  *)
(* functions defined by recursion on their bound, FlattenSeq.              *)
(***************************************************************************)
EXTENDS Integers, Sequences, SequencesExt, SequenceTheorems,
        WellFoundedInduction, TLAPS

-----------------------------------------------------------------------------
(* Induction, and functions defined by recursion on their bound.           *)

(* A set of naturals has a least member.                                   *)
LEMMA Least ==
    ASSUME NEW T \in SUBSET Nat, T # {}
    PROVE  \E x \in T : \A y \in T : x <= y
  <1> DEFINE R == {z \in Nat \X Nat : z[1] < z[2]}
  <1>1. IsWellFoundedOn(R, Nat)
    BY NatLessThanWellFounded DEF OpToRel
  <1>2. PICK x \in T : \A y \in T : ~(<<y, x>> \in R)
    BY <1>1, WFMin
  <1>3. ASSUME NEW y \in T PROVE x <= y
    <2>1. <<y, x>> \in Nat \X Nat /\ <<y, x>>[1] = y /\ <<y, x>>[2] = x
      OBVIOUS
    <2>2. ~(y < x)
      BY <1>2, <2>1
    <2> QED
      BY <2>2
  <1> QED
    BY <1>3

(* Induction: a set that holds 0 and the successors of its members.        *)
LEMMA NatSetInduction ==
    ASSUME NEW T \in SUBSET Nat, 0 \in T, \A n \in T : n + 1 \in T
    PROVE  T = Nat
  <1> DEFINE U == Nat \ T
  <1>1. SUFFICES ASSUME U # {} PROVE FALSE
    OBVIOUS
  <1>2. PICK x \in U : \A y \in U : x <= y
    BY <1>1, Least
  <1>3. x - 1 \in Nat /\ ~(x <= x - 1) /\ (x - 1) + 1 = x
    OBVIOUS
  <1>4. x - 1 \in T
    BY <1>2, <1>3
  <1> QED
    BY <1>3, <1>4

(* Min of a set of naturals that has a member, Max of one that has a bound. *)
LEMMA MinOf ==
    ASSUME NEW T \in SUBSET Nat, T # {}
    PROVE  Min(T) \in T /\ \A y \in T : Min(T) <= y
  <1>1. \E x \in T : \A y \in T : x <= y
    BY Least
  <1> QED
    BY <1>1 DEF Min

LEMMA MaxOf ==
    ASSUME NEW n \in Nat, NEW T \in SUBSET (0..n), T # {}
    PROVE  Max(T) \in T /\ \A y \in T : y <= Max(T)
  <1> DEFINE U == {u \in 0..n : n - u \in T}
  <1>1. U \in SUBSET Nat /\ U # {}
    <2>1. PICK y \in T : TRUE
      OBVIOUS
    <2>2. y \in 0..n
      OBVIOUS
    <2>3. n - y \in 0..n /\ n - (n - y) = y
      BY <2>2
    <2>4. n - y \in U
      BY <2>1, <2>3
    <2>5. U \in SUBSET Nat
      OBVIOUS
    <2> HIDE DEF U
    <2> QED
      BY <2>4, <2>5
  <1>2. PICK u \in U : \A y \in U : u <= y
    <2> HIDE DEF U
    <2> QED
      BY <1>1, Least
  <1>3. n - u \in T
    OBVIOUS
  <1>4. ASSUME NEW y \in T PROVE n - u >= y
    <2>1. n - y \in 0..n /\ n - (n - y) = y
      OBVIOUS
    <2>2. u <= n - y
      BY <1>2, <2>1
    <2> QED
      BY <2>2
  <1>5. \E z \in T : \A y \in T : z >= y
    BY <1>3, <1>4
  <1>6. Max(T) \in T /\ \A y \in T : Max(T) >= y
    BY <1>5 DEF Max
  <1> QED
    BY <1>6

(* A step function iterated n times.                                       *)
Iterates(V, v0, n, step) ==
    \E f \in [0..n -> V] :
        f[0] = v0 /\ \A i \in 1..n : f[i] = step[<<i, f[i - 1]>>]

(* ... is a function there is.                                             *)
LEMMA Iterate ==
    ASSUME NEW V, NEW v0 \in V, NEW n \in Nat,
           NEW step \in [(1..n) \X V -> V]
    PROVE  Iterates(V, v0, n, step)
  <1> DEFINE Good(k, f) == /\ f \in [0..k -> V] /\ f[0] = v0
                           /\ \A i \in 1..k : f[i] = step[<<i, f[i - 1]>>]
             T == {k \in Nat : k <= n => \E f : Good(k, f)}
  <1>1. 0 \in T
    <2>1. Good(0, [i \in 0..0 |-> v0])
      OBVIOUS
    <2> QED
      BY <2>1
  <1>2. ASSUME NEW k \in T PROVE k + 1 \in T
    <2>1. SUFFICES ASSUME k + 1 <= n PROVE \E f : Good(k + 1, f)
      OBVIOUS
    <2>2. PICK f : Good(k, f)
      BY <2>1
    <2>3. f[k] \in V /\ k + 1 \in 1..n
      BY <2>1, <2>2
    <2>4. step[<<k + 1, f[k]>>] \in V
      BY <2>3
    <2> DEFINE g == [i \in 0..(k + 1) |->
                        IF i = k + 1 THEN step[<<k + 1, f[k]>>] ELSE f[i]]
    <2>5. g \in [0..(k + 1) -> V] /\ g[0] = v0
      BY <2>2, <2>4
    <2>6. ASSUME NEW i \in 1..(k + 1) PROVE g[i] = step[<<i, g[i - 1]>>]
      <3>1. g[i - 1] = f[i - 1]
        OBVIOUS
      <3>2. CASE i = k + 1
        <4>1. g[i] = step[<<k + 1, f[k]>>] /\ i - 1 = k
          BY <3>2
        <4> QED
          BY <3>1, <3>2, <4>1
      <3>3. CASE i \in 1..k
        BY <3>1, <3>3, <2>2
      <3> QED
        BY <3>2, <3>3
    <2>7. Good(k + 1, g)
      BY <2>5, <2>6
    <2> HIDE DEF Good, g
    <2> QED
      BY <2>7, Zenon
  <1> HIDE DEF Good
  <1>3. T = Nat
    BY <1>1, <1>2, NatSetInduction
  <1>4. PICK f : Good(n, f)
    BY <1>3
  <1> QED
    BY <1>4 DEF Good, Iterates

-----------------------------------------------------------------------------
(* Sequences built and taken apart at their ends.                          *)

(* One element; two sequences.                                             *)
LEMMA Singleton ==
    ASSUME NEW S, NEW d \in S PROVE <<d>> \in Seq(S)
  OBVIOUS

LEMMA ConcatInSeq ==
    \A S : \A s, t \in Seq(S) : s \o t \in Seq(S)
  OBVIOUS

(* The first elements of a sequence, one more at a time.                   *)
LEMMA PrefixSteps ==
    ASSUME NEW S, NEW s \in Seq(S)
    PROVE  /\ SubSeq(s, 1, 0) = <<>>
           /\ SubSeq(s, 1, Len(s)) = s
           /\ \A k \in 0..Len(s) : SubSeq(s, 1, k) \in Seq(S)
           /\ \A k \in 0..(Len(s) - 1) :
                  /\ s[k + 1] \in S
                  /\ SubSeq(s, 1, k + 1) = Append(SubSeq(s, 1, k), s[k + 1])
  OBVIOUS

(* The sequence that extends s by x.                                       *)
LEMMA AppendIs ==
    ASSUME NEW S, NEW s \in Seq(S), NEW x \in S, NEW t \in Seq(S),
           Len(t) = Len(s) + 1, \A i \in 1..Len(s) : t[i] = s[i], t[Len(s) + 1] = x
    PROVE  Append(s, x) = t
  OBVIOUS

(* A sequence that continues another by one element.                       *)
LEMMA ContinuedByOne ==
    ASSUME NEW S, NEW n \in Nat, NEW s \in [1..n -> S],
           NEW t \in [1..(n + 1) -> S], \A i \in 1..n : t[i] = s[i]
    PROVE  s \in Seq(S) /\ t[n + 1] \in S /\ t = Append(s, t[n + 1])
  <1>1. s \in Seq(S) /\ Len(s) = n /\ t \in Seq(S) /\ Len(t) = n + 1
    OBVIOUS
  <1>2. t[n + 1] \in S
    OBVIOUS
  <1> DEFINE x == t[n + 1]
             u == Append(s, x)
  <1>3. u \in Seq(S) /\ Len(u) = n + 1 /\ u[n + 1] = x /\ \A i \in 1..n : u[i] = s[i]
    BY <1>1, <1>2
  <1>4. \A i \in 1..(n + 1) : t[i] = u[i]
    BY <1>3
  <1> HIDE DEF u
  <1>5. t = u
    BY <1>1, <1>3, <1>4
  <1> QED
    BY <1>1, <1>2, <1>5 DEF u

(* The laws of concatenation.                                              *)
LEMMA ConcatAppend ==
    ASSUME NEW S, NEW s \in Seq(S), NEW t \in Seq(S), NEW x \in S
    PROVE  s \o Append(t, x) = Append(s \o t, x)
  OBVIOUS

LEMMA ConcatRegroup ==
    ASSUME NEW S, NEW s \in Seq(S), NEW t \in Seq(S), NEW u \in Seq(S)
    PROVE  (s \o t) \o u = s \o (t \o u)
  OBVIOUS

(* The sequence that extends s by u.                                       *)
LEMMA ConcatIs ==
    ASSUME NEW S, NEW s \in Seq(S), NEW u \in Seq(S), NEW t \in Seq(S),
           Len(t) = Len(s) + Len(u),
           \A i \in 1..Len(s) : t[i] = s[i], \A i \in 1..Len(u) : t[Len(s) + i] = u[i]
    PROVE  t = s \o u
  <1> DEFINE w == s \o u
  <1>1. /\ Len(s) \in Nat /\ Len(u) \in Nat /\ w \in Seq(S) /\ Len(w) = Len(s) + Len(u)
        /\ \A i \in 1..(Len(s) + Len(u)) : w[i] = IF i <= Len(s) THEN s[i] ELSE u[i - Len(s)]
    BY ConcatProperties
  <1> HIDE DEF w
  <1>2. ASSUME NEW i \in 1..Len(t) PROVE t[i] = w[i]
    <2>1. CASE i <= Len(s)
      BY <1>1, <2>1
    <2>2. CASE ~(i <= Len(s))
      <3>1. i - Len(s) \in 1..Len(u) /\ Len(s) + (i - Len(s)) = i
        BY <1>1, <2>2
      <3> QED
        BY <1>1, <2>2, <3>1
    <2> QED
      BY <2>1, <2>2
  <1>3. t = w
    BY <1>1, <1>2, SeqEqual
  <1> QED
    BY <1>3 DEF w

-----------------------------------------------------------------------------
(* FlattenSeq.                                                             *)

(* FlattenSeq, by any function that satisfies its recursion; there is one. *)
LEMMA FlattenIs ==
    ASSUME NEW X, NEW s \in Seq(Seq(X)), NEW f \in [0..Len(s) -> Seq(X)],
           f[0] = <<>>, \A i \in 1..Len(s) : f[i] = f[i - 1] \o s[i]
    PROVE  FlattenSeq(s) = f[Len(s)]
  <1> DEFINE n == Len(s)
             h == [i \in 1..n |-> f[i]]
  <1>1. CASE n = 0
    <2>1. s = <<>>
      BY <1>1
    <2> QED
      BY <1>1, <2>1 DEF FlattenSeq
  <1>2. CASE n # 0
    <2>1. n \in Nat /\ 1 \in 1..n /\ n \in 1..n
      BY <1>2
    <2>2. f[1] = s[1]
      <3>1. s[1] \in Seq(X)
        BY <2>1
      <3>2. f[1] = f[1 - 1] \o s[1]
        BY <2>1, Zenon
      <3>3. f[1 - 1] = <<>>
        OBVIOUS
      <3> QED
        BY <3>1, <3>2, <3>3, ConcatEmptySeq
    <2>3. h = [i \in 1..n |-> IF i = 1 THEN s[1] ELSE h[i - 1] \o s[i]]
      <3>1. ASSUME NEW i \in 1..n
            PROVE  h[i] = IF i = 1 THEN s[1] ELSE h[i - 1] \o s[i]
        <4>1. CASE i = 1
          BY <2>2, <4>1
        <4>2. CASE i # 1
          <5>1. i - 1 \in 1..n
            BY <4>2
          <5> QED
            BY <4>2, <5>1
        <4> QED
          BY <4>1, <4>2
      <3> QED
        BY <3>1
    <2> HIDE DEF h
    <2>4. \E g : /\ FlattenSeq(s) = g[Len(s)]
                 /\ g = [i \in 1..Len(s) |->
                            IF i = 1 THEN s[1] ELSE g[i - 1] \o s[i]]
      <3>1. /\ FlattenSeq(s) = (CHOOSE g : g = [i \in 1..Len(s) |->
                            IF i = 1 THEN s[1] ELSE g[i - 1] \o s[i]])[Len(s)]
        BY <1>2, Zenon DEF FlattenSeq
      <3> QED
        BY <2>3, <3>1, Zenon
    <2>5. PICK g : /\ FlattenSeq(s) = g[n]
                   /\ g = [i \in 1..n |-> IF i = 1 THEN s[1] ELSE g[i - 1] \o s[i]]
      BY <2>4
    <2> DEFINE T == {i \in Nat : i \in 1..n => g[i] = f[i]}
    <2>6. 0 \in T
      OBVIOUS
    <2>7. ASSUME NEW i \in T PROVE i + 1 \in T
      <3>1. SUFFICES ASSUME i + 1 \in 1..n PROVE g[i + 1] = f[i + 1]
        OBVIOUS
      <3>2. CASE i = 0
        BY <2>1, <2>2, <2>5, <3>2
      <3>3. CASE i # 0
        <4>1. i \in 1..n /\ g[i] = f[i] /\ (i + 1) - 1 = i /\ i + 1 # 1
          BY <3>1, <3>3
        <4>2. g[i + 1] = g[i] \o s[i + 1]
          BY <2>5, <3>1, <4>1
        <4>3. f[i + 1] = f[i] \o s[i + 1]
          BY <3>1, <4>1
        <4> QED
          BY <4>1, <4>2, <4>3
      <3> QED
        BY <3>2, <3>3
    <2>8. T = Nat
      <3> HIDE DEF T
      <3>1. T \in SUBSET Nat
        BY DEF T
      <3> QED
        BY <2>6, <2>7, <3>1, NatSetInduction
    <2> QED
      BY <2>1, <2>5, <2>8
  <1> QED
    BY <1>1, <1>2

LEMMA FlattenRuns ==
    ASSUME NEW X, NEW s \in Seq(Seq(X))
    PROVE  \E f \in [0..Len(s) -> Seq(X)] :
               f[0] = <<>> /\ \A i \in 1..Len(s) : f[i] = f[i - 1] \o s[i]
  <1> DEFINE n == Len(s)
             V == Seq(X)
             v0 == <<>>
             step == [z \in (1..n) \X V |-> z[2] \o s[z[1]]]
  <1>1. n \in Nat /\ v0 \in V
    OBVIOUS
  <1>2. step \in [(1..n) \X V -> V]
    OBVIOUS
  <1>3. \A i \in 1..n, v \in V : step[<<i, v>>] = v \o s[i]
    OBVIOUS
  <1> HIDE DEF n, V, v0, step
  <1>4. PICK f \in [0..n -> V] :
            f[0] = v0 /\ \A i \in 1..n : f[i] = step[<<i, f[i - 1]>>]
    <2>1. Iterates(V, v0, n, step)
      BY <1>1, <1>2, Iterate
    <2> QED
      BY <2>1 DEF Iterates
  <1>5. ASSUME NEW i \in 1..n PROVE f[i] = f[i - 1] \o s[i]
    <2>1. f[i - 1] \in V
      BY <1>1
    <2> QED
      BY <1>3, <1>4, <2>1
  <1> QED
    BY <1>4, <1>5 DEF n, V, v0

(* The ends: no sequences, and one more sequence.                          *)
LEMMA FlattenEmpty == FlattenSeq(<<>>) = <<>>
  BY DEF FlattenSeq

LEMMA FlattenType ==
    ASSUME NEW X, NEW s \in Seq(Seq(X))
    PROVE  FlattenSeq(s) \in Seq(X)
  <1>1. PICK f \in [0..Len(s) -> Seq(X)] :
            f[0] = <<>> /\ \A i \in 1..Len(s) : f[i] = f[i - 1] \o s[i]
    BY FlattenRuns
  <1>2. FlattenSeq(s) = f[Len(s)]
    BY <1>1, FlattenIs
  <1> QED
    BY <1>2

LEMMA FlattenAppend ==
    ASSUME NEW X, NEW s \in Seq(Seq(X)), NEW e \in Seq(X)
    PROVE  FlattenSeq(Append(s, e)) = FlattenSeq(s) \o e
  <1> DEFINE t == Append(s, e)
             n == Len(s)
  <1>1. /\ t \in Seq(Seq(X)) /\ Len(t) = n + 1 /\ n \in Nat
        /\ t[n + 1] = e /\ \A i \in 1..n : t[i] = s[i]
    OBVIOUS
  <1> HIDE DEF t
  <1>2. PICK f \in [0..Len(t) -> Seq(X)] :
            f[0] = <<>> /\ \A i \in 1..Len(t) : f[i] = f[i - 1] \o t[i]
    BY <1>1, FlattenRuns
  <1>3. FlattenSeq(t) = f[n + 1]
    BY <1>1, <1>2, FlattenIs
  <1> DEFINE h == [i \in 0..n |-> f[i]]
  <1>4. h \in [0..n -> Seq(X)] /\ h[0] = <<>> /\ h[n] = f[n]
    BY <1>1, <1>2
  <1>5. ASSUME NEW i \in 1..n PROVE h[i] = h[i - 1] \o s[i]
    <2>1. i \in 1..Len(t) /\ i \in 0..n /\ i - 1 \in 0..n
      BY <1>1
    <2>2. h[i] = f[i] /\ h[i - 1] = f[i - 1]
      BY <2>1
    <2> QED
      BY <1>1, <1>2, <2>1, <2>2
  <1>6. FlattenSeq(s) = f[n]
    <2> HIDE DEF h
    <2> QED
      BY <1>4, <1>5, FlattenIs
  <1>7. f[n + 1] = f[n] \o e
    <2>1. n + 1 \in 1..Len(t) /\ (n + 1) - 1 = n
      BY <1>1
    <2> QED
      BY <1>1, <1>2, <2>1
  <1> QED
    BY <1>3, <1>6, <1>7 DEF t

=============================================================================
