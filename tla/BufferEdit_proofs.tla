-------------------------- MODULE BufferEdit_proofs --------------------------
(***************************************************************************)
(* Proofs about BufferEdit, for every alphabet, text, capacity and bound.  *)
(***************************************************************************)
EXTENDS BufferEdit, SequenceFacts

-----------------------------------------------------------------------------
(* Smallest and largest.                                                   *)

(* Min and Max of two integers.                                            *)
LEMMA MinMaxPair ==
    ASSUME NEW a \in Int, NEW b \in Int
    PROVE  /\ Min({a, b}) = IF a <= b THEN a ELSE b
           /\ Max({a, b}) = IF a <= b THEN b ELSE a
BY DEF Min, Max

-----------------------------------------------------------------------------
(* Line endings.  Each of the conversions writes something for every       *)
(* character: Written is what comes of it.                                 *)
Written(g, t) == FlattenSeq([i \in 1..Len(t) |-> g[t[i]]])

Same(S) == [c \in S |-> <<c>>]
NoCR(S) == [c \in S |-> IF c = CR THEN <<>> ELSE <<c>>]
Pairs(S) == [c \in S |-> IF c = NewLine THEN <<CR, NewLine>> ELSE <<c>>]

(* The three are functions on the characters.                              *)
LEMMA WritersAre ==
    ASSUME NEW S, CR \in S, NewLine \in S
    PROVE  /\ Same(S) \in [S -> Seq(S)] /\ \A c \in S : Same(S)[c] = <<c>>
           /\ NoCR(S) \in [S -> Seq(S \ {CR})]
           /\ \A c \in S : NoCR(S)[c] = IF c = CR THEN <<>> ELSE <<c>>
           /\ Pairs(S) \in [S -> Seq(S)]
           /\ \A c \in S : Pairs(S)[c] = IF c = NewLine THEN <<CR, NewLine>> ELSE <<c>>
  <1>1. \A c \in S : <<c>> \in Seq(S)
    BY Singleton
  <1>2. \A c \in S \ {CR} : <<c>> \in Seq(S \ {CR})
    BY Singleton
  <1>3. <<>> \in Seq(S \ {CR}) /\ <<CR, NewLine>> \in Seq(S)
    OBVIOUS
  <1> QED
    BY <1>1, <1>2, <1>3 DEF Same, NoCR, Pairs

(* One character more.                                                     *)
LEMMA WrittenAppend ==
    ASSUME NEW S, NEW R, NEW g \in [S -> Seq(R)], NEW t \in Seq(S), NEW x \in S
    PROVE  Written(g, Append(t, x)) = Written(g, t) \o g[x]
  <1> DEFINE n == Len(t)
             a == Append(t, x)
             m == [i \in 1..n |-> g[t[i]]]
             k == [i \in 1..(n + 1) |-> g[a[i]]]
  <1>1. /\ n \in Nat /\ a \in Seq(S) /\ Len(a) = n + 1 /\ a[n + 1] = x
        /\ \A i \in 1..n : a[i] = t[i] /\ t[i] \in S
    OBVIOUS
  <1>2. /\ m \in [1..n -> Seq(R)] /\ k \in [1..(n + 1) -> Seq(R)]
        /\ \A i \in 1..n : k[i] = m[i]
        /\ k[n + 1] = g[x]
    <2> HIDE DEF n, a
    <2>1. \A i \in 1..(n + 1) : a[i] \in S
      BY <1>1
    <2>2. n + 1 \in 1..(n + 1) /\ \A i \in 1..n : i \in 1..(n + 1)
      BY <1>1
    <2> QED
      BY <1>1, <2>1, <2>2
  <1>3. Written(g, a) = FlattenSeq(k) /\ Written(g, t) = FlattenSeq(m)
    BY <1>1, Zenon DEF Written
  <1> HIDE DEF n, a, m, k
  <1>4. m \in Seq(Seq(R)) /\ k = Append(m, g[x]) /\ g[x] \in Seq(R)
    <2> DEFINE W == Seq(R)
    <2>0. /\ n \in Nat /\ m \in [1..n -> W] /\ k \in [1..(n + 1) -> W]
          /\ \A i \in 1..n : k[i] = m[i]
      BY <1>1, <1>2
    <2> HIDE DEF W
    <2>1. m \in Seq(W) /\ k[n + 1] \in W /\ k = Append(m, k[n + 1])
      BY <2>0, ContinuedByOne
    <2>2. k[n + 1] = g[x]
      BY <1>2
    <2> QED
      BY <2>1, <2>2, Zenon DEF W
  <1> QED
    BY <1>3, <1>4, FlattenAppend DEF a

(* What is written is a sequence.                                          *)
LEMMA WrittenType ==
    ASSUME NEW S, NEW R, NEW g \in [S -> Seq(R)], NEW t \in Seq(S)
    PROVE  Written(g, t) \in Seq(R) /\ Written(g, <<>>) = <<>>
  <1> DEFINE m == [i \in 1..Len(t) |-> g[t[i]]]
  <1>1. m \in Seq(Seq(R))
    OBVIOUS
  <1> HIDE DEF m
  <1>2. FlattenSeq(m) \in Seq(R)
    BY <1>1, FlattenType
  <1>3. [i \in 1..Len(<<>>) |-> g[<<>>[i]]] = <<>>
    OBVIOUS
  <1> QED
    BY <1>2, <1>3, FlattenEmpty DEF m, Written

(* Collapse and Expand are of that form, where there is no CR on its own.  *)
LEMMA ConversionsAreWritten ==
    ASSUME NEW S, CR \in S, NewLine \in S, CR # NewLine, NEW t \in Seq(S)
    PROVE  /\ Expand(t) = Written(Pairs(S), t)
           /\ OnlyPairs(t) => Collapse(t) = Written(NoCR(S), t)
           /\ t \in Seq(S \ {CR}) => Collapse(t) = Written(Same(S), t)
  <1>0. \A i \in 1..Len(t) : t[i] \in S
    OBVIOUS
  <1>1. Expand(t) = Written(Pairs(S), t)
    <2>1. [i \in 1..Len(t) |-> IF t[i] = NewLine THEN <<CR, NewLine>> ELSE <<t[i]>>]
             = [i \in 1..Len(t) |-> Pairs(S)[t[i]]]
      BY <1>0, WritersAre
    <2> QED
      BY <2>1 DEF Expand, Written
  <1>2. ASSUME OnlyPairs(t) PROVE Collapse(t) = Written(NoCR(S), t)
    <2>1. ASSUME NEW i \in 1..Len(t)
          PROVE  (IF StartsPair(t, i) THEN <<>> ELSE <<t[i]>>) = NoCR(S)[t[i]]
      <3>1. StartsPair(t, i) <=> t[i] = CR
        BY <1>2 DEF OnlyPairs, StartsPair, EndsPair
      <3>2. NoCR(S)[t[i]] = IF t[i] = CR THEN <<>> ELSE <<t[i]>>
        BY <1>0, WritersAre
      <3> QED
        BY <3>1, <3>2
    <2>2. [i \in 1..Len(t) |-> IF StartsPair(t, i) THEN <<>> ELSE <<t[i]>>]
             = [i \in 1..Len(t) |-> NoCR(S)[t[i]]]
      BY <2>1, Zenon
    <2> QED
      BY <2>2, Zenon DEF Collapse, Written
  <1>3. ASSUME t \in Seq(S \ {CR}) PROVE Collapse(t) = Written(Same(S), t)
    <2>1. ASSUME NEW i \in 1..Len(t)
          PROVE  (IF StartsPair(t, i) THEN <<>> ELSE <<t[i]>>) = Same(S)[t[i]]
      <3>1. ~StartsPair(t, i)
        BY <1>3 DEF StartsPair
      <3>2. Same(S)[t[i]] = <<t[i]>>
        BY <1>0, WritersAre
      <3> QED
        BY <3>1, <3>2
    <2>2. [i \in 1..Len(t) |-> IF StartsPair(t, i) THEN <<>> ELSE <<t[i]>>]
             = [i \in 1..Len(t) |-> Same(S)[t[i]]]
      BY <2>1, Zenon
    <2> QED
      BY <2>2, Zenon DEF Collapse, Written
  <1> QED
    BY <1>1, <1>2, <1>3

(* A text without CR is not changed by Collapse.                           *)
LEMMA CollapseSame ==
    ASSUME NEW S, CR \in S, NewLine \in S, CR # NewLine, NEW t \in Seq(S \ {CR})
    PROVE  Collapse(t) = t
  <1> DEFINE p(n) == SubSeq(t, 1, n)
             g == Same(S)
             T == {n \in Nat : n <= Len(t) => Written(g, p(n)) = p(n)}
  <1>0. t \in Seq(S) /\ Len(t) \in Nat
    OBVIOUS
  <1>1. /\ p(0) = <<>> /\ p(Len(t)) = t /\ \A n \in 0..Len(t) : p(n) \in Seq(S)
        /\ \A n \in 0..(Len(t) - 1) :
               t[n + 1] \in S /\ p(n + 1) = Append(p(n), t[n + 1])
    BY <1>0, PrefixSteps
  <1>2. g \in [S -> Seq(S)] /\ \A c \in S : g[c] = <<c>>
    BY WritersAre
  <1> HIDE DEF p, g
  <1>3. 0 \in T
    BY <1>0, <1>1, <1>2, WrittenType
  <1>4. ASSUME NEW n \in T PROVE n + 1 \in T
    <2>1. SUFFICES ASSUME n + 1 <= Len(t) PROVE Written(g, p(n + 1)) = p(n + 1)
      OBVIOUS
    <2>2. n \in 0..(Len(t) - 1) /\ n \in 0..Len(t) /\ n <= Len(t)
      BY <1>0, <2>1
    <2>3. PICK x \in S : p(n + 1) = Append(p(n), x)
      BY <1>1, <2>2
    <2>4. Written(g, p(n + 1)) = Written(g, p(n)) \o g[x]
      BY <1>1, <1>2, <2>2, <2>3, WrittenAppend
    <2>5. Written(g, p(n)) = p(n) /\ g[x] = <<x>>
      BY <1>2, <2>2
    <2>6. p(n) \o <<x>> = Append(p(n), x)
      BY <1>1, <2>2
    <2> QED
      BY <2>3, <2>4, <2>5, <2>6
  <1>5. T = Nat
    <2>1. T \in SUBSET Nat
      OBVIOUS
    <2> HIDE DEF T
    <2> QED
      BY <1>3, <1>4, <2>1, NatSetInduction
  <1>6. Written(g, t) = t
    BY <1>0, <1>1, <1>5
  <1> QED
    BY <1>0, <1>6, ConversionsAreWritten DEF g

(* A file whose separators are all pairs comes back from the buffer.       *)
LEMMA PairsRestored ==
    ASSUME NEW S, CR \in S, NewLine \in S, CR # NewLine, NEW f \in Seq(S),
           OnlyPairs(f)
    PROVE  Written(Pairs(S), Written(NoCR(S), f)) = f
  <1> DEFINE p(n) == SubSeq(f, 1, n)
             g == NoCR(S)
             h == Pairs(S)
             Back(n) == IF n > 0 /\ f[n] = CR THEN p(n - 1) ELSE p(n)
             T == {n \in Nat : n <= Len(f) => Written(h, Written(g, p(n))) = Back(n)}
  <1>0. Len(f) \in Nat
    OBVIOUS
  <1>1. /\ p(0) = <<>> /\ p(Len(f)) = f /\ \A n \in 0..Len(f) : p(n) \in Seq(S)
        /\ \A n \in 0..(Len(f) - 1) :
               f[n + 1] \in S /\ p(n + 1) = Append(p(n), f[n + 1])
    BY PrefixSteps
  <1>2. g \in [S -> Seq(S)] /\ h \in [S -> Seq(S)]
    <2>1. \A c \in S : g[c] \in Seq(S)
      <3>1. \A c \in S : g[c] = IF c = CR THEN <<>> ELSE <<c>>
        BY WritersAre
      <3>2. <<>> \in Seq(S) /\ \A c \in S : <<c>> \in Seq(S)
        OBVIOUS
      <3> QED
        BY <3>1, <3>2
    <2> QED
      BY <2>1, WritersAre
  <1>2a. \A c \in S : /\ g[c] = IF c = CR THEN <<>> ELSE <<c>>
                      /\ h[c] = IF c = NewLine THEN <<CR, NewLine>> ELSE <<c>>
    BY WritersAre
  <1> HIDE DEF p, g, h
  <1>2b. Written(g, <<>>) = <<>> /\ Written(h, <<>>) = <<>>
    BY <1>2, WrittenType
  <1>3. 0 \in T
    <2>1. Back(0) = p(0)
      OBVIOUS
    <2> QED
      BY <1>1, <1>2b, <2>1
  <1>4. ASSUME NEW n \in T PROVE n + 1 \in T
    <2>1. SUFFICES ASSUME n + 1 <= Len(f)
                   PROVE  Written(h, Written(g, p(n + 1))) = Back(n + 1)
      OBVIOUS
    <2>2. n \in 0..(Len(f) - 1) /\ n \in 0..Len(f) /\ n <= Len(f) /\ n + 1 \in 1..Len(f)
          /\ n + 1 > 0 /\ (n + 1) - 1 = n
      BY <1>0, <2>1
    <2>3. PICK x \in S : x = f[n + 1] /\ p(n + 1) = Append(p(n), x)
      BY <1>1, <2>2
    <2>3a. PICK q \in Seq(S) : q = p(n)
      BY <1>1, <2>2
    <2>4. PICK w \in Seq(S) : w = Written(g, q)
      BY <1>2, WrittenType
    <2>4a. Written(g, p(n + 1)) = w \o g[x]
      <3>1. Written(g, Append(q, x)) = Written(g, q) \o g[x]
        BY <1>2, WrittenAppend
      <3> QED
        BY <2>3, <2>3a, <2>4, <3>1, Zenon
    <2>5. Written(h, w) = Back(n)
      BY <2>2, <2>3a, <2>4
    <2>5a. Written(h, Append(w, x)) = Back(n) \o h[x]
      <3>1. Written(h, Append(w, x)) = Written(h, w) \o h[x]
        BY <1>2, WrittenAppend
      <3> QED
        BY <2>5, <3>1
    <2>5b. \A r \in Seq(S) : r \o <<>> = r /\ r \o <<x>> = Append(r, x)
      OBVIOUS
    <2>6. x \in {CR, NewLine} => StartsPair(f, n + 1) \/ EndsPair(f, n + 1)
      BY <2>2, <2>3 DEF OnlyPairs
    <2>7. n > 0 /\ f[n] = CR => x = NewLine
      <3>1. SUFFICES ASSUME n > 0, f[n] = CR PROVE x = NewLine
        OBVIOUS
      <3>2. n \in DOMAIN f
        BY <2>2, <3>1
      <3>3. StartsPair(f, n)
        BY <3>1, <3>2 DEF OnlyPairs, EndsPair
      <3> QED
        BY <2>3, <3>3 DEF StartsPair
    <2>8. Back(n + 1) = IF x = CR THEN p(n) ELSE p(n + 1)
      BY <2>2, <2>3, Zenon
    <2>9. CASE x = CR
      <3>1. g[x] = <<>> /\ w \o <<>> = w
        BY <1>2a, <2>5b, <2>9, Zenon
      <3>2. Back(n) = p(n)
        BY <2>7, <2>9
      <3> QED
        BY <2>4a, <2>5, <2>8, <2>9, <3>1, <3>2, Zenon
    <2>10. CASE x # CR
      <3>1. Written(g, p(n + 1)) = Append(w, x)
        <4>1. g[x] = <<x>> /\ w \o <<x>> = Append(w, x)
          BY <1>2a, <2>5b, <2>10, Zenon
        <4> QED
          BY <2>4a, <4>1, Zenon
      <3>3. CASE x = NewLine
        <4>1. n > 0 /\ f[n] = CR /\ n - 1 \in 0..(Len(f) - 1) /\ (n - 1) + 1 = n
          BY <2>2, <2>3, <2>6, <2>10, <3>3 DEF StartsPair, EndsPair
        <4>2. Back(n) = p(n - 1) /\ p(n - 1) \in Seq(S)
          BY <1>1, <4>1, <2>2
        <4>3. p(n) = Append(p(n - 1), CR)
          BY <1>1, <4>1
        <4>4. h[x] = <<CR, NewLine>>
          BY <1>2a, <3>3, Zenon
        <4>5. \A r \in Seq(S) : r \o <<CR, NewLine>> = Append(Append(r, CR), NewLine)
          OBVIOUS
        <4>6. Back(n) \o h[x] = p(n + 1)
          BY <2>3, <3>3, <4>2, <4>3, <4>4, <4>5, Zenon
        <4> QED
          BY <2>5a, <2>8, <2>10, <3>1, <4>6, Zenon
      <3>4. CASE x # NewLine
        <4>1. Back(n) = p(n)
          BY <2>7, <3>4
        <4>2. h[x] = <<x>> /\ q \o <<x>> = Append(q, x)
          BY <1>2a, <2>5b, <3>4, Zenon
        <4> QED
          BY <2>3, <2>3a, <2>5a, <2>8, <2>10, <3>1, <4>1, <4>2, Zenon
      <3> QED
        BY <3>3, <3>4
    <2> QED
      BY <2>9, <2>10
  <1>5. T = Nat
    <2>1. T \in SUBSET Nat
      OBVIOUS
    <2> HIDE DEF T
    <2> QED
      BY <1>3, <1>4, <2>1, NatSetInduction
  <1>6. Written(h, Written(g, f)) = Back(Len(f))
    BY <1>0, <1>1, <1>5
  <1>7. Back(Len(f)) = f
    <2>1. ~(Len(f) > 0 /\ f[Len(f)] = CR)
      <3>1. SUFFICES ASSUME Len(f) > 0, f[Len(f)] = CR PROVE FALSE
        OBVIOUS
      <3>2. Len(f) \in DOMAIN f
        BY <3>1
      <3>3. StartsPair(f, Len(f))
        BY <3>1, <3>2 DEF OnlyPairs, EndsPair
      <3> QED
        BY <1>0, <3>3 DEF StartsPair
    <2> QED
      BY <1>1, <2>1
  <1> QED
    BY <1>6, <1>7 DEF g, h

(* Separators stay pairs when a character that is none is added, and when  *)
(* one more pair is.                                                       *)
LEMMA PairsAppend ==
    ASSUME NEW S, CR \in S, NewLine \in S, CR # NewLine, NEW s \in Seq(S),
           NEW x \in S, OnlyPairs(s)
    PROVE  /\ x \notin {CR, NewLine} => OnlyPairs(Append(s, x))
           /\ \A i \in DOMAIN s : StartsPair(s, i) => /\ i \in DOMAIN Append(s, x)
                                                      /\ StartsPair(Append(s, x), i)
  <1> DEFINE n == Len(s)
             a == Append(s, x)
  <1>1. /\ n \in Nat /\ Len(a) = n + 1 /\ DOMAIN s = 1..n /\ DOMAIN a = 1..(n + 1)
        /\ a[n + 1] = x /\ \A i \in 1..n : a[i] = s[i]
    OBVIOUS
  <1> HIDE DEF a, n
  <1>2. ASSUME NEW i \in 1..n, StartsPair(s, i) PROVE StartsPair(a, i)
    <2>1. i + 1 \in 1..n /\ i < n + 1
      BY <1>1, <1>2 DEF StartsPair, n
    <2> QED
      BY <1>1, <1>2, <2>1 DEF StartsPair
  <1>3. ASSUME NEW i \in 1..n, EndsPair(s, i) PROVE EndsPair(a, i)
    <2>1. i - 1 \in 1..n
      BY <1>1, <1>3 DEF EndsPair
    <2> QED
      BY <1>1, <1>3, <2>1 DEF EndsPair
  <1>4. ASSUME x \notin {CR, NewLine} PROVE OnlyPairs(a)
    <2>1. ASSUME NEW i \in 1..(n + 1), a[i] \in {CR, NewLine}
          PROVE  StartsPair(a, i) \/ EndsPair(a, i)
      <3>1. i \in 1..n /\ a[i] = s[i]
        BY <1>1, <1>4, <2>1
      <3>2. StartsPair(s, i) \/ EndsPair(s, i)
        BY <1>1, <2>1, <3>1 DEF OnlyPairs
      <3> QED
        BY <1>2, <1>3, <3>1, <3>2
    <2> QED
      BY <1>1, <2>1 DEF OnlyPairs
  <1>5. \A i \in 1..n : i \in 1..(n + 1)
    BY <1>1
  <1> QED
    BY <1>1, <1>2, <1>4, <1>5 DEF a

LEMMA PairsAppendPair ==
    ASSUME NEW S, CR \in S, NewLine \in S, CR # NewLine, NEW s \in Seq(S),
           OnlyPairs(s)
    PROVE  /\ OnlyPairs(Append(Append(s, CR), NewLine))
           /\ \E i \in DOMAIN Append(Append(s, CR), NewLine) :
                  StartsPair(Append(Append(s, CR), NewLine), i)
  <1> DEFINE n == Len(s)
             a == Append(Append(s, CR), NewLine)
  <1>1. /\ n \in Nat /\ Len(a) = n + 2 /\ DOMAIN s = 1..n /\ DOMAIN a = 1..(n + 2)
        /\ a[n + 1] = CR /\ a[n + 2] = NewLine /\ \A i \in 1..n : a[i] = s[i]
    OBVIOUS
  <1> HIDE DEF a, n
  <1>2. ASSUME NEW i \in 1..n, StartsPair(s, i) PROVE StartsPair(a, i)
    <2>1. i + 1 \in 1..n /\ i < n + 2
      BY <1>1, <1>2 DEF StartsPair, n
    <2> QED
      BY <1>1, <1>2, <2>1 DEF StartsPair
  <1>3. ASSUME NEW i \in 1..n, EndsPair(s, i) PROVE EndsPair(a, i)
    <2>1. i - 1 \in 1..n
      BY <1>1, <1>3 DEF EndsPair
    <2> QED
      BY <1>1, <1>3, <2>1 DEF EndsPair
  <1>4. StartsPair(a, n + 1) /\ EndsPair(a, n + 2)
    <2>1. (n + 1) + 1 = n + 2 /\ (n + 2) - 1 = n + 1 /\ n + 1 < n + 2 /\ n + 2 > 1
      BY <1>1
    <2> QED
      BY <1>1, <2>1 DEF StartsPair, EndsPair
  <1>5. ASSUME NEW i \in 1..(n + 2), a[i] \in {CR, NewLine}
        PROVE  StartsPair(a, i) \/ EndsPair(a, i)
    <2>1. CASE i \in 1..n
      <3>1. a[i] = s[i]
        BY <1>1, <2>1
      <3>2. StartsPair(s, i) \/ EndsPair(s, i)
        BY <1>1, <1>5, <2>1, <3>1 DEF OnlyPairs
      <3> QED
        BY <1>2, <1>3, <2>1, <3>2
    <2>2. i \in 1..n \/ i = n + 1 \/ i = n + 2
      BY <1>1
    <2> QED
      BY <1>4, <2>1, <2>2
  <1>6. n + 1 \in 1..(n + 2)
    BY <1>1
  <1> QED
    BY <1>1, <1>4, <1>5, <1>6 DEF a, OnlyPairs

(* What a text without CR is written as has its separators in pairs, reads *)
(* as that text, and without a pair it is that text.                       *)
ReadsAs(w, S, t) ==
    /\ w \in Seq(S) /\ OnlyPairs(w)
    /\ Written(NoCR(S), w) = t
    /\ (\E i \in DOMAIN w : StartsPair(w, i)) \/ w = t

(* It goes on so, character by character ...                               *)
LEMMA ReadsAsAppend ==
    ASSUME NEW S, CR \in S, NewLine \in S, CR # NewLine, NEW t \in Seq(S),
           NEW x \in S \ {CR}, NEW w, ReadsAs(w, S, t)
    PROVE  ReadsAs(w \o Pairs(S)[x], S, Append(t, x))
  <1> DEFINE g == NoCR(S)
  <1>0. g \in [S -> Seq(S)]
    <2>1. \A c \in S : g[c] = IF c = CR THEN <<>> ELSE <<c>>
      BY WritersAre
    <2>2. <<>> \in Seq(S) /\ \A c \in S : <<c>> \in Seq(S)
      OBVIOUS
    <2>3. \A c \in S : g[c] \in Seq(S)
      BY <2>1, <2>2
    <2> QED
      BY <2>3, WritersAre
  <1>1. /\ w \in Seq(S) /\ OnlyPairs(w) /\ Written(g, w) = t
        /\ (\E i \in DOMAIN w : StartsPair(w, i)) \/ w = t
    BY Zenon DEF ReadsAs
  <1>1a. /\ g[CR] = <<>> /\ g[x] = <<x>>
         /\ Pairs(S)[x] = IF x = NewLine THEN <<CR, NewLine>> ELSE <<x>>
    BY WritersAre
  <1> HIDE DEF g
  <1>1b. ASSUME NEW r \in Seq(S), NEW y \in S
         PROVE  Written(g, Append(r, y)) = Written(g, r) \o g[y]
    BY <1>0, WrittenAppend
  <1>1c. x \in S
    OBVIOUS
  <1>2. \A r \in Seq(S) : r \o <<>> = r /\ r \o <<x>> = Append(r, x)
    OBVIOUS
  <1>3. CASE x = NewLine
    <2>1. w \o <<CR, NewLine>> = Append(Append(w, CR), NewLine) /\ Append(w, CR) \in Seq(S)
      BY <1>1
    <2>2. Written(g, Append(w, CR)) = t
      <3>1. Written(g, Append(w, CR)) = Written(g, w) \o g[CR]
        BY <1>1, <1>1b, <1>1c, Zenon
      <3> QED
        BY <1>1, <1>1a, <1>2, <3>1, Zenon
    <2>3. PICK v \in Seq(S) : v = Append(w, CR)
      BY <2>1
    <2>4. Written(g, Append(v, NewLine)) = Append(t, x)
      <3>1. Written(g, Append(v, NewLine)) = Written(g, v) \o g[x]
        BY <1>1b, <1>1c, <1>3, Zenon
      <3> QED
        BY <1>1a, <1>2, <2>2, <2>3, <3>1, Zenon
    <2>5. /\ OnlyPairs(Append(v, NewLine))
          /\ \E i \in DOMAIN Append(v, NewLine) : StartsPair(Append(v, NewLine), i)
      BY <1>1, <2>3, PairsAppendPair, Zenon
    <2>6. Append(v, NewLine) \in Seq(S)
      OBVIOUS
    <2>7. w \o Pairs(S)[x] = Append(v, NewLine)
      BY <1>1a, <1>3, <2>1, <2>3, Zenon
    <2> QED
      BY <2>4, <2>5, <2>6, <2>7, Zenon DEF ReadsAs, g
  <1>4. CASE x # NewLine
    <2>1. w \o Pairs(S)[x] = Append(w, x) /\ Append(w, x) \in Seq(S)
      <3>1. w \o <<x>> = Append(w, x) /\ Append(w, x) \in Seq(S)
        BY <1>1
      <3> QED
        BY <1>1a, <1>4, <3>1, Zenon
    <2>2. Written(g, Append(w, x)) = Append(t, x)
      <3>1. Written(g, Append(w, x)) = Written(g, w) \o g[x]
        BY <1>1, <1>1b, <1>1c, Zenon
      <3> QED
        BY <1>1, <1>1a, <1>2, <3>1, Zenon
    <2>3. /\ OnlyPairs(Append(w, x))
          /\ \A i \in DOMAIN w : StartsPair(w, i) => /\ i \in DOMAIN Append(w, x)
                                                      /\ StartsPair(Append(w, x), i)
      <3>1. x \notin {CR, NewLine}
        BY <1>4
      <3> QED
        BY <1>1, <3>1, PairsAppend
    <2>4. (\E i \in DOMAIN Append(w, x) : StartsPair(Append(w, x), i))
          \/ Append(w, x) = Append(t, x)
      BY <1>1, <2>3, Zenon
    <2> QED
      BY <2>1, <2>2, <2>3, <2>4, Zenon DEF ReadsAs, g
  <1> QED
    BY <1>3, <1>4

(* ... for the whole text.                                                 *)
LEMMA ExpandedReadsAs ==
    ASSUME NEW S, CR \in S, NewLine \in S, CR # NewLine, NEW t \in Seq(S \ {CR})
    PROVE  ReadsAs(Written(Pairs(S), t), S, t)
  <1> DEFINE p(n) == SubSeq(t, 1, n)
             h == Pairs(S)
             T == {n \in Nat : n <= Len(t) => ReadsAs(Written(h, p(n)), S, p(n))}
  <1>0. t \in Seq(S) /\ Len(t) \in Nat
    OBVIOUS
  <1>1. /\ p(0) = <<>> /\ p(Len(t)) = t /\ \A n \in 0..Len(t) : p(n) \in Seq(S)
        /\ \A n \in 0..(Len(t) - 1) : p(n + 1) = Append(p(n), t[n + 1])
    BY <1>0, PrefixSteps
  <1>2. h \in [S -> Seq(S)]
    BY WritersAre
  <1> HIDE DEF p, h
  <1>3. 0 \in T
    <2>1. Written(h, <<>>) = <<>>
      BY <1>0, <1>2, WrittenType
    <2>2. Written(NoCR(S), <<>>) = <<>>
      <3>1. NoCR(S) \in [S -> Seq(S \ {CR})]
        BY WritersAre
      <3> QED
        BY <1>0, <3>1, WrittenType
    <2>3. <<>> \in Seq(S) /\ OnlyPairs(<<>>)
      BY DEF OnlyPairs
    <2>4. ReadsAs(<<>>, S, <<>>)
      BY <2>2, <2>3, Zenon DEF ReadsAs
    <2> QED
      BY <1>1, <2>1, <2>4
  <1>4. ASSUME NEW n \in T PROVE n + 1 \in T
    <2>1. SUFFICES ASSUME n + 1 <= Len(t) PROVE ReadsAs(Written(h, p(n + 1)), S, p(n + 1))
      OBVIOUS
    <2>2. n \in 0..(Len(t) - 1) /\ n \in 0..Len(t) /\ n <= Len(t) /\ n + 1 \in 1..Len(t)
      BY <1>0, <2>1
    <2>3. PICK x \in S \ {CR} : p(n + 1) = Append(p(n), x)
      <3>1. t[n + 1] \in S \ {CR}
        BY <2>2
      <3> QED
        BY <1>1, <2>2, <3>1
    <2>4. PICK q \in Seq(S) : q = p(n)
      BY <1>1, <2>2
    <2>5. PICK w : w = Written(h, q) /\ ReadsAs(w, S, q)
      BY <2>2, <2>4, Zenon
    <2>6. Written(h, Append(q, x)) = w \o h[x]
      BY <1>2, <2>5, WrittenAppend
    <2>7. ReadsAs(w \o Pairs(S)[x], S, Append(q, x))
      <3>1. x \in S \ {CR} /\ ReadsAs(w, S, q)
        BY <2>5
      <3> QED
        BY <3>1, ReadsAsAppend, Zenon
    <2> QED
      BY <2>3, <2>4, <2>6, <2>7, Zenon DEF h
  <1>5. T = Nat
    <2>1. T \in SUBSET Nat
      OBVIOUS
    <2> HIDE DEF T
    <2> QED
      BY <1>3, <1>4, <2>1, NatSetInduction
  <1> QED
    BY <1>0, <1>1, <1>5 DEF h

(* The conversions return texts.                                           *)
LEMMA ConversionTypes ==
    ASSUME NEW S, CR \in S, NewLine \in S, CR # NewLine, NEW t \in Seq(S), NEW e
    PROVE  /\ ToBufferText(t, e) \in Seq(S) /\ ToFileText(t, e) \in Seq(S)
           /\ Visited(t) \in Seq(S) /\ DetectLineEnding(t) \in {"LF", "CRLF"}
  <1>1. ASSUME NEW r \in Seq(S) PROVE Expand(r) \in Seq(S)
    <2>1. Expand(r) = Written(Pairs(S), r)
      BY ConversionsAreWritten
    <2>2. PICK g \in [S -> Seq(S)] : g = Pairs(S)
      BY WritersAre
    <2>3. Written(g, r) \in Seq(S)
      BY WrittenType, Zenon
    <2> QED
      BY <2>1, <2>2, <2>3
  <1>2. Collapse(t) \in Seq(S)
    <2> DEFINE m == [i \in 1..Len(t) |-> IF StartsPair(t, i) THEN <<>> ELSE <<t[i]>>]
    <2>1. <<>> \in Seq(S) /\ \A i \in 1..Len(t) : <<t[i]>> \in Seq(S)
      OBVIOUS
    <2>2. m \in [1..Len(t) -> Seq(S)]
      BY <2>1
    <2>3. m \in Seq(Seq(S))
      BY <2>2
    <2> HIDE DEF m
    <2> QED
      BY <2>3, FlattenType DEF Collapse, m
  <1> QED
    BY <1>1, <1>2 DEF ToBufferText, ToFileText, Visited, DetectLineEnding

(* Saved as it was read, a file is what it was.                            *)
LEMMA FileRestored ==
    ASSUME NEW S, CR \in S, NewLine \in S, CR # NewLine, NEW f \in Seq(S)
    PROVE  ToFileText(Visited(f), DetectLineEnding(f)) = f
  <1>1. CASE DetectLineEnding(f) = "CRLF"
    <2>1. OnlyPairs(f)
      BY <1>1 DEF DetectLineEnding
    <2>2. Collapse(f) = Written(NoCR(S), f)
      BY <2>1, ConversionsAreWritten
    <2>3. PICK t \in Seq(S \ {CR}) : t = Collapse(f)
      BY <2>2, WritersAre, WrittenType
    <2>4. Collapse(t) = t
      BY CollapseSame
    <2>5. Expand(t) = Written(Pairs(S), t)
      <3>1. t \in Seq(S)
        OBVIOUS
      <3> QED
        BY <3>1, ConversionsAreWritten
    <2>6. Written(Pairs(S), Written(NoCR(S), f)) = f
      BY <2>1, PairsRestored
    <2> QED
      BY <1>1, <2>2, <2>3, <2>4, <2>5, <2>6, Zenon
         DEF ToFileText, Visited, ToBufferText
  <1>2. CASE DetectLineEnding(f) # "CRLF"
    BY <1>2 DEF ToFileText, Visited, ToBufferText
  <1> QED
    BY <1>1, <1>2

(* A text without CR reads back from its file as it was written.           *)
LEMMA TextReadsBack ==
    ASSUME NEW S, CR \in S, NewLine \in S, CR # NewLine,
           NEW t \in Seq(S \ {CR}), NEW e
    PROVE  Visited(ToFileText(t, e)) = t
  <1>0. t \in Seq(S) /\ \A i \in DOMAIN t : t[i] # CR
    OBVIOUS
  <1>1. CASE e = "CRLF"
    <2>1. PICK w : w = Expand(t)
      OBVIOUS
    <2>2. ToFileText(t, e) = w
      BY <1>1, <2>1, CollapseSame DEF ToFileText
    <2>3. ReadsAs(w, S, t)
      BY <1>0, <2>1, ConversionsAreWritten, ExpandedReadsAs
    <2>4. Collapse(w) = t
      BY <2>3, ConversionsAreWritten DEF ReadsAs
    <2>5. CASE \E i \in DOMAIN w : StartsPair(w, i)
      BY <2>2, <2>3, <2>4, <2>5 DEF Visited, ToBufferText, DetectLineEnding, ReadsAs
    <2>6. CASE ~(\E i \in DOMAIN w : StartsPair(w, i))
      BY <2>2, <2>3, <2>6 DEF Visited, ToBufferText, DetectLineEnding, ReadsAs
    <2> QED
      BY <2>5, <2>6
  <1>2. CASE e # "CRLF"
    <2>1. ToFileText(t, e) = t
      BY <1>2 DEF ToFileText
    <2>2. DetectLineEnding(t) = "LF"
      BY <1>0 DEF DetectLineEnding, StartsPair
    <2> QED
      BY <2>1, <2>2 DEF Visited, ToBufferText
  <1> QED
    BY <1>1, <1>2

-----------------------------------------------------------------------------
(* Slices and splices.                                                     *)

(* What Slice returns.                                                     *)
LEMMA SliceFacts ==
    ASSUME NEW S, NEW t \in Seq(S), NEW lo \in Nat, NEW hi \in lo..Len(t)
    PROVE  /\ Slice(t, lo, hi) \in Seq(S)
           /\ Len(Slice(t, lo, hi)) = hi - lo
           /\ \A i \in 1..(hi - lo) : Slice(t, lo, hi)[i] = t[lo + i]
<1>1. \A i \in (lo + 1)..hi : t[i] \in S
  BY ElementOfSeq
<1> QED
  BY <1>1, SubSeqProperties DEF Slice

(* What Splice returns, position by position.                              *)
IsSplice(S, r, t, lo, hi, new) ==
    /\ r \in Seq(S)
    /\ Len(r) = lo + Len(new) + (Len(t) - hi)
    /\ \A i \in 1..(lo + Len(new) + (Len(t) - hi)) :
          r[i] = IF i <= lo THEN t[i]
                 ELSE IF i <= lo + Len(new) THEN new[i - lo]
                 ELSE t[i - Len(new) - lo + hi]

LEMMA SpliceFacts ==
    ASSUME NEW S, NEW t \in Seq(S), NEW new \in Seq(S),
           NEW lo \in Nat, NEW hi \in lo..Len(t)
    PROVE  IsSplice(S, Splice(t, lo, hi, new), t, lo, hi, new)
<1> DEFINE left == Slice(t, 0, lo)
           right == Slice(t, hi, Len(t))
<1>0. Len(t) \in Nat /\ Len(new) \in Nat /\ hi \in Nat /\ lo <= Len(t)
  BY LenProperties
<1>1. left \in Seq(S) /\ Len(left) = lo /\ \A i \in 1..lo : left[i] = t[i]
  <2>1. lo \in 0..Len(t) /\ 0 \in Nat /\ lo - 0 = lo
    BY <1>0
  <2>2. /\ left \in Seq(S) /\ Len(left) = lo - 0
        /\ \A i \in 1..(lo - 0) : left[i] = t[0 + i]
    BY <2>1, SliceFacts
  <2> QED
    BY <2>1, <2>2
<1>2. /\ right \in Seq(S) /\ Len(right) = Len(t) - hi
      /\ \A i \in 1..(Len(t) - hi) : right[i] = t[hi + i]
  <2>1. Len(t) \in hi..Len(t)
    BY <1>0
  <2> QED
    BY <1>0, <2>1, SliceFacts
<1> HIDE DEF left, right
<1>3. /\ left \o new \in Seq(S) /\ Len(left \o new) = lo + Len(new)
      /\ \A i \in 1..(lo + Len(new)) :
            (left \o new)[i] = IF i <= lo THEN left[i] ELSE new[i - lo]
  BY <1>0, <1>1, ConcatProperties
<1>4. /\ (left \o new) \o right \in Seq(S)
      /\ Len((left \o new) \o right) = lo + Len(new) + (Len(t) - hi)
      /\ \A i \in 1..(lo + Len(new) + (Len(t) - hi)) :
            ((left \o new) \o right)[i] =
               IF i <= lo + Len(new) THEN (left \o new)[i]
               ELSE right[i - (lo + Len(new))]
  BY <1>0, <1>1, <1>2, <1>3, ConcatProperties
<1>5. Splice(t, lo, hi, new) = (left \o new) \o right
  BY DEF Splice, left, right
<1>6. ASSUME NEW i \in 1..(lo + Len(new) + (Len(t) - hi))
      PROVE  Splice(t, lo, hi, new)[i] =
                IF i <= lo THEN t[i]
                ELSE IF i <= lo + Len(new) THEN new[i - lo]
                ELSE t[i - Len(new) - lo + hi]
  <2>1. CASE i <= lo
    BY <1>0, <1>1, <1>3, <1>4, <1>5, <2>1
  <2>2. CASE i > lo /\ i <= lo + Len(new)
    BY <1>0, <1>1, <1>3, <1>4, <1>5, <2>2
  <2>3. CASE i > lo + Len(new)
    <3> DEFINE j == i - (lo + Len(new))
    <3>1. j \in 1..(Len(t) - hi) /\ hi + j = i - Len(new) - lo + hi
      BY <1>0, <2>3
    <3>2. Splice(t, lo, hi, new)[i] = right[j]
      BY <1>0, <1>4, <1>5, <2>3
    <3> HIDE DEF j
    <3>3. right[j] = t[hi + j]
      BY <1>2, <3>1
    <3>4. Splice(t, lo, hi, new)[i] = t[i - Len(new) - lo + hi]
      BY <3>1, <3>2, <3>3
    <3> QED
      BY <1>0, <2>3, <3>4
  <2> QED
    BY <1>0, <2>1, <2>2, <2>3
<1> QED
  BY <1>4, <1>5, <1>6 DEF IsSplice

(* Putting the old slice back where the new text came in restores the      *)
(* text: the reason why a filed group undoes its command.                  *)
LEMMA SpliceInverse ==
    ASSUME NEW S, NEW t \in Seq(S), NEW new \in Seq(S),
           NEW lo \in Nat, NEW hi \in lo..Len(t)
    PROVE  Splice(Splice(t, lo, hi, new), lo, lo + Len(new), Slice(t, lo, hi)) = t
<1> DEFINE u == Splice(t, lo, hi, new)
           old == Slice(t, lo, hi)
           v == Splice(u, lo, lo + Len(new), old)
<1>0. Len(t) \in Nat /\ Len(new) \in Nat /\ hi \in Nat /\ lo <= hi /\ hi <= Len(t)
  BY LenProperties
<1>1. /\ u \in Seq(S) /\ Len(u) = lo + Len(new) + (Len(t) - hi)
      /\ \A i \in 1..(lo + Len(new) + (Len(t) - hi)) :
            u[i] = IF i <= lo THEN t[i]
                   ELSE IF i <= lo + Len(new) THEN new[i - lo]
                   ELSE t[i - Len(new) - lo + hi]
  <2>1. IsSplice(S, u, t, lo, hi, new)
    BY SpliceFacts
  <2> QED
    BY <2>1 DEF IsSplice
<1>2. /\ old \in Seq(S) /\ Len(old) = hi - lo
      /\ \A i \in 1..(hi - lo) : old[i] = t[lo + i]
  BY SliceFacts
<1> HIDE DEF u, old
<1> DEFINE cut == lo + Len(new)
<1>3. cut \in lo..Len(u) /\ lo + Len(old) + (Len(u) - cut) = Len(t)
  BY <1>0, <1>1, <1>2
<1>4. /\ v \in Seq(S) /\ Len(v) = lo + Len(old) + (Len(u) - cut)
      /\ \A i \in 1..(lo + Len(old) + (Len(u) - cut)) :
            v[i] = IF i <= lo THEN u[i]
                   ELSE IF i <= lo + Len(old) THEN old[i - lo]
                   ELSE u[i - Len(old) - lo + cut]
  <2>1. u \in Seq(S) /\ old \in Seq(S)
    BY <1>1, <1>2
  <2>2. v = Splice(u, lo, cut, old)
    OBVIOUS
  <2> HIDE DEF v, cut
  <2>3. IsSplice(S, v, u, lo, cut, old)
    BY <1>3, <2>1, <2>2, SpliceFacts
  <2> QED
    BY <2>3 DEF IsSplice
<1> HIDE DEF v
<1>5. Len(v) = Len(t)
  BY <1>3, <1>4
<1>6. ASSUME NEW i \in 1..Len(t) PROVE v[i] = t[i]
  <2>0. i \in 1..(lo + Len(old) + (Len(u) - cut))
    BY <1>3
  <2>1. CASE i <= lo
    <3>1. v[i] = u[i]
      BY <1>4, <2>0, <2>1
    <3>2. i \in 1..(lo + Len(new) + (Len(t) - hi))
      BY <1>0, <2>1
    <3> QED
      BY <1>1, <2>1, <3>1, <3>2
  <2>2. CASE i > lo /\ i <= hi
    <3> DEFINE j == i - lo
    <3>1. v[i] = old[j]
      BY <1>0, <1>2, <1>4, <2>0, <2>2
    <3>2. j \in 1..(hi - lo) /\ lo + j = i
      BY <1>0, <2>2
    <3> HIDE DEF j
    <3> QED
      BY <1>2, <3>1, <3>2
  <2>3. CASE i > hi
    <3> DEFINE j == i - Len(old) - lo + cut
    <3>0. /\ ~(i <= lo) /\ ~(i <= lo + Len(old))
      BY <1>0, <1>2, <2>3
    <3>1. v[i] = u[j]
      BY <1>4, <2>0, <3>0
    <3>2. /\ j \in 1..(lo + Len(new) + (Len(t) - hi)) /\ j > lo + Len(new)
          /\ j - Len(new) - lo + hi = i
      BY <1>0, <1>2, <2>3
    <3> HIDE DEF j
    <3>3. ~(j <= lo) /\ ~(j <= lo + Len(new))
      BY <1>0, <3>2
    <3>4. u[j] = t[j - Len(new) - lo + hi]
      BY <1>1, <3>2, <3>3
    <3> QED
      BY <3>1, <3>2, <3>4
  <2> QED
    BY <1>0, <2>1, <2>2, <2>3
<1>7. v = t
  BY <1>4, <1>5, <1>6, SeqEqual
<1> QED
  BY <1>7 DEF v, u, old

(* A splice and an append at the end do not meet.                          *)
LEMMA SpliceAppend ==
    ASSUME NEW S, NEW t \in Seq(S), NEW new \in Seq(S), NEW d \in Seq(S),
           NEW lo \in Nat, NEW hi \in lo..Len(t)
    PROVE  Splice(t \o d, lo, hi, new) = Splice(t, lo, hi, new) \o d
<1> DEFINE td == t \o d
           u == Splice(t, lo, hi, new)
           v == Splice(td, lo, hi, new)
           n == lo + Len(new) + (Len(t) - hi)
<1>0. Len(t) \in Nat /\ Len(new) \in Nat /\ Len(d) \in Nat
      /\ hi \in Nat /\ lo <= hi /\ hi <= Len(t)
  BY LenProperties
<1>1. /\ td \in Seq(S) /\ Len(td) = Len(t) + Len(d)
      /\ \A i \in 1..(Len(t) + Len(d)) :
            td[i] = IF i <= Len(t) THEN t[i] ELSE d[i - Len(t)]
  BY ConcatProperties
<1>2. /\ u \in Seq(S) /\ Len(u) = n
      /\ \A i \in 1..n : u[i] = IF i <= lo THEN t[i]
                                ELSE IF i <= lo + Len(new) THEN new[i - lo]
                                ELSE t[i - Len(new) - lo + hi]
  BY SpliceFacts DEF IsSplice
<1> HIDE DEF td, u
<1>3. hi \in lo..Len(td)
  BY <1>0, <1>1
<1>4. /\ v \in Seq(S) /\ Len(v) = lo + Len(new) + (Len(td) - hi)
      /\ \A i \in 1..(lo + Len(new) + (Len(td) - hi)) :
            v[i] = IF i <= lo THEN td[i]
                   ELSE IF i <= lo + Len(new) THEN new[i - lo]
                   ELSE td[i - Len(new) - lo + hi]
  <2>1. td \in Seq(S)
    BY <1>1
  <2>2. IsSplice(S, v, td, lo, hi, new)
    BY <1>3, <2>1, SpliceFacts
  <2> QED
    BY <2>2 DEF IsSplice
<1> HIDE DEF v
<1>5. /\ u \o d \in Seq(S) /\ Len(u \o d) = n + Len(d)
      /\ \A i \in 1..(n + Len(d)) :
            (u \o d)[i] = IF i <= n THEN u[i] ELSE d[i - n]
  <2>1. u \in Seq(S) /\ Len(u) = n
    BY <1>2
  <2> HIDE DEF n
  <2> QED
    BY <2>1, ConcatProperties
<1>6. n \in Nat /\ lo + Len(new) + (Len(td) - hi) = n + Len(d)
  BY <1>0, <1>1
<1>7. ASSUME NEW i \in 1..(n + Len(d)) PROVE v[i] = (u \o d)[i]
  <2>0. i \in 1..(lo + Len(new) + (Len(td) - hi))
    BY <1>6
  <2>1. CASE i <= lo + Len(new)
    <3>1. i \in 1..n /\ i <= n /\ (i <= lo => i <= Len(t) /\ i \in 1..(Len(t) + Len(d)))
      BY <1>0, <2>1
    <3> QED
      BY <1>1, <1>2, <1>4, <1>5, <2>0, <2>1, <3>1
  <2>2. CASE i > lo + Len(new)
    <3> DEFINE j == i - Len(new) - lo + hi
    <3>0. ~(i <= lo) /\ ~(i <= lo + Len(new))
      BY <1>0, <2>2
    <3>1. v[i] = td[j]
      BY <1>4, <2>0, <3>0
    <3>2. j \in 1..(Len(t) + Len(d)) /\ (j <= Len(t) <=> i <= n) /\ j - Len(t) = i - n
      BY <1>0, <2>2
    <3>3. i <= n => (u \o d)[i] = t[j]
      BY <1>0, <1>2, <1>5, <1>6, <2>2
    <3> HIDE DEF j
    <3>4. td[j] = IF j <= Len(t) THEN t[j] ELSE d[i - n]
      BY <1>1, <3>2
    <3> QED
      BY <1>5, <3>1, <3>2, <3>3, <3>4
  <2>3. i <= lo + Len(new) \/ i > lo + Len(new)
    BY <1>0, <1>6
  <2> QED
    BY <2>1, <2>2, <2>3
<1>8. v = u \o d
  BY <1>4, <1>5, <1>6, <1>7, SeqEqual
<1> QED
  BY <1>8 DEF v, u, td

(* The list s with x added at the end and its k oldest members dropped.    *)
IsNewest(S, r, s, x, k) ==
    /\ r \in Seq(S) /\ Len(r) = Len(s) + 1 - k
    /\ r[Len(s) + 1 - k] = x
    /\ \A i \in 1..(Len(s) - k) : r[i] = s[i + k]

(* Newest drops at most the one oldest member of a list within its bound.  *)
LEMMA NewestFacts ==
    ASSUME NEW S, NEW s \in Seq(S), NEW x \in S, NEW n \in Nat \ {0},
           Len(s) <= n
    PROVE  IsNewest(S, Newest(Append(s, x), n), s, x, IF Len(s) = n THEN 1 ELSE 0)
<1> DEFINE k == IF Len(s) = n THEN 1 ELSE 0
           a == Append(s, x)
           r == Newest(a, n)
<1>0. Len(s) \in Nat /\ k \in Nat /\ k <= Len(s)
  BY LenProperties
<1>1. /\ a \in Seq(S) /\ Len(a) = Len(s) + 1 /\ a[Len(s) + 1] = x
      /\ \A i \in 1..Len(s) : a[i] = s[i]
  BY AppendProperties
<1> HIDE DEF a
<1>2. Max({0, Len(a) - n}) = k
  <2> DEFINE b == Len(a) - n
  <2>1. b \in Int /\ (0 <= b => b = k) /\ (~(0 <= b) => k = 0)
    BY <1>0, <1>1
  <2> HIDE DEF b, k
  <2>2. Max({0, b}) = IF 0 <= b THEN b ELSE 0
    <3>1. 0 \in Int
      OBVIOUS
    <3> QED
      BY <2>1, <3>1, MinMaxPair
  <2> QED
    BY <2>1, <2>2 DEF b
<1>3. r = SubSeq(a, k + 1, Len(s) + 1)
  BY <1>1, <1>2 DEF Newest
<1> HIDE DEF r, k
<1>4. \A i \in (k + 1)..(Len(s) + 1) : a[i] \in S
  BY <1>0, <1>1, ElementOfSeq
<1>5. /\ r \in Seq(S) /\ Len(r) = Len(s) + 1 - k
      /\ \A i \in 1..(Len(s) + 1 - k) : r[i] = a[k + i]
  <2>1. /\ SubSeq(a, k + 1, Len(s) + 1) \in Seq(S)
        /\ Len(SubSeq(a, k + 1, Len(s) + 1)) =
              IF k + 1 <= Len(s) + 1 THEN (Len(s) + 1) - (k + 1) + 1 ELSE 0
        /\ \A i \in 1..((Len(s) + 1) - (k + 1) + 1) :
              SubSeq(a, k + 1, Len(s) + 1)[i] = a[(k + 1) + i - 1]
    BY <1>0, <1>4, SubSeqProperties
  <2> QED
    BY <1>0, <1>3, <2>1
<1>6. r[Len(s) + 1 - k] = x
  <2>1. Len(s) + 1 - k \in 1..(Len(s) + 1 - k) /\ k + (Len(s) + 1 - k) = Len(s) + 1
    BY <1>0
  <2> QED
    BY <1>1, <1>5, <2>1
<1>7. ASSUME NEW i \in 1..(Len(s) - k) PROVE r[i] = s[i + k]
  <2>1. i \in 1..(Len(s) + 1 - k) /\ k + i \in 1..Len(s) /\ k + i = i + k
    BY <1>0
  <2> QED
    BY <1>1, <1>5, <2>1
<1> QED
  BY <1>5, <1>6, <1>7 DEF r, k, a, IsNewest

(* A list without its last member, and its last member.                    *)
LEMMA FrontLastFacts ==
    ASSUME NEW S, NEW s \in Seq(S), s # <<>>
    PROVE  /\ Len(s) \in Nat \ {0} /\ Last(s) = s[Len(s)] /\ Last(s) \in S
           /\ Front(s) \in Seq(S) /\ Len(Front(s)) = Len(s) - 1
           /\ \A i \in 1..(Len(s) - 1) : Front(s)[i] = s[i]
<1>1. Len(s) \in Nat \ {0}
  BY EmptySeq
<1>2. \A i \in 1..(Len(s) - 1) : s[i] \in S
  BY <1>1, ElementOfSeq
<1>3. /\ SubSeq(s, 1, Len(s) - 1) \in Seq(S)
      /\ Len(SubSeq(s, 1, Len(s) - 1)) =
            IF 1 <= Len(s) - 1 THEN (Len(s) - 1) - 1 + 1 ELSE 0
      /\ \A i \in 1..((Len(s) - 1) - 1 + 1) :
            SubSeq(s, 1, Len(s) - 1)[i] = s[1 + i - 1]
  BY <1>1, <1>2, SubSeqProperties
<1>4. Last(s) = s[Len(s)] /\ Last(s) \in S
  BY <1>1, ElementOfSeq DEF Last
<1>5. /\ SubSeq(s, 1, Len(s) - 1) \in Seq(S)
      /\ Len(SubSeq(s, 1, Len(s) - 1)) = Len(s) - 1
      /\ \A i \in 1..(Len(s) - 1) : SubSeq(s, 1, Len(s) - 1)[i] = s[i]
  <2> DEFINE f == SubSeq(s, 1, Len(s) - 1)
             n == Len(s)
  <2>1. Len(f) = IF 1 <= n - 1 THEN (n - 1) - 1 + 1 ELSE 0
    BY <1>3
  <2>2. \A i \in 1..((n - 1) - 1 + 1) : f[i] = s[1 + i - 1]
    BY <1>3
  <2>3. f \in Seq(S) /\ n \in Nat \ {0}
    BY <1>1, <1>3
  <2> HIDE DEF f, n
  <2>4. Len(f) = n - 1 /\ \A i \in 1..(n - 1) : f[i] = s[i]
    BY <2>1, <2>2, <2>3
  <2> QED
    BY <2>3, <2>4 DEF f, n
<1> QED
  BY <1>1, <1>4, <1>5 DEF Front

(* The text just spliced in lies where it was put.                         *)
LEMMA SliceOfSplice ==
    ASSUME NEW S, NEW t \in Seq(S), NEW new \in Seq(S),
           NEW lo \in Nat, NEW hi \in lo..Len(t)
    PROVE  /\ lo + Len(new) <= Len(Splice(t, lo, hi, new))
           /\ Slice(Splice(t, lo, hi, new), lo, lo + Len(new)) = new
<1> DEFINE u == Splice(t, lo, hi, new)
           top == lo + Len(new)
           w == Slice(u, lo, top)
<1>0. Len(t) \in Nat /\ Len(new) \in Nat /\ hi \in Nat /\ lo <= hi /\ hi <= Len(t)
  BY LenProperties
<1>1. IsSplice(S, u, t, lo, hi, new)
  BY SpliceFacts
<1> HIDE DEF u
<1>2. u \in Seq(S) /\ top \in lo..Len(u) /\ top - lo = Len(new) /\ top <= Len(u)
  BY <1>0, <1>1 DEF IsSplice
<1>3. \A i \in 1..Len(new) : u[lo + i] = new[i]
  <2> SUFFICES ASSUME NEW i \in 1..Len(new) PROVE u[lo + i] = new[i]
    OBVIOUS
  <2> DEFINE j == lo + i
  <2>1. /\ j \in 1..(lo + Len(new) + (Len(t) - hi)) /\ ~(j <= lo) /\ j <= lo + Len(new)
        /\ j - lo = i
    BY <1>0
  <2> HIDE DEF j
  <2>2. u[j] = new[i]
    BY <1>1, <2>1 DEF IsSplice
  <2> QED
    BY <2>2 DEF j
<1> HIDE DEF top
<1>4. w \in Seq(S) /\ Len(w) = top - lo /\ \A i \in 1..(top - lo) : w[i] = u[lo + i]
  BY <1>2, SliceFacts
<1> HIDE DEF w
<1>5. w = new
  BY <1>2, <1>3, <1>4, SeqEqual
<1> QED
  BY <1>2, <1>5 DEF w, u, top

(* A slice does not see what is appended behind it.                        *)
LEMMA SliceAppend ==
    ASSUME NEW S, NEW t \in Seq(S), NEW d \in Seq(S),
           NEW lo \in Nat, NEW hi \in lo..Len(t)
    PROVE  Slice(t \o d, lo, hi) = Slice(t, lo, hi)
<1> DEFINE td == t \o d
<1>0. Len(t) \in Nat /\ Len(d) \in Nat /\ hi \in Nat
  BY LenProperties
<1>1. /\ td \in Seq(S) /\ Len(td) = Len(t) + Len(d)
      /\ \A i \in 1..(Len(t) + Len(d)) :
            td[i] = IF i <= Len(t) THEN t[i] ELSE d[i - Len(t)]
  BY ConcatProperties
<1> HIDE DEF td
<1>2. hi \in lo..Len(td) /\ td \in Seq(S)
  BY <1>0, <1>1
<1> DEFINE a == Slice(td, lo, hi)
           b == Slice(t, lo, hi)
<1>3. a \in Seq(S) /\ Len(a) = hi - lo /\ \A i \in 1..(hi - lo) : a[i] = td[lo + i]
  BY <1>2, SliceFacts
<1>4. b \in Seq(S) /\ Len(b) = hi - lo /\ \A i \in 1..(hi - lo) : b[i] = t[lo + i]
  BY SliceFacts
<1> HIDE DEF a, b
<1>5. \A i \in 1..(hi - lo) : td[lo + i] = t[lo + i]
  BY <1>0, <1>1
<1>6. a = b
  BY <1>3, <1>4, <1>5, SeqEqual
<1> QED
  BY <1>6 DEF a, b, td

-----------------------------------------------------------------------------
(* Positions.                                                              *)

Marks(n) == 0..n \cup {NoMark}

(* A mark stays inside a text that grows where it is inserted into, and    *)
(* inside a text that shrinks by the deleted part.                         *)
LEMMA AdjustMarkFacts ==
    ASSUME NEW n \in Nat, NEW lo \in Nat, NEW hi \in lo..n, NEW m \in Marks(n),
           NEW c \in Nat
    PROVE  /\ AdjustMarkInsert(m, lo, c) \in Marks(n + c)
           /\ AdjustMarkDelete(m, lo, hi) \in Marks(n - (hi - lo))
<1>1. CASE m = NoMark
  BY <1>1 DEF AdjustMarkInsert, AdjustMarkDelete, Marks
<1>2. CASE m # NoMark
  <2>1. m \in 0..n
    BY <1>2 DEF Marks
  <2>2. AdjustMarkInsert(m, lo, c) \in 0..(n + c)
    BY <1>2, <2>1 DEF AdjustMarkInsert
  <2>3. Min({m, lo}) = IF m <= lo THEN m ELSE lo
    BY <2>1, MinMaxPair
  <2>4. CASE m >= hi
    BY <1>2, <2>1, <2>2, <2>4 DEF AdjustMarkDelete, Marks
  <2>5. CASE m < hi
    <3>1. ~(m >= hi)
      BY <2>1, <2>5
    <3>2. AdjustMarkDelete(m, lo, hi) = Min({m, lo})
      BY <1>2, <2>5, <3>1 DEF AdjustMarkDelete
    <3>3. Min({m, lo}) \in 0..(n - (hi - lo))
      BY <2>1, <2>3, <2>5
    <3> QED
      BY <2>2, <3>2, <3>3 DEF Marks
  <2> QED
    BY <2>1, <2>4, <2>5
<1> QED
  BY <1>1, <1>2

-----------------------------------------------------------------------------
(* Groups.                                                                 *)

(* Group g leads from text b to text a and back, and the positions it      *)
(* restores exist there.                                                   *)
Fits(g, b, a) ==
    /\ g \in Group /\ b \in Seq(Char) /\ a \in Seq(Char)
    /\ g.start + Len(g.removed) <= Len(b)
    /\ g.start + Len(g.inserted) <= Len(a)
    /\ Undone(a, g) = b /\ Redone(b, g) = a
    /\ g.pointBefore \in 0..Len(b) /\ g.pointAfter \in 0..Len(a)
    /\ g.markBefore \in Marks(Len(b)) /\ g.markAfter \in Marks(Len(a))

(* The group a command files fits the texts before and after it.           *)
LEMMA FitsChange ==
    ASSUME text \in Seq(Char), point \in 0..Len(text), mark \in Marks(Len(text)),
           NEW lo \in Nat, NEW hi \in lo..Len(text), NEW new \in Seq(Char),
           NEW p \in 0..(lo + Len(new) + (Len(text) - hi)),
           NEW m \in Marks(lo + Len(new) + (Len(text) - hi))
    PROVE  Fits(UndoGroup(lo, Slice(text, lo, hi), new, p, m),
                text, Splice(text, lo, hi, new))
<1> DEFINE old == Slice(text, lo, hi)
           a == Splice(text, lo, hi, new)
           g == UndoGroup(lo, old, new, p, m)
<1>0. Len(text) \in Nat /\ Len(new) \in Nat /\ hi \in Nat /\ lo <= hi /\ hi <= Len(text)
  BY LenProperties
<1>1. old \in Seq(Char) /\ Len(old) = hi - lo
  BY SliceFacts
<1>2. a \in Seq(Char) /\ Len(a) = lo + Len(new) + (Len(text) - hi)
  BY SpliceFacts DEF IsSplice
<1>3. Splice(a, lo, lo + Len(new), old) = text
  BY SpliceInverse
<1>4. lo + Len(old) = hi
  BY <1>0, <1>1
<1>5. Splice(text, lo, lo + Len(old), new) = a
  BY <1>4
<1> HIDE DEF old, a
<1>6. /\ g.start = lo /\ g.removed = old /\ g.inserted = new
      /\ g.pointBefore = point /\ g.pointAfter = p
      /\ g.markBefore = mark /\ g.markAfter = m
  BY DEF UndoGroup
<1>7. g \in Group
  <2>1. point \in Nat /\ p \in Nat
    BY <1>0
  <2>2. mark \in Nat \cup {NoMark} /\ m \in Nat \cup {NoMark}
    BY <1>0 DEF Marks
  <2> QED
    BY <1>1, <2>1, <2>2 DEF UndoGroup, Group
<1> HIDE DEF g
<1>8. Undone(a, g) = text /\ Redone(text, g) = a
  BY <1>3, <1>5, <1>6 DEF Undone, Redone
<1>9. lo + Len(old) <= Len(text) /\ lo + Len(new) <= Len(a)
  BY <1>0, <1>2, <1>4
<1>10. Fits(g, text, a)
  BY <1>2, <1>6, <1>7, <1>8, <1>9 DEF Fits
<1> QED
  BY <1>10 DEF g, old, a

(* Agent output behind both texts leaves a group fitting.                  *)
LEMMA FitsAppend ==
    ASSUME NEW g, NEW b, NEW a, Fits(g, b, a), NEW d \in Seq(Char)
    PROVE  Fits(g, b \o d, a \o d)
<1>0. /\ g \in Group /\ b \in Seq(Char) /\ a \in Seq(Char)
      /\ g.start + Len(g.removed) <= Len(b)
      /\ g.start + Len(g.inserted) <= Len(a)
      /\ Undone(a, g) = b /\ Redone(b, g) = a
      /\ g.pointBefore \in 0..Len(b) /\ g.pointAfter \in 0..Len(a)
      /\ g.markBefore \in Marks(Len(b)) /\ g.markAfter \in Marks(Len(a))
  BY DEF Fits
<1>1. g.start \in Nat /\ g.removed \in Seq(Char) /\ g.inserted \in Seq(Char)
  BY <1>0 DEF Group
<1>2. /\ Len(g.removed) \in Nat /\ Len(g.inserted) \in Nat
      /\ Len(a) \in Nat /\ Len(b) \in Nat /\ Len(d) \in Nat
  BY <1>0, <1>1, LenProperties
<1>3. /\ b \o d \in Seq(Char) /\ Len(b \o d) = Len(b) + Len(d)
      /\ a \o d \in Seq(Char) /\ Len(a \o d) = Len(a) + Len(d)
  BY <1>0, ConcatProperties
<1> DEFINE at == g.start
           old == g.removed
           new == g.inserted
           hb == at + Len(old)
           ha == at + Len(new)
<1>4. /\ hb \in at..Len(b) /\ ha \in at..Len(a)
      /\ at \in Nat /\ old \in Seq(Char) /\ new \in Seq(Char)
      /\ a \in Seq(Char) /\ b \in Seq(Char)
  BY <1>0, <1>1, <1>2
<1> HIDE DEF at, old, new, hb, ha
<1>5. Splice(a \o d, at, ha, old) = Splice(a, at, ha, old) \o d
  BY <1>4, SpliceAppend, SMTT(30)
<1>6. Splice(b \o d, at, hb, new) = Splice(b, at, hb, new) \o d
  BY <1>4, SpliceAppend, SMTT(30)
<1>7. Undone(a \o d, g) = b \o d /\ Redone(b \o d, g) = a \o d
  BY <1>0, <1>5, <1>6 DEF Undone, Redone, hb, ha, at, old, new
<1>8. hb <= Len(b \o d) /\ ha <= Len(a \o d)
  BY <1>0, <1>1, <1>2, <1>3 DEF hb, ha, at, old, new
<1>9. g.pointBefore \in 0..Len(b \o d) /\ g.pointAfter \in 0..Len(a \o d)
  BY <1>0, <1>2, <1>3
<1>10. g.markBefore \in Marks(Len(b \o d)) /\ g.markAfter \in Marks(Len(a \o d))
  BY <1>0, <1>2, <1>3 DEF Marks
<1> QED
  BY <1>0, <1>3, <1>7, <1>8, <1>9, <1>10 DEF Fits, hb, ha, at, old, new

-----------------------------------------------------------------------------
(* Stacks of groups.  The undo history is read with up = TRUE: each group  *)
(* leads from its recorded text up to the next one, the last to t.  The    *)
(* redo stack is read with up = FALSE: each leads down.                    *)

Texts == Seq(Char)

Leads(up, g, x, y) == IF up THEN Fits(g, x, y) ELSE Fits(g, y, x)

Following(ts, i, t) == IF i = Len(ts) THEN t ELSE ts[i + 1]

StackFits(up, gs, ts, t) ==
    /\ gs \in Seq(Group) /\ ts \in Seq(Texts) /\ Len(gs) = Len(ts)
    /\ \A i \in 1..Len(ts) : Leads(up, gs[i], ts[i], Following(ts, i, t))

(* One more group on top.                                                  *)
LEMMA StackAppend ==
    ASSUME NEW up, NEW gs, NEW ts, NEW t, NEW g \in Group, NEW u,
           StackFits(up, gs, ts, t), t \in Texts, Leads(up, g, t, u)
    PROVE  StackFits(up, Append(gs, g), Append(ts, t), u)
<1> DEFINE as == Append(ts, t)
           ag == Append(gs, g)
<1>0. gs \in Seq(Group) /\ ts \in Seq(Texts) /\ Len(gs) = Len(ts) /\ Len(ts) \in Nat
  BY LenProperties DEF StackFits
<1>1. /\ as \in Seq(Texts) /\ Len(as) = Len(ts) + 1 /\ as[Len(ts) + 1] = t
      /\ \A i \in 1..Len(ts) : as[i] = ts[i]
  BY <1>0, AppendProperties
<1>2. /\ ag \in Seq(Group) /\ Len(ag) = Len(ts) + 1 /\ ag[Len(ts) + 1] = g
      /\ \A i \in 1..Len(ts) : ag[i] = gs[i]
  BY <1>0, AppendProperties
<1> HIDE DEF as, ag
<1>3. ASSUME NEW i \in 1..Len(as)
      PROVE  Leads(up, ag[i], as[i], Following(as, i, u))
  <2>1. CASE i = Len(ts) + 1
    BY <1>1, <1>2, <2>1 DEF Following
  <2>2. CASE i # Len(ts) + 1
    <3>1. i \in 1..Len(ts) /\ i # Len(as)
      BY <1>0, <1>1, <2>2
    <3>2. as[i + 1] = Following(ts, i, t)
      <4>1. CASE i = Len(ts)
        BY <1>1, <4>1 DEF Following
      <4>2. CASE i # Len(ts)
        <5>1. i + 1 \in 1..Len(ts)
          BY <1>0, <3>1, <4>2
        <5> QED
          BY <1>1, <4>2, <5>1 DEF Following
      <4> QED
        BY <4>1, <4>2
    <3>3. Following(as, i, u) = Following(ts, i, t)
      BY <3>1, <3>2 DEF Following
    <3>4. Leads(up, gs[i], ts[i], Following(ts, i, t))
      BY <3>1 DEF StackFits
    <3> QED
      BY <1>1, <1>2, <3>1, <3>3, <3>4
  <2> QED
    BY <2>1, <2>2
<1>4. StackFits(up, ag, as, u)
  BY <1>1, <1>2, <1>3 DEF StackFits
<1> QED
  BY <1>4 DEF ag, as

(* The oldest group dropped.                                               *)
LEMMA StackNewest ==
    ASSUME NEW up, NEW gs, NEW ts, NEW t, NEW g \in Group, NEW u,
           StackFits(up, gs, ts, t), t \in Texts, Leads(up, g, t, u),
           NEW n \in Nat \ {0}, Len(ts) <= n
    PROVE  /\ StackFits(up, Newest(Append(gs, g), n), Newest(Append(ts, t), n), u)
           /\ Len(Newest(Append(ts, t), n)) <= n
<1> DEFINE k == IF Len(ts) = n THEN 1 ELSE 0
           rs == Newest(Append(ts, t), n)
           rg == Newest(Append(gs, g), n)
<1>0. gs \in Seq(Group) /\ ts \in Seq(Texts) /\ Len(gs) = Len(ts) /\ Len(ts) \in Nat
  BY LenProperties DEF StackFits
<1>1. /\ rs \in Seq(Texts) /\ Len(rs) = Len(ts) + 1 - k
      /\ rs[Len(ts) + 1 - k] = t
      /\ \A i \in 1..(Len(ts) - k) : rs[i] = ts[i + k]
  <2>1. IsNewest(Texts, rs, ts, t, k)
    BY <1>0, NewestFacts
  <2> QED
    BY <2>1 DEF IsNewest
<1>2. /\ rg \in Seq(Group) /\ Len(rg) = Len(ts) + 1 - k
      /\ rg[Len(ts) + 1 - k] = g
      /\ \A i \in 1..(Len(ts) - k) : rg[i] = gs[i + k]
  <2>1. Len(gs) <= n /\ k = IF Len(gs) = n THEN 1 ELSE 0
    BY <1>0
  <2> HIDE DEF k
  <2>2. IsNewest(Group, rg, gs, g, k)
    BY <1>0, <2>1, NewestFacts
  <2> HIDE DEF rg
  <2> QED
    BY <1>0, <2>2 DEF IsNewest
<1>3. k \in Nat /\ k <= Len(ts) /\ Len(ts) + 1 - k <= n
  BY <1>0
<1> HIDE DEF rs, rg, k
<1>4. ASSUME NEW i \in 1..Len(rs)
      PROVE  Leads(up, rg[i], rs[i], Following(rs, i, u))
  <2>1. CASE i = Len(ts) + 1 - k
    BY <1>1, <1>2, <2>1 DEF Following
  <2>2. CASE i # Len(ts) + 1 - k
    <3> DEFINE j == i + k
    <3>1. i \in 1..(Len(ts) - k) /\ i # Len(rs) /\ j \in 1..Len(ts)
      BY <1>0, <1>1, <1>3, <2>2
    <3>2. rs[i + 1] = Following(ts, j, t)
      <4>1. CASE i = Len(ts) - k
        <5>1. i + 1 = Len(ts) + 1 - k /\ j = Len(ts)
          BY <1>0, <1>3, <4>1
        <5> QED
          BY <1>1, <5>1 DEF Following
      <4>2. CASE i # Len(ts) - k
        <5>1. i + 1 \in 1..(Len(ts) - k) /\ j # Len(ts) /\ (i + 1) + k = j + 1
          BY <1>0, <1>3, <3>1, <4>2
        <5> QED
          BY <1>1, <5>1 DEF Following
      <4> QED
        BY <4>1, <4>2
    <3>3. Following(rs, i, u) = Following(ts, j, t)
      BY <3>1, <3>2 DEF Following
    <3>4. Leads(up, gs[j], ts[j], Following(ts, j, t))
      BY <3>1 DEF StackFits
    <3>5. rg[i] = gs[j] /\ rs[i] = ts[j]
      BY <1>1, <1>2, <3>1
    <3> QED
      BY <3>3, <3>4, <3>5
  <2> QED
    BY <2>1, <2>2
<1>5. StackFits(up, rg, rs, u) /\ Len(rs) <= n
  BY <1>1, <1>2, <1>3, <1>4 DEF StackFits
<1> QED
  BY <1>5 DEF rg, rs

(* The top group taken off.                                                *)
LEMMA StackPop ==
    ASSUME NEW up, NEW gs, NEW ts, NEW t, StackFits(up, gs, ts, t), gs # <<>>
    PROVE  /\ Leads(up, Last(gs), Last(ts), t) /\ Last(gs) \in Group
           /\ Last(ts) \in Texts
           /\ StackFits(up, Front(gs), Front(ts), Last(ts))
           /\ Len(Front(ts)) = Len(ts) - 1 /\ Len(ts) \in Nat \ {0}
<1>0. gs \in Seq(Group) /\ ts \in Seq(Texts) /\ Len(gs) = Len(ts) /\ Len(ts) \in Nat
  BY LenProperties DEF StackFits
<1>1. /\ Len(gs) \in Nat \ {0} /\ Last(gs) = gs[Len(gs)] /\ Last(gs) \in Group
      /\ Front(gs) \in Seq(Group) /\ Len(Front(gs)) = Len(gs) - 1
      /\ \A i \in 1..(Len(gs) - 1) : Front(gs)[i] = gs[i]
  BY <1>0, FrontLastFacts
<1>2. ts # <<>>
  BY <1>0, <1>1, EmptySeq
<1>3. /\ Last(ts) = ts[Len(ts)] /\ Last(ts) \in Texts
      /\ Front(ts) \in Seq(Texts) /\ Len(Front(ts)) = Len(ts) - 1
      /\ \A i \in 1..(Len(ts) - 1) : Front(ts)[i] = ts[i]
  BY <1>0, <1>2, FrontLastFacts
<1>4. Leads(up, Last(gs), Last(ts), t)
  <2>1. Len(ts) \in 1..Len(ts)
    BY <1>0, <1>1
  <2> QED
    BY <1>0, <1>1, <1>3, <2>1 DEF StackFits, Following
<1>5. ASSUME NEW i \in 1..Len(Front(ts))
      PROVE  Leads(up, Front(gs)[i], Front(ts)[i], Following(Front(ts), i, Last(ts)))
  <2>1. i \in 1..(Len(ts) - 1) /\ i \in 1..Len(ts) /\ i # Len(ts)
    BY <1>0, <1>3
  <2>2. Leads(up, gs[i], ts[i], ts[i + 1])
    BY <2>1 DEF StackFits, Following
  <2>3. Following(Front(ts), i, Last(ts)) = ts[i + 1]
    <3>1. CASE i = Len(ts) - 1
      <4>1. i + 1 = Len(ts)
        BY <1>0, <3>1
      <4> QED
        BY <1>3, <3>1, <4>1 DEF Following
    <3>2. CASE i # Len(ts) - 1
      <4>1. i + 1 \in 1..(Len(ts) - 1)
        BY <1>0, <2>1, <3>2
      <4> QED
        BY <1>3, <3>2, <4>1 DEF Following
    <3> QED
      BY <3>1, <3>2
  <2> QED
    BY <1>0, <1>1, <1>3, <2>1, <2>2, <2>3
<1> QED
  BY <1>0, <1>1, <1>3, <1>4, <1>5 DEF StackFits

(* Agent output behind every text.                                         *)
LEMMA StackDeliver ==
    ASSUME NEW up, NEW gs, NEW ts, NEW t, StackFits(up, gs, ts, t),
           NEW d \in Texts
    PROVE  LET us == [i \in DOMAIN ts |-> ts[i] \o d]
           IN  StackFits(up, gs, us, t \o d) /\ Len(us) = Len(ts)
<1> DEFINE us == [i \in DOMAIN ts |-> ts[i] \o d]
<1>0. /\ gs \in Seq(Group) /\ ts \in Seq(Texts) /\ Len(gs) = Len(ts)
      /\ Len(ts) \in Nat /\ DOMAIN ts = 1..Len(ts)
  BY LenProperties DEF StackFits
<1>1. \A i \in 1..Len(ts) : ts[i] \o d \in Texts
  BY <1>0, ElementOfSeq, ConcatProperties DEF Texts
<1>2. us \in [1..Len(ts) -> Texts]
  BY <1>0, <1>1
<1>3. us \in Seq(Texts) /\ Len(us) = Len(ts)
  BY <1>0, <1>2, SeqDef
<1>4. \A i \in 1..Len(ts) : us[i] = ts[i] \o d
  BY <1>0
<1> HIDE DEF us
<1>5. ASSUME NEW i \in 1..Len(us) PROVE Leads(up, gs[i], us[i], Following(us, i, t \o d))
  <2>1. i \in 1..Len(ts)
    BY <1>3
  <2>2. Leads(up, gs[i], ts[i], Following(ts, i, t))
    BY <2>1 DEF StackFits
  <2>3. Following(us, i, t \o d) = Following(ts, i, t) \o d
    <3>1. CASE i = Len(ts)
      BY <1>3, <3>1 DEF Following
    <3>2. CASE i # Len(ts)
      <4>1. i + 1 \in 1..Len(ts)
        BY <1>0, <2>1, <3>2
      <4> QED
        BY <1>3, <1>4, <3>2, <4>1 DEF Following
    <3> QED
      BY <3>1, <3>2
  <2>4. us[i] = ts[i] \o d
    BY <1>4, <2>1
  <2>5. CASE up
    <3>1. Fits(gs[i], ts[i], Following(ts, i, t))
      BY <2>2, <2>5 DEF Leads
    <3>2. Fits(gs[i], ts[i] \o d, Following(ts, i, t) \o d)
      BY <3>1, FitsAppend DEF Texts
    <3> QED
      BY <2>3, <2>4, <2>5, <3>2 DEF Leads
  <2>6. CASE ~up
    <3>1. Fits(gs[i], Following(ts, i, t), ts[i])
      BY <2>2, <2>6 DEF Leads
    <3>2. Fits(gs[i], Following(ts, i, t) \o d, ts[i] \o d)
      BY <3>1, FitsAppend DEF Texts
    <3> QED
      BY <2>3, <2>4, <2>6, <3>2 DEF Leads
  <2> QED
    BY <2>5, <2>6
<1>6. StackFits(up, gs, us, t \o d)
  BY <1>0, <1>3, <1>5 DEF StackFits
<1> QED
  BY <1>3, <1>6 DEF us

-----------------------------------------------------------------------------
(* The inductive invariant, one part for each group of variables.          *)

ValueOK ==
    /\ text \in Texts /\ modified \in BOOLEAN
    /\ point \in 0..Len(text) /\ mark \in Marks(Len(text))

(* Both stacks lead away from the present text, step by step.              *)
UndoOK ==
    /\ StackFits(TRUE, undoHistory, past, text)
    /\ StackFits(FALSE, undoRedo, future, text)
    /\ Len(past) + Len(future) <= UNDO_CAPACITY

(* Unless a write was torn, the file holds the saved text with the file's  *)
(* line endings, and a clean ordinary buffer holds that text too.          *)
FileOK ==
    /\ kind \in {"ordinary", "generated"} /\ visits \in BOOLEAN
    /\ saved \in Texts \cup {NoText} /\ disk \in Texts \cup {NoText, Damaged}
    /\ eol \in {"LF", "CRLF"}
    /\ visits => saved = NoText \/ disk \in {ToFileText(saved, eol), Damaged}

CleanOK == kind = "ordinary" /\ ~modified => text = saved

RingOK == killRing \in Seq(Texts) /\ Len(killRing) <= KILL_RING_CAPACITY

FlagsOK ==
    /\ undoDescending \in BOOLEAN /\ lastWasKill \in BOOLEAN
    /\ yankActive \in BOOLEAN /\ lastUndo \in BOOLEAN /\ run \in Texts
    /\ lastUndo => undoDescending

(* The flag of a kill and the characters of the kills in a row agree.      *)
KillOK ==
    /\ lastWasKill => killRing # <<>> /\ killRing[1] = run
    /\ run # <<>> => lastWasKill

YankOK ==
    /\ yankCursor \in Nat /\ yankBounds \in Nat \X Nat
    /\ yankActive => /\ yankBounds[1] <= yankBounds[2]
                     /\ yankBounds[2] <= Len(text)
                     /\ yankCursor < Len(killRing)
                     /\ Slice(text, yankBounds[1], yankBounds[2])
                           = killRing[yankCursor + 1]

EditInv ==
    /\ ValueOK /\ UndoOK /\ FileOK /\ CleanOK /\ RingOK
    /\ FlagsOK /\ KillOK /\ YankOK
    /\ commands \in 0..MaxCommands

-----------------------------------------------------------------------------
(* What the shared parts of the commands keep.                             *)

(* A stack without groups fits every text.                                 *)
LEMMA StackEmpty ==
    ASSUME NEW up, NEW t
    PROVE  StackFits(up, <<>>, <<>>, t)
<1>1. <<>> \in Seq(Group) /\ <<>> \in Seq(Texts) /\ Len(<<>>) = 0
  BY EmptySeq
<1>2. 1..0 = {}
  OBVIOUS
<1> QED
  BY <1>1, <1>2 DEF StackFits

(* A change files a group that fits and leaves nothing to redo.            *)
LEMMA ChangeStep ==
    ASSUME ValueOK, UndoOK, FileOK,
           NEW lo \in Nat, NEW hi \in lo..Len(text), NEW new \in Texts,
           NEW p \in 0..(lo + Len(new) + (Len(text) - hi)),
           NEW m \in Marks(lo + Len(new) + (Len(text) - hi)),
           Change(lo, hi, new, p, m)
    PROVE  ValueOK' /\ UndoOK' /\ FileOK' /\ CleanOK'
<1> DEFINE g == UndoGroup(lo, Slice(text, lo, hi), new, p, m)
           a == Splice(text, lo, hi, new)
<1>1. /\ text \in Seq(Char) /\ point \in 0..Len(text) /\ mark \in Marks(Len(text))
      /\ new \in Seq(Char)
  BY DEF ValueOK, Texts
<1>2. Fits(g, text, a)
  BY <1>1, FitsChange
<1>3. a \in Seq(Char) /\ Len(a) = lo + Len(new) + (Len(text) - hi)
  BY <1>1, SpliceFacts DEF IsSplice
<1>4. /\ text' = a /\ point' = p /\ mark' = m /\ modified' = TRUE
      /\ undoHistory' = Newest(Append(undoHistory, g), UNDO_CAPACITY)
      /\ past' = Newest(Append(past, text), UNDO_CAPACITY)
      /\ undoRedo' = <<>> /\ future' = <<>>
      /\ kind' = kind /\ visits' = visits /\ saved' = saved /\ eol' = eol
      /\ disk' = disk
  BY DEF Change, PushUndo, fileVars
<1> HIDE DEF g, a
<1>5. ValueOK'
  BY <1>3, <1>4 DEF ValueOK, Texts
<1>6. /\ StackFits(TRUE, undoHistory', past', text')
      /\ Len(past') <= UNDO_CAPACITY
  <2>1. Leads(TRUE, g, text, a) /\ g \in Group /\ text \in Texts
    BY <1>1, <1>2 DEF Leads, Fits, Texts
  <2>2. UNDO_CAPACITY \in Nat \ {0} /\ Len(past) <= UNDO_CAPACITY
    <3>1. Len(past) \in Nat /\ Len(future) \in Nat
      BY LenProperties DEF UndoOK, StackFits
    <3> QED
      BY <3>1, EditAssumption DEF UndoOK
  <2>3. StackFits(TRUE, undoHistory, past, text)
    BY DEF UndoOK
  <2> QED
    BY <1>4, <2>1, <2>2, <2>3, StackNewest
<1>7. UndoOK'
  <2>1. StackFits(FALSE, <<>>, <<>>, text')
    BY StackEmpty
  <2>2. Len(past') + Len(future') = Len(past')
    <3>1. Len(past') \in Nat /\ Len(future') = 0
      BY <1>4, <1>6, LenProperties DEF StackFits
    <3> QED
      BY <3>1
  <2> QED
    BY <1>4, <1>6, <2>1, <2>2 DEF UndoOK
<1>8. FileOK' /\ CleanOK'
  BY <1>4 DEF FileOK, CleanOK
<1> QED
  BY <1>5, <1>7, <1>8

(* A command that ends every chain, whatever happened to the text and the  *)
(* ring.                                                                   *)
LEMMA InterveneStep ==
    ASSUME YankOK, Intervene, UNCHANGED yankVars
    PROVE  FlagsOK' /\ KillOK' /\ YankOK'
<1>1. <<>> \in Texts
  BY DEF Texts
<1> QED
  BY <1>1 DEF Intervene, yankVars, FlagsOK, KillOK, YankOK

(* Point and mark go to positions of the text.                             *)
LEMMA PlaceStep ==
    ASSUME EditInv, NEW p \in 0..Len(text), NEW m \in Marks(Len(text)), Place(p, m)
    PROVE  /\ ValueOK' /\ UndoOK' /\ FileOK' /\ CleanOK'
           /\ FlagsOK' /\ KillOK' /\ YankOK'
<1>1. FlagsOK' /\ KillOK' /\ YankOK'
  BY InterveneStep DEF EditInv, Place
<1>2. ValueOK'
  BY DEF EditInv, Place, ValueOK
<1>3. UndoOK'
  BY DEF EditInv, Place, UndoOK, undoVars
<1>4. FileOK' /\ CleanOK'
  BY DEF EditInv, Place, FileOK, CleanOK, fileVars
<1> QED
  BY <1>1, <1>2, <1>3, <1>4

(* The ring with a new head.                                               *)
LEMMA RingPushFacts ==
    ASSUME NEW ring \in Seq(Texts), NEW entry \in Texts
    PROVE  /\ RingPush(ring, entry) \in Seq(Texts)
           /\ Len(RingPush(ring, entry)) <= KILL_RING_CAPACITY
           /\ RingPush(ring, entry) # <<>> /\ RingPush(ring, entry)[1] = entry
<1> DEFINE c == Cons(entry, ring)
           n == Min({Len(ring) + 1, KILL_RING_CAPACITY})
           r == Slice(c, 0, n)
<1>0. Len(ring) \in Nat /\ KILL_RING_CAPACITY \in Nat \ {0}
  BY LenProperties, EditAssumption
<1>1. c \in Seq(Texts) /\ Len(c) = Len(ring) + 1 /\ c[1] = entry
  BY ConcatProperties DEF Cons
<1>2. n \in 1..(Len(ring) + 1) /\ n <= KILL_RING_CAPACITY
  <2> DEFINE k == Len(ring) + 1
  <2>1. k \in Int /\ KILL_RING_CAPACITY \in Int /\ k >= 1
    BY <1>0
  <2> HIDE DEF k
  <2>2. Min({k, KILL_RING_CAPACITY}) = IF k <= KILL_RING_CAPACITY THEN k
                                       ELSE KILL_RING_CAPACITY
    BY <2>1, MinMaxPair
  <2> QED
    BY <1>0, <2>1, <2>2 DEF k
<1> HIDE DEF c, n
<1>3. r \in Seq(Texts) /\ Len(r) = n /\ r[1] = c[1]
  <2>1. 0 \in Nat /\ n \in 0..Len(c) /\ n - 0 = n /\ 1 \in 1..n /\ 0 + 1 = 1
    BY <1>0, <1>1, <1>2
  <2>2. /\ r \in Seq(Texts) /\ Len(r) = n - 0
        /\ \A i \in 1..(n - 0) : r[i] = c[0 + i]
    BY <1>1, <2>1, SliceFacts
  <2> HIDE DEF r
  <2> QED
    BY <2>1, <2>2
<1> HIDE DEF r
<1>4. r # <<>>
  BY <1>2, <1>3, EmptySeq
<1>5. RingPush(ring, entry) = r
  BY DEF RingPush, r, c, n
<1> QED
  BY <1>1, <1>2, <1>3, <1>4, <1>5

(* The bound on commands.                                                  *)
LEMMA CountedStep ==
    ASSUME EditInv, Counted
    PROVE  (commands \in 0..MaxCommands)'
BY EditAssumption DEF EditInv, Counted, CommandBound

-----------------------------------------------------------------------------
(* One lemma for each command.                                             *)

(* Lengths and positions of a state that satisfies the invariant.          *)
LEMMA Positions ==
    ASSUME EditInv
    PROVE  /\ text \in Texts /\ Len(text) \in Nat
           /\ point \in Nat /\ point <= Len(text) /\ point \in Int
           /\ mark = NoMark \/ (mark \in Nat /\ mark \in Int /\ mark <= Len(text))
           /\ mark \in Marks(Len(text))
           /\ killRing \in Seq(Texts) /\ Len(killRing) \in Nat
           /\ \A i \in 1..Len(killRing) : killRing[i] \in Texts
<1>1. text \in Texts /\ point \in 0..Len(text) /\ mark \in Marks(Len(text))
  BY DEF EditInv, ValueOK
<1>2. Len(text) \in Nat
  BY <1>1, LenProperties DEF Texts
<1>3. killRing \in Seq(Texts)
  BY DEF EditInv, RingOK
<1> QED
  BY <1>1, <1>2, <1>3, LenProperties, ElementOfSeq DEF Marks

(* Nothing changed.                                                        *)
LEMMA StutterStep ==
    ASSUME EditInv, UNCHANGED vars
    PROVE  EditInv'
<1>1. /\ UNCHANGED <<text, point, mark, modified>>
      /\ UNCHANGED <<undoDescending, lastWasKill, yankActive>>
      /\ UNCHANGED <<yankCursor, yankBounds>>
      /\ UNCHANGED <<undoHistory, undoRedo, past, future>>
      /\ UNCHANGED <<kind, visits, saved, eol, disk>>
      /\ UNCHANGED <<lastUndo, run>>
      /\ UNCHANGED <<killRing, commands>>
  BY DEF vars, valueVars, chainVars, yankVars, undoVars, fileVars, historyVars
<1>2. ValueOK' /\ UndoOK' /\ FileOK' /\ CleanOK' /\ RingOK'
  BY <1>1 DEF EditInv, ValueOK, UndoOK, FileOK, CleanOK, RingOK
<1>3. FlagsOK' /\ KillOK' /\ YankOK'
  BY <1>1 DEF EditInv, FlagsOK, KillOK, YankOK
<1> QED
  BY <1>1, <1>2, <1>3 DEF EditInv

(* Typing and pasting.                                                     *)
LEMMA InsertTextStep ==
    ASSUME EditInv, NEW t \in InsertTexts, InsertText(t)
    PROVE  EditInv'
<1> DEFINE p == point + Len(t)
           m == AdjustMarkInsert(mark, point, Len(t))
<1>0. t \in Texts /\ Len(t) \in Nat
  BY EditAssumption, LenProperties DEF Texts
<1>1. point \in point..Len(text) /\ point \in Nat /\ Len(text) \in Nat
      /\ mark \in Marks(Len(text))
  BY Positions
<1>2. m \in Marks(Len(text) + Len(t))
  BY <1>0, <1>1, AdjustMarkFacts
<1>3. point + Len(t) + (Len(text) - point) = Len(text) + Len(t)
  BY <1>0, <1>1
<1>4. p \in 0..(point + Len(t) + (Len(text) - point))
  BY <1>0, <1>1
<1> HIDE DEF p, m
<1>5. m \in Marks(point + Len(t) + (Len(text) - point))
  BY <1>2, <1>3
<1>6. Change(point, point, t, p, m)
  BY DEF InsertText, p, m
<1>7. ValueOK' /\ UndoOK' /\ FileOK' /\ CleanOK'
  BY <1>0, <1>1, <1>4, <1>5, <1>6, ChangeStep DEF EditInv
<1>8. FlagsOK' /\ KillOK' /\ YankOK'
  BY InterveneStep DEF EditInv, InsertText
<1>9. RingOK' /\ (commands \in 0..MaxCommands)'
  BY CountedStep DEF EditInv, InsertText, RingOK
<1> QED
  BY <1>7, <1>8, <1>9 DEF EditInv

(* Point and mark move and the ring stays.                                 *)
LEMMA MotionStep ==
    ASSUME EditInv, NEW p \in 0..Len(text), NEW m \in Marks(Len(text)),
           Place(p, m), UNCHANGED killRing, (commands \in 0..MaxCommands)'
    PROVE  EditInv'
BY PlaceStep DEF EditInv, RingOK

(* The motion commands.                                                    *)
LEMMA MotionsStep ==
    ASSUME EditInv,
           \/ ForwardChar \/ BackwardChar \/ SetMark
           \/ KeyboardQuit \/ ExchangePointAndMark
    PROVE  EditInv'
<1>0. /\ Len(text) \in Nat /\ point \in Nat /\ point <= Len(text)
      /\ mark \in Marks(Len(text)) /\ point \in 0..Len(text)
      /\ mark = NoMark \/ mark \in 0..Len(text)
      /\ point \in Marks(Len(text)) /\ NoMark \in Marks(Len(text))
  BY Positions DEF Marks
<1>1. CASE ForwardChar
  <2> DEFINE p == Min({point + 1, Len(text)})
  <2>1. p \in 0..Len(text)
    <3>1. p = IF point + 1 <= Len(text) THEN point + 1 ELSE Len(text)
      <4> DEFINE q == point + 1
      <4>1. q \in Int /\ Len(text) \in Int
        BY <1>0
      <4> HIDE DEF q
      <4>2. Min({q, Len(text)}) = IF q <= Len(text) THEN q ELSE Len(text)
        BY <4>1, MinMaxPair
      <4> QED
        BY <4>2 DEF q
    <3> QED
      BY <1>0, <3>1
  <2>2. Place(p, mark) /\ UNCHANGED killRing /\ Counted
    BY <1>1 DEF ForwardChar
  <2> HIDE DEF p
  <2> QED
    BY <1>0, <2>1, <2>2, CountedStep, MotionStep
<1>2. CASE BackwardChar
  <2> DEFINE p == Max({point - 1, 0})
  <2>1. p \in 0..Len(text)
    <3>1. p = IF point - 1 <= 0 THEN 0 ELSE point - 1
      <4> DEFINE q == point - 1
      <4>1. q \in Int /\ 0 \in Int
        BY <1>0
      <4> HIDE DEF q
      <4>2. Max({q, 0}) = IF q <= 0 THEN 0 ELSE q
        BY <4>1, MinMaxPair
      <4> QED
        BY <4>2 DEF q
    <3> QED
      BY <1>0, <3>1
  <2>2. Place(p, mark) /\ UNCHANGED killRing /\ Counted
    BY <1>2 DEF BackwardChar
  <2> HIDE DEF p
  <2> QED
    BY <1>0, <2>1, <2>2, CountedStep, MotionStep
<1>3. CASE SetMark
  BY <1>0, <1>3, CountedStep, MotionStep DEF SetMark
<1>4. CASE KeyboardQuit
  <2>1. (commands \in 0..MaxCommands)'
    BY <1>4 DEF KeyboardQuit, EditInv
  <2> QED
    BY <1>0, <1>4, <2>1, MotionStep DEF KeyboardQuit
<1>5. CASE ExchangePointAndMark
  <2>1. CASE mark = NoMark /\ DoesNothing
    BY <2>1, StutterStep DEF DoesNothing
  <2>2. CASE mark # NoMark /\ Counted /\ Place(mark, point) /\ UNCHANGED killRing
    BY <1>0, <2>2, CountedStep, MotionStep
  <2> QED
    BY <1>5, <2>1, <2>2 DEF ExchangePointAndMark
<1> QED
  BY <1>1, <1>2, <1>3, <1>4, <1>5

(* kill-line stops behind point and inside the text.                       *)
LEMMA LineEndFacts ==
    ASSUME EditInv, point < Len(text)
    PROVE  LineEnd \in Nat /\ point < LineEnd /\ LineEnd <= Len(text)
<1> DEFINE T == {i \in point..Len(text) : i = Len(text) \/ text[i + 1] = NewLine}
<1>0. Len(text) \in Nat /\ point \in Nat
  BY Positions
<1>1. T \in SUBSET Nat /\ T # {}
  <2>1. Len(text) \in T
    BY <1>0
  <2> QED
    BY <1>0, <2>1
<1>2. T \subseteq point..Len(text)
  OBVIOUS
<1>3. LineEnd = IF Min(T) = point THEN point + 1 ELSE Min(T)
  BY DEF LineEnd
<1> HIDE DEF T
<1>4. Min(T) \in T
  BY <1>1, MinOf
<1> QED
  BY <1>0, <1>2, <1>3, <1>4

(* The characters of a region, as kill-region and copy see them.           *)
LEMMA RegionFacts ==
    ASSUME EditInv, ~NoRegion
    PROVE  /\ Min({point, mark}) \in Nat
           /\ Max({point, mark}) \in Min({point, mark})..Len(text)
           /\ Region \in Texts
<1>0. /\ text \in Texts /\ Len(text) \in Nat /\ point \in Nat /\ point <= Len(text)
      /\ mark \in Nat /\ mark <= Len(text) /\ point \in Int /\ mark \in Int
  BY Positions DEF NoRegion
<1>1. /\ Min({point, mark}) = IF point <= mark THEN point ELSE mark
      /\ Max({point, mark}) = IF point <= mark THEN mark ELSE point
  BY <1>0, MinMaxPair
<1> DEFINE lo == Min({point, mark})
           hi == Max({point, mark})
<1>2. lo \in Nat /\ hi \in lo..Len(text)
  BY <1>0, <1>1
<1> HIDE DEF lo, hi
<1>3. Slice(text, lo, hi) \in Texts
  BY <1>0, <1>2, SliceFacts DEF Texts
<1> QED
  BY <1>2, <1>3 DEF Region, lo, hi

(* kill-line: a fresh entry, or more of the one the last kill made.        *)
LEMMA KillLineStep ==
    ASSUME EditInv, KillLine
    PROVE  EditInv'
<1>1. CASE point = Len(text) /\ DoesNothing
  BY <1>1, StutterStep DEF DoesNothing
<1>2. CASE ~(point = Len(text) /\ DoesNothing)
  <2> DEFINE end == LineEnd
             killed == Slice(text, point, end)
             m == AdjustMarkDelete(mark, point, end)
  <2>0. /\ point < Len(text) /\ Counted
        /\ Change(point, end, <<>>, point, m)
        /\ killRing' = RingAfterKillLine(killed)
        /\ lastWasKill' = TRUE /\ yankActive' = FALSE /\ undoDescending' = FALSE
        /\ lastUndo' = FALSE /\ run' = run \o killed
        /\ UNCHANGED yankVars
    BY <1>2 DEF KillLine
  <2>1. /\ text \in Texts /\ Len(text) \in Nat /\ point \in Nat
        /\ mark \in Marks(Len(text)) /\ killRing \in Seq(Texts) /\ Len(killRing) \in Nat
    BY Positions
  <2>2. end \in Nat /\ point < end /\ end <= Len(text)
    BY <2>0, LineEndFacts
  <2> HIDE DEF end
  <2>3. end \in point..Len(text) /\ 0 \in Nat
    BY <2>1, <2>2
  <2>4. killed \in Texts
    BY <2>1, <2>3, SliceFacts DEF Texts
  <2>5. m \in Marks(Len(text) - (end - point))
    BY <2>1, <2>3, AdjustMarkFacts
  <2> HIDE DEF killed, m
  <2>6. <<>> \in Texts /\ Len(<<>>) = 0
    BY DEF Texts
  <2>7. /\ point + Len(<<>>) + (Len(text) - end) = Len(text) - (end - point)
        /\ point \in 0..(point + Len(<<>>) + (Len(text) - end))
    BY <2>1, <2>2, <2>6
  <2>8. ValueOK' /\ UndoOK' /\ FileOK' /\ CleanOK'
    <3>1. m \in Marks(point + Len(<<>>) + (Len(text) - end))
      BY <2>5, <2>7
    <3> QED
      BY <2>0, <2>1, <2>3, <2>6, <2>7, <3>1, ChangeStep DEF EditInv
  <2>9. run \in Texts /\ run \o killed \in Texts
    BY <2>4, ConcatProperties DEF EditInv, FlagsOK, Texts
  <2>10. /\ killRing' \in Seq(Texts) /\ Len(killRing') <= KILL_RING_CAPACITY
         /\ killRing' # <<>> /\ killRing'[1] = run'
    <3>1. CASE lastWasKill /\ killRing # <<>>
      <4> DEFINE r == [killRing EXCEPT ![1] = killRing[1] \o killed]
      <4>1. killRing[1] = run
        BY <3>1 DEF EditInv, KillOK
      <4>2. 1 \in 1..Len(killRing) /\ Len(killRing) # 0
        BY <2>1, <3>1, EmptySeq
      <4>3. r \in Seq(Texts) /\ Len(r) = Len(killRing) /\ r[1] = run \o killed
        BY <2>1, <2>9, <4>1, <4>2, ExceptSeq
      <4>4. killRing' = r
        BY <2>0, <3>1 DEF RingAfterKillLine
      <4> HIDE DEF r
      <4>5. r # <<>>
        BY <4>2, <4>3, EmptySeq
      <4> QED
        BY <2>0, <4>3, <4>4, <4>5 DEF EditInv, RingOK
    <3>2. CASE ~(lastWasKill /\ killRing # <<>>)
      <4>1. killRing' = RingPush(killRing, killed)
        BY <2>0, <3>2 DEF RingAfterKillLine
      <4>2. run = <<>>
        BY <3>2 DEF EditInv, KillOK
      <4>3. run' = killed
        BY <2>0, <2>4, <4>2, ConcatEmptySeq DEF Texts
      <4> QED
        BY <2>1, <2>4, <4>1, <4>3, RingPushFacts
    <3> QED
      BY <3>1, <3>2
  <2>11. RingOK' /\ FlagsOK' /\ KillOK' /\ YankOK'
    BY <2>0, <2>9, <2>10 DEF EditInv, RingOK, FlagsOK, KillOK, YankOK, yankVars
  <2>12. (commands \in 0..MaxCommands)'
    BY <2>0, CountedStep
  <2> QED
    BY <2>8, <2>11, <2>12 DEF EditInv
<1> QED
  BY <1>1, <1>2

(* kill-region.                                                            *)
LEMMA KillRegionStep ==
    ASSUME EditInv, KillRegion
    PROVE  EditInv'
<1>1. CASE NoRegion /\ DoesNothing
  BY <1>1, StutterStep DEF DoesNothing
<1>2. CASE ~(NoRegion /\ DoesNothing)
  <2> DEFINE lo == Min({point, mark})
             hi == Max({point, mark})
  <2>0. /\ ~NoRegion /\ Counted
        /\ Change(lo, hi, <<>>, lo, NoMark)
        /\ killRing' = RingPush(killRing, Region)
        /\ Intervene /\ UNCHANGED yankVars
    BY <1>2 DEF KillRegion
  <2>1. Len(text) \in Nat /\ killRing \in Seq(Texts)
    BY Positions
  <2>2. lo \in Nat /\ hi \in lo..Len(text) /\ Region \in Texts
    BY <2>0, RegionFacts
  <2> HIDE DEF lo, hi
  <2>3. <<>> \in Texts /\ Len(<<>>) = 0
    BY DEF Texts
  <2>4. /\ lo \in 0..(lo + Len(<<>>) + (Len(text) - hi))
        /\ NoMark \in Marks(lo + Len(<<>>) + (Len(text) - hi))
    BY <2>1, <2>2, <2>3 DEF Marks
  <2>5. ValueOK' /\ UndoOK' /\ FileOK' /\ CleanOK'
    BY <2>0, <2>2, <2>3, <2>4, ChangeStep DEF EditInv
  <2>6. FlagsOK' /\ KillOK' /\ YankOK'
    BY <2>0, InterveneStep DEF EditInv
  <2>7. RingOK' /\ (commands \in 0..MaxCommands)'
    BY <2>0, <2>1, <2>2, RingPushFacts, CountedStep DEF RingOK
  <2> QED
    BY <2>5, <2>6, <2>7 DEF EditInv
<1> QED
  BY <1>1, <1>2

(* copy-region-as-kill.                                                    *)
LEMMA CopyRegionStep ==
    ASSUME EditInv, CopyRegionAsKill
    PROVE  EditInv'
<1>1. CASE NoRegion /\ DoesNothing
  BY <1>1, StutterStep DEF DoesNothing
<1>2. CASE ~(NoRegion /\ DoesNothing)
  <2>0. /\ ~NoRegion /\ Counted /\ Place(point, NoMark)
        /\ killRing' = RingPush(killRing, Region)
    BY <1>2 DEF CopyRegionAsKill
  <2>1. point \in 0..Len(text) /\ NoMark \in Marks(Len(text)) /\ killRing \in Seq(Texts)
    BY Positions DEF Marks
  <2>2. Region \in Texts
    BY <2>0, RegionFacts
  <2>3. /\ ValueOK' /\ UndoOK' /\ FileOK' /\ CleanOK'
        /\ FlagsOK' /\ KillOK' /\ YankOK'
    BY <2>0, <2>1, PlaceStep
  <2>4. RingOK' /\ (commands \in 0..MaxCommands)'
    BY <2>0, <2>1, <2>2, RingPushFacts, CountedStep DEF RingOK
  <2> QED
    BY <2>3, <2>4 DEF EditInv
<1> QED
  BY <1>1, <1>2

(* Another buffer had the focus.                                           *)
LEMMA LeaveAndReturnStep ==
    ASSUME EditInv, LeaveAndReturn
    PROVE  EditInv'
<1>1. PICK p \in 0..Len(text), m \in Marks(Len(text)) :
         /\ Counted /\ Place(p, m)
         /\ \/ UNCHANGED killRing
            \/ \E t \in OtherTexts : killRing' = RingPush(killRing, t)
  BY DEF LeaveAndReturn, Marks
<1>2. killRing \in Seq(Texts)
  BY Positions
<1>3. /\ ValueOK' /\ UndoOK' /\ FileOK' /\ CleanOK'
      /\ FlagsOK' /\ KillOK' /\ YankOK'
  BY <1>1, <1>2, PlaceStep
<1>4. RingOK'
  <2>1. OtherTexts \subseteq Texts
    BY EditAssumption DEF Texts
  <2> QED
    BY <1>1, <1>2, <2>1, RingPushFacts DEF EditInv, RingOK
<1> QED
  BY <1>1, <1>3, <1>4, CountedStep DEF EditInv

(* What remains of the invariant when a yank can no longer be popped.      *)
LEMMA YankRefused ==
    ASSUME EditInv, yankActive' = FALSE,
           UNCHANGED <<valueVars, undoDescending, lastWasKill, yankVars, undoVars,
                       fileVars, historyVars, killRing, commands>>
    PROVE  EditInv'
<1>1. /\ UNCHANGED <<text, point, mark, modified>>
      /\ UNCHANGED <<undoDescending, lastWasKill>>
      /\ UNCHANGED <<yankCursor, yankBounds>>
      /\ UNCHANGED <<undoHistory, undoRedo, past, future>>
      /\ UNCHANGED <<kind, visits, saved, eol, disk>>
      /\ UNCHANGED <<lastUndo, run>>
      /\ UNCHANGED <<killRing, commands>>
  BY DEF valueVars, yankVars, undoVars, fileVars, historyVars
<1>2. ValueOK' /\ UndoOK' /\ FileOK' /\ CleanOK' /\ RingOK'
  BY <1>1 DEF EditInv, ValueOK, UndoOK, FileOK, CleanOK, RingOK
<1>3. FlagsOK'
  <2>1. yankActive' \in BOOLEAN
    OBVIOUS
  <2>2. /\ undoDescending \in BOOLEAN /\ lastWasKill \in BOOLEAN
        /\ lastUndo \in BOOLEAN /\ run \in Texts
        /\ lastUndo => undoDescending
    BY DEF EditInv, FlagsOK
  <2>3. /\ undoDescending' = undoDescending /\ lastWasKill' = lastWasKill
        /\ lastUndo' = lastUndo /\ run' = run
    BY <1>1
  <2>4. lastUndo' => undoDescending'
    BY <2>2, <2>3
  <2>5. /\ undoDescending' \in BOOLEAN /\ lastWasKill' \in BOOLEAN
        /\ lastUndo' \in BOOLEAN /\ run' \in Texts
    BY <2>2, <2>3, Zenon
  <2> QED
    BY <2>1, <2>4, <2>5, Zenon DEF FlagsOK
<1>4. KillOK'
  BY <1>1 DEF EditInv, KillOK
<1>5. YankOK'
  BY <1>1 DEF EditInv, YankOK
<1> QED
  BY <1>1, <1>2, <1>3, <1>4, <1>5 DEF EditInv

(* A yank or a pop: new text lies between the bounds it remembers.         *)
LEMMA YankedStep ==
    ASSUME EditInv,
           NEW lo \in Nat, NEW hi \in lo..Len(text), NEW m,
           NEW c \in Nat, c < Len(killRing),
           m \in Marks(lo + Len(killRing[c + 1]) + (Len(text) - hi)),
           Counted,
           Change(lo, hi, killRing[c + 1], lo + Len(killRing[c + 1]), m),
           yankCursor' = c, yankBounds' = <<lo, lo + Len(killRing[c + 1])>>,
           yankActive' = TRUE, lastWasKill' = FALSE, undoDescending' = FALSE,
           lastUndo' = FALSE, run' = <<>>, UNCHANGED killRing
    PROVE  EditInv'
<1> DEFINE new == killRing[c + 1]
           p == lo + Len(new)
<1>0. /\ text \in Texts /\ Len(text) \in Nat /\ killRing \in Seq(Texts)
      /\ Len(killRing) \in Nat /\ \A i \in 1..Len(killRing) : killRing[i] \in Texts
  BY Positions
<1>1. new \in Texts /\ Len(new) \in Nat
  <2>1. c + 1 \in 1..Len(killRing)
    BY <1>0
  <2>2. new \in Texts
    BY <1>0, <2>1
  <2> HIDE DEF new
  <2> QED
    BY <2>2, LenProperties DEF Texts
<1>2. /\ m \in Marks(lo + Len(new) + (Len(text) - hi)) /\ Change(lo, hi, new, p, m)
      /\ yankBounds' = <<lo, p>> /\ killRing'[c + 1] = new
  OBVIOUS
<1> HIDE DEF new
<1>3. p \in 0..(lo + Len(new) + (Len(text) - hi)) /\ p \in Nat /\ lo <= p
  BY <1>0, <1>1
<1> HIDE DEF p
<1>4. ValueOK' /\ UndoOK' /\ FileOK' /\ CleanOK'
  BY <1>1, <1>2, <1>3, ChangeStep DEF EditInv
<1>5. text' = Splice(text, lo, hi, new)
  BY <1>2 DEF Change
<1>6. p <= Len(text') /\ Slice(text', lo, p) = new
  BY <1>0, <1>1, <1>5, SliceOfSplice DEF Texts, p
<1>7. YankOK'
  BY <1>2, <1>3, <1>6 DEF YankOK
<1>8. FlagsOK'
  <2>1. <<>> \in Texts
    BY DEF Texts
  <2> QED
    BY <2>1 DEF FlagsOK
<1>9. KillOK' /\ RingOK'
  BY DEF EditInv, KillOK, RingOK
<1> QED
  BY <1>4, <1>7, <1>8, <1>9, CountedStep DEF EditInv

(* yank.                                                                   *)
LEMMA YankStep ==
    ASSUME EditInv, Yank
    PROVE  EditInv'
<1>1. CASE killRing = <<>>
  <2>1. /\ yankActive' = FALSE
        /\ UNCHANGED <<valueVars, undoDescending, lastWasKill, yankVars, undoVars,
                       fileVars, historyVars, killRing, commands>>
    BY <1>1 DEF Yank
  <2> QED
    BY <2>1, YankRefused
<1>2. CASE killRing # <<>>
  <2> DEFINE n == Len(killRing[0 + 1])
             m == AdjustMarkInsert(mark, point, n)
  <2>1. /\ Len(text) \in Nat /\ point \in Nat /\ point \in point..Len(text)
        /\ mark \in Marks(Len(text)) /\ killRing \in Seq(Texts)
        /\ Len(killRing) \in Nat /\ \A i \in 1..Len(killRing) : killRing[i] \in Texts
    BY Positions
  <2>2. 0 \in Nat /\ 0 < Len(killRing) /\ 0 + 1 \in 1..Len(killRing) /\ 0 + 1 = 1
    BY <1>2, <2>1, EmptySeq
  <2>3. n \in Nat
    BY <2>1, <2>2, LenProperties DEF Texts
  <2>4. /\ Counted /\ Change(point, point, killRing[0 + 1], point + n, m)
        /\ yankCursor' = 0 /\ yankBounds' = <<point, point + n>>
        /\ yankActive' = TRUE /\ lastWasKill' = FALSE /\ undoDescending' = FALSE
        /\ lastUndo' = FALSE /\ run' = <<>> /\ UNCHANGED killRing
    BY <1>2, <2>2 DEF Yank
  <2>5. m \in Marks(point + n + (Len(text) - point))
    <3> HIDE DEF n
    <3>1. AdjustMarkInsert(mark, point, n) \in Marks(Len(text) + n)
      BY <2>1, <2>3, AdjustMarkFacts
    <3>2. point + n + (Len(text) - point) = Len(text) + n
      BY <2>1, <2>3
    <3> QED
      BY <3>1, <3>2
  <2> HIDE DEF m
  <2> QED
    BY <2>1, <2>2, <2>4, <2>5, YankedStep
<1> QED
  BY <1>1, <1>2

(* yank-pop.                                                               *)
LEMMA YankPopStep ==
    ASSUME EditInv, YankPop
    PROVE  EditInv'
<1>1. CASE ~yankActive \/ Len(killRing) < 2
  <2>1. /\ yankActive' = FALSE
        /\ UNCHANGED <<valueVars, undoDescending, lastWasKill, yankVars, undoVars,
                       fileVars, historyVars, killRing, commands>>
    <3>1. ~(yankActive /\ Len(killRing) >= 2)
      BY <1>1, Positions
    <3> QED
      BY <3>1 DEF YankPop
  <2> QED
    BY <2>1, YankRefused
<1>2. CASE yankActive /\ ~(Len(killRing) < 2)
  <2> DEFINE lo == yankBounds[1]
             hi == yankBounds[2]
             c == (yankCursor + 1) % Len(killRing)
             n == Len(killRing[c + 1])
             d == AdjustMarkDelete(mark, lo, hi)
             m == AdjustMarkInsert(d, lo, n)
  <2>1. /\ Len(text) \in Nat /\ mark \in Marks(Len(text)) /\ killRing \in Seq(Texts)
        /\ Len(killRing) \in Nat /\ \A i \in 1..Len(killRing) : killRing[i] \in Texts
    BY Positions
  <2>2. /\ Counted /\ Change(lo, hi, killRing[c + 1], lo + n, m)
        /\ yankCursor' = c /\ yankBounds' = <<lo, lo + n>>
        /\ lastWasKill' = FALSE /\ undoDescending' = FALSE
        /\ lastUndo' = FALSE /\ run' = <<>> /\ UNCHANGED <<yankActive, killRing>>
    BY <1>2 DEF YankPop
  <2>3. /\ lo \in Nat /\ hi \in Nat /\ lo <= hi /\ hi <= Len(text)
        /\ yankCursor \in Nat /\ yankActive' = TRUE
    BY <1>2, <2>2 DEF EditInv, YankOK, FlagsOK
  <2>4. c \in Nat /\ c < Len(killRing) /\ c + 1 \in 1..Len(killRing)
    BY <1>2, <2>1, <2>3
  <2> HIDE DEF c, lo, hi
  <2>5. n \in Nat
    BY <2>1, <2>4, LenProperties DEF Texts
  <2>6. d \in Marks(Len(text) - (hi - lo)) /\ hi \in lo..Len(text)
    BY <2>1, <2>3, AdjustMarkFacts
  <2>7. m \in Marks(lo + n + (Len(text) - hi))
    <3> DEFINE k == Len(text) - (hi - lo)
    <3> HIDE DEF n, d
    <3>1. k \in Nat /\ lo \in lo..k /\ k + n = lo + n + (Len(text) - hi)
      BY <2>1, <2>3, <2>5
    <3>2. d \in Marks(k)
      BY <2>6
    <3> HIDE DEF k
    <3>3. m \in Marks(k + n)
      BY <2>3, <2>5, <3>1, <3>2, AdjustMarkFacts
    <3> QED
      BY <3>1, <3>3
  <2> HIDE DEF m
  <2> QED
    BY <2>2, <2>3, <2>4, <2>6, <2>7, YankedStep
<1> QED
  BY <1>1, <1>2

(* The end of an undo or a redo that moved the buffer to text t.           *)
LEMMA MovedStep ==
    ASSUME EditInv, NEW t \in Texts, NEW p \in 0..Len(t), NEW m \in Marks(Len(t)),
           Moved(t, p, m)
    PROVE  /\ text' = t /\ ValueOK' /\ FileOK' /\ CleanOK' /\ RingOK'
           /\ FlagsOK' /\ KillOK' /\ YankOK'
           /\ (commands \in 0..MaxCommands)'
<1>1. /\ text' = t /\ point' = p /\ mark' = m
      /\ modified' = ModifiedAfterUndo(t)
      /\ undoDescending' = TRUE /\ lastWasKill' = FALSE /\ yankActive' = FALSE
      /\ lastUndo' = TRUE /\ run' = <<>>
      /\ yankCursor' = yankCursor /\ yankBounds' = yankBounds
      /\ kind' = kind /\ visits' = visits /\ saved' = saved /\ eol' = eol
      /\ disk' = disk
      /\ killRing' = killRing /\ commands' = commands
  BY DEF Moved, yankVars, fileVars
<1>2. modified' \in BOOLEAN /\ (~modified' => t = saved)
  BY <1>1 DEF ModifiedAfterUndo
<1>3. ValueOK'
  BY <1>1, <1>2 DEF ValueOK
<1>4. FileOK' /\ CleanOK' /\ RingOK'
  BY <1>1, <1>2 DEF EditInv, FileOK, CleanOK, RingOK
<1>5. FlagsOK'
  <2>1. <<>> \in Texts
    BY DEF Texts
  <2> QED
    BY <1>1, <2>1 DEF FlagsOK
<1>6. KillOK' /\ YankOK'
  BY <1>1 DEF EditInv, KillOK, YankOK
<1> QED
  BY <1>1, <1>3, <1>4, <1>5, <1>6 DEF EditInv

(* undo, in either direction: the group moves from one stack to the other. *)
LEMMA UndoStep ==
    ASSUME EditInv, Undo
    PROVE  EditInv'
<1>0. /\ StackFits(TRUE, undoHistory, past, text)
      /\ StackFits(FALSE, undoRedo, future, text)
      /\ Len(past) + Len(future) <= UNDO_CAPACITY
      /\ text \in Texts /\ Len(past) \in Nat /\ Len(future) \in Nat
  BY LenProperties DEF EditInv, UndoOK, ValueOK, StackFits
<1>1. CASE NothingToUndo
  BY <1>1, StutterStep DEF NothingToUndo, DoesNothing
<1>2. CASE undoHistory # <<>> /\ Descend
  <2> DEFINE g == Last(undoHistory)
             u == Last(past)
  <2>1. /\ Leads(TRUE, g, u, text) /\ g \in Group /\ u \in Texts
        /\ StackFits(TRUE, Front(undoHistory), Front(past), u)
        /\ Len(Front(past)) = Len(past) - 1 /\ Len(past) \in Nat \ {0}
    BY <1>0, <1>2, StackPop
  <2>2. /\ Moved(Undone(text, g), g.pointBefore, g.markBefore)
        /\ undoHistory' = Front(undoHistory) /\ undoRedo' = Append(undoRedo, g)
        /\ past' = Front(past) /\ future' = Append(future, text)
    BY <1>2 DEF Descend
  <2> HIDE DEF g, u
  <2>3. /\ Undone(text, g) = u /\ g.pointBefore \in 0..Len(u)
        /\ g.markBefore \in Marks(Len(u)) /\ Leads(FALSE, g, text, u)
    BY <2>1 DEF Leads, Fits
  <2>4. /\ text' = u /\ ValueOK' /\ FileOK' /\ CleanOK' /\ RingOK'
        /\ FlagsOK' /\ KillOK' /\ YankOK' /\ (commands \in 0..MaxCommands)'
    <3>1. Moved(u, g.pointBefore, g.markBefore)
      BY <2>2, <2>3
    <3> QED
      BY <2>1, <2>3, <3>1, MovedStep
  <2>5. StackFits(FALSE, Append(undoRedo, g), Append(future, text), u)
    BY <1>0, <2>1, <2>3, StackAppend
  <2>6. Len(Append(future, text)) = Len(future) + 1
    BY <1>0, AppendProperties DEF StackFits
  <2>7. UndoOK'
    <3>1. Len(past') = Len(past) - 1 /\ Len(future') = Len(future) + 1
      BY <2>1, <2>2, <2>6
    <3>2. Len(past) \in Nat /\ Len(future) \in Nat
      BY <1>0, LenProperties DEF StackFits
    <3>3. Len(past') + Len(future') <= UNDO_CAPACITY
      BY <1>0, <3>1, <3>2
    <3>4. /\ StackFits(TRUE, undoHistory', past', text')
          /\ StackFits(FALSE, undoRedo', future', text')
      BY <2>1, <2>2, <2>4, <2>5
    <3> QED
      BY <3>3, <3>4 DEF UndoOK
  <2> QED
    BY <2>4, <2>7 DEF EditInv
<1>3. CASE undoRedo # <<>> /\ Ascend
  <2> DEFINE g == Last(undoRedo)
             u == Last(future)
  <2>1. /\ Leads(FALSE, g, u, text) /\ g \in Group /\ u \in Texts
        /\ StackFits(FALSE, Front(undoRedo), Front(future), u)
        /\ Len(Front(future)) = Len(future) - 1 /\ Len(future) \in Nat \ {0}
    BY <1>0, <1>3, StackPop
  <2>2. /\ Moved(Redone(text, g), g.pointAfter, g.markAfter)
        /\ undoRedo' = Front(undoRedo) /\ undoHistory' = Append(undoHistory, g)
        /\ past' = Append(past, text) /\ future' = Front(future)
    BY <1>3 DEF Ascend
  <2> HIDE DEF g, u
  <2>3. /\ Redone(text, g) = u /\ g.pointAfter \in 0..Len(u)
        /\ g.markAfter \in Marks(Len(u)) /\ Leads(TRUE, g, text, u)
    BY <2>1 DEF Leads, Fits
  <2>4. /\ text' = u /\ ValueOK' /\ FileOK' /\ CleanOK' /\ RingOK'
        /\ FlagsOK' /\ KillOK' /\ YankOK' /\ (commands \in 0..MaxCommands)'
    <3>1. Moved(u, g.pointAfter, g.markAfter)
      BY <2>2, <2>3
    <3> QED
      BY <2>1, <2>3, <3>1, MovedStep
  <2>5. StackFits(TRUE, Append(undoHistory, g), Append(past, text), u)
    BY <1>0, <2>1, <2>3, StackAppend
  <2>6. Len(Append(past, text)) = Len(past) + 1
    BY <1>0, AppendProperties DEF StackFits
  <2>7. UndoOK'
    <3>1. Len(past') + Len(future') = Len(past) + Len(future)
      <4>1. Len(past') = Len(past) + 1 /\ Len(future') = Len(future) - 1
        BY <2>1, <2>2, <2>6
      <4> QED
        BY <1>0, <4>1
    <3>2. Len(past') + Len(future') <= UNDO_CAPACITY
      BY <1>0, <3>1
    <3>3. /\ StackFits(TRUE, undoHistory', past', text')
          /\ StackFits(FALSE, undoRedo', future', text')
      BY <2>1, <2>2, <2>4, <2>5
    <3> QED
      BY <3>2, <3>3 DEF UndoOK
  <2> QED
    BY <2>4, <2>7 DEF EditInv
<1> QED
  BY <1>1, <1>2, <1>3 DEF Undo, Descends

(* save-buffer, whether the write works or fails.                          *)
LEMMA SaveBufferStep ==
    ASSUME EditInv, SaveBuffer
    PROVE  EditInv'
<1>0. /\ Intervene /\ UNCHANGED yankVars
      /\ UNCHANGED <<text, point, mark>> /\ UNCHANGED <<killRing, commands>>
      /\ UNCHANGED <<undoHistory, undoRedo, past, future>>
  BY DEF SaveBuffer, undoVars
<1>1. FlagsOK' /\ KillOK' /\ YankOK'
  BY <1>0, InterveneStep DEF EditInv
<1>2. UndoOK' /\ RingOK' /\ (commands \in 0..MaxCommands)'
  BY <1>0 DEF EditInv, UndoOK, RingOK
<1>3. CASE SaveSucceeds
  <2>1. ValueOK'
    BY <1>0, <1>3 DEF EditInv, ValueOK, SaveSucceeds
  <2>2. ToFileText(text, eol) \in Texts
    BY EditAssumption, ConversionTypes DEF EditInv, ValueOK, Texts
  <2>3. FileOK' /\ CleanOK'
    BY <1>0, <1>3, <2>2 DEF EditInv, ValueOK, FileOK, CleanOK, SaveSucceeds
  <2> QED
    BY <1>1, <1>2, <2>1, <2>3 DEF EditInv
<1>4. CASE SaveFails
  <2>1. ValueOK'
    BY <1>0, <1>4 DEF EditInv, ValueOK, SaveFails
  <2>2. /\ disk' \in Texts \cup {NoText, Damaged}
        /\ disk' \in {disk, Damaged}
    BY <1>4 DEF EditInv, FileOK, SaveFails
  <2>3. FileOK' /\ CleanOK'
    BY <1>0, <1>4, <2>2 DEF EditInv, FileOK, CleanOK, SaveFails
  <2> QED
    BY <1>1, <1>2, <2>1, <2>3 DEF EditInv
<1> QED
  BY <1>3, <1>4 DEF SaveBuffer

(* Agent output: every text of the timeline grows by it, no bound of a     *)
(* yank moves.                                                             *)
LEMMA AppendAgentTextStep ==
    ASSUME EditInv, NEW d \in OtherTexts, AppendAgentText(d)
    PROVE  EditInv'
<1>0. /\ text \in Texts /\ Len(text) \in Nat /\ point \in Nat /\ point <= Len(text)
      /\ mark \in Marks(Len(text))
  BY Positions
<1>1. d \in Texts /\ Len(d) \in Nat
  BY EditAssumption, LenProperties DEF Texts
<1>2. text \o d \in Texts /\ Len(text \o d) = Len(text) + Len(d)
  BY <1>0, <1>1, ConcatProperties DEF Texts
<1> DEFINE us == [i \in DOMAIN past |-> past[i] \o d]
           vs == [i \in DOMAIN future |-> future[i] \o d]
<1>3. /\ kind = "generated" /\ text' = text \o d
      /\ point' = (IF point = Len(text) THEN Len(text) + Len(d) ELSE point)
      /\ mark' = AdjustMarkInsert(mark, Len(text), Len(d))
      /\ past' = us /\ future' = vs
      /\ modified' = modified /\ undoHistory' = undoHistory /\ undoRedo' = undoRedo
      /\ UNCHANGED <<undoDescending, lastWasKill, yankActive>>
      /\ UNCHANGED <<yankCursor, yankBounds>>
      /\ UNCHANGED <<kind, visits, saved, eol, disk>>
      /\ UNCHANGED <<lastUndo, run>> /\ UNCHANGED killRing
  BY DEF AppendAgentText, chainVars, yankVars, fileVars, historyVars
<1>4. StackFits(TRUE, undoHistory, us, text \o d) /\ Len(us) = Len(past)
  BY <1>1, StackDeliver DEF EditInv, UndoOK
<1>5. StackFits(FALSE, undoRedo, vs, text \o d) /\ Len(vs) = Len(future)
  BY <1>1, StackDeliver DEF EditInv, UndoOK
<1> HIDE DEF us, vs
<1>6. UndoOK'
  BY <1>3, <1>4, <1>5 DEF EditInv, UndoOK
<1>7. ValueOK'
  <2>1. AdjustMarkInsert(mark, Len(text), Len(d)) \in Marks(Len(text) + Len(d))
    <3>1. Len(text) \in Len(text)..Len(text)
      BY <1>0
    <3> QED
      BY <1>0, <1>1, <3>1, AdjustMarkFacts
  <2>2. modified \in BOOLEAN
    BY DEF EditInv, ValueOK
  <2>3. point' \in 0..(Len(text) + Len(d))
    BY <1>0, <1>1, <1>3
  <2> QED
    BY <1>2, <1>3, <2>1, <2>2, <2>3 DEF ValueOK
<1>8. FileOK' /\ CleanOK' /\ RingOK'
  BY <1>3 DEF EditInv, FileOK, CleanOK, RingOK
<1>9. FlagsOK' /\ KillOK'
  BY <1>3 DEF EditInv, FlagsOK, KillOK
<1>10. YankOK'
  <2> DEFINE lo == yankBounds[1]
             hi == yankBounds[2]
  <2>1. lo \in Nat /\ hi \in Nat /\ yankCursor \in Nat /\ yankBounds \in Nat \X Nat
    BY DEF EditInv, YankOK
  <2>2. yankActive => /\ lo <= hi /\ hi <= Len(text) /\ yankCursor < Len(killRing)
                      /\ Slice(text, lo, hi) = killRing[yankCursor + 1]
    BY DEF EditInv, YankOK
  <2> HIDE DEF lo, hi
  <2>3. yankActive => hi <= Len(text \o d) /\ Slice(text \o d, lo, hi) = Slice(text, lo, hi)
    <3> SUFFICES ASSUME yankActive
                 PROVE  hi <= Len(text \o d) /\ Slice(text \o d, lo, hi) = Slice(text, lo, hi)
      OBVIOUS
    <3>1. hi \in lo..Len(text) /\ hi <= Len(text) + Len(d)
      BY <1>0, <1>1, <2>1, <2>2
    <3> QED
      BY <1>0, <1>1, <1>2, <2>1, <3>1, SliceAppend DEF Texts
  <2> QED
    BY <1>3, <2>1, <2>2, <2>3 DEF YankOK, lo, hi
<1>11. (commands \in 0..MaxCommands)'
  BY CountedStep DEF AppendAgentText
<1> QED
  BY <1>6, <1>7, <1>8, <1>9, <1>10, <1>11 DEF EditInv

-----------------------------------------------------------------------------
(* The invariant.                                                          *)

(* It holds of every buffer handed to the session.                         *)
LEMMA EditInvInit == Init => EditInv
<1> SUFFICES ASSUME Init PROVE EditInv
  OBVIOUS
<1>1. <<>> \in Texts /\ <<>> \in Seq(Texts) /\ Len(<<>>) = 0
  BY DEF Texts
<1>2. PICK file \in Texts :
         /\ text = Visited(file) /\ eol = DetectLineEnding(file)
         /\ disk = IF visits /\ ~modified THEN file ELSE NoText
  BY <1>1, EditAssumption DEF Init, Texts
<1>2a. /\ text \in Texts /\ Len(text) \in Nat /\ eol \in {"LF", "CRLF"}
       /\ ToFileText(text, eol) = file
  BY <1>2, EditAssumption, ConversionTypes, FileRestored, LenProperties DEF Texts
<1>3. ValueOK
  BY <1>2a DEF Init, ValueOK, Marks
<1>4. UndoOK
  <2>1. StackFits(TRUE, <<>>, <<>>, text) /\ StackFits(FALSE, <<>>, <<>>, text)
    BY StackEmpty
  <2>2. Len(past) + Len(future) <= UNDO_CAPACITY
    BY <1>1, EditAssumption DEF Init
  <2> QED
    BY <2>1, <2>2 DEF Init, UndoOK
<1>5. FileOK /\ CleanOK
  <2>1. saved \in Texts \cup {NoText} /\ (~modified => text = saved)
    BY <1>2a DEF Init
  <2>2. /\ disk \in Texts \cup {NoText, Damaged}
        /\ visits => saved = NoText \/ disk = ToFileText(saved, eol)
    BY <1>2, <1>2a, <2>1 DEF Init
  <2> QED
    BY <1>2a, <2>1, <2>2 DEF Init, FileOK, CleanOK
<1>6. RingOK
  BY <1>1, EditAssumption DEF Init, RingOK
<1>7. FlagsOK
  BY <1>1 DEF Init, FlagsOK
<1>8. KillOK /\ YankOK
  BY DEF Init, KillOK, YankOK
<1>9. commands \in 0..MaxCommands
  BY EditAssumption DEF Init
<1> QED
  BY <1>3, <1>4, <1>5, <1>6, <1>7, <1>8, <1>9 DEF EditInv

(* Every command keeps it.                                                 *)
LEMMA EditInvStep == EditInv /\ [Next]_vars => EditInv'
<1> SUFFICES ASSUME EditInv, [Next]_vars PROVE EditInv'
  OBVIOUS
<1>1. CASE \E t \in InsertTexts : InsertText(t)
  BY <1>1, InsertTextStep
<1>2. CASE \/ ForwardChar \/ BackwardChar \/ SetMark
           \/ KeyboardQuit \/ ExchangePointAndMark
  BY <1>2, MotionsStep
<1>3. CASE KillLine \/ KillRegion \/ CopyRegionAsKill
  BY <1>3, KillLineStep, KillRegionStep, CopyRegionStep
<1>4. CASE Yank \/ YankPop
  BY <1>4, YankStep, YankPopStep
<1>5. CASE Undo \/ SaveBuffer
  BY <1>5, UndoStep, SaveBufferStep
<1>6. CASE \E t \in OtherTexts : AppendAgentText(t)
  BY <1>6, AppendAgentTextStep
<1>7. CASE LeaveAndReturn
  BY <1>7, LeaveAndReturnStep
<1>8. CASE UNCHANGED vars
  BY <1>8, StutterStep
<1> QED
  BY <1>1, <1>2, <1>3, <1>4, <1>5, <1>6, <1>7, <1>8 DEF Next

(* The invariant holds in every behaviour.                                 *)
LEMMA EditInvariant == Spec => []EditInv
BY EditInvInit, EditInvStep, PTL DEF Spec

-----------------------------------------------------------------------------
(* Theorems.                                                               *)

(* Every command, an undo after agent output included, puts point and mark *)
(* inside the text, so BufferValue never raises, and the kill ring and the *)
(* undo stacks stay within their capacities.                               *)
THEOREM EditTypeCorrect == Spec => []EditTypeOK
<1>1. EditInv => EditTypeOK
  <2> SUFFICES ASSUME EditInv PROVE EditTypeOK
    OBVIOUS
  <2>1. /\ text \in Seq(Char) /\ modified \in BOOLEAN
        /\ point \in Position /\ mark \in Position \cup {NoMark}
    BY DEF EditInv, ValueOK, Texts, Marks, Position
  <2>2. /\ undoHistory \in Seq(Group) /\ undoRedo \in Seq(Group)
        /\ past \in Seq(Seq(Char)) /\ future \in Seq(Seq(Char))
        /\ Len(undoHistory) + Len(undoRedo) <= UNDO_CAPACITY
    BY DEF EditInv, UndoOK, StackFits, Texts
  <2>3. /\ kind \in {"ordinary", "generated"} /\ visits \in BOOLEAN
        /\ saved \in Seq(Char) \cup {NoText}
        /\ disk \in Seq(Char) \cup {NoText, Damaged} /\ eol \in {"LF", "CRLF"}
    BY DEF EditInv, FileOK, Texts
  <2>4. killRing \in Seq(Seq(Char)) /\ Len(killRing) <= KILL_RING_CAPACITY
    BY DEF EditInv, RingOK, Texts
  <2>5. /\ undoDescending \in BOOLEAN /\ lastWasKill \in BOOLEAN
        /\ yankActive \in BOOLEAN /\ lastUndo \in BOOLEAN /\ run \in Seq(Char)
    BY DEF EditInv, FlagsOK, Texts
  <2>6. yankCursor \in Nat /\ yankBounds \in Nat \X Nat /\ commands \in 0..MaxCommands
    BY DEF EditInv, YankOK
  <2> QED
    BY <2>1, <2>2, <2>3, <2>4, <2>5, <2>6 DEF EditTypeOK
<1> QED
  BY <1>1, EditInvariant, PTL

(* Kills in a row stay one entry at the head of the ring, in text order.   *)
THEOREM KillsAppendHolds == Spec => []KillsAppend
<1>1. EditInv => KillsAppend
  BY DEF EditInv, KillOK, KillsAppend
<1> QED
  BY <1>1, EditInvariant, PTL

(* A pop always finds the text it is to replace between its bounds.        *)
THEOREM YankPopHolds == Spec => []YankPopReplacesYank
<1>1. EditInv => YankPopReplacesYank
  <2> SUFFICES ASSUME EditInv, yankActive
               PROVE  /\ yankCursor + 1 \in DOMAIN killRing
                      /\ yankBounds[2] <= Len(text)
                      /\ Slice(text, yankBounds[1], yankBounds[2])
                            = killRing[yankCursor + 1]
    BY DEF YankPopReplacesYank
  <2>1. DOMAIN killRing = 1..Len(killRing) /\ Len(killRing) \in Nat
    BY Positions, LenProperties
  <2>2. yankCursor + 1 \in 1..Len(killRing)
    BY <2>1 DEF EditInv, YankOK
  <2> QED
    BY <2>1, <2>2 DEF EditInv, YankOK
<1> QED
  BY <1>1, EditInvariant, PTL

(* A clean buffer's file holds the buffer's text with the line endings the *)
(* file had when it was visited, unless the last write was torn; without a *)
(* CR in the text, visiting the file again gives the text back.            *)
THEOREM CleanMeansSavedHolds == Spec => []CleanMeansSaved
<1>1. EditInv => CleanMeansSaved
  <2> SUFFICES ASSUME EditInv, kind = "ordinary", visits, ~modified, disk # Damaged
               PROVE  /\ disk = ToFileText(text, eol)
                      /\ CR \notin Range(text) => Visited(disk) = text
    BY DEF CleanMeansSaved
  <2>1. text = saved /\ text \in Texts
    BY DEF EditInv, CleanOK, ValueOK
  <2>2. saved # NoText
    BY <2>1, EditAssumption DEF Texts
  <2>3. saved = NoText \/ disk \in {ToFileText(saved, eol), Damaged}
    BY DEF EditInv, FileOK
  <2>4. disk = ToFileText(text, eol)
    BY <2>1, <2>2, <2>3
  <2>5. ASSUME CR \notin Range(text) PROVE Visited(disk) = text
    <3>1. text \in Seq(Char \ {CR})
      BY <2>1, <2>5 DEF Texts, Range
    <3> QED
      BY <2>4, <3>1, EditAssumption, TextReadsBack
  <2> QED
    BY <2>4, <2>5
<1> QED
  BY <1>1, EditInvariant, PTL

(* After an undo the next one undoes too, until a command intervenes.      *)
THEOREM UndoDirectionHolds == Spec => UndoKeepsDirection
<1> DEFINE Keeps == lastUndo /\ lastUndo' => Len(undoRedo') >= Len(undoRedo)
<1>1. ASSUME EditInv, Next PROVE Keeps
  <2>0. Len(undoRedo) \in Nat /\ undoRedo \in Seq(Group)
    <3>1. undoRedo \in Seq(Group)
      BY <1>1 DEF EditInv, UndoOK, StackFits
    <3> QED
      BY <3>1, LenProperties
  <2>1. CASE undoRedo' = undoRedo
    <3>1. Len(undoRedo') = Len(undoRedo)
      BY <2>1
    <3> QED
      BY <2>0, <3>1
  <2>2. CASE lastUndo' = FALSE
    BY <2>2
  <2>3. CASE Undo
    <3>1. CASE NothingToUndo
      BY <2>1, <3>1 DEF NothingToUndo, DoesNothing, vars, undoVars
    <3>2. CASE Descend
      <4>1. undoRedo' = Append(undoRedo, Last(undoHistory))
        BY <3>2 DEF Descend
      <4>2. Len(undoRedo') = Len(undoRedo) + 1
        BY <2>0, <4>1
      <4> QED
        BY <2>0, <4>2
    <3>3. CASE ~Descends
      <4>1. lastUndo => undoDescending
        BY <1>1 DEF EditInv, FlagsOK
      <4>2. ~undoDescending
        BY <3>3 DEF Descends
      <4> QED
        BY <4>1, <4>2
    <3> QED
      BY <2>3, <3>1, <3>2, <3>3 DEF Undo
  <2>4. CASE DoesNothing
    BY <2>1, <2>4 DEF DoesNothing, vars, undoVars
  <2>5. CASE \/ \E t \in InsertTexts : InsertText(t)
             \/ ForwardChar \/ BackwardChar \/ SetMark \/ KeyboardQuit
             \/ SaveBuffer \/ LeaveAndReturn
    BY <2>2, <2>5 DEF InsertText, ForwardChar, BackwardChar, SetMark, KeyboardQuit,
                      SaveBuffer, LeaveAndReturn, Place, Intervene
  <2>6. CASE ExchangePointAndMark \/ KillLine \/ KillRegion \/ CopyRegionAsKill
    BY <2>2, <2>4, <2>6 DEF ExchangePointAndMark, KillLine, KillRegion,
                            CopyRegionAsKill, Place, Intervene
  <2>7. CASE Yank \/ YankPop
    BY <2>1, <2>2, <2>7 DEF Yank, YankPop, undoVars
  <2>8. CASE \E t \in OtherTexts : AppendAgentText(t)
    BY <2>1, <2>8 DEF AppendAgentText
  <2> QED
    BY <1>1, <2>3, <2>5, <2>6, <2>7, <2>8 DEF Next
<1>2. EditInv /\ [Next]_vars => [Keeps]_vars
  BY <1>1
<1> QED
  BY <1>2, EditInvariant, PTL DEF Spec, UndoKeepsDirection

(* What Reverse returns.                                                   *)
LEMMA ReverseFacts ==
    ASSUME NEW S, NEW s \in Seq(S)
    PROVE  /\ Reverse(s) \in Seq(S) /\ Len(Reverse(s)) = Len(s)
           /\ \A i \in 1..Len(s) : Reverse(s)[i] = s[(Len(s) - i) + 1]
<1>0. Len(s) \in Nat
  BY LenProperties
<1>1. \A i \in 1..Len(s) : s[(Len(s) - i) + 1] \in S
  <2> SUFFICES ASSUME NEW i \in 1..Len(s) PROVE s[(Len(s) - i) + 1] \in S
    OBVIOUS
  <2>1. (Len(s) - i) + 1 \in 1..Len(s)
    BY <1>0
  <2> QED
    BY <2>1, ElementOfSeq
<1>2. Reverse(s) \in [1..Len(s) -> S]
  BY <1>1 DEF Reverse
<1>3. \A i \in 1..Len(s) : Reverse(s)[i] = s[(Len(s) - i) + 1]
  BY DEF Reverse
<1> QED
  BY <1>0, <1>2, <1>3, SeqDef

(* Undo and redo walk one line of texts, up and down, whatever edits,      *)
(* evictions and agent output came between.                                *)
THEOREM UndoTimelineHolds == Spec => []UndoTimeline
<1>1. EditInv => UndoTimeline
  <2> SUFFICES ASSUME EditInv PROVE UndoTimeline
    OBVIOUS
  <2> DEFINE n == Len(past)
             k == Len(future)
             rt == Reverse(future)
             rg == Reverse(undoRedo)
             head == past \o <<text>>
  <2>1. /\ undoHistory \in Seq(Group) /\ past \in Seq(Texts) /\ Len(undoHistory) = n
        /\ \A i \in 1..n : Leads(TRUE, undoHistory[i], past[i], Following(past, i, text))
    BY DEF EditInv, UndoOK, StackFits
  <2>2. /\ undoRedo \in Seq(Group) /\ future \in Seq(Texts) /\ Len(undoRedo) = k
        /\ \A i \in 1..k : Leads(FALSE, undoRedo[i], future[i], Following(future, i, text))
    BY DEF EditInv, UndoOK, StackFits
  <2>3. n \in Nat /\ k \in Nat /\ text \in Texts
    BY <2>1, <2>2, LenProperties DEF EditInv, ValueOK
  <2>4. /\ rt \in Seq(Texts) /\ Len(rt) = k
        /\ \A i \in 1..k : rt[i] = future[(k - i) + 1]
    BY <2>2, ReverseFacts
  <2>5. /\ rg \in Seq(Group) /\ Len(rg) = k
        /\ \A i \in 1..k : rg[i] = undoRedo[(k - i) + 1]
    BY <2>2, ReverseFacts
  <2> HIDE DEF rt, rg
  <2>6. /\ head \in Seq(Texts) /\ Len(head) = n + 1 /\ head[n + 1] = text
        /\ \A i \in 1..n : head[i] = past[i]
    <3>1. head = Append(past, text)
      BY <2>1, <2>3, AppendIsConcat
    <3> HIDE DEF head
    <3> QED
      BY <2>1, <2>3, <3>1, AppendProperties
  <2> HIDE DEF head
  <2>7. /\ Len(Timeline) = n + 1 + k
        /\ \A i \in 1..(n + 1 + k) :
              Timeline[i] = IF i <= n + 1 THEN head[i] ELSE rt[i - (n + 1)]
    <3>1. Timeline = head \o rt
      BY DEF Timeline, head, rt
    <3>2. head \in Seq(Texts) /\ Len(head) = n + 1 /\ rt \in Seq(Texts) /\ Len(rt) = k
      BY <2>4, <2>6
    <3> HIDE DEF n, k
    <3>3. /\ Len(head \o rt) = Len(head) + Len(rt)
          /\ \A i \in 1..(Len(head) + Len(rt)) :
                (head \o rt)[i] = IF i <= Len(head) THEN head[i] ELSE rt[i - Len(head)]
      BY <3>2, ConcatProperties
    <3> QED
      BY <3>1, <3>2, <3>3
  <2>8. /\ Len(Groups) = n + k
        /\ \A i \in 1..(n + k) :
              Groups[i] = IF i <= n THEN undoHistory[i] ELSE rg[i - n]
    <3>1. Groups = undoHistory \o rg
      BY DEF Groups, rg
    <3>2. /\ undoHistory \in Seq(Group) /\ Len(undoHistory) = n
          /\ rg \in Seq(Group) /\ Len(rg) = k
      BY <2>1, <2>3, <2>5
    <3> HIDE DEF n, k, rg
    <3>3. /\ Len(undoHistory \o rg) = Len(undoHistory) + Len(rg)
          /\ \A i \in 1..(Len(undoHistory) + Len(rg)) :
                (undoHistory \o rg)[i] =
                    IF i <= Len(undoHistory) THEN undoHistory[i]
                                             ELSE rg[i - Len(undoHistory)]
      BY <3>2, ConcatProperties
    <3> QED
      BY <3>1, <3>2, <3>3
  <2> HIDE DEF n, k
  <2>9. ASSUME NEW i \in 1..(n + k)
        PROVE  Fits(Groups[i], Timeline[i], Timeline[i + 1])
    <3>0. i \in 1..(n + 1 + k) /\ i + 1 \in 1..(n + 1 + k)
      BY <2>3
    <3>1. CASE i <= n
      <4>1. i \in 1..n /\ i <= n + 1 /\ i + 1 <= n + 1
        BY <2>3, <3>1
      <4>2. Groups[i] = undoHistory[i] /\ Timeline[i] = past[i] /\ Timeline[i + 1] = head[i + 1]
        BY <2>6, <2>7, <2>8, <3>0, <3>1, <4>1
      <4>3. head[i + 1] = Following(past, i, text)
        <5>1. CASE i = n
          BY <2>6, <5>1 DEF Following, n
        <5>2. CASE i # n
          <6>1. i + 1 \in 1..n
            BY <2>3, <4>1, <5>2
          <6> QED
            BY <2>6, <5>2, <6>1 DEF Following, n
        <5> QED
          BY <5>1, <5>2
      <4>4. Leads(TRUE, undoHistory[i], past[i], Following(past, i, text))
        BY <2>1, <4>1
      <4> QED
        BY <4>2, <4>3, <4>4 DEF Leads
    <3>2. CASE ~(i <= n)
      <4> DEFINE j == (k - (i - n)) + 1
                 i1 == i - n
      <4>1. /\ j \in 1..k /\ i1 \in 1..k /\ (k - i1) + 1 = j
            /\ (i + 1) - (n + 1) = i1 /\ ~(i + 1 <= n + 1)
            /\ (i <= n + 1 <=> j = k) /\ (j = k => i = n + 1)
        BY <2>3, <3>2
      <4>2. Groups[i] = rg[i1]
        BY <2>8, <3>2
      <4>3. Timeline[i + 1] = rt[i1]
        BY <2>7, <3>0, <4>1
      <4>4. j # k => Timeline[i] = future[j + 1]
        <5> SUFFICES ASSUME j # k PROVE Timeline[i] = future[j + 1]
          OBVIOUS
        <5> DEFINE i0 == i - (n + 1)
        <5>1. i0 \in 1..k /\ (k - i0) + 1 = j + 1 /\ ~(i <= n + 1)
          BY <2>3, <3>2, <4>1
        <5>2. Timeline[i] = rt[i0]
          BY <2>7, <3>0, <5>1
        <5> HIDE DEF i0, j
        <5>3. rt[i0] = future[(k - i0) + 1]
          BY <2>4, <5>1
        <5> QED
          BY <5>1, <5>2, <5>3
      <4>5. j = k => Timeline[i] = text
        BY <2>6, <2>7, <3>0, <4>1
      <4> HIDE DEF j, i1
      <4>6. rg[i1] = undoRedo[j] /\ rt[i1] = future[j]
        BY <2>4, <2>5, <4>1
      <4>7. Timeline[i] = Following(future, j, text)
        BY <4>4, <4>5 DEF Following, k
      <4>8. Leads(FALSE, undoRedo[j], future[j], Following(future, j, text))
        BY <2>2, <4>1
      <4> QED
        BY <4>2, <4>3, <4>6, <4>7, <4>8 DEF Leads
    <3> QED
      BY <3>1, <3>2
  <2>10. Len(Timeline) = Len(Groups) + 1
    BY <2>3, <2>7, <2>8
  <2>11. ASSUME NEW i \in 1..Len(Groups)
         PROVE  /\ Undone(Timeline[i + 1], Groups[i]) = Timeline[i]
                /\ Redone(Timeline[i], Groups[i]) = Timeline[i + 1]
    BY <2>8, <2>9 DEF Fits
  <2> QED
    BY <2>10, <2>11 DEF UndoTimeline
<1> QED
  BY <1>1, EditInvariant, PTL

=============================================================================
