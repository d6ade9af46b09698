----------------------------- MODULE Wire_proofs -----------------------------
(***************************************************************************)
(* Every line arrives whole and once, and every transcript reads right,    *)
(* for any messages, any cuts of the pipe and any number of buffers.       *)
(***************************************************************************)
EXTENDS Wire, SequenceFacts, FiniteSetTheorems

-----------------------------------------------------------------------------
(* The fold.                                                               *)

Fold == [turnOpen : BOOLEAN, thoughtOpen : BOOLEAN, turns : Nat]
Pieces == EffectKinds \cup {"turn header", "thought header"}

LEMMA AdvanceFoldType ==
    ASSUME NEW fold \in Fold, NEW e \in EffectKinds
    PROVE  AdvanceFold(fold, e) \in Fold
  <1>1. CASE e = "text"
    BY <1>1 DEF AdvanceFold, Fold
  <1>2. CASE e = "thought"
    BY <1>2 DEF AdvanceFold, Fold
  <1>3. CASE e = "block"
    BY <1>3 DEF AdvanceFold, Fold
  <1>4. CASE e = "end"
    BY <1>4 DEF AdvanceFold, Fold
  <1>5. CASE e = "silent"
    BY <1>5 DEF AdvanceFold
  <1> QED
    BY <1>1, <1>2, <1>3, <1>4, <1>5 DEF EffectKinds

LEMMA AdvanceTextType ==
    ASSUME NEW fold \in Fold, NEW e \in EffectKinds
    PROVE  AdvanceText(fold, e) \in Seq(Pieces)
  <1>1. e \in Pieces /\ "turn header" \in Pieces /\ "thought header" \in Pieces
    BY DEF Pieces
  <1>2. /\ <<>> \in Seq(Pieces) /\ <<e>> \in Seq(Pieces)
        /\ <<"turn header">> \in Seq(Pieces)
        /\ <<"thought header">> \in Seq(Pieces)
    <2>1. <<>> \in Seq(Pieces)
      OBVIOUS
    <2>2. \A d \in Pieces : <<d>> \in Seq(Pieces)
      BY Singleton
    <2> QED
      BY <1>1, <2>1, <2>2, Zenon
  <1>3. TurnHeader(fold) \in Seq(Pieces) /\ ThoughtHeader(fold) \in Seq(Pieces)
    BY <1>2 DEF TurnHeader, ThoughtHeader
  <1>4. CASE e = "text"
    <2>1. AdvanceText(fold, e) = TurnHeader(fold) \o <<e>>
      BY <1>4 DEF AdvanceText
    <2> QED
      BY <1>2, <1>3, <2>1, ConcatInSeq
  <1>5. CASE e = "thought"
    <2>1. AdvanceText(fold, e) = TurnHeader(fold) \o ThoughtHeader(fold) \o <<e>>
      BY <1>5 DEF AdvanceText
    <2>2. TurnHeader(fold) \o ThoughtHeader(fold) \in Seq(Pieces)
      BY <1>3, ConcatInSeq
    <2> QED
      BY <1>2, <2>1, <2>2, ConcatInSeq, Zenon
  <1>6. CASE e \in {"block", "end"}
    <2>1. AdvanceText(fold, e) = <<e>>
      BY <1>6 DEF AdvanceText
    <2> QED
      BY <1>2, <2>1
  <1>7. CASE e = "silent"
    <2>1. AdvanceText(fold, e) = <<>>
      BY <1>7 DEF AdvanceText
    <2> QED
      BY <1>2, <2>1
  <1> QED
    BY <1>4, <1>5, <1>6, <1>7 DEF EffectKinds

LEMMA FoldAfterIs ==
    ASSUME NEW fold \in Fold, NEW es \in Seq(EffectKinds),
           NEW f \in [0..Len(es) -> Fold], f[0] = fold,
           \A i \in 1..Len(es) : f[i] = AdvanceFold(f[i - 1], es[i])
    PROVE  FoldAfter(fold, es) = f[Len(es)]
  <1> DEFINE n == Len(es)
  <1>1. n \in Nat
    OBVIOUS
  <1>2. f = [i \in 0..n |-> IF i = 0 THEN fold ELSE AdvanceFold(f[i - 1], es[i])]
    <2>1. ASSUME NEW i \in 0..n
          PROVE  f[i] = IF i = 0 THEN fold ELSE AdvanceFold(f[i - 1], es[i])
      BY <1>1
    <2> QED
      BY <2>1
  <1>3. \E g : /\ FoldAfter(fold, es) = g[n]
               /\ g = [i \in 0..n |->
                          IF i = 0 THEN fold ELSE AdvanceFold(g[i - 1], es[i])]
    BY <1>2, Zenon DEF FoldAfter
  <1>4. PICK g : /\ FoldAfter(fold, es) = g[n]
                 /\ g = [i \in 0..n |->
                            IF i = 0 THEN fold ELSE AdvanceFold(g[i - 1], es[i])]
    BY <1>3
  <1> DEFINE T == {i \in Nat : i <= n => g[i] = f[i]}
  <1>5. 0 \in T
    BY <1>1, <1>4
  <1>6. ASSUME NEW i \in T PROVE i + 1 \in T
    <2>1. SUFFICES ASSUME i + 1 <= n PROVE g[i + 1] = f[i + 1]
      OBVIOUS
    <2>2. i + 1 \in 1..n /\ g[i] = f[i] /\ (i + 1) - 1 = i
      BY <1>1, <2>1
    <2>3. g[i + 1] = AdvanceFold(g[i], es[i + 1])
      BY <1>4, <2>2
    <2>4. f[i + 1] = AdvanceFold(f[i], es[i + 1])
      BY <2>2
    <2> QED
      BY <2>2, <2>3, <2>4
  <1>7. T = Nat
    <2>1. T \in SUBSET Nat
      OBVIOUS
    <2> HIDE DEF T
    <2> QED
      BY <1>5, <1>6, <2>1, NatSetInduction
  <1>8. n \in T
    BY <1>1, <1>7
  <1> QED
    BY <1>1, <1>4, <1>8

LEMMA FoldAfterRuns ==
    ASSUME NEW fold \in Fold, NEW es \in Seq(EffectKinds)
    PROVE  \E f \in [0..Len(es) -> Fold] :
               /\ f[0] = fold
               /\ \A i \in 1..Len(es) : f[i] = AdvanceFold(f[i - 1], es[i])
  <1> DEFINE n == Len(es)
             step == [z \in (1..n) \X Fold |-> AdvanceFold(z[2], es[z[1]])]
  <1>1. n \in Nat
    OBVIOUS
  <1>2. step \in [(1..n) \X Fold -> Fold]
    BY AdvanceFoldType
  <1>3. \A i \in 1..n, v \in Fold : step[<<i, v>>] = AdvanceFold(v, es[i])
    OBVIOUS
  <1> HIDE DEF n, step
  <1>4. PICK f \in [0..n -> Fold] :
            f[0] = fold /\ \A i \in 1..n : f[i] = step[<<i, f[i - 1]>>]
    <2>1. Iterates(Fold, fold, n, step)
      BY <1>1, <1>2, Iterate
    <2> QED
      BY <2>1 DEF Iterates
  <1>5. ASSUME NEW i \in 1..n PROVE f[i] = AdvanceFold(f[i - 1], es[i])
    <2>1. f[i - 1] \in Fold
      BY <1>1
    <2> QED
      BY <1>3, <1>4, <2>1
  <1> QED
    BY <1>4, <1>5 DEF n

LEMMA FoldAfterType ==
    ASSUME NEW fold \in Fold, NEW es \in Seq(EffectKinds)
    PROVE  FoldAfter(fold, es) \in Fold
  <1>1. PICK f \in [0..Len(es) -> Fold] :
            /\ f[0] = fold
            /\ \A i \in 1..Len(es) : f[i] = AdvanceFold(f[i - 1], es[i])
    BY FoldAfterRuns
  <1>2. FoldAfter(fold, es) = f[Len(es)]
    BY <1>1, FoldAfterIs
  <1> QED
    BY <1>2

LEMMA FoldAfterNothing ==
    ASSUME NEW fold \in Fold PROVE FoldAfter(fold, <<>>) = fold
  <1> DEFINE f == [i \in 0..0 |-> fold]
             es == <<>>
  <1>1. es \in Seq(EffectKinds) /\ Len(es) = 0
    OBVIOUS
  <1>2. f \in [0..0 -> Fold] /\ f[0] = fold
    OBVIOUS
  <1> HIDE DEF es, f
  <1>3. FoldAfter(fold, es) = f[0]
    BY <1>1, <1>2, FoldAfterIs
  <1> QED
    BY <1>2, <1>3 DEF es

LEMMA FoldAfterAppend ==
    ASSUME NEW fold \in Fold, NEW es \in Seq(EffectKinds), NEW e \in EffectKinds
    PROVE  FoldAfter(fold, Append(es, e)) = AdvanceFold(FoldAfter(fold, es), e)
  <1> DEFINE t == Append(es, e)
             n == Len(es)
  <1>1. /\ t \in Seq(EffectKinds) /\ Len(t) = n + 1 /\ n \in Nat
        /\ t[n + 1] = e /\ \A i \in 1..n : t[i] = es[i]
    OBVIOUS
  <1> HIDE DEF t
  <1>2. PICK f \in [0..Len(t) -> Fold] :
            /\ f[0] = fold
            /\ \A i \in 1..Len(t) : f[i] = AdvanceFold(f[i - 1], t[i])
    BY <1>1, FoldAfterRuns
  <1>3. FoldAfter(fold, t) = f[n + 1]
    BY <1>1, <1>2, FoldAfterIs
  <1> DEFINE h == [i \in 0..n |-> f[i]]
  <1>4. h \in [0..n -> Fold] /\ h[0] = fold /\ h[n] = f[n]
    BY <1>1, <1>2
  <1>5. ASSUME NEW i \in 1..n PROVE h[i] = AdvanceFold(h[i - 1], es[i])
    <2>1. i \in 1..Len(t) /\ i \in 0..n /\ i - 1 \in 0..n
      BY <1>1
    <2>2. h[i] = f[i] /\ h[i - 1] = f[i - 1]
      BY <2>1
    <2> QED
      BY <1>1, <1>2, <2>1, <2>2
  <1>6. FoldAfter(fold, es) = f[n]
    <2> HIDE DEF h
    <2> QED
      BY <1>4, <1>5, FoldAfterIs
  <1>7. f[n + 1] = AdvanceFold(f[n], e)
    <2>1. n + 1 \in 1..Len(t) /\ (n + 1) - 1 = n
      BY <1>1
    <2> QED
      BY <1>1, <1>2, <2>1
  <1> QED
    BY <1>3, <1>6, <1>7 DEF t

(* The text of one more effect goes after the text of the others.          *)
LEMMA TextOfAppend ==
    ASSUME NEW fold \in Fold, NEW es \in Seq(EffectKinds), NEW e \in EffectKinds
    PROVE  /\ TextOf(fold, es) \in Seq(Pieces)
           /\ TextOf(fold, Append(es, e))
                  = TextOf(fold, es) \o AdvanceText(FoldAfter(fold, es), e)
  <1> DEFINE n == Len(es)
             t == Append(es, e)
             A(s, d) == AdvanceText(FoldAfter(fold, s), d)
             p == [i \in 1..n |-> A(SubSeq(es, 1, i - 1), es[i])]
             q == [i \in 1..(n + 1) |-> A(SubSeq(t, 1, i - 1), t[i])]
             V == Seq(Pieces)
  <1>1. /\ n \in Nat /\ t \in Seq(EffectKinds) /\ Len(t) = n + 1
        /\ t[n + 1] = e /\ \A i \in 1..n : t[i] = es[i]
    OBVIOUS
  <1>2. \A i \in 1..(n + 1) : SubSeq(t, 1, i - 1) = SubSeq(es, 1, i - 1)
    OBVIOUS
  <1>3. SubSeq(es, 1, (n + 1) - 1) = es
    OBVIOUS
  <1>4. \A s \in Seq(EffectKinds), d \in EffectKinds : A(s, d) \in V
    BY FoldAfterType, AdvanceTextType
  <1>5. \A i \in 1..(n + 1) : /\ SubSeq(es, 1, i - 1) \in Seq(EffectKinds)
                              /\ t[i] \in EffectKinds
    BY <1>1
  <1>6. TextOf(fold, es) = FlattenSeq(p) /\ TextOf(fold, t) = FlattenSeq(q)
    <2>1. TextOf(fold, es) = FlattenSeq(p)
      BY Zenon DEF TextOf
    <2>2. TextOf(fold, t) = FlattenSeq([i \in 1..Len(t) |-> A(SubSeq(t, 1, i - 1), t[i])])
      BY Zenon DEF TextOf
    <2> QED
      BY <1>1, <2>1, <2>2, Zenon
  <1> HIDE DEF A, t, n, V
  <1>7. p \in [1..n -> V] /\ q \in [1..(n + 1) -> V]
    <2>1. \A i \in 1..n : i \in 1..(n + 1) /\ es[i] = t[i]
      BY <1>1
    <2> QED
      BY <1>2, <1>4, <1>5, <2>1
  <1>8. \A i \in 1..n : q[i] = p[i]
    <2>1. \A i \in 1..n : i \in 1..(n + 1) /\ es[i] = t[i]
      BY <1>1
    <2> QED
      BY <1>2, <2>1, Zenon
  <1>9. q[n + 1] = A(es, e)
    <2>1. n + 1 \in 1..(n + 1)
      BY <1>1
    <2> QED
      BY <1>1, <1>2, <1>3, <2>1, Zenon
  <1> HIDE DEF p, q
  <1>10. p \in Seq(V) /\ q[n + 1] \in V /\ q = Append(p, q[n + 1])
    BY <1>1, <1>7, <1>8, ContinuedByOne
  <1>11. FlattenSeq(q) = FlattenSeq(p) \o q[n + 1]
    BY <1>10, FlattenAppend DEF V
  <1>12. FlattenSeq(p) \in Seq(Pieces)
    BY <1>10, FlattenType DEF V
  <1> QED
    BY <1>6, <1>9, <1>11, <1>12 DEF A, t

-----------------------------------------------------------------------------
(* What a reader expects, effect by effect.                                *)

ReadingOf(es) == FlattenSeq([i \in 1..Len(es) |-> Expected(es, i)])

(* The fold knows of the effects before what the reader has to look up.    *)
Reads(fold, es) ==
    /\ fold \in Fold
    /\ fold.turnOpen <=> ~FirstOfTurn(es, Len(es) + 1)
    /\ fold.thoughtOpen <=> ~StartsThought(es, Len(es) + 1)

LEMMA FreshReads == Reads(FreshFold, <<>>)
  BY DEF Reads, FreshFold, Fold, FirstOfTurn, StartsThought

LEMMA ExpectedType ==
    ASSUME NEW es \in Seq(EffectKinds), NEW i \in 1..Len(es)
    PROVE  Expected(es, i) \in Seq(Pieces)
  <1> DEFINE a == IF es[i] \in Chunks /\ FirstOfTurn(es, i)
                    THEN <<"turn header">> ELSE <<>>
             b == IF es[i] = "thought" /\ StartsThought(es, i)
                    THEN <<"thought header">> ELSE <<>>
             c == IF es[i] = "silent" THEN <<>> ELSE <<es[i]>>
  <1>1. es[i] \in Pieces /\ "turn header" \in Pieces /\ "thought header" \in Pieces
    <2>1. es[i] \in EffectKinds
      OBVIOUS
    <2> QED
      BY <2>1 DEF Pieces
  <1>2. /\ <<>> \in Seq(Pieces) /\ <<es[i]>> \in Seq(Pieces)
        /\ <<"turn header">> \in Seq(Pieces)
        /\ <<"thought header">> \in Seq(Pieces)
    <2>1. <<>> \in Seq(Pieces)
      OBVIOUS
    <2>2. \A d \in Pieces : <<d>> \in Seq(Pieces)
      BY Singleton
    <2> QED
      BY <1>1, <2>1, <2>2, Zenon
  <1>3. a \in Seq(Pieces) /\ b \in Seq(Pieces) /\ c \in Seq(Pieces)
    BY <1>2
  <1>4. Expected(es, i) = a \o b \o c
    BY DEF Expected
  <1> HIDE DEF a, b, c
  <1>5. a \o b \in Seq(Pieces)
    BY <1>3, ConcatInSeq
  <1> QED
    BY <1>3, <1>4, <1>5, ConcatInSeq, Zenon

(* One more effect, as the reader sees it.                                 *)
LEMMA FirstOfTurnStep ==
    ASSUME NEW es \in Seq(EffectKinds), NEW e \in EffectKinds,
           NEW t, t = Append(es, e), NEW n \in Nat, n = Len(es)
    PROVE  /\ FirstOfTurn(t, n + 1) <=> FirstOfTurn(es, n + 1)
           /\ e \in Chunks => ~FirstOfTurn(t, (n + 1) + 1)
           /\ e = "end" => FirstOfTurn(t, (n + 1) + 1)
           /\ e \in {"block", "silent"}
                  => (FirstOfTurn(t, (n + 1) + 1) <=> FirstOfTurn(es, n + 1))
  <1>1. /\ t[n + 1] = e /\ \A i \in 1..n : t[i] = es[i]
        /\ (n + 1) - 1 = n /\ ((n + 1) + 1) - 1 = n + 1
    OBVIOUS
  <1>2. \A j \in 1..n : \A k \in j..n : k \in 1..n /\ k \in j..(n + 1)
    OBVIOUS
  <1>3. FirstOfTurn(t, n + 1) <=> FirstOfTurn(es, n + 1)
    BY <1>1, <1>2 DEF FirstOfTurn
  <1>4. ASSUME e \in Chunks PROVE ~FirstOfTurn(t, (n + 1) + 1)
    <2>1. \A k \in (n + 1)..(n + 1) : t[k] # "end"
      BY <1>1, <1>4 DEF Chunks
    <2>2. n + 1 \in 1..(n + 1)
      OBVIOUS
    <2> QED
      BY <1>1, <1>4, <2>1, <2>2 DEF FirstOfTurn
  <1>5. ASSUME e = "end" PROVE FirstOfTurn(t, (n + 1) + 1)
    <2>1. \A j \in 1..(n + 1) : n + 1 \in j..(n + 1)
      OBVIOUS
    <2> QED
      BY <1>1, <1>5, <2>1 DEF FirstOfTurn
  <1>6. ASSUME e \in {"block", "silent"}
        PROVE  FirstOfTurn(t, (n + 1) + 1) <=> FirstOfTurn(es, n + 1)
    <2>1. t[n + 1] \notin Chunks /\ t[n + 1] # "end"
      BY <1>1, <1>6 DEF Chunks
    <2>2. \A j \in 1..(n + 1) : j = n + 1 \/ j \in 1..n
      OBVIOUS
    <2>3. \A j \in 1..n : \A k \in j..(n + 1) : k = n + 1 \/ k \in j..n
      OBVIOUS
    <2>4. \A j \in 1..n : j \in 1..(n + 1)
      OBVIOUS
    <2> QED
      BY <1>1, <1>2, <2>1, <2>2, <2>3, <2>4 DEF FirstOfTurn
  <1> QED
    BY <1>3, <1>4, <1>5, <1>6

LEMMA StartsThoughtStep ==
    ASSUME NEW es \in Seq(EffectKinds), NEW e \in EffectKinds,
           NEW t, t = Append(es, e), NEW n \in Nat, n = Len(es)
    PROVE  /\ StartsThought(t, n + 1) <=> StartsThought(es, n + 1)
           /\ e = "thought" => ~StartsThought(t, (n + 1) + 1)
           /\ e = "silent"
                  => (StartsThought(t, (n + 1) + 1) <=> StartsThought(es, n + 1))
           /\ e \notin {"thought", "silent"} => StartsThought(t, (n + 1) + 1)
  <1>1. /\ t[n + 1] = e /\ \A i \in 1..n : t[i] = es[i]
        /\ (n + 1) - 1 = n /\ ((n + 1) + 1) - 1 = n + 1
    OBVIOUS
  <1>2. \A j \in 1..n : \A k \in j..n : k \in 1..n /\ k \in j..(n + 1)
    OBVIOUS
  <1>3. StartsThought(t, n + 1) <=> StartsThought(es, n + 1)
    BY <1>1, <1>2 DEF StartsThought
  <1>4. ASSUME e = "thought" PROVE ~StartsThought(t, (n + 1) + 1)
    <2>1. \A k \in (n + 1)..(n + 1) : t[k] = "thought"
      BY <1>1, <1>4
    <2>2. n + 1 \in 1..(n + 1)
      OBVIOUS
    <2> QED
      BY <1>1, <1>4, <2>1, <2>2 DEF StartsThought
  <1>5. ASSUME e = "silent"
        PROVE  StartsThought(t, (n + 1) + 1) <=> StartsThought(es, n + 1)
    <2>1. t[n + 1] = "silent"
      BY <1>1, <1>5
    <2>2. \A j \in 1..(n + 1) : j = n + 1 \/ j \in 1..n
      OBVIOUS
    <2>3. \A j \in 1..n : \A k \in j..(n + 1) : k = n + 1 \/ k \in j..n
      OBVIOUS
    <2>4. \A j \in 1..n : j \in 1..(n + 1)
      OBVIOUS
    <2> QED
      BY <1>1, <1>2, <2>1, <2>2, <2>3, <2>4 DEF StartsThought
  <1>6. ASSUME e \notin {"thought", "silent"} PROVE StartsThought(t, (n + 1) + 1)
    <2>1. \A j \in 1..(n + 1) : n + 1 \in j..(n + 1)
      OBVIOUS
    <2> QED
      BY <1>1, <1>6, <2>1 DEF StartsThought
  <1> QED
    BY <1>3, <1>4, <1>5, <1>6

LEMMA ReadsStep ==
    ASSUME NEW fold, NEW es \in Seq(EffectKinds), NEW e \in EffectKinds,
           Reads(fold, es)
    PROVE  /\ Reads(AdvanceFold(fold, e), Append(es, e))
           /\ Expected(Append(es, e), Len(es) + 1) = AdvanceText(fold, e)
  <1> DEFINE n == Len(es)
             t == Append(es, e)
             next == AdvanceFold(fold, e)
  <1>1. /\ n \in Nat /\ t \in Seq(EffectKinds) /\ Len(t) = n + 1 /\ t[n + 1] = e
    OBVIOUS
  <1> HIDE DEF n, t
  <1>2. /\ FirstOfTurn(t, n + 1) <=> FirstOfTurn(es, n + 1)
        /\ e \in Chunks => ~FirstOfTurn(t, (n + 1) + 1)
        /\ e = "end" => FirstOfTurn(t, (n + 1) + 1)
        /\ e \in {"block", "silent"}
               => (FirstOfTurn(t, (n + 1) + 1) <=> FirstOfTurn(es, n + 1))
    BY <1>1, FirstOfTurnStep DEF n, t
  <1>3. /\ StartsThought(t, n + 1) <=> StartsThought(es, n + 1)
        /\ e = "thought" => ~StartsThought(t, (n + 1) + 1)
        /\ e = "silent"
               => (StartsThought(t, (n + 1) + 1) <=> StartsThought(es, n + 1))
        /\ e \notin {"thought", "silent"} => StartsThought(t, (n + 1) + 1)
    BY <1>1, StartsThoughtStep DEF n, t
  <1>4. /\ fold \in Fold
        /\ fold.turnOpen <=> ~FirstOfTurn(es, n + 1)
        /\ fold.thoughtOpen <=> ~StartsThought(es, n + 1)
    BY DEF Reads, n
  <1>5. next \in Fold
    BY <1>4, AdvanceFoldType
  <1>6. /\ e = "text" => next.turnOpen /\ ~next.thoughtOpen
        /\ e = "thought" => next.turnOpen /\ next.thoughtOpen
        /\ e = "block" => (next.turnOpen <=> fold.turnOpen) /\ ~next.thoughtOpen
        /\ e = "end" => ~next.turnOpen /\ ~next.thoughtOpen
        /\ e = "silent" => next = fold
    <2>1. ASSUME e = "text" PROVE next.turnOpen /\ ~next.thoughtOpen
      BY <1>4, <2>1 DEF AdvanceFold, Fold
    <2>2. ASSUME e = "thought" PROVE next.turnOpen /\ next.thoughtOpen
      BY <1>4, <2>2 DEF AdvanceFold, Fold
    <2>3. ASSUME e = "block"
          PROVE  (next.turnOpen <=> fold.turnOpen) /\ ~next.thoughtOpen
      BY <1>4, <2>3 DEF AdvanceFold, Fold
    <2>4. ASSUME e = "end" PROVE ~next.turnOpen /\ ~next.thoughtOpen
      BY <2>4 DEF AdvanceFold
    <2>5. ASSUME e = "silent" PROVE next = fold
      BY <2>5 DEF AdvanceFold
    <2> QED
      BY <2>1, <2>2, <2>3, <2>4, <2>5
  <1> HIDE DEF next
  <1>7. e \in {"text", "thought", "block", "end", "silent"}
    BY DEF EffectKinds
  <1>8. /\ next.turnOpen <=> ~FirstOfTurn(t, (n + 1) + 1)
        /\ next.thoughtOpen <=> ~StartsThought(t, (n + 1) + 1)
    BY <1>2, <1>3, <1>4, <1>6, <1>7 DEF Chunks
  <1>9. Reads(next, t)
    BY <1>1, <1>5, <1>8 DEF Reads
  <1>10. Expected(t, n + 1) = AdvanceText(fold, e)
    <2>1. Expected(t, n + 1) =
              (IF e \in Chunks /\ ~fold.turnOpen THEN <<"turn header">> ELSE <<>>)
              \o (IF e = "thought" /\ ~fold.thoughtOpen
                    THEN <<"thought header">> ELSE <<>>)
              \o (IF e = "silent" THEN <<>> ELSE <<e>>)
      BY <1>1, <1>2, <1>3, <1>4, Zenon DEF Expected
    <2>2. \A d : <<d>> \in Seq({d}) /\ <<>> \in Seq({d})
      BY Singleton
    <2>3. <<>> \o <<>> = <<>> /\ <<>> \o <<e>> = <<e>>
      BY <2>2, ConcatEmptySeq
    <2>4. CASE e = "text"
      <3>1. Expected(t, n + 1) = TurnHeader(fold) \o <<>> \o <<e>>
        BY <2>1, <2>4 DEF TurnHeader, Chunks
      <3>2. TurnHeader(fold) \in Seq({"turn header"})
        BY <2>2 DEF TurnHeader
      <3>3. TurnHeader(fold) \o <<>> = TurnHeader(fold)
        BY <3>2, ConcatEmptySeq
      <3>4. AdvanceText(fold, e) = TurnHeader(fold) \o <<e>>
        BY <2>4 DEF AdvanceText
      <3> QED
        BY <3>1, <3>3, <3>4
    <2>5. CASE e = "thought"
      BY <2>1, <2>5 DEF AdvanceText, TurnHeader, ThoughtHeader, Chunks
    <2>6. CASE e \in {"block", "end"}
      <3>1. Expected(t, n + 1) = <<>> \o <<>> \o <<e>>
        BY <2>1, <2>6 DEF Chunks
      <3>2. AdvanceText(fold, e) = <<e>>
        BY <2>6 DEF AdvanceText
      <3> QED
        BY <2>3, <3>1, <3>2
    <2>7. CASE e = "silent"
      BY <2>1, <2>7 DEF AdvanceText, Chunks
    <2> QED
      BY <1>7, <2>4, <2>5, <2>6, <2>7
  <1> QED
    BY <1>9, <1>10 DEF next, t, n

LEMMA ReadingAppend ==
    ASSUME NEW es \in Seq(EffectKinds), NEW e \in EffectKinds
    PROVE  /\ ReadingOf(es) \in Seq(Pieces)
           /\ Expected(Append(es, e), Len(es) + 1) \in Seq(Pieces)
           /\ ReadingOf(Append(es, e))
                  = ReadingOf(es) \o Expected(Append(es, e), Len(es) + 1)
  <1> DEFINE n == Len(es)
             t == Append(es, e)
             V == Seq(Pieces)
             p == [i \in 1..n |-> Expected(es, i)]
             q == [i \in 1..(n + 1) |-> Expected(t, i)]
  <1>1. /\ n \in Nat /\ t \in Seq(EffectKinds) /\ Len(t) = n + 1
        /\ \A i \in 1..n : t[i] = es[i]
    OBVIOUS
  <1>2. ReadingOf(es) = FlattenSeq(p) /\ ReadingOf(t) = FlattenSeq(q)
    <2>1. ReadingOf(t) = FlattenSeq([i \in 1..Len(t) |-> Expected(t, i)])
      BY Zenon DEF ReadingOf
    <2>2. ReadingOf(es) = FlattenSeq(p)
      BY Zenon DEF ReadingOf
    <2> QED
      BY <1>1, <2>1, <2>2, Zenon
  <1>3. /\ \A i \in 1..n : Expected(es, i) \in V
        /\ \A i \in 1..(n + 1) : Expected(t, i) \in V
    BY <1>1, ExpectedType
  <1>4. ASSUME NEW i \in 1..n PROVE Expected(t, i) = Expected(es, i)
    <2>1. t[i] = es[i] /\ \A j \in 1..(i - 1) : t[j] = es[j]
      BY <1>1
    <2>2. \A j \in 1..(i - 1) : \A k \in j..(i - 1) : k \in 1..(i - 1)
      OBVIOUS
    <2>3. FirstOfTurn(t, i) <=> FirstOfTurn(es, i)
      BY <2>1, <2>2 DEF FirstOfTurn
    <2>4. StartsThought(t, i) <=> StartsThought(es, i)
      BY <2>1, <2>2 DEF StartsThought
    <2> QED
      BY <2>1, <2>3, <2>4, Zenon DEF Expected
  <1> HIDE DEF t, n, V
  <1>5. p \in [1..n -> V] /\ q \in [1..(n + 1) -> V]
    BY <1>3
  <1>6. \A i \in 1..n : q[i] = p[i]
    <2>1. \A i \in 1..n : i \in 1..(n + 1)
      BY <1>1
    <2> QED
      BY <1>4, <2>1, Zenon
  <1>7. q[n + 1] = Expected(t, n + 1)
    <2>1. n + 1 \in 1..(n + 1)
      BY <1>1
    <2> QED
      BY <2>1, Zenon
  <1> HIDE DEF p, q
  <1>8. p \in Seq(V) /\ q[n + 1] \in V /\ q = Append(p, q[n + 1])
    BY <1>1, <1>5, <1>6, ContinuedByOne
  <1>9. FlattenSeq(q) = FlattenSeq(p) \o q[n + 1]
    BY <1>8, FlattenAppend DEF V
  <1>10. FlattenSeq(p) \in Seq(Pieces)
    BY <1>8, FlattenType DEF V
  <1> QED
    BY <1>2, <1>7, <1>8, <1>9, <1>10 DEF n, t, V

(* A delivery of any effects keeps the fold and the text in step.          *)
LEMMA ReadsAfter ==
    ASSUME NEW fold, NEW es \in Seq(EffectKinds), NEW gs \in Seq(EffectKinds),
           Reads(fold, es)
    PROVE  /\ Reads(FoldAfter(fold, gs), es \o gs)
           /\ ReadingOf(es \o gs) = ReadingOf(es) \o TextOf(fold, gs)
  <1> DEFINE P(k) == SubSeq(gs, 1, k)
             Good(g) == /\ Reads(FoldAfter(fold, g), es \o g)
                        /\ ReadingOf(es \o g) = ReadingOf(es) \o TextOf(fold, g)
             T == {k \in Nat : k <= Len(gs) => Good(P(k))}
  <1>1. fold \in Fold
    BY DEF Reads
  <1>2. Good(<<>>)
    <2>1. es \o <<>> = es
      OBVIOUS
    <2>2. FoldAfter(fold, <<>>) = fold
      BY <1>1, FoldAfterNothing
    <2>3. TextOf(fold, <<>>) = <<>>
      <3>1. [i \in 1..Len(<<>>) |->
                AdvanceText(FoldAfter(fold, SubSeq(<<>>, 1, i - 1)), <<>>[i])] = <<>>
        OBVIOUS
      <3> QED
        BY <3>1, FlattenEmpty DEF TextOf
    <2>4. ReadingOf(es) \o <<>> = ReadingOf(es)
      <3>1. "text" \in EffectKinds
        BY DEF EffectKinds
      <3>2. ReadingOf(es) \in Seq(Pieces)
        BY <3>1, ReadingAppend
      <3> QED
        BY <3>2, ConcatEmptySeq
    <2> QED
      BY <2>1, <2>2, <2>3, <2>4
  <1>3. ASSUME NEW g \in Seq(EffectKinds), NEW e \in EffectKinds, Good(g)
        PROVE  Good(Append(g, e))
    <2> DEFINE eg == es \o g
               fg == FoldAfter(fold, g)
    <2>1. eg \in Seq(EffectKinds) /\ es \o Append(g, e) = Append(eg, e)
      OBVIOUS
    <2>2. Reads(fg, eg) /\ ReadingOf(eg) = ReadingOf(es) \o TextOf(fold, g)
      BY <1>3
    <2>3. FoldAfter(fold, Append(g, e)) = AdvanceFold(fg, e)
      BY <1>1, FoldAfterAppend
    <2>4. TextOf(fold, g) \in Seq(Pieces)
          /\ TextOf(fold, Append(g, e)) = TextOf(fold, g) \o AdvanceText(fg, e)
      BY <1>1, TextOfAppend
    <2>5. fg \in Fold
      BY <1>1, FoldAfterType
    <2> HIDE DEF eg, fg
    <2>6. /\ Reads(AdvanceFold(fg, e), Append(eg, e))
          /\ Expected(Append(eg, e), Len(eg) + 1) = AdvanceText(fg, e)
      BY <2>1, <2>2, ReadsStep
    <2>7. ReadingOf(Append(eg, e)) = ReadingOf(eg) \o AdvanceText(fg, e)
      BY <2>1, <2>6, ReadingAppend
    <2>8. ReadingOf(es) \in Seq(Pieces)
      BY ReadingAppend
    <2>9. AdvanceText(fg, e) \in Seq(Pieces)
      BY <2>5, AdvanceTextType
    <2>10. ReadingOf(Append(eg, e))
               = ReadingOf(es) \o (TextOf(fold, g) \o AdvanceText(fg, e))
      BY <2>2, <2>4, <2>7, <2>8, <2>9, ConcatRegroup
    <2> QED
      BY <2>1, <2>3, <2>4, <2>6, <2>10
  <1> HIDE DEF Good
  <1>4. 0 \in T
    BY <1>2, PrefixSteps
  <1>5. ASSUME NEW k \in T PROVE k + 1 \in T
    <2>1. SUFFICES ASSUME k + 1 <= Len(gs) PROVE Good(P(k + 1))
      OBVIOUS
    <2>2. k \in 0..(Len(gs) - 1) /\ k \in 0..Len(gs) /\ k <= Len(gs)
      BY <2>1
    <2>3. /\ P(k) \in Seq(EffectKinds) /\ gs[k + 1] \in EffectKinds
          /\ P(k + 1) = Append(P(k), gs[k + 1])
      BY <2>2, PrefixSteps
    <2>4. Good(P(k))
      BY <2>2
    <2> HIDE DEF P
    <2> QED
      BY <1>3, <2>3, <2>4
  <1>6. T \in SUBSET Nat
    OBVIOUS
  <1> HIDE DEF T
  <1>7. T = Nat
    BY <1>4, <1>5, <1>6, NatSetInduction
  <1>8. Good(P(Len(gs)))
    BY <1>7 DEF T
  <1>9. P(Len(gs)) = gs
    BY PrefixSteps
  <1> QED
    BY <1>8, <1>9 DEF Good

-----------------------------------------------------------------------------
(* Messages and their JSON.                                                *)

(* to_json and parse_message are inverse on what is said.                  *)
LEMMA RoundTrip ==
    ASSUME NEW m \in Messages
    PROVE  ValidEnvelope(ToJson(m)) /\ ParseMessage(ToJson(m)) = m
  <1>1. WellFormed(m) /\ ToJson(m) # NotAnObject
    BY MessagesAssumption
  <1> DEFINE p == ToJson(m)
  <1>2. CASE m.type = "Request"
    <2>1. m = Request(m.id, m.method, m.params) /\ m.id \in {"int", "str"}
          /\ m.method # "not a string"
      BY <1>1, <1>2 DEF WellFormed
    <2>2. /\ DOMAIN p = {"jsonrpc", "id", "method"}
                 \cup (IF m.params = Null THEN {} ELSE {"params"})
          /\ p["jsonrpc"] = "2.0" /\ p.id = m.id /\ p.method = m.method
          /\ m.params # Null => p.params = m.params
      BY <1>2, <2>1 DEF ToJson, Object, Without, Request
    <2> HIDE DEF p
    <2>3. Get(p, "params") = m.params
      BY <2>2 DEF Get, Has
    <2>4. ValidEnvelope(p)
      BY <1>1, <2>1, <2>2, NullAssumption DEF p, ValidEnvelope, Get, Has, ValidId
    <2>5. ParseMessage(p) = Request(m.id, m.method, m.params)
      BY <2>2, <2>3 DEF ParseMessage, Has
    <2> QED
      BY <2>1, <2>4, <2>5 DEF p
  <1>3. CASE m.type = "Notification"
    <2>1. m = Notification(m.method, m.params) /\ m.method # "not a string"
      BY <1>1, <1>3 DEF WellFormed
    <2>2. /\ DOMAIN p = {"jsonrpc", "method"}
                 \cup (IF m.params = Null THEN {} ELSE {"params"})
          /\ p["jsonrpc"] = "2.0" /\ p.method = m.method
          /\ m.params # Null => p.params = m.params
      BY <1>3, <2>1 DEF ToJson, Object, Without, Notification
    <2> HIDE DEF p
    <2>3. Get(p, "params") = m.params
      BY <2>2 DEF Get, Has
    <2>4. ValidEnvelope(p)
      BY <1>1, <2>1, <2>2 DEF p, ValidEnvelope, Get, Has
    <2>5. ParseMessage(p) = Notification(m.method, m.params)
      BY <2>2, <2>3 DEF ParseMessage, Has
    <2> QED
      BY <2>1, <2>4, <2>5 DEF p
  <1>4. CASE m.type = "Response"
    <2>1. m = Response(m.id, m.result) /\ m.id \in {"int", "str"}
      BY <1>1, <1>4 DEF WellFormed
    <2>2. /\ DOMAIN p = {"jsonrpc", "id", "result"}
          /\ p["jsonrpc"] = "2.0" /\ p.id = m.id /\ p.result = m.result
      BY <1>4, <2>1 DEF ToJson, Object, Without, Response
    <2> HIDE DEF p
    <2>3. ValidEnvelope(p)
      BY <1>1, <2>1, <2>2, NullAssumption DEF p, ValidEnvelope, Get, Has, ValidId
    <2>4. ParseMessage(p) = Response(m.id, m.result)
      BY <2>2 DEF ParseMessage, Has
    <2> QED
      BY <2>1, <2>3, <2>4 DEF p
  <1>5. CASE m.type = "ResponseError"
    <2>1. m = ResponseError(m.id, m.error) /\ ValidId(m.id) /\ m.error = "error"
      BY <1>1, <1>5 DEF WellFormed
    <2>2. /\ DOMAIN p = {"jsonrpc", "id", "error"}
          /\ p["jsonrpc"] = "2.0" /\ p.id = m.id /\ p.error = "error"
      BY <1>5, <2>1 DEF ToJson, Object, Without, ResponseError
    <2> HIDE DEF p
    <2>3. ValidEnvelope(p)
      BY <1>1, <2>1, <2>2 DEF p, ValidEnvelope, Get, Has
    <2>4. ParseMessage(p) = ResponseError(m.id, m.error)
      BY <2>1, <2>2 DEF ParseMessage, Has
    <2> QED
      BY <2>1, <2>3, <2>4 DEF p
  <1> QED
    BY <1>1, <1>2, <1>3, <1>4, <1>5 DEF WellFormed

Results == Messages \cup {Invalid, Failure}

LEMMA EffectOfType ==
    ASSUME NEW r \in Results
    PROVE  EffectOf(r) \in EffectKinds
  <1>1. CASE r \in Messages
    <2>1. WellFormed(r)
      BY <1>1, MessagesAssumption
    <2> QED
      BY <2>1 DEF WellFormed, EffectOf, EffectKinds
  <1>2. CASE r \in {Invalid, Failure}
    BY <1>2 DEF Invalid, Failure, EffectOf, EffectKinds
  <1> QED
    BY <1>1, <1>2 DEF Results

-----------------------------------------------------------------------------
(* What a line of any bytes is decoded to.                                 *)

Payloads == {ToJson(m) : m \in Messages} \cup BadPayloads \cup {NotAnObject}
Bytes == {NL, SP} \cup {Opening(p) : p \in Payloads} \cup {Closing(p) : p \in Payloads}

LEMMA ParsedType ==
    ASSUME NEW p \in Payloads, ValidEnvelope(p)
    PROVE  ParseMessage(p) \in Messages
  <1>1. p \notin BadPayloads
    BY BadPayloadsAssumption
  <1>2. p # NotAnObject
    BY DEF ValidEnvelope
  <1>3. PICK m \in Messages : p = ToJson(m)
    BY <1>1, <1>2 DEF Payloads
  <1> QED
    BY <1>3, RoundTrip

LEMMA OpeningOf ==
    ASSUME NEW b \in Bytes, b[1] = "opening"
    PROVE  b[2] \in Payloads
  BY DEF Bytes, NL, SP, Opening, Closing

LEMMA StripType ==
    ASSUME NEW line \in Seq(Bytes)
    PROVE  Strip(line) \in Seq(Bytes)
  <1> DEFINE inked == {i \in DOMAIN line : line[i] # SP}
             n == Len(line)
  <1>1. n \in Nat /\ inked \in SUBSET Nat /\ inked \in SUBSET (0..n)
        /\ inked \in SUBSET (1..n)
    OBVIOUS
  <1>2. Strip(line) = IF inked = {} THEN <<>> ELSE SubSeq(line, Min(inked), Max(inked))
    BY DEF Strip
  <1> HIDE DEF inked, n
  <1>3. ASSUME inked # {} PROVE Min(inked) \in 1..n /\ Max(inked) \in 1..n
    BY <1>1, <1>3, MinOf, MaxOf
  <1>4. ASSUME inked # {} PROVE SubSeq(line, Min(inked), Max(inked)) \in Seq(Bytes)
    BY <1>3, <1>4 DEF n
  <1> QED
    BY <1>2, <1>4

LEMMA DecodeLineType ==
    ASSUME NEW line \in Seq(Bytes)
    PROVE  DecodeLine(line) \in Seq(Results)
  <1> DEFINE s == Strip(line)
             p == s[1][2]
  <1>1. s \in Seq(Bytes)
    BY StripType
  <1> HIDE DEF s
  <1>2. ASSUME IsJson(line) PROVE p \in Payloads
    <2>1. Len(s) = 2 /\ s[1][1] = "opening"
      BY <1>2 DEF IsJson, s
    <2>2. s[1] \in Bytes
      BY <1>1, <2>1
    <2> QED
      BY <2>1, <2>2, OpeningOf
  <1>3. \/ DecodeLine(line) \in {<<>>, <<Failure>>, <<Invalid>>}
        \/ /\ DecodeLine(line) = <<ParseMessage(p)>>
           /\ IsJson(line) /\ ValidEnvelope(p)
    BY DEF DecodeLine, s
  <1> HIDE DEF p
  <1>4. \A r \in Results : <<r>> \in Seq(Results)
    BY Singleton
  <1>5. <<>> \in Seq(Results)
    OBVIOUS
  <1>6. Failure \in Results /\ Invalid \in Results
    BY DEF Results
  <1>7. ASSUME IsJson(line), ValidEnvelope(p) PROVE ParseMessage(p) \in Results
    BY <1>2, <1>7, ParsedType DEF Results
  <1> QED
    BY <1>3, <1>4, <1>5, <1>6, <1>7, Zenon

LEMMA NewlinesIn ==
    ASSUME NEW bytes \in Seq(Bytes)
    PROVE  Newlines(bytes) \in SUBSET (1..Len(bytes))
  BY DEF Newlines

(* The line before a position, and what is left after the last newline.    *)
LEMMA LineUpToType ==
    ASSUME NEW bytes \in Seq(Bytes), NEW i \in 1..Len(bytes)
    PROVE  LineUpTo(bytes, i) \in Seq(Bytes)
  <1> DEFINE S == {j \in Newlines(bytes) : j < i} \cup {0}
             n == Len(bytes)
  <1>1. S \in SUBSET (0..(i - 1)) /\ S # {} /\ i - 1 \in Nat
    BY DEF Newlines
  <1>2. LineUpTo(bytes, i) = SubSeq(bytes, Max(S) + 1, i - 1)
    BY DEF LineUpTo
  <1> HIDE DEF S
  <1>3. Max(S) \in 0..(i - 1)
    BY <1>1, MaxOf
  <1> QED
    BY <1>2, <1>3

LEMMA RestType ==
    ASSUME NEW bytes \in Seq(Bytes)
    PROVE  /\ LastNewline(bytes) \in 0..Len(bytes)
           /\ Rest(bytes) \in Seq(Bytes)
  <1> DEFINE S == Newlines(bytes) \cup {0}
             n == Len(bytes)
  <1>1. S \in SUBSET (0..n) /\ S # {} /\ n \in Nat
    BY DEF Newlines
  <1> HIDE DEF S, n
  <1>2. Max(S) \in 0..n
    BY <1>1, MaxOf
  <1>3. LastNewline(bytes) \in 0..n
    BY <1>2 DEF LastNewline, S
  <1> QED
    BY <1>3 DEF Rest, n

LEMMA DecodedType ==
    ASSUME NEW bytes \in Seq(Bytes)
    PROVE  /\ [i \in 1..Len(bytes) |->
                 IF bytes[i] = NL THEN DecodeLine(LineUpTo(bytes, i)) ELSE <<>>]
              \in Seq(Seq(Results))
           /\ Decoded(bytes) \in Seq(Results)
  <1> DEFINE s == [i \in 1..Len(bytes) |->
                     IF bytes[i] = NL THEN DecodeLine(LineUpTo(bytes, i)) ELSE <<>>]
             V == Seq(Results)
  <1>1. ASSUME NEW i \in 1..Len(bytes)
        PROVE  (IF bytes[i] = NL THEN DecodeLine(LineUpTo(bytes, i)) ELSE <<>>) \in V
    <2>1. DecodeLine(LineUpTo(bytes, i)) \in V
      BY LineUpToType, DecodeLineType
    <2>2. <<>> \in V
      OBVIOUS
    <2> QED
      BY <2>1, <2>2
  <1>2. Len(bytes) \in Nat
    OBVIOUS
  <1>3. s \in Seq(V)
    <2> HIDE DEF V
    <2> QED
      BY <1>1, <1>2
  <1>4. Decoded(bytes) = FlattenSeq(s)
    BY Zenon DEF Decoded
  <1> HIDE DEF s
  <1>5. FlattenSeq(s) \in Seq(Results)
    BY <1>3, FlattenType
  <1> QED
    BY <1>3, <1>4, <1>5 DEF s

LEMMA EffectsType ==
    ASSUME NEW bytes \in Seq(Bytes)
    PROVE  [i \in DOMAIN Decoded(bytes) |-> EffectOf(Decoded(bytes)[i])]
               \in Seq(EffectKinds)
  <1> DEFINE d == Decoded(bytes)
  <1>1. d \in Seq(Results)
    BY DecodedType
  <1> HIDE DEF d
  <1>2. DOMAIN d = 1..Len(d) /\ Len(d) \in Nat /\ \A i \in 1..Len(d) : d[i] \in Results
    BY <1>1
  <1>3. \A i \in 1..Len(d) : EffectOf(d[i]) \in EffectKinds
    BY <1>2, EffectOfType
  <1> QED
    BY <1>2, <1>3 DEF d

-----------------------------------------------------------------------------
(* The transcripts.                                                        *)

(* What is on the way is made of JSON texts, blanks and newlines.          *)
BytesOK == pipe \in Seq(Bytes) /\ buffer \in Seq(Bytes)

(* Inductive: TranscriptReadsRight says nothing of the fold, and without   *)
(* Reads the next delivery could put a header twice or not at all.         *)
BuffersRead ==
    /\ folds \in [AgentBuffers -> Fold]
    /\ transcript \in [AgentBuffers -> Seq(Pieces)]
    /\ delivered \in [AgentBuffers -> Seq(EffectKinds)]
    /\ \A b \in AgentBuffers :
           /\ Reads(folds[b], delivered[b])
           /\ transcript[b] = ReadingOf(delivered[b])

TranscriptInv == BytesOK /\ BuffersRead

LEMMA ReadingEmpty == ReadingOf(<<>>) = <<>>
  <1>1. [i \in 1..Len(<<>>) |-> Expected(<<>>, i)] = <<>>
    OBVIOUS
  <1> QED
    BY <1>1, FlattenEmpty DEF ReadingOf

LEMMA LineType ==
    ASSUME NEW item \in Items
    PROVE  Line(item) \in Seq(Bytes)
  <1>1. /\ NL \in Bytes /\ SP \in Bytes
        /\ \A p \in Payloads : Opening(p) \in Bytes /\ Closing(p) \in Bytes
    BY DEF Bytes
  <1>2. \A p \in Payloads : Encode(p) \in Seq(Bytes)
    <2>1. \A a, b, c \in Bytes : <<a, b, c>> \in Seq(Bytes)
      OBVIOUS
    <2> QED
      BY <1>1, <2>1, Zenon DEF Encode
  <1>3. NotAnObject \in Payloads
    BY DEF Payloads
  <1>4. \A a, b \in Bytes : <<a, b>> \in Seq(Bytes)
    OBVIOUS
  <1>5. CASE item.kind = "message"
    <2>1. ToJson(item.value) \in Payloads
      BY <1>5 DEF Items, Payloads
    <2>2. Line(item) = Encode(ToJson(item.value))
      BY <1>5 DEF Line
    <2> QED
      BY <1>2, <2>1, <2>2
  <1>6. CASE item.kind = "payload"
    <2>1. item.value \in Payloads
      BY <1>6 DEF Items, Payloads
    <2>2. Line(item) = <<SP>> \o Encode(item.value)
      BY <1>6 DEF Line
    <2>3. <<SP>> \in Seq(Bytes) /\ Encode(item.value) \in Seq(Bytes)
      BY <1>1, <1>2, <2>1, Singleton
    <2> QED
      BY <2>2, <2>3, ConcatInSeq
  <1>7. CASE item.kind = "blank"
    <2>1. Line(item) = <<SP, NL>>
      BY <1>7 DEF Line
    <2> QED
      BY <1>1, <1>4, <2>1
  <1>8. CASE item.kind = "garbage"
    <2>1. Line(item) = <<Opening(NotAnObject), NL>>
      BY <1>8 DEF Line
    <2> QED
      BY <1>1, <1>3, <1>4, <2>1, Zenon
  <1> QED
    BY <1>5, <1>6, <1>7, <1>8 DEF Items

LEMMA DeliverReads ==
    ASSUME BuffersRead, NEW b \in AgentBuffers,
           NEW effects \in Seq(EffectKinds), Deliver(b, effects)
    PROVE  BuffersRead'
  <1> DEFINE fold == folds[b]
             es == delivered[b]
             after == FoldAfter(fold, effects)
             text == TextOf(fold, effects)
  <1>1. fold \in Fold /\ es \in Seq(EffectKinds) /\ transcript[b] \in Seq(Pieces)
    BY DEF BuffersRead
  <1>2. Reads(fold, es) /\ transcript[b] = ReadingOf(es)
    BY DEF BuffersRead
  <1>3. /\ folds' = [folds EXCEPT ![b] = after]
        /\ transcript' = [transcript EXCEPT ![b] = transcript[b] \o text]
        /\ delivered' = [delivered EXCEPT ![b] = es \o effects]
    BY DEF Deliver
  <1>4. after \in Fold
    BY <1>1, FoldAfterType
  <1>5. text \in Seq(Pieces)
    <2>1. "text" \in EffectKinds
      BY DEF EffectKinds
    <2> QED
      BY <1>1, <2>1, TextOfAppend
  <1>6. Reads(after, es \o effects) /\ ReadingOf(es \o effects) = ReadingOf(es) \o text
    BY <1>1, <1>2, ReadsAfter
  <1>7. es \o effects \in Seq(EffectKinds) /\ transcript[b] \o text \in Seq(Pieces)
    BY <1>1, <1>5, ConcatInSeq
  <1> HIDE DEF after, text
  <1>8. /\ folds' \in [AgentBuffers -> Fold]
        /\ transcript' \in [AgentBuffers -> Seq(Pieces)]
        /\ delivered' \in [AgentBuffers -> Seq(EffectKinds)]
    <2>1. folds' \in [AgentBuffers -> Fold]
      BY <1>3, <1>4 DEF BuffersRead
    <2>2. transcript' \in [AgentBuffers -> Seq(Pieces)]
      BY <1>3, <1>7 DEF BuffersRead
    <2>3. delivered' \in [AgentBuffers -> Seq(EffectKinds)]
      BY <1>3, <1>7 DEF BuffersRead
    <2> QED
      BY <2>1, <2>2, <2>3
  <1>9. ASSUME NEW c \in AgentBuffers
        PROVE  /\ Reads(folds'[c], delivered'[c])
               /\ transcript'[c] = ReadingOf(delivered'[c])
    <2>1. CASE c = b
      <3>1. folds'[c] = after /\ delivered'[c] = es \o effects
            /\ transcript'[c] = transcript[b] \o text
        BY <1>3, <2>1 DEF BuffersRead
      <3> QED
        BY <1>2, <1>6, <3>1
    <2>2. CASE c # b
      <3>1. folds'[c] = folds[c] /\ delivered'[c] = delivered[c]
            /\ transcript'[c] = transcript[c]
        BY <1>3, <2>2 DEF BuffersRead
      <3> QED
        BY <3>1 DEF BuffersRead
    <2> QED
      BY <2>1, <2>2
  <1> QED
    BY <1>8, <1>9 DEF BuffersRead

LEMMA TranscriptInit == Init => TranscriptInv
  <1> SUFFICES ASSUME Init PROVE TranscriptInv
    OBVIOUS
  <1>1. <<>> \in Seq(Bytes) /\ <<>> \in Seq(Pieces) /\ <<>> \in Seq(EffectKinds)
    OBVIOUS
  <1>2. FreshFold \in Fold
    BY FreshReads DEF Reads
  <1>3. BytesOK
    BY <1>1 DEF Init, BytesOK
  <1>4. BuffersRead
    BY <1>1, <1>2, FreshReads, ReadingEmpty DEF Init, BuffersRead
  <1> QED
    BY <1>3, <1>4 DEF TranscriptInv

LEMMA TranscriptStep == TranscriptInv /\ [Next]_vars => TranscriptInv'
  <1> SUFFICES ASSUME TranscriptInv, [Next]_vars PROVE TranscriptInv'
    OBVIOUS
  <1> USE DEF TranscriptInv
  <1>1. ASSUME NEW item \in Items, Write(item) PROVE TranscriptInv'
    <2>1. Line(item) \in Seq(Bytes)
      BY LineType
    <2>2. pipe' = pipe \o Line(item) /\ buffer' = buffer
      BY <1>1 DEF Write
    <2>3. BytesOK'
      BY <2>1, <2>2, ConcatInSeq DEF BytesOK
    <2>4. BuffersRead'
      BY <1>1 DEF Write, BuffersRead
    <2> QED
      BY <2>3, <2>4
  <1>2. ASSUME NEW begun \in {<<>>, <<Opening(NotAnObject)>>}, Die(begun)
        PROVE  TranscriptInv'
    <2>1. Opening(NotAnObject) \in Bytes
      BY DEF Bytes, Payloads
    <2>2. begun \in Seq(Bytes)
      <3>1. <<>> \in Seq(Bytes)
        OBVIOUS
      <3> QED
        BY <2>1, <3>1, Singleton
    <2>3. pipe' = pipe \o begun /\ buffer' = buffer
      BY <1>2 DEF Die
    <2>4. BytesOK'
      BY <2>2, <2>3, ConcatInSeq DEF BytesOK
    <2>5. BuffersRead'
      BY <1>2 DEF Die, historyVars, BuffersRead
    <2> QED
      BY <2>4, <2>5
  <1>3. ASSUME NEW n \in 1..Len(pipe), NEW b \in AgentBuffers, Receive(n, b)
        PROVE  TranscriptInv'
    <2> DEFINE bytes == buffer \o SubSeq(pipe, 1, n)
               effects == [i \in DOMAIN Decoded(bytes) |-> EffectOf(Decoded(bytes)[i])]
    <2>1. /\ pipe' = SubSeq(pipe, n + 1, Len(pipe))
          /\ buffer' = Rest(bytes)
          /\ Deliver(b, effects)
      BY <1>3 DEF Receive
    <2>2. SubSeq(pipe, 1, n) \in Seq(Bytes) /\ SubSeq(pipe, n + 1, Len(pipe)) \in Seq(Bytes)
      BY DEF BytesOK
    <2>3. bytes \in Seq(Bytes)
      BY <2>2, ConcatInSeq DEF BytesOK
    <2> HIDE DEF bytes
    <2>4. BytesOK'
      BY <2>1, <2>2, <2>3, RestType DEF BytesOK
    <2>5. effects \in Seq(EffectKinds)
      BY <2>3, EffectsType
    <2> HIDE DEF effects
    <2>6. BuffersRead'
      BY <2>1, <2>5, DeliverReads
    <2> QED
      BY <2>4, <2>6
  <1>4. ASSUME NEW b \in AgentBuffers, Exited(b) PROVE TranscriptInv'
    <2>1. "block" \in EffectKinds
      BY DEF EffectKinds
    <2>2. <<"block">> \in Seq(EffectKinds)
      BY <2>1, Singleton
    <2>3. Deliver(b, <<"block">>) /\ buffer' = <<>> /\ pipe' = pipe
      BY <1>4 DEF Exited, Reset
    <2>4. BytesOK'
      BY <2>3 DEF BytesOK
    <2>5. BuffersRead'
      BY <2>2, <2>3, DeliverReads
    <2> QED
      BY <2>4, <2>5
  <1>5. CASE UNCHANGED vars
    BY <1>5 DEF vars, historyVars, BytesOK, BuffersRead
  <1> QED
    BY <1>1, <1>2, <1>3, <1>4, <1>5 DEF Next

THEOREM TranscriptCorrect == Spec => []TranscriptInv
  BY TranscriptInit, TranscriptStep, PTL DEF Spec

(* advance, _render_effects: every buffer's transcript is that of its own  *)
(* effects, for any number of buffers, any batches and any messages.       *)
THEOREM TranscriptsReadRight == Spec => []TranscriptReadsRight
  <1>1. TranscriptInv => TranscriptReadsRight
    BY Zenon DEF TranscriptInv, BuffersRead, TranscriptReadsRight, ReadingOf
  <1> QED
    BY <1>1, TranscriptCorrect, PTL

-----------------------------------------------------------------------------
(* The decoder, one byte at a time.                                        *)

LEMMA NewlinesAppend ==
    ASSUME NEW bytes \in Seq(Bytes), NEW x \in Bytes
    PROVE  Newlines(Append(bytes, x)) =
               Newlines(bytes) \cup (IF x = NL THEN {Len(bytes) + 1} ELSE {})
  <1> DEFINE t == Append(bytes, x)
             n == Len(bytes)
  <1>1. /\ n \in Nat /\ Len(t) = n + 1
        /\ t[n + 1] = x /\ \A i \in 1..n : t[i] = bytes[i]
    OBVIOUS
  <1>2. 1..(n + 1) = (1..n) \cup {n + 1}
    BY <1>1
  <1> HIDE DEF t, n
  <1>3. Newlines(t) = {i \in (1..n) \cup {n + 1} : t[i] = NL}
    BY <1>1, <1>2 DEF Newlines
  <1> QED
    BY <1>1, <1>3 DEF Newlines, t, n

LEMMA SubSeqAppend ==
    ASSUME NEW S, NEW s \in Seq(S), NEW x \in S, NEW m \in 0..Len(s)
    PROVE  SubSeq(Append(s, x), m + 1, Len(s) + 1)
               = Append(SubSeq(s, m + 1, Len(s)), x)
  <1> DEFINE n == Len(s)
             t == Append(s, x)
             u == SubSeq(t, m + 1, n + 1)
             v == SubSeq(s, m + 1, n)
             w == Append(v, x)
  <1>1. n \in Nat /\ t \in Seq(S) /\ Len(t) = n + 1
        /\ t[n + 1] = x /\ \A i \in 1..n : t[i] = s[i]
    OBVIOUS
  <1>2. /\ u \in Seq(S) /\ Len(u) = (n - m) + 1
        /\ \A i \in 1..((n - m) + 1) : u[i] = t[m + i]
    <2> HIDE DEF t
    <2> QED
      BY <1>1
  <1>3. v \in Seq(S) /\ Len(v) = n - m /\ \A i \in 1..(n - m) : v[i] = s[m + i]
    BY <1>1
  <1> HIDE DEF t, u, v, n
  <1>4. /\ w \in Seq(S) /\ Len(w) = (n - m) + 1 /\ w[(n - m) + 1] = x
        /\ \A i \in 1..(n - m) : w[i] = v[i]
    BY <1>3, AppendProperties
  <1>5. ASSUME NEW i \in 1..((n - m) + 1) PROVE u[i] = w[i]
    <2>0. m \in 0..n
      BY DEF n
    <2>1. CASE i = (n - m) + 1
      <3>1. m + i = n + 1
        BY <1>1, <2>0, <2>1
      <3> QED
        BY <1>1, <1>2, <1>4, <2>1, <3>1
    <2>2. CASE i \in 1..(n - m)
      <3>1. m + i \in 1..n
        BY <1>1, <2>0, <2>2
      <3> QED
        BY <1>1, <1>2, <1>3, <1>4, <2>2, <3>1
    <2>3. i = (n - m) + 1 \/ i \in 1..(n - m)
      BY <1>1, <2>0
    <2> QED
      BY <2>1, <2>2, <2>3
  <1> HIDE DEF w
  <1>6. u = w
    BY <1>2, <1>4, <1>5, SeqEqual
  <1> QED
    BY <1>6 DEF u, w, v, t, n

LEMMA RestAppend ==
    ASSUME NEW bytes \in Seq(Bytes), NEW x \in Bytes
    PROVE  Rest(Append(bytes, x)) = IF x = NL THEN <<>> ELSE Append(Rest(bytes), x)
  <1> DEFINE t == Append(bytes, x)
             n == Len(bytes)
             S == Newlines(bytes) \cup {0}
             S1 == Newlines(t) \cup {0}
  <1>1. n \in Nat /\ Len(t) = n + 1 /\ t \in Seq(Bytes)
    OBVIOUS
  <1>2. S1 = S \cup (IF x = NL THEN {n + 1} ELSE {})
    BY NewlinesAppend
  <1>3. Rest(t) = SubSeq(t, Max(S1) + 1, n + 1) /\ Rest(bytes) = SubSeq(bytes, Max(S) + 1, n)
    BY <1>1 DEF Rest, LastNewline
  <1>4. S \in SUBSET (0..n) /\ S # {} /\ S1 \in SUBSET (0..(n + 1)) /\ S1 # {}
    BY <1>1, <1>2 DEF Newlines
  <1> HIDE DEF S, S1
  <1>5. Max(S) \in 0..n
    BY <1>1, <1>4, MaxOf
  <1>6. CASE x = NL
    <2>1. n + 1 \in S1 /\ n + 1 \in Nat
      BY <1>1, <1>2, <1>6
    <2>2. Max(S1) \in S1 /\ n + 1 <= Max(S1)
      BY <1>4, <2>1, MaxOf
    <2>3. Max(S1) = n + 1
      <3>1. \A a \in 0..(n + 1) : n + 1 <= a => a = n + 1
        BY <1>1
      <3> QED
        BY <1>4, <2>2, <3>1, Zenon
    <2>4. SubSeq(t, (n + 1) + 1, n + 1) = <<>>
      BY <1>1
    <2> QED
      BY <1>3, <1>6, <2>3, <2>4
  <1>7. CASE x # NL
    <2>1. S1 = S
      BY <1>2, <1>7
    <2> DEFINE m == Max(S)
    <2>2. m \in 0..n /\ Rest(t) = SubSeq(t, m + 1, n + 1) /\ Rest(bytes) = SubSeq(bytes, m + 1, n)
      BY <1>3, <1>5, <2>1
    <2> HIDE DEF m
    <2>3. SubSeq(t, m + 1, n + 1) = Append(SubSeq(bytes, m + 1, n), x)
      BY <2>2, SubSeqAppend DEF n, t
    <2> QED
      BY <1>7, <2>2, <2>3
  <1> QED
    BY <1>6, <1>7

LEMMA LineUpToAppend ==
    ASSUME NEW bytes \in Seq(Bytes), NEW x \in Bytes
    PROVE  /\ \A i \in 1..Len(bytes) :
                  LineUpTo(Append(bytes, x), i) = LineUpTo(bytes, i)
           /\ LineUpTo(Append(bytes, x), Len(bytes) + 1) = Rest(bytes)
  <1> DEFINE t == Append(bytes, x)
             n == Len(bytes)
             before(b, i) == {j \in Newlines(b) : j < i} \cup {0}
  <1>1. n \in Nat /\ t \in Seq(Bytes) /\ Len(t) = n + 1
    OBVIOUS
  <1>2. \A i \in 1..(n + 1) : before(t, i) = before(bytes, i)
    BY NewlinesAppend
  <1>3. ASSUME NEW i \in 1..(n + 1)
        PROVE  /\ Max(before(bytes, i)) \in 0..(i - 1)
               /\ LineUpTo(t, i) = SubSeq(bytes, Max(before(bytes, i)) + 1, i - 1)
    <2> DEFINE S == before(bytes, i)
    <2>1. S \in SUBSET (0..(i - 1)) /\ S # {} /\ i - 1 \in Nat
      BY DEF Newlines
    <2>2. LineUpTo(t, i) = SubSeq(t, Max(S) + 1, i - 1)
      BY <1>2 DEF LineUpTo
    <2> HIDE DEF S
    <2>3. Max(S) \in 0..(i - 1)
      BY <2>1, MaxOf
    <2>4. SubSeq(t, Max(S) + 1, i - 1) = SubSeq(bytes, Max(S) + 1, i - 1)
      BY <1>1, <2>3
    <2> QED
      BY <2>2, <2>3, <2>4 DEF S
  <1>4. ASSUME NEW i \in 1..n PROVE LineUpTo(t, i) = LineUpTo(bytes, i)
    <2>1. i \in 1..(n + 1)
      BY <1>1
    <2>2. LineUpTo(bytes, i) = SubSeq(bytes, Max(before(bytes, i)) + 1, i - 1)
      BY Zenon DEF LineUpTo
    <2> HIDE DEF before
    <2> QED
      BY <1>3, <2>1, <2>2, Zenon
  <1>5. before(bytes, n + 1) = Newlines(bytes) \cup {0}
    BY DEF Newlines
  <1>6. LineUpTo(t, n + 1) = Rest(bytes)
    <2>1. n + 1 \in 1..(n + 1) /\ (n + 1) - 1 = n
      BY <1>1
    <2>2. LineUpTo(t, n + 1) = SubSeq(bytes, Max(before(bytes, n + 1)) + 1, (n + 1) - 1)
      BY <1>3, <2>1
    <2> HIDE DEF before
    <2> QED
      BY <1>5, <2>1, <2>2 DEF Rest, LastNewline
  <1> QED
    BY <1>4, <1>6

LEMMA DecodedAppend ==
    ASSUME NEW bytes \in Seq(Bytes), NEW x \in Bytes
    PROVE  Decoded(Append(bytes, x)) =
               IF x = NL THEN Decoded(bytes) \o DecodeLine(Rest(bytes))
                         ELSE Decoded(bytes)
  <1> DEFINE n == Len(bytes)
             t == Append(bytes, x)
             V == Seq(Results)
             D(b, i) == IF b[i] = NL THEN DecodeLine(LineUpTo(b, i)) ELSE <<>>
             p == [i \in 1..Len(bytes) |->
                     IF bytes[i] = NL THEN DecodeLine(LineUpTo(bytes, i)) ELSE <<>>]
             q == [i \in 1..Len(t) |->
                     IF t[i] = NL THEN DecodeLine(LineUpTo(t, i)) ELSE <<>>]
  <1>1. /\ n \in Nat /\ t \in Seq(Bytes) /\ Len(t) = n + 1
        /\ t[n + 1] = x /\ \A i \in 1..n : t[i] = bytes[i]
    OBVIOUS
  <1>2. p \in Seq(V) /\ DOMAIN p = 1..n
    BY DecodedType
  <1>3. q \in Seq(V) /\ DOMAIN q = 1..(n + 1)
    <2> HIDE DEF t
    <2>1. q \in Seq(V)
      BY <1>1, DecodedType
    <2> QED
      BY <1>1, <2>1
  <1>4. \A i \in 1..n : q[i] = p[i]
    BY <1>1, LineUpToAppend
  <1>5. q[n + 1] = IF x = NL THEN DecodeLine(Rest(bytes)) ELSE <<>>
    <2>1. n + 1 \in 1..Len(t)
      BY <1>1
    <2>2. LineUpTo(t, n + 1) = Rest(bytes)
      BY LineUpToAppend
    <2> HIDE DEF t
    <2> QED
      BY <1>1, <2>1, <2>2
  <1>6. Decoded(bytes) = FlattenSeq(p) /\ Decoded(t) = FlattenSeq(q)
    BY Zenon DEF Decoded
  <1> HIDE DEF p, q, V, n, t
  <1>7. p \in [1..n -> V] /\ q \in [1..(n + 1) -> V]
    BY <1>1, <1>2, <1>3
  <1>8. q[n + 1] \in V /\ q = Append(p, q[n + 1])
    BY <1>1, <1>4, <1>7, ContinuedByOne
  <1>9. FlattenSeq(q) = FlattenSeq(p) \o q[n + 1]
    BY <1>2, <1>8, FlattenAppend DEF V
  <1>10. FlattenSeq(p) \o <<>> = FlattenSeq(p)
    <2>1. FlattenSeq(p) \in Seq(Results)
      BY <1>2, FlattenType DEF V
    <2> QED
      BY <2>1, ConcatEmptySeq
  <1> QED
    BY <1>5, <1>6, <1>9, <1>10 DEF t

(* Without a newline there is nothing to decode, and all of it is left.    *)
LEMMA NothingFinished ==
    ASSUME NEW bytes \in Seq(Bytes), \A i \in 1..Len(bytes) : bytes[i] # NL
    PROVE  Newlines(bytes) = {} /\ Decoded(bytes) = <<>> /\ Rest(bytes) = bytes
  <1>1. Newlines(bytes) = {}
    BY DEF Newlines
  <1>2. Rest(bytes) = bytes
    <2>1. Max({0}) = 0
      BY DEF Max
    <2>2. LastNewline(bytes) = 0
      BY <1>1, <2>1 DEF LastNewline
    <2> QED
      BY <2>2 DEF Rest
  <1>3. Decoded(bytes) = <<>>
    <2> DEFINE n == Len(bytes)
               V == Seq(Results)
               s == [i \in 1..Len(bytes) |->
                       IF bytes[i] = NL THEN DecodeLine(LineUpTo(bytes, i)) ELSE <<>>]
               f == [i \in 0..n |-> <<>>]
    <2>1. s \in Seq(V) /\ Len(s) = n /\ n \in Nat /\ \A i \in 1..n : s[i] = <<>>
      BY DecodedType
    <2>2. f \in [0..n -> V] /\ f[0] = <<>> /\ f[n] = <<>>
      BY <2>1
    <2>3. ASSUME NEW i \in 1..n PROVE f[i] = f[i - 1] \o s[i]
      <3>1. f[i] = <<>> /\ f[i - 1] = <<>> /\ s[i] = <<>>
        BY <2>1
      <3>2. <<>> \o <<>> = <<>>
        <4>1. <<>> \in Seq(Results)
          OBVIOUS
        <4> QED
          BY <4>1, ConcatEmptySeq
      <3> QED
        BY <3>1, <3>2
    <2>4. Decoded(bytes) = FlattenSeq(s)
      BY Zenon DEF Decoded
    <2> HIDE DEF s, f, n
    <2>5. FlattenSeq(s) = f[n]
      BY <2>1, <2>2, <2>3, FlattenIs
    <2> QED
      BY <2>2, <2>4, <2>5
  <1> QED
    BY <1>1, <1>2, <1>3

-----------------------------------------------------------------------------
(* Lines, and what they come out as.                                       *)

NoNewline(bytes) == \A i \in 1..Len(bytes) : bytes[i] # NL

LEMMA StripSpan ==
    ASSUME NEW line \in Seq(Bytes), NEW a \in 1..Len(line), NEW c \in 1..Len(line),
           a <= c,
           \A i \in 1..Len(line) : line[i] # SP <=> a <= i /\ i <= c
    PROVE  Strip(line) = SubSeq(line, a, c)
  <1> DEFINE T == a..c
  <1>1. /\ T \in SUBSET Nat /\ T \in SUBSET (0..c) /\ T # {} /\ c \in Nat
        /\ a \in T /\ c \in T /\ \A y \in T : a <= y /\ y <= c
    OBVIOUS
  <1>2. Strip(line) = IF T = {} THEN <<>> ELSE SubSeq(line, Min(T), Max(T))
    <2>1. {i \in DOMAIN line : line[i] # SP} = T
      OBVIOUS
    <2> QED
      BY <2>1 DEF Strip
  <1> HIDE DEF T
  <1>3. Min(T) \in T /\ Min(T) <= a /\ Max(T) \in T /\ c <= Max(T)
    BY <1>1, MinOf, MaxOf
  <1>4. Min(T) = a /\ Max(T) = c
    <2>1. \A y \in T : (y <= a => y = a) /\ (c <= y => y = c)
      BY <1>1
    <2> QED
      BY <1>3, <2>1, Zenon
  <1> QED
    BY <1>1, <1>2, <1>4

(* Sequences of one, two and three bytes, and one byte more.               *)
LEMMA OneAndMore ==
    ASSUME NEW S, NEW a \in S, NEW x \in S
    PROVE  /\ <<a>> \in Seq(S) /\ Len(<<a>>) = 1 /\ <<a>>[1] = a
           /\ Append(<<a>>, x) = <<a, x>> /\ SubSeq(<<a>>, 1, 1) = <<a>>
  <1> DEFINE s == <<a>>
             t == <<a, x>>
  <1>1. /\ s \in Seq(S) /\ Len(s) = 1 /\ s[1] = a
        /\ t \in Seq(S) /\ Len(t) = 2 /\ t[1] = a /\ t[2] = x
    OBVIOUS
  <1> HIDE DEF s, t
  <1>2. SubSeq(s, 1, 1) = s
    BY <1>1, PrefixSteps
  <1>3. Len(t) = Len(s) + 1 /\ \A i \in 1..Len(s) : t[i] = s[i]
    BY <1>1
  <1>4. t[Len(s) + 1] = x
    BY <1>1
  <1>5. Append(s, x) = t
    BY <1>1, <1>3, <1>4, AppendIs
  <1> QED
    BY <1>1, <1>2, <1>5 DEF s, t

LEMMA TwoAndMore ==
    ASSUME NEW S, NEW a \in S, NEW b \in S, NEW x \in S
    PROVE  /\ <<a, b>> \in Seq(S) /\ Len(<<a, b>>) = 2
           /\ <<a, b>>[1] = a /\ <<a, b>>[2] = b
           /\ Append(<<a, b>>, x) = <<a, b, x>> /\ SubSeq(<<a, b>>, 1, 2) = <<a, b>>
  <1> DEFINE s == <<a, b>>
             t == <<a, b, x>>
  <1>1. s \in Seq(S) /\ Len(s) = 2 /\ s[1] = a /\ s[2] = b
    OBVIOUS
  <1>2. t \in Seq(S) /\ Len(t) = 3 /\ t[1] = a /\ t[2] = b /\ t[3] = x
    OBVIOUS
  <1> HIDE DEF s, t
  <1>3. SubSeq(s, 1, 2) = s
    BY <1>1, PrefixSteps
  <1>4. Len(t) = Len(s) + 1 /\ \A i \in 1..Len(s) : t[i] = s[i]
    BY <1>1, <1>2
  <1>5. t[Len(s) + 1] = x
    BY <1>1, <1>2
  <1>6. Append(s, x) = t
    BY <1>1, <1>2, <1>4, <1>5, AppendIs
  <1> QED
    BY <1>1, <1>3, <1>6 DEF s, t

LEMMA LastTwo ==
    ASSUME NEW S, NEW a \in S, NEW b \in S, NEW c \in S
    PROVE  SubSeq(<<a, b, c>>, 2, 3) = <<b, c>>
  <1> DEFINE s == <<a, b, c>>
             u == <<b, c>>
             y == SubSeq(s, 2, 3)
  <1>1. s \in Seq(S) /\ Len(s) = 3 /\ s[1] = a /\ s[2] = b /\ s[3] = c
    OBVIOUS
  <1>2. u \in Seq(S) /\ Len(u) = 2 /\ u[1] = b /\ u[2] = c
    OBVIOUS
  <1> HIDE DEF s, u
  <1>3. y \in Seq(S) /\ Len(y) = 2 /\ y[1] = s[2] /\ y[2] = s[3]
    BY <1>1
  <1> HIDE DEF y
  <1>4. \A i \in 1..2 : y[i] = u[i]
    BY <1>1, <1>2, <1>3
  <1>5. y = u
    BY <1>2, <1>3, <1>4, SeqEqual
  <1> QED
    BY <1>5 DEF s, u, y

LEMMA ThreeAndMore ==
    ASSUME NEW S, NEW a \in S, NEW b \in S, NEW c \in S, NEW x \in S
    PROVE  /\ <<a, b, c>> \in Seq(S) /\ Len(<<a, b, c>>) = 3
           /\ <<a, b, c>>[1] = a /\ <<a, b, c>>[2] = b /\ <<a, b, c>>[3] = c
           /\ Append(<<a, b, c>>, x) = <<a>> \o <<b, c, x>>
  <1> DEFINE s == <<a, b, c>>
             r == <<a>>
             t == <<b, c, x>>
             w == r \o t
  <1>1. s \in Seq(S) /\ Len(s) = 3 /\ s[1] = a /\ s[2] = b /\ s[3] = c
    OBVIOUS
  <1>2. t \in Seq(S) /\ Len(t) = 3 /\ t[1] = b /\ t[2] = c /\ t[3] = x
    OBVIOUS
  <1>3. r \in Seq(S) /\ Len(r) = 1 /\ r[1] = a
    OBVIOUS
  <1> HIDE DEF s, r, t
  <1>4. /\ w \in Seq(S) /\ Len(w) = Len(r) + Len(t)
        /\ \A i \in 1..(Len(r) + Len(t)) :
               w[i] = IF i <= Len(r) THEN r[i] ELSE t[i - Len(r)]
    BY <1>2, <1>3, ConcatProperties
  <1> HIDE DEF w
  <1>5. Len(w) = 4 /\ w[1] = a /\ w[2] = b /\ w[3] = c /\ w[4] = x
    BY <1>2, <1>3, <1>4
  <1>6. Len(w) = Len(s) + 1 /\ \A i \in 1..Len(s) : w[i] = s[i]
    BY <1>1, <1>5
  <1>7. w[Len(s) + 1] = x
    BY <1>1, <1>5
  <1>8. Append(s, x) = w
    BY <1>1, <1>4, <1>6, <1>7, AppendIs
  <1> QED
    BY <1>1, <1>8 DEF s, r, t, w

LEMMA OpeningFacts ==
    ASSUME NEW p
    PROVE  /\ Opening(p)[1] = "opening" /\ Opening(p)[2] = p
           /\ Opening(p) # SP /\ Opening(p) # NL
           /\ Closing(p) # SP /\ Closing(p) # NL
           /\ SP # NL
  BY DEF Opening, Closing, SP, NL

(* Two bytes are the text of one value, with or without a blank before.    *)
LEMMA TextIsJson ==
    ASSUME NEW line, NEW p \in Payloads, Strip(line) = <<Opening(p), Closing(p)>>
    PROVE  DecodeLine(line)
               = IF ValidEnvelope(p) THEN <<ParseMessage(p)>> ELSE <<Invalid>>
  <1> DEFINE s == Strip(line)
  <1>1. Len(s) = 2 /\ s[1] = Opening(p) /\ s[2] = Closing(p) /\ s # <<>>
    OBVIOUS
  <1> HIDE DEF s
  <1>2. s[1][1] = "opening" /\ s[1][2] = p
    BY <1>1, OpeningFacts
  <1>3. IsJson(line)
    BY <1>1, <1>2 DEF IsJson, s
  <1> QED
    BY <1>1, <1>2, <1>3, Zenon DEF DecodeLine, s

LEMMA LineShape ==
    ASSUME NEW item \in Items
    PROVE  \E body \in Seq(Bytes) : /\ Line(item) = Append(body, NL)
                                    /\ NoNewline(body)
                                    /\ DecodeLine(body) = Outcome(item)
  <1>1. /\ NL \in Bytes /\ SP \in Bytes
        /\ \A p \in Payloads : Opening(p) \in Bytes /\ Closing(p) \in Bytes
    BY DEF Bytes
  <1>2. CASE item.kind = "message"
    <2> DEFINE m == item.value
               p == ToJson(m)
               o == Opening(p)
               c == Closing(p)
               body == <<o, c>>
    <2>1. m \in Messages /\ p \in Payloads
      BY <1>2 DEF Items, Payloads
    <2>2. /\ o \in Bytes /\ c \in Bytes /\ o # NL /\ c # NL /\ o # SP /\ c # SP
      BY <1>1, <2>1, OpeningFacts
    <2>3. Line(item) = <<o, c, NL>> /\ Outcome(item) = <<m>>
      BY <1>2 DEF Line, Outcome, Encode
    <2>4. ValidEnvelope(p) /\ ParseMessage(p) = m
      BY <2>1, RoundTrip
    <2> HIDE DEF o, c, p, m
    <2>5. /\ body \in Seq(Bytes) /\ Append(body, NL) = <<o, c, NL>>
          /\ Len(body) = 2 /\ body[1] = o /\ body[2] = c /\ SubSeq(body, 1, 2) = body
      <3>1. o \in Bytes /\ c \in Bytes /\ NL \in Bytes
        BY <1>1, <2>2
      <3>2. body \in Seq(Bytes) /\ Append(body, NL) = <<o, c, NL>> /\ Len(body) = 2
        BY <3>1, TwoAndMore
      <3>3. body[1] = o /\ body[2] = c /\ SubSeq(body, 1, 2) = body
        BY <3>1, TwoAndMore
      <3> QED
        BY <3>2, <3>3
    <2> HIDE DEF body
    <2>6. NoNewline(body)
      BY <2>2, <2>5 DEF NoNewline
    <2>7. 1 \in 1..Len(body) /\ 2 \in 1..Len(body) /\ 1 <= 2
      BY <2>5
    <2>8. \A i \in 1..Len(body) : body[i] # SP <=> 1 <= i /\ i <= 2
      BY <2>2, <2>5
    <2>9. Strip(body) = body
      BY <2>5, <2>7, <2>8, StripSpan, Zenon
    <2>10. DecodeLine(body) = <<m>>
      BY <2>1, <2>4, <2>9, TextIsJson DEF body, o, c
    <2> QED
      BY <2>3, <2>5, <2>6, <2>10
  <1>3. CASE item.kind = "payload"
    <2> DEFINE p == item.value
               o == Opening(p)
               c == Closing(p)
               body == <<SP, o, c>>
    <2>1. p \in Payloads /\ ~ValidEnvelope(p)
      BY <1>3, BadPayloadsAssumption DEF Items, Payloads
    <2>2. /\ o \in Bytes /\ c \in Bytes /\ o # NL /\ c # NL /\ o # SP /\ c # SP
          /\ SP # NL
      BY <1>1, <2>1, OpeningFacts
    <2>3. Line(item) = <<SP>> \o <<o, c, NL>> /\ Outcome(item) = <<Invalid>>
      BY <1>3 DEF Line, Outcome, Encode
    <2> HIDE DEF o, c, p
    <2>4. /\ body \in Seq(Bytes) /\ Append(body, NL) = <<SP>> \o <<o, c, NL>>
          /\ Len(body) = 3 /\ body[1] = SP /\ body[2] = o /\ body[3] = c
          /\ SubSeq(body, 2, 3) = <<o, c>>
      <3>1. o \in Bytes /\ c \in Bytes /\ NL \in Bytes /\ SP \in Bytes
        BY <1>1, <2>2
      <3>2. body \in Seq(Bytes) /\ Len(body) = 3
        BY <3>1, ThreeAndMore
      <3>3. Append(body, NL) = <<SP>> \o <<o, c, NL>>
        BY <3>1, ThreeAndMore
      <3>4. body[1] = SP /\ body[2] = o /\ body[3] = c
        BY <3>1, ThreeAndMore
      <3>5. SubSeq(body, 2, 3) = <<o, c>>
        BY <3>1, LastTwo, Zenon
      <3> QED
        BY <3>2, <3>3, <3>4, <3>5
    <2> HIDE DEF body
    <2>5. NoNewline(body)
      BY <2>2, <2>4 DEF NoNewline
    <2>6. 2 \in 1..Len(body) /\ 3 \in 1..Len(body) /\ 2 <= 3
      BY <2>4
    <2>7. \A i \in 1..Len(body) : body[i] # SP <=> 2 <= i /\ i <= 3
      BY <2>2, <2>4
    <2>8. Strip(body) = <<o, c>>
      BY <2>4, <2>6, <2>7, StripSpan, Zenon
    <2>9. DecodeLine(body) = <<Invalid>>
      BY <2>1, <2>8, TextIsJson DEF o, c
    <2> QED
      BY <2>3, <2>4, <2>5, <2>9
  <1>4. CASE item.kind = "blank"
    <2> DEFINE body == <<SP>>
    <2>1. Line(item) = <<SP, NL>> /\ Outcome(item) = <<>>
      BY <1>4 DEF Line, Outcome
    <2>2. body \in Seq(Bytes) /\ Append(body, NL) = <<SP, NL>>
          /\ Len(body) = 1 /\ body[1] = SP
      BY <1>1, OneAndMore, Zenon
    <2> HIDE DEF body
    <2>3. NoNewline(body)
      BY <2>2, OpeningFacts DEF NoNewline
    <2>4. Strip(body) = <<>>
      BY <2>2 DEF Strip
    <2>5. DecodeLine(body) = <<>>
      BY <2>4 DEF DecodeLine
    <2> QED
      BY <2>1, <2>2, <2>3, <2>5
  <1>5. CASE item.kind = "garbage"
    <2> DEFINE o == Opening(NotAnObject)
               body == <<o>>
    <2>1. Line(item) = <<o, NL>> /\ Outcome(item) = <<Failure>>
      BY <1>5 DEF Line, Outcome
    <2>2. o \in Bytes /\ o # NL /\ o # SP
      BY <1>1, OpeningFacts DEF Payloads
    <2> HIDE DEF o
    <2>3. /\ body \in Seq(Bytes) /\ Append(body, NL) = <<o, NL>>
          /\ Len(body) = 1 /\ body[1] = o /\ SubSeq(body, 1, 1) = body
      <3>1. o \in Bytes /\ NL \in Bytes
        BY <1>1, <2>2
      <3> QED
        BY <3>1, OneAndMore, Zenon
    <2> HIDE DEF body
    <2>4. NoNewline(body)
      BY <2>2, <2>3 DEF NoNewline
    <2>5. 1 \in 1..Len(body) /\ 1 <= 1
      BY <2>3
    <2>6. \A i \in 1..Len(body) : body[i] # SP <=> 1 <= i /\ i <= 1
      BY <2>2, <2>3
    <2>7. Strip(body) = body
      BY <2>3, <2>5, <2>6, StripSpan, Zenon
    <2>8. Len(Strip(body)) = 1
      BY <2>3, <2>7
    <2>9. DecodeLine(body) = <<Failure>>
      <3>1. Strip(body) # <<>>
        BY <2>8
      <3>2. ~IsJson(body)
        BY <2>8 DEF IsJson
      <3> QED
        BY <3>1, <3>2 DEF DecodeLine
    <2> QED
      BY <2>1, <2>3, <2>4, <2>9
  <1> QED
    BY <1>2, <1>3, <1>4, <1>5 DEF Items

LEMMA OutcomeType ==
    ASSUME NEW item \in Items
    PROVE  Outcome(item) \in Seq(Results)
  <1>1. PICK body \in Seq(Bytes) : DecodeLine(body) = Outcome(item)
    BY LineShape
  <1> QED
    BY <1>1, DecodeLineType

-----------------------------------------------------------------------------
(* The stream: what is on the way is what was written and not yet read.    *)

WrittenTo(items, k) == FlattenSeq([i \in 1..k |-> Line(items[i])])
OutcomesTo(items, k) == FlattenSeq([i \in 1..k |-> Outcome(items[i])])

LEMMA NoLineYet ==
    ASSUME NEW items
    PROVE  WrittenTo(items, 0) = <<>> /\ OutcomesTo(items, 0) = <<>>
  <1>1. /\ [i \in 1..0 |-> Line(items[i])] = <<>>
        /\ [i \in 1..0 |-> Outcome(items[i])] = <<>>
    OBVIOUS
  <1> QED
    BY <1>1, FlattenEmpty DEF WrittenTo, OutcomesTo

LEMMA WrittenType ==
    ASSUME NEW items \in Seq(Items), NEW k \in 0..Len(items)
    PROVE  WrittenTo(items, k) \in Seq(Bytes)
  <1> DEFINE V == Seq(Bytes)
             p == [i \in 1..k |-> Line(items[i])]
  <1>1. \A i \in 1..k : Line(items[i]) \in V
    BY LineType
  <1>2. p \in Seq(V)
    <2> HIDE DEF V
    <2> QED
      BY <1>1
  <1> HIDE DEF p
  <1>3. FlattenSeq(p) \in Seq(Bytes)
    BY <1>2, FlattenType
  <1> QED
    BY <1>3 DEF WrittenTo, p

LEMMA WrittenNext ==
    ASSUME NEW items \in Seq(Items), NEW k \in 0..(Len(items) - 1)
    PROVE  WrittenTo(items, k + 1) = WrittenTo(items, k) \o Line(items[k + 1])
  <1> DEFINE V == Seq(Bytes)
             p == [i \in 1..k |-> Line(items[i])]
             q == [i \in 1..(k + 1) |-> Line(items[i])]
  <1>1. \A i \in 1..(k + 1) : Line(items[i]) \in V
    BY LineType
  <1>2. k \in Nat /\ k + 1 \in 1..(k + 1) /\ \A i \in 1..k : i \in 1..(k + 1)
    OBVIOUS
  <1> HIDE DEF V
  <1>3. /\ p \in [1..k -> V] /\ q \in [1..(k + 1) -> V]
        /\ q[k + 1] = Line(items[k + 1]) /\ \A i \in 1..k : q[i] = p[i]
    BY <1>1, <1>2
  <1> HIDE DEF p, q
  <1>4. p \in Seq(V) /\ q[k + 1] \in V /\ q = Append(p, q[k + 1])
    BY <1>2, <1>3, ContinuedByOne
  <1>5. FlattenSeq(q) = FlattenSeq(p) \o q[k + 1]
    BY <1>4, FlattenAppend DEF V
  <1> QED
    BY <1>3, <1>5 DEF WrittenTo, p, q

LEMMA OutcomesNext ==
    ASSUME NEW items \in Seq(Items), NEW k \in 0..(Len(items) - 1)
    PROVE  OutcomesTo(items, k + 1) = OutcomesTo(items, k) \o Outcome(items[k + 1])
  <1> DEFINE V == Seq(Results)
             p == [i \in 1..k |-> Outcome(items[i])]
             q == [i \in 1..(k + 1) |-> Outcome(items[i])]
  <1>1. \A i \in 1..(k + 1) : Outcome(items[i]) \in V
    BY OutcomeType
  <1>2. k \in Nat /\ k + 1 \in 1..(k + 1) /\ \A i \in 1..k : i \in 1..(k + 1)
    OBVIOUS
  <1> HIDE DEF V
  <1>3. /\ p \in [1..k -> V] /\ q \in [1..(k + 1) -> V]
        /\ q[k + 1] = Outcome(items[k + 1]) /\ \A i \in 1..k : q[i] = p[i]
    BY <1>1, <1>2
  <1> HIDE DEF p, q
  <1>4. p \in Seq(V) /\ q[k + 1] \in V /\ q = Append(p, q[k + 1])
    BY <1>2, <1>3, ContinuedByOne
  <1>5. FlattenSeq(q) = FlattenSeq(p) \o q[k + 1]
    BY <1>4, FlattenAppend DEF V
  <1> QED
    BY <1>3, <1>5 DEF OutcomesTo, p, q

LEMMA OutcomesType ==
    ASSUME NEW items \in Seq(Items), NEW k \in 0..Len(items)
    PROVE  OutcomesTo(items, k) \in Seq(Results)
  <1> DEFINE V == Seq(Results)
             p == [i \in 1..k |-> Outcome(items[i])]
  <1>1. \A i \in 1..k : Outcome(items[i]) \in V
    BY OutcomeType
  <1>2. p \in Seq(V)
    <2> HIDE DEF V
    <2> QED
      BY <1>1
  <1> HIDE DEF p
  <1>3. FlattenSeq(p) \in Seq(Results)
    BY <1>2, FlattenType
  <1> QED
    BY <1>3 DEF OutcomesTo, p

LEMMA CancelLeft ==
    ASSUME NEW S, NEW s \in Seq(S), NEW t \in Seq(S), NEW u \in Seq(S),
           s \o t = s \o u
    PROVE  t = u
  <1> DEFINE a == s \o t
             b == s \o u
  <1>1. /\ Len(a) = Len(s) + Len(t) /\ Len(b) = Len(s) + Len(u)
        /\ \A i \in 1..(Len(s) + Len(t)) : a[i] = IF i <= Len(s) THEN s[i] ELSE t[i - Len(s)]
        /\ \A i \in 1..(Len(s) + Len(u)) : b[i] = IF i <= Len(s) THEN s[i] ELSE u[i - Len(s)]
    BY ConcatProperties
  <1>2. Len(s) \in Nat /\ Len(t) \in Nat /\ Len(u) \in Nat /\ a = b
    OBVIOUS
  <1> HIDE DEF a, b
  <1>3. Len(t) = Len(u)
    BY <1>1, <1>2
  <1>4. ASSUME NEW i \in 1..Len(t) PROVE t[i] = u[i]
    <2> DEFINE j == Len(s) + i
    <2>1. /\ j \in 1..(Len(s) + Len(t)) /\ j \in 1..(Len(s) + Len(u))
          /\ ~(j <= Len(s)) /\ j - Len(s) = i
      BY <1>2, <1>3
    <2>2. a[j] = t[i] /\ b[j] = u[i]
      BY <1>1, <2>1
    <2> QED
      BY <1>2, <2>2
  <1> QED
    BY <1>3, <1>4, SeqEqual

(* r is s and t joined.                                                    *)
Joins(r, s, t) == r = s \o t

LEMMA JoinOf ==
    ASSUME NEW s \in Seq(Bytes), NEW t \in Seq(Bytes)
    PROVE  \E r \in Seq(Bytes) : Joins(r, s, t)
  BY ConcatInSeq DEF Joins

LEMMA JoinsRegroup ==
    ASSUME NEW S, NEW s \in Seq(S), NEW t \in Seq(S), NEW u \in Seq(S),
           NEW st, NEW tu, NEW stu,
           Joins(st, s, t), Joins(tu, t, u), Joins(stu, st, u)
    PROVE  Joins(stu, s, tu)
  BY ConcatRegroup DEF Joins

LEMMA JoinsCancel ==
    ASSUME NEW r, NEW s \in Seq(Bytes), NEW t \in Seq(Bytes), NEW u \in Seq(Bytes),
           Joins(r, s, t), Joins(r, s, u)
    PROVE  t = u
  BY CancelLeft DEF Joins

(* What was written goes on from any of its lines.                         *)
LEMMA WrittenOn ==
    ASSUME NEW items \in Seq(Items), NEW k \in 0..Len(items)
    PROVE  \E more \in Seq(Bytes) :
               WrittenTo(items, Len(items)) = WrittenTo(items, k) \o more
  <1> DEFINE W(i) == WrittenTo(items, i)
             On(i) == \E more \in Seq(Bytes) : W(i) = W(k) \o more
             T == {d \in Nat : k + d <= Len(items) => On(k + d)}
  <1>1. 0 \in T
    <2>1. <<>> \in Seq(Bytes)
      OBVIOUS
    <2>2. W(k) \in Seq(Bytes)
      BY WrittenType
    <2>3. W(k) = W(k) \o <<>>
      BY <2>2, ConcatEmptySeq
    <2>4. On(k)
      BY <2>1, <2>3
    <2>5. k + 0 = k
      OBVIOUS
    <2> HIDE DEF On
    <2> QED
      BY <2>4, <2>5
  <1>2. ASSUME NEW d \in T PROVE d + 1 \in T
    <2>1. SUFFICES ASSUME k + (d + 1) <= Len(items) PROVE On(k + (d + 1))
      <3> HIDE DEF On
      <3> QED
        OBVIOUS
    <2> DEFINE i == k + d
    <2>2. i \in 0..(Len(items) - 1) /\ i + 1 = k + (d + 1) /\ i <= Len(items)
      BY <2>1
    <2>3. On(i)
      BY <2>2
    <2> HIDE DEF i
    <2>4. PICK more \in Seq(Bytes) : W(i) = W(k) \o more
      BY <2>3
    <2> DEFINE line == Line(items[i + 1])
    <2>5. line \in Seq(Bytes)
      BY <2>2, LineType
    <2>6. W(i + 1) = W(i) \o line
      BY <2>2, WrittenNext
    <2>7. W(k) \in Seq(Bytes)
      BY WrittenType
    <2> HIDE DEF W, line
    <2>8. PICK onward \in Seq(Bytes) : Joins(onward, more, line)
      BY <2>5, JoinOf
    <2>9. Joins(W(i), W(k), more) /\ Joins(W(i + 1), W(i), line)
      BY <2>4, <2>6, Zenon DEF Joins
    <2>10. Joins(W(i + 1), W(k), onward)
      BY <2>5, <2>7, <2>8, <2>9, JoinsRegroup
    <2>11. On(i + 1)
      BY <2>10, Zenon DEF Joins
    <2> QED
      BY <2>2, <2>11
  <1>3. T \in SUBSET Nat
    OBVIOUS
  <1>4. T = Nat
    <2> HIDE DEF T
    <2> QED
      BY <1>1, <1>2, <1>3, NatSetInduction
  <1>5. Len(items) - k \in Nat /\ k + (Len(items) - k) = Len(items)
    OBVIOUS
  <1>6. On(Len(items))
    <2> HIDE DEF On
    <2>1. \A d \in Nat : k + d <= Len(items) => On(k + d)
      BY <1>4
    <2> DEFINE d == Len(items) - k
    <2>2. d \in Nat /\ k + d = Len(items) /\ k + d <= Len(items)
      BY <1>5
    <2> HIDE DEF d
    <2>3. On(k + d)
      BY <2>1, <2>2
    <2> QED
      BY <2>2, <2>3
  <1> QED
    BY <1>6

(* Two ways to cut the same bytes at their first newline are the same.     *)
LEMMA CutAtNewline ==
    ASSUME NEW r \in Seq(Bytes), NEW s \in Seq(Bytes),
           NEW t \in Seq(Bytes), NEW u \in Seq(Bytes),
           NoNewline(r), NoNewline(s),
           Append(r, NL) \o t = Append(s, NL) \o u
    PROVE  r = s /\ t = u
  <1> DEFINE rn == Append(r, NL)
             sn == Append(s, NL)
             a == rn \o t
             b == sn \o u
  <1>1. NL \in Bytes
    BY DEF Bytes
  <1>2. /\ rn \in Seq(Bytes) /\ Len(rn) = Len(r) + 1 /\ rn[Len(r) + 1] = NL
        /\ \A i \in 1..Len(r) : rn[i] = r[i]
    BY <1>1, AppendProperties
  <1>3. /\ sn \in Seq(Bytes) /\ Len(sn) = Len(s) + 1 /\ sn[Len(s) + 1] = NL
        /\ \A i \in 1..Len(s) : sn[i] = s[i]
    BY <1>1, AppendProperties
  <1> HIDE DEF rn, sn
  <1>4. \A i \in 1..(Len(rn) + Len(t)) : a[i] = IF i <= Len(rn) THEN rn[i] ELSE t[i - Len(rn)]
    BY <1>2, ConcatProperties
  <1>5. \A i \in 1..(Len(sn) + Len(u)) : b[i] = IF i <= Len(sn) THEN sn[i] ELSE u[i - Len(sn)]
    BY <1>3, ConcatProperties
  <1>6. Len(a) = Len(rn) + Len(t) /\ Len(b) = Len(sn) + Len(u)
    BY <1>2, <1>3, ConcatProperties
  <1>7. a = b
    BY DEF rn, sn
  <1> HIDE DEF a, b
  <1>8. Len(r) \in Nat /\ Len(s) \in Nat /\ Len(t) \in Nat /\ Len(u) \in Nat
    OBVIOUS
  <1>9. ~(Len(r) < Len(s))
    <2>1. SUFFICES ASSUME Len(r) < Len(s) PROVE FALSE
      OBVIOUS
    <2> DEFINE i == Len(r) + 1
    <2>2. i \in 1..Len(s) /\ i \in 1..(Len(rn) + Len(t)) /\ i \in 1..(Len(sn) + Len(u))
          /\ i <= Len(rn) /\ i <= Len(sn)
      BY <1>2, <1>3, <1>8, <2>1
    <2>3. a[i] = NL
      BY <1>2, <1>4, <2>2
    <2>4. b[i] = s[i]
      BY <1>3, <1>5, <2>2
    <2> QED
      BY <1>7, <2>2, <2>3, <2>4 DEF NoNewline
  <1>10. ~(Len(s) < Len(r))
    <2>1. SUFFICES ASSUME Len(s) < Len(r) PROVE FALSE
      OBVIOUS
    <2> DEFINE i == Len(s) + 1
    <2>2. i \in 1..Len(r) /\ i \in 1..(Len(rn) + Len(t)) /\ i \in 1..(Len(sn) + Len(u))
          /\ i <= Len(rn) /\ i <= Len(sn)
      BY <1>2, <1>3, <1>8, <2>1
    <2>3. b[i] = NL
      BY <1>3, <1>5, <2>2
    <2>4. a[i] = r[i]
      BY <1>2, <1>4, <2>2
    <2> QED
      BY <1>7, <2>2, <2>3, <2>4 DEF NoNewline
  <1>11. Len(r) = Len(s) /\ Len(rn) = Len(sn) /\ Len(t) = Len(u)
    BY <1>2, <1>3, <1>6, <1>7, <1>8, <1>9, <1>10
  <1>12. ASSUME NEW i \in 1..Len(r) PROVE r[i] = s[i]
    <2>1. i \in 1..Len(s) /\ i \in 1..(Len(rn) + Len(t)) /\ i \in 1..(Len(sn) + Len(u))
          /\ i <= Len(rn) /\ i <= Len(sn)
      BY <1>2, <1>3, <1>8, <1>11
    <2>2. a[i] = r[i] /\ b[i] = s[i]
      BY <1>2, <1>3, <1>4, <1>5, <2>1
    <2> QED
      BY <1>7, <2>2
  <1>13. ASSUME NEW i \in 1..Len(t) PROVE t[i] = u[i]
    <2> DEFINE j == Len(rn) + i
    <2>1. j \in 1..(Len(rn) + Len(t)) /\ j \in 1..(Len(sn) + Len(u))
          /\ ~(j <= Len(rn)) /\ ~(j <= Len(sn)) /\ j - Len(rn) = i /\ j - Len(sn) = i
      <3>1. Len(rn) \in Nat
        BY <1>2, <1>8
      <3>2. /\ j \in 1..(Len(rn) + Len(t)) /\ ~(j <= Len(rn)) /\ j - Len(rn) = i
        BY <1>8, <3>1
      <3> QED
        BY <1>11, <3>2
    <2>2. a[j] = t[i] /\ b[j] = u[i]
      BY <1>4, <1>5, <2>1
    <2> QED
      BY <1>7, <2>2
  <1> QED
    BY <1>11, <1>12, <1>13, SeqEqual

LEMMA JoinsCut ==
    ASSUME NEW r \in Seq(Bytes), NEW s \in Seq(Bytes),
           NEW t \in Seq(Bytes), NEW u \in Seq(Bytes), NEW a,
           NoNewline(r), NoNewline(s),
           Joins(a, Append(r, NL), t), Joins(a, Append(s, NL), u)
    PROVE  r = s /\ t = u
  BY CutAtNewline DEF Joins

(* What is left to decode: the rest of a line r, then p in the pipe.       *)
Stream(items, begun, k, r, p) ==
    /\ k \in 0..Len(items)
    /\ r \in Seq(Bytes) /\ NoNewline(r)
    /\ p \in Seq(Bytes)
    /\ WrittenTo(items, Len(items)) \o begun = WrittenTo(items, k) \o (r \o p)

LEMMA ReadOne ==
    ASSUME NEW r \in Seq(Bytes), NEW x \in Bytes, NEW p \in Seq(Bytes)
    PROVE  Append(r, x) \in Seq(Bytes) /\ r \o (<<x>> \o p) = Append(r, x) \o p
  <1>1. Append(r, x) \in Seq(Bytes) /\ Append(r, x) = r \o <<x>>
    BY AppendProperties, AppendIsConcat
  <1>2. <<x>> \in Seq(Bytes)
    BY Singleton
  <1>3. (r \o <<x>>) \o p = r \o (<<x>> \o p)
    BY <1>2, ConcatRegroup
  <1> QED
    BY <1>1, <1>3

LEMMA InTheMiddle ==
    ASSUME NEW items \in Seq(Items), NEW begun \in Seq(Bytes), NEW k, NEW r,
           NEW x \in Bytes, NEW p \in Seq(Bytes), x # NL,
           Stream(items, begun, k, r, <<x>> \o p)
    PROVE  Stream(items, begun, k, Append(r, x), p)
  <1>1. r \in Seq(Bytes) /\ NoNewline(r)
    BY DEF Stream
  <1>2. Append(r, x) \in Seq(Bytes) /\ r \o (<<x>> \o p) = Append(r, x) \o p
    BY <1>1, ReadOne
  <1>3. NoNewline(Append(r, x))
    BY <1>1 DEF NoNewline
  <1> QED
    BY <1>2, <1>3 DEF Stream

(* What comes next is the next line written, and others after it.         *)
NextLineIs(items, begun, k, a, body, more, after) ==
    /\ NoNewline(body)
    /\ DecodeLine(body) = Outcome(items[k + 1])
    /\ Joins(a, Append(body, NL), after)
    /\ Joins(after, more, begun)
    /\ Joins(WrittenTo(items, Len(items)), WrittenTo(items, k + 1), more)

LEMMA NextLine ==
    ASSUME NEW items \in Seq(Items), NEW begun \in Seq(Bytes),
           NEW k \in 0..(Len(items) - 1), NEW a \in Seq(Bytes), NEW all,
           Joins(all, WrittenTo(items, Len(items)), begun),
           Joins(all, WrittenTo(items, k), a)
    PROVE  \E body \in Seq(Bytes), more \in Seq(Bytes), after \in Seq(Bytes) :
               NextLineIs(items, begun, k, a, body, more, after)
  <1> DEFINE n == Len(items)
             item == items[k + 1]
             w == WrittenTo(items, k)
             w1 == WrittenTo(items, k + 1)
             wn == WrittenTo(items, n)
  <1>1. /\ n \in Nat /\ k \in 0..n /\ k + 1 \in 0..n /\ n \in 0..n /\ item \in Items
    OBVIOUS
  <1>2. w \in Seq(Bytes) /\ NL \in Bytes
    BY <1>1, WrittenType DEF Bytes
  <1>3. Joins(all, wn, begun) /\ Joins(all, w, a)
    OBVIOUS
  <1>4. PICK body \in Seq(Bytes) : /\ Line(item) = Append(body, NL)
                                   /\ NoNewline(body)
                                   /\ DecodeLine(body) = Outcome(item)
    BY <1>1, LineShape
  <1>5. PICK more \in Seq(Bytes) : wn = w1 \o more
    BY <1>1, WrittenOn
  <1> DEFINE bn == Append(body, NL)
  <1>6. w1 = w \o bn
    BY <1>4, WrittenNext
  <1>7. bn \in Seq(Bytes)
    BY <1>2, AppendProperties
  <1> HIDE DEF w, w1, wn, bn
  <1>8. Joins(w1, w, bn) /\ Joins(wn, w1, more)
    BY <1>5, <1>6, Zenon DEF Joins
  <1>9. PICK after \in Seq(Bytes) : Joins(after, more, begun)
    BY JoinOf
  <1>10. PICK bm \in Seq(Bytes) : Joins(bm, bn, more)
    BY <1>7, JoinOf
  <1>11. PICK bl \in Seq(Bytes) : Joins(bl, bm, begun)
    BY JoinOf
  <1>12. Joins(bl, bn, after)
    BY <1>7, <1>9, <1>10, <1>11, JoinsRegroup
  <1>13. Joins(wn, w, bm)
    BY <1>2, <1>7, <1>8, <1>10, JoinsRegroup
  <1>14. Joins(all, w, bl)
    BY <1>2, <1>3, <1>11, <1>13, JoinsRegroup
  <1>15. bl = a
    BY <1>2, <1>3, <1>14, JoinsCancel
  <1>16. Joins(a, bn, after)
    BY <1>12, <1>15
  <1>17. NextLineIs(items, begun, k, a, body, more, after)
    BY <1>4, <1>8, <1>9, <1>16, Zenon DEF NextLineIs, w1, wn, bn
  <1> QED
    BY <1>17

(* A newline ends the next line written and no other.                      *)
LEMMA AtTheNewline ==
    ASSUME NEW items \in Seq(Items), NEW begun \in Seq(Bytes), NoNewline(begun),
           NEW k, NEW r, NEW p \in Seq(Bytes),
           Stream(items, begun, k, r, <<NL>> \o p)
    PROVE  /\ k \in 0..(Len(items) - 1)
           /\ DecodeLine(r) = Outcome(items[k + 1])
           /\ Stream(items, begun, k + 1, <<>>, p)
  <1> DEFINE rn == Append(r, NL)
             W(i) == WrittenTo(items, i)
             n == Len(items)
  <1>1. /\ k \in 0..n /\ n \in Nat /\ r \in Seq(Bytes) /\ NoNewline(r)
        /\ W(n) \o begun = W(k) \o (r \o (<<NL>> \o p))
    BY DEF Stream
  <1>2. NL \in Bytes
    BY DEF Bytes
  <1>3. rn \in Seq(Bytes) /\ r \o (<<NL>> \o p) = rn \o p
    BY <1>1, <1>2, ReadOne
  <1>4. W(k) \in Seq(Bytes) /\ W(n) \in Seq(Bytes)
    BY <1>1, WrittenType
  <1>5. rn \o p \in Seq(Bytes)
    BY <1>3, ConcatInSeq
  <1>6. Len(rn) = Len(r) + 1 /\ rn[Len(r) + 1] = NL
    BY <1>1, <1>2, AppendProperties
  <1> HIDE DEF W, rn
  <1>7. k # n
    <2>1. SUFFICES ASSUME k = n PROVE FALSE
      OBVIOUS
    <2> DEFINE w == W(k)
    <2>2. w \in Seq(Bytes) /\ w \o begun = w \o (rn \o p)
      BY <1>1, <1>3, <1>4, <2>1
    <2> HIDE DEF w
    <2>3. begun = rn \o p
      BY <1>5, <2>2, CancelLeft
    <2> DEFINE i == Len(r) + 1
               b == rn \o p
    <2>4. i \in 1..(Len(rn) + Len(p)) /\ i <= Len(rn)
      BY <1>1, <1>6
    <2>5. Len(b) = Len(rn) + Len(p) /\ b[i] = rn[i]
      BY <1>3, <2>4, ConcatProperties
    <2> HIDE DEF b
    <2>6. i \in 1..Len(begun) /\ begun[i] = NL
      BY <1>6, <2>3, <2>4, <2>5 DEF b
    <2> QED
      BY <2>6 DEF NoNewline
  <1>8. k \in 0..(n - 1) /\ k + 1 \in 0..n
    BY <1>1, <1>7
  <1> DEFINE a == rn \o p
             all == W(n) \o begun
  <1>9. Joins(all, W(n), begun) /\ Joins(all, W(k), a) /\ Joins(a, rn, p)
    BY <1>1, <1>3, Zenon DEF Joins
  <1>10. a \in Seq(Bytes)
    BY <1>5
  <1> HIDE DEF a, all
  <1>11. PICK body \in Seq(Bytes), more \in Seq(Bytes), after \in Seq(Bytes) :
             NextLineIs(items, begun, k, a, body, more, after)
    BY <1>8, <1>9, <1>10, NextLine DEF W
  <1>12. body = r /\ after = p
    BY <1>1, <1>9, <1>11, JoinsCut DEF NextLineIs, rn
  <1>13. WrittenTo(items, n) \o begun = WrittenTo(items, k + 1) \o (<<>> \o p)
    <2> DEFINE w1 == W(k + 1)
               wn == W(n)
    <2>1. w1 \in Seq(Bytes)
      BY <1>8, WrittenType DEF W
    <2>2. Joins(wn, w1, more) /\ Joins(p, more, begun) /\ Joins(all, wn, begun)
      BY <1>9, <1>11, <1>12, Zenon DEF NextLineIs, W, n
    <2> HIDE DEF w1, wn
    <2>3. Joins(all, w1, p)
      BY <2>1, <2>2, JoinsRegroup
    <2>4. <<>> \o p = p
      BY ConcatEmptySeq
    <2> QED
      BY <2>3, <2>4, Zenon DEF Joins, all, w1, W
  <1>14. <<>> \in Seq(Bytes) /\ NoNewline(<<>>)
    BY DEF NoNewline
  <1>15. Stream(items, begun, k + 1, <<>>, p)
    BY <1>8, <1>13, <1>14 DEF Stream
  <1> QED
    BY <1>8, <1>11, <1>12, <1>15 DEF NextLineIs

-----------------------------------------------------------------------------
(* A chunk, one byte at a time.                                            *)

(* The decoder has taken bytes since it was at the end of line lo, and got *)
(* was out by then.                                                        *)
HasTaken(items, begun, lo, got, bytes, p) ==
    LET k == lo + Cardinality(Newlines(bytes))
    IN  /\ IsFiniteSet(Newlines(bytes))
        /\ got \o Decoded(bytes) = OutcomesTo(items, k)
        /\ Stream(items, begun, k, Rest(bytes), p)

LEMMA TakesByte ==
    ASSUME NEW items \in Seq(Items), NEW begun \in Seq(Bytes), NoNewline(begun),
           NEW lo \in Nat, NEW got \in Seq(Results),
           NEW bytes \in Seq(Bytes), NEW x \in Bytes, NEW p \in Seq(Bytes),
           HasTaken(items, begun, lo, got, bytes, <<x>> \o p)
    PROVE  HasTaken(items, begun, lo, got, Append(bytes, x), p)
  <1> DEFINE c == Cardinality(Newlines(bytes))
             k == lo + c
             t == Append(bytes, x)
  <1>1. /\ IsFiniteSet(Newlines(bytes))
        /\ got \o Decoded(bytes) = OutcomesTo(items, k)
        /\ Stream(items, begun, k, Rest(bytes), <<x>> \o p)
    BY Zenon DEF HasTaken
  <1>2. c \in Nat
    BY <1>1, FS_CardinalityType
  <1>3. CASE x # NL
    <2>1. Newlines(t) = Newlines(bytes) /\ Decoded(t) = Decoded(bytes)
          /\ Rest(t) = Append(Rest(bytes), x)
      BY <1>3, NewlinesAppend, DecodedAppend, RestAppend
    <2>2. Stream(items, begun, k, Rest(t), p)
      BY <1>1, <1>3, <2>1, InTheMiddle
    <2> QED
      BY <1>1, <2>1, <2>2, Zenon DEF HasTaken
  <1>4. CASE x = NL
    <2>1. Newlines(t) = Newlines(bytes) \cup {Len(bytes) + 1}
      BY <1>4, NewlinesAppend
    <2>2. Decoded(t) = Decoded(bytes) \o DecodeLine(Rest(bytes)) /\ Rest(t) = <<>>
      BY <1>4, DecodedAppend, RestAppend
    <2>3. Len(bytes) + 1 \notin Newlines(bytes)
      BY NewlinesIn
    <2>4. IsFiniteSet(Newlines(t)) /\ Cardinality(Newlines(t)) = c + 1
      BY <1>1, <2>1, <2>3, FS_AddElement
    <2>5. lo + Cardinality(Newlines(t)) = k + 1
      BY <1>2, <2>4
    <2>6. /\ k \in 0..(Len(items) - 1)
          /\ DecodeLine(Rest(bytes)) = Outcome(items[k + 1])
          /\ Stream(items, begun, k + 1, <<>>, p)
      BY <1>1, <1>4, AtTheNewline
    <2>7. got \o Decoded(t) = OutcomesTo(items, k + 1)
      <3> DEFINE d == Decoded(bytes)
                 o == DecodeLine(Rest(bytes))
      <3>1. d \in Seq(Results) /\ o \in Seq(Results)
        BY DecodedType, RestType, DecodeLineType
      <3>2. /\ got \o d = OutcomesTo(items, k) /\ Decoded(t) = d \o o
            /\ OutcomesTo(items, k + 1) = OutcomesTo(items, k) \o o
        BY <1>1, <2>2, <2>6, OutcomesNext, Zenon
      <3> HIDE DEF d, o
      <3>3. /\ Joins(OutcomesTo(items, k), got, d) /\ Joins(Decoded(t), d, o)
            /\ Joins(OutcomesTo(items, k + 1), OutcomesTo(items, k), o)
        BY <3>2, Zenon DEF Joins
      <3>4. Joins(OutcomesTo(items, k + 1), got, Decoded(t))
        BY <3>1, <3>3, JoinsRegroup
      <3> QED
        BY <3>4, Zenon DEF Joins
    <2> QED
      BY <2>2, <2>4, <2>5, <2>6, <2>7, Zenon DEF HasTaken
  <1> QED
    BY <1>3, <1>4

(* What is left of a sequence, one element less at a time.                 *)
LEMMA SuffixSteps ==
    ASSUME NEW S, NEW s \in Seq(S)
    PROVE  /\ SubSeq(s, 1, Len(s)) = s
           /\ \A k \in 0..Len(s) : SubSeq(s, k + 1, Len(s)) \in Seq(S)
           /\ \A k \in 0..(Len(s) - 1) :
                  SubSeq(s, k + 1, Len(s)) = <<s[k + 1]>> \o SubSeq(s, k + 2, Len(s))
  <1>1. SubSeq(s, 1, Len(s)) = s
    OBVIOUS
  <1>2. ASSUME NEW k \in 0..Len(s) PROVE SubSeq(s, k + 1, Len(s)) \in Seq(S)
    OBVIOUS
  <1>3. ASSUME NEW k \in 0..(Len(s) - 1)
        PROVE  SubSeq(s, k + 1, Len(s)) = <<s[k + 1]>> \o SubSeq(s, k + 2, Len(s))
    <2> DEFINE u == SubSeq(s, k + 2, Len(s))
               v == SubSeq(s, k + 1, Len(s))
               h == <<s[k + 1]>>
               n == Len(s) - (k + 1)
    <2>1. n \in Nat /\ Len(s) \in Nat /\ s[k + 1] \in S
      OBVIOUS
    <2>2. /\ v \in Seq(S) /\ Len(v) = n + 1
          /\ \A i \in 1..(n + 1) : v[i] = s[k + i]
      OBVIOUS
    <2>3. /\ u \in Seq(S) /\ Len(u) = n
          /\ \A i \in 1..n : u[i] = s[k + 1 + i]
      OBVIOUS
    <2>4. h \in Seq(S) /\ Len(h) = 1 /\ h[1] = s[k + 1]
      BY <2>1
    <2> HIDE DEF u, v, h, n
    <2>5. \A i \in 1..Len(h) : v[i] = h[i]
      BY <2>1, <2>2, <2>4
    <2>6. ASSUME NEW i \in 1..Len(u) PROVE v[Len(h) + i] = u[i]
      <3>1. /\ 1 + i \in 1..(n + 1) /\ i \in 1..n /\ Len(h) + i = 1 + i
            /\ k + (1 + i) = k + 1 + i
        BY <2>1, <2>3, <2>4
      <3>2. v[1 + i] = s[k + (1 + i)]
        BY <2>2, <3>1
      <3> QED
        BY <2>3, <3>1, <3>2
    <2>7. Len(v) = Len(h) + Len(u)
      BY <2>1, <2>2, <2>3, <2>4
    <2>8. v = h \o u
      BY <2>2, <2>3, <2>4, <2>5, <2>6, <2>7, ConcatIs
    <2> QED
      BY <2>8 DEF u, v, h
  <1> QED
    BY <1>1, <1>2, <1>3

(* A chunk of any length takes the stream on.                              *)
LEMMA TakesChunk ==
    ASSUME NEW items \in Seq(Items), NEW begun \in Seq(Bytes), NoNewline(begun),
           NEW lo \in Nat, NEW r, NEW pp \in Seq(Bytes),
           Stream(items, begun, lo, r, pp), NEW n \in 0..Len(pp)
    PROVE  HasTaken(items, begun, lo, OutcomesTo(items, lo),
                    r \o SubSeq(pp, 1, n), SubSeq(pp, n + 1, Len(pp)))
  <1> DEFINE got == OutcomesTo(items, lo)
             b(k) == r \o SubSeq(pp, 1, k)
             p(k) == SubSeq(pp, k + 1, Len(pp))
             Good(k) == HasTaken(items, begun, lo, got, b(k), p(k))
             T == {k \in Nat : k <= Len(pp) => Good(k)}
  <1>1. lo \in 0..Len(items) /\ r \in Seq(Bytes) /\ NoNewline(r)
    BY DEF Stream
  <1>2. got \in Seq(Results)
    BY <1>1, OutcomesType
  <1>3. \A k \in 0..Len(pp) : b(k) \in Seq(Bytes) /\ p(k) \in Seq(Bytes)
    <2>1. ASSUME NEW k \in 0..Len(pp) PROVE b(k) \in Seq(Bytes) /\ p(k) \in Seq(Bytes)
      <3>1. SubSeq(pp, 1, k) \in Seq(Bytes)
        BY PrefixSteps
      <3>2. p(k) \in Seq(Bytes)
        BY SuffixSteps
      <3> QED
        BY <1>1, <3>1, <3>2, ConcatInSeq
    <2> QED
      BY <2>1
  <1>4. b(0) = r /\ p(0) = pp
    <2>1. SubSeq(pp, 1, 0) = <<>> /\ SubSeq(pp, 1, Len(pp)) = pp
      BY PrefixSteps
    <2>2. r \o <<>> = r
      BY <1>1, ConcatEmptySeq
    <2>3. 0 + 1 = 1
      OBVIOUS
    <2> QED
      BY <2>1, <2>2, <2>3, Zenon
  <1>5. Good(0)
    <2>1. Newlines(r) = {} /\ Decoded(r) = <<>> /\ Rest(r) = r
      BY <1>1, NothingFinished DEF NoNewline
    <2>2. IsFiniteSet(Newlines(r)) /\ Cardinality(Newlines(r)) = 0
      BY <2>1, FS_EmptySet
    <2>3. lo + Cardinality(Newlines(r)) = lo
      BY <2>2
    <2>4. got \o Decoded(r) = got
      BY <1>2, <2>1, ConcatEmptySeq
    <2> HIDE DEF got, b, p
    <2>5. HasTaken(items, begun, lo, got, r, pp)
      BY <2>1, <2>2, <2>3, <2>4, Zenon DEF HasTaken, got
    <2> QED
      BY <1>4, <2>5, Zenon
  <1>6. ASSUME NEW k \in 0..(Len(pp) - 1), Good(k) PROVE Good(k + 1)
    <2>1. pp[k + 1] \in Bytes /\ SubSeq(pp, 1, k + 1) = Append(SubSeq(pp, 1, k), pp[k + 1])
      BY PrefixSteps
    <2>2. p(k) = <<pp[k + 1]>> \o p(k + 1)
      <3>1. k + 1 + 1 = k + 2
        OBVIOUS
      <3>2. p(k) = <<pp[k + 1]>> \o SubSeq(pp, k + 2, Len(pp))
        BY SuffixSteps, Zenon
      <3> QED
        BY <3>1, <3>2, Zenon
    <2>3. k \in 0..Len(pp) /\ k + 1 \in 0..Len(pp)
      OBVIOUS
    <2>4. SubSeq(pp, 1, k) \in Seq(Bytes)
      BY <2>3, PrefixSteps
    <2>5. b(k + 1) = Append(b(k), pp[k + 1])
      BY <1>1, <2>1, <2>4, ConcatAppend
    <2>6. b(k) \in Seq(Bytes) /\ p(k + 1) \in Seq(Bytes)
      BY <1>3, <2>3, Zenon
    <2> HIDE DEF b, p, got
    <2>7. HasTaken(items, begun, lo, got, b(k), <<pp[k + 1]>> \o p(k + 1))
      BY <1>6, <2>2, Zenon
    <2>8. HasTaken(items, begun, lo, got, Append(b(k), pp[k + 1]), p(k + 1))
      BY <1>2, <2>1, <2>6, <2>7, TakesByte, Zenon
    <2> QED
      BY <2>5, <2>8, Zenon
  <1> HIDE DEF Good
  <1>7. 0 \in T
    BY <1>5
  <1>8. ASSUME NEW k \in T PROVE k + 1 \in T
    <2>1. SUFFICES ASSUME k + 1 <= Len(pp) PROVE Good(k + 1)
      OBVIOUS
    <2>2. k \in 0..(Len(pp) - 1) /\ Good(k)
      BY <2>1
    <2> QED
      BY <1>6, <2>2
  <1>9. T \in SUBSET Nat
    OBVIOUS
  <1> HIDE DEF T
  <1>10. T = Nat
    BY <1>7, <1>8, <1>9, NatSetInduction
  <1>11. Good(n)
    BY <1>10 DEF T
  <1> QED
    BY <1>11 DEF Good

-----------------------------------------------------------------------------
(* The steps of the stream.                                                *)

(* What is written next comes after what is already on the way.            *)
Ahead(wn, w, r, p) == wn = w \o (r \o p)

LEMMA MoreOnTheWay ==
    ASSUME NEW w \in Seq(Bytes), NEW r \in Seq(Bytes), NEW p \in Seq(Bytes),
           NEW more \in Seq(Bytes), NEW wn, Ahead(wn, w, r, p)
    PROVE  Ahead(wn \o more, w, r, p \o more)
  <1>1. PICK rp \in Seq(Bytes) : Joins(rp, r, p)
    BY JoinOf
  <1>2. PICK pm \in Seq(Bytes) : Joins(pm, p, more)
    BY JoinOf
  <1>3. PICK rpm \in Seq(Bytes) : Joins(rpm, rp, more)
    BY JoinOf
  <1>4. Joins(wn, w, rp)
    BY <1>1, Zenon DEF Joins, Ahead
  <1>5. PICK w1 : Joins(w1, wn, more)
    BY DEF Joins
  <1>6. Joins(rpm, r, pm)
    BY <1>1, <1>2, <1>3, JoinsRegroup
  <1>7. Joins(w1, w, rpm)
    BY <1>3, <1>4, <1>5, JoinsRegroup
  <1> QED
    BY <1>2, <1>5, <1>6, <1>7, Zenon DEF Joins, Ahead

LEMMA SamePrefix ==
    ASSUME NEW items \in Seq(Items), NEW item \in Items, NEW k \in 0..Len(items)
    PROVE  /\ WrittenTo(Append(items, item), k) = WrittenTo(items, k)
           /\ OutcomesTo(Append(items, item), k) = OutcomesTo(items, k)
  <1>1. \A i \in 1..k : Append(items, item)[i] = items[i]
    OBVIOUS
  <1>2. [i \in 1..k |-> Line(Append(items, item)[i])] = [i \in 1..k |-> Line(items[i])]
    BY <1>1
  <1>3. [i \in 1..k |-> Outcome(Append(items, item)[i])] = [i \in 1..k |-> Outcome(items[i])]
    BY <1>1
  <1> QED
    BY <1>2, <1>3, Zenon DEF WrittenTo, OutcomesTo

LEMMA WriteStream ==
    ASSUME NEW items \in Seq(Items), NEW item \in Items, NEW k, NEW r, NEW p,
           Stream(items, <<>>, k, r, p)
    PROVE  Stream(Append(items, item), <<>>, k, r, p \o Line(item))
  <1> DEFINE n == Len(items)
             it == Append(items, item)
             line == Line(item)
  <1>1. /\ k \in 0..n /\ n \in Nat /\ r \in Seq(Bytes) /\ NoNewline(r) /\ p \in Seq(Bytes)
        /\ WrittenTo(items, n) \o <<>> = WrittenTo(items, k) \o (r \o p)
    BY DEF Stream
  <1>2. it \in Seq(Items) /\ Len(it) = n + 1 /\ it[n + 1] = item
    BY AppendProperties
  <1>3. line \in Seq(Bytes) /\ p \o line \in Seq(Bytes)
    BY <1>1, LineType, ConcatInSeq
  <1>4. n \in 0..n /\ n \in 0..(Len(it) - 1) /\ n + 1 \in 0..Len(it) /\ k \in 0..Len(it)
    BY <1>1, <1>2
  <1>5. /\ WrittenTo(items, n) \in Seq(Bytes) /\ WrittenTo(items, k) \in Seq(Bytes)
        /\ WrittenTo(it, n + 1) \in Seq(Bytes)
    BY <1>1, <1>2, <1>4, WrittenType
  <1>6. WrittenTo(it, k) = WrittenTo(items, k) /\ WrittenTo(it, n) = WrittenTo(items, n)
    BY <1>1, <1>4, SamePrefix
  <1> HIDE DEF it, n, line
  <1>7. WrittenTo(it, n + 1) = WrittenTo(items, n) \o line
    BY <1>2, <1>4, <1>6, WrittenNext DEF line
  <1>8. Ahead(WrittenTo(items, n), WrittenTo(items, k), r, p)
    BY <1>1, <1>5, ConcatEmptySeq DEF Ahead
  <1>9. Ahead(WrittenTo(items, n) \o line, WrittenTo(items, k), r, p \o line)
    BY <1>1, <1>3, <1>5, <1>8, MoreOnTheWay, Zenon
  <1>10. WrittenTo(it, n + 1) \o <<>> = WrittenTo(it, n + 1)
    BY <1>5, ConcatEmptySeq
  <1>11. WrittenTo(it, Len(it)) \o <<>> = WrittenTo(it, k) \o (r \o (p \o line))
    BY <1>2, <1>6, <1>7, <1>9, <1>10, Zenon DEF Ahead
  <1>12. Stream(it, <<>>, k, r, p \o line)
    BY <1>1, <1>3, <1>4, <1>11, Zenon DEF Stream
  <1> QED
    BY <1>12 DEF it, line

LEMMA DieStream ==
    ASSUME NEW items \in Seq(Items), NEW begun \in Seq(Bytes), NEW k, NEW r, NEW p,
           Stream(items, <<>>, k, r, p)
    PROVE  Stream(items, begun, k, r, p \o begun)
  <1> DEFINE n == Len(items)
  <1>1. /\ k \in 0..n /\ n \in 0..n /\ r \in Seq(Bytes) /\ NoNewline(r) /\ p \in Seq(Bytes)
        /\ WrittenTo(items, n) \o <<>> = WrittenTo(items, k) \o (r \o p)
    BY DEF Stream
  <1>2. WrittenTo(items, n) \in Seq(Bytes) /\ WrittenTo(items, k) \in Seq(Bytes)
    BY <1>1, WrittenType
  <1>3. p \o begun \in Seq(Bytes)
    BY <1>1, ConcatInSeq
  <1>4. Ahead(WrittenTo(items, n), WrittenTo(items, k), r, p)
    BY <1>1, <1>2, ConcatEmptySeq DEF Ahead
  <1>5. Ahead(WrittenTo(items, n) \o begun, WrittenTo(items, k), r, p \o begun)
    BY <1>1, <1>2, <1>4, MoreOnTheWay, Zenon
  <1> QED
    BY <1>1, <1>3, <1>5, Zenon DEF Stream, Ahead

(* With the pipe read to its end, nothing finished is left, and the next   *)
(* child begins after the last line of this one.                           *)
LEMMA ExitStream ==
    ASSUME NEW items \in Seq(Items), NEW begun \in Seq(Bytes), NEW k, NEW r,
           Stream(items, begun, k, r, <<>>)
    PROVE  Stream(items, <<>>, k, <<>>, <<>>)
  <1> DEFINE n == Len(items)
  <1>1. /\ k \in 0..n /\ n \in 0..n /\ n \in Nat /\ r \in Seq(Bytes) /\ NoNewline(r)
        /\ WrittenTo(items, n) \o begun = WrittenTo(items, k) \o (r \o <<>>)
    BY DEF Stream
  <1>2. r \o <<>> = r
    BY <1>1, ConcatEmptySeq
  <1>3. k = n
    <2>1. SUFFICES ASSUME k # n PROVE FALSE
      OBVIOUS
    <2>2. k \in 0..(n - 1)
      BY <1>1, <2>1
    <2> DEFINE all == WrittenTo(items, n) \o begun
    <2>3. Joins(all, WrittenTo(items, n), begun) /\ Joins(all, WrittenTo(items, k), r)
      BY <1>1, <1>2, Zenon DEF Joins
    <2> HIDE DEF all
    <2>4. PICK body \in Seq(Bytes), more \in Seq(Bytes), after \in Seq(Bytes) :
              NextLineIs(items, begun, k, r, body, more, after)
      BY <1>1, <2>2, <2>3, NextLine
    <2> DEFINE bn == Append(body, NL)
               i == Len(body) + 1
    <2>5. NL \in Bytes
      BY DEF Bytes
    <2>6. bn \in Seq(Bytes) /\ Len(bn) = i /\ bn[i] = NL
      BY <2>5, AppendProperties
    <2>7. Len(after) \in Nat /\ i \in Nat \ {0}
      OBVIOUS
    <2>8. Joins(r, bn, after)
      BY <2>4, Zenon DEF NextLineIs
    <2> HIDE DEF bn, i
    <2>9. i \in 1..(Len(bn) + Len(after)) /\ i <= Len(bn)
      BY <2>6, <2>7
    <2>10. Len(r) = Len(bn) + Len(after) /\ r[i] = bn[i]
      BY <2>6, <2>7, <2>8, <2>9, ConcatProperties DEF Joins
    <2>11. i \in 1..Len(r) /\ r[i] = NL
      BY <2>6, <2>9, <2>10
    <2> QED
      BY <1>1, <2>11 DEF NoNewline
  <1>4. WrittenTo(items, n) \in Seq(Bytes)
    BY <1>1, WrittenType
  <1>5. <<>> \in Seq(Bytes) /\ NoNewline(<<>>) /\ <<>> \o <<>> = <<>>
    BY DEF NoNewline
  <1>6. WrittenTo(items, n) \o <<>> = WrittenTo(items, k) \o (<<>> \o <<>>)
    BY <1>3, <1>5, Zenon
  <1> QED
    BY <1>1, <1>5, <1>6, Zenon DEF Stream

-----------------------------------------------------------------------------
Begun == {<<>>, <<Opening(NotAnObject)>>}

StreamInv ==
    /\ sent \in Seq(Items) /\ alive \in BOOLEAN
    /\ received = OutcomesTo(sent, lines)
    /\ \E begun \in Begun : /\ alive => begun = <<>>
                            /\ Stream(sent, begun, lines, buffer, pipe)

LEMMA BegunType ==
    ASSUME NEW begun \in Begun
    PROVE  begun \in Seq(Bytes) /\ NoNewline(begun)
  <1> DEFINE o == Opening(NotAnObject)
  <1>1. o \in Bytes /\ o # NL
    BY OpeningFacts DEF Bytes, Payloads
  <1>2. <<>> \in Seq(Bytes) /\ NoNewline(<<>>)
    BY DEF NoNewline
  <1> HIDE DEF o
  <1>3. <<o>> \in Seq(Bytes) /\ Len(<<o>>) = 1 /\ <<o>>[1] = o
    BY <1>1
  <1>4. NoNewline(<<o>>)
    BY <1>1, <1>3 DEF NoNewline
  <1> QED
    BY <1>2, <1>3, <1>4, Zenon DEF Begun, o

LEMMA StreamInit == Init => StreamInv
  <1> SUFFICES ASSUME Init PROVE StreamInv
    OBVIOUS
  <1>1. /\ pipe = <<>> /\ buffer = <<>> /\ alive = TRUE
        /\ sent = <<>> /\ lines = 0 /\ received = <<>>
    BY DEF Init
  <1>2. sent \in Seq(Items) /\ Len(sent) = 0
    BY <1>1
  <1>3. WrittenTo(sent, 0) = <<>> /\ OutcomesTo(sent, 0) = <<>>
    BY NoLineYet
  <1>4. <<>> \in Seq(Bytes) /\ NoNewline(<<>>) /\ <<>> \o <<>> = <<>> /\ 0 \in 0..0
    BY DEF NoNewline
  <1>5. Stream(sent, <<>>, lines, buffer, pipe)
    BY <1>1, <1>2, <1>3, <1>4, Zenon DEF Stream
  <1>6. <<>> \in Begun
    BY DEF Begun
  <1> QED
    BY <1>1, <1>2, <1>3, <1>5, <1>6 DEF StreamInv

LEMMA StreamStep == StreamInv /\ [Next]_vars => StreamInv'
  <1> SUFFICES ASSUME StreamInv, [Next]_vars PROVE StreamInv'
    OBVIOUS
  <1>1. sent \in Seq(Items) /\ alive \in BOOLEAN /\ received = OutcomesTo(sent, lines)
    BY DEF StreamInv
  <1>2. PICK begun \in Begun : /\ alive => begun = <<>>
                               /\ Stream(sent, begun, lines, buffer, pipe)
    BY DEF StreamInv
  <1>3. begun \in Seq(Bytes) /\ NoNewline(begun)
    BY BegunType
  <1>4. lines \in 0..Len(sent) /\ lines \in Nat /\ pipe \in Seq(Bytes)
    BY <1>1, <1>2 DEF Stream
  <1>5. <<>> \in Begun
    BY DEF Begun
  <1>6. ASSUME NEW item \in Items, Write(item) PROVE StreamInv'
    <2>1. /\ alive /\ sent' = Append(sent, item) /\ pipe' = pipe \o Line(item)
          /\ UNCHANGED <<buffer, alive, lines, received>>
      BY <1>6, Zenon DEF Write
    <2>2. sent' \in Seq(Items)
      BY <1>1, <2>1
    <2>3. Stream(sent', <<>>, lines', buffer', pipe')
      BY <1>1, <1>2, <2>1, WriteStream
    <2>4. received' = OutcomesTo(sent', lines')
      BY <1>1, <1>4, <2>1, SamePrefix
    <2> QED
      BY <1>1, <1>5, <2>1, <2>2, <2>3, <2>4 DEF StreamInv
  <1>7. ASSUME NEW b \in Begun, Die(b) PROVE StreamInv'
    <2>1. /\ alive /\ pipe' = pipe \o b /\ alive' = FALSE
          /\ UNCHANGED <<buffer, sent, lines, received>>
      BY <1>7 DEF Die, historyVars
    <2>2. b \in Seq(Bytes)
      BY BegunType
    <2>3. Stream(sent', b, lines', buffer', pipe')
      BY <1>1, <1>2, <2>1, <2>2, DieStream
    <2> QED
      BY <1>1, <2>1, <2>3 DEF StreamInv
  <1>8. ASSUME NEW n \in 1..Len(pipe), NEW b \in AgentBuffers, Receive(n, b)
        PROVE  StreamInv'
    <2> DEFINE bytes == buffer \o SubSeq(pipe, 1, n)
               k == lines + Cardinality(Newlines(bytes))
    <2>1. /\ pipe' = SubSeq(pipe, n + 1, Len(pipe)) /\ buffer' = Rest(bytes)
          /\ received' = received \o Decoded(bytes) /\ lines' = k
          /\ UNCHANGED <<alive, sent>>
      BY <1>8 DEF Receive
    <2>2. n \in 0..Len(pipe)
      BY <1>4
    <2>3. HasTaken(sent, begun, lines, OutcomesTo(sent, lines),
                   bytes, SubSeq(pipe, n + 1, Len(pipe)))
      BY <1>1, <1>2, <1>3, <1>4, <2>2, TakesChunk, Zenon
    <2> HIDE DEF bytes
    <2>4. /\ OutcomesTo(sent, lines) \o Decoded(bytes) = OutcomesTo(sent, k)
          /\ Stream(sent, begun, k, Rest(bytes), SubSeq(pipe, n + 1, Len(pipe)))
      BY <2>3, Zenon DEF HasTaken
    <2> HIDE DEF k
    <2>5. received' = OutcomesTo(sent', lines')
      BY <1>1, <2>1, <2>4, Zenon
    <2>6. Stream(sent', begun, lines', buffer', pipe')
      BY <2>1, <2>4, Zenon
    <2> QED
      BY <1>1, <1>2, <2>1, <2>5, <2>6, Zenon DEF StreamInv
  <1>9. ASSUME NEW b \in AgentBuffers, Exited(b) PROVE StreamInv'
    <2>1. /\ pipe = <<>> /\ alive' = TRUE /\ buffer' = <<>>
          /\ UNCHANGED <<pipe, sent, lines, received>>
      BY <1>9 DEF Exited, Reset
    <2>2. Stream(sent', <<>>, lines', buffer', pipe')
      BY <1>1, <1>2, <1>3, <2>1, ExitStream
    <2> QED
      BY <1>1, <1>5, <2>1, <2>2 DEF StreamInv
  <1>10. ASSUME UNCHANGED vars PROVE StreamInv'
    <2>1. UNCHANGED <<pipe, buffer, alive, sent, lines, received>>
      BY <1>10 DEF vars, historyVars
    <2> QED
      BY <1>1, <1>2, <2>1, Zenon DEF StreamInv
  <1> QED
    BY <1>6, <1>7, <1>8, <1>9, <1>10, Zenon DEF Next, Begun

(* However the pipe is cut and whichever child dies with a line begun, the *)
(* bytes on the way and in the decoder's buffer are what was written after *)
(* the last line read.                                                     *)
THEOREM StreamCorrect == Spec => []StreamInv
  <1> QED
    BY StreamInit, StreamStep, PTL DEF Spec

(* JsonRpcDecoder, parse_message, to_json: every finished line comes out   *)
(* once, in order, as what went in, for any messages and any cuts.         *)
THEOREM MessagesArrive == Spec => []MessagesArriveWhole
  <1>1. StreamInv => MessagesArriveWhole
    BY Zenon DEF StreamInv, MessagesArriveWhole, OutcomesTo
  <1> QED
    BY <1>1, StreamCorrect, PTL

=============================================================================
