--------------------------- MODULE Windows_proofs ---------------------------
(***************************************************************************)
(* Proofs about Windows and FrameLayout, for every set of names, paths and *)
(* sessions, every frame, any number of buffers and windows.               *)
(***************************************************************************)
EXTENDS Windows, FiniteSetTheorems, SequenceTheorems, WellFoundedInduction, TLAPS

-----------------------------------------------------------------------------
(* The layout of a frame.                                                  *)

(* What integer division gives.                                            *)
LEMMA DivFacts ==
    ASSUME NEW a \in Nat, NEW d \in Nat \ {0}
    PROVE  /\ a \div d \in Nat
           /\ d * (a \div d) <= a
           /\ a < d * (a \div d) + d
OBVIOUS

(* Multiplying by a natural keeps the order.                               *)
LEMMA TimesMonotonic ==
    ASSUME NEW a \in Nat, NEW b \in Nat, NEW c \in Nat, a <= b
    PROVE  c * a <= c * b
OBVIOUS

(* A quotient is at least q when the dividend is at least q times the      *)
(* divisor.                                                                *)
LEMMA QuotientAtLeast ==
    ASSUME NEW a \in Nat, NEW d \in Nat \ {0}, NEW q \in Nat, d * q <= a
    PROVE  a \div d >= q
<1> DEFINE r == a \div d
<1>1. r \in Nat /\ a < d * r + d
  BY DivFacts
<1>2. ASSUME r + 1 <= q PROVE FALSE
  <2>1. d * (r + 1) <= d * q
    BY <1>1, <1>2, TimesMonotonic
  <2>2. d * (r + 1) = d * r + d
    BY <1>1
  <2>3. d * (r + 1) \in Nat /\ d * q \in Nat /\ d * r \in Nat
    BY <1>1
  <2> HIDE DEF r
  <2> QED
    BY <1>1, <2>1, <2>2, <2>3
<1> HIDE DEF r
<1>3. r >= q
  BY <1>1, <1>2
<1> QED
  BY <1>3 DEF r

(* How many windows are drawn, and the rows of each.                       *)
LEMMA VisibleFacts ==
    ASSUME NEW h \in Nat, h >= 2, NEW n \in Nat \ {0}
    PROVE  LET v == VisibleCount(h, n)
               q == BaseRows(h, v)
           IN  /\ v \in 1..n
               /\ q \in Nat /\ v * q <= PaneBudget(h)
               /\ q >= AtMost(PaneBudget(h), 2)
               /\ h >= n * MIN_WINDOW_ROWS + 1 => v = n /\ q >= MIN_WINDOW_ROWS
<1> DEFINE P == PaneBudget(h)
           v == VisibleCount(h, n)
           q == BaseRows(h, v)
<1>1. P \in Nat \ {0} /\ P = h - 1
  BY DEF PaneBudget
<1>2. P \div 2 \in Nat /\ 2 * (P \div 2) <= P /\ P < 2 * (P \div 2) + 2
  BY <1>1, DivFacts
<1>3. v \in 1..n /\ v \in Nat \ {0}
  BY <1>2 DEF VisibleCount, AtMost, AtLeast
<1>4. q \in Nat /\ v * q <= P
  BY <1>1, <1>3, DivFacts DEF BaseRows
<1>5. q >= AtMost(P, 2)
  <2>1. CASE v = 1
    <3>1. 1 * P <= P
      BY <1>1
    <3> QED
      BY <1>1, <2>1, <3>1, QuotientAtLeast DEF BaseRows, AtMost
  <2>2. CASE v # 1
    <3>1. v <= P \div 2
      BY <1>2, <1>3, <2>2 DEF VisibleCount, AtMost, AtLeast
    <3>2. v * 2 <= P
      BY <1>1, <1>2, <1>3, <3>1
    <3>3. q >= 2
      BY <1>1, <1>3, <3>2, QuotientAtLeast DEF BaseRows
    <3> QED
      BY <1>1, <1>4, <3>3 DEF AtMost
  <2> QED
    BY <2>1, <2>2
<1>6. ASSUME h >= n * MIN_WINDOW_ROWS + 1 PROVE v = n /\ q >= MIN_WINDOW_ROWS
  <2>1. n * 3 <= P
    BY <1>1, <1>6 DEF MIN_WINDOW_ROWS
  <2>2. n <= P \div 2
    BY <1>1, <1>2, <2>1
  <2>3. v = n
    BY <1>2, <2>2 DEF VisibleCount, AtMost, AtLeast
  <2>4. q >= 3
    BY <1>1, <1>3, <2>1, <2>3, QuotientAtLeast DEF BaseRows
  <2> QED
    BY <2>3, <2>4 DEF MIN_WINDOW_ROWS
<1> QED
  BY <1>3, <1>4, <1>5, <1>6

(* The slice of windows that is drawn holds the focused one.               *)
LEMMA SliceFacts ==
    ASSUME NEW n \in Nat \ {0}, NEW f \in 1..n, NEW v \in 1..n
    PROVE  /\ FirstVisible(n, f, v) \in 1..n
           /\ FirstVisible(n, f, v) + v - 1 <= n
           /\ f - FirstVisible(n, f, v) + 1 \in 1..v
<1>1. (v - 1) \div 2 \in Nat /\ 2 * ((v - 1) \div 2) <= v - 1
  BY DivFacts
<1> QED
  BY <1>1 DEF FirstVisible, AtMost, AtLeast

(* The panes follow each other and fill the rows above the echo row, none  *)
(* with fewer rows than the quotient.                                      *)
LEMMA PaneFacts ==
    ASSUME NEW h \in Nat, h >= 1, NEW v \in Nat \ {0},
           BaseRows(h, v) \in Nat, v * BaseRows(h, v) <= PaneBudget(h)
    PROVE  /\ \A k \in 1..v : /\ PaneTop(h, v, k) \in Nat /\ PaneRows(h, v, k) \in Nat
                              /\ PaneRows(h, v, k) >= BaseRows(h, v)
           /\ \A k \in 1..(v - 1) : PaneTop(h, v, k + 1) = PaneTop(h, v, k) + PaneRows(h, v, k)
           /\ PaneTop(h, v, v) + PaneRows(h, v, v) = PaneBudget(h)
<1> DEFINE q == BaseRows(h, v)
           P == PaneBudget(h)
<1>1. P \in Nat /\ q \in Nat /\ v * q <= P
  BY DEF PaneBudget
<1>2. \A k \in 1..v : (k - 1) * q \in Nat
  BY <1>1
<1>3. (v - 1) * q = v * q - q
  BY <1>1
<1>4. \A k \in 1..(v - 1) : k * q = (k - 1) * q + q
  BY <1>1
<1> HIDE DEF q, P
<1>5. \A k \in 1..v : /\ PaneTop(h, v, k) \in Nat /\ PaneRows(h, v, k) \in Nat
                      /\ PaneRows(h, v, k) >= q
  <2> TAKE k \in 1..v
  <2>1. PaneTop(h, v, k) \in Nat
    BY <1>2 DEF PaneTop, q
  <2>2. P - (v - 1) * q >= q
    BY <1>1, <1>3
  <2>3. PaneRows(h, v, k) = IF k < v THEN q ELSE P - (v - 1) * q
    BY DEF PaneRows, q, P
  <2> QED
    BY <1>1, <1>2, <2>1, <2>2, <2>3
<1>6. \A k \in 1..(v - 1) : PaneTop(h, v, k + 1) = PaneTop(h, v, k) + PaneRows(h, v, k)
  <2> TAKE k \in 1..(v - 1)
  <2>1. PaneTop(h, v, k + 1) = k * q /\ PaneTop(h, v, k) = (k - 1) * q
    BY DEF PaneTop, q
  <2>2. PaneRows(h, v, k) = q
    BY DEF PaneRows, q
  <2> QED
    BY <1>4, <2>1, <2>2
<1>7. PaneTop(h, v, v) + PaneRows(h, v, v) = P
  <2>1. PaneTop(h, v, v) = (v - 1) * q /\ PaneRows(h, v, v) = P - (v - 1) * q
    BY DEF PaneTop, PaneRows, q, P
  <2> QED
    BY <1>1, <1>2, <2>1
<1> QED
  BY <1>5, <1>6, <1>7 DEF q, P

(* The cursor is in the body of its pane.                                  *)
LEMMA CursorFacts ==
    ASSUME NEW top \in Nat, NEW rows \in Nat, NEW line \in Nat
    PROVE  /\ top <= CursorRow(top, rows, line)
           /\ CursorRow(top, rows, line) < top + AtLeast(rows - 1, 1)
BY DEF CursorRow, AtMost, AtLeast

(* FrameShowsFocus, from the types of what it reads.                       *)
LEMMA LayoutShowsFocus ==
    ASSUME frame \in Nat, Len(windows) \in Nat \ {0}, focused \in 1..Len(windows),
           bufs[current].len \in Nat
    PROVE  FrameShowsFocus
<1> SUFFICES ASSUME frame >= 2 PROVE FrameShowsFocus
  BY DEF FrameShowsFocus
<1> DEFINE n       == Len(windows)
           visible == VisibleCount(frame, n)
           first   == FirstVisible(n, focused, visible)
           slot    == focused - first + 1
           Top(k)  == PaneTop(frame, visible, k)
           Rows(k) == PaneRows(frame, visible, k)
<1>1. /\ visible \in 1..n
      /\ BaseRows(frame, visible) \in Nat
      /\ visible * BaseRows(frame, visible) <= PaneBudget(frame)
      /\ BaseRows(frame, visible) >= AtMost(PaneBudget(frame), 2)
      /\ frame >= n * MIN_WINDOW_ROWS + 1
            => visible = n /\ BaseRows(frame, visible) >= MIN_WINDOW_ROWS
  BY VisibleFacts
<1>2. first >= 1 /\ first + visible - 1 <= n /\ slot \in 1..visible
  BY <1>1, SliceFacts
<1>3. /\ \A k \in 1..visible : /\ Top(k) \in Nat /\ Rows(k) \in Nat
                               /\ Rows(k) >= BaseRows(frame, visible)
      /\ \A k \in 1..(visible - 1) : Top(k + 1) = Top(k) + Rows(k)
      /\ Top(visible) + Rows(visible) = PaneBudget(frame)
  BY <1>1, PaneFacts
<1>4. AtMost(PaneBudget(frame), 2) \in Nat /\ MIN_WINDOW_ROWS \in Nat
  BY DEF AtMost, PaneBudget, MIN_WINDOW_ROWS
<1> HIDE DEF n, visible, first, slot, Top, Rows
<1>5. \A k \in 1..visible : Rows(k) >= AtMost(PaneBudget(frame), 2)
  BY <1>1, <1>3, <1>4
<1>6. \A line \in 0..bufs[current].len :
         LET row == CursorRow(Top(slot), Rows(slot), line)
         IN  Top(slot) <= row /\ row < Top(slot) + AtLeast(Rows(slot) - 1, 1)
  <2>1. Top(slot) \in Nat /\ Rows(slot) \in Nat
    BY <1>2, <1>3
  <2>2. \A line \in 0..bufs[current].len : line \in Nat
    OBVIOUS
  <2> QED
    BY <2>1, <2>2, CursorFacts
<1>7. frame >= n * MIN_WINDOW_ROWS + 1
         => visible = n /\ \A k \in 1..n : Rows(k) >= MIN_WINDOW_ROWS
  <2> SUFFICES ASSUME frame >= n * MIN_WINDOW_ROWS + 1
               PROVE  visible = n /\ \A k \in 1..n : Rows(k) >= MIN_WINDOW_ROWS
    OBVIOUS
  <2>1. visible = n /\ BaseRows(frame, visible) >= MIN_WINDOW_ROWS
    BY <1>1
  <2>2. ASSUME NEW k \in 1..visible PROVE Rows(k) >= MIN_WINDOW_ROWS
    <3>1. Rows(k) \in Nat /\ Rows(k) >= BaseRows(frame, visible)
      BY <1>3
    <3>2. BaseRows(frame, visible) \in Nat
      BY <1>1
    <3> QED
      BY <1>4, <2>1, <3>1, <3>2
  <2> QED
    BY <2>1, <2>2
<1> QED
  BY <1>2, <1>3, <1>5, <1>6, <1>7 DEF FrameShowsFocus, n, visible, first, slot, Top, Rows

-----------------------------------------------------------------------------
(* The inductive invariant: the properties, and that buffers are finitely  *)
(* many, without which there might be no free name.                        *)

BufsOK ==
    /\ bufs \in [DOMAIN bufs -> BufferType]
    /\ \A b \in DOMAIN bufs :
          bufs[b].point \in 0..bufs[b].len /\ bufs[b].mark \in Marks(bufs[b].len)
    /\ IsFiniteSet(DOMAIN bufs)

ViewOK ==
    /\ current \in DOMAIN bufs
    /\ windows \in Seq(WindowType(DOMAIN bufs))
    /\ focused \in DOMAIN windows
    /\ windows[focused] = Shown(current, bufs[current])

MruOK ==
    /\ mru \in Seq(DOMAIN bufs)
    /\ mru # <<>> /\ Head(mru) = current
    /\ IsInjective(mru)

BoundOK ==
    /\ agentBuffers \in [DOMAIN agentBuffers -> DOMAIN bufs]
    /\ logBuffers \in [DOMAIN logBuffers -> DOMAIN bufs]
    /\ DOMAIN agentBuffers \subseteq AcpSessions

WindowsInv ==
    /\ BufsOK /\ ViewOK /\ MruOK /\ BoundOK
    /\ ChainsEndOnLeaving /\ BuffersStayApart /\ frame \in Heights

(* The invariant has the type invariant in it.                             *)
LEMMA InvTypes ==
    WindowsInv => WindowsTypeOK /\ FocusedWindowAgrees
BY DEF WindowsInv, BufsOK, ViewOK, MruOK, BoundOK, ChainsEndOnLeaving, WindowsTypeOK,
       FocusedWindowAgrees

-----------------------------------------------------------------------------
(* Names and sequences.                                                    *)

(* Min of a set of naturals that has a member.                             *)
LEMMA LeastNatural ==
    ASSUME NEW T \in SUBSET Nat, T # {}
    PROVE  Min(T) \in T /\ \A i \in T : Min(T) <= i
<1> DEFINE R == {p \in Nat \X Nat : p[1] < p[2]}
<1>1. IsWellFoundedOn(R, Nat)
  BY NatLessThanWellFounded DEF OpToRel
<1>2. PICK x \in T : \A y \in T : ~(<<y, x>> \in R)
  BY <1>1, WFMin
<1>3. ASSUME NEW y \in T PROVE x <= y
  <2>1. <<y, x>> \in Nat \X Nat /\ <<y, x>>[1] = y /\ <<y, x>>[2] = x
    OBVIOUS
  <2>2. ~(y < x)
    BY <1>2, <2>1
  <2> QED
    BY <2>2
<1> QED
  BY <1>3 DEF Min

(* With room for a buffer there is a free name for it.                     *)
LEMMA FreshNameIsFree ==
    ASSUME NEW base, IsFiniteSet(DOMAIN bufs), RoomForBuffer
    PROVE  FreshName(base) \notin DOMAIN bufs
<1> DEFINE I == 1..(MaxBuffers + 1)
           free == {n \in I : <<base, n>> \notin DOMAIN bufs}
           f == [n \in I |-> <<base, n>>]
<1>1. MaxBuffers \in Nat
  BY WindowsAssumption
<1>2. ASSUME free = {} PROVE FALSE
  <2>1. f \in Injection(I, DOMAIN bufs)
    BY <1>2 DEF Injection, IsInjective
  <2>2. Cardinality(I) <= Cardinality(DOMAIN bufs)
    BY <2>1, FS_Injection
  <2>3. Cardinality(I) = MaxBuffers + 1
    BY <1>1, FS_Interval
  <2>4. Cardinality(DOMAIN bufs) \in Nat
    BY FS_CardinalityType
  <2> QED
    BY <1>1, <2>2, <2>3, <2>4 DEF RoomForBuffer
<1>3. free \in SUBSET Nat /\ free # {}
  BY <1>1, <1>2
<1>4. Min(free) \in free
  BY <1>3, LeastNatural
<1> QED
  BY <1>4 DEF FreshName

(* A value in a sequence is its first element or a later one; taking its   *)
(* first occurrence out leaves the other values, each once.                *)
LEMMA RemoveFirstFacts ==
    ASSUME NEW S, NEW s \in Seq(S), NEW e, IsInjective(s)
    PROVE  /\ RemoveFirst(s, e) \in Seq(S)
           /\ IsInjective(RemoveFirst(s, e))
           /\ \A i \in DOMAIN RemoveFirst(s, e) : RemoveFirst(s, e)[i] # e
<1>1. CASE ~\E i \in 1..Len(s) : s[i] = e
  BY <1>1 DEF RemoveFirst
<1>2. CASE \E i \in 1..Len(s) : s[i] = e
  <2> DEFINE I == {i \in 1..Len(s) : s[i] = e}
             k == Min(I)
             left == SubSeq(s, 1, k - 1)
             right == SubSeq(s, k + 1, Len(s))
             r == left \o right
  <2>1. k \in 1..Len(s) /\ s[k] = e
    <3>1. I \in SUBSET Nat /\ I # {}
      BY <1>2
    <3> QED
      BY <3>1, LeastNatural
  <2>2. RemoveFirst(s, e) = r
    <3>1. SelectInSeq(s, LAMBDA v : v = e) = k
      BY <1>2 DEF SelectInSeq
    <3> QED
      BY <1>2, <3>1 DEF RemoveFirst, RemoveAt
  <2> HIDE DEF k
  <2>3. /\ left \in Seq(S) /\ Len(left) = k - 1
        /\ \A i \in 1..(k - 1) : left[i] = s[i]
    BY <2>1, SubSeqProperties
  <2>4. /\ right \in Seq(S) /\ Len(right) = Len(s) - k
        /\ \A i \in 1..(Len(s) - k) : right[i] = s[k + i]
    BY <2>1, SubSeqProperties
  <2> HIDE DEF left, right
  <2>5. /\ r \in Seq(S) /\ Len(r) = Len(s) - 1
        /\ \A i \in 1..(Len(s) - 1) : r[i] = IF i < k THEN s[i] ELSE s[i + 1]
    <3>1. /\ r \in Seq(S) /\ Len(r) = Len(left) + Len(right)
          /\ \A i \in 1..(Len(left) + Len(right)) :
                r[i] = IF i <= Len(left) THEN left[i] ELSE right[i - Len(left)]
      BY <2>3, <2>4, ConcatProperties
    <3> HIDE DEF r
    <3>2. Len(s) \in Nat /\ Len(r) = Len(s) - 1
      <4>1. Len(s) \in Nat
        OBVIOUS
      <4>2. Len(left) + Len(right) = Len(s) - 1
        BY <2>1, <2>3, <2>4, <4>1
      <4> QED
        BY <3>1, <4>1, <4>2
    <3>3. ASSUME NEW i \in 1..(Len(s) - 1), i < k PROVE r[i] = s[i]
      <4>1. /\ i \in 1..(k - 1) /\ i <= Len(left)
            /\ i \in 1..(Len(left) + Len(right))
        BY <2>1, <2>3, <2>4, <3>2, <3>3
      <4> QED
        BY <2>3, <3>1, <4>1
    <3>4. ASSUME NEW i \in 1..(Len(s) - 1), ~(i < k) PROVE r[i] = s[i + 1]
      <4>1. i - Len(left) \in 1..(Len(s) - k) /\ k + (i - Len(left)) = i + 1
        BY <2>1, <2>3, <3>2, <3>4
      <4>2. ~(i <= Len(left)) /\ i \in 1..(Len(left) + Len(right))
        BY <2>1, <2>3, <2>4, <3>2, <3>4
      <4>3. r[i] = right[i - Len(left)]
        BY <3>1, <4>2
      <4> QED
        BY <2>4, <4>1, <4>3
    <3> QED
      BY <3>1, <3>2, <3>3, <3>4
  <2> HIDE DEF r
  <2>6. \A i \in 1..(Len(s) - 1) : r[i] # e
    BY <2>1, <2>5 DEF IsInjective
  <2>7. IsInjective(r)
    BY <2>1, <2>5 DEF IsInjective
  <2> QED
    BY <2>2, <2>5, <2>6, <2>7
<1> QED
  BY <1>1, <1>2

(* The list of recent buffers after a visit to b.                          *)
LEMMA UsedFacts ==
    ASSUME NEW S, mru \in Seq(S), IsInjective(mru), NEW b \in S
    PROVE  Used(b) \in Seq(S) /\ Used(b) # <<>> /\ Head(Used(b)) = b /\ IsInjective(Used(b))
<1> DEFINE r == RemoveFirst(mru, b)
           u == <<b>> \o r
<1>1. r \in Seq(S) /\ IsInjective(r) /\ \A i \in DOMAIN r : r[i] # b
  BY RemoveFirstFacts
<1> HIDE DEF r
<1>2. /\ u \in Seq(S) /\ Len(u) = Len(r) + 1
      /\ \A i \in 1..(Len(r) + 1) : u[i] = IF i = 1 THEN b ELSE r[i - 1]
  BY <1>1, ConcatProperties
<1> HIDE DEF u
<1>3. IsInjective(u)
  BY <1>1, <1>2 DEF IsInjective
<1>4. u # <<>> /\ Head(u) = b
  BY <1>1, <1>2
<1> QED
  BY <1>2, <1>3, <1>4 DEF Used, u, r

-----------------------------------------------------------------------------
(* Parts of steps.                                                         *)

(* A buffer's point and mark make a window.                                *)
LEMMA ShownType ==
    ASSUME NEW names, NEW b \in names, NEW value \in BufferType
    PROVE  Shown(b, value) \in WindowType(names)
BY DEF Shown, Window, WindowType, BufferType

(* A value whose point and mark are in its text.                           *)
Sound(value) ==
    /\ value \in BufferType
    /\ value.point \in 0..value.len /\ value.mark \in Marks(value.len)

(* The end of a command on a buffer that exists.                           *)
LEMMA CommitStep ==
    ASSUME BufsOK, NEW b \in DOMAIN bufs, NEW value, Sound(value),
           NEW ws \in Seq(WindowType(DOMAIN bufs)), NEW f \in DOMAIN ws,
           Commit(b, value, ws, f), current' = b
    PROVE  /\ BufsOK' /\ ViewOK'
           /\ DOMAIN bufs' = DOMAIN bufs
           /\ \A x \in DOMAIN bufs : bufs'[x] = IF x = b THEN value ELSE bufs[x]
<1>1. /\ DOMAIN bufs' = DOMAIN bufs
      /\ \A x \in DOMAIN bufs : bufs'[x] = IF x = b THEN value ELSE bufs[x]
      /\ bufs' \in [DOMAIN bufs -> BufferType]
  BY DEF Commit, BufsOK, Sound
<1>2. BufsOK'
  <2>1. \A x \in DOMAIN bufs' :
           bufs'[x].point \in 0..bufs'[x].len /\ bufs'[x].mark \in Marks(bufs'[x].len)
    BY <1>1 DEF BufsOK, Sound, Marks
  <2> QED
    BY <1>1, <2>1 DEF BufsOK, Marks
<1>3. Shown(b, value) \in WindowType(DOMAIN bufs)
  BY ShownType DEF Sound
<1>4. /\ windows' = [ws EXCEPT ![f] = Shown(b, value)]
      /\ focused' = f
  BY DEF Commit, SyncFocused
<1>5. /\ windows' \in Seq(WindowType(DOMAIN bufs)) /\ focused' \in DOMAIN windows'
      /\ windows'[focused'] = Shown(b, value)
  BY <1>3, <1>4
<1>6. ViewOK'
  BY <1>1, <1>5 DEF ViewOK, Shown
<1> QED
  BY <1>1, <1>2, <1>6

(* A step that leaves the names, paths and kinds of the buffers and the    *)
(* agent's bindings alone keeps the buffers apart.                         *)
LEMMA ApartStep ==
    ASSUME BoundOK, BuffersStayApart, DOMAIN bufs' = DOMAIN bufs, UNCHANGED bindings,
           \A b \in DOMAIN bufs : bufs'[b].path = bufs[b].path /\ bufs'[b].kind = bufs[b].kind
    PROVE  BoundOK' /\ BuffersStayApart'
<1>1. agentBuffers' = agentBuffers /\ logBuffers' = logBuffers
  BY DEF bindings
<1>2. BoundOK'
  BY <1>1 DEF BoundOK
<1>3. /\ Values(agentBuffers)' = Values(agentBuffers) /\ Values(logBuffers)' = Values(logBuffers)
      /\ Values(agentBuffers) \cup Values(logBuffers) \subseteq DOMAIN bufs
  BY <1>1 DEF Values, BoundOK
<1> QED
  BY <1>1, <1>2, <1>3 DEF BuffersStayApart

(* A command of the user's that ends on an existing buffer, whose path and *)
(* kind it leaves alone.                                                   *)
LEMMA CommandStep ==
    ASSUME WindowsInv, NEW b \in DOMAIN bufs, NEW value, Sound(value),
           value.path = bufs[b].path, value.kind = bufs[b].kind,
           NEW ws \in Seq(WindowType(DOMAIN bufs)), NEW f \in DOMAIN ws,
           Commit(b, value, ws, f), current' = b, UNCHANGED <<bindings, frame>>,
           (mru' = mru /\ b = current) \/ mru' = Used(b), ChainsEndOnLeaving'
    PROVE  WindowsInv'
<1>1. /\ BufsOK' /\ ViewOK' /\ DOMAIN bufs' = DOMAIN bufs
      /\ \A x \in DOMAIN bufs : bufs'[x] = IF x = b THEN value ELSE bufs[x]
  BY CommitStep DEF WindowsInv
<1>2. BoundOK' /\ BuffersStayApart'
  BY <1>1, ApartStep DEF WindowsInv
<1>3. MruOK'
  <2>1. mru \in Seq(DOMAIN bufs) /\ mru # <<>> /\ Head(mru) = current /\ IsInjective(mru)
    BY DEF WindowsInv, MruOK
  <2>2. CASE mru' = mru /\ b = current
    BY <1>1, <2>1, <2>2 DEF MruOK
  <2>3. CASE mru' = Used(b)
    <3>1. mru' \in Seq(DOMAIN bufs) /\ mru' # <<>> /\ Head(mru') = b /\ IsInjective(mru')
      BY <2>1, <2>3, UsedFacts
    <3> QED
      BY <1>1, <3>1 DEF MruOK
  <2> QED
    BY <2>2, <2>3
<1> QED
  BY <1>1, <1>2, <1>3 DEF WindowsInv

-----------------------------------------------------------------------------
(* The commands.                                                           *)

(* What the invariant says of the state before a step.                     *)
LEMMA InvFacts ==
    ASSUME WindowsInv
    PROVE  /\ current \in DOMAIN bufs
           /\ \A b \in DOMAIN bufs : Sound(bufs[b])
           /\ windows \in Seq(WindowType(DOMAIN bufs)) /\ focused \in DOMAIN windows
           /\ Len(windows) \in Nat \ {0} /\ DOMAIN windows = 1..Len(windows)
           /\ windows[focused] = Shown(current, bufs[current])
           /\ \A i \in DOMAIN windows : windows[i] \in WindowType(DOMAIN bufs)
           /\ chained \subseteq {current}
<1>1. \A b \in DOMAIN bufs : Sound(bufs[b])
  BY DEF WindowsInv, BufsOK, Sound
<1> QED
  BY <1>1 DEF WindowsInv, ViewOK, ChainsEndOnLeaving

(* Editing.                                                                *)
LEMMA EditStep ==
    ASSUME WindowsInv, NEW len \in Nat, NEW p \in 0..len, NEW m \in Marks(len), Edit(len, p, m)
    PROVE  WindowsInv'
<1> DEFINE value == [bufs[current] EXCEPT !.len = len, !.point = p, !.mark = m]
<1>1. current \in DOMAIN bufs /\ Sound(bufs[current])
  BY InvFacts
<1>2. Sound(value) /\ value.path = bufs[current].path /\ value.kind = bufs[current].kind
  <2>1. p \in Nat /\ m \in Nat \cup {NoMark}
    BY DEF Marks
  <2>2. /\ value \in BufferType /\ value.len = len /\ value.point = p /\ value.mark = m
        /\ value.path = bufs[current].path /\ value.kind = bufs[current].kind
    BY <1>1, <2>1 DEF Sound, BufferType
  <2> HIDE DEF value
  <2> QED
    BY <2>2 DEF Sound
<1>3. /\ Commit(current, value, windows, focused) /\ current' = current
      /\ mru' = mru /\ UNCHANGED <<bindings, frame>>
  BY DEF Edit
<1>4. ChainsEndOnLeaving'
  BY InvFacts DEF Edit, ChainsEndOnLeaving
<1> HIDE DEF value
<1> QED
  BY <1>1, <1>2, <1>3, <1>4, InvFacts, CommandStep

(* A copy of the focused window put below it.                              *)
LEMMA SplitFacts ==
    ASSUME WindowsInv
    PROVE  /\ Split \in Seq(WindowType(DOMAIN bufs)) /\ Len(Split) = Len(windows) + 1
           /\ \A i \in 1..Len(Split) :
                 Split[i] = IF i <= focused THEN windows[i] ELSE windows[i - 1]
<1>1. /\ windows \in Seq(WindowType(DOMAIN bufs)) /\ focused \in 1..Len(windows)
      /\ Len(windows) \in Nat /\ windows[focused] \in WindowType(DOMAIN bufs)
  BY InvFacts
<1> DEFINE W == WindowType(DOMAIN bufs)
           left == SubSeq(windows, 1, focused)
           mid == <<windows[focused]>>
           right == SubSeq(windows, focused + 1, Len(windows))
<1>2. Split = left \o mid \o right
  <2>1. (focused + 1) - 1 = focused
    BY <1>1
  <2> QED
    BY <2>1 DEF Split, InsertAt
<1>3. left \in Seq(W) /\ Len(left) = focused /\ \A i \in 1..focused : left[i] = windows[i]
  BY <1>1, SubSeqProperties
<1>4. /\ right \in Seq(W) /\ Len(right) = Len(windows) - focused
      /\ \A i \in 1..(Len(windows) - focused) : right[i] = windows[focused + i]
  BY <1>1, SubSeqProperties
<1>5. mid \in Seq(W) /\ Len(mid) = 1 /\ mid[1] = windows[focused]
  BY <1>1
<1> HIDE DEF W, left, mid, right
<1> DEFINE lm == left \o mid
<1>6. /\ lm \in Seq(W) /\ Len(lm) = Len(left) + Len(mid)
      /\ \A i \in 1..(Len(left) + Len(mid)) :
            lm[i] = IF i <= Len(left) THEN left[i] ELSE mid[i - Len(left)]
  BY <1>3, <1>5, ConcatProperties
<1> HIDE DEF lm
<1>7. /\ Len(lm) = focused + 1
      /\ \A i \in 1..(focused + 1) : lm[i] = IF i <= focused THEN windows[i] ELSE windows[focused]
  <2>1. focused \in Nat /\ Len(left) + Len(mid) = focused + 1
    BY <1>1, <1>3, <1>5
  <2>2. ASSUME NEW i \in 1..(focused + 1), ~(i <= focused) PROVE i - focused = 1
    BY <2>1, <2>2
  <2> QED
    BY <1>3, <1>5, <1>6, <2>1, <2>2
<1>8. /\ lm \o right \in Seq(W) /\ Len(lm \o right) = Len(windows) + 1
      /\ \A i \in 1..(Len(windows) + 1) :
            (lm \o right)[i] = IF i <= focused + 1 THEN lm[i] ELSE right[i - (focused + 1)]
  <2>1. /\ lm \o right \in Seq(W) /\ Len(lm \o right) = Len(lm) + Len(right)
        /\ \A i \in 1..(Len(lm) + Len(right)) :
              (lm \o right)[i] = IF i <= Len(lm) THEN lm[i] ELSE right[i - Len(lm)]
    BY <1>4, <1>6, ConcatProperties
  <2>2. Len(lm) + Len(right) = Len(windows) + 1
    BY <1>1, <1>4, <1>7
  <2> QED
    BY <1>7, <2>1, <2>2
<1>9. ASSUME NEW i \in 1..(Len(windows) + 1)
      PROVE  (lm \o right)[i] = IF i <= focused THEN windows[i] ELSE windows[i - 1]
  <2>1. CASE i <= focused + 1
    <3>1. i \in 1..(focused + 1) /\ (i <= focused \/ i - 1 = focused)
      BY <1>1, <2>1
    <3> QED
      BY <1>1, <1>7, <1>8, <2>1, <3>1
  <2>2. CASE ~(i <= focused + 1)
    <3>1. /\ i - (focused + 1) \in 1..(Len(windows) - focused)
          /\ focused + (i - (focused + 1)) = i - 1 /\ ~(i <= focused)
      BY <1>1, <2>2
    <3>2. right[i - (focused + 1)] = windows[focused + (i - (focused + 1))]
      BY <1>4, <3>1
    <3> QED
      BY <1>8, <2>2, <3>1, <3>2
  <2> QED
    BY <2>1, <2>2
<1> QED
  BY <1>2, <1>8, <1>9 DEF lm, W

(* C-x 2.                                                                  *)
LEMMA SplitWindowStep ==
    ASSUME WindowsInv, SplitWindow
    PROVE  WindowsInv'
<1>1. Split \in Seq(WindowType(DOMAIN bufs)) /\ focused \in DOMAIN Split
  BY SplitFacts, InvFacts
<1>2. ChainsEndOnLeaving'
  BY InvFacts DEF SplitWindow, Intervene, ChainsEndOnLeaving
<1> QED
  BY <1>1, <1>2, InvFacts, CommandStep DEF SplitWindow

(* A restored point and mark are in the text.                              *)
LEMMA RestoredFacts ==
    ASSUME NEW value, Sound(value), NEW names, NEW w \in WindowType(names)
    PROVE  /\ Sound(Restored(value, w))
           /\ Restored(value, w).path = value.path /\ Restored(value, w).kind = value.kind
<1> DEFINE p == ClampedPoint(w.point, value.len)
           m == ClampedMark(w.mark, value.len)
<1>1. value \in BufferType /\ value.len \in Nat /\ w.point \in Nat /\ w.mark \in Nat \cup {NoMark}
  BY DEF Sound, BufferType, WindowType
<1>2. p \in 0..value.len /\ m \in Marks(value.len)
  BY <1>1 DEF ClampedPoint, ClampedMark, AtMost, Marks
<1>3. Restored(value, w) = [value EXCEPT !.point = p, !.mark = m]
  BY DEF Restored
<1> HIDE DEF p, m
<1>4. p \in Nat /\ m \in Nat \cup {NoMark}
  BY <1>1, <1>2 DEF Marks
<1> QED
  BY <1>1, <1>2, <1>3, <1>4 DEF Sound, BufferType

(* C-x o.                                                                  *)
LEMMA OtherWindowStep ==
    ASSUME WindowsInv, OtherWindow
    PROVE  WindowsInv'
<1> DEFINE f == (focused % Len(windows)) + 1
           b == windows[f].buffer
<1>1. /\ Commit(b, Restored(bufs[b], windows[f]), windows, f) /\ current' = b
      /\ mru' = IF b = current THEN mru ELSE Used(b)
      /\ IF b = current THEN Intervene ELSE Leave(b)
      /\ UNCHANGED <<bindings, frame>>
  BY DEF OtherWindow
<1>2. f \in DOMAIN windows
  BY InvFacts
<1> HIDE DEF f
<1>3. b \in DOMAIN bufs /\ windows[f] \in WindowType(DOMAIN bufs)
  BY <1>2, InvFacts DEF WindowType
<1>4. ChainsEndOnLeaving'
  BY <1>1, InvFacts DEF Intervene, Leave, ChainsEndOnLeaving
<1> HIDE DEF b
<1>5. Sound(bufs[b])
  BY <1>3, InvFacts
<1> DEFINE v == Restored(bufs[b], windows[f])
<1>6. Sound(v) /\ v.path = bufs[b].path /\ v.kind = bufs[b].kind
  BY <1>3, <1>5, RestoredFacts
<1>7. windows \in Seq(WindowType(DOMAIN bufs))
  BY InvFacts
<1>8. (mru' = mru /\ b = current) \/ mru' = Used(b)
  BY <1>1
<1>9. Commit(b, v, windows, f)
  BY <1>1
<1> HIDE DEF v
<1> QED
  BY <1>1, <1>2, <1>3, <1>4, <1>6, <1>7, <1>8, <1>9, CommandStep

(* C-x 1.                                                                  *)
LEMMA DeleteOtherWindowsStep ==
    ASSUME WindowsInv, DeleteOtherWindows
    PROVE  WindowsInv'
<1>1. <<windows[focused]>> \in Seq(WindowType(DOMAIN bufs)) /\ 1 \in DOMAIN <<windows[focused]>>
  BY InvFacts
<1>2. ChainsEndOnLeaving'
  BY InvFacts DEF DeleteOtherWindows, Intervene, ChainsEndOnLeaving
<1> QED
  BY <1>1, <1>2, InvFacts, CommandStep DEF DeleteOtherWindows

(* A resized frame.                                                        *)
LEMMA ResizeFrameStep ==
    ASSUME WindowsInv, NEW h \in Heights, ResizeFrame(h)
    PROVE  WindowsInv'
<1>1. /\ bufs' = bufs /\ current' = current /\ windows' = windows /\ focused' = focused
      /\ mru' = mru /\ chained' = chained /\ UNCHANGED bindings /\ frame' = h
  BY DEF ResizeFrame, layoutVars
<1>2. BoundOK' /\ BuffersStayApart'
  BY <1>1, ApartStep DEF WindowsInv
<1>3. BufsOK' /\ ViewOK' /\ MruOK' /\ ChainsEndOnLeaving'
  BY <1>1 DEF WindowsInv, BufsOK, ViewOK, MruOK, ChainsEndOnLeaving, Marks, Shown
<1> QED
  BY <1>1, <1>2, <1>3 DEF WindowsInv

-----------------------------------------------------------------------------
(* Buffers are made and selected.                                          *)

(* A new buffer's point is at the start of its text.                       *)
LEMMA NewBufferFacts ==
    ASSUME NEW len \in Nat, NEW path \in Paths \cup {NoPath}, NEW kind \in {"ordinary", "generated"}
    PROVE  /\ Sound(NewBuffer(len, path, kind))
           /\ NewBuffer(len, path, kind).path = path /\ NewBuffer(len, path, kind).kind = kind
BY DEF Sound, NewBuffer, BufferType, Marks

(* A buffer more, under a free name and visiting no file that is open.     *)
LEMMA GrowStep ==
    ASSUME WindowsInv, NEW b, b \notin DOMAIN bufs, NEW value, Sound(value),
           bufs' = Put(bufs, b, value),
           value.path = NoPath \/ Visiting(value.path) = {}
    PROVE  /\ BufsOK' /\ DOMAIN bufs' = DOMAIN bufs \cup {b} /\ bufs'[b] = value
           /\ \A x \in DOMAIN bufs : bufs'[x] = bufs[x]
           /\ windows \in Seq(WindowType(DOMAIN bufs')) /\ mru \in Seq(DOMAIN bufs')
           /\ \A x, y \in DOMAIN bufs' :
                 bufs'[x].path = bufs'[y].path /\ bufs'[x].path # NoPath => x = y
<1>1. bufs \in [DOMAIN bufs -> BufferType] /\ value \in BufferType
  BY DEF WindowsInv, BufsOK, Sound
<1>2. /\ DOMAIN bufs' = DOMAIN bufs \cup {b} /\ bufs'[b] = value
      /\ \A x \in DOMAIN bufs : bufs'[x] = bufs[x]
      /\ bufs' \in [DOMAIN bufs \cup {b} -> BufferType]
  <2>1. /\ DOMAIN Put(bufs, b, value) = DOMAIN bufs \cup {b} /\ Put(bufs, b, value)[b] = value
        /\ \A x \in DOMAIN bufs : Put(bufs, b, value)[x] = IF x = b THEN value ELSE bufs[x]
    BY DEF Put
  <2>2. Put(bufs, b, value) \in [DOMAIN bufs \cup {b} -> BufferType]
    BY <1>1 DEF Put
  <2> QED
    BY <2>1, <2>2
<1>3. BufsOK'
  <2>1. IsFiniteSet(DOMAIN bufs')
    BY <1>2, FS_AddElement DEF WindowsInv, BufsOK
  <2>2. \A x \in DOMAIN bufs' :
           bufs'[x].point \in 0..bufs'[x].len /\ bufs'[x].mark \in Marks(bufs'[x].len)
    BY <1>2 DEF WindowsInv, BufsOK, Sound
  <2> QED
    BY <1>2, <2>1, <2>2 DEF BufsOK, Marks
<1>4. windows \in Seq(WindowType(DOMAIN bufs')) /\ mru \in Seq(DOMAIN bufs')
  <2>1. WindowType(DOMAIN bufs) \subseteq WindowType(DOMAIN bufs')
    BY <1>2 DEF WindowType
  <2>2. windows \in Seq(WindowType(DOMAIN bufs)) /\ mru \in Seq(DOMAIN bufs)
    BY DEF WindowsInv, ViewOK, MruOK
  <2>3. DOMAIN bufs \subseteq DOMAIN bufs'
    BY <1>2
  <2>4. \A S, T : S \subseteq T => Seq(S) \subseteq Seq(T)
    OBVIOUS
  <2> QED
    BY <2>1, <2>2, <2>3, <2>4
<1>5. \A x, y \in DOMAIN bufs' :
         bufs'[x].path = bufs'[y].path /\ bufs'[x].path # NoPath => x = y
  BY <1>2 DEF WindowsInv, BuffersStayApart, Visiting
<1> QED
  BY <1>2, <1>3, <1>4, <1>5

(* A buffer, possibly new, becomes current.                                *)
LEMMA SelectBufferStep ==
    ASSUME WindowsInv, NEW b, NEW value, SelectBuffer(b, value), UNCHANGED <<bindings, frame>>,
           \/ b \in DOMAIN bufs /\ value = bufs[b]
           \/ /\ b \notin DOMAIN bufs /\ Sound(value)
              /\ value.path = NoPath \/ Visiting(value.path) = {}
    PROVE  WindowsInv'
<1>1. CASE b = current
  <2>1. /\ bufs' = bufs /\ current' = current /\ windows' = windows /\ focused' = focused
        /\ mru' = mru /\ chained' = chained \ {current} /\ UNCHANGED bindings /\ frame' = frame
    BY <1>1 DEF SelectBuffer, Intervene, layoutVars
  <2>2. BoundOK' /\ BuffersStayApart'
    BY <2>1, ApartStep DEF WindowsInv
  <2>3. BufsOK' /\ ViewOK' /\ MruOK' /\ ChainsEndOnLeaving'
    BY <2>1 DEF WindowsInv, BufsOK, ViewOK, MruOK, ChainsEndOnLeaving, Marks, Shown
  <2> QED
    BY <2>1, <2>2, <2>3 DEF WindowsInv
<1>2. CASE b # current
  <2>1. /\ bufs' = Put(bufs, b, value) /\ current' = b
        /\ windows' = [windows EXCEPT ![focused] = Shown(b, value)]
        /\ mru' = Used(b) /\ chained' = chained \ {current, b} /\ focused' = focused
        /\ agentBuffers' = agentBuffers /\ logBuffers' = logBuffers /\ frame' = frame
    BY <1>2 DEF SelectBuffer, SyncFocused, Leave, bindings
  <2>2. ChainsEndOnLeaving'
    BY <2>1, InvFacts DEF ChainsEndOnLeaving
  <2>3. CASE b \in DOMAIN bufs /\ value = bufs[b]
    <3>1. Commit(b, bufs[b], windows, focused)
      <4>1. bufs' = bufs
        BY <2>1, <2>3 DEF Put, WindowsInv, BufsOK
      <4>2. [bufs EXCEPT ![b] = bufs[b]] = bufs
        BY <2>3 DEF WindowsInv, BufsOK
      <4> QED
        BY <2>1, <2>3, <4>1, <4>2 DEF Commit, SyncFocused
    <3> QED
      BY <2>1, <2>2, <2>3, <3>1, InvFacts, CommandStep
  <2>4. CASE /\ b \notin DOMAIN bufs /\ Sound(value)
             /\ value.path = NoPath \/ Visiting(value.path) = {}
    <3>1. /\ BufsOK' /\ DOMAIN bufs' = DOMAIN bufs \cup {b} /\ bufs'[b] = value
          /\ \A x \in DOMAIN bufs : bufs'[x] = bufs[x]
          /\ windows \in Seq(WindowType(DOMAIN bufs')) /\ mru \in Seq(DOMAIN bufs')
          /\ \A x, y \in DOMAIN bufs' :
                bufs'[x].path = bufs'[y].path /\ bufs'[x].path # NoPath => x = y
      BY <2>1, <2>4, GrowStep
    <3>2. ViewOK'
      <4>1. Shown(b, value) \in WindowType(DOMAIN bufs')
        BY <2>4, <3>1, ShownType DEF Sound
      <4>2. focused \in DOMAIN windows
        BY InvFacts
      <4>3. /\ windows' \in Seq(WindowType(DOMAIN bufs')) /\ focused' \in DOMAIN windows'
            /\ windows'[focused'] = Shown(b, value)
        BY <2>1, <3>1, <4>1, <4>2
      <4> QED
        BY <2>1, <3>1, <4>3 DEF ViewOK, Shown
    <3>3. MruOK'
      <4>1. IsInjective(mru) /\ b \in DOMAIN bufs'
        BY <3>1 DEF WindowsInv, MruOK
      <4>2. /\ Used(b) \in Seq(DOMAIN bufs') /\ Used(b) # <<>>
            /\ Head(Used(b)) = b /\ IsInjective(Used(b))
        BY <3>1, <4>1, UsedFacts
      <4> QED
        BY <2>1, <4>2 DEF MruOK
    <3>4. BoundOK'
      BY <2>1, <3>1 DEF WindowsInv, BoundOK
    <3>5. BuffersStayApart'
      <4>1. Values(agentBuffers) \cup Values(logBuffers) \subseteq DOMAIN bufs
        BY DEF Values, WindowsInv, BoundOK
      <4>2. /\ Values(agentBuffers)' = Values(agentBuffers)
            /\ Values(logBuffers)' = Values(logBuffers)
        BY <2>1 DEF Values
      <4> QED
        BY <2>1, <3>1, <4>1, <4>2 DEF WindowsInv, BuffersStayApart
    <3> QED
      BY <2>1, <2>2, <3>1, <3>2, <3>3, <3>4, <3>5 DEF WindowsInv
  <2> QED
    BY <2>3, <2>4
<1> QED
  BY <1>1, <1>2

(* C-x b.                                                                  *)
LEMMA SwitchBufferStep ==
    ASSUME WindowsInv, NEW b, SwitchBuffer(b)
    PROVE  WindowsInv'
<1>1. Sound(NewBuffer(0, NoPath, "ordinary")) /\ NewBuffer(0, NoPath, "ordinary").path = NoPath
  BY NewBufferFacts
<1>2. UNCHANGED <<bindings, frame>>
  BY DEF SwitchBuffer
<1>3. CASE b \in DOMAIN bufs /\ SelectBuffer(b, bufs[b])
  BY <1>2, <1>3, SelectBufferStep
<1>4. CASE b \notin DOMAIN bufs /\ SelectBuffer(b, NewBuffer(0, NoPath, "ordinary"))
  BY <1>1, <1>2, <1>4, SelectBufferStep
<1> QED
  BY <1>3, <1>4 DEF SwitchBuffer

(* C-x C-f.                                                                *)
LEMMA OpenFileStep ==
    ASSUME WindowsInv, NEW path \in Paths, OpenFile(path)
    PROVE  WindowsInv'
<1>1. UNCHANGED <<bindings, frame>>
  BY DEF OpenFile
<1>2. ASSUME NEW b \in Visiting(path), SelectBuffer(b, bufs[b]) PROVE WindowsInv'
  BY <1>1, <1>2, SelectBufferStep DEF Visiting
<1>3. ASSUME NEW len \in 0..MaxLen, Visiting(path) = {}, RoomForBuffer,
             SelectBuffer(FreshName(Basename[path]), NewBuffer(len, path, "ordinary"))
      PROVE  WindowsInv'
  <2>1. FreshName(Basename[path]) \notin DOMAIN bufs
    BY <1>3, FreshNameIsFree DEF WindowsInv, BufsOK
  <2>2. /\ Sound(NewBuffer(len, path, "ordinary"))
        /\ NewBuffer(len, path, "ordinary").path = path
    BY NewBufferFacts
  <2> QED
    BY <1>1, <1>3, <2>1, <2>2, SelectBufferStep
<1> QED
  BY <1>2, <1>3 DEF OpenFile

-----------------------------------------------------------------------------
(* What the pump does.                                                     *)

(* A buffer minted under a free name disturbs none of the user's state.    *)
LEMMA MintStep ==
    ASSUME WindowsInv, NEW base, RoomForBuffer, Mint(FreshName(base))
    PROVE  LET b == FreshName(base)
           IN  /\ b \notin DOMAIN bufs /\ DOMAIN bufs' = DOMAIN bufs \cup {b}
               /\ bufs'[b] = NewBuffer(0, NoPath, "generated")
               /\ \A x \in DOMAIN bufs : bufs'[x] = bufs[x]
               /\ \A x, y \in DOMAIN bufs' :
                     bufs'[x].path = bufs'[y].path /\ bufs'[x].path # NoPath => x = y
               /\ BufsOK' /\ ViewOK' /\ MruOK' /\ ChainsEndOnLeaving' /\ frame' \in Heights
<1> DEFINE b == FreshName(base)
           value == NewBuffer(0, NoPath, "generated")
<1>1. b \notin DOMAIN bufs
  BY FreshNameIsFree DEF WindowsInv, BufsOK
<1>2. Sound(value) /\ value.path = NoPath
  BY NewBufferFacts
<1>3. /\ bufs' = Put(bufs, b, value) /\ current' = current /\ windows' = windows
      /\ focused' = focused /\ mru' = mru /\ chained' = chained /\ frame' = frame
  BY DEF Mint, layoutVars
<1> HIDE DEF b, value
<1>4. /\ BufsOK' /\ DOMAIN bufs' = DOMAIN bufs \cup {b} /\ bufs'[b] = value
      /\ \A x \in DOMAIN bufs : bufs'[x] = bufs[x]
      /\ windows \in Seq(WindowType(DOMAIN bufs')) /\ mru \in Seq(DOMAIN bufs')
      /\ \A x, y \in DOMAIN bufs' :
            bufs'[x].path = bufs'[y].path /\ bufs'[x].path # NoPath => x = y
  BY <1>1, <1>2, <1>3, GrowStep
<1>5. ViewOK' /\ MruOK' /\ ChainsEndOnLeaving' /\ frame' \in Heights
  BY <1>3, <1>4 DEF WindowsInv, ViewOK, MruOK, ChainsEndOnLeaving, Shown
<1> QED
  BY <1>1, <1>4, <1>5 DEF b, value

(* The transcript buffer of a session.                                     *)
LEMMA CreateAgentBufferStep ==
    ASSUME WindowsInv, NEW s \in AcpSessions, s \notin DOMAIN agentBuffers, RoomForBuffer,
           Mint(FreshName(AgentBase)),
           agentBuffers' = Put(agentBuffers, s, FreshName(AgentBase)), UNCHANGED logBuffers
    PROVE  WindowsInv'
<1> DEFINE b == FreshName(AgentBase)
<1>1. /\ b \notin DOMAIN bufs /\ DOMAIN bufs' = DOMAIN bufs \cup {b}
      /\ bufs'[b] = NewBuffer(0, NoPath, "generated")
      /\ \A x \in DOMAIN bufs : bufs'[x] = bufs[x]
      /\ \A x, y \in DOMAIN bufs' :
            bufs'[x].path = bufs'[y].path /\ bufs'[x].path # NoPath => x = y
      /\ BufsOK' /\ ViewOK' /\ MruOK' /\ ChainsEndOnLeaving' /\ frame' \in Heights
  BY MintStep
<1>2. bufs'[b].kind = "generated" /\ bufs'[b].path = NoPath
  BY <1>1, NewBufferFacts
<1>3. /\ DOMAIN agentBuffers' = DOMAIN agentBuffers \cup {s} /\ agentBuffers'[s] = b
      /\ \A t \in DOMAIN agentBuffers : agentBuffers'[t] = agentBuffers[t]
      /\ agentBuffers' \in [DOMAIN agentBuffers' -> DOMAIN bufs']
  BY <1>1 DEF WindowsInv, BoundOK, Put
<1> HIDE DEF b
<1>4. BoundOK'
  BY <1>1, <1>3 DEF WindowsInv, BoundOK
<1>5. /\ Values(agentBuffers)' = Values(agentBuffers) \cup {b}
      /\ Values(logBuffers)' = Values(logBuffers)
      /\ Values(agentBuffers) \cup Values(logBuffers) \subseteq DOMAIN bufs
      /\ \A t \in DOMAIN agentBuffers : agentBuffers[t] \in DOMAIN bufs
  BY <1>3 DEF Values, WindowsInv, BoundOK
<1>6. BuffersStayApart'
  <2>1. \A t, u \in DOMAIN agentBuffers' : agentBuffers'[t] = agentBuffers'[u] => t = u
    BY <1>1, <1>3, <1>5 DEF WindowsInv, BuffersStayApart
  <2>2. \A x \in Values(agentBuffers)' \cup Values(logBuffers)' :
           bufs'[x].kind = "generated" /\ bufs'[x].path = NoPath
    BY <1>1, <1>2, <1>5 DEF WindowsInv, BuffersStayApart
  <2>3. Values(agentBuffers)' \cap Values(logBuffers)' = {}
    BY <1>1, <1>5 DEF WindowsInv, BuffersStayApart
  <2> QED
    BY <1>1, <2>1, <2>2, <2>3 DEF BuffersStayApart
<1> QED
  BY <1>1, <1>4, <1>6 DEF WindowsInv

(* The diagnostics buffer.                                                 *)
LEMMA CreateGeneratedBufferStep ==
    ASSUME WindowsInv, NEW base, base \notin DOMAIN logBuffers, RoomForBuffer,
           Mint(FreshName(base)),
           logBuffers' = Put(logBuffers, base, FreshName(base)), UNCHANGED agentBuffers
    PROVE  WindowsInv'
<1> DEFINE b == FreshName(base)
<1>1. /\ b \notin DOMAIN bufs /\ DOMAIN bufs' = DOMAIN bufs \cup {b}
      /\ bufs'[b] = NewBuffer(0, NoPath, "generated")
      /\ \A x \in DOMAIN bufs : bufs'[x] = bufs[x]
      /\ \A x, y \in DOMAIN bufs' :
            bufs'[x].path = bufs'[y].path /\ bufs'[x].path # NoPath => x = y
      /\ BufsOK' /\ ViewOK' /\ MruOK' /\ ChainsEndOnLeaving' /\ frame' \in Heights
  BY MintStep
<1>2. bufs'[b].kind = "generated" /\ bufs'[b].path = NoPath
  BY <1>1, NewBufferFacts
<1>3. /\ DOMAIN logBuffers' = DOMAIN logBuffers \cup {base} /\ logBuffers'[base] = b
      /\ \A t \in DOMAIN logBuffers : logBuffers'[t] = logBuffers[t]
      /\ logBuffers' \in [DOMAIN logBuffers' -> DOMAIN bufs']
  BY <1>1 DEF WindowsInv, BoundOK, Put
<1> HIDE DEF b
<1>4. BoundOK'
  BY <1>1, <1>3 DEF WindowsInv, BoundOK
<1>5. /\ Values(logBuffers)' = Values(logBuffers) \cup {b}
      /\ Values(agentBuffers)' = Values(agentBuffers)
      /\ Values(agentBuffers) \cup Values(logBuffers) \subseteq DOMAIN bufs
  BY <1>3 DEF Values, WindowsInv, BoundOK
<1>6. BuffersStayApart'
  <2>1. \A x \in Values(agentBuffers)' \cup Values(logBuffers)' :
           bufs'[x].kind = "generated" /\ bufs'[x].path = NoPath
    BY <1>1, <1>2, <1>5 DEF WindowsInv, BuffersStayApart
  <2>2. Values(agentBuffers)' \cap Values(logBuffers)' = {}
    BY <1>1, <1>5 DEF WindowsInv, BuffersStayApart
  <2> QED
    BY <1>1, <2>1, <2>2 DEF WindowsInv, BuffersStayApart
<1> QED
  BY <1>1, <1>4, <1>6 DEF WindowsInv

(* A buffer the agent writes to exists.                                    *)
LEMMA AgentBuffersExist ==
    ASSUME WindowsInv
    PROVE  Values(agentBuffers) \cup Values(logBuffers) \subseteq DOMAIN bufs
BY DEF WindowsInv, BoundOK, Values

(* Text at the end of a generated buffer.                                  *)
LEMMA DeliverStep ==
    ASSUME WindowsInv, NEW b \in DOMAIN bufs, NEW count \in Nat, Deliver(b, count)
    PROVE  WindowsInv'
<1> DEFINE before == bufs[b].len
           after == before + count
           value == [bufs[b] EXCEPT !.len = after, !.point = Follow(@, before, after)]
           tail == [i \in DOMAIN windows |->
                      IF i # focused /\ windows[i].buffer = b
                        THEN [windows[i] EXCEPT !.point = Follow(@, before, after)]
                        ELSE windows[i]]
<1>1. /\ bufs' = [bufs EXCEPT ![b] = value]
      /\ windows' = IF b = current THEN SyncFocused(tail, focused, b, value) ELSE tail
      /\ current' = current /\ focused' = focused /\ mru' = mru /\ chained' = chained
      /\ UNCHANGED bindings /\ frame' = frame
  BY DEF Deliver
<1>2. before \in Nat /\ after \in Nat /\ before <= after /\ Sound(bufs[b])
  BY InvFacts DEF Sound, BufferType
<1>3. Sound(value) /\ value.path = bufs[b].path /\ value.kind = bufs[b].kind
  <2>1. Follow(bufs[b].point, before, after) \in 0..after
    BY <1>2 DEF Follow, Sound
  <2>2. bufs[b].mark \in Marks(after)
    BY <1>2 DEF Marks, Sound
  <2> HIDE DEF before, after
  <2>3. Follow(bufs[b].point, before, after) \in Nat
    BY <1>2, <2>1
  <2>4. /\ value \in BufferType /\ value.len = after /\ value.mark = bufs[b].mark
        /\ value.point = Follow(bufs[b].point, before, after)
        /\ value.path = bufs[b].path /\ value.kind = bufs[b].kind
    BY <1>2, <2>3 DEF Sound, BufferType
  <2> HIDE DEF value
  <2> QED
    BY <2>1, <2>2, <2>4 DEF Sound
<1>4. /\ tail \in Seq(WindowType(DOMAIN bufs)) /\ DOMAIN tail = DOMAIN windows
      /\ tail[focused] = windows[focused]
  <2>1. ASSUME NEW w \in WindowType(DOMAIN bufs)
        PROVE  [w EXCEPT !.point = Follow(@, before, after)] \in WindowType(DOMAIN bufs)
    <3>1. Follow(w.point, before, after) \in Nat
      BY <1>2 DEF Follow, WindowType
    <3> QED
      BY <3>1 DEF WindowType
  <2>2. /\ windows \in Seq(WindowType(DOMAIN bufs)) /\ DOMAIN windows = 1..Len(windows)
        /\ Len(windows) \in Nat /\ focused \in DOMAIN windows
        /\ \A i \in DOMAIN windows : windows[i] \in WindowType(DOMAIN bufs)
    BY InvFacts
  <2>3. \A i \in DOMAIN windows : tail[i] \in WindowType(DOMAIN bufs)
    BY <2>1, <2>2
  <2>4. tail \in [1..Len(windows) -> WindowType(DOMAIN bufs)]
    BY <2>2, <2>3
  <2> QED
    BY <2>2, <2>4
<1> HIDE DEF value, tail, before, after
<1>5. CASE b = current
  <2>1. Commit(b, value, tail, focused) /\ focused \in DOMAIN tail
    BY <1>1, <1>4, <1>5, InvFacts DEF Commit
  <2>2. ChainsEndOnLeaving'
    BY <1>1 DEF WindowsInv, ChainsEndOnLeaving
  <2> QED
    BY <1>1, <1>3, <1>4, <1>5, <2>1, <2>2, CommandStep
<1>6. CASE b # current
  <2>1. /\ DOMAIN bufs' = DOMAIN bufs
        /\ \A x \in DOMAIN bufs : bufs'[x] = IF x = b THEN value ELSE bufs[x]
        /\ bufs' \in [DOMAIN bufs -> BufferType]
    BY <1>1, <1>3 DEF WindowsInv, BufsOK, Sound
  <2>2. BufsOK'
    <3>1. \A x \in DOMAIN bufs' :
             bufs'[x].point \in 0..bufs'[x].len /\ bufs'[x].mark \in Marks(bufs'[x].len)
      BY <1>3, <2>1 DEF WindowsInv, BufsOK, Sound
    <3> QED
      BY <2>1, <3>1 DEF WindowsInv, BufsOK, Marks
  <2>3. ViewOK'
    BY <1>1, <1>4, <1>6, <2>1, InvFacts DEF ViewOK, Shown
  <2>4. BoundOK' /\ BuffersStayApart'
    BY <1>1, <1>3, <2>1, ApartStep DEF WindowsInv
  <2>5. MruOK' /\ ChainsEndOnLeaving' /\ frame' \in Heights
    BY <1>1, <2>1 DEF WindowsInv, MruOK, ChainsEndOnLeaving
  <2> QED
    BY <2>2, <2>3, <2>4, <2>5 DEF WindowsInv
<1> QED
  BY <1>5, <1>6

(* The agent's buffer comes up in another window.                          *)
LEMMA DisplayBufferStep ==
    ASSUME WindowsInv, NEW b \in DOMAIN bufs, DisplayBuffer(b)
    PROVE  WindowsInv'
<1> DEFINE ws == IF Len(windows) = 1 THEN Split ELSE windows
           target == (focused % Len(ws)) + 1
           shown == [ws EXCEPT ![target] = Window(b, 0, NoMark)]
<1>1. /\ Commit(current, bufs[current], shown, focused) /\ current' = current
      /\ mru' = mru /\ chained' = chained /\ UNCHANGED <<bindings, frame>>
  BY DEF DisplayBuffer
<1>2. Window(b, 0, NoMark) \in WindowType(DOMAIN bufs)
  BY DEF Window, WindowType
<1>3. ws \in Seq(WindowType(DOMAIN bufs)) /\ focused \in DOMAIN ws
  <2>1. CASE Len(windows) = 1
    BY <2>1, InvFacts, SplitFacts
  <2>2. CASE Len(windows) # 1
    BY <2>2, InvFacts
  <2> QED
    BY <2>1, <2>2
<1> HIDE DEF ws, target
<1>4. shown \in Seq(WindowType(DOMAIN bufs)) /\ focused \in DOMAIN shown
  <2>1. /\ Len(ws) \in Nat /\ ws \in [1..Len(ws) -> WindowType(DOMAIN bufs)]
        /\ DOMAIN ws = 1..Len(ws)
    BY <1>3
  <2>2. shown \in [1..Len(ws) -> WindowType(DOMAIN bufs)]
    BY <1>2, <2>1
  <2> HIDE DEF shown
  <2> QED
    BY <1>3, <2>1, <2>2
<1> HIDE DEF shown
<1>5. ChainsEndOnLeaving'
  BY <1>1 DEF WindowsInv, ChainsEndOnLeaving
<1> QED
  BY <1>1, <1>4, <1>5, InvFacts, CommandStep

-----------------------------------------------------------------------------
(* The specification.                                                      *)

(* The first state.                                                        *)
LEMMA InitInv ==
    Init => WindowsInv
<1> SUFFICES ASSUME Init PROVE WindowsInv
  OBVIOUS
<1>1. PICK len \in 0..MaxLen, path \in Paths \cup {NoPath} :
        LET b == <<IF path = NoPath THEN Scratch ELSE Basename[path], 1>>
        IN  /\ bufs = [x \in {b} |-> NewBuffer(len, path, "ordinary")]
            /\ current = b /\ windows = <<Window(b, 0, NoMark)>> /\ mru = <<b>>
  BY DEF Init
<1> DEFINE b == <<IF path = NoPath THEN Scratch ELSE Basename[path], 1>>
           value == NewBuffer(len, path, "ordinary")
<1>2. /\ bufs = [x \in {b} |-> value]
      /\ current = b /\ windows = <<Window(b, 0, NoMark)>> /\ mru = <<b>>
  BY <1>1
<1>3. /\ focused = 1 /\ chained = {} /\ frame \in Heights
      /\ agentBuffers = [x \in {} |-> x] /\ logBuffers = [x \in {} |-> x]
  BY DEF Init
<1>4. Sound(value)
  BY WindowsAssumption, NewBufferFacts
<1>5. Shown(b, value) = Window(b, 0, NoMark)
  BY DEF Shown, NewBuffer
<1> HIDE DEF b, value
<1>6. DOMAIN bufs = {b} /\ bufs[b] = value
  BY <1>2
<1>7. BufsOK
  <2>1. IsFiniteSet(DOMAIN bufs)
    BY <1>6, FS_Singleton
  <2> QED
    BY <1>2, <1>4, <1>6, <2>1 DEF BufsOK, Sound
<1>8. ViewOK
  <2>1. Window(b, 0, NoMark) \in WindowType(DOMAIN bufs)
    BY <1>6 DEF Window, WindowType
  <2> QED
    BY <1>2, <1>3, <1>5, <1>6, <2>1 DEF ViewOK
<1>9. MruOK
  BY <1>2, <1>6 DEF MruOK, IsInjective
<1>10. BoundOK /\ ChainsEndOnLeaving
  BY <1>3 DEF BoundOK, ChainsEndOnLeaving
<1>11. BuffersStayApart
  BY <1>3, <1>6 DEF BuffersStayApart, Values
<1> QED
  BY <1>3, <1>7, <1>8, <1>9, <1>10, <1>11 DEF WindowsInv

(* Nothing changes.                                                        *)
LEMMA StutterStep ==
    ASSUME WindowsInv, UNCHANGED vars
    PROVE  WindowsInv'
<1>1. /\ bufs' = bufs /\ current' = current /\ windows' = windows /\ focused' = focused
      /\ mru' = mru /\ chained' = chained /\ UNCHANGED bindings /\ frame' = frame
  BY DEF vars, layoutVars
<1>2. BoundOK' /\ BuffersStayApart'
  BY <1>1, ApartStep DEF WindowsInv
<1> QED
  BY <1>1, <1>2 DEF WindowsInv, BufsOK, ViewOK, MruOK, ChainsEndOnLeaving, Marks, Shown

(* Every step keeps the invariant.                                         *)
LEMMA NextInv ==
    ASSUME WindowsInv, [Next]_vars
    PROVE  WindowsInv'
<1>1. ASSUME NEW len \in 0..MaxLen, NEW p \in 0..len,
             NEW m \in UserMarks(len), Edit(len, p, m)
      PROVE  WindowsInv'
  <2>1. len \in Nat /\ m \in Marks(len)
    BY WindowsAssumption DEF Marks, UserMarks
  <2> QED
    BY <1>1, <2>1, EditStep
<1>2. CASE SplitWindow
  BY <1>2, SplitWindowStep
<1>3. CASE OtherWindow
  BY <1>3, OtherWindowStep
<1>4. CASE DeleteOtherWindows
  BY <1>4, DeleteOtherWindowsStep
<1>5. ASSUME NEW b, SwitchBuffer(b) PROVE WindowsInv'
  BY <1>5, SwitchBufferStep
<1>6. CASE SwitchToDefault
  BY <1>6, SwitchBufferStep DEF SwitchToDefault
<1>7. ASSUME NEW path \in Paths, OpenFile(path) PROVE WindowsInv'
  BY <1>7, OpenFileStep
<1>8. ASSUME NEW h \in Heights, ResizeFrame(h) PROVE WindowsInv'
  BY <1>8, ResizeFrameStep
<1>9. ASSUME NEW s \in AcpSessions, CreateAgentBuffer(s) PROVE WindowsInv'
  BY <1>9, CreateAgentBufferStep, StutterStep DEF CreateAgentBuffer
<1>10. ASSUME CreateGeneratedBuffer(LogBase) PROVE WindowsInv'
  BY <1>10, CreateGeneratedBufferStep, StutterStep DEF CreateGeneratedBuffer
<1>11. ASSUME NEW b \in Values(agentBuffers) \cup Values(logBuffers), NEW n \in 1..MaxOutput,
              Deliver(b, n)
       PROVE  WindowsInv'
  <2>1. b \in DOMAIN bufs /\ n \in Nat
    BY AgentBuffersExist
  <2> QED
    BY <1>11, <2>1, DeliverStep
<1>12. ASSUME NEW b \in Values(agentBuffers), DisplayBuffer(b) PROVE WindowsInv'
  BY <1>12, AgentBuffersExist, DisplayBufferStep
<1>13. CASE UNCHANGED vars
  BY <1>13, StutterStep
<1> QED
  BY <1>1, <1>2, <1>3, <1>4, <1>5, <1>6, <1>7, <1>8, <1>9, <1>10, <1>11, <1>12, <1>13
  DEF Next, UserStep, PeerStep

(* The invariant holds throughout.                                         *)
LEMMA Invariance ==
    Spec => []WindowsInv
<1>1. WindowsInv /\ [Next]_vars => WindowsInv'
  BY NextInv
<1> QED
  BY InitInv, <1>1, PTL DEF Spec

(* WindowsTypeOK: no command, delivery or change of focus carries a point  *)
(* or a mark outside the text it is a position in, where BufferValue would *)
(* raise; every window, recent name and binding is a buffer that exists.   *)
THEOREM TypeCorrect ==
    Spec => []WindowsTypeOK
BY Invariance, InvTypes, PTL

(* FocusedWindowAgrees: at the end of every dispatch the focused window    *)
(* shows the current buffer at its point and mark, and the most recent     *)
(* name is that buffer's, once.                                            *)
THEOREM FocusAgrees ==
    Spec => []FocusedWindowAgrees
BY Invariance, InvTypes, PTL

(* ChainsEndOnLeaving: only the current buffer has a kill, yank or undo    *)
(* chain, so break_chains was called wherever focus went.                  *)
THEOREM ChainsEnd ==
    Spec => []ChainsEndOnLeaving
<1>1. WindowsInv => ChainsEndOnLeaving
  BY DEF WindowsInv
<1> QED
  BY <1>1, Invariance, PTL

(* BuffersStayApart: _open_file and _create_buffer never put a file, two   *)
(* sessions or a session and the log into one buffer, whatever names the   *)
(* user has taken.                                                         *)
THEOREM BuffersApart ==
    Spec => []BuffersStayApart
<1>1. WindowsInv => BuffersStayApart
  BY DEF WindowsInv
<1> QED
  BY <1>1, Invariance, PTL

(* FrameShowsFocus: render_session draws the focused window with its       *)
(* cursor in every frame of two rows or more and any number of windows.    *)
THEOREM FrameHasFocus ==
    Spec => []FrameShowsFocus
<1>1. WindowsInv => FrameShowsFocus
  <2> SUFFICES ASSUME WindowsInv PROVE FrameShowsFocus
    OBVIOUS
  <2>1. frame \in Nat
    BY WindowsAssumption DEF WindowsInv
  <2>2. bufs[current].len \in Nat
    BY InvFacts DEF Sound, BufferType
  <2> QED
    BY <2>1, <2>2, InvFacts, LayoutShowsFocus
<1> QED
  BY <1>1, Invariance, PTL

(* What the pump and the terminal do to the user's view.                   *)
LEMMA PeerStepUndisturbed ==
    ASSUME WindowsInv, WindowsInv', PeerStep
    PROVE  Undisturbed
<1> DEFINE Kept == /\ current' = current /\ chained' = chained /\ mru' = mru
                   /\ \A b \in DOMAIN bufs : bufs[b].kind = "ordinary" => bufs'[b] = bufs[b]
           Moved == bufs'[current].point # bufs[current].point
                       => /\ bufs[current].kind = "generated"
                          /\ bufs[current].point = bufs[current].len
<1>1. current \in DOMAIN bufs /\ windows[focused] = Shown(current, bufs[current])
  BY InvFacts
<1>2. windows'[focused'] = Shown(current', bufs'[current'])
  BY DEF WindowsInv, ViewOK, Shown
<1>3. SUFFICES Kept /\ Moved
  <2>1. /\ windows[focused].buffer = current /\ windows[focused].point = bufs[current].point
        /\ current' = current => /\ windows'[focused'].buffer = current
                                 /\ windows'[focused'].point = bufs'[current].point
    BY <1>1, <1>2 DEF Shown, Window
  <2> QED
    BY <1>3, <2>1 DEF Undisturbed
<1>4. CASE bufs' = bufs /\ current' = current /\ chained' = chained /\ mru' = mru
  BY <1>4
<1>5. ASSUME NEW base, RoomForBuffer, Mint(FreshName(base)) PROVE Kept /\ Moved
  <2>1. \A x \in DOMAIN bufs : bufs'[x] = bufs[x]
    BY <1>5, MintStep
  <2>2. current' = current /\ chained' = chained /\ mru' = mru
    BY <1>5 DEF Mint
  <2> QED
    BY <1>1, <2>1, <2>2
<1>6. ASSUME NEW b \in DOMAIN bufs, NEW n \in Nat, Deliver(b, n) PROVE Kept /\ Moved
  <2>1. /\ current' = current /\ chained' = chained /\ mru' = mru
        /\ bufs[b].kind = "generated"
        /\ \A x \in DOMAIN bufs : x # b => bufs'[x] = bufs[x]
    BY <1>6 DEF Deliver
  <2>2. bufs'[b].point = Follow(bufs[b].point, bufs[b].len, bufs[b].len + n)
    <3>1. bufs[b] \in BufferType
      BY InvFacts DEF Sound
    <3> QED
      BY <1>6, <3>1 DEF Deliver, BufferType
  <2> QED
    BY <1>1, <2>1, <2>2 DEF Follow
<1>7. ASSUME NEW b, DisplayBuffer(b) PROVE Kept /\ Moved
  <2>1. /\ current' = current /\ chained' = chained /\ mru' = mru
        /\ bufs' = [bufs EXCEPT ![current] = bufs[current]]
    BY <1>7 DEF DisplayBuffer, Commit
  <2> QED
    BY <1>1, <2>1
<1>8. ASSUME NEW h, ResizeFrame(h) PROVE Kept /\ Moved
  BY <1>4, <1>8 DEF ResizeFrame
<1>9. ASSUME NEW s, CreateAgentBuffer(s) PROVE Kept /\ Moved
  BY <1>4, <1>5, <1>9 DEF CreateAgentBuffer, vars
<1>10. ASSUME CreateGeneratedBuffer(LogBase) PROVE Kept /\ Moved
  BY <1>4, <1>5, <1>10 DEF CreateGeneratedBuffer, vars
<1>11. ASSUME NEW b \in Values(agentBuffers) \cup Values(logBuffers), NEW n \in 1..MaxOutput,
              Deliver(b, n)
       PROVE  Kept /\ Moved
  <2>1. b \in DOMAIN bufs /\ n \in Nat
    BY AgentBuffersExist
  <2> QED
    BY <1>6, <1>11, <2>1
<1> HIDE DEF Kept, Moved
<1> QED
  BY <1>7, <1>8, <1>9, <1>10, <1>11 DEF PeerStep

(* PeersKeepOut: _append_agent_text, _display_buffer and a resize leave    *)
(* the user's buffer, point, chains and ordinary buffers alone, a point at *)
(* the end of agent output excepted.                                       *)
THEOREM PeersKeptOut ==
    Spec => PeersKeepOut
<1>1. WindowsInv /\ WindowsInv' /\ [Next]_vars => [Undisturbed \/ ~PeerStep]_vars
  BY PeerStepUndisturbed
<1> QED
  BY <1>1, Invariance, PTL DEF Spec, PeersKeepOut

=============================================================================
