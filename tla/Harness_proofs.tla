--------------------------- MODULE Harness_proofs ---------------------------
(***************************************************************************)
(* From bytes to the screen: the harness only ever does to the editor what *)
(* Minibuffer allows, the screen shows what the next key will act on, and  *)
(* the bytes of an escape sequence do nothing.  For every alphabet of      *)
(* bytes the terminal may send, every set of requests and of buffers.      *)
(***************************************************************************)
EXTENDS Harness, Minibuffer_proofs

-----------------------------------------------------------------------------
(* The harness over the editor.                                            *)

LEMMA SendIsUiStep ==
    ASSUME NEW key, Send(key)
    PROVE  UiNext \/ UNCHANGED uiVars
  <1>1. CASE SendToPrompt(key)
    <2>1. AnswerChoice(key) => UiNext \/ UNCHANGED uiVars
      BY DEF AnswerChoice, UiNext
    <2>2. AnswerText(key) => UiNext \/ UNCHANGED uiVars
      BY DEF AnswerText, UiNext, EditorStep
    <2>3. AnswerExit(key) => UiNext \/ UNCHANGED uiVars
      BY DEF AnswerExit, UiNext, EditorStep, ExitAnswer
    <2> QED
      BY <1>1, <2>1, <2>2, <2>3 DEF SendToPrompt
  <1>2. CASE SendToKeymap(key)
    <2> DEFINE command == Resolve(pending, key)
    <2> HIDE DEF command
    <2>1. Idle /\ (Run(command) \/ UNCHANGED uiVars)
      BY <1>2 DEF SendToKeymap, command
    <2>2. Save => UiNext \/ UNCHANGED uiVars
      <3>1. ASSUME NEW b \in FileBuffers, modified' = modified \ {b},
                   UNCHANGED <<promptVars, exitPending, exited, confirmed>>
            PROVE  UiNext
        <4>1. b \in Buffers /\ EditBuffer(b)
          BY <2>1, <3>1, BuffersAssumption DEF EditBuffer
        <4> QED
          BY <4>1 DEF UiNext, EditorStep
      <3> QED
        BY <3>1 DEF Save
    <2>3. Run(command) => UiNext \/ UNCHANGED uiVars
      BY <2>2 DEF Run, UiNext, EditorStep
    <2> QED
      BY <2>1, <2>3
  <1> QED
    BY <1>1, <1>2 DEF Send

LEMMA HarnessIsUiStep == [Next]_vars => [UiNext]_uiVars
  <1> SUFFICES ASSUME [Next]_vars PROVE UiNext \/ UNCHANGED uiVars
    OBVIOUS
  <1>1. ASSUME NEW byte \in Bytes, KeyEvent(byte)
        PROVE  UiNext \/ UNCHANGED uiVars
    <2>1. UNCHANGED uiVars \/ Send(Head(Feed(assembler, byte).keys))
      BY <1>1 DEF KeyEvent
    <2> QED
      BY <2>1, SendIsUiStep
  <1>2. CASE SendDue
    BY <1>2, SendIsUiStep DEF SendDue
  <1>3. CASE AgentEvent
    BY <1>3 DEF AgentEvent, Between, UiNext
  <1>4. CASE ResizeEvent
    BY <1>4 DEF ResizeEvent
  <1>5. CASE UNCHANGED vars
    BY <1>5 DEF vars
  <1> QED
    BY <1>1, <1>2, <1>3, <1>4, <1>5 DEF Next

(* Whatever bytes arrive, in whatever pieces, between whatever agent       *)
(* events, the editor behind the harness behaves as Minibuffer says: send  *)
(* calls no command in a state where the row does not allow it.            *)
THEOREM HarnessDrivesMinibuffer == Spec => UiSpec
  <1>1. Init => UiInit
    BY DEF Init
  <1> QED
    BY <1>1, HarnessIsUiStep, PTL DEF Spec, UiSpec

(* So the coherence of the echo row, of its queue and of the exit sequence *)
(* hold under the harness.                                                 *)
THEOREM HarnessUiCorrect == Spec => []UiInv
  BY HarnessDrivesMinibuffer, UiCorrect, PTL

-----------------------------------------------------------------------------
(* The keys.                                                               *)

AnyByte == Printable \cup Controls \cup {"ESC"}

(* raw is what the assembler has read of an unfinished sequence.           *)
RawInv ==
    /\ raw \in Seq(AnyByte)
    /\ assembler.state = "none" => raw = <<>>
    /\ assembler.state = "esc" => raw = <<"ESC">>
    /\ assembler.state \in {"csi", "ss3"} =>
           /\ Len(raw) >= 2 /\ raw[1] = "ESC" /\ raw[2] \in {"[", "O"}
           /\ \A i \in 3..Len(raw) : raw[i] \in ParamBytes

(* A byte completes at most two keys, and two only where it cuts short a   *)
(* sequence, which then is none.                                           *)
KeyInv ==
    /\ assembler \in [state : {"none", "esc", "csi", "ss3"}, params : BOOLEAN]
    /\ pending \in PREFIXES \cup {"none"}
    /\ keysDue = <<>> \/ \E k : keysDue = <<k>>
    /\ keysDue # <<>> => ~inSequence

(* ScreenIsFresh between the keys of one byte, too.                        *)
ViewInv ==
    /\ echo \in Messages /\ note \in {"none", "failed", "message"}
    /\ frame = View
    /\ screen # frame => /\ minibuffer = "none" /\ echo = "undefined"
                         /\ screen.row[1] = "echo" /\ screen.modified = modified

HarnessInv == RawInv /\ KeyInv /\ ViewInv

LEMMA ByteSets ==
    /\ ParamBytes \cap FinalBytes = {} /\ ParamBytes \cup FinalBytes = Printable
    /\ FinalBytes = (Letters \ {"O"}) \cup {"[", "O"}
    /\ "[" \notin Letters /\ "[" \notin ParamBytes /\ "O" \notin ParamBytes
    /\ "ESC" \notin Printable
    /\ Bytes \subseteq AnyByte
  BY BytesAssumption
  DEF ParamBytes, FinalBytes, Letters, Chars, AnswerChars, Printable, AnyByte

LEMMA FedParts ==
    ASSUME NEW fed, NEW next, NEW keys, fed = Fed(next, keys)
    PROVE  fed.next = next /\ fed.keys = keys
  BY DEF Fed

LEMMA AppendOne ==
    ASSUME NEW k, NEW l
    PROVE  Append(<<>>, l) = <<l>> /\ Append(<<k>>, l) = <<k, l>>
  <1> DEFINE S == {k, l}
  <1>1. <<>> \in Seq(S) /\ <<k>> \in Seq(S) /\ k \in S /\ l \in S
    OBVIOUS
  <1>2. /\ Append(<<>>, l) \in Seq(S) /\ Len(Append(<<>>, l)) = 1
        /\ Append(<<>>, l)[1] = l
    BY <1>1, AppendProperties, Len(<<>>) = 0
  <1>3. /\ Append(<<k>>, l) \in Seq(S) /\ Len(Append(<<k>>, l)) = 2
        /\ Append(<<k>>, l)[1] = k /\ Append(<<k>>, l)[2] = l
    <2> HIDE DEF S
    <2>1. Len(<<k>>) = 1 /\ <<k>>[1] = k
      OBVIOUS
    <2> QED
      BY <1>1, <2>1, AppendProperties
  <1>4. <<l>> \in Seq(S) /\ Len(<<l>>) = 1 /\ <<l>>[1] = l
    OBVIOUS
  <1>5. <<k, l>> \in Seq(S) /\ Len(<<k, l>>) = 2 /\ <<k, l>>[1] = k /\ <<k, l>>[2] = l
    OBVIOUS
  <1> HIDE DEF S
  <1>6. Append(<<>>, l) = <<l>>
    BY <1>2, <1>4, SeqEqual
  <1>7. Append(<<k>>, l) = <<k, l>>
    <2> DEFINE s == Append(<<k>>, l)
               t == <<k, l>>
    <2>1. /\ s \in Seq(S) /\ Len(s) = 2 /\ s[1] = k /\ s[2] = l
          /\ t \in Seq(S) /\ Len(t) = 2 /\ t[1] = k /\ t[2] = l
      BY <1>3, <1>5
    <2> HIDE DEF s, t
    <2>2. \A i \in 1..Len(s) : s[i] = t[i]
      BY <2>1
    <2>3. s = t
      BY <2>1, <2>2, SeqEqual
    <2> QED
      BY <2>3 DEF s, t
  <1> QED
    BY <1>6, <1>7

(* What a byte does to the assembler: a sequence goes on, ends, is cut     *)
(* short, or none is there.                                                *)
Gives(fed, next, keys) == fed.next = next /\ fed.keys = keys

GoesOn(a, byte) ==
    \/ /\ a.state = "none" /\ byte = "ESC"
       /\ Gives(Feed(a, byte), Assembling("esc", FALSE), <<>>)
    \/ /\ a.state = "esc" /\ byte = "["
       /\ Gives(Feed(a, byte), Assembling("csi", FALSE), <<>>)
    \/ /\ a.state = "esc" /\ byte = "O"
       /\ Gives(Feed(a, byte), Assembling("ss3", FALSE), <<>>)
    \/ /\ a.state \in {"csi", "ss3"} /\ byte \in ParamBytes
       /\ Gives(Feed(a, byte), Assembling(a.state, TRUE), <<>>)

Ends(a, byte) ==
    /\ a.state \in {"csi", "ss3"} /\ byte \in Printable
    /\ \/ Gives(Feed(a, byte), AtRest, <<"<up>">>)
       \/ Gives(Feed(a, byte), AtRest, <<"<sequence>">>)

CutShort(a, byte) ==
    /\ \/ a.state = "esc" /\ byte \notin {"[", "O"}
       \/ a.state \in {"csi", "ss3"} /\ byte \notin Printable
    /\ Feed(a, byte).next = IF byte = "ESC" THEN Assembling("esc", FALSE) ELSE AtRest
    /\ \E k, l : Feed(a, byte).keys = <<k>> \/ Feed(a, byte).keys = <<k, l>>

NoSequence(a, byte) ==
    /\ a.state = "none" /\ byte # "ESC"
    /\ Gives(Feed(a, byte), AtRest, <<byte>>)

LEMMA FeedShapes ==
    ASSUME NEW a \in [state : {"none", "esc", "csi", "ss3"}, params : BOOLEAN],
           NEW byte \in AnyByte
    PROVE  GoesOn(a, byte) \/ Ends(a, byte) \/ CutShort(a, byte) \/ NoSequence(a, byte)
  <1>1. ASSUME NEW k, Feed(a, byte) = FeedAtRest(byte, <<k>>)
        PROVE  /\ Feed(a, byte).next = IF byte = "ESC" THEN Assembling("esc", FALSE)
                                                     ELSE AtRest
               /\ \E l, m : Feed(a, byte).keys = <<l>> \/ Feed(a, byte).keys = <<l, m>>
    <2>1. CASE byte = "ESC"
      <3>1. Feed(a, byte) = Fed(Assembling("esc", FALSE), <<k>>)
        BY <1>1, <2>1 DEF FeedAtRest
      <3>2. Feed(a, byte).next = Assembling("esc", FALSE) /\ Feed(a, byte).keys = <<k>>
        BY <3>1, FedParts
      <3> QED
        BY <2>1, <3>2
    <2>2. CASE byte # "ESC"
      <3>1. Feed(a, byte) = Fed(AtRest, <<k, byte>>)
        BY <1>1, <2>2, AppendOne DEF FeedAtRest
      <3>2. Feed(a, byte).next = AtRest /\ Feed(a, byte).keys = <<k, byte>>
        BY <3>1, FedParts
      <3> QED
        BY <2>2, <3>2
    <2> QED
      BY <2>1, <2>2
  <1>2. CASE a.state = "none"
    <2>1. Feed(a, byte) = FeedAtRest(byte, <<>>)
      BY <1>2 DEF Feed
    <2>2. CASE byte = "ESC"
      <3>1. Feed(a, byte) = Fed(Assembling("esc", FALSE), <<>>)
        BY <2>1, <2>2 DEF FeedAtRest
      <3>2. Gives(Feed(a, byte), Assembling("esc", FALSE), <<>>)
        BY <3>1, FedParts DEF Gives
      <3> QED
        BY <1>2, <2>2, <3>2 DEF GoesOn
    <2>3. CASE byte # "ESC"
      <3>1. Feed(a, byte) = Fed(AtRest, <<byte>>)
        BY <2>1, <2>3, AppendOne DEF FeedAtRest
      <3>2. Gives(Feed(a, byte), AtRest, <<byte>>)
        BY <3>1, FedParts DEF Gives
      <3> QED
        BY <1>2, <2>3, <3>2 DEF NoSequence
    <2> QED
      BY <2>2, <2>3
  <1>3. CASE a.state = "esc"
    <2>1. Feed(a, byte) = FeedEscape(byte)
      BY <1>3 DEF Feed
    <2>2. ASSUME byte = "[" PROVE GoesOn(a, byte)
      <3>1. FeedEscape(byte) = Fed(Assembling("csi", FALSE), <<>>)
        BY <2>2, ByteSets DEF FeedEscape
      <3>2. Gives(Feed(a, byte), Assembling("csi", FALSE), <<>>)
        BY <2>1, <3>1, FedParts DEF Gives
      <3> QED
        BY <1>3, <2>2, <3>2 DEF GoesOn
    <2>5. ASSUME byte = "O" PROVE GoesOn(a, byte)
      <3>1. FeedEscape(byte) = Fed(Assembling("ss3", FALSE), <<>>)
        BY <2>5, ByteSets DEF FeedEscape
      <3>2. Gives(Feed(a, byte), Assembling("ss3", FALSE), <<>>)
        BY <2>1, <3>1, FedParts DEF Gives
      <3> QED
        BY <1>3, <2>5, <3>2 DEF GoesOn
    <2>3. CASE byte \in Letters \ {"O"}
      <3>1. FeedEscape(byte) = Fed(AtRest, <<"M-" \o byte>>)
        BY <2>3, ByteSets DEF FeedEscape
      <3>2. byte \notin {"[", "O"} /\ byte # "ESC"
        BY <2>3, ByteSets
      <3>3. Gives(Feed(a, byte), AtRest, <<"M-" \o byte>>)
        BY <2>1, <3>1, FedParts DEF Gives
      <3> QED
        BY <1>3, <3>2, <3>3 DEF CutShort, Gives
    <2>4. CASE byte \notin FinalBytes
      <3>1. FeedEscape(byte) = FeedAtRest(byte, <<"ESC">>)
        BY <2>4, ByteSets DEF FeedEscape
      <3>2. byte \notin {"[", "O"}
        BY <2>4, ByteSets
      <3> QED
        BY <1>1, <1>3, <2>1, <3>1, <3>2 DEF CutShort
    <2> QED
      BY <2>2, <2>3, <2>4, <2>5, ByteSets
  <1>4. CASE a.state \in {"csi", "ss3"}
    <2>1. Feed(a, byte) = FeedSequence(a, byte)
      BY <1>4 DEF Feed
    <2>2. CASE byte \in ParamBytes
      <3>1. FeedSequence(a, byte) = Fed(Assembling(a.state, TRUE), <<>>)
        BY <2>2, ByteSets DEF FeedSequence
      <3>2. Feed(a, byte).next = Assembling(a.state, TRUE) /\ Feed(a, byte).keys = <<>>
        <4>1. PICK next : next = Assembling(a.state, TRUE)
          OBVIOUS
        <4>2. Feed(a, byte) = Fed(next, <<>>)
          BY <2>1, <3>1, <4>1
        <4>3. Feed(a, byte).next = next /\ Feed(a, byte).keys = <<>>
          BY <4>2, FedParts
        <4> QED
          BY <4>1, <4>3
      <3> QED
        BY <1>4, <2>2, <3>2 DEF GoesOn, Gives
    <2>3. CASE byte \in FinalBytes
      <3>1. \/ FeedSequence(a, byte) = Fed(AtRest, <<"<up>">>)
            \/ FeedSequence(a, byte) = Fed(AtRest, <<"<sequence>">>)
        BY <2>3, ByteSets DEF FeedSequence
      <3>2. \/ Gives(Feed(a, byte), AtRest, <<"<up>">>)
            \/ Gives(Feed(a, byte), AtRest, <<"<sequence>">>)
        BY <2>1, <3>1, FedParts DEF Gives
      <3> QED
        BY <1>4, <2>3, <3>2, ByteSets DEF Ends
    <2>4. CASE byte \notin Printable
      <3>1. FeedSequence(a, byte) = FeedAtRest(byte, <<"<unterminated>">>)
        BY <2>4, ByteSets DEF FeedSequence
      <3>2. Feed(a, byte) = FeedAtRest(byte, <<"<unterminated>">>)
        BY <2>1, <3>1
      <3> QED
        BY <1>1, <1>4, <2>4, <3>2 DEF CutShort
    <2> QED
      BY <2>2, <2>3, <2>4, ByteSets
  <1> QED
    BY <1>2, <1>3, <1>4

(* A byte that completes more than the key of a sequence is in none.       *)
LEMMA CutShortIsNoSequence ==
    ASSUME RawInv, assembler \in [state : {"none", "esc", "csi", "ss3"}, params : BOOLEAN],
           NEW byte \in AnyByte,
           CutShort(assembler, byte) \/ NoSequence(assembler, byte)
    PROVE  ~IsSequence(Append(raw, byte))
  <1>0. raw \in Seq(AnyByte)
    BY DEF RawInv
  <1>1. /\ Append(raw, byte) \in Seq(AnyByte) /\ Len(Append(raw, byte)) = Len(raw) + 1
        /\ Len(raw) \in Nat
        /\ \A i \in 1..Len(raw) : Append(raw, byte)[i] = raw[i]
        /\ Append(raw, byte)[Len(raw) + 1] = byte
    BY <1>0, AppendProperties
  <1>2. CASE assembler.state = "none"
    <2>1. Len(Append(raw, byte)) = 1
      BY <1>1, <1>2, Len(<<>>) = 0 DEF RawInv
    <2> QED
      BY <2>1 DEF IsSequence
  <1>3. CASE assembler.state = "esc"
    <2>1. raw = <<"ESC">> /\ byte \notin {"[", "O"}
      BY <1>3 DEF RawInv, CutShort, NoSequence
    <2>2. Append(raw, byte) = <<"ESC", byte>>
      BY <2>1, AppendOne
    <2>3. <<"ESC", byte>>[2] = byte
      OBVIOUS
    <2> QED
      BY <2>1, <2>2, <2>3 DEF IsSequence
  <1>4. CASE assembler.state \in {"csi", "ss3"}
    <2>1. Len(raw) >= 2 /\ byte \notin Printable
      BY <1>4 DEF RawInv, CutShort, NoSequence
    <2>2. Len(Append(raw, byte)) > 2 /\ Append(raw, byte)[Len(Append(raw, byte))] = byte
      BY <1>1, <2>1
    <2> QED
      BY <2>1, <2>2 DEF IsSequence
  <1> QED
    BY <1>2, <1>3, <1>4 DEF CutShort, NoSequence

(* The history of an unfinished sequence, over a byte.                     *)
LEMMA RawStep ==
    ASSUME RawInv, assembler \in [state : {"none", "esc", "csi", "ss3"}, params : BOOLEAN],
           NEW byte \in Bytes, KeyEvent(byte)
    PROVE  /\ RawInv'
           /\ assembler' \in [state : {"none", "esc", "csi", "ss3"}, params : BOOLEAN]
  <1> DEFINE fed == Feed(assembler, byte)
  <1>0. byte \in AnyByte
    BY ByteSets
  <1>1. /\ assembler' = fed.next
        /\ raw' = IF fed.next = AtRest THEN <<>>
                  ELSE IF byte = "ESC" THEN <<byte>> ELSE Append(raw, byte)
    BY DEF KeyEvent
  <1>2. /\ AtRest \in [state : {"none", "esc", "csi", "ss3"}, params : BOOLEAN]
        /\ AtRest.state = "none"
    BY DEF AtRest, Assembling
  <1>3. \A s \in {"esc", "csi", "ss3"}, p \in BOOLEAN :
           /\ Assembling(s, p) \in [state : {"none", "esc", "csi", "ss3"}, params : BOOLEAN]
           /\ Assembling(s, p) # AtRest
           /\ Assembling(s, p).state = s
    BY DEF AtRest, Assembling
  <1>4. <<>> \in Seq(AnyByte) /\ <<"ESC">> \in Seq(AnyByte)
    BY DEF AnyByte
  <1>5. ASSUME fed.next = AtRest
        PROVE  /\ RawInv'
               /\ assembler' \in [state : {"none", "esc", "csi", "ss3"}, params : BOOLEAN]
    BY <1>1, <1>2, <1>4, <1>5 DEF RawInv
  <1>6. ASSUME fed.next = Assembling("esc", FALSE), byte = "ESC"
        PROVE  /\ RawInv'
               /\ assembler' \in [state : {"none", "esc", "csi", "ss3"}, params : BOOLEAN]
    <2>1. raw' = <<"ESC">> /\ assembler' = Assembling("esc", FALSE)
      BY <1>1, <1>3, <1>6
    <2> QED
      BY <1>3, <1>4, <2>1 DEF RawInv
  <1>7. CASE GoesOn(assembler, byte)
    <2>1. CASE assembler.state = "none"
      <3>1. byte = "ESC" /\ fed.next = Assembling("esc", FALSE)
        BY <1>7, <2>1 DEF GoesOn, Gives
      <3> QED
        BY <1>6, <3>1
    <2>2. CASE assembler.state = "esc"
      <3>1. byte \in {"[", "O"} /\ raw = <<"ESC">>
        BY <1>7, <2>2 DEF GoesOn, RawInv
      <3>2. PICK s \in {"csi", "ss3"} : fed.next = Assembling(s, FALSE)
        BY <1>7, <2>2 DEF GoesOn, Gives
      <3>7. fed.next = Assembling(s, FALSE) /\ fed.next # AtRest
        BY <1>3, <3>2
      <3>3. raw' = <<"ESC", byte>>
        <4>1. raw' = Append(<<"ESC">>, byte)
          BY <1>1, <3>1, <3>7
        <4> QED
          BY <4>1, AppendOne
      <3>4. assembler'.state \in {"csi", "ss3"}
        BY <1>1, <1>3, <3>7
      <3>5. <<"ESC", byte>> \in Seq(AnyByte)
        BY <1>0, <1>4 DEF AnyByte
      <3>6. /\ Len(raw') >= 2 /\ raw'[1] = "ESC" /\ raw'[2] \in {"[", "O"}
            /\ \A i \in 3..Len(raw') : raw'[i] \in ParamBytes
        <4>1. Len(raw') = 2 /\ raw'[1] = "ESC" /\ raw'[2] = byte
          BY <3>3
        <4> QED
          BY <3>1, <4>1
      <3> QED
        BY <1>1, <1>3, <3>7, <3>3, <3>4, <3>5, <3>6 DEF RawInv
    <2>3. CASE assembler.state \in {"csi", "ss3"}
      <3>1. /\ byte \in ParamBytes /\ byte # "ESC" /\ Len(raw) >= 2
            /\ raw[1] = "ESC" /\ raw[2] \in {"[", "O"}
            /\ \A i \in 3..Len(raw) : raw[i] \in ParamBytes
            /\ raw \in Seq(AnyByte)
        BY <1>7, <2>3, ByteSets DEF GoesOn, RawInv
      <3>2. fed.next = Assembling(assembler.state, TRUE)
        BY <1>7, <2>3 DEF GoesOn, Gives
      <3>3. raw' = Append(raw, byte) /\ assembler'.state = assembler.state
        BY <1>1, <1>3, <2>3, <3>1, <3>2
      <3>4. /\ raw' \in Seq(AnyByte) /\ Len(raw') = Len(raw) + 1 /\ Len(raw) \in Nat
            /\ \A i \in 1..Len(raw) : raw'[i] = raw[i]
            /\ raw'[Len(raw) + 1] = byte
        BY <1>0, <3>1, <3>3, AppendProperties
      <3>5. /\ Len(raw') >= 2 /\ raw'[1] = "ESC" /\ raw'[2] \in {"[", "O"}
        BY <3>1, <3>4
      <3>6. ASSUME NEW i \in 3..Len(raw') PROVE raw'[i] \in ParamBytes
        <4>1. CASE i = Len(raw) + 1
          BY <3>1, <3>4, <4>1
        <4>2. CASE i # Len(raw) + 1
          <5>1. i \in 3..Len(raw) /\ i \in 1..Len(raw)
            BY <3>4, <3>6, <4>2
          <5> QED
            BY <3>1, <3>4, <5>1
        <4> QED
          BY <4>1, <4>2
      <3>7. RawInv'
        <4>1. assembler'.state \notin {"none", "esc"}
          BY <2>3, <3>3
        <4> QED
          BY <3>4, <3>5, <3>6, <4>1 DEF RawInv
      <3> QED
        BY <1>1, <1>3, <2>3, <3>2, <3>7
    <2> QED
      BY <1>7, <2>1, <2>2, <2>3 DEF GoesOn
  <1>8. CASE Ends(assembler, byte) \/ NoSequence(assembler, byte)
    <2>1. fed.next = AtRest
      BY <1>8 DEF Ends, NoSequence, Gives
    <2> QED
      BY <1>5, <2>1
  <1>9. CASE CutShort(assembler, byte)
    <2>1. \/ byte = "ESC" /\ fed.next = Assembling("esc", FALSE)
          \/ fed.next = AtRest
      BY <1>9 DEF CutShort
    <2> QED
      BY <1>5, <1>6, <2>1
  <1> QED
    BY <1>0, <1>7, <1>8, <1>9, FeedShapes

(* What the assembler hands on: bytes inside a sequence complete no key,   *)
(* the byte that ends one completes the key of a sequence.                 *)
LEMMA KeysCompleted ==
    ASSUME RawInv, assembler \in [state : {"none", "esc", "csi", "ss3"}, params : BOOLEAN],
           NEW byte \in Bytes
    PROVE  LET keys == Feed(assembler, byte).keys
           IN  \/ keys = <<>>
               \/ \E k \in {"<up>", "<sequence>"} : keys = <<k>>
               \/ /\ \E k, l : keys = <<k>> \/ keys = <<k, l>>
                  /\ ~IsSequence(Append(raw, byte))
  <1> DEFINE fed == Feed(assembler, byte)
             keys == fed.keys
  <1>0. byte \in AnyByte
    BY ByteSets
  <1>1. GoesOn(assembler, byte) => keys = <<>>
    BY DEF GoesOn, Gives
  <1>2. Ends(assembler, byte) => \E k \in {"<up>", "<sequence>"} : keys = <<k>>
    BY DEF Ends, Gives
  <1>3. CutShort(assembler, byte) \/ NoSequence(assembler, byte)
           => \E k, l : keys = <<k>> \/ keys = <<k, l>>
    BY DEF CutShort, NoSequence, Gives
  <1> QED
    BY <1>0, <1>1, <1>2, <1>3, FeedShapes, CutShortIsNoSequence

-----------------------------------------------------------------------------
(* What a key may do.                                                      *)

(* The key of a sequence is bound nowhere and is no answer.                *)
LEMMA SequenceKeysDoNothing ==
    ASSUME NEW k \in {"<up>", "<sequence>"}, Send(k)
    PROVE  UNCHANGED uiVars
  <1>1. CASE SendToPrompt(k)
    <2>1. k \notin Printable \cup {"RET", "DEL", "C-g"}
      BY DEF Printable, ParamBytes, FinalBytes, Letters, Chars, AnswerChars
    <2> QED
      BY <1>1, <2>1 DEF SendToPrompt
  <1>2. CASE SendToKeymap(k)
    <2>1. PrefixCommand(pending, k) = "undefined"
      BY DEF PrefixCommand
    <2>2. k \notin PREFIXES \cup {"C-g"} \cup {"C-@", "C-f", "C-b", "M-w"}
               \cup {"C-/", "C-k", "C-w", "C-y", "M-y"} \cup Printable
      BY DEF PREFIXES, Printable, ParamBytes, FinalBytes, Letters, Chars, AnswerChars
    <2>3. Resolve(pending, k) = "undefined"
      BY <2>1, <2>2 DEF Resolve
    <2> QED
      BY <1>2, <2>3 DEF SendToKeymap
  <1> QED
    BY <1>1, <1>2 DEF Send

(* Every key shows its effect, has none, or is undefined: then the frame   *)
(* changes and the terminal is not written.                                *)
Unbound ==
    /\ minibuffer = "none"
    /\ echo' = "undefined" /\ Render
    /\ UNCHANGED <<uiVars, note, screen>>

LEMMA SendShows ==
    ASSUME NEW key, pending \in PREFIXES \cup {"none"}, Send(key)
    PROVE  /\ pending' \in PREFIXES \cup {"none"}
           /\ \/ \E m \in Messages : Respond(m)
              \/ UNCHANGED <<uiVars, viewVars>>
              \/ Unbound
  <1>1. CASE SendToPrompt(key)
    <2>1. AnswerChoice(key) => Respond("none")
      BY DEF AnswerChoice
    <2>2. AnswerText(key) => Respond("none") \/ Respond("failed") \/ Respond("Quit")
      BY DEF AnswerText
    <2>3. AnswerExit(key) => \/ Respond("failed") \/ Respond("Wrote") \/ Respond("none")
                             \/ Respond("Quit") \/ Respond("message")
      BY DEF AnswerExit
    <2>4. {"none", "failed", "Quit", "Wrote", "message"} \subseteq Messages
      BY DEF Messages
    <2>5. pending' = "none"
      BY <1>1 DEF SendToPrompt
    <2>6. \/ UNCHANGED <<uiVars, viewVars>>
          \/ AnswerChoice(key) \/ AnswerText(key) \/ AnswerExit(key)
      BY <1>1 DEF SendToPrompt
    <2> QED
      BY <2>1, <2>2, <2>3, <2>4, <2>5, <2>6
  <1>2. CASE SendToKeymap(key)
    <2> DEFINE command == Resolve(pending, key)
    <2>1. CASE command = "prefix"
      <3>1. PrefixCommand(pending, key) # "prefix"
        BY DEF PrefixCommand
      <3>2. key \in PREFIXES
        BY <2>1, <3>1 DEF Resolve
      <3> QED
        BY <1>2, <2>1, <3>2 DEF SendToKeymap
    <2>2. CASE command = "undefined"
      BY <1>2, <2>2 DEF SendToKeymap, Idle, Unbound
    <2>3. CASE command \notin {"prefix", "undefined"}
      <3>1. pending' = "none" /\ Run(command)
        BY <1>2, <2>3 DEF SendToKeymap
      <3> HIDE DEF command
      <3>2. Save => Respond("Wrote") \/ Respond("failed")
        BY DEF Save
      <3>3. \/ Respond("none") \/ Respond("message") \/ Respond("Quit")
            \/ Respond("Wrote") \/ Respond("failed")
        BY <3>1, <3>2 DEF Run
      <3>4. {"none", "failed", "Quit", "Wrote", "message"} \subseteq Messages
        BY DEF Messages
      <3> QED
        BY <3>1, <3>3, <3>4
    <2> QED
      BY <2>1, <2>2, <2>3
  <1> QED
    BY <1>1, <1>2 DEF Send

LEMMA RespondedView ==
    ASSUME NEW m \in Messages, Respond(m)
    PROVE  ViewInv'
  <1>1. echo' \in Messages /\ frame' = View' /\ screen' = frame'
    BY DEF Respond, Render, WriteFrame
  <1>2. note' \in {"none", "failed", "message"}
    BY DEF Respond
  <1> QED
    BY <1>1, <1>2 DEF ViewInv

LEMMA UnchangedView ==
    ASSUME ViewInv, UNCHANGED <<uiVars, viewVars>>
    PROVE  ViewInv'
  <1>1. UNCHANGED <<minibuffer, minibufferKind, choice, modified, echo, note, frame, screen>>
    BY DEF uiVars, promptVars, viewVars
  <1>2. View' = View
    BY <1>1 DEF View
  <1> QED
    BY <1>1, <1>2 DEF ViewInv

LEMMA UnboundView ==
    ASSUME ViewInv, Unbound
    PROVE  ViewInv'
  <1>1. /\ UNCHANGED <<minibuffer, minibufferKind, choice, modified, note, screen>>
        /\ minibuffer = "none" /\ echo' = "undefined" /\ frame' = View'
    BY DEF Unbound, Render, uiVars, promptVars
  <1>2. screen.row[1] = "echo" /\ screen.modified = modified
    <2>1. CASE screen = frame
      <3>1. screen.row = <<"echo", echo>> /\ screen.modified = modified
        BY <1>1, <2>1 DEF ViewInv, View
      <3> QED
        BY <3>1
    <2> QED
      BY <2>1 DEF ViewInv
  <1>3. "undefined" \in Messages
    BY DEF Messages
  <1> QED
    BY <1>1, <1>2, <1>3 DEF ViewInv

LEMMA SendView ==
    ASSUME ViewInv, pending \in PREFIXES \cup {"none"}, NEW key, Send(key)
    PROVE  ViewInv' /\ pending' \in PREFIXES \cup {"none"}
  BY SendShows, RespondedView, UnchangedView, UnboundView

LEMMA AppliedView ==
    ASSUME ViewInv, UNCHANGED <<echo, note>>, Apply
    PROVE  ViewInv'
  BY DEF ViewInv, Apply, Render, WriteFrame

-----------------------------------------------------------------------------
(* The invariant.                                                          *)

LEMMA HarnessInit == Init => HarnessInv
  <1> SUFFICES ASSUME Init PROVE HarnessInv
    OBVIOUS
  <1>1. assembler \in [state : {"none", "esc", "csi", "ss3"}, params : BOOLEAN]
        /\ assembler.state = "none"
    BY DEF Init, AtRest, Assembling
  <1>2. RawInv
    BY <1>1 DEF Init, RawInv
  <1>3. KeyInv
    BY <1>1 DEF Init, KeyInv
  <1>4. ViewInv
    BY DEF Init, ViewInv, Messages
  <1> QED
    BY <1>2, <1>3, <1>4 DEF HarnessInv

(* A key event, its history, and the keys it leaves due.                   *)
LEMMA KeyEventStep ==
    ASSUME HarnessInv, NEW byte \in Bytes, KeyEvent(byte)
    PROVE  HarnessInv' /\ (inSequence' => UNCHANGED uiVars)
  <1> DEFINE keys == Feed(assembler, byte).keys
  <1>1. /\ RawInv /\ ViewInv /\ pending \in PREFIXES \cup {"none"}
        /\ assembler \in [state : {"none", "esc", "csi", "ss3"}, params : BOOLEAN]
    BY DEF HarnessInv, KeyInv
  <1>2. /\ RawInv'
        /\ assembler' \in [state : {"none", "esc", "csi", "ss3"}, params : BOOLEAN]
    BY <1>1, RawStep
  <1>3. /\ inSequence' = IsSequence(Append(raw, byte)) /\ keysDue = <<>>
        /\ \/ keys = <<>> /\ UNCHANGED <<uiVars, keysDue, pending, viewVars>>
           \/ keys # <<>> /\ keysDue' = Tail(keys) /\ Send(Head(keys))
    BY DEF KeyEvent
  <1>4. \/ keys = <<>>
        \/ \E k \in {"<up>", "<sequence>"} : keys = <<k>>
        \/ /\ \E k, l : keys = <<k>> \/ keys = <<k, l>>
           /\ ~IsSequence(Append(raw, byte))
    BY <1>1, KeysCompleted
  <1> HIDE DEF keys
  <1>5. ViewInv' /\ pending' \in PREFIXES \cup {"none"}
    BY <1>1, <1>3, SendView, UnchangedView
  <1>6. CASE keys = <<>>
    <2>1. UNCHANGED uiVars /\ keysDue' = <<>>
      BY <1>3, <1>6
    <2> QED
      BY <1>2, <1>5, <2>1 DEF HarnessInv, KeyInv
  <1>7. ASSUME NEW k \in {"<up>", "<sequence>"}, keys = <<k>>
        PROVE  HarnessInv' /\ UNCHANGED uiVars
    <2>1. Head(keys) = k /\ Tail(keys) = <<>> /\ keys # <<>>
      BY <1>7
    <2>2. Send(k) /\ keysDue' = <<>>
      BY <1>3, <2>1
    <2> QED
      BY <1>2, <1>5, <2>2, SequenceKeysDoNothing DEF HarnessInv, KeyInv
  <1>8. ASSUME NEW k, NEW l, keys = <<k>> \/ keys = <<k, l>>,
               ~IsSequence(Append(raw, byte))
        PROVE  HarnessInv' /\ ~inSequence'
    <2>1. keysDue' = <<>> \/ keysDue' = <<l>>
      <3>1. Tail(<<k>>) = <<>> /\ Tail(<<k, l>>) = <<l>> /\ <<k>> # <<>> /\ <<k, l>> # <<>>
        OBVIOUS
      <3> QED
        BY <1>3, <1>8, <3>1
    <2>2. ~inSequence'
      BY <1>3, <1>8
    <2> QED
      BY <1>2, <1>5, <2>1, <2>2 DEF HarnessInv, KeyInv
  <1> QED
    BY <1>4, <1>6, <1>7, <1>8

LEMMA SendDueStep ==
    ASSUME HarnessInv, SendDue
    PROVE  HarnessInv' /\ ~inSequence'
  <1>1. PICK k : keysDue = <<k>>
    BY DEF HarnessInv, KeyInv, SendDue
  <1>2. keysDue # <<>> /\ ~inSequence
    BY DEF HarnessInv, KeyInv, SendDue
  <1>3. /\ Send(Head(keysDue)) /\ UNCHANGED <<assembler, raw, inSequence>>
        /\ keysDue' = Tail(keysDue)
    BY DEF SendDue, rawVars
  <1>4. keysDue' = <<>>
    BY <1>1, <1>3
  <1>5. ViewInv' /\ pending' \in PREFIXES \cup {"none"}
    BY <1>3, SendView DEF HarnessInv, KeyInv
  <1>6. RawInv'
    BY <1>3 DEF HarnessInv, RawInv
  <1> QED
    BY <1>2, <1>3, <1>4, <1>5, <1>6 DEF HarnessInv, KeyInv

LEMMA BetweenStep ==
    ASSUME HarnessInv, AgentEvent \/ ResizeEvent
    PROVE  HarnessInv' /\ ~inSequence'
  <1>1. /\ keysDue = <<>> /\ UNCHANGED <<assembler, keysDue, pending, raw>>
        /\ UNCHANGED <<echo, note>> /\ Apply /\ ~inSequence'
    BY DEF AgentEvent, ResizeEvent, Between, keyVars
  <1>2. ViewInv'
    BY <1>1, AppliedView DEF HarnessInv
  <1>3. RawInv' /\ KeyInv'
    BY <1>1 DEF HarnessInv, RawInv, KeyInv
  <1> QED
    BY <1>1, <1>2, <1>3 DEF HarnessInv

LEMMA HarnessStep == HarnessInv /\ [Next]_vars => HarnessInv'
  <1> SUFFICES ASSUME HarnessInv, [Next]_vars PROVE HarnessInv'
    OBVIOUS
  <1>1. ASSUME NEW byte \in Bytes, KeyEvent(byte) PROVE HarnessInv'
    BY <1>1, KeyEventStep
  <1>2. CASE SendDue
    BY <1>2, SendDueStep
  <1>3. CASE AgentEvent \/ ResizeEvent
    BY <1>3, BetweenStep
  <1>4. CASE UNCHANGED vars
    <2>1. UNCHANGED <<uiVars, viewVars>> /\ UNCHANGED <<assembler, keysDue, pending, raw, inSequence>>
      BY <1>4 DEF vars, keyVars, rawVars
    <2>2. ViewInv'
      BY <2>1, UnchangedView DEF HarnessInv
    <2> QED
      BY <2>1, <2>2 DEF HarnessInv, RawInv, KeyInv
  <1> QED
    BY <1>1, <1>2, <1>3, <1>4 DEF Next

(* The assembler, the keys due and the screen, for every stream of bytes,  *)
(* agent events and resizes.                                               *)
THEOREM HarnessCorrect == Spec => [](UiInv /\ HarnessInv)
  <1>1. Spec => []HarnessInv
    BY HarnessInit, HarnessStep, PTL DEF Spec
  <1> QED
    BY <1>1, HarnessUiCorrect, PTL

(* The harness and the editor behind it keep their types: no byte leaves   *)
(* more than one key due.                                                  *)
THEOREM HarnessTypes == Spec => []HarnessTypeOK
  <1>1. UiInv /\ HarnessInv => HarnessTypeOK
    <2> SUFFICES ASSUME UiInv, HarnessInv PROVE HarnessTypeOK
      OBVIOUS
    <2>1. UiTypeOK
      BY DEF UiInv
    <2>2. Len(keysDue) <= 1
      <3>1. CASE keysDue = <<>>
        BY <3>1
      <3>2. ASSUME NEW k, keysDue = <<k>> PROVE Len(keysDue) <= 1
        BY <3>2
      <3> QED
        BY <3>1, <3>2 DEF HarnessInv, KeyInv
    <2> QED
      BY <2>1, <2>2 DEF HarnessTypeOK, HarnessInv, KeyInv, ViewInv
  <1> QED
    BY <1>1, HarnessCorrect, PTL

(* Between two events the terminal shows the state the next key will act   *)
(* on: no key answers a question the user has not been shown.              *)
THEOREM ScreenStaysFresh == Spec => []ScreenIsFresh
  <1>1. HarnessInv => ScreenIsFresh
    BY DEF HarnessInv, ViewInv, ScreenIsFresh
  <1> QED
    BY <1>1, HarnessCorrect, PTL

(* No byte of an escape sequence types, answers or runs anything, however  *)
(* the sequence is cut up and whatever is open when it arrives.            *)
THEOREM EscapesDoNothing == Spec => EscapesAreInert
  <1>1. HarnessInv /\ [Next]_vars => [inSequence' => UNCHANGED uiVars]_vars
    <2> SUFFICES ASSUME HarnessInv, Next PROVE inSequence' => UNCHANGED uiVars
      OBVIOUS
    <2>1. ASSUME NEW byte \in Bytes, KeyEvent(byte)
          PROVE  inSequence' => UNCHANGED uiVars
      BY <2>1, KeyEventStep
    <2>2. CASE SendDue
      BY <2>2, SendDueStep
    <2>3. CASE AgentEvent \/ ResizeEvent
      BY <2>3, BetweenStep
    <2>4. CASE UNCHANGED vars
      BY <2>4 DEF vars
    <2> QED
      BY <2>1, <2>2, <2>3, <2>4 DEF Next
  <1> QED
    BY <1>1, HarnessCorrect, PTL DEF Spec, EscapesAreInert

=============================================================================
