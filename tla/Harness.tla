------------------------------ MODULE Harness ------------------------------
(***************************************************************************)
(* From bytes to the screen: the key assembler (terminal.py), the keymap   *)
(* (keys.py), the harness that routes keys to the keymap or to the open    *)
(* prompt and renders after each command (harness.py), and the part of     *)
(* run_editor that decides when the frame is written to the terminal.  The *)
(* editor behind it is Minibuffer.                                         *)
(*                                                                         *)
(* A byte is named by the key decode_key makes of it.  A frame is what the *)
(* user can tell apart: the prompt with the note riding it, or the echoed  *)
(* message, and which buffers the mode lines call modified.                *)
(***************************************************************************)
EXTENDS Minibuffer

CONSTANT Bytes          \* the bytes the terminal sends

VARIABLES
    assembler,          \* KeyAssembler: its state, and whether it has params
    keysDue,            \* keys of the last byte still to be sent
    pending,            \* _pending: a prefix key, or "none"
    echo, note,         \* _echo, _note: the kind of message, or "none"
    frame,              \* _frame
    screen,             \* the frame last written to the terminal
    raw,                \* history: the bytes since the assembler was at rest
    inSequence          \* history: the last byte belonged to a sequence

keyVars == <<assembler, keysDue, pending>>
viewVars == <<echo, note, frame, screen>>
rawVars == <<raw, inSequence>>
vars == <<uiVars, keyVars, viewVars, rawVars>>

-----------------------------------------------------------------------------
(* Bytes: those that may stand inside a sequence, those that end one, and  *)
(* the letters among the latter.                                           *)
ParamBytes == {"1", "2"}
Letters    == Chars \cup {"O", "A", "b", "o", "u", "w"}
FinalBytes == Letters \cup {"["}
Printable  == ParamBytes \cup FinalBytes
Controls   == {"C-@", "C-/", "C-b", "C-c", "C-f", "C-g", "C-k", "C-s", "C-w",
               "C-x", "C-y", "RET", "DEL"}

ASSUME BytesAssumption == Bytes \subseteq Printable \cup Controls \cup {"ESC"}

Assembling(state, params) == [state |-> state, params |-> params]
AtRest == Assembling("none", FALSE)

(* What a byte leaves the assembler in, and the keys it completes.         *)
Fed(next, keys) == [next |-> next, keys |-> keys]

FeedAtRest(byte, before) ==
    IF byte = "ESC" THEN Fed(Assembling("esc", FALSE), before)
                    ELSE Fed(AtRest, Append(before, byte))

FeedEscape(byte) ==
    CASE byte = "[" -> Fed(Assembling("csi", FALSE), <<>>)
      [] byte = "O" -> Fed(Assembling("ss3", FALSE), <<>>)
      [] byte \in Letters \ {"O"} -> Fed(AtRest, <<"M-" \o byte>>)
      [] byte \notin FinalBytes -> FeedAtRest(byte, <<"ESC">>)

(* Mutant: parameters are not part of a sequence.                          *)
FeedSequenceNoParams(a, byte) ==
    IF byte \in FinalBytes THEN Fed(AtRest, <<"<sequence>">>)
                           ELSE FeedAtRest(byte, <<"<unterminated>">>)

FeedSequence(a, byte) ==
    CASE byte \in ParamBytes -> Fed(Assembling(a.state, TRUE), <<>>)
      [] byte \in FinalBytes ->
            Fed(AtRest, <<IF byte = "A" /\ ~a.params THEN "<up>" ELSE "<sequence>">>)
      [] byte \notin Printable -> FeedAtRest(byte, <<"<unterminated>">>)

Feed(a, byte) ==
    CASE a.state = "none" -> FeedAtRest(byte, <<>>)
      [] a.state = "esc"  -> FeedEscape(byte)
      [] a.state \in {"csi", "ss3"} -> FeedSequence(a, byte)

-----------------------------------------------------------------------------
(* The keymap.  "edit" stands for the commands that may change the text of *)
(* the current buffer, "move" for those that change nothing modelled here. *)
PREFIXES == {"C-x", "C-c"}

PrefixCommand(prefix, key) ==
    CASE prefix = "C-c" /\ key = "a"   -> "agent-prompt"
      [] prefix = "C-x" /\ key = "C-c" -> "exit"
      [] prefix = "C-x" /\ key = "C-s" -> "save"
      [] prefix = "C-x" /\ key = "C-f" -> "find-file"
      [] prefix = "C-x" /\ key = "b"   -> "switch-buffer"
      [] prefix = "C-x" /\ key = "u"   -> "edit"
      [] prefix = "C-x" /\ key \in {"C-x", "2", "o", "1"} -> "move"
      [] key = "C-g" -> "quit"
      [] OTHER -> "undefined"

Resolve(prefix, key) ==
    IF prefix # "none" THEN PrefixCommand(prefix, key)
    ELSE CASE key \in PREFIXES -> "prefix"
           [] key = "C-g" -> "quit"
           [] key \in {"C-@", "C-f", "C-b", "M-w"} -> "move"
           [] key \in {"C-/", "C-k", "C-w", "C-y", "M-y"} \cup Printable -> "edit"
           [] OTHER -> "undefined"

-----------------------------------------------------------------------------
(* The frame.                                                              *)
View == [row |-> IF minibuffer # "none"
                   THEN <<"prompt", minibuffer, minibufferKind, choice, note>>
                   ELSE <<"echo", echo>>,
         modified |-> modified]

Render     == frame' = View'
WriteFrame == screen' = frame'

(* A command was dispatched: its events give a message, which is echoed,   *)
(* and rides the prompt that is now open if it is a failure or a refusal.  *)
Respond(message) ==
    /\ echo' = message
    /\ note' = IF minibuffer' # "none" /\ message \in {"failed", "message"}
                 THEN message ELSE "none"
    /\ Render /\ WriteFrame

Init ==
    /\ UiInit
    /\ assembler = AtRest /\ keysDue = <<>> /\ pending = "none"
    /\ echo = "none" /\ note = "none"
    /\ frame = View /\ screen = View
    /\ raw = <<>> /\ inSequence = FALSE

-----------------------------------------------------------------------------
(* A key at an open prompt.                                                *)

AnswerChoice(key) ==
    LET decides == key \in Keys /\ Decision(key) # NoDecision
    IN  /\ Choosing
        /\ IF decides THEN DecidePermission(key) ELSE UNCHANGED uiVars
        /\ Respond("none")

(* Only find-file can fail once accepted.                                  *)
AnswerText(key) ==
    \/ key \in Printable /\ EditText /\ minibuffer' = "text" /\ Respond("none")
    \/ key = "DEL" /\ minibuffer = "text" /\ EditText /\ Respond("none")
    \/ key = "DEL" /\ minibuffer = "empty" /\ TextPrompt
       /\ UNCHANGED uiVars /\ Respond("none")
    \/ key = "RET" /\ CloseTextPrompt /\ Respond("none")
    \/ key = "RET" /\ minibufferKind = "find-file" /\ minibuffer = "text"
       /\ CloseTextPrompt /\ Respond("failed")
    \/ key = "C-g" /\ CloseTextPrompt /\ Respond("Quit")

(* Keys that are no answer say so and leave the question up.               *)
AnswerExit(key) ==
    \/ /\ key = "y" /\ SaveOffered
       /\ Respond(IF Head(exitPending) \in modified' THEN "failed" ELSE "Wrote")
    \/ key = "n" /\ DeclineOffered /\ Respond("none")
    \/ key = "y" /\ ExitAnyway /\ Respond("none")
    \/ key = "n" /\ minibufferKind = "exit-anyway" /\ AbandonExit /\ Respond("none")
    \/ key = "C-g" /\ AbandonExit /\ Respond("Quit")
    \/ key \notin {"y", "n", "C-g"} /\ ExitPrompt /\ UNCHANGED uiVars /\ Respond("message")

(* send with a minibuffer: other keys are ignored.                         *)
SendToPrompt(key) ==
    /\ minibuffer # "none"
    /\ pending' = "none"
    /\ IF key \in Printable \cup {"RET", "DEL", "C-g"}
         THEN AnswerChoice(key) \/ AnswerText(key) \/ AnswerExit(key)
         ELSE UNCHANGED <<uiVars, viewVars>>

-----------------------------------------------------------------------------
(* A key in the main keymap.                                               *)

(* C-x C-s in some buffer; a write may fail, and without a file it does.   *)
Save ==
    \/ /\ \E b \in FileBuffers : modified' = modified \ {b}
       /\ UNCHANGED <<promptVars, exitPending, exited, confirmed>>
       /\ Respond("Wrote")
    \/ UNCHANGED uiVars /\ Respond("failed")

Run(command) ==
    \/ command = "edit" /\ \E b \in Buffers : EditBuffer(b) /\ Respond("none")
    \/ command \in {"edit", "move"} /\ UNCHANGED uiVars
       /\ \E m \in {"none", "message"} : Respond(m)
    \/ command = "quit" /\ UNCHANGED uiVars /\ Respond("Quit")
    \/ command = "save" /\ Save
    \/ command = "exit" /\ BeginExit /\ Respond("none")
    \/ command \in TextKinds /\ OpenTextPrompt(command) /\ Respond("none")

SendToKeymap(key) ==
    LET command == Resolve(pending, key)
    IN  /\ Idle
        /\ CASE command = "prefix" ->
                  pending' = key /\ UNCHANGED <<uiVars, viewVars>>
             [] command = "undefined" ->
                  \* The message is rendered, and None tells run_editor that
                  \* there is nothing to write.
                  /\ pending' = "none" /\ echo' = "undefined"
                  /\ UNCHANGED <<uiVars, note, screen>>
                  /\ Render
             [] command \notin {"prefix", "undefined"} ->
                  pending' = "none" /\ Run(command)

Send(key) == SendToPrompt(key) \/ SendToKeymap(key)

-----------------------------------------------------------------------------
(* What an escape sequence is, without an assembler: ESC, [ or O, bytes    *)
(* between, and possibly the byte that ends it.                            *)
IsSequence(s) ==
    /\ Len(s) >= 2 /\ s[1] = "ESC" /\ s[2] \in {"[", "O"}
    /\ \A i \in 3..(Len(s) - 1) : s[i] \in ParamBytes
    /\ Len(s) > 2 => s[Len(s)] \in Printable

(* run_editor: a Key event.                                                *)
KeyEvent(byte) ==
    LET fed == Feed(assembler, byte)
    IN  /\ ~exited /\ keysDue = <<>>
        /\ byte \in ParamBytes => ~assembler.params   \* bound: one parameter
        /\ assembler' = fed.next
        /\ raw' = IF fed.next = AtRest THEN <<>>
                  ELSE IF byte = "ESC" THEN <<byte>> ELSE Append(raw, byte)
        /\ inSequence' = IsSequence(Append(raw, byte))
        /\ IF fed.keys = <<>>
             THEN UNCHANGED <<uiVars, keysDue, pending, viewVars>>
             ELSE keysDue' = Tail(fed.keys) /\ Send(Head(fed.keys))

SendDue ==
    /\ ~exited /\ keysDue # <<>>
    /\ keysDue' = Tail(keysDue)
    /\ Send(Head(keysDue))
    /\ UNCHANGED <<assembler, rawVars>>

(* Mutant: the frame is not written after an agent event.                  *)
ApplyUnwritten == Render /\ UNCHANGED screen

(* harness.apply and harness.resize, and the frame written after them:     *)
(* echo and note are left alone.                                           *)
Apply == Render /\ WriteFrame

Between == ~exited /\ keysDue = <<>>

AgentEvent ==
    /\ Between
    /\ \/ Len(permissionQueue) < MaxQueue /\ \E r \in Request : PromptPermission(r)
       \/ AbortPendingPermissions
    /\ inSequence' = FALSE
    /\ UNCHANGED <<keyVars, echo, note, raw>>
    /\ Apply

ResizeEvent ==
    /\ Between
    /\ inSequence' = FALSE
    /\ UNCHANGED <<uiVars, keyVars, echo, note, raw>>
    /\ Apply

Next ==
    \/ \E byte \in Bytes : KeyEvent(byte)
    \/ SendDue
    \/ AgentEvent
    \/ ResizeEvent
    \/ exited /\ UNCHANGED vars

Spec == Init /\ [][Next]_vars

-----------------------------------------------------------------------------
(* Properties.                                                             *)

Messages == {"none", "Quit", "Wrote", "failed", "message", "undefined"}

(* Type invariant, with the editor's.                                      *)
HarnessTypeOK ==
    /\ UiTypeOK
    /\ assembler \in [state : {"none", "esc", "csi", "ss3"}, params : BOOLEAN]
    /\ Len(keysDue) <= 1
    /\ pending \in PREFIXES \cup {"none"}
    /\ echo \in Messages /\ note \in {"none", "failed", "message"}

(* KeyAssembler.feed: however an escape sequence is cut up by agent events *)
(* and resizes, and whatever is open when it arrives, none of its bytes    *)
(* types text, answers a question or a permission request, or runs a       *)
(* command.                                                                *)
EscapesAreInert == [][inSequence' => UNCHANGED uiVars]_vars

(* send, apply, resize and run_editor: between two events the terminal     *)
(* shows the state the next key will act on.  A prompt is on the screen    *)
(* exactly when one is open, with the request it is about, so no key       *)
(* answers a question the user has not been shown; only the message about  *)
(* an undefined key may be missing.                                        *)
ScreenIsFresh ==
    /\ frame = View
    /\ keysDue = <<>> /\ screen # frame
          => /\ minibuffer = "none" /\ echo = "undefined"
             /\ screen.row[1] = "echo" /\ screen.modified = modified

(* terminal.py "Unresolved key: state did not change, so skip the frame    *)
(* rewrite": that is so only if the frame did not change either.           *)
ScreenShowsFrame == keysDue = <<>> => screen = frame

=============================================================================
