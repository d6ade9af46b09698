------------------------------ MODULE Windows ------------------------------
(***************************************************************************)
(* The buffers and windows of EditorSession (session.py) and the frame the *)
(* renderer lays them out in (render.py).  A step is one dispatch.         *)
(*                                                                         *)
(* A buffer is the length of its text, its point and mark, the file it     *)
(* visits and its kind; what the editing commands do to the text is        *)
(* BufferEdit's subject, here they are any change of the current buffer.   *)
(* A buffer's name is a base and a number: <<"a", 1>> is a, <<"a", 2>> is  *)
(* a<2>.  User commands are those the minibuffer's gate lets through; the  *)
(* agent's deliveries come at any moment.                                  *)
(***************************************************************************)
EXTENDS Integers, Sequences, SequencesExt, FrameLayout

CONSTANTS Scratch,            \* base name of the first buffer
          AgentBase,          \* "*agent*"
          LogBase,            \* "*agent-log*", the diagnostics
          TypedNames,         \* names answered to C-x b
          Paths,              \* paths answered to C-x C-f
          Basename,           \* the base name of each path
          AcpSessions,        \* ids of ACP sessions
          Heights,            \* heights the frame may take
          MarkPositions,      \* where the user sets marks
          MarkedBuffers,      \* and in which buffers
          NoMark, NoPath,
          MaxLen, MaxOutput, MaxBuffers, MaxWindows   \* bounds

ASSUME WindowsAssumption ==
    /\ Basename \in [Paths -> STRING] /\ Heights \cup MarkPositions \subseteq Nat
    /\ {Scratch, AgentBase, LogBase} \subseteq STRING
    /\ TypedNames \subseteq STRING \X (Nat \ {0})
    /\ MaxLen \in Nat /\ MaxOutput \in Nat /\ MaxBuffers \in Nat /\ MaxWindows \in Nat
    /\ NoMark \notin Nat /\ NoPath \notin Paths

VARIABLES
    bufs,              \* _buffers and the kinds in _states, by name
    current,           \* _current_id
    windows, focused,  \* _windows, top to bottom, and the index of the focused
    mru,               \* _mru: names, most recent first
    chained,           \* buffers whose kill, yank or undo chain is alive
    agentBuffers,      \* _agent_buffers: ACP session -> name
    logBuffers,        \* _generated_buffers: requested base -> name
    frame              \* height of _frame_size, which the harness knows from the start

layoutVars == <<windows, focused>>
bindings   == <<agentBuffers, logBuffers>>
vars == <<bufs, current, layoutVars, mru, chained, bindings, frame>>

-----------------------------------------------------------------------------
(* Python's f[k] = v and the values of a dictionary.                       *)
Put(f, k, v) == [x \in DOMAIN f \cup {k} |-> IF x = k THEN v ELSE f[x]]
Values(f) == {f[x] : x \in DOMAIN f}

(* Positions in a text of some length; a mark may be None.                 *)
Marks(len) == 0..len \cup {NoMark}

NewBuffer(len, path, kind) ==
    [len |-> len, point |-> 0, mark |-> NoMark, path |-> path, kind |-> kind]

Window(b, p, m) == [buffer |-> b, point |-> p, mark |-> m]

(* A window on a buffer at the buffer's own point and mark.                *)
Shown(b, value) == Window(b, value.point, value.mark)

(* A session begins with one buffer, scratch or a file's, in one window.   *)
Init ==
    /\ \E len \in 0..MaxLen, path \in Paths \cup {NoPath} :
          LET b == <<IF path = NoPath THEN Scratch ELSE Basename[path], 1>>
          IN  /\ bufs = [x \in {b} |-> NewBuffer(len, path, "ordinary")]
              /\ current = b
              /\ windows = <<Window(b, 0, NoMark)>>
              /\ mru = <<b>>
    /\ focused = 1
    /\ chained = {}
    /\ agentBuffers = [x \in {} |-> x] /\ logBuffers = [x \in {} |-> x]
    /\ frame \in Heights

-----------------------------------------------------------------------------
(* The end of dispatch.                                                    *)

(* The focused window takes the point and mark of the buffer it shows.     *)
SyncFocused(ws, f, b, value) == [ws EXCEPT ![f] = Shown(b, value)]

(* The command ends on the current buffer b with this value and the        *)
(* windows ws: it is written back, and the focused window follows.         *)
Commit(b, value, ws, f) ==
    /\ bufs' = [bufs EXCEPT ![b] = value]
    /\ windows' = SyncFocused(ws, f, b, value)
    /\ focused' = f

(* A user command with an event leaves no chain but its own.               *)
Intervene == chained' = chained \ {current}

-----------------------------------------------------------------------------
(* Editing: an insertion, a kill, a yank, a motion, an undo or a mark      *)
(* command in the current buffer; kills, yanks and undos start a chain.    *)
Edit(len, p, m) ==
    LET value == [bufs[current] EXCEPT !.len = len, !.point = p, !.mark = m]
    IN  /\ Commit(current, value, windows, focused)
        /\ chained' \in {chained \ {current}, chained \cup {current}}
        /\ UNCHANGED <<current, mru, bindings, frame>>

-----------------------------------------------------------------------------
(* Windows.                                                                *)

(* Would one more window leave one of them below its minimum?              *)
TooSmall == frame < (Len(windows) + 1) * MIN_WINDOW_ROWS + 1

(* The windows after a split: the duplicate goes below the focused one.    *)
Split == InsertAt(windows, focused + 1, windows[focused])

SplitWindow ==
    /\ Len(windows) < MaxWindows
    /\ ~TooSmall
    /\ Commit(current, bufs[current], Split, focused)
    /\ Intervene
    /\ UNCHANGED <<current, mru, bindings, frame>>

(* Mutant: a stored point is taken as it is.                               *)
UnclampedPoint(p, len) == p

(* A stored point may lie beyond a text that shrank since.                 *)
ClampedPoint(p, len) == AtMost(p, len)
ClampedMark(m, len) == IF m = NoMark THEN NoMark ELSE ClampedPoint(m, len)

Restored(value, window) ==
    [value EXCEPT !.point = ClampedPoint(window.point, value.len),
                  !.mark = ClampedMark(window.mark, value.len)]

(* The name moves to the front of the list.                                *)
Used(b) == <<b>> \o RemoveFirst(mru, b)

(* Mutant: focus moves to another buffer and the one left keeps its chain. *)
LeaveKeepsChains(b) == chained' = chained \ {b}

(* The buffer that is left loses its chains; the command itself then ends  *)
(* those of the buffer it arrives in.                                      *)
Leave(b) == chained' = chained \ {current, b}

OtherWindow ==
    /\ Len(windows) >= 2
    /\ LET f == (focused % Len(windows)) + 1
           b == windows[f].buffer
       IN  /\ Commit(b, Restored(bufs[b], windows[f]), windows, f)
           /\ current' = b
           /\ mru' = IF b = current THEN mru ELSE Used(b)
           /\ IF b = current THEN Intervene ELSE Leave(b)
    /\ UNCHANGED <<bindings, frame>>

DeleteOtherWindows ==
    /\ Len(windows) >= 2
    /\ Commit(current, bufs[current], <<windows[focused]>>, 1)
    /\ Intervene
    /\ UNCHANGED <<current, mru, bindings, frame>>

(* Only the size changes: no window is deleted to make the others fit.     *)
ResizeFrame(h) ==
    /\ frame' = h
    /\ UNCHANGED <<bufs, current, layoutVars, mru, chained, bindings>>

-----------------------------------------------------------------------------
(* Buffers.                                                                *)

(* The first name of the base that is free.                                *)
FreshName(base) ==
    <<base, Min({n \in 1..(MaxBuffers + 1) : <<base, n>> \notin DOMAIN bufs})>>

(* b, with this value and possibly new, becomes the current buffer in the  *)
(* focused window, at its own point.  Opening the prompt was a command and *)
(* ended the chains of the buffer it was opened in.                        *)
SelectBuffer(b, value) ==
    IF b = current
      THEN Intervene /\ UNCHANGED <<bufs, current, layoutVars, mru>>
      ELSE /\ bufs' = Put(bufs, b, value)
           /\ current' = b
           /\ windows' = SyncFocused(windows, focused, b, value)
           /\ mru' = Used(b)
           /\ Leave(b)
           /\ UNCHANGED focused

RoomForBuffer == Cardinality(DOMAIN bufs) < MaxBuffers

(* C-x b answered with a name: an unknown one makes an empty buffer.       *)
SwitchBuffer(b) ==
    /\ \/ b \in DOMAIN bufs /\ SelectBuffer(b, bufs[b])
       \/ /\ b \notin DOMAIN bufs /\ RoomForBuffer
          /\ SelectBuffer(b, NewBuffer(0, NoPath, "ordinary"))
    /\ UNCHANGED <<bindings, frame>>

(* C-x b answered with RET: the buffer used before this one, if any.       *)
SwitchToDefault ==
    /\ Len(mru) > 1
    /\ SwitchBuffer(mru[2])

Visiting(path) == {b \in DOMAIN bufs : bufs[b].path = path}

(* Mutant: only the current buffer's path is looked at.                    *)
OpenFileAgain(path) ==
    /\ IF path = bufs[current].path
         THEN Intervene /\ UNCHANGED <<bufs, current, layoutVars, mru>>
         ELSE /\ RoomForBuffer
              /\ SelectBuffer(FreshName(Basename[path]), NewBuffer(0, path, "ordinary"))
    /\ UNCHANGED <<bindings, frame>>

(* C-x C-f: a path that is open selects its buffer; another is read, and a *)
(* file that exists or not yet becomes a buffer named after it.  A refused *)
(* one changes nothing.                                                    *)
OpenFile(path) ==
    /\ \/ \E b \in Visiting(path) : SelectBuffer(b, bufs[b])
       \/ /\ Visiting(path) = {} /\ RoomForBuffer
          /\ \E len \in 0..MaxLen :
                SelectBuffer(FreshName(Basename[path]), NewBuffer(len, path, "ordinary"))
    /\ UNCHANGED <<bindings, frame>>

-----------------------------------------------------------------------------
(* What the pump does.                                                     *)

Mint(b) ==
    /\ bufs' = Put(bufs, b, NewBuffer(0, NoPath, "generated"))
    /\ UNCHANGED <<current, layoutVars, mru, chained, frame>>

(* One buffer per ACP session; asked again, it is the same.                *)
CreateAgentBuffer(s) ==
    \/ s \in DOMAIN agentBuffers /\ UNCHANGED vars
    \/ /\ s \notin DOMAIN agentBuffers /\ RoomForBuffer
       /\ Mint(FreshName(AgentBase))
       /\ agentBuffers' = Put(agentBuffers, s, FreshName(AgentBase))
       /\ UNCHANGED logBuffers

CreateGeneratedBuffer(base) ==
    \/ base \in DOMAIN logBuffers /\ UNCHANGED vars
    \/ /\ base \notin DOMAIN logBuffers /\ RoomForBuffer
       /\ Mint(FreshName(base))
       /\ logBuffers' = Put(logBuffers, base, FreshName(base))
       /\ UNCHANGED agentBuffers

(* Mutant: point follows the output wherever it is.                        *)
FollowAlways(p, before, after) == after

(* A point at the very end follows the output; any other is the user's.    *)
Follow(p, before, after) == IF p = before THEN after ELSE p

(* DeliverSessionEffects, InsertAgentText: text at the end of a generated  *)
(* buffer, whichever windows show it, the focused one included.            *)
Deliver(b, count) ==
    LET before == bufs[b].len
        after  == before + count
        value  == [bufs[b] EXCEPT !.len = after,
                                  !.point = Follow(@, before, after)]
        tail   == [i \in DOMAIN windows |->
                     IF i # focused /\ windows[i].buffer = b
                       THEN [windows[i] EXCEPT !.point = Follow(@, before, after)]
                       ELSE windows[i]]
    IN  /\ bufs[b].kind = "generated"
        /\ after <= MaxOutput
        /\ bufs' = [bufs EXCEPT ![b] = value]
        /\ windows' = IF b = current THEN SyncFocused(tail, focused, b, value)
                                     ELSE tail
        /\ UNCHANGED <<current, focused, mru, chained, bindings, frame>>

(* Mutant: the buffer takes the first window.                              *)
DisplayAtTop(b) ==
    /\ Len(windows) > 1
    /\ windows' = [windows EXCEPT ![1] = Window(b, 0, NoMark)]
    /\ UNCHANGED <<bufs, current, focused, mru, chained, bindings, frame>>

(* Show a buffer in the window after the focused one, splitting a single   *)
(* window if the frame allows; the current buffer is then written back.    *)
DisplayBuffer(b) ==
    /\ Len(windows) > 1 \/ (Len(windows) < MaxWindows /\ ~TooSmall)
    /\ LET ws     == IF Len(windows) = 1 THEN Split ELSE windows
           target == (focused % Len(ws)) + 1
       IN  Commit(current, bufs[current], [ws EXCEPT ![target] = Window(b, 0, NoMark)],
                  focused)
    /\ UNCHANGED <<current, mru, chained, bindings, frame>>

-----------------------------------------------------------------------------
(* The marks an edit may leave: where the user sets marks at all.          *)
UserMarks(len) ==
    {NoMark} \cup {m \in MarkPositions \cap 0..len : current \in MarkedBuffers}

UserStep ==
    \/ \E len \in 0..MaxLen :
          \E p \in 0..len, m \in UserMarks(len) : Edit(len, p, m)
    \/ SplitWindow
    \/ OtherWindow
    \/ DeleteOtherWindows
    \/ \E b \in TypedNames : SwitchBuffer(b)
    \/ SwitchToDefault
    \/ \E path \in Paths : OpenFile(path)

(* The pump passes only buffers the session minted for it.                 *)
PeerStep ==
    \/ \E h \in Heights : ResizeFrame(h)
    \/ \E s \in AcpSessions : CreateAgentBuffer(s)
    \/ CreateGeneratedBuffer(LogBase)
    \/ \E b \in Values(agentBuffers) \cup Values(logBuffers), n \in 1..MaxOutput : Deliver(b, n)
    \/ \E b \in Values(agentBuffers) : DisplayBuffer(b)

Next == UserStep \/ PeerStep

Spec == Init /\ [][Next]_vars

-----------------------------------------------------------------------------
(* Properties.                                                             *)

BufferType == [len : Nat, point : Nat, mark : Nat \cup {NoMark},
               path : Paths \cup {NoPath}, kind : {"ordinary", "generated"}]
WindowType(names) == [buffer : names, point : Nat, mark : Nat \cup {NoMark}]

(* Type invariant.  BufferValue raises on a point or mark outside its      *)
(* text, so focus arriving at a window whose stored point went stale must  *)
(* not carry it into the buffer.                                           *)
WindowsTypeOK ==
    /\ current \in DOMAIN bufs
    /\ bufs \in [DOMAIN bufs -> BufferType]
    /\ \A b \in DOMAIN bufs :
          bufs[b].point \in 0..bufs[b].len /\ bufs[b].mark \in Marks(bufs[b].len)
    /\ windows \in Seq(WindowType(DOMAIN bufs))
    /\ focused \in DOMAIN windows
    /\ mru \in Seq(DOMAIN bufs)
    /\ chained \subseteq DOMAIN bufs
    /\ agentBuffers \in [DOMAIN agentBuffers -> DOMAIN bufs]
    /\ logBuffers \in [DOMAIN logBuffers -> DOMAIN bufs]
    /\ DOMAIN agentBuffers \subseteq AcpSessions
    /\ frame \in Heights

(* dispatch, _other_window, _select_buffer: whatever moved the focus, the  *)
(* layout or the text, the focused window shows the current buffer at that *)
(* buffer's point and mark; and the list C-x b takes its default from has  *)
(* the current buffer first and every buffer once, so that the default is  *)
(* another one.                                                            *)
FocusedWindowAgrees ==
    /\ windows[focused] = Shown(current, bufs[current])
    /\ mru # <<>> /\ Head(mru) = current
    /\ IsInjective(mru)

(* break_chains: a chain never outlives its buffer's being current, so a   *)
(* kill in one buffer is not appended to one made in another, nor a yank   *)
(* popped after a detour.                                                  *)
ChainsEndOnLeaving == chained \subseteq {current}

(* _open_file, _create_buffer, _pinned_target: no file is in two buffers,  *)
(* whose saves would overwrite each other; the buffers the agent writes to *)
(* are generated, visit no file and belong to one session or the log each, *)
(* even when the user took their names first.                              *)
BuffersStayApart ==
    /\ \A a, b \in DOMAIN bufs :
          bufs[a].path = bufs[b].path /\ bufs[a].path # NoPath => a = b
    /\ \A b \in Values(agentBuffers) \cup Values(logBuffers) :
          bufs[b].kind = "generated" /\ bufs[b].path = NoPath
    /\ \A s, t \in DOMAIN agentBuffers : agentBuffers[s] = agentBuffers[t] => s = t
    /\ Values(agentBuffers) \cap Values(logBuffers) = {}

(* _display_buffer, _append_agent_text, ResizeFrame: what the agent or the *)
(* terminal does never takes the user out of what they are doing.  The     *)
(* focused window keeps its buffer and its point, unless the point was at  *)
(* the end of agent output; ordinary buffers are untouched; no chain ends. *)
Undisturbed ==
    /\ current' = current /\ chained' = chained /\ mru' = mru
    /\ windows'[focused'].buffer = windows[focused].buffer
    /\ windows'[focused'].point # windows[focused].point
          => /\ bufs[current].kind = "generated"
             /\ windows[focused].point = bufs[current].len
    /\ \A b \in DOMAIN bufs : bufs[b].kind = "ordinary" => bufs'[b] = bufs[b]

PeersKeepOut == [][Undisturbed \/ ~PeerStep]_vars

(* render_session: in a frame of any size, whatever it was when the        *)
(* windows were made, the focused window is among those drawn; the panes   *)
(* fill the rows above the echo row without overlap, each with a body and  *)
(* a mode line when two rows are to be had; the cursor is in the focused   *)
(* pane's body; and no window is hidden in a frame that would let C-x 2    *)
(* make them all.                                                          *)
FrameShowsFocus ==
    frame >= 2 =>
        LET n       == Len(windows)
            visible == VisibleCount(frame, n)
            first   == FirstVisible(n, focused, visible)
            slot    == focused - first + 1
            Top(k)  == PaneTop(frame, visible, k)
            Rows(k) == PaneRows(frame, visible, k)
        IN  /\ first >= 1 /\ first + visible - 1 <= n
            /\ slot \in 1..visible
            /\ \A k \in 1..visible : Rows(k) >= AtMost(PaneBudget(frame), 2)
            /\ \A k \in 1..(visible - 1) : Top(k + 1) = Top(k) + Rows(k)
            /\ Top(visible) + Rows(visible) = PaneBudget(frame)
            /\ \A line \in 0..bufs[current].len :
                  LET row == CursorRow(Top(slot), Rows(slot), line)
                  IN  Top(slot) <= row /\ row < Top(slot) + AtLeast(Rows(slot) - 1, 1)
            /\ frame >= n * MIN_WINDOW_ROWS + 1
                  => visible = n /\ \A k \in 1..n : Rows(k) >= MIN_WINDOW_ROWS

=============================================================================
