----------------------------- MODULE BufferEdit -----------------------------
(***************************************************************************)
(* The editing commands of session.py on one buffer: insertion, motion,    *)
(* mark, kill, yank, undo, save, and the agent's appends.  The buffer's    *)
(* value (model.py) is text, point, mark and modified; its _BufferState is *)
(* the undo stacks, the three "last command" flags, the yank's cursor and  *)
(* bounds and the text last known to be in the file.  The kill ring is the *)
(* session's, so other buffers push onto it too.                           *)
(*                                                                         *)
(* A text is a sequence of characters and positions count from 0, as in    *)
(* Python: position p lies before character text[p + 1].                   *)
(***************************************************************************)
EXTENDS LineEndings

CONSTANTS Char,               \* the characters a text is made of
          InitTexts,          \* what a file may hold when a session begins
          InsertTexts,        \* what is typed or pasted
          OtherTexts,         \* what the agent delivers, what is killed elsewhere
          KILL_RING_CAPACITY,
          UNDO_CAPACITY,
          NoMark, NoText,     \* Python's None for a mark, for a saved text
          Damaged,            \* a file that was truncated and not rewritten
          MaxCommands,        \* bound: commands other than undo, save and quit
          MaxOrdinary         \* bound: how many of them an ordinary buffer sees

ASSUME EditAssumption ==
    /\ NewLine \in Char /\ CR \in Char \ {NewLine}
    /\ InitTexts \subseteq Seq(Char)
    /\ InsertTexts \cup OtherTexts \subseteq Seq(Char) \ {<<>>}
    /\ KILL_RING_CAPACITY \in Nat \ {0} /\ UNDO_CAPACITY \in Nat \ {0}
    /\ MaxCommands \in Nat /\ MaxOrdinary \in 0..MaxCommands
    /\ NoMark \notin Nat /\ NoText \notin Seq(Char) /\ Damaged \notin Seq(Char)

VARIABLES
    kind,            \* _BufferState.kind: "ordinary" or "generated"
    visits,          \* BufferValue.file_path is not None
    text, point, mark, modified,
    saved,           \* _BufferState.saved_text
    eol,             \* _BufferState.eol: how the file ends its lines
    disk,            \* what the visited file holds: nothing, if it is not there
    undoHistory, undoRedo, undoDescending,
    lastWasKill,
    yankActive, yankCursor, yankBounds,
    killRing,        \* newest first
    commands,        \* how many commands MaxCommands has counted
    \* History, for the properties only.
    past, future,    \* the texts that the groups of undoHistory came from,
                     \* that the groups of undoRedo led to
    lastUndo,        \* the last command that did anything was an undo
    run              \* what the kills in a row took, in order

valueVars   == <<text, point, mark, modified>>
chainVars   == <<undoDescending, lastWasKill, yankActive>>
yankVars    == <<yankCursor, yankBounds>>
undoVars    == <<undoHistory, undoRedo, past, future>>
fileVars    == <<kind, visits, saved, eol, disk>>
historyVars == <<lastUndo, run>>
vars == <<valueVars, chainVars, yankVars, undoVars, fileVars, historyVars,
          killRing, commands>>

-----------------------------------------------------------------------------
(* Python's t[lo:hi], and t[:lo] + new + t[hi:].                           *)
Slice(t, lo, hi) == SubSeq(t, lo + 1, hi)
Splice(t, lo, hi, new) == Slice(t, 0, lo) \o new \o Slice(t, hi, Len(t))

(* The mark after count characters came in at a position: it stays before  *)
(* text inserted exactly where it is.                                      *)
AdjustMarkInsert(m, at, count) ==
    IF m # NoMark /\ at < m THEN m + count ELSE m

(* Mutant: a mark inside the deleted text stays where it is.               *)
AdjustMarkDeleteKeepsInside(m, lo, hi) ==
    IF m # NoMark /\ m >= hi THEN m - (hi - lo) ELSE m

(* The mark after lo..hi went: a mark inside falls to its start.           *)
AdjustMarkDelete(m, lo, hi) ==
    CASE m = NoMark -> NoMark
      [] m # NoMark /\ m >= hi -> m - (hi - lo)
      [] m # NoMark /\ m < hi  -> Min({m, lo})

(* What undo and redo need of one text-changing command.                   *)
UndoGroup(start, removed, inserted, pointAfter, markAfter) ==
    [start |-> start, removed |-> removed, inserted |-> inserted,
     pointBefore |-> point, pointAfter |-> pointAfter,
     markBefore |-> mark, markAfter |-> markAfter]

(* The newest n members of a list that grows at its end.                   *)
Newest(s, n) == SubSeq(s, Max({0, Len(s) - n}) + 1, Len(s))

-----------------------------------------------------------------------------
(* The shared end of dispatch.                                             *)

(* Mutant: a yank can still be popped after another command.               *)
InterveneKeepsYank ==
    /\ lastWasKill' = FALSE /\ undoDescending' = FALSE
    /\ lastUndo' = FALSE /\ run' = <<>>
    /\ UNCHANGED yankActive

(* A user command that emitted an event, other than the ones with a rule   *)
(* of their own, ends every chain.                                         *)
Intervene ==
    /\ lastWasKill' = FALSE /\ yankActive' = FALSE /\ undoDescending' = FALSE
    /\ lastUndo' = FALSE /\ run' = <<>>

(* A no-op: no event, or only a message.                                   *)
DoesNothing == UNCHANGED vars

(* Mutant: a fresh edit leaves the redo tail.                              *)
PushUndoKeepsRedo(group) ==
    /\ undoHistory' = Newest(Append(undoHistory, group), UNDO_CAPACITY)
    /\ past' = Newest(Append(past, text), UNDO_CAPACITY)
    /\ UNCHANGED <<undoRedo, future>>

(* dispatch files one group for the command and drops the redo tail.       *)
PushUndo(group) ==
    /\ undoHistory' = Newest(Append(undoHistory, group), UNDO_CAPACITY)
    /\ undoRedo' = <<>>
    /\ past' = Newest(Append(past, text), UNDO_CAPACITY)
    /\ future' = <<>>

(* Text lo..hi becomes new, point p, mark m, and the inverse is filed.     *)
Change(lo, hi, new, p, m) ==
    /\ text' = Splice(text, lo, hi, new)
    /\ point' = p /\ mark' = m /\ modified' = TRUE
    /\ PushUndo(UndoGroup(lo, Slice(text, lo, hi), new, p, m))
    /\ UNCHANGED fileVars

CommandBound == IF kind = "ordinary" THEN MaxOrdinary ELSE MaxCommands
Counted == commands < CommandBound /\ commands' = commands + 1

-----------------------------------------------------------------------------
(* A buffer handed to the session: scratch, a file that exists or not yet, *)
(* one provided already modified, whose file's text is unknown; or the     *)
(* agent's buffer, created empty and without a file.  Each holds its text  *)
(* the way a visit does.                                                   *)
Init ==
    /\ kind \in {"ordinary", "generated"} /\ visits \in BOOLEAN
    /\ modified \in BOOLEAN
    /\ \E file \in InitTexts \cup {<<>>} :
          /\ text = Visited(file) /\ eol = DetectLineEnding(file)
          /\ kind = "generated" => (file = <<>> /\ ~visits /\ ~modified)
          /\ disk = IF visits /\ ~modified THEN file ELSE NoText
    /\ point = 0 /\ mark = NoMark
    /\ saved = (IF modified THEN NoText ELSE text)
    /\ undoHistory = <<>> /\ undoRedo = <<>> /\ undoDescending = FALSE
    /\ lastWasKill = FALSE
    /\ yankActive = FALSE /\ yankCursor = 0 /\ yankBounds = <<0, 0>>
    /\ killRing = <<>> /\ commands = 0
    /\ past = <<>> /\ future = <<>> /\ lastUndo = FALSE /\ run = <<>>

-----------------------------------------------------------------------------
(* Insertion and motion.  Motion at a boundary moves nothing and still     *)
(* counts as a command: it emits PointMoved.                               *)
InsertText(t) ==
    /\ Counted
    /\ Change(point, point, t, point + Len(t),
              AdjustMarkInsert(mark, point, Len(t)))
    /\ Intervene
    /\ UNCHANGED <<yankVars, killRing>>

Place(p, m) ==
    /\ point' = p /\ mark' = m
    /\ Intervene
    /\ UNCHANGED <<text, modified, yankVars, undoVars, fileVars>>

ForwardChar ==
    Counted /\ Place(Min({point + 1, Len(text)}), mark) /\ UNCHANGED killRing

BackwardChar ==
    Counted /\ Place(Max({point - 1, 0}), mark) /\ UNCHANGED killRing

SetMark == Counted /\ Place(point, point) /\ UNCHANGED killRing

KeyboardQuit == Place(point, NoMark) /\ UNCHANGED <<killRing, commands>>

ExchangePointAndMark ==
    \/ mark = NoMark /\ DoesNothing
    \/ mark # NoMark /\ Counted /\ Place(mark, point) /\ UNCHANGED killRing

-----------------------------------------------------------------------------
(* Kill and copy.                                                          *)
RingPush(ring, entry) ==
    Slice(Cons(entry, ring), 0, Min({Len(ring) + 1, KILL_RING_CAPACITY}))

(* Where kill-line stops: after a newline it stands on, else before the    *)
(* next one, else at the end of the buffer.                                *)
LineEnd ==
    LET ahead == {i \in point..Len(text) : i = Len(text) \/ text[i + 1] = NewLine}
    IN  IF Min(ahead) = point THEN point + 1 ELSE Min(ahead)

(* Mutant: consecutive kills pile up backwards.                            *)
RingAfterKillLinePrepends(killed) ==
    IF lastWasKill /\ killRing # <<>>
    THEN [killRing EXCEPT ![1] = killed \o @]
    ELSE RingPush(killRing, killed)

(* The ring after kill-line took these characters.                         *)
RingAfterKillLine(killed) ==
    IF lastWasKill /\ killRing # <<>>
    THEN [killRing EXCEPT ![1] = @ \o killed]
    ELSE RingPush(killRing, killed)

KillLine ==
    \/ point = Len(text) /\ DoesNothing
    \/ LET killed == Slice(text, point, LineEnd)
       IN  /\ point < Len(text) /\ Counted
           /\ Change(point, LineEnd, <<>>, point,
                     AdjustMarkDelete(mark, point, LineEnd))
           /\ killRing' = RingAfterKillLine(killed)
           /\ lastWasKill' = TRUE
           /\ yankActive' = FALSE /\ undoDescending' = FALSE
           /\ lastUndo' = FALSE /\ run' = run \o killed
           /\ UNCHANGED yankVars

Region == Slice(text, Min({point, mark}), Max({point, mark}))

NoRegion == mark = NoMark \/ mark = point

KillRegion ==
    \/ NoRegion /\ DoesNothing
    \/ /\ ~NoRegion /\ Counted
       /\ Change(Min({point, mark}), Max({point, mark}), <<>>,
                 Min({point, mark}), NoMark)
       /\ killRing' = RingPush(killRing, Region)
       /\ Intervene
       /\ UNCHANGED yankVars

CopyRegionAsKill ==
    \/ NoRegion /\ DoesNothing
    \/ /\ ~NoRegion /\ Counted
       /\ Place(point, NoMark)
       /\ killRing' = RingPush(killRing, Region)

-----------------------------------------------------------------------------
(* Yank, and yank-pop, which trades the text just yanked for an older kill.*)
Yank ==
    \/ killRing = <<>> /\ yankActive' = FALSE
       /\ UNCHANGED <<valueVars, undoDescending, lastWasKill, yankVars, undoVars,
                      fileVars, historyVars, killRing, commands>>
    \/ LET after == point + Len(killRing[1])
       IN  /\ killRing # <<>> /\ Counted
           /\ Change(point, point, killRing[1], after,
                     AdjustMarkInsert(mark, point, Len(killRing[1])))
           /\ yankCursor' = 0 /\ yankBounds' = <<point, after>>
           /\ yankActive' = TRUE
           /\ lastWasKill' = FALSE /\ undoDescending' = FALSE
           /\ lastUndo' = FALSE /\ run' = <<>>
           /\ UNCHANGED killRing

YankPop ==
    \/ (~yankActive \/ Len(killRing) < 2) /\ yankActive' = FALSE
       /\ UNCHANGED <<valueVars, undoDescending, lastWasKill, yankVars, undoVars,
                      fileVars, historyVars, killRing, commands>>
    \/ LET start  == yankBounds[1]
           end    == yankBounds[2]
           cursor == (yankCursor + 1) % Len(killRing)
           new    == killRing[cursor + 1]
       IN  /\ yankActive /\ Len(killRing) >= 2 /\ Counted
           /\ Change(start, end, new, start + Len(new),
                     AdjustMarkInsert(AdjustMarkDelete(mark, start, end),
                                      start, Len(new)))
           /\ yankCursor' = cursor /\ yankBounds' = <<start, start + Len(new)>>
           /\ lastWasKill' = FALSE /\ undoDescending' = FALSE
           /\ lastUndo' = FALSE /\ run' = <<>>
           /\ UNCHANGED <<yankActive, killRing>>

-----------------------------------------------------------------------------
(* Undo: down the history while the last command was an undo or nothing is *)
(* left to redo, else back up by one group.                                *)
Descends == undoDescending \/ undoRedo = <<>>

ModifiedAfterUndo(t) == saved = NoText \/ t # saved

(* The group's removed text back in place of what it inserted.             *)
Undone(t, group) ==
    Splice(t, group.start, group.start + Len(group.inserted), group.removed)
Redone(t, group) ==
    Splice(t, group.start, group.start + Len(group.removed), group.inserted)

(* An undo or redo that moved the buffer: the end of the arm and its       *)
(* bookkeeping.                                                            *)
Moved(t, p, m) ==
    /\ text' = t /\ point' = p /\ mark' = m
    /\ modified' = ModifiedAfterUndo(t)
    /\ undoDescending' = TRUE
    /\ lastWasKill' = FALSE /\ yankActive' = FALSE
    /\ lastUndo' = TRUE /\ run' = <<>>
    /\ UNCHANGED <<yankVars, fileVars, killRing, commands>>

Descend ==
    LET group == Last(undoHistory)
    IN  /\ Moved(Undone(text, group), group.pointBefore, group.markBefore)
        /\ undoHistory' = Front(undoHistory)
        /\ undoRedo' = Append(undoRedo, group)
        /\ past' = Front(past) /\ future' = Append(future, text)

Ascend ==
    LET group == Last(undoRedo)
    IN  /\ Moved(Redone(text, group), group.pointAfter, group.markAfter)
        /\ undoRedo' = Front(undoRedo)
        /\ undoHistory' = Append(undoHistory, group)
        /\ past' = Append(past, text) /\ future' = Front(future)

(* Mutant (review 0001 finding 2): an exhausted undo ends the descent.     *)
ExhaustedUndoFlips ==
    /\ Descends /\ undoHistory = <<>> /\ undoDescending' = FALSE
    /\ UNCHANGED <<valueVars, lastWasKill, yankActive, yankVars, undoVars,
                   fileVars, historyVars, killRing, commands>>

NothingToUndo == Descends /\ undoHistory = <<>> /\ DoesNothing

Undo ==
    \/ NothingToUndo
    \/ Descends /\ undoHistory # <<>> /\ Descend
    \/ ~Descends /\ Ascend

-----------------------------------------------------------------------------
(* save-buffer, from C-x C-s or from the exit sequence.  The port opens    *)
(* the file for writing, which truncates it, and then writes: a write that *)
(* fails may have touched the file.                                        *)
(* Mutant: a save does not move the clean point.                           *)
SaveKeepsCleanPoint ==
    /\ visits
    /\ modified' = FALSE /\ disk' = ToFileText(text, eol)
    /\ UNCHANGED <<saved, kind, visits, eol>>

(* Mutant (review 0001 finding 1): a save drops the file's line endings.   *)
SaveVerbatim ==
    /\ visits
    /\ modified' = FALSE /\ saved' = text /\ disk' = text
    /\ UNCHANGED <<kind, visits, eol>>

SaveSucceeds ==
    /\ visits
    /\ modified' = FALSE /\ saved' = text /\ disk' = ToFileText(text, eol)
    /\ UNCHANGED <<kind, visits, eol>>

SaveFails ==
    /\ visits => disk' \in {disk, Damaged}
    /\ ~visits => UNCHANGED disk
    /\ UNCHANGED <<modified, saved, kind, visits, eol>>

SaveBuffer ==
    /\ SaveSucceeds \/ SaveFails
    /\ Intervene
    /\ UNCHANGED <<text, point, mark, yankVars, undoVars, killRing, commands>>

-----------------------------------------------------------------------------
(* The agent's text arrives at the end of a generated buffer, whatever the *)
(* user is doing: point follows only from the very end, nothing is filed   *)
(* for undo, and no chain ends.  The history variables take the appended   *)
(* text as having always been there.                                       *)
AppendAgentText(t) ==
    /\ kind = "generated" /\ Counted
    /\ text' = text \o t
    /\ point' = IF point = Len(text) THEN Len(text) + Len(t) ELSE point
    /\ mark' = AdjustMarkInsert(mark, Len(text), Len(t))
    /\ past' = [i \in DOMAIN past |-> past[i] \o t]
    /\ future' = [i \in DOMAIN future |-> future[i] \o t]
    /\ UNCHANGED <<modified, undoHistory, undoRedo, chainVars, yankVars,
                   fileVars, historyVars, killRing>>

(* Focus goes elsewhere and comes back: leaving breaks the chains and      *)
(* coming back is a command.  Point and mark are those of the window that  *)
(* is entered, clamped to the text (here its mark is none or at its        *)
(* point); the ring may have a new head by then.                           *)
LeaveAndReturn ==
    \E p \in 0..Len(text) :
        \E m \in {NoMark, p} :
            /\ Counted /\ Place(p, m)
            /\ \/ UNCHANGED killRing
               \/ \E t \in OtherTexts : killRing' = RingPush(killRing, t)

Next ==
    \/ \E t \in InsertTexts : InsertText(t)
    \/ ForwardChar
    \/ BackwardChar
    \/ SetMark
    \/ KeyboardQuit
    \/ ExchangePointAndMark
    \/ KillLine
    \/ KillRegion
    \/ CopyRegionAsKill
    \/ Yank
    \/ YankPop
    \/ Undo
    \/ SaveBuffer
    \/ \E t \in OtherTexts : AppendAgentText(t)
    \/ LeaveAndReturn

Spec == Init /\ [][Next]_vars

-----------------------------------------------------------------------------
Position == 0..Len(text)

Group == [start : Nat, removed : Seq(Char), inserted : Seq(Char),
          pointBefore : Nat, pointAfter : Nat,
          markBefore : Nat \cup {NoMark}, markAfter : Nat \cup {NoMark}]

(* Type invariant.  BufferValue raises ValueError on a point or a mark     *)
(* outside the text, so every command, undo after a delivery included, has *)
(* to produce positions that exist.                                        *)
EditTypeOK ==
    /\ kind \in {"ordinary", "generated"} /\ visits \in BOOLEAN
    /\ text \in Seq(Char) /\ modified \in BOOLEAN
    /\ point \in Position /\ mark \in Position \cup {NoMark}
    /\ saved \in Seq(Char) \cup {NoText}
    /\ disk \in Seq(Char) \cup {NoText, Damaged} /\ eol \in {"LF", "CRLF"}
    /\ undoHistory \in Seq(Group) /\ undoRedo \in Seq(Group)
    /\ Len(undoHistory) + Len(undoRedo) <= UNDO_CAPACITY
    /\ undoDescending \in BOOLEAN /\ lastWasKill \in BOOLEAN
    /\ yankActive \in BOOLEAN /\ yankCursor \in Nat
    /\ yankBounds \in Nat \X Nat
    /\ killRing \in Seq(Seq(Char)) /\ Len(killRing) <= KILL_RING_CAPACITY
    /\ commands \in 0..MaxCommands
    /\ past \in Seq(Seq(Char)) /\ future \in Seq(Seq(Char))
    /\ lastUndo \in BOOLEAN /\ run \in Seq(Char)

-----------------------------------------------------------------------------
(* Properties.                                                             *)

(* The texts the buffer went through, as far as undo and redo reach, with  *)
(* the group that leads from each to the next.                             *)
Timeline == past \o <<text>> \o Reverse(future)
Groups == undoHistory \o Reverse(undoRedo)

(* _undo: undo and redo walk up and down one line of texts.  Every filed   *)
(* group, applied to the text on its one side, gives exactly the text on   *)
(* the other, after any mixture of edits, undos, redos, evictions from the *)
(* full history and agent output that arrived in between, which is never   *)
(* taken back.                                                             *)
UndoTimeline ==
    /\ Len(Timeline) = Len(Groups) + 1
    /\ \A i \in 1..Len(Groups) :
          /\ Undone(Timeline[i + 1], Groups[i]) = Timeline[i]
          /\ Redone(Timeline[i], Groups[i]) = Timeline[i + 1]

(* _modified_after_undo, _save, to_file_text: the file of an ordinary      *)
(* buffer that shows as clean holds the buffer's text with the file's own  *)
(* line endings, through undoing past a save, redoing up to it and saves   *)
(* that fail; visited again, it reads as that very text, so long as no CR  *)
(* came into it.  (A CR that was yanked into a CRLF buffer, or left in a   *)
(* file of mixed endings, can read back as part of a separator.)  A write  *)
(* that fails once the file was truncated leaves neither text in it: the   *)
(* session was told of the failure, and only then may a clean buffer       *)
(* differ from its file.                                                   *)
CleanMeansSaved ==
    kind = "ordinary" /\ visits /\ ~modified /\ disk # Damaged =>
        /\ disk = ToFileText(text, eol)
        /\ CR \notin Range(text) => Visited(disk) = text

(* _kill_line: kills in a row, with only no-ops, messages and agent output *)
(* between them, are one entry at the head of the ring, in text order.     *)
KillsAppend == run # <<>> => lastWasKill /\ killRing # <<>> /\ killRing[1] = run

(* _yank_pop: while a yank can be popped, the remembered bounds hold the   *)
(* ring entry the cursor names, so a pop replaces the yank and nothing     *)
(* else, agent output and positions moved by it notwithstanding.           *)
YankPopReplacesYank ==
    yankActive => /\ yankCursor + 1 \in DOMAIN killRing
                  /\ yankBounds[2] <= Len(text)
                  /\ Slice(text, yankBounds[1], yankBounds[2]) = killRing[yankCursor + 1]

(* dispatch: after an undo, further undos keep undoing until a user        *)
(* command does something; an exhausted undo, a refused command or a       *)
(* delivery in between never turns the next one into a redo.               *)
UndoKeepsDirection ==
    [][lastUndo /\ lastUndo' => Len(undoRedo') >= Len(undoRedo)]_vars

=============================================================================
