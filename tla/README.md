# Drei in TLA+

Drei is a terminal text editor in the Emacs tradition with an ACP agent in it:
`C-c a` sends a prompt to a child process, the child streams a transcript into
a buffer and asks for permissions, and the human answers on the echo row. This
directory models the part of the editor where things happen concurrently or on
somebody else's schedule: the protocol machine, the pump that drives it, the
minibuffer that both the human and the agent want, the threads, the event queue
and the loop; the way from the child's bytes to the transcript and from the
terminal's bytes to the screen; the buffers and windows the agent and the human
share; and the editing commands, whose undo, kill and yank chains must hold
together over any sequence of keys and deliveries. Paths below are relative to the repository root.

## 1. The system and its parts

| Part | Source | State it keeps | Operations |
| --- | --- | --- | --- |
| Protocol machine | `src/drei/acp/machine.py` | phase, session id, id counter, requests in flight both ways, auto-approvals | `start`, `new_session`, `prompt`, `cancel`, `resolve_permission`, `handle` |
| Pump | `src/drei/pump.py` | child, channel, machine, decoder, held prompts, transcript binding, backlog | `submit`, `receive`, `exited`, `diagnostics`, `after_command`, `close` |
| Child I/O | `src/drei/pump.py` (`AgentIo`), `src/drei/streaming.py` | stop flag, outbox, three threads, pipes | `write`, `close`, the thread bodies, `terminate` |
| Event queue | `src/drei/input.py` | priority lane, background lane, closed flag | `put`, `fail`, `next_event`, `close` |
| Loop and terminal readers | `src/drei/terminal.py` | frame size, key assembler, stop flag, two threads | `run_editor`, `_read_keys`, `_watch_size`, `close` |
| Minibuffer | `src/drei/session.py`, routing in `src/drei/harness.py` | the row's text, kind and choice, the permission queue, the exit list | the minibuffer commands, `PromptPermission`, `AbortPendingPermissions`, `ExitEditor` |
| Buffer editing | `src/drei/session.py`, `src/drei/model.py` | text, point, mark, modified flag, saved text, undo stacks, the kill and yank chains, the kill ring | the editing commands, `SaveBuffer`, `AppendAgentText` |
| Buffers and windows | `src/drei/session.py` | buffers by name, current buffer, windows with their own points, focus, recency list, agent bindings | `SplitWindow`, `OtherWindow`, `DeleteOtherWindows`, `SwitchBuffer`, find-file, `CreateAgentBuffer`, `CreateGeneratedBuffer`, `DisplayBuffer`, deliveries, `ResizeFrame` |
| Transcript fold | `src/drei/acp/transcript.py`, `_render_effects` of `src/drei/session.py` | per buffer: open turn, open thought, turns | `advance` |
| Codec, messages | `src/drei/acp/codec.py`, `messages.py` | partial line | `feed`, `messages`, `parse_message`, `to_json` |
| Keys | `src/drei/keys.py`, `KeyAssembler` of `src/drei/terminal.py` | assembler state | `feed`, `resolve` |
| Harness | `src/drei/harness.py` | pending prefix, echo, note, frame | `send`, `apply`, `resize` |
| Rendering | `src/drei/render.py` | none | `render_session` |
| Files, genesis, processes, CLI | the remaining files | little or none | pure functions and I/O |

How they interact. Two terminal threads and three threads per child put events
on one queue; the loop takes one event at a time and hands it to the harness (a
key, a resize) or to the pump (bytes, stderr, exit). A key becomes a session
command; the pump then reads the command's outcome (`after_command`) and turns
a submitted prompt, an answered permission or a `C-g` into calls of the machine
and writes to the child. Bytes become frames, frames are folded through the
machine, and the effects come back to the session as commands. The session
never sees the machine, and events carry no identity of the child they came
from.

What is hard here: the agent and the human share one row and one loop; a
delivery is processed in several passes over effects that were produced from
later machine states; agent text arrives in the middle of an undo, kill or yank
chain that remembers positions; the child can die, close its output, flood, replay ids or
answer late at every point, and a new child follows an old one through the same
queue; and the teardown must take every child with it whatever failed. The
`hazards` list of `PROJECT.json` places each of these at its line.

What makes each part correct:

* machine: an answer is attributed to the request it answers; the phase tells
  what is in flight; a pending request is remembered exactly until it is
  answered.
* minibuffer: the fields of the row agree; no request waits behind a closed
  row; the exit offers current buffers and ends only with the user's work safe.
* pump: a request pending in the machine is on its way to the user, once, with
  its own payload; prompts go out once and in order, or are reported; nothing
  of a dead child reaches the next; no answer is given on the user's behalf
  without consent.
* buffer editing: positions exist; undo and redo walk one line of texts; a
  clean buffer is what the file holds, up to the file's line endings; kills in a row are one entry; a pop
  replaces the yank and nothing else.
* buffers and windows: the focused window and the current buffer agree; a
  stored point never leaves its text; the agent writes to its own buffers only
  and never moves the user; the focused window is drawn in every frame.
* codec and transcript: chunk boundaries do not matter; a bad or unfinished
  line spoils nothing else; each buffer's headers are its own.
* keys, harness, screen: an escape sequence is one key however it arrives; what
  the next key will answer is on the screen.
* threads, queue, loop: what the pump hears is the life of one child at a time,
  complete and in order; no child is orphaned; threads end; the frame follows
  the terminal.

## 2. Modules

`Permissions` — the payload of a permission request: identity, the option an
auto-approval reports, the kind an answer resolves to, the decision of each key.
Pure operators used by both sides. Option ids are strings, the empty string, or
a value that is not a string; kinds are the enum or anything else.

`AcpMachine` (extends `Permissions`) — the fields of the `AcpMachine` dataclass
are the variables; each function of `machine.py` is an action; the
`SessionEffect` lists are state functions (`Effects(f)`) evaluated in the state
before the step. Outbound messages are not state. `handle` distinguishes every
branch of `_handle_response`, `_handle_notification` and
`_handle_inbound_request`; `agent_capabilities`, which nothing reads, is left
out. `in_flight_incoming` maps each id to the same method, so it is a set.

`Minibuffer` (extends `Permissions`) — the `EditorSession` fields that share
the echo row. A dispatch is an action. Text is `none`, `empty` or `text`;
buffers are reduced to modified / visits a file; `EditBuffer` stands for every
command that changes the modified flag. The exit sequence is complete: offers,
failed saves, refusals, abandonment.

`AgentPump` (extends both) — `pump.py` over the machine and the session. Events
are atomic, as the loop handles one at a time, but `receive` is split at its
passes (`pc`: drain, split, present), because the machine's state differs from
the state the effects were produced in. `spawn` may fail; the child may exit at
any moment between events. Prompts are numbered; `sent`, `dropped` and
`consents` are history variables.

`EventQueue`, `AgentIo` (extends it), `EventLoop` (extends that) — the threaded
half. A step of a thread runs between two points where another thread can be
seen: blocking calls, queue operations, the tests of the stop flag. `EventLoop`
adds `run_editor`, the pump's ownership of the child, `terminate` with its
grace period, the terminal's readers and the `finally` clause. What a key does
in the editor is reduced to: quits, or is a command that may spawn or write.

`AgentLife` — the abstract specification `EventLoop` implements: one child at a
time; its chunks arrive in order, none missing; then it is gone, once.

`LineEndings` — `files.py`: the detection of a file's line ending, what a visit
puts in the buffer and what a save writes back. Pure operators over texts.

`BufferEdit` (extends it) — one buffer and the commands on it. The variables are the fields
of `BufferValue` and `_BufferState` and the session's kill ring; a text is a
sequence of characters, positions count from 0. A dispatch is an action, its
bookkeeping after the `match` (undo filing, the three chain flags) included;
`Change` is the part every text-changing command shares, `Intervene` the reset
of the chains. A refused command is a disjunct of its own, since it must not
break a chain. `AppendAgentText` appends to a generated buffer at any moment.
`LeaveAndReturn` stands for a visit to another window or buffer: the chains
break, the kill ring may have a new head, and point is any position, mark none
or at point, as the entered window has its own. `disk` is the visited file and
`eol` the line ending found in it: a visit converts, a save converts back, the
commands see only what the buffer holds, stray CRs included. A failed write leaves
the file alone or damaged, since it is truncated first. The history
variables `past` and `future` record the texts each undo group came from and led
to (with agent output taken as always having been there), `run` what the kills in
a row took, `lastUndo` that nothing has happened since an undo.

`FrameLayout` — the arithmetic of `render_session`: how many windows are drawn,
which, in how many rows each, and the cursor's row. Pure operators.

`Windows` (extends it) — the buffers and windows of `EditorSession`, one action
per dispatch. A buffer is the length of its text, point, mark, path and kind; a
name is a base and a number, so that `_create_buffer`'s collision rule can be
stated. `Edit` is any change of the current buffer by a user command
(`BufferEdit` has the commands). `Commit` is the end of `dispatch`: the value is
written back and the focused window takes its point and mark. Prompts are left
out: `SwitchBuffer` and `OpenFile` are the accepted answer, together with the
command that opened the prompt.

`Envelopes` — `messages.py`: `to_json` and every check of `parse_message`, over
objects whose values are reduced to their JSON types. `TranscriptFold` —
`advance` over the kinds of effect, and what a reader expects of a whole
transcript, stated without a fold. `Wire` (extends both) — a child that writes
messages, invalid envelopes, blank lines and garbage and may die inside a line;
a pipe that hands over any number of bytes; the decoder, `receive` and the
delivery to an agent buffer. JSON text is two bytes, an opening and a closing
one, so that a chunk can end inside it.

`Harness` (extends `Minibuffer`) — bytes through `KeyAssembler`, `resolve` and
`EditorHarness.send` into the editor of `Minibuffer`, then echo, note and frame,
and the decision of `run_editor` to write the frame or not. Agent events and
resizes come between any two bytes. One input byte may yield two keys;
`keysDue` holds the second. `raw` and `inSequence` are history: what the bytes
are by the definition of a sequence, without an assembler.

`Minibuffer_proofs`, `AgentPump_proofs` (extends it and proves `AcpMachine` first),
`EventLoop_proofs`, `Harness_proofs` (extends
`Minibuffer_proofs`), `BufferEdit_proofs`, `Windows_proofs`, `Wire_proofs` — theorems
(section 5); `SequenceFacts` — what several of them need of naturals and sequences.
`MCParams` (payloads), `MCAgentPump`, `MCEventLoop`, `MCBufferEdit`, `MCHarness`, `MCWindows`, `MCWire` — instances
for TLC. Operators whose comment begins with "Mutant:" are deliberately wrong
variants of the definition that follows them; nothing uses them but the
experiments that replace a definition by its mutant to see its property fail.

## 3. Runs

| Run | Question | Size |
| --- | --- | --- |
| `harness` | Are the row and the exit safe under any bytes, requests and resizes; is what a key answers on the screen? | 18 byte values, 2 request ids, queue of 2, 3 buffers of which 2 visit files |
| `pump` | Do machine, pump and session agree, with an arbitrary peer and restarts? | 2 request ids, 2 payloads, 2 prompts, 2 children, deliveries of 2 effects |
| `pump_answers` | Is every permission request answered? | any peer, fair user, 2 ids |
| `pump_prompts` | Does every held prompt leave? | conforming child, fair child and user, 3 prompts |
| `loop` | Are the events a faithful life of one child at a time, and is none orphaned? | 2 children, 6 threads, 1 failure, 2 keys |
| `loop_live` | Are deaths noticed, and do threads end? | 1 child, fair scheduling |
| `resize` | Does the frame follow the terminal? | 3 sizes, 3 resizes, fair scheduling |
| `edit` | Do positions, undo, the modified flag, kills and yanks stay consistent over any sequence of commands and deliveries? | 4 characters, CR and newline among them, 3 files, ring of 2, undo history of 2, 1 typed and 1 foreign text; besides undo, save and quit 6 commands on the agent's buffer, 4 on an ordinary one |
| `windows` | Do buffers, windows and frame agree, and does the agent keep to its own buffers? | 3 buffers, 2 windows, texts of length 0 to 2, marks in the buffer named `*agent*`, frames of 3 and 7 rows |
| `wire` | Does every line arrive once and whole, and does every transcript read right? | 3 lines, up to two of them odd, 2 children, 2 agent buffers |

One further run on the `pump` instance, `stuck`, and one on that of
`harness`, `screen`, are expected to be violated (section 4).

Why the bounds are enough. Two ids, two payloads and a queue of two let a
request wait behind another, be replayed with a different payload and cross a
cancel; two prompts let one be held while one is in flight (three in
`pump_prompts`, so that one release follows another); two children let every
leftover of a first child meet the second; a batch of two effects lets an effect
be acted on after the machine has moved on. In `edit` four commands fill the
ring and the undo history past their capacity of two, or make two kills, a yank
and a pop; six leave room for deliveries, which only the agent's buffer
receives, and for visits elsewhere in between; the three files are one of each
kind `detect_line_ending` tells apart, and the foreign text is a CR, so that CRs come
into a buffer of either line ending; undo, redo, save and quit are not
counted, so they occur anywhere and any number of times. In `windows` two
windows on one buffer of three make a stored point stale, three buffers let the
user's, a file's and the agent's compete for a name, and the two heights are one
that hides a window and the smallest that splits; `MarkedBuffers`, the buffers in which
the user sets a mark, is the one name a buffer of the user's and the agent's can
both want; its windows may keep a mark after it moved or went. In `wire` three lines let a bad
one stand between two good ones, or two bad ones surround a good one, the two children let an unfinished line meet
the next child's first. The states of `harness` are finite without bounds on
time: only the queue and the parameters of one escape sequence are capped.
`MaxRequests` is at least
`MaxPrompts + 2`, so the id counter never stops the pump. `MaxBacklog` bounds the
peer: it sends no more before a session exists.

Fairness. `pump_answers` assumes the pump finishes an event it began (weak
fairness: the loop is one thread) and that a prompt shown again and again is at
last answered (strong fairness, since a delivery being handled disables the key
for a moment; keys ride the queue's priority lane, so deliveries cannot hold
them back). Nothing is assumed of the peer. `pump_prompts` adds a child that
answers its requests; without it no prompt need ever leave. The loop runs assume
only that the OS schedules every thread that can run. They assume nothing of the
child: in particular a write to a child that never reads may block its writer
until the pipe is closed. Keys are bounded, which is the assumption
`EventQueue` states for its asymmetric lanes: "a human cannot type
indefinitely".

Properties whose scope is narrower than it may seem: `NoOutputLost` excepts a
child whose pipe failed to read, `FrameFollowsTerminal` excepts the start-up
race that the `TerminalReaders` docstring owns and a watcher that died (the
loop is then ended by `fail`), `RequestsAnswered` ends with the editor,
`AutoApprovalNeedsConsent` allows for an answer whose option id a lasting option
repeats (section 4),
`CleanMeansSaved` allows for a file damaged by a failed
write, and claims that the file reads back as the buffer's text only while no CR is
in it, `ScreenIsFresh` excepts the message about an undefined key (section 4),
and nothing is claimed about requests a peer makes outside a turn, which the code
accepts (TD-16). `wire` may stop (`CHECK_DEADLOCK FALSE`): a child may fall
silent for good.

What the instances leave to the proofs, or out:

* `EscapesAreInert`: the run has one byte of each class the assembler tells
  apart and one parameter byte per sequence; `raw` begins anew where the assembler
  ends a sequence, and the theorem is for every alphabet.
* `CancelFindsNothing` is about `C-g` as `after_command` sees it, after the
  session handled the key.
* `HeldPromptsLeave` assumes a child that answers with results: after an error, or
  a bad `stopReason`, a held prompt may stay (section 4, `stuck`).
* `LifeImplemented`: the run has one chunk per child, which leaves the order of two
  chunks to the theorem. `DeathNoticed` assumes that a dead child's pipe ends;
  `ThreadsEnd` that every thread that can run is scheduled.
* `FrameFollowsTerminal`: once the start-up race has happened the exception
  stands for the rest of the run; that a later resize repairs the frame is not
  claimed.
* `BuffersStayApart`: the run has one ACP session, so two of them are told apart by
  the theorem only; `FrameShowsFocus`: the run has two windows, the theorem any number.
* `MessagesArriveWhole`: a bad line is one on which `json.loads` raises an error that
  `messages` catches. It may raise others (`ValueError` for an integer over Python's
  digit limit, `RecursionError`), which lose the results of the chunk's earlier
  lines (`src/drei/acp/codec.py:67-70`); such lines are not modelled.
* `TranscriptReadsRight` expects a new turn after `PromptCompleted` only, as plan 0011
  has it; the comment at `src/drei/acp/transcript.py:46-48` can be read to expect one
  after an error response too.

## 4. Where code and comments disagree

Two runs are expected to be violated; each property states what a comment or a
plan says.

* `stuck` — "Restore the phase so the machine is not stuck"
  (`src/drei/acp/machine.py:494`): a response with a bad `stopReason` leaves the
  phase at `PROMPT_IN_FLIGHT` with nothing in flight. Review 0002 (finding 3)
  describes it.
* `screen` — "`C-x z` echoes `C-x z is undefined`"
  (`docs/agent/plans/0019-echo-message-mechanism.md:294`): `send` renders the
  message and returns `None`, and `run_editor` skips the write for `None`,
  "Unresolved key: state did not change" (`src/drei/terminal.py:424-430`). The
  user sees the message only if a resize or an agent event happens to write the
  frame before the next command.

Behaviours met while modelling that no run is spent on:

* After an error response to `session/prompt` the prompts held during that turn
  stay held although the session is idle, until the user submits another; the
  comment at `src/drei/pump.py:237-238` says "before the session exists, or
  while a turn is in flight".
* Of `RET` at a permission prompt, `src/drei/session.py:1333` says "Broader scopes
  require their explicit keys (s / a)" (likewise `docs/knowledge/emacs-parity.md:114`).
  The session chooses the first `allow_once` option, and the machine reads the kind of
  the last option with the chosen id (`src/drei/acp/machine.py:416-434`). Where a
  payload repeats that id for a lasting option further down, `RET` and `y` fill the
  cache of auto-approvals, and so does `n` where a rejection shares its id. This is the
  exception in `AutoApprovalNeedsConsent`, and `ConsentNeeded` proves that it is the
  only one; one payload of the `pump` run repeats an id.
* `SystemFilePort.write` truncates the file first (`src/drei/files.py:161`); a
  write that then fails keeps `saved_text` (`src/drei/session.py:1854-1858`), and
  an undo back to that text shows the buffer as clean although the file no longer
  holds it. This is the `Damaged` case of `CleanMeansSaved`.
* In a buffer held with LF for a CRLF file, a CR that came in from elsewhere
  (a yank) is collapsed by the next save if it stands before a newline
  (`to_file_text`, `src/drei/files.py:124-129`): the buffer shows as clean with it and
  the file reads back without it. Anywhere else it is written, and makes the file one
  of mixed endings, which reads back with every CR. In a buffer of mixed endings, edits that leave only CRLF
  pairs are read back as LF. This is the CR case of `CleanMeansSaved`; the comment at
  `src/drei/files.py:128` owns the collapse.
* The comment in `send` that the note is "non-empty only while a minibuffer is
  open" (`src/drei/harness.py:149-151`) does not hold after
  `AbortPendingPermissions` closes a prompt that carries one; a permission
  request that opens before the next command then shows the leftover note.

## 5. Proofs

For every value of the constants, checked by TLAPS. The assumptions are those
of the modules: payloads are records whose options have a known kind (the
catch-all included), `None` values are distinct from real ones, bounds are
naturals; in `Wire`, what is said is one of the four dataclasses with their
annotated types, and a bad payload is one that `parse_message` refuses.

The machine, in the first part of `AgentPump_proofs`: `MachineCorrect` proves the inductive invariant
`MachineInv`, the conjunction of `MachineTypeOK`, `IdsAreFresh`,
`HandshakePhase`, `PendingTracked` and `PromptHasSession` (a `session/prompt`
in flight means there is a session). The last is the strengthening: an error
response to a prompt returns the machine to `SESSION_ACTIVE`, and without it
nothing says that a session exists then. One lemma per function shows that the
function preserves the invariant; the four properties follow. No run checks them
separately: the machine runs inside the `pump` runs.

`Minibuffer_proofs`: `UiCorrect` proves `UiInv`, the conjunction of the five
properties of `Minibuffer`, which is inductive as it stands: the exit
list is current only because the row is coherent (edits need a closed row), and
the queue lies behind an open row only because every closing action drains it.
One lemma per action.

`AgentPump_proofs`: `PumpCorrect` proves `PumpInv`: the invariants of the two
components, the pump's types, and four facts that tie the parts together.
`Stages`: the effects are dealt with before requests are presented, the
requests before the next event. `Handshake`: `NoStateError` and
`OneRequestInFlight`, with `OneInitialized` as strengthening, since the first
`session/new` would make a second `Initialized` a call out of phase. `Binding`:
in the middle of a delivery the transcript may lag behind the machine's session,
but only while the milestone is still among the effects. `NoneLost`: every
request the machine awaits an answer for is among the effects, among the
requests to present, queued, or on the row. One lemma per action; the lemmas of
the two component modules are cited for their half of the step. `NoStateError`,
`OneRequestInFlight`, `TranscriptFollowsSession` and `CancelFindsNothing` follow,
for any peer, any batch size and any number of prompts and children.

The second part of `AgentPump_proofs`: the way of a request to the user, over `PumpInv`.
`RequestInv` turns `NoneLost` into "exactly the requests in flight, each in one
place". `Tracked`: what is on the way is in flight, with the payload the machine
holds; `Distinct` and `Apart`: no id is twice at one station, nor at two. None of
the three is inductive alone. A request that arrives has an id that is not in
flight, so by `Tracked` it is nowhere on the way yet; an answer takes one request
from the row and one from the machine, and by `Distinct` and `Apart` nothing on
the way still carries its id. There is one lemma for each thing that happens to
the carriers (`NothingMoves`, `RowFreed`, ...), and the actions cite them.
`RequestsReachUser` and `PayloadsAgree` follow. `PromptsAccounted` is inductive
given `PumpInv`: the prompts sent and held are one line, and every step extends
it, moves the boundary in it, or moves its tail to the dropped ones.
`ConsentNeeded` proves `AutoApprovalNeedsConsent` for any payloads. Its core
is `FirstIdKind` and `CachingKeys`: the option the session picks from the front of
the list and the one the machine finds from its end are the same or the second
stands further down with the same id; so a lasting scope is selected by `s`, by
`a`, or through such an id.

`EventLoop_proofs`: `LoopCorrect` proves `LoopInv`. Its first part, `Base`, holds
throughout: types, and `Owned`, that whatever lives is the pump's `process` until
it is reaped and that a child not yet spawned left no trace. The second, `Stream`,
is what makes events without identity safe, and holds while the loop will handle
another event (`Looping`; after the last one the queue may hold anything).
`OneReader`: only the current child has a wire reader at work, and a reader past
reading has read all there was or failed. `ExitLast`: the chunks and exits in the
background lane are all the current child's, and an exit is the last of them and
its reader done; so when it is handled and the channel is closed, nothing of this
child is left that a successor could be given. `ChunksInOrder`: the chunks in
the lane are those sent and not yet heard, each once, in order. Each needs the
others: order alone does not say that nothing follows the exit, and that the
reader is done is what lets the next spawn start with an empty stream. The five
properties of the `loop` run follow: types, `EventsAreCurrent`, `NoOrphans`,
`NoOutputLost`, and by `LifeRefined` every step is a step of `AgentLife` or a
stutter, for any number of children, chunks, keys and failures.

`Harness_proofs`: `HarnessDrivesMinibuffer` proves that `Harness` implements
`Minibuffer` (`Spec => UiSpec`): every key, byte event and delivery is a step of
the editor as `Minibuffer` allows it or leaves the editor alone, so that its
five properties hold under the harness (`HarnessUiCorrect`). `HarnessInv` is about the
rest. `RawInv` says what the assembler has read by its state, `KeyInv` that
at most one key is due and then the last byte was in no sequence, `ViewInv` is
`ScreenIsFresh` without its restriction to moments when no key is due: the
restricted form is not inductive, since the second key of a byte acts on a screen
the first one left. `FeedShapes` is the four things a byte can do to a sequence
(begin or continue it, end it, cut it short, have none to do with), and
`KeysCompleted` what keys come of it: none, the key of the sequence, which
`SequenceKeysDoNothing` shows is bound nowhere, or keys of bytes that are by
definition in no sequence. `HarnessTypeOK`, `ScreenIsFresh` and the action
property `EscapesAreInert` follow, for every alphabet of bytes.

`BufferEdit_proofs`: `EditInvariant` proves `EditInv`. The heart is `UndoOK`:
both undo stacks, with the texts recorded for them, lead away from the present
text group by group (`StackFits`), and each group `Fits` the texts on its two
sides. A group fits when it is filed because putting the old slice back inverts
a splice (`SpliceInverse`), and it goes on fitting under agent output because a
splice and an append at the end do not meet (`SpliceAppend`); positions in a
group stay valid because both of its texts only grow. Undo and redo pop from one
stack and push onto the other. `FileOK` and `CleanOK` are the strengthening for
`CleanMeansSaved`: the file, unless it is damaged, holds what `to_file_text` makes of
the saved text, whether or not the buffer is clean now; `FileRestored` (a visited
file, saved as it is, is the file again) starts it and `TextReadsBack` (a text without
CRs that is saved reads back as itself) ends it, both by induction on the text. `KillOK` ties the kill flag to the head of the ring, `YankOK`
the bounds to the text between them, and `FlagsOK` says that an undo leaves the
session descending. One lemma per command, one for the shared change. The six
properties of the `edit` run follow, for every alphabet, text, ring and history
capacity and any number of commands.

`Windows_proofs`: `Invariance` proves `WindowsInv`, the properties of `Windows`
together with one fact they need: the buffers are finitely many. It is what makes
a free name exist (`FreshNameIsFree`, by counting: more numbers than
buffers), without which a new buffer could replace an old one and two
sessions share it. The points stored in unfocused windows are only naturals:
nothing ties them to their buffers' lengths, and `RestoredFacts` shows that the
clamp when focus arrives is enough. `RemoveFirstFacts` and `UsedFacts` are about
the recency list, `SplitFacts` about the windows after C-x 2. `LayoutShowsFocus`
is arithmetic only: how `render_session` divides any height of two or more among
any number of windows. One lemma per action; the six properties of the `windows`
run follow, the action property `PeersKeepOut` among them, for every set of names,
paths, sessions and heights and every bound.

`Wire_proofs`: a chunk of any length, a batch of any length and a transcript of
any length are inductions, and the library's induction theorems take an operator
these provers cannot instantiate. `NatSetInduction` of `SequenceFacts` replaces them: a set of
naturals that has 0 and every successor is all of them, by its least element.
`Iterate` and `Flatten...` turn the recursive functions of `FoldAfter` and
`FlattenSeq` into equations for one element more.

`TranscriptInv`: a buffer's text is the reading of its effects, and its fold
`Reads` them, that is, it says of the next effect what `FirstOfTurn` and
`StartsThought` would. The second part is the strengthening: the text alone does
not say whether a thought or a turn is open. `ReadsStep` is one effect,
`ReadsAfter` a delivery, and `TranscriptsReadRight` follows.

`StreamInv`: what was written, and what a dead child began, is what was written up
to the last line read, then the decoder's buffer, then the pipe; the buffer has no
newline; and only a dead child has begun a line. `TakesByte` moves one byte from
the pipe to the decoder: a byte inside a line changes nothing (`InTheMiddle`), a
newline must end the next line written (`AtTheNewline`, since bytes can be cut at
their first newline in one way, `CutAtNewline`), and `LineShape` says that its
line decodes to its outcome. `TakesChunk` is a chunk, by induction on its length.
`ExitStream` shows that with the pipe empty every line has been read, so that the
reset buffer holds nothing but what the dead child began; `MessagesArrive` follows.
`RoundTrip` (`to_json` and `parse_message` are inverse on well-formed messages) is
the lemma for a message's line.

Model-checked only: the liveness properties, which are outside the proof system's
reach. Every invariant and every action property of a passing run is a theorem.

## 6. Not modelled

The classification of file errors and base names (`files.py`), and lines on which
`json.loads` raises what the decoder does not catch. The record types of `commands.py` appear as actions
and effects. Start-up (`genesis.py`, `cli.py`) and the synchronous process port
(`process.py`) have no later step. Of rendering, clipping, caret notation and
columns; of the transcript, the wording of tool calls and plans; of the
terminal, raw mode, platform input and readiness markers. A terminal reader
thread that will not start, grandchildren that inherit the child's pipes, and
signals are left out of `EventLoop`. What the diagnostics buffer says is left
out; that it is a buffer of its own is part of `Windows`. Payload aliasing (TD-7)
is not modelled: payloads are values. `Windows` and `BufferEdit` are not composed:
`LeaveAndReturn` stands for the visit.

## 7. Plan

Order of work, most important first.

1. Done: `Permissions`, `AcpMachine`, `Minibuffer`, `AgentPump` with their
   runs; `EventQueue`, `AgentIo`, `EventLoop` against `AgentLife`;
   `BufferEdit`; the proofs of section 5.
2. Done: `Windows` with `FrameLayout`, `Wire` with `Envelopes` and
   `TranscriptFold`, `Harness`.
3. Done: proofs about `Windows`, the layout for every frame and any number of
   windows included.
4. Done: proofs about `EventLoop` with the refinement of `AgentLife`, the
   remaining invariants of `AgentPump`, and `Harness` with its refinement of
   `Minibuffer`.
5. Done: proofs about `Wire`: transcripts and messages, for chunks, batches and
   transcripts of any length.
