----------------------------- MODULE Minibuffer -----------------------------
(***************************************************************************)
(* The minibuffer of EditorSession (session.py): one echo row shared by    *)
(* the text prompts (C-x C-f, C-x b, C-c a), the choice prompts of agent   *)
(* permission requests and the questions of the exit sequence, with the    *)
(* queue of permission requests waiting for the row.  An action is one     *)
(* dispatch; keys reach it as harness.send routes them.                    *)
(*                                                                         *)
(* Buffers are reduced to what the exit sequence asks of them: whether     *)
(* each is modified and whether it visits a file.                          *)
(***************************************************************************)
EXTENDS Permissions, FiniteSets

CONSTANTS Buffers,       \* the buffers of the session
          FileBuffers,   \* those with a file_path
          NoRequest      \* Python's None where a request is expected

ASSUME BuffersAssumption == IsFiniteSet(Buffers) /\ FileBuffers \subseteq Buffers
ASSUME NoRequestAssumption == NoRequest \notin Request

VARIABLES minibuffer,        \* _minibuffer: None, "" or some text
          minibufferKind,    \* _minibuffer_kind
          choice,            \* _choice: the request being asked about
          permissionQueue,   \* _permission_queue
          exitPending,       \* _exit_pending: buffers still to be offered
          modified,          \* buffers with unsaved changes
          exited,            \* EditorExited was recorded
          confirmed          \* history: the last exit-anyway answer was y

promptVars == <<minibuffer, minibufferKind, choice, permissionQueue>>
uiVars == <<promptVars, exitPending, modified, exited, confirmed>>

TextKinds == {"find-file", "agent-prompt", "switch-buffer"}
ExitKinds == {"save-buffer", "exit-anyway"}

UiInit ==
    /\ minibuffer = "none"
    /\ minibufferKind = "none"
    /\ choice = NoRequest
    /\ permissionQueue = <<>>
    /\ exitPending = <<>>
    /\ modified = {}
    /\ exited = FALSE
    /\ confirmed = FALSE

Idle       == minibuffer = "none" /\ ~exited      \* keys go to the keymap
Choosing   == choice # NoRequest /\ ~exited
TextPrompt == /\ choice = NoRequest /\ minibuffer # "none"
              /\ minibufferKind \notin ExitKinds /\ ~exited
ExitPrompt == choice = NoRequest /\ minibufferKind \in ExitKinds /\ ~exited

-----------------------------------------------------------------------------
(* Choice prompts and the queue behind the row.                            *)

(* Mutant: only the id of the request is remembered.                       *)
OpenChoiceById(r) ==
    /\ choice' = r.id
    /\ minibuffer' = "empty"

OpenChoice(r) ==
    /\ choice' = r
    /\ minibuffer' = "empty"

(* Mutant: closing a prompt presents nothing.                              *)
DrainNothing ==
    /\ choice' = NoRequest
    /\ minibuffer' = "none"
    /\ UNCHANGED permissionQueue

(* The row has just been freed: present the next request, if any.          *)
DrainPermissionQueue ==
    IF permissionQueue # <<>>
      THEN /\ OpenChoice(Head(permissionQueue))
           /\ permissionQueue' = Tail(permissionQueue)
      ELSE /\ choice' = NoRequest
           /\ minibuffer' = "none"
           /\ UNCHANGED permissionQueue

CloseChoice == DrainPermissionQueue /\ UNCHANGED minibufferKind

(* The decision a key makes at the choice prompt.                          *)
Decision(key) ==
    CASE key = "RET" -> ChoiceAcceptDecision(choice.params)
      [] key = "C-g" -> Cancelled
      [] key \in Chars -> ChoiceKeyToDecision(choice.params, key)

(* PermissionDecided(choice.id, Decision(key)) goes out, the prompt closes. *)
DecidePermission(key) ==
    /\ Choosing
    /\ Decision(key) # NoDecision
    /\ CloseChoice
    /\ UNCHANGED <<exitPending, modified, exited, confirmed>>

(* Mutant: a request that finds a prompt open is swallowed.                *)
PromptPermissionSwallowed(r) ==
    /\ ~exited
    /\ IF minibuffer # "none" THEN UNCHANGED <<minibuffer, choice>> ELSE OpenChoice(r)
    /\ UNCHANGED <<permissionQueue, minibufferKind, exitPending, modified,
                   exited, confirmed>>

PromptPermission(r) ==
    /\ ~exited
    /\ IF minibuffer # "none"
         THEN /\ permissionQueue' = Append(permissionQueue, r)
              /\ UNCHANGED <<minibuffer, choice>>
         ELSE OpenChoice(r) /\ UNCHANGED permissionQueue
    /\ UNCHANGED <<minibufferKind, exitPending, modified, exited, confirmed>>

(* Text prompts are the user's and stay; the agent's prompts go.           *)
AbortPendingPermissions ==
    /\ permissionQueue' = <<>>
    /\ choice' = NoRequest
    /\ minibuffer' = IF choice # NoRequest THEN "none" ELSE minibuffer
    /\ UNCHANGED <<minibufferKind, exitPending, modified, exited, confirmed>>

-----------------------------------------------------------------------------
(* Text prompts.                                                           *)

(* FindFile, SwitchBuffer, PromptAgent.                                    *)
OpenTextPrompt(kind) ==
    /\ Idle
    /\ minibuffer' = "empty"
    /\ minibufferKind' = kind
    /\ UNCHANGED <<choice, permissionQueue, exitPending, modified, exited, confirmed>>

(* MinibufferInput and MinibufferBackspace: the text grows or shrinks.     *)
EditText ==
    /\ TextPrompt
    /\ \/ minibuffer' = "text"
       \/ minibuffer = "text" /\ minibuffer' = "empty"
    /\ UNCHANGED <<minibufferKind, choice, permissionQueue, exitPending,
                   modified, exited, confirmed>>

(* Mutant: the kind of the closed prompt is left behind.                   *)
CloseTextPromptKeepsKind ==
    /\ TextPrompt
    /\ DrainPermissionQueue
    /\ UNCHANGED <<minibufferKind, exitPending, modified, exited, confirmed>>

(* RET or C-g: the prompt is taken down, then the queue is drained.  What  *)
(* an accepted find-file or switch-buffer does modifies no buffer.         *)
CloseTextPrompt ==
    /\ TextPrompt
    /\ minibufferKind' = "none"
    /\ DrainPermissionQueue
    /\ UNCHANGED <<exitPending, modified, exited, confirmed>>

-----------------------------------------------------------------------------
(* The exit sequence.                                                      *)

ShowExitPrompt(kind) ==
    /\ minibuffer' = "empty"
    /\ minibufferKind' = kind

CloseExitPrompt ==
    /\ minibuffer' = "none"
    /\ minibufferKind' = "none"

(* Mutant: with nothing left to offer the run ends, unsaved work or not.   *)
AdvanceExitUngated(pending, mod) ==
    /\ exitPending' = pending
    /\ modified' = mod
    /\ \/ pending # <<>> /\ ShowExitPrompt("save-buffer") /\ UNCHANGED exited
       \/ pending = <<>> /\ CloseExitPrompt /\ exited' = TRUE
    /\ confirmed' = FALSE

(* Offer the next buffer, else ask about what is still modified, else end. *)
AdvanceExit(pending, mod) ==
    /\ exitPending' = pending
    /\ modified' = mod
    /\ \/ pending # <<>> /\ ShowExitPrompt("save-buffer") /\ UNCHANGED exited
       \/ pending = <<>> /\ mod # {} /\ ShowExitPrompt("exit-anyway")
                                     /\ UNCHANGED exited
       \/ pending = <<>> /\ mod = {} /\ CloseExitPrompt /\ exited' = TRUE
    /\ confirmed' = FALSE

(* C-x C-c.  The buffers are offered in creation order: any order here.    *)
BeginExit ==
    /\ Idle
    /\ \E s \in SetToSeqs(modified \cap FileBuffers) : AdvanceExit(s, modified)
    /\ UNCHANGED <<choice, permissionQueue>>

(* y at "Save file?": the write may fail, leaving the buffer modified.     *)
SaveOffered ==
    /\ ExitPrompt /\ minibufferKind = "save-buffer"
    /\ \E saved \in {{}, {Head(exitPending)}} :
           AdvanceExit(Tail(exitPending), modified \ saved)
    /\ UNCHANGED <<choice, permissionQueue>>

(* n at "Save file?".                                                      *)
DeclineOffered ==
    /\ ExitPrompt /\ minibufferKind = "save-buffer"
    /\ AdvanceExit(Tail(exitPending), modified)
    /\ UNCHANGED <<choice, permissionQueue>>

(* y at "exit anyway?".                                                    *)
ExitAnyway ==
    /\ ExitPrompt /\ minibufferKind = "exit-anyway"
    /\ CloseExitPrompt
    /\ exited' = TRUE
    /\ confirmed' = TRUE
    /\ UNCHANGED <<choice, permissionQueue, exitPending, modified>>

(* Mutant: the list of buffers to offer survives the abandoned exit.       *)
AbandonExitKeepsList ==
    /\ ExitPrompt
    /\ minibufferKind' = "none"
    /\ DrainPermissionQueue
    /\ UNCHANGED <<exitPending, modified, exited, confirmed>>

(* Mutant: an abandoned exit presents nothing.                             *)
AbandonExitNoDrain ==
    /\ ExitPrompt
    /\ exitPending' = <<>>
    /\ CloseExitPrompt
    /\ UNCHANGED <<choice, permissionQueue, modified, exited, confirmed>>

(* n at "exit anyway?", and C-g at either question: the exit is abandoned  *)
(* and the requests that queued behind it are presented.                   *)
AbandonExit ==
    /\ ExitPrompt
    /\ exitPending' = <<>>
    /\ minibufferKind' = "none"
    /\ DrainPermissionQueue
    /\ UNCHANGED <<modified, exited, confirmed>>

-----------------------------------------------------------------------------
(* Every other command that can change whether a buffer is modified: edits *)
(* set the flag, a save or an undo back to the saved text clears it.       *)
EditBuffer(b) ==
    /\ Idle
    /\ modified' \in {modified \cup {b}, modified \ {b}}
    /\ UNCHANGED <<promptVars, exitPending, exited, confirmed>>

(* The key strokes that concern the editor alone.                          *)
ExitAnswer ==
    \/ SaveOffered
    \/ DeclineOffered
    \/ ExitAnyway
    \/ AbandonExit

EditorStep ==
    \/ \E k \in TextKinds : OpenTextPrompt(k)
    \/ EditText
    \/ BeginExit
    \/ ExitAnswer
    \/ \E b \in Buffers : EditBuffer(b)

Keys == Chars \cup {"RET", "C-g"}

(* The minibuffer under any user and any stream of requests.               *)
CONSTANT MaxQueue        \* bound: requests waiting behind the row

UiNext ==
    \/ EditorStep
    \/ CloseTextPrompt
    \/ \E k \in Keys : DecidePermission(k)
    \/ Len(permissionQueue) < MaxQueue /\ \E r \in Request : PromptPermission(r)
    \/ AbortPendingPermissions /\ ~exited
    \/ exited /\ UNCHANGED uiVars

UiSpec == UiInit /\ [][UiNext]_uiVars

-----------------------------------------------------------------------------
(* Type invariant.                                                         *)
UiTypeOK ==
    /\ minibuffer \in {"none", "empty", "text"}
    /\ minibufferKind \in TextKinds \cup ExitKinds \cup {"none"}
    /\ choice \in Request \cup {NoRequest}
    /\ permissionQueue \in Seq(Request)
    /\ exitPending \in Seq(Buffers)
    /\ modified \subseteq Buffers
    /\ exited \in BOOLEAN
    /\ confirmed \in BOOLEAN

(* The four fields that share the echo row never disagree: a choice prompt *)
(* is open with no text and no kind left over from another prompt, a kind  *)
(* is set only while its own prompt is up, and an open row is one or the   *)
(* other (session.py _open_choice, which leaves the kind alone, and every  *)
(* path that closes a prompt).                                             *)
RowIsCoherent ==
    /\ choice # NoRequest => minibuffer = "empty" /\ minibufferKind = "none"
    /\ minibufferKind # "none" => minibuffer # "none"
    /\ minibuffer # "none" => (choice # NoRequest <=> minibufferKind = "none")
    /\ minibufferKind \in ExitKinds => minibuffer = "empty"

(* "queue, never swallow": a request waits only behind an open prompt, so  *)
(* some key always brings it up; a request left queued behind a closed row *)
(* would hang the agent for the rest of the run.                           *)
QueueBehindPrompt ==
    permissionQueue # <<>> => minibuffer # "none" \/ exited

(* The exit sequence works from a list taken when it began; no delivery or *)
(* key makes that list stale: each buffer still to be offered is modified, *)
(* visits a file and is offered once, and the list is nonempty exactly     *)
(* while a buffer is being offered.                                        *)
OffersAreCurrent ==
    /\ minibufferKind = "save-buffer" <=> exitPending # <<>>
    /\ \A i \in DOMAIN exitPending : exitPending[i] \in modified \cap FileBuffers
    /\ \A i, j \in DOMAIN exitPending : exitPending[i] = exitPending[j] => i = j

(* The run ends only with every buffer saved, or after an explicit y to    *)
(* "Modified buffers exist; exit anyway?", whatever writes failed on the   *)
(* way (session.py _advance_exit, _exit_prompt_key).                       *)
ExitKeepsWork == exited => modified = {} \/ confirmed

=============================================================================
