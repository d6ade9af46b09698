------------------------- MODULE Minibuffer_proofs -------------------------
(***************************************************************************)
(* The invariants of the echo row, for every finite set of buffers, every  *)
(* set of requests and every length of the permission queue.  There is one *)
(* lemma per dispatch, for the modules that compose the row with the pump. *)
(***************************************************************************)
EXTENDS Minibuffer, FiniteSetTheorems, SequenceTheorems, TLAPS

(* The parts are inductive together only.  Draining the queue into the row *)
(* keeps RowIsCoherent because whoever drains has cleared the kind, and an *)
(* edit keeps OffersAreCurrent because RowIsCoherent says that no offer is *)
(* outstanding while keys go to the keymap.                                *)
UiInv ==
    /\ UiTypeOK
    /\ RowIsCoherent
    /\ QueueBehindPrompt
    /\ OffersAreCurrent
    /\ ExitKeepsWork

LEMMA UiInitInv == UiInit => UiInv
  <1> SUFFICES ASSUME UiInit PROVE UiInv
    OBVIOUS
  <1>1. UiTypeOK
    <2>1. permissionQueue \in Seq(Request) /\ exitPending \in Seq(Buffers)
      BY EmptySeq DEF UiInit
    <2> QED
      BY <2>1 DEF UiInit, UiTypeOK
  <1>2. RowIsCoherent /\ QueueBehindPrompt /\ OffersAreCurrent /\ ExitKeepsWork
    BY DEF UiInit, RowIsCoherent, QueueBehindPrompt, OffersAreCurrent,
           ExitKeepsWork, ExitKinds
  <1> QED
    BY <1>1, <1>2 DEF UiInv

LEMMA UnchangedUiInv == UiInv /\ UNCHANGED uiVars => UiInv'
  BY DEF uiVars, promptVars, UiInv, UiTypeOK, RowIsCoherent,
         QueueBehindPrompt, OffersAreCurrent, ExitKeepsWork

-----------------------------------------------------------------------------
(* Choice prompts and the queue.                                           *)

(* A step that frees the row, drains the queue and touches nothing else of *)
(* the exit sequence.                                                      *)
LEMMA DrainInv ==
    ASSUME UiInv, ~exited, DrainPermissionQueue, minibufferKind' = "none",
           minibufferKind # "save-buffer",
           UNCHANGED <<exitPending, modified, exited, confirmed>>
    PROVE  UiInv'
  <1>1. CASE permissionQueue # <<>>
    <2>1. /\ choice' = Head(permissionQueue) /\ choice' \in Request
          /\ minibuffer' = "empty"
          /\ permissionQueue' \in Seq(Request)
      BY <1>1 DEF DrainPermissionQueue, OpenChoice, UiInv, UiTypeOK
    <2> QED
      BY <2>1, NoRequestAssumption
      DEF UiInv, UiTypeOK, RowIsCoherent, QueueBehindPrompt,
          OffersAreCurrent, ExitKeepsWork, ExitKinds, TextKinds
  <1>2. CASE permissionQueue = <<>>
    BY <1>2
    DEF DrainPermissionQueue, UiInv, UiTypeOK, RowIsCoherent,
        QueueBehindPrompt, OffersAreCurrent, ExitKeepsWork, ExitKinds, TextKinds
  <1> QED
    BY <1>1, <1>2

LEMMA DecidePermissionInv ==
    ASSUME UiInv, NEW key, DecidePermission(key)
    PROVE  UiInv'
  BY DrainInv DEF DecidePermission, Choosing, CloseChoice, UiInv, RowIsCoherent

LEMMA PromptPermissionInv ==
    ASSUME UiInv, NEW r \in Request, PromptPermission(r)
    PROVE  UiInv'
  <1>1. CASE minibuffer # "none"
    BY <1>1 DEF PromptPermission, UiInv, UiTypeOK, RowIsCoherent,
                QueueBehindPrompt, OffersAreCurrent, ExitKeepsWork
  <1>2. CASE minibuffer = "none"
    BY <1>2, NoRequestAssumption
    DEF PromptPermission, OpenChoice, UiInv, UiTypeOK, RowIsCoherent,
        QueueBehindPrompt, OffersAreCurrent, ExitKeepsWork, ExitKinds
  <1> QED
    BY <1>1, <1>2

LEMMA AbortPendingPermissionsInv ==
    UiInv /\ AbortPendingPermissions => UiInv'
  <1> SUFFICES ASSUME UiInv, AbortPendingPermissions PROVE UiInv'
    OBVIOUS
  <1>1. UiTypeOK' /\ QueueBehindPrompt'
    BY DEF AbortPendingPermissions, UiInv, UiTypeOK, QueueBehindPrompt
  <1>2. RowIsCoherent'
    BY DEF AbortPendingPermissions, UiInv, RowIsCoherent, ExitKinds
  <1>3. OffersAreCurrent' /\ ExitKeepsWork'
    BY DEF AbortPendingPermissions, UiInv, OffersAreCurrent, ExitKeepsWork
  <1> QED
    BY <1>1, <1>2, <1>3 DEF UiInv

-----------------------------------------------------------------------------
(* Text prompts and edits.                                                 *)

LEMMA OpenTextPromptInv ==
    ASSUME UiInv, NEW kind \in TextKinds, OpenTextPrompt(kind)
    PROVE  UiInv'
  BY DEF OpenTextPrompt, Idle, UiInv, UiTypeOK, RowIsCoherent,
         QueueBehindPrompt, OffersAreCurrent, ExitKeepsWork, TextKinds, ExitKinds

LEMMA EditTextInv == UiInv /\ EditText => UiInv'
  BY DEF EditText, TextPrompt, UiInv, UiTypeOK, RowIsCoherent,
         QueueBehindPrompt, OffersAreCurrent, ExitKeepsWork, ExitKinds

LEMMA CloseTextPromptInv == UiInv /\ CloseTextPrompt => UiInv'
  BY DrainInv DEF CloseTextPrompt, TextPrompt, ExitKinds

LEMMA EditBufferInv ==
    ASSUME UiInv, NEW b \in Buffers, EditBuffer(b)
    PROVE  UiInv'
  <1>1. exitPending = <<>> /\ minibufferKind = "none"
    BY DEF EditBuffer, Idle, UiInv, RowIsCoherent, OffersAreCurrent
  <1> QED
    BY <1>1
    DEF EditBuffer, Idle, promptVars, UiInv, UiTypeOK, RowIsCoherent,
        QueueBehindPrompt, OffersAreCurrent, ExitKeepsWork

-----------------------------------------------------------------------------
(* The exit sequence.                                                      *)

(* A list of offers that is current stays so in the step that shows it.    *)
LEMMA AdvanceExitInv ==
    ASSUME UiInv, ~exited, choice = NoRequest,
           permissionQueue = <<>> \/ minibuffer # "none",
           NEW pending \in Seq(Buffers), NEW mod \in SUBSET Buffers,
           \A i \in DOMAIN pending : pending[i] \in mod \cap FileBuffers,
           \A i, j \in DOMAIN pending : pending[i] = pending[j] => i = j,
           AdvanceExit(pending, mod), UNCHANGED <<choice, permissionQueue>>
    PROVE  UiInv'
  <1>1. UiTypeOK'
    BY DEF AdvanceExit, ShowExitPrompt, CloseExitPrompt, UiInv, UiTypeOK,
           ExitKinds
  <1>2. RowIsCoherent' /\ ExitKeepsWork'
    BY DEF AdvanceExit, ShowExitPrompt, CloseExitPrompt, UiInv,
           RowIsCoherent, ExitKeepsWork, ExitKinds
  <1>3. QueueBehindPrompt' /\ OffersAreCurrent'
    BY DEF AdvanceExit, ShowExitPrompt, CloseExitPrompt, UiInv,
           QueueBehindPrompt, OffersAreCurrent
  <1> QED
    BY <1>1, <1>2, <1>3 DEF UiInv

LEMMA BeginExitInv == UiInv /\ BeginExit => UiInv'
  <1> SUFFICES ASSUME UiInv, BeginExit PROVE UiInv'
    OBVIOUS
  <1> DEFINE offers == modified \cap FileBuffers
  <1>1. Cardinality(offers) \in Nat
    BY BuffersAssumption, FS_Subset, FS_CardinalityType
  <1>2. PICK s \in SetToSeqs(offers) : AdvanceExit(s, modified)
    BY DEF BeginExit
  <1>3. /\ s \in [1..Cardinality(offers) -> offers]
        /\ \A i, j \in DOMAIN s : s[i] = s[j] => i = j
    BY <1>2 DEF SetToSeqs
  <1>4. s \in Seq(Buffers) /\ \A i \in DOMAIN s : s[i] \in offers
    <2>1. s \in [1..Cardinality(offers) -> Buffers]
      BY <1>3, BuffersAssumption
    <2>2. s \in Seq(Buffers)
      <3>1. \E n \in Nat : s \in [1..n -> Buffers]
        BY <1>1, <2>1
      <3> QED
        BY <3>1, SeqDef, Zenon
    <2> QED
      BY <1>3, <2>2
  <1>5. choice = NoRequest /\ permissionQueue = <<>> /\ ~exited
    BY DEF BeginExit, Idle, UiInv, RowIsCoherent, QueueBehindPrompt
  <1>6. modified \subseteq Buffers /\ UNCHANGED <<choice, permissionQueue>>
    BY DEF BeginExit, UiInv, UiTypeOK
  <1> QED
    BY <1>2, <1>3, <1>4, <1>5, <1>6, AdvanceExitInv

(* The rest of a current list is current once its head has been dealt with. *)
LEMMA RestIsCurrent ==
    ASSUME UiInv, minibufferKind = "save-buffer",
           NEW saved \in {{}, {Head(exitPending)}}
    PROVE  /\ exitPending # <<>>
           /\ Tail(exitPending) \in Seq(Buffers)
           /\ modified \ saved \in SUBSET Buffers
           /\ \A i \in DOMAIN Tail(exitPending) :
                  Tail(exitPending)[i] \in (modified \ saved) \cap FileBuffers
           /\ \A i, j \in DOMAIN Tail(exitPending) :
                  Tail(exitPending)[i] = Tail(exitPending)[j] => i = j
  <1>1. exitPending \in Seq(Buffers) /\ exitPending # <<>>
    BY DEF UiInv, UiTypeOK, OffersAreCurrent
  <1>2. /\ Tail(exitPending) \in Seq(Buffers)
        /\ Head(exitPending) = exitPending[1] /\ 1 \in DOMAIN exitPending
        /\ \A i \in DOMAIN Tail(exitPending) :
               /\ i + 1 \in DOMAIN exitPending /\ i \in Nat /\ i + 1 # 1
               /\ Tail(exitPending)[i] = exitPending[i + 1]
    BY <1>1
  <1>3. \A i \in DOMAIN exitPending : exitPending[i] \in modified \cap FileBuffers
    BY DEF UiInv, OffersAreCurrent
  <1>4. \A i, j \in DOMAIN exitPending : exitPending[i] = exitPending[j] => i = j
    BY DEF UiInv, OffersAreCurrent
  <1>5. \A i \in DOMAIN Tail(exitPending) :
            Tail(exitPending)[i] \in (modified \ saved) \cap FileBuffers
    BY <1>2, <1>3, <1>4
  <1>6. \A i, j \in DOMAIN Tail(exitPending) :
            Tail(exitPending)[i] = Tail(exitPending)[j] => i = j
    BY <1>2, <1>4
  <1> QED
    BY <1>1, <1>2, <1>5, <1>6 DEF UiInv, UiTypeOK

LEMMA ExitAnswerInv == UiInv /\ ExitAnswer => UiInv'
  <1> SUFFICES ASSUME UiInv, ExitAnswer PROVE UiInv'
    OBVIOUS
  <1>1. CASE SaveOffered
    <2>1. /\ ~exited /\ choice = NoRequest /\ minibuffer # "none"
          /\ minibufferKind = "save-buffer"
          /\ UNCHANGED <<choice, permissionQueue>>
      BY <1>1 DEF SaveOffered, ExitPrompt, UiInv, RowIsCoherent
    <2>2. PICK saved \in {{}, {Head(exitPending)}} :
              AdvanceExit(Tail(exitPending), modified \ saved)
      BY <1>1 DEF SaveOffered
    <2> QED
      BY <2>1, <2>2, RestIsCurrent, AdvanceExitInv
  <1>2. CASE DeclineOffered
    <2>1. /\ ~exited /\ choice = NoRequest /\ minibuffer # "none"
          /\ minibufferKind = "save-buffer"
          /\ UNCHANGED <<choice, permissionQueue>>
          /\ AdvanceExit(Tail(exitPending), modified \ {})
      BY <1>2 DEF DeclineOffered, ExitPrompt, UiInv, RowIsCoherent
    <2> QED
      BY <2>1, RestIsCurrent, AdvanceExitInv
  <1>3. CASE ExitAnyway
    BY <1>3
    DEF ExitAnyway, ExitPrompt, CloseExitPrompt, UiInv, UiTypeOK,
        RowIsCoherent, QueueBehindPrompt, OffersAreCurrent, ExitKeepsWork, ExitKinds
  <1>4. CASE AbandonExit
    <2>1. CASE permissionQueue # <<>>
      <3>1. /\ choice' \in Request /\ minibuffer' = "empty"
            /\ permissionQueue' \in Seq(Request)
        BY <1>4, <2>1 DEF AbandonExit, DrainPermissionQueue, OpenChoice, UiInv, UiTypeOK
      <3> QED
        BY <1>4, <3>1, NoRequestAssumption
        DEF AbandonExit, UiInv, UiTypeOK, RowIsCoherent, QueueBehindPrompt,
            OffersAreCurrent, ExitKeepsWork, ExitKinds, TextKinds
    <2>2. CASE permissionQueue = <<>>
      BY <1>4, <2>2
      DEF AbandonExit, DrainPermissionQueue, UiInv, UiTypeOK, RowIsCoherent,
          QueueBehindPrompt, OffersAreCurrent, ExitKeepsWork, ExitKinds, TextKinds
    <2> QED
      BY <2>1, <2>2
  <1> QED
    BY <1>1, <1>2, <1>3, <1>4 DEF ExitAnswer

-----------------------------------------------------------------------------
LEMMA EditorStepInv == UiInv /\ EditorStep => UiInv'
  BY OpenTextPromptInv, EditTextInv, BeginExitInv, ExitAnswerInv, EditBufferInv
  DEF EditorStep

LEMMA UiNextInv == UiInv /\ [UiNext]_uiVars => UiInv'
  <1> SUFFICES ASSUME UiInv, [UiNext]_uiVars PROVE UiInv'
    OBVIOUS
  <1>1. CASE EditorStep
    BY <1>1, EditorStepInv
  <1>2. CASE CloseTextPrompt
    BY <1>2, CloseTextPromptInv
  <1>3. ASSUME NEW k \in Keys, DecidePermission(k)
        PROVE  UiInv'
    BY <1>3, DecidePermissionInv
  <1>4. ASSUME NEW r \in Request, PromptPermission(r)
        PROVE  UiInv'
    BY <1>4, PromptPermissionInv
  <1>5. CASE AbortPendingPermissions
    BY <1>5, AbortPendingPermissionsInv
  <1>6. CASE UNCHANGED uiVars
    BY <1>6, UnchangedUiInv
  <1> QED
    BY <1>1, <1>2, <1>3, <1>4, <1>5, <1>6 DEF UiNext

(* The echo row keeps its inductive invariant under any keys and requests. *)
THEOREM UiCorrect == UiSpec => []UiInv
  <1>1. UiInit => UiInv
    BY UiInitInv
  <1>2. UiInv /\ [UiNext]_uiVars => UiInv'
    BY UiNextInv
  <1> QED
    BY <1>1, <1>2, PTL DEF UiSpec

(* The fields that share the echo row never disagree.                      *)
THEOREM UiRowCoherent == UiSpec => []RowIsCoherent
  <1>1. UiInv => RowIsCoherent
    BY DEF UiInv
  <1> QED
    BY <1>1, UiCorrect, PTL

(* "queue, never swallow": a request waits only behind an open prompt.     *)
THEOREM UiQueueBehindPrompt == UiSpec => []QueueBehindPrompt
  <1>1. UiInv => QueueBehindPrompt
    BY DEF UiInv
  <1> QED
    BY <1>1, UiCorrect, PTL

(* The list of buffers the exit sequence works from is never stale.        *)
THEOREM UiOffersCurrent == UiSpec => []OffersAreCurrent
  <1>1. UiInv => OffersAreCurrent
    BY DEF UiInv
  <1> QED
    BY <1>1, UiCorrect, PTL

(* No run ends with unsaved work the user did not agree to lose.           *)
THEOREM UiExitKeepsWork == UiSpec => []ExitKeepsWork
  <1>1. UiInv => ExitKeepsWork
    BY DEF UiInv
  <1> QED
    BY <1>1, UiCorrect, PTL

=============================================================================
