------------------------------ MODULE AgentPump ------------------------------
(***************************************************************************)
(* The pump (pump.py) between the protocol machine, the editor session and *)
(* the agent's child process, with the user and the child as environment.  *)
(* run_editor handles one event at a time, so an event is atomic; only     *)
(* `receive`, whose order of work is the delicate part, is split into its  *)
(* steps: every frame of the delivery is folded through the machine first  *)
(* ("drain"), then the effects are acted on in order ("split"), then the   *)
(* permission requests are presented ("present"), then a held prompt may   *)
(* go out.  Nothing else runs while pc is not "idle".                      *)
(*                                                                         *)
(* The peer is arbitrary: a delivery may carry any frames in any order.    *)
(* Prompts are numbered in the order the user submitted them.              *)
(***************************************************************************)
EXTENDS AcpMachine, Minibuffer

CONSTANTS MaxPrompts,    \* bound: prompts the user submits
          MaxSpawns,     \* bound: children started
          MaxBatch,      \* bound: effects of one delivery
          MaxBacklog,    \* bound: effects held before the transcript exists
          Conforming     \* TRUE: the child answers with results it should

ASSUME BoundsAssumption ==
    /\ MaxPrompts \in Nat /\ MaxSpawns \in Nat
    /\ MaxBatch \in Nat /\ MaxBacklog \in Nat
    /\ MaxRequests >= MaxPrompts + 2
    /\ Conforming \in BOOLEAN

VARIABLES child,            \* _process is not None
          pc,               \* where the pump is inside receive
          effects,          \* receive's local list, not yet split
          deliverable,      \* _apply's local list
          requests,         \* _apply's local list, requests not yet presented
          completed,        \* _apply: a PromptCompleted was among the effects
          pendingPrompts,   \* _pending_prompts
          transcript,       \* _transcript: the session whose buffer is bound
          backlog,          \* _backlog
          spawns,           \* children started so far
          submitted,        \* history: prompts submitted so far
          sent,             \* history: prompts put on the wire, in order
          dropped,          \* history: prompts reported as dropped
          consents          \* history: what the user may have granted for longer

pumpVars == <<child, pc, effects, deliverable, requests, completed, pendingPrompts,
              transcript, backlog, spawns>>
historyVars == <<submitted, sent, dropped, consents>>
vars == <<machineVars, uiVars, pumpVars, historyVars>>

Init ==
    /\ MachineInit
    /\ UiInit
    /\ child = FALSE
    /\ pc = "idle"
    /\ effects = <<>>
    /\ deliverable = <<>>
    /\ requests = <<>>
    /\ completed = FALSE
    /\ pendingPrompts = <<>>
    /\ transcript = NoSession
    /\ backlog = <<>>
    /\ spawns = 0
    /\ submitted = 0
    /\ sent = <<>>
    /\ dropped = {}
    /\ consents = {}

Waiting == pc = "idle" /\ ~exited      \* run_editor is at next_event

-----------------------------------------------------------------------------
(* Helpers of the pump.                                                    *)

(* Mutant: the newest held prompt goes out first.                          *)
SendNewest(q) ==
    IF q # <<>> /\ phase = "SESSION_ACTIVE"
      THEN /\ Prompt
           /\ sent' = Append(sent, Last(q))
           /\ pendingPrompts' = Front(q)
      ELSE /\ pendingPrompts' = q
           /\ UNCHANGED <<machineVars, sent>>

(* _send_pending over the held prompts q: the oldest goes out if it can.   *)
SendPending(q) ==
    IF q # <<>> /\ phase = "SESSION_ACTIVE"
      THEN /\ Prompt
           /\ sent' = Append(sent, Head(q))
           /\ pendingPrompts' = Tail(q)
      ELSE /\ pendingPrompts' = q
           /\ UNCHANGED <<machineVars, sent>>

(* _deliver: into the transcript if there is one, else held back.          *)
Deliver(effs) ==
    backlog' = IF transcript = NoSession THEN backlog \o effs ELSE backlog

-----------------------------------------------------------------------------
(* User events: harness.send, then pump.after_command.                     *)

(* Keys whose outcome carries nothing for the pump.                        *)
EditorKey ==
    /\ Waiting
    /\ EditorStep
    /\ UNCHANGED <<machineVars, pumpVars, historyVars>>

(* C-g at any text prompt; RET at one that submits nothing to the agent.   *)
DismissPrompt ==
    /\ Waiting
    /\ CloseTextPrompt
    /\ UNCHANGED <<machineVars, pumpVars, historyVars>>

(* RET at an agent prompt with text in it: AgentPromptSubmitted.           *)
SubmitText ==
    /\ Waiting
    /\ minibufferKind = "agent-prompt" /\ minibuffer = "text"
    /\ CloseTextPrompt
    /\ submitted < MaxPrompts
    /\ submitted' = submitted + 1

(* submit, with a child running.                                           *)
SubmitPrompt ==
    /\ SubmitText
    /\ child
    /\ SendPending(Append(pendingPrompts, submitted + 1))
    /\ UNCHANGED <<child, pc, effects, deliverable, requests, completed, transcript,
                   backlog, spawns, dropped, consents>>

(* submit, spawning the child first: the handshake starts and the prompt   *)
(* is held (the phase is INITIALIZING, so _send_pending leaves it).        *)
SubmitAndSpawn ==
    /\ SubmitText
    /\ ~child
    /\ spawns < MaxSpawns
    /\ spawns' = spawns + 1
    /\ child' = TRUE
    /\ Start
    /\ pendingPrompts' = Append(pendingPrompts, submitted + 1)
    /\ UNCHANGED <<pc, effects, deliverable, requests, completed, transcript, backlog,
                   sent, dropped, consents>>

(* submit, when the spawn raises OSError: logged, and the prompt is gone.  *)
SubmitSpawnFails ==
    /\ SubmitText
    /\ ~child
    /\ dropped' = dropped \cup {submitted + 1}
    /\ UNCHANGED <<machineVars, pumpVars, sent, consents>>

(* The chosen id is one option's and, further down, a lasting one's too.   *)
SharedWithLasting(p, d) ==
    d.type = "selected" /\ \E i, j \in DOMAIN p.options :
        /\ i < j /\ p.options[i].id = d.option /\ p.options[j].id = d.option
        /\ p.options[i].kind \notin CacheableKinds
        /\ p.options[j].kind \in CacheableKinds

(* History: what the answer may have granted for longer than once.         *)
Consents(p, key) ==
    {i \in {PermissionIdentity(p)} :
        key \in {"s", "a"} \/ SharedWithLasting(p, Decision(key))}

(* A key answers the open choice prompt: PermissionDecided.  A request the *)
(* machine no longer tracks becomes a ProtocolError line.                  *)
AnswerPermission(key) ==
    /\ Waiting
    /\ DecidePermission(key)
    /\ LET r == choice.id
           d == Decision(key)
       IN IF r \in incoming
            THEN /\ ResolvePermission(r, d)
                 /\ Deliver(<<PermissionResolved(r, Granted(requestParams[r], d))>>)
            ELSE /\ Deliver(<<ProtocolError>>)
                 /\ UNCHANGED machineVars
    /\ consents' = consents \cup Consents(choice.params, key)
    /\ UNCHANGED <<child, pc, effects, deliverable, requests, completed, pendingPrompts,
                   transcript, spawns, submitted, sent, dropped>>

(* C-g with no prompt open, while a turn is in flight: the turn is         *)
(* cancelled.  Anywhere else C-g concerns the buffer's mark only.          *)
KeyboardQuit ==
    /\ Waiting
    /\ Idle
    /\ Cancel
    /\ AbortPendingPermissions
    /\ UNCHANGED <<pumpVars, historyVars>>

-----------------------------------------------------------------------------
(* Agent events.                                                           *)

(* AgentBytes for a live child.                                            *)
BeginReceive ==
    /\ Waiting
    /\ child
    /\ pc' = "drain"
    /\ UNCHANGED <<machineVars, uiVars, child, effects, deliverable, requests, completed,
                   pendingPrompts, transcript, backlog, spawns, historyVars>>

(* A conforming child sends results, and nothing out of place; any other   *)
(* child may send anything.                                                *)
Sendable(f) ==
    Conforming => /\ f.type = "response" => f.status = "ok"
                  /\ Effects(f) # <<ProtocolError>>

Room == Len(effects) < MaxBatch /\ Len(effects) + Len(backlog) < MaxBacklog

DrainFrame(f) ==
    /\ pc = "drain"
    /\ Room
    /\ Sendable(f)
    /\ Handle(f)
    /\ effects' = effects \o Effects(f)
    /\ UNCHANGED <<uiVars, child, pc, deliverable, requests, completed, pendingPrompts,
                   transcript, backlog, spawns, historyVars>>

(* A line that is not JSON, or JSON that is no JSON-RPC envelope.          *)
DrainGarbage ==
    /\ pc = "drain"
    /\ Room
    /\ ~Conforming
    /\ effects' = Append(effects, ProtocolError)
    /\ UNCHANGED <<machineVars, uiVars, child, pc, deliverable, requests, completed,
                   pendingPrompts, transcript, backlog, spawns, historyVars>>

EndDrain ==
    /\ pc = "drain"
    /\ pc' = "split"
    /\ UNCHANGED <<machineVars, uiVars, child, effects, deliverable, requests, completed,
                   pendingPrompts, transcript, backlog, spawns, historyVars>>

NextEffect(type) ==
    /\ pc = "split"
    /\ effects # <<>>
    /\ Head(effects).type = type
    /\ effects' = Tail(effects)

(* The handshake continues.                                                *)
SplitInitialized ==
    /\ NextEffect("Initialized")
    /\ NewSession
    /\ consents' = {}
    /\ UNCHANGED <<uiVars, child, pc, deliverable, requests, completed, pendingPrompts,
                   transcript, backlog, spawns, submitted, sent, dropped>>

(* _bind: the transcript exists; what was held goes into it, and the       *)
(* oldest held prompt goes out.                                            *)
SplitEstablished ==
    /\ NextEffect("SessionEstablished")
    /\ transcript' = Head(effects).session
    /\ backlog' = <<>>
    /\ SendPending(pendingPrompts)
    /\ UNCHANGED <<uiVars, child, pc, deliverable, requests, completed, spawns,
                   submitted, dropped, consents>>

OtherEffects == {"TurnOutput", "PromptCompleted", "ProtocolError",
                 "PermissionRequested", "PermissionResolved"}

(* Mutant: the effect, not the request it carries, is presented.           *)
SplitOtherWrapped ==
    /\ \E type \in OtherEffects : NextEffect(type)
    /\ deliverable' = Append(deliverable, Head(effects))
    /\ requests' = IF Head(effects).type = "PermissionRequested"
                     THEN Append(requests, Head(effects)) ELSE requests
    /\ completed' = (completed \/ Head(effects).type = "PromptCompleted")
    /\ UNCHANGED <<machineVars, uiVars, child, pc, pendingPrompts, transcript,
                   backlog, spawns, historyVars>>

SplitOther ==
    /\ \E type \in OtherEffects : NextEffect(type)
    /\ deliverable' = Append(deliverable, Head(effects))
    /\ requests' = IF Head(effects).type = "PermissionRequested"
                     THEN Append(requests, Head(effects).request) ELSE requests
    /\ completed' = (completed \/ Head(effects).type = "PromptCompleted")
    /\ UNCHANGED <<machineVars, uiVars, child, pc, pendingPrompts, transcript,
                   backlog, spawns, historyVars>>

DeliverAll ==
    /\ pc = "split"
    /\ effects = <<>>
    /\ Deliver(deliverable)
    /\ deliverable' = <<>>
    /\ pc' = "present"
    /\ UNCHANGED <<machineVars, uiVars, child, effects, requests, completed,
                   pendingPrompts, transcript, spawns, historyVars>>

(* PromptPermission for each request, after the transcript recorded it.    *)
Present ==
    /\ pc = "present"
    /\ requests # <<>>
    /\ requests' = Tail(requests)
    /\ PromptPermission(Head(requests))
    /\ UNCHANGED <<machineVars, child, pc, effects, deliverable, completed,
                   pendingPrompts, transcript, backlog, spawns, historyVars>>

(* Mutant: a completed turn does not release a held prompt.                *)
EndReceiveKeepsHeld ==
    /\ pc = "present"
    /\ requests = <<>>
    /\ pc' = "idle"
    /\ completed' = FALSE
    /\ UNCHANGED <<machineVars, uiVars, child, effects, deliverable, requests,
                   pendingPrompts, transcript, backlog, spawns, historyVars>>

EndReceive ==
    /\ pc = "present"
    /\ requests = <<>>
    /\ pc' = "idle"
    /\ completed' = FALSE
    /\ IF completed
         THEN SendPending(pendingPrompts)
         ELSE UNCHANGED <<machineVars, pendingPrompts, sent>>
    /\ UNCHANGED <<uiVars, child, effects, deliverable, requests, transcript, backlog,
                   spawns, submitted, dropped, consents>>

(* Mutant: the dead child's machine is kept.                               *)
ResetKeepsMachine ==
    /\ child' = FALSE
    /\ dropped' = dropped \cup ToSet(pendingPrompts)
    /\ pendingPrompts' = <<>>
    /\ backlog' = <<>>
    /\ transcript' = NoSession
    /\ UNCHANGED <<machineVars, consents>>

(* Mutant: the dead child's transcript stays bound.                        *)
ResetKeepsTranscript ==
    /\ child' = FALSE
    /\ dropped' = dropped \cup ToSet(pendingPrompts)
    /\ pendingPrompts' = <<>>
    /\ backlog' = <<>>
    /\ FreshMachine
    /\ consents' = {}
    /\ UNCHANGED transcript

(* _reset: what was held is reported, and the peer is forgotten.           *)
Reset ==
    /\ child' = FALSE
    /\ dropped' = dropped \cup ToSet(pendingPrompts)
    /\ pendingPrompts' = <<>>
    /\ backlog' = <<>>
    /\ FreshMachine
    /\ transcript' = NoSession
    /\ consents' = {}

(* AgentExited: the exit is delivered, the dead child's prompts are taken  *)
(* down, and the pump starts over.                                         *)
AgentExit ==
    /\ Waiting
    /\ child
    /\ AbortPendingPermissions
    /\ Reset
    /\ UNCHANGED <<pc, effects, deliverable, requests, completed, spawns, submitted, sent>>

(* run_editor's finally: the child goes with the editor.                   *)
Close ==
    /\ exited
    /\ child
    /\ child' = FALSE
    /\ UNCHANGED <<machineVars, uiVars, pc, effects, deliverable, requests, completed,
                   pendingPrompts, transcript, backlog, spawns, historyVars>>

Terminated == exited /\ ~child /\ UNCHANGED vars

-----------------------------------------------------------------------------
UserEvent ==
    \/ EditorKey
    \/ DismissPrompt
    \/ SubmitPrompt
    \/ SubmitAndSpawn
    \/ SubmitSpawnFails
    \/ \E key \in Keys : AnswerPermission(key)
    \/ KeyboardQuit

PumpStep ==
    \/ EndDrain
    \/ SplitInitialized
    \/ SplitEstablished
    \/ SplitOther
    \/ DeliverAll
    \/ Present
    \/ EndReceive

AgentEvent ==
    \/ BeginReceive
    \/ \E f \in Frame : DrainFrame(f)
    \/ DrainGarbage
    \/ AgentExit

Next == UserEvent \/ PumpStep \/ AgentEvent \/ Close \/ Terminated

Spec == Init /\ [][Next]_vars

(* The loop never stops in the middle of an event, and a prompt that keeps *)
(* coming up is at some point answered: keys are served from the queue's   *)
(* priority lane, so no stream of agent output keeps one from being        *)
(* handled, and a user at the keyboard answers.  Strong fairness, because  *)
(* deliveries in between disable the key for a moment.                     *)
UserClosesPrompt ==
    \/ \E key \in Keys : AnswerPermission(key)
    \/ DismissPrompt
    \/ Waiting /\ ExitAnswer /\ UNCHANGED <<machineVars, pumpVars, historyVars>>

UserFairSpec == Spec /\ WF_vars(PumpStep) /\ SF_vars(UserClosesPrompt)

(* The child answers the request it was sent.                              *)
AgentAnswers == \E f \in Frame : f.type = "response" /\ DrainFrame(f)

FairSpec == /\ UserFairSpec
            /\ SF_vars(BeginReceive)
            /\ SF_vars(AgentAnswers)

-----------------------------------------------------------------------------
EffectType ==
    {Initialized, TurnOutput, PromptCompleted, ProtocolError}
    \cup {SessionEstablished(s) : s \in SessionIds}
    \cup {PermissionRequested(q.id, q.params) : q \in Request}
    \cup {PermissionResolved(r, g) : r \in RequestIds, g \in BOOLEAN}

(* Type invariant.                                                         *)
TypeOK ==
    /\ MachineTypeOK
    /\ UiTypeOK
    /\ child \in BOOLEAN
    /\ pc \in {"idle", "drain", "split", "present"}
    /\ effects \in Seq(EffectType)
    /\ deliverable \in Seq(EffectType)
    /\ requests \in Seq(Request)
    /\ completed \in BOOLEAN
    /\ pendingPrompts \in Seq(1..MaxPrompts)
    /\ transcript \in SessionIds \cup {NoSession}
    /\ backlog \in Seq(EffectType)
    /\ spawns \in 0..MaxSpawns
    /\ submitted \in 0..MaxPrompts
    /\ sent \in Seq(1..MaxPrompts)
    /\ dropped \subseteq 1..MaxPrompts
    /\ consents \subseteq {PermissionIdentity(p) : p \in Params}

(* Where request r can be on its way to the user.                          *)
Places(r) ==
    {<<"effects", i>> : i \in {j \in DOMAIN effects :
                                   /\ effects[j].type = "PermissionRequested"
                                   /\ effects[j].request.id = r}}
    \cup {<<"requests", i>> : i \in {j \in DOMAIN requests : requests[j].id = r}}
    \cup {<<"queue", i>> : i \in {j \in DOMAIN permissionQueue :
                                      permissionQueue[j].id = r}}
    \cup {<<"row", i>> : i \in {j \in {0} : choice # NoRequest /\ choice.id = r}}

(* Every request the machine awaits an answer for is in exactly one place  *)
(* on its way to the user: among the effects of the delivery at hand, in   *)
(* the queue behind the echo row, or on the row; and no other request is.  *)
(* So none is lost between the machine, the pump and the session (it would *)
(* hang the agent), none is shown twice, and answering a prompt never      *)
(* meets a request the machine has forgotten (pump.py receive, _apply,     *)
(* after_command, exited; session.py PromptPermission and the drains).     *)
RequestsReachUser ==
    /\ \A r \in RequestIds : r \in incoming <=> Places(r) # {}
    /\ \A r \in RequestIds : \A a, b \in Places(r) : a = b

(* What the user is asked about is what the machine will act on: the       *)
(* prompt's payload is the one the answer is looked up in.                 *)
PayloadsAgree ==
    /\ choice # NoRequest => choice.params = requestParams[choice.id]
    /\ \A i \in DOMAIN permissionQueue :
           permissionQueue[i].params = requestParams[permissionQueue[i].id]

(* C-g reaches the turn only past every prompt, so at that moment no       *)
(* request is pending: cancel never answers a request behind the user's    *)
(* back (pump.py after_command KeyboardQuitEvent; machine.py cancel).      *)
CancelFindsNothing == Waiting /\ Idle => incoming = {}

(* No entry point of the machine is called out of phase, where it raises   *)
(* AcpStateError through the editor's loop: a child is spawned only when   *)
(* the machine is disconnected, and session/new is sent only when ready.   *)
NoStateError ==
    /\ ~child /\ ~exited => phase = "DISCONNECTED"
    /\ \A i \in DOMAIN effects : effects[i].type = "Initialized"
                                   => phase = "READY" /\ outgoing = Empty

(* The pump keeps one client request in flight, and the phase says which:  *)
(* two turns never overlap, and a late answer cannot end the wrong one     *)
(* (pump.py _send_pending, _bind, _apply; machine.py prompt, new_session). *)
OneRequestInFlight ==
    \A n \in DOMAIN outgoing :
        /\ DOMAIN outgoing = {n}
        /\ phase = CASE outgoing[n] = "initialize"     -> "INITIALIZING"
                     [] outgoing[n] = "session/new"    -> "READY"
                     [] outgoing[n] = "session/prompt" -> "PROMPT_IN_FLIGHT"

(* Prompts go out in the order the user submitted them, and none vanishes: *)
(* each is on the wire, held, or reported as dropped, and only once        *)
(* ("A list, not a slot", pump.py:238; _reset's "unsent prompts dropped"). *)
PromptsAccounted ==
    LET line == sent \o pendingPrompts
    IN  /\ \A i, j \in DOMAIN line : i < j => line[i] < line[j]
        /\ ToSet(line) \cap dropped = {}
        /\ ToSet(line) \cup dropped = 1..submitted

(* Effects go to the transcript of the session that produced them: once    *)
(* the handshake's effects are acted on, the bound buffer is the one of    *)
(* the machine's session, and nothing is left held back.                   *)
TranscriptFollowsSession ==
    pc \in {"idle", "present"} =>
        /\ transcript = sessionId
        /\ transcript # NoSession => backlog = <<>>

(* The client answers for the user only what the user granted for longer   *)
(* in this session of this child: s or a was pressed for the identity, or  *)
(* the id the user chose is one that its payload gives to a lasting option *)
(* too, further down.  (RET, y and n take the first option of their kind,  *)
(* resolve_permission the last with the id; session.py says of RET that    *)
(* "Broader scopes require their explicit keys (s / a)".)                  *)
AutoApprovalNeedsConsent == autoApprovals \subseteq consents

(* Every permission request is answered, or the child or the editor is     *)
(* gone: no order of prompts, exits and deliveries strands a request,      *)
(* whatever the peer sends ("queue, never swallow").                       *)
RequestsAnswered ==
    \A r \in RequestIds : r \in incoming ~> r \notin incoming \/ exited

(* With a child that answers what it is asked, every held prompt goes out, *)
(* one per completed turn, or is reported when the child dies.             *)
HeldPromptsLeave ==
    \A k \in 1..MaxPrompts :
        k \in ToSet(pendingPrompts) ~> k \notin ToSet(pendingPrompts) \/ exited

=============================================================================
