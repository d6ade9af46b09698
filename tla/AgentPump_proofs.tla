-------------------------- MODULE AgentPump_proofs --------------------------
(***************************************************************************)
(* The pump over the machine and the echo row: no entry point of the       *)
(* machine is called out of phase, one client request is in flight at a    *)
(* time, the transcript is the session's, and C-g never cancels a request  *)
(* the user has not seen.  Then the user's side: every permission request  *)
(* the machine awaits an answer for is in exactly one place on its way to  *)
(* the user, the prompt shows the payload the machine will act on, no      *)
(* submitted prompt vanishes, and what the client answers by itself the    *)
(* user granted.  For all constants, any peer and any user.                *)
(***************************************************************************)
EXTENDS AgentPump, Minibuffer_proofs, SequenceFacts

-----------------------------------------------------------------------------
(* The machine: its invariants for every set of session ids, request ids   *)
(* and payloads and every bound on the requests it sends.  There is one    *)
(* lemma per function of machine.py, so that the proofs about the pump can *)
(* cite them.                                                              *)

(* The conjunction is inductive.  HandshakePhase needs IdsAreFresh: a new  *)
(* request must not take the id of an initialize in flight.  PendingTracked *)
(* needs HandshakePhase: a request is tracked only InSession, where there  *)
(* is a session id.  HandshakePhase itself needs PromptHasSession: the     *)
(* answer to a session/prompt opens the session again, and by then the     *)
(* phase may be READY, if a second session/new was refused meanwhile.      *)
PromptHasSession ==
    \A n \in DOMAIN outgoing : outgoing[n] = "session/prompt"
                                  => sessionId # NoSession

MachineInv ==
    /\ MachineTypeOK
    /\ IdsAreFresh
    /\ HandshakePhase
    /\ PromptHasSession
    /\ PendingTracked

-----------------------------------------------------------------------------
(* Dictionaries.                                                           *)

LEMMA PutFacts ==
    ASSUME NEW f, NEW k, NEW v
    PROVE  /\ DOMAIN Put(f, k, v) = DOMAIN f \cup {k}
           /\ Put(f, k, v)[k] = v
           /\ \A x \in DOMAIN f : x # k => Put(f, k, v)[x] = f[x]
  BY DEF Put

LEMMA DropFacts ==
    ASSUME NEW f, NEW k
    PROVE  /\ DOMAIN Drop(f, k) = DOMAIN f \ {k}
           /\ \A x \in DOMAIN f : x # k => Drop(f, k)[x] = f[x]
  BY DEF Drop

LEMMA EmptyFacts == DOMAIN Empty = {}
  BY DEF Empty

-----------------------------------------------------------------------------
(* A fresh machine, initially or after _reset.                             *)

LEMMA MachineInitInv == MachineInit => MachineInv
  BY SessionAssumption, MaxRequestsAssumption, EmptyFacts
  DEF MachineInit, MachineInv, MachineTypeOK, IdsAreFresh, HandshakePhase,
      PendingTracked, PromptHasSession, InSession, Phases

LEMMA FreshMachineInv == FreshMachine => MachineInv'
  BY SessionAssumption, MaxRequestsAssumption, EmptyFacts
  DEF FreshMachine, MachineInv, MachineTypeOK, IdsAreFresh, HandshakePhase,
      PendingTracked, PromptHasSession, InSession, Phases

LEMMA UnchangedMachineInv == MachineInv /\ UNCHANGED machineVars => MachineInv'
  BY DEF machineVars, MachineInv, MachineTypeOK, IdsAreFresh, HandshakePhase,
         PendingTracked, PromptHasSession, InSession

(* What sending a request does to the requests in flight.                  *)
LEMMA SendFacts ==
    ASSUME NEW method \in Methods, MachineTypeOK, IdsAreFresh, Send(method)
    PROVE  /\ nextRequestId' \in 0..MaxRequests
           /\ nextRequestId \notin DOMAIN outgoing
           /\ DOMAIN outgoing' = DOMAIN outgoing \cup {nextRequestId}
           /\ outgoing'[nextRequestId] = method
           /\ \A n \in DOMAIN outgoing : outgoing'[n] = outgoing[n]
           /\ DOMAIN outgoing' \subseteq Nat
           /\ \A n \in DOMAIN outgoing' : outgoing'[n] \in Methods
           /\ IdsAreFresh'
  <1>1. nextRequestId \in Nat /\ nextRequestId \notin DOMAIN outgoing
    BY MaxRequestsAssumption DEF MachineTypeOK, IdsAreFresh
  <1>2. /\ nextRequestId' = nextRequestId + 1
        /\ nextRequestId' \in 0..MaxRequests
    BY <1>1, MaxRequestsAssumption DEF Send, MachineTypeOK
  <1>3. /\ DOMAIN outgoing' = DOMAIN outgoing \cup {nextRequestId}
        /\ outgoing'[nextRequestId] = method
        /\ \A n \in DOMAIN outgoing : outgoing'[n] = outgoing[n]
    <2>1. outgoing' = Put(outgoing, nextRequestId, method)
      BY DEF Send
    <2> QED
      BY <1>1, <2>1 DEF Put
  <1>4. /\ DOMAIN outgoing' \subseteq Nat
        /\ \A n \in DOMAIN outgoing' : outgoing'[n] \in Methods
    BY <1>1, <1>3 DEF MachineTypeOK
  <1>5. IdsAreFresh'
    BY <1>1, <1>2, <1>3 DEF IdsAreFresh, MachineTypeOK
  <1> QED
    BY <1>1, <1>2, <1>3, <1>4, <1>5

-----------------------------------------------------------------------------
(* One lemma per function.                                                 *)

LEMMA StartInv == MachineInv /\ Start => MachineInv'
  <1> SUFFICES ASSUME MachineInv, Start PROVE MachineInv'
    OBVIOUS
  <1>1. "initialize" \in Methods /\ Send("initialize")
    BY DEF Methods, Start
  <1>2. MachineTypeOK' /\ IdsAreFresh'
    BY <1>1, SendFacts DEF MachineInv, MachineTypeOK, Start, Phases
  <1>3. HandshakePhase'
    BY <1>1, SendFacts DEF MachineInv, HandshakePhase, Start, InSession
  <1>4. PromptHasSession' /\ PendingTracked'
    BY <1>1, SendFacts DEF MachineInv, PromptHasSession, PendingTracked, Start,
                          HandshakePhase, InSession
  <1> QED
    BY <1>2, <1>3, <1>4 DEF MachineInv

LEMMA NewSessionInv == MachineInv /\ NewSession => MachineInv'
  <1> SUFFICES ASSUME MachineInv, NewSession PROVE MachineInv'
    OBVIOUS
  <1>1. "session/new" \in Methods /\ Send("session/new")
    BY DEF Methods, NewSession
  <1>2. MachineTypeOK' /\ IdsAreFresh'
    BY <1>1, SendFacts DEF MachineInv, MachineTypeOK, NewSession, Phases
  <1>3. HandshakePhase'
    BY <1>1, SendFacts DEF MachineInv, HandshakePhase, NewSession, InSession
  <1>4. PromptHasSession' /\ PendingTracked'
    BY <1>1, SendFacts DEF MachineInv, PromptHasSession, PendingTracked, NewSession,
                          HandshakePhase, InSession
  <1> QED
    BY <1>2, <1>3, <1>4 DEF MachineInv

LEMMA PromptInv == MachineInv /\ Prompt => MachineInv'
  <1> SUFFICES ASSUME MachineInv, Prompt PROVE MachineInv'
    OBVIOUS
  <1>1. "session/prompt" \in Methods /\ Send("session/prompt")
    BY DEF Methods, Prompt
  <1>2. MachineTypeOK' /\ IdsAreFresh'
    BY <1>1, SendFacts DEF MachineInv, MachineTypeOK, Prompt, Phases
  <1>3. HandshakePhase'
    BY <1>1, SendFacts DEF MachineInv, HandshakePhase, Prompt, InSession
  <1>4. PromptHasSession' /\ PendingTracked'
    BY <1>1, SendFacts DEF MachineInv, PromptHasSession, PendingTracked, Prompt,
                          HandshakePhase, InSession
  <1> QED
    BY <1>2, <1>3, <1>4 DEF MachineInv

LEMMA CancelInv == MachineInv /\ Cancel => MachineInv'
  BY EmptyFacts
  DEF MachineInv, Cancel, MachineTypeOK, IdsAreFresh, HandshakePhase,
      PendingTracked, PromptHasSession, InSession

LEMMA ResolvePermissionInv ==
    ASSUME MachineInv, NEW r, NEW d, ResolvePermission(r, d)
    PROVE  MachineInv'
  <1>1. /\ DOMAIN requestParams' = incoming'
        /\ \A x \in incoming' : requestParams'[x] = requestParams[x]
        /\ incoming' \subseteq incoming
    BY DropFacts DEF ResolvePermission, MachineInv, PendingTracked
  <1>2. autoApprovals' \subseteq {PermissionIdentity(p) : p \in Params}
    BY DEF ResolvePermission, MachineInv, MachineTypeOK, PendingTracked
  <1>3. MachineTypeOK'
    BY <1>1, <1>2 DEF ResolvePermission, MachineInv, MachineTypeOK, PendingTracked
  <1>4. IdsAreFresh' /\ HandshakePhase' /\ PromptHasSession'
    BY DEF ResolvePermission, MachineInv, IdsAreFresh, HandshakePhase,
           PromptHasSession, InSession
  <1>5. PendingTracked'
    BY <1>1 DEF ResolvePermission, MachineInv, PendingTracked
  <1> QED
    BY <1>3, <1>4, <1>5 DEF MachineInv

LEMMA HandleResponseInv ==
    ASSUME MachineInv, NEW f \in Frame, f.type = "response", HandleResponse(f)
    PROVE  MachineInv'
  <1> DEFINE method == outgoing[f.id]
  <1>1. /\ f.session \in SessionIds
        /\ f.status \in {"ok", "malformed", "error"}
        /\ f.id \in DOMAIN outgoing
        /\ method \in Methods
    BY DEF Frame, HandleResponse, MachineInv, MachineTypeOK
  <1>2. /\ DOMAIN outgoing' = DOMAIN outgoing \ {f.id}
        /\ \A n \in DOMAIN outgoing' : outgoing'[n] = outgoing[n]
    <2>1. outgoing' = Drop(outgoing, f.id)
      BY DEF HandleResponse
    <2> QED
      BY <2>1 DEF Drop
  <1>3. /\ UNCHANGED <<nextRequestId, incoming, requestParams, autoApprovals>>
        /\ sessionId' = IF method = "session/new" /\ f.status = "ok"
                          THEN f.session ELSE sessionId
        /\ phase' = CASE f.status = "error" -> Recovery[method]
                      [] Usable(f, method)  -> IF method = "initialize"
                                                 THEN "READY"
                                                 ELSE "SESSION_ACTIVE"
                      [] f.status # "error" /\ ~Usable(f, method) -> phase
    BY DEF HandleResponse
  <1>4. sessionId # NoSession => sessionId' # NoSession
    BY <1>1, <1>3, SessionAssumption
  <1>5. CASE method = "initialize"
    <2>1. phase' \in {"DISCONNECTED", "READY"} /\ sessionId' = sessionId
      BY <1>1, <1>3, <1>5 DEF Recovery, Usable, Methods
    <2>2. DOMAIN outgoing' = {}
      BY <1>1, <1>2, <1>5 DEF MachineInv, HandshakePhase
    <2>3. MachineTypeOK' /\ IdsAreFresh' /\ PendingTracked' /\ PromptHasSession'
      BY <1>3, <2>1, <2>2 DEF MachineInv, MachineTypeOK, IdsAreFresh, Phases,
                              PendingTracked, PromptHasSession
    <2>4. HandshakePhase'
      BY <2>1, <2>2 DEF HandshakePhase, InSession
    <2> QED
      BY <2>3, <2>4 DEF MachineInv
  <1>6. CASE method # "initialize"
    <2>1. phase \notin {"DISCONNECTED", "INITIALIZING"}
      BY <1>1, <1>6 DEF MachineInv, HandshakePhase
    <2>2. phase' \in {"READY", "SESSION_ACTIVE", phase}
      BY <1>1, <1>3, <1>6 DEF Recovery, Usable, Methods
    <2>3. phase' = "SESSION_ACTIVE" => sessionId' # NoSession \/ phase' = phase
      <3>1. CASE method = "session/prompt"
        BY <1>1, <1>4, <3>1 DEF MachineInv, PromptHasSession
      <3>2. CASE method = "session/new"
        BY <1>1, <1>3, <3>2, SessionAssumption DEF Recovery, Usable, Methods
      <3> QED
        BY <1>1, <1>6, <3>1, <3>2 DEF Methods
    <2>4. \A n \in DOMAIN outgoing : outgoing[n] # "initialize"
      BY <2>1 DEF MachineInv, HandshakePhase
    <2>5. HandshakePhase'
      BY <1>2, <1>4, <2>1, <2>2, <2>3, <2>4
      DEF MachineInv, HandshakePhase, InSession
    <2>6. MachineTypeOK'
      BY <1>1, <1>2, <1>3, <2>2 DEF MachineInv, MachineTypeOK, Phases
    <2>7. IdsAreFresh' /\ PromptHasSession' /\ PendingTracked'
      BY <1>2, <1>3, <1>4 DEF MachineInv, IdsAreFresh, PromptHasSession,
                              PendingTracked
    <2> QED
      BY <2>5, <2>6, <2>7 DEF MachineInv
  <1> QED
    BY <1>5, <1>6

LEMMA HandlePermissionInv ==
    ASSUME MachineInv, NEW f \in Frame, f.type = "permission",
           HandlePermission(f)
    PROVE  MachineInv'
  <1>1. f.id \in RequestIds /\ f.params \in Params
    BY DEF Frame
  <1>2. /\ DOMAIN requestParams' = incoming'
        /\ \A r \in DOMAIN requestParams' : requestParams'[r] \in Params
    <2>1. requestParams' = Put(requestParams, f.id, f.params)
      BY DEF HandlePermission
    <2> QED
      BY <1>1, <2>1 DEF Put, HandlePermission, MachineInv, MachineTypeOK,
                        PendingTracked
  <1>3. MachineTypeOK'
    BY <1>1, <1>2 DEF HandlePermission, MachineInv, MachineTypeOK
  <1>4. IdsAreFresh' /\ HandshakePhase' /\ PromptHasSession'
    BY DEF HandlePermission, MachineInv, IdsAreFresh, HandshakePhase,
           PromptHasSession, InSession
  <1>5. PendingTracked'
    BY <1>2 DEF HandlePermission, MachineInv, PendingTracked, HandshakePhase
  <1> QED
    BY <1>3, <1>4, <1>5 DEF MachineInv

LEMMA HandleInv ==
    ASSUME MachineInv, NEW f \in Frame, Handle(f)
    PROVE  MachineInv'
  BY HandleResponseInv, HandlePermissionInv, UnchangedMachineInv DEF Handle

LEMMA MachineNextInv == MachineInv /\ [MachineNext]_machineVars => MachineInv'
  <1> SUFFICES ASSUME MachineInv, [MachineNext]_machineVars PROVE MachineInv'
    OBVIOUS
  <1>1. CASE Start
    BY <1>1, StartInv
  <1>2. CASE NewSession
    BY <1>2, NewSessionInv
  <1>3. CASE Prompt
    BY <1>3, PromptInv
  <1>4. CASE Cancel
    BY <1>4, CancelInv
  <1>5. ASSUME NEW r \in RequestIds, NEW d \in Decisions, ResolvePermission(r, d)
        PROVE  MachineInv'
    BY <1>5, ResolvePermissionInv
  <1>6. ASSUME NEW f \in Frame, Handle(f)
        PROVE  MachineInv'
    BY <1>6, HandleInv
  <1>7. CASE UNCHANGED machineVars
    BY <1>7, UnchangedMachineInv
  <1> QED
    BY <1>1, <1>2, <1>3, <1>4, <1>5, <1>6, <1>7 DEF MachineNext

-----------------------------------------------------------------------------
(* The machine keeps its inductive invariant under any peer and any driver *)
(* that respects the preconditions of machine.py.                          *)
THEOREM MachineCorrect == MachineSpec => []MachineInv
  <1>1. MachineInit => MachineInv
    BY MachineInitInv
  <1>2. MachineInv /\ [MachineNext]_machineVars => MachineInv'
    BY MachineNextInv
  <1> QED
    BY <1>1, <1>2, PTL DEF MachineSpec

(* Every field of the machine keeps its type, whatever frames arrive.      *)
THEOREM MachineTypeCorrect == MachineSpec => []MachineTypeOK
  <1>1. MachineInv => MachineTypeOK
    BY DEF MachineInv
  <1> QED
    BY <1>1, MachineCorrect, PTL

(* A request id in flight is never reused, so a late answer cannot be      *)
(* taken for the answer to a newer request (start, new_session, prompt).   *)
THEOREM MachineIdsFresh == MachineSpec => []IdsAreFresh
  <1>1. MachineInv => IdsAreFresh
    BY DEF MachineInv
  <1> QED
    BY <1>1, MachineCorrect, PTL

(* The phase agrees with the handshake request in flight, and in a session *)
(* there is a session id, whatever order answers arrive in.                *)
THEOREM MachineHandshake == MachineSpec => []HandshakePhase
  <1>1. MachineInv => HandshakePhase
    BY DEF MachineInv
  <1> QED
    BY <1>1, MachineCorrect, PTL

(* The ids and the payloads of pending permission requests agree.          *)
THEOREM MachinePending == MachineSpec => []PendingTracked
  <1>1. MachineInv => PendingTracked
    BY DEF MachineInv
  <1> QED
    BY <1>1, MachineCorrect, PTL

-----------------------------------------------------------------------------
(* The pump.                                                               *)

PumpTypeOK ==
    /\ child \in BOOLEAN
    /\ pc \in {"idle", "drain", "split", "present"}
    /\ effects \in Seq(EffectType)
    /\ deliverable \in Seq(EffectType)
    /\ requests \in Seq(Request)
    /\ completed \in BOOLEAN
    /\ pendingPrompts \in Seq(1..MaxPrompts)
    /\ transcript \in SessionIds \cup {NoSession}
    /\ backlog \in Seq(EffectType)
    /\ spawns \in 0..MaxSpawns
    /\ submitted \in 0..MaxPrompts
    /\ sent \in Seq(1..MaxPrompts)
    /\ dropped \subseteq 1..MaxPrompts
    /\ consents \subseteq {PermissionIdentity(p) : p \in Params}

(* receive has dealt with every effect before it presents requests, and    *)
(* with every request before the next event.                               *)
Stages ==
    /\ pc = "idle" => effects = <<>> /\ requests = <<>>
    /\ pc = "present" => effects = <<>>

(* NoStateError needs that an Initialized is acted on once: the first      *)
(* session/new makes a second one a call out of phase.                     *)
OneInitialized ==
    \A i, j \in DOMAIN effects :
        effects[i].type = "Initialized" /\ effects[j].type = "Initialized" => i = j

Handshake == NoStateError /\ OneInitialized /\ OneRequestInFlight

(* TranscriptFollowsSession in the middle of a delivery: the binding lags  *)
(* behind the machine exactly while the milestone is still to be acted on. *)
Binding ==
    /\ \A i \in DOMAIN effects :
           effects[i].type = "SessionEstablished"
               => InSession /\ effects[i].session = sessionId
    /\ \/ transcript = sessionId
       \/ \E i \in DOMAIN effects : effects[i].type = "SessionEstablished"
    /\ transcript # NoSession => backlog = <<>>

(* Every request the machine awaits an answer for is on its way.           *)
OnItsWay(r) ==
    \/ \E i \in DOMAIN effects : /\ effects[i].type = "PermissionRequested"
                                 /\ effects[i].request.id = r
    \/ \E i \in DOMAIN requests : requests[i].id = r
    \/ \E i \in DOMAIN permissionQueue : permissionQueue[i].id = r
    \/ choice # NoRequest /\ choice.id = r

NoneLost == \A r \in incoming : OnItsWay(r)

PumpInv ==
    /\ MachineInv
    /\ UiInv
    /\ PumpTypeOK
    /\ Stages
    /\ Handshake
    /\ Binding
    /\ NoneLost

-----------------------------------------------------------------------------
(* Sequences.                                                              *)

LEMMA TailFacts ==
    ASSUME NEW S, NEW s \in Seq(S), s # <<>>
    PROVE  /\ 1 \in DOMAIN s /\ Head(s) = s[1] /\ Head(s) \in S
           /\ Tail(s) \in Seq(S)
           /\ \A i \in DOMAIN Tail(s) :
                  i + 1 \in DOMAIN s /\ i + 1 # 1 /\ i \in Nat /\ Tail(s)[i] = s[i + 1]
           /\ \A i \in DOMAIN s :
                  i = 1 \/ (i - 1 \in DOMAIN Tail(s) /\ Tail(s)[i - 1] = s[i])
  OBVIOUS

LEMMA ConcatFacts ==
    ASSUME NEW S, NEW s \in Seq(S), NEW t \in Seq(S)
    PROVE  /\ s \o t \in Seq(S)
           /\ \A i \in DOMAIN s : i \in DOMAIN (s \o t) /\ (s \o t)[i] = s[i]
           /\ \A i \in DOMAIN t : /\ Len(s) + i \in DOMAIN (s \o t)
                                  /\ (s \o t)[Len(s) + i] = t[i]
           /\ \A i \in DOMAIN (s \o t) :
                  \/ i \in DOMAIN s
                  \/ i - Len(s) \in DOMAIN t /\ (s \o t)[i] = t[i - Len(s)]
  OBVIOUS

LEMMA ToSetFacts ==
    ASSUME NEW S, NEW s \in Seq(S)
    PROVE  ToSet(s) \subseteq S
  <1>1. \A i \in DOMAIN s : s[i] \in S
    OBVIOUS
  <1> QED
    BY <1>1 DEF ToSet

LEMMA SingleFacts ==
    ASSUME NEW S, NEW e \in S
    PROVE  /\ <<e>> \in Seq(S) /\ <<>> \in Seq(S)
           /\ DOMAIN <<e>> = {1} /\ <<e>>[1] = e /\ DOMAIN <<>> = {}
  OBVIOUS

LEMMA AppendFacts ==
    ASSUME NEW S, NEW s \in Seq(S), NEW e \in S
    PROVE  /\ Append(s, e) \in Seq(S)
           /\ \A i \in DOMAIN s : i \in DOMAIN Append(s, e) /\ Append(s, e)[i] = s[i]
           /\ Len(s) + 1 \in DOMAIN Append(s, e) /\ Append(s, e)[Len(s) + 1] = e
  OBVIOUS

-----------------------------------------------------------------------------
(* What a frame brings.                                                    *)

LEMMA EffectShapes ==
    ASSUME NEW e \in EffectType
    PROVE  /\ e.type \in {"Initialized", "SessionEstablished"} \cup OtherEffects
           /\ e.type = "PermissionRequested" => e.request \in Request
           /\ e.type = "SessionEstablished" => e.session \in SessionIds
  BY DEF EffectType, OtherEffects, Initialized, TurnOutput, PromptCompleted,
         ProtocolError, SessionEstablished, PermissionRequested,
         PermissionResolved, Request

LEMMA ResolvedIsEffect ==
    ASSUME NEW r \in RequestIds, NEW p, NEW d
    PROVE  PermissionResolved(r, Granted(p, d)) \in EffectType
  <1>1. Granted(p, d) \in BOOLEAN
    BY DEF Granted
  <1> QED
    BY <1>1 DEF EffectType

LEMMA ErrorIsEffect == ProtocolError \in EffectType /\ TurnOutput \in EffectType
  BY DEF EffectType

LEMMA RequestIsEffect ==
    ASSUME NEW r \in RequestIds, NEW p \in Params
    PROVE  PermissionRequested(r, p) \in EffectType
  <1> DEFINE q == [id |-> r, params |-> p]
  <1>1. q \in Request /\ q.id = r /\ q.params = p
    BY DEF Request
  <1>2. PermissionRequested(q.id, q.params) \in EffectType
    BY <1>1 DEF EffectType
  <1> QED
    BY <1>1, <1>2

(* The milestone of an answered request, or nothing but an error line.     *)
LEMMA ResponseFacts ==
    ASSUME MachineInv, NEW f \in Frame, f.type = "response"
    PROVE  \E e \in EffectType :
               /\ Effects(f) = <<e>>
               /\ e.type \in {"Initialized", "SessionEstablished",
                              "PromptCompleted", "ProtocolError"}
               /\ e.type = "Initialized" =>
                      /\ f.id \in DOMAIN outgoing /\ outgoing[f.id] = "initialize"
                      /\ f.status # "error"
               /\ e.type = "SessionEstablished" =>
                      /\ f.id \in DOMAIN outgoing /\ outgoing[f.id] = "session/new"
                      /\ f.status = "ok" /\ e.session = f.session
               /\ f.id \in DOMAIN outgoing /\ outgoing[f.id] = "session/new"
                      /\ f.status = "ok" => e.type = "SessionEstablished"
  <1>1. Effects(f) = ResponseEffects(f) /\ f.session \in SessionIds
    BY DEF Effects, Frame
  <1>2. CASE f.id \in DOMAIN outgoing /\ Usable(f, outgoing[f.id])
    <2> DEFINE e == Milestone(f, outgoing[f.id])
    <2>1. outgoing[f.id] \in Methods
      BY <1>2 DEF MachineInv, MachineTypeOK
    <2>2. Effects(f) = <<e>>
      BY <1>1, <1>2 DEF ResponseEffects
    <2>3. CASE outgoing[f.id] = "initialize"
      <3>1. e = Initialized /\ e \in EffectType /\ e.type = "Initialized"
        BY <2>3 DEF Milestone, EffectType, Initialized
      <3> QED
        BY <1>2, <2>2, <2>3, <3>1 DEF Usable
    <2>4. CASE outgoing[f.id] = "session/new"
      <3>1. /\ e = SessionEstablished(f.session) /\ e \in EffectType
            /\ e.type = "SessionEstablished" /\ e.session = f.session
        BY <1>1, <2>4 DEF Milestone, EffectType, SessionEstablished
      <3> QED
        BY <1>2, <2>2, <2>4, <3>1 DEF Usable
    <2>5. CASE outgoing[f.id] = "session/prompt"
      <3>1. e = PromptCompleted /\ e \in EffectType /\ e.type = "PromptCompleted"
        BY <2>5 DEF Milestone, EffectType, PromptCompleted
      <3> QED
        BY <2>2, <2>5, <3>1
    <2> QED
      BY <2>1, <2>3, <2>4, <2>5 DEF Methods
  <1>3. CASE ~(f.id \in DOMAIN outgoing /\ Usable(f, outgoing[f.id]))
    <2>1. Effects(f) = <<ProtocolError>> /\ ProtocolError.type = "ProtocolError"
      BY <1>1, <1>3 DEF ResponseEffects, ProtocolError
    <2>2. ~(/\ f.id \in DOMAIN outgoing /\ outgoing[f.id] = "session/new"
            /\ f.status = "ok")
      BY <1>3 DEF Usable
    <2> QED
      BY <2>1, <2>2, ErrorIsEffect
  <1> QED
    BY <1>2, <1>3

(* Any other frame: at most one effect, no milestone, and the machine's    *)
(* handshake is left alone.                                                *)
LEMMA OtherFrameFacts ==
    ASSUME MachineInv, NEW f \in Frame, f.type # "response"
    PROVE  /\ Effects(f) \in Seq(EffectType)
           /\ \A i \in DOMAIN Effects(f) : Effects(f)[i].type \in OtherEffects
  <1>1. CASE f.type = "update"
    <2>1. Effects(f) \in {<<ProtocolError>>, <<TurnOutput>>, <<>>}
      BY <1>1 DEF Effects, UpdateEffects
    <2>2. ProtocolError.type = "ProtocolError" /\ TurnOutput.type = "TurnOutput"
      BY DEF ProtocolError, TurnOutput
    <2>3. CASE Effects(f) = <<ProtocolError>>
      BY <2>2, <2>3, ErrorIsEffect, SingleFacts DEF OtherEffects
    <2>4. CASE Effects(f) = <<TurnOutput>>
      BY <2>2, <2>4, ErrorIsEffect, SingleFacts DEF OtherEffects
    <2>5. CASE Effects(f) = <<>>
      BY <2>5, SingleFacts
    <2> QED
      BY <2>1, <2>3, <2>4, <2>5
  <1>2. CASE f.type = "permission"
    <2>1. f.id \in RequestIds /\ f.params \in Params
      BY <1>2 DEF Frame
    <2> DEFINE e1 == PermissionResolved(f.id,
                         Granted(f.params, Selected(SelectAutoOption(f.params))))
               e2 == PermissionRequested(f.id, f.params)
    <2>2. Effects(f) \in {<<ProtocolError>>, <<e1>>, <<e2>>}
      BY <1>2 DEF Effects, PermissionEffects
    <2>3. e1 \in EffectType /\ e2 \in EffectType
      BY <2>1, ResolvedIsEffect, RequestIsEffect
    <2>4. /\ e1.type = "PermissionResolved" /\ e2.type = "PermissionRequested"
          /\ ProtocolError.type = "ProtocolError"
      BY DEF PermissionResolved, PermissionRequested, ProtocolError
    <2> HIDE DEF e1, e2
    <2>5. ASSUME NEW e \in EffectType, Effects(f) = <<e>>, e.type \in OtherEffects
          PROVE  /\ Effects(f) \in Seq(EffectType)
                 /\ \A i \in DOMAIN Effects(f) : Effects(f)[i].type \in OtherEffects
      BY <2>5, SingleFacts
    <2>6. \E e \in EffectType : Effects(f) = <<e>> /\ e.type \in OtherEffects
      BY <2>2, <2>3, <2>4, ErrorIsEffect DEF OtherEffects
    <2> QED
      BY <2>5, <2>6
  <1>3. CASE f.type \in {"notification", "unsupported"}
    <2>1. Effects(f) = <<>>
      BY <1>3 DEF Effects
    <2> QED
      BY <2>1, ErrorIsEffect, SingleFacts
  <1> QED
    BY <1>1, <1>2, <1>3 DEF Frame

-----------------------------------------------------------------------------
(* What keeps each part of the invariant.                                  *)

LEMMA HandshakeKept ==
    ASSUME Handshake, UNCHANGED <<phase, outgoing, effects>>,
           ~child' /\ ~exited' => ~child /\ ~exited
    PROVE  Handshake'
  <1>1. NoStateError' /\ OneInitialized'
    BY DEF Handshake, NoStateError, OneInitialized
  <1>2. OneRequestInFlight'
    BY DEF Handshake, OneRequestInFlight
  <1> QED
    BY <1>1, <1>2 DEF Handshake

LEMMA BindingKept ==
    ASSUME Binding, UNCHANGED <<phase, sessionId, effects, transcript>>,
           transcript # NoSession => backlog' = backlog
    PROVE  Binding'
  BY DEF Binding, InSession

LEMMA NoneLostKept ==
    ASSUME NoneLost, incoming' \subseteq incoming,
           UNCHANGED <<effects, requests, choice, permissionQueue>>
    PROVE  NoneLost'
  BY DEF NoneLost, OnItsWay

LEMMA StagesKept == Stages /\ UNCHANGED <<pc, effects, requests>> => Stages'
  BY DEF Stages

(* Closing a prompt that is not about r: r moves up, at most.              *)
LEMMA DrainKeepsWay ==
    ASSUME UiInv, NEW r, OnItsWay(r), choice = NoRequest \/ choice.id # r,
           DrainPermissionQueue, UNCHANGED <<effects, requests>>
    PROVE  OnItsWay(r)'
  <1>1. permissionQueue \in Seq(Request)
    BY DEF UiInv, UiTypeOK
  <1>2. CASE permissionQueue = <<>>
    BY <1>2 DEF OnItsWay, DrainPermissionQueue
  <1>3. CASE permissionQueue # <<>>
    <2>1. /\ choice' = Head(permissionQueue) /\ choice' # NoRequest
          /\ permissionQueue' = Tail(permissionQueue)
      BY <1>1, <1>3, TailFacts, NoRequestAssumption
      DEF DrainPermissionQueue, OpenChoice
    <2>2. ASSUME NEW i \in DOMAIN permissionQueue, permissionQueue[i].id = r
          PROVE  OnItsWay(r)'
      <3>1. CASE i = 1
        BY <1>1, <1>3, <2>1, <2>2, <3>1, TailFacts DEF OnItsWay
      <3>2. CASE i # 1
        <4>1. i - 1 \in DOMAIN permissionQueue' /\ permissionQueue'[i - 1].id = r
          BY <1>1, <1>3, <2>1, <2>2, <3>2, TailFacts
        <4> QED
          BY <4>1 DEF OnItsWay
      <3> QED
        BY <3>1, <3>2
    <2> QED
      BY <2>2 DEF OnItsWay
  <1> QED
    BY <1>2, <1>3

(* A prompt goes out only from an idle session, where nothing is in        *)
(* flight; otherwise the machine is left alone.                            *)
LEMMA SendPendingFacts ==
    ASSUME MachineInv, OneRequestInFlight, sent \in Seq(1..MaxPrompts),
           NEW q \in Seq(1..MaxPrompts), SendPending(q)
    PROVE  /\ MachineInv' /\ OneRequestInFlight'
           /\ sent' \in Seq(1..MaxPrompts) /\ pendingPrompts' \in Seq(1..MaxPrompts)
           /\ UNCHANGED <<sessionId, incoming, requestParams, autoApprovals>>
           /\ InSession => InSession'
           /\ phase # "SESSION_ACTIVE" => UNCHANGED <<phase, outgoing>>
  <1>1. CASE q # <<>> /\ phase = "SESSION_ACTIVE"
    <2>1. Prompt /\ sent' = Append(sent, Head(q)) /\ pendingPrompts' = Tail(q)
      BY <1>1 DEF SendPending
    <2>2. MachineInv'
      BY <2>1, PromptInv
    <2>3. /\ phase' = "PROMPT_IN_FLIGHT" /\ Send("session/prompt")
          /\ UNCHANGED <<sessionId, incoming, requestParams, autoApprovals>>
      BY <2>1 DEF Prompt
    <2>4. DOMAIN outgoing = {}
      BY <1>1 DEF OneRequestInFlight, MachineInv, MachineTypeOK, Methods
    <2>5. /\ DOMAIN outgoing' = {nextRequestId}
          /\ outgoing'[nextRequestId] = "session/prompt"
      <3>1. "session/prompt" \in Methods /\ MachineTypeOK /\ IdsAreFresh
        BY DEF Methods, MachineInv
      <3> QED
        BY <2>3, <2>4, <3>1, SendFacts
    <2>6. OneRequestInFlight'
      BY <2>3, <2>5 DEF OneRequestInFlight
    <2>7. sent' \in Seq(1..MaxPrompts) /\ pendingPrompts' \in Seq(1..MaxPrompts)
      BY <1>1, <2>1, TailFacts, AppendFacts
    <2> QED
      BY <1>1, <2>2, <2>3, <2>6, <2>7 DEF InSession
  <1>2. CASE ~(q # <<>> /\ phase = "SESSION_ACTIVE")
    <2>1. UNCHANGED <<machineVars, sent>> /\ pendingPrompts' = q
      BY <1>2 DEF SendPending
    <2>2. MachineInv' /\ OneRequestInFlight'
      BY <2>1, UnchangedMachineInv DEF machineVars, OneRequestInFlight
    <2> QED
      BY <2>1, <2>2 DEF machineVars, InSession
  <1> QED
    BY <1>1, <1>2

(* The same for the invariant, when no effect is taken.                    *)
LEMMA SendPendingKeeps ==
    ASSUME PumpInv, NEW q \in Seq(1..MaxPrompts), SendPending(q),
           UNCHANGED <<child, exited, effects, transcript, backlog>>
    PROVE  MachineInv' /\ Handshake' /\ Binding'
  <1>1. /\ MachineInv' /\ OneRequestInFlight'
        /\ UNCHANGED sessionId
        /\ InSession => InSession'
        /\ phase # "SESSION_ACTIVE" => UNCHANGED <<phase, outgoing>>
    BY SendPendingFacts DEF PumpInv, PumpTypeOK, Handshake
  <1>2. NoStateError' /\ OneInitialized'
    BY <1>1 DEF PumpInv, Handshake, NoStateError, OneInitialized
  <1>3. Binding'
    BY <1>1 DEF PumpInv, Binding
  <1> QED
    BY <1>1, <1>2, <1>3 DEF Handshake

-----------------------------------------------------------------------------
LEMMA PumpInitInv == Init => PumpInv
  <1> SUFFICES ASSUME Init PROVE PumpInv
    OBVIOUS
  <1>1. MachineInv /\ UiInv
    BY MachineInitInv, UiInitInv DEF Init
  <1>2. PumpTypeOK
    <2>1. /\ effects \in Seq(EffectType) /\ deliverable \in Seq(EffectType)
          /\ requests \in Seq(Request) /\ pendingPrompts \in Seq(1..MaxPrompts)
          /\ backlog \in Seq(EffectType) /\ sent \in Seq(1..MaxPrompts)
      BY EmptySeq DEF Init
    <2>2. spawns \in 0..MaxSpawns /\ submitted \in 0..MaxPrompts
      BY BoundsAssumption DEF Init
    <2> QED
      BY <2>1, <2>2 DEF Init, PumpTypeOK
  <1>3. Stages /\ Handshake /\ Binding
    BY EmptyFacts DEF Init, MachineInit, Stages, Handshake, NoStateError, OneInitialized,
                      OneRequestInFlight, Binding
  <1>4. NoneLost
    BY DEF Init, MachineInit, NoneLost
  <1> QED
    BY <1>1, <1>2, <1>3, <1>4 DEF PumpInv

LEMMA PumpStutterInv == PumpInv /\ UNCHANGED vars => PumpInv'
  <1> SUFFICES ASSUME PumpInv, UNCHANGED vars PROVE PumpInv'
    OBVIOUS
  <1>1. UNCHANGED <<machineVars, uiVars, pumpVars, historyVars>>
    BY DEF vars
  <1>2. MachineInv' /\ UiInv'
    BY <1>1, UnchangedMachineInv, UnchangedUiInv DEF PumpInv
  <1>3. PumpTypeOK' /\ Stages'
    BY <1>1 DEF pumpVars, historyVars, PumpInv, PumpTypeOK, Stages
  <1>4. Handshake' /\ Binding' /\ NoneLost'
    BY <1>1, HandshakeKept, BindingKept, NoneLostKept
    DEF pumpVars, machineVars, uiVars, promptVars, PumpInv
  <1> QED
    BY <1>2, <1>3, <1>4 DEF PumpInv

-----------------------------------------------------------------------------
(* User events.                                                            *)

LEMMA EditorStepWay ==
    ASSUME UiInv, ~exited, EditorStep, NEW r, OnItsWay(r), UNCHANGED <<effects, requests>>
    PROVE  OnItsWay(r)'
  <1>1. CASE AbandonExit
    BY <1>1, DrainKeepsWay DEF AbandonExit, ExitPrompt
  <1>2. CASE ~AbandonExit
    <2>1. UNCHANGED <<choice, permissionQueue>>
      BY <1>2 DEF EditorStep, OpenTextPrompt, EditText, BeginExit, ExitAnswer,
                  SaveOffered, DeclineOffered, ExitAnyway, EditBuffer, promptVars
    <2> QED
      BY <2>1 DEF OnItsWay
  <1> QED
    BY <1>1, <1>2

LEMMA EditorKeyInv == PumpInv /\ EditorKey => PumpInv'
  <1> SUFFICES ASSUME PumpInv, EditorKey PROVE PumpInv'
    OBVIOUS
  <1>1. /\ EditorStep /\ ~exited
        /\ UNCHANGED <<machineVars, pumpVars, historyVars>>
    BY DEF EditorKey, Waiting
  <1>2. MachineInv' /\ UiInv'
    BY <1>1, UnchangedMachineInv, EditorStepInv DEF PumpInv
  <1>3. PumpTypeOK' /\ Stages'
    BY <1>1 DEF pumpVars, historyVars, PumpInv, PumpTypeOK, Stages
  <1>4. Handshake' /\ Binding'
    BY <1>1, HandshakeKept, BindingKept DEF pumpVars, machineVars, PumpInv
  <1>5. NoneLost'
    BY <1>1, EditorStepWay DEF pumpVars, machineVars, PumpInv, NoneLost
  <1> QED
    BY <1>2, <1>3, <1>4, <1>5 DEF PumpInv

(* Taking a text prompt down, whatever the pump then does with the text.   *)
LEMMA TextPromptClosed ==
    ASSUME PumpInv, CloseTextPrompt
    PROVE  /\ UiInv' /\ UNCHANGED exited
           /\ UNCHANGED <<effects, requests>> /\ incoming' \subseteq incoming => NoneLost'
  <1>1. UiInv' /\ UNCHANGED exited
    BY CloseTextPromptInv DEF PumpInv, CloseTextPrompt
  <1>2. ASSUME UNCHANGED <<effects, requests>>, incoming' \subseteq incoming
        PROVE  NoneLost'
    <2>1. choice = NoRequest /\ DrainPermissionQueue
      BY DEF CloseTextPrompt, TextPrompt
    <2>2. \A r \in incoming : OnItsWay(r)'
      BY <1>2, <2>1, DrainKeepsWay DEF PumpInv, NoneLost
    <2> QED
      BY <1>2, <2>2 DEF NoneLost
  <1> QED
    BY <1>1, <1>2

LEMMA DismissPromptInv == PumpInv /\ DismissPrompt => PumpInv'
  <1> SUFFICES ASSUME PumpInv, DismissPrompt PROVE PumpInv'
    OBVIOUS
  <1>1. CloseTextPrompt /\ UNCHANGED <<machineVars, pumpVars, historyVars>>
    BY DEF DismissPrompt
  <1>2. MachineInv' /\ UiInv' /\ UNCHANGED exited
    BY <1>1, UnchangedMachineInv, TextPromptClosed DEF PumpInv
  <1>3. PumpTypeOK' /\ Stages'
    BY <1>1 DEF pumpVars, historyVars, PumpInv, PumpTypeOK, Stages
  <1>4. Handshake' /\ Binding'
    BY <1>1, <1>2, HandshakeKept, BindingKept DEF pumpVars, machineVars, PumpInv
  <1>5. NoneLost'
    BY <1>1, TextPromptClosed DEF pumpVars, machineVars
  <1> QED
    BY <1>2, <1>3, <1>4, <1>5 DEF PumpInv

LEMMA SubmitTextFacts ==
    ASSUME PumpInv, SubmitText
    PROVE  /\ CloseTextPrompt /\ pc = "idle" /\ ~exited
           /\ submitted + 1 \in 1..MaxPrompts /\ submitted' = submitted + 1
           /\ Append(pendingPrompts, submitted + 1) \in Seq(1..MaxPrompts)
  <1>1. /\ CloseTextPrompt /\ pc = "idle" /\ ~exited
        /\ submitted + 1 \in 1..MaxPrompts /\ submitted' = submitted + 1
    BY BoundsAssumption DEF SubmitText, Waiting, PumpInv, PumpTypeOK
  <1> QED
    BY <1>1, AppendFacts DEF PumpInv, PumpTypeOK

LEMMA SubmitPromptInv == PumpInv /\ SubmitPrompt => PumpInv'
  <1> SUFFICES ASSUME PumpInv, SubmitPrompt PROVE PumpInv'
    OBVIOUS
  <1> DEFINE q == Append(pendingPrompts, submitted + 1)
  <1>1. /\ CloseTextPrompt /\ submitted' \in 0..MaxPrompts /\ q \in Seq(1..MaxPrompts)
        /\ SendPending(q)
        /\ UNCHANGED <<child, pc, effects, deliverable, requests, completed, transcript,
                       backlog, spawns, dropped, consents>>
    BY SubmitTextFacts DEF SubmitPrompt
  <1> HIDE DEF q
  <1>2. UiInv' /\ UNCHANGED exited
    BY <1>1, TextPromptClosed
  <1>3. MachineInv' /\ Handshake' /\ Binding'
    BY <1>1, <1>2, SendPendingKeeps
  <1>4. /\ sent' \in Seq(1..MaxPrompts) /\ pendingPrompts' \in Seq(1..MaxPrompts)
        /\ UNCHANGED incoming
    BY <1>1, SendPendingFacts DEF PumpInv, PumpTypeOK, Handshake
  <1>5. PumpTypeOK' /\ Stages'
    BY <1>1, <1>4 DEF PumpInv, PumpTypeOK, Stages
  <1>6. NoneLost'
    BY <1>1, <1>4, TextPromptClosed
  <1> QED
    BY <1>2, <1>3, <1>5, <1>6 DEF PumpInv

LEMMA SubmitAndSpawnInv == PumpInv /\ SubmitAndSpawn => PumpInv'
  <1> SUFFICES ASSUME PumpInv, SubmitAndSpawn PROVE PumpInv'
    OBVIOUS
  <1>1. /\ CloseTextPrompt /\ submitted' \in 0..MaxPrompts
        /\ pendingPrompts' \in Seq(1..MaxPrompts)
        /\ child' = TRUE /\ Start /\ pc = "idle"
        /\ UNCHANGED <<pc, effects, deliverable, requests, completed, transcript, backlog,
                       sent, dropped, consents>>
    BY SubmitTextFacts DEF SubmitAndSpawn
  <1>2. MachineInv' /\ UiInv'
    BY <1>1, StartInv, TextPromptClosed DEF PumpInv
  <1>3. spawns' \in 0..MaxSpawns
    BY BoundsAssumption DEF SubmitAndSpawn, PumpInv, PumpTypeOK
  <1>4. PumpTypeOK' /\ Stages'
    BY <1>1, <1>3 DEF PumpInv, PumpTypeOK, Stages
  <1>5. /\ phase = "DISCONNECTED" /\ phase' = "INITIALIZING" /\ Send("initialize")
        /\ UNCHANGED <<sessionId, incoming>>
    BY <1>1 DEF Start
  <1>6. effects' = <<>>
    BY <1>1 DEF PumpInv, Stages
  <1>7. DOMAIN outgoing = {}
    BY <1>5 DEF PumpInv, MachineInv, HandshakePhase
  <1>8. /\ DOMAIN outgoing' = {nextRequestId} /\ outgoing'[nextRequestId] = "initialize"
    <2>1. "initialize" \in Methods /\ MachineTypeOK /\ IdsAreFresh
      BY DEF Methods, PumpInv, MachineInv
    <2> QED
      BY <1>5, <1>7, <2>1, SendFacts
  <1>9. Handshake'
    BY <1>1, <1>5, <1>6, <1>8
    DEF Handshake, NoStateError, OneInitialized, OneRequestInFlight
  <1>10. Binding' /\ NoneLost'
    BY <1>1, <1>5, <1>6, TextPromptClosed DEF PumpInv, Binding, InSession
  <1> QED
    BY <1>2, <1>4, <1>9, <1>10 DEF PumpInv

LEMMA SubmitSpawnFailsInv == PumpInv /\ SubmitSpawnFails => PumpInv'
  <1> SUFFICES ASSUME PumpInv, SubmitSpawnFails PROVE PumpInv'
    OBVIOUS
  <1>1. /\ CloseTextPrompt /\ submitted' \in 0..MaxPrompts
        /\ dropped' \subseteq 1..MaxPrompts
        /\ UNCHANGED <<machineVars, pumpVars, sent, consents>>
    BY SubmitTextFacts DEF SubmitSpawnFails, PumpInv, PumpTypeOK
  <1>2. MachineInv' /\ UiInv' /\ UNCHANGED exited
    BY <1>1, UnchangedMachineInv, TextPromptClosed DEF PumpInv
  <1>3. PumpTypeOK' /\ Stages'
    BY <1>1 DEF pumpVars, PumpInv, PumpTypeOK, Stages
  <1>4. Handshake' /\ Binding'
    BY <1>1, <1>2, HandshakeKept, BindingKept DEF pumpVars, machineVars, PumpInv
  <1>5. NoneLost'
    BY <1>1, TextPromptClosed DEF pumpVars, machineVars
  <1> QED
    BY <1>2, <1>3, <1>4, <1>5 DEF PumpInv

(* Answering the open prompt: the request it is about is settled, the      *)
(* others move up.                                                         *)
LEMMA AnswerPermissionInv ==
    ASSUME PumpInv, NEW key \in Keys, AnswerPermission(key)
    PROVE  PumpInv'
  <1> DEFINE r == choice.id
             d == Decision(key)
             e == IF r \in incoming
                    THEN PermissionResolved(r, Granted(requestParams[r], d))
                    ELSE ProtocolError
  <1>1. /\ DecidePermission(key) /\ pc = "idle" /\ ~exited
        /\ \/ r \in incoming /\ ResolvePermission(r, d)
           \/ r \notin incoming /\ UNCHANGED machineVars
        /\ backlog' = IF transcript = NoSession THEN backlog \o <<e>> ELSE backlog
        /\ consents' = consents \cup Consents(choice.params, key)
        /\ UNCHANGED <<child, pc, effects, deliverable, requests, completed, pendingPrompts,
                       transcript, spawns, submitted, sent, dropped>>
    BY DEF AnswerPermission, Waiting, Deliver
  <1>2. choice # NoRequest /\ choice \in Request
    BY <1>1 DEF DecidePermission, Choosing, PumpInv, UiInv, UiTypeOK
  <1>3. r \in RequestIds /\ choice.params \in Params
    BY <1>2 DEF Request
  <1>4. e \in EffectType
    BY <1>3, ResolvedIsEffect, ErrorIsEffect
  <1> HIDE DEF e, d
  <1>5. backlog' \in Seq(EffectType)
    BY <1>1, <1>4, SingleFacts, ConcatFacts DEF PumpInv, PumpTypeOK
  <1>6. consents' \subseteq {PermissionIdentity(p) : p \in Params}
    <2>1. Consents(choice.params, key) \subseteq {PermissionIdentity(p) : p \in Params}
      BY <1>3 DEF Consents
    <2> QED
      BY <1>1, <2>1 DEF PumpInv, PumpTypeOK
  <1>7. MachineInv'
    BY <1>1, ResolvePermissionInv, UnchangedMachineInv DEF PumpInv
  <1>8. UiInv' /\ UNCHANGED exited /\ DrainPermissionQueue
    BY <1>1, DecidePermissionInv DEF PumpInv, DecidePermission, CloseChoice
  <1>9. /\ UNCHANGED <<phase, sessionId, outgoing>>
        /\ incoming' \subseteq incoming \ {r}
    BY <1>1 DEF ResolvePermission, machineVars
  <1>10. PumpTypeOK' /\ Stages'
    BY <1>1, <1>5, <1>6 DEF PumpInv, PumpTypeOK, Stages
  <1>11. Handshake' /\ Binding'
    BY <1>1, <1>8, <1>9, HandshakeKept, BindingKept DEF PumpInv
  <1>12. NoneLost'
    <2>1. \A x \in incoming \ {r} : OnItsWay(x)'
      BY <1>1, <1>8, DrainKeepsWay DEF PumpInv, NoneLost
    <2> QED
      BY <1>9, <2>1 DEF NoneLost
  <1> QED
    BY <1>7, <1>8, <1>10, <1>11, <1>12 DEF PumpInv

LEMMA KeyboardQuitInv == PumpInv /\ KeyboardQuit => PumpInv'
  <1> SUFFICES ASSUME PumpInv, KeyboardQuit PROVE PumpInv'
    OBVIOUS
  <1>1. Cancel /\ AbortPendingPermissions /\ UNCHANGED <<pumpVars, historyVars>>
    BY DEF KeyboardQuit
  <1>2. MachineInv' /\ UiInv'
    BY <1>1, CancelInv, AbortPendingPermissionsInv DEF PumpInv
  <1>3. PumpTypeOK' /\ Stages'
    BY <1>1 DEF pumpVars, historyVars, PumpInv, PumpTypeOK, Stages
  <1>4. /\ UNCHANGED <<phase, outgoing, sessionId, exited>> /\ incoming' = {}
    BY <1>1 DEF Cancel, AbortPendingPermissions
  <1>5. Handshake' /\ Binding'
    BY <1>1, <1>4, HandshakeKept, BindingKept DEF pumpVars, PumpInv
  <1>6. NoneLost'
    BY <1>4 DEF NoneLost
  <1> QED
    BY <1>2, <1>3, <1>5, <1>6 DEF PumpInv

-----------------------------------------------------------------------------
(* A delivery.                                                             *)

LEMMA BeginReceiveInv == PumpInv /\ BeginReceive => PumpInv'
  <1> SUFFICES ASSUME PumpInv, BeginReceive PROVE PumpInv'
    OBVIOUS
  <1>1. MachineInv' /\ UiInv'
    BY UnchangedMachineInv, UnchangedUiInv DEF PumpInv, BeginReceive
  <1>2. PumpTypeOK' /\ Stages'
    BY DEF BeginReceive, historyVars, PumpInv, PumpTypeOK, Stages
  <1>3. Handshake' /\ Binding' /\ NoneLost'
    BY HandshakeKept, BindingKept, NoneLostKept
    DEF BeginReceive, machineVars, uiVars, promptVars, PumpInv
  <1> QED
    BY <1>1, <1>2, <1>3 DEF PumpInv

LEMMA EndDrainInv == PumpInv /\ EndDrain => PumpInv'
  <1> SUFFICES ASSUME PumpInv, EndDrain PROVE PumpInv'
    OBVIOUS
  <1>1. MachineInv' /\ UiInv'
    BY UnchangedMachineInv, UnchangedUiInv DEF PumpInv, EndDrain
  <1>2. PumpTypeOK' /\ Stages'
    BY DEF EndDrain, historyVars, PumpInv, PumpTypeOK, Stages
  <1>3. Handshake' /\ Binding' /\ NoneLost'
    BY HandshakeKept, BindingKept, NoneLostKept
    DEF EndDrain, machineVars, uiVars, promptVars, PumpInv
  <1> QED
    BY <1>1, <1>2, <1>3 DEF PumpInv

(* Effects that are no milestone, added while the machine's handshake      *)
(* stands still.                                                           *)
LEMMA AddOthers ==
    ASSUME PumpInv, NEW t \in Seq(EffectType), effects' = effects \o t,
           \A i \in DOMAIN t : t[i].type \in OtherEffects,
           UNCHANGED <<phase, sessionId, outgoing, child, exited, transcript, backlog>>
    PROVE  Handshake' /\ Binding' /\ effects' \in Seq(EffectType)
  <1>1. effects \in Seq(EffectType)
    BY DEF PumpInv, PumpTypeOK
  <1>2. /\ effects' \in Seq(EffectType)
        /\ \A i \in DOMAIN effects : i \in DOMAIN effects' /\ effects'[i] = effects[i]
        /\ \A i \in DOMAIN effects' :
               \/ i \in DOMAIN effects
               \/ effects'[i].type \in OtherEffects
    BY <1>1, ConcatFacts
  <1>3. NoStateError' /\ OneInitialized'
    <2>1. \A i \in DOMAIN effects' : effects'[i].type = "Initialized"
              => i \in DOMAIN effects /\ effects[i].type = "Initialized"
      BY <1>2 DEF OtherEffects
    <2>2. NoStateError'
      BY <2>1 DEF PumpInv, Handshake, NoStateError
    <2>3. OneInitialized'
      BY <2>1 DEF PumpInv, Handshake, OneInitialized
    <2> QED
      BY <2>2, <2>3
  <1>4. OneRequestInFlight'
    BY DEF PumpInv, Handshake, OneRequestInFlight
  <1>5. Binding'
    BY <1>2 DEF PumpInv, Binding, InSession, OtherEffects
  <1> QED
    BY <1>2, <1>3, <1>4, <1>5 DEF Handshake

(* What is on its way stays so when effects are added.                     *)
LEMMA AddKeepsWay ==
    ASSUME PumpInv, NEW t \in Seq(EffectType), effects' = effects \o t,
           UNCHANGED <<requests, choice, permissionQueue>>, NEW r, OnItsWay(r)
    PROVE  OnItsWay(r)'
  <1>1. \A i \in DOMAIN effects : i \in DOMAIN effects' /\ effects'[i] = effects[i]
    BY ConcatFacts DEF PumpInv, PumpTypeOK
  <1> QED
    BY <1>1 DEF OnItsWay

LEMMA DrainGarbageInv == PumpInv /\ DrainGarbage => PumpInv'
  <1> SUFFICES ASSUME PumpInv, DrainGarbage PROVE PumpInv'
    OBVIOUS
  <1> DEFINE t == <<ProtocolError>>
  <1>1. /\ t \in Seq(EffectType)
        /\ \A i \in DOMAIN t : t[i].type \in OtherEffects
    <2>1. ProtocolError.type \in OtherEffects
      BY DEF ProtocolError, OtherEffects
    <2> QED
      BY <2>1, ErrorIsEffect, SingleFacts
  <1>2. effects' = effects \o t
    BY ErrorIsEffect DEF DrainGarbage, PumpInv, PumpTypeOK
  <1> HIDE DEF t
  <1>3. MachineInv' /\ UiInv'
    BY UnchangedMachineInv, UnchangedUiInv DEF PumpInv, DrainGarbage
  <1>4. Handshake' /\ Binding' /\ effects' \in Seq(EffectType)
    BY <1>1, <1>2, AddOthers DEF DrainGarbage, machineVars, uiVars
  <1>5. PumpTypeOK' /\ Stages'
    BY <1>4 DEF DrainGarbage, historyVars, PumpInv, PumpTypeOK, Stages
  <1>6. NoneLost'
    BY <1>1, <1>2, AddKeepsWay
    DEF DrainGarbage, machineVars, uiVars, promptVars, PumpInv, NoneLost
  <1> QED
    BY <1>3, <1>4, <1>5, <1>6 DEF PumpInv

(* An answer to the one request in flight: nothing is in flight after it,  *)
(* and the handshake's milestones are met one at a time.                   *)
LEMMA DrainResponse ==
    ASSUME PumpInv, NEW f \in Frame, f.type = "response", HandleResponse(f),
           effects' = effects \o Effects(f),
           UNCHANGED <<child, exited, transcript, backlog>>
    PROVE  Handshake' /\ Binding' /\ effects' \in Seq(EffectType)
  <1> DEFINE method == outgoing[f.id]
  <1>1. PICK e \in EffectType :
            /\ Effects(f) = <<e>>
            /\ e.type \in {"Initialized", "SessionEstablished",
                           "PromptCompleted", "ProtocolError"}
            /\ e.type = "Initialized" => method = "initialize" /\ f.status # "error"
            /\ e.type = "SessionEstablished" =>
                   method = "session/new" /\ f.status = "ok" /\ e.session = f.session
            /\ f.id \in DOMAIN outgoing /\ method = "session/new"
                   /\ f.status = "ok" => e.type = "SessionEstablished"
    BY ResponseFacts DEF PumpInv
  <1>2. /\ effects' \in Seq(EffectType)
        /\ \A i \in DOMAIN effects : i \in DOMAIN effects' /\ effects'[i] = effects[i]
        /\ \A i \in DOMAIN effects' :
               i \in DOMAIN effects \/ (i = Len(effects) + 1 /\ effects'[i] = e)
        /\ Len(effects) + 1 \in DOMAIN effects' /\ effects'[Len(effects) + 1] = e
    <2>1. effects \in Seq(EffectType) /\ effects' = effects \o <<e>>
      BY <1>1 DEF PumpInv, PumpTypeOK
    <2> QED
      BY <2>1
  <1>3. f.id \in DOMAIN outgoing /\ DOMAIN outgoing = {f.id} /\ method \in Methods
    BY DEF HandleResponse, PumpInv, Handshake, OneRequestInFlight, MachineInv,
           MachineTypeOK
  <1>4. outgoing' = Empty /\ DOMAIN outgoing' = {}
    <2>1. outgoing' = Drop(outgoing, f.id)
      BY DEF HandleResponse
    <2> QED
      BY <1>3, <2>1 DEF Drop, Empty
  <1>5. /\ phase = CASE method = "initialize"     -> "INITIALIZING"
                     [] method = "session/new"    -> "READY"
                     [] method = "session/prompt" -> "PROMPT_IN_FLIGHT"
        /\ phase' = CASE f.status = "error" -> Recovery[method]
                      [] Usable(f, method)  -> IF method = "initialize"
                                                 THEN "READY"
                                                 ELSE "SESSION_ACTIVE"
                      [] f.status # "error" /\ ~Usable(f, method) -> phase
        /\ sessionId' = IF method = "session/new" /\ f.status = "ok"
                          THEN f.session ELSE sessionId
        /\ f.status \in {"ok", "malformed", "error"}
    BY <1>3 DEF HandleResponse, PumpInv, Handshake, OneRequestInFlight, Frame
  <1>6. \A i \in DOMAIN effects : effects[i].type # "Initialized"
    BY <1>3, EmptyFacts DEF PumpInv, Handshake, NoStateError
  <1>7. CASE method = "initialize"
    <2>1. /\ phase = "INITIALIZING" /\ sessionId' = sessionId
          /\ f.status # "error" => phase' = "READY"
          /\ f.status = "error" => phase' = "DISCONNECTED"
      BY <1>5, <1>7 DEF Usable, Recovery, Methods
    <2>2. \A i \in DOMAIN effects : effects[i].type # "SessionEstablished"
      BY <2>1 DEF PumpInv, Binding, InSession
    <2>3. NoStateError' /\ OneInitialized'
      BY <1>1, <1>2, <1>4, <1>6, <2>1
      DEF PumpInv, Handshake, NoStateError, OneInitialized
    <2>4. Binding'
      BY <1>1, <1>2, <1>7, <2>1, <2>2 DEF PumpInv, Binding
    <2> QED
      BY <1>2, <1>4, <2>3, <2>4 DEF Handshake, OneRequestInFlight
  <1>8. CASE method = "session/new"
    <2>1. /\ phase = "READY"
          /\ f.status = "ok" => phase' = "SESSION_ACTIVE" /\ sessionId' = f.session
          /\ f.status # "ok" => phase' = "READY" /\ sessionId' = sessionId
      BY <1>5, <1>8 DEF Usable, Recovery, Methods
    <2>2. \A i \in DOMAIN effects : effects[i].type # "SessionEstablished"
      BY <2>1 DEF PumpInv, Binding, InSession
    <2>3. NoStateError' /\ OneInitialized'
      BY <1>1, <1>2, <1>6, <1>8, <2>1
      DEF PumpInv, Handshake, NoStateError, OneInitialized
    <2>4. Binding'
      BY <1>1, <1>2, <1>3, <1>8, <2>1, <2>2 DEF PumpInv, Binding, InSession
    <2> QED
      BY <1>2, <1>4, <2>3, <2>4 DEF Handshake, OneRequestInFlight
  <1>9. CASE method = "session/prompt"
    <2>1. /\ phase = "PROMPT_IN_FLIGHT" /\ sessionId' = sessionId
          /\ phase' \in {"SESSION_ACTIVE", "PROMPT_IN_FLIGHT"}
      BY <1>5, <1>9 DEF Usable, Recovery, Methods
    <2>2. NoStateError' /\ OneInitialized'
      BY <1>1, <1>2, <1>6, <1>9, <2>1
      DEF PumpInv, Handshake, NoStateError, OneInitialized
    <2>3. Binding'
      BY <1>1, <1>2, <1>9, <2>1 DEF PumpInv, Binding, InSession
    <2> QED
      BY <1>2, <1>4, <2>2, <2>3 DEF Handshake, OneRequestInFlight
  <1> QED
    BY <1>3, <1>7, <1>8, <1>9 DEF Methods

LEMMA DrainFrameInv ==
    ASSUME PumpInv, NEW f \in Frame, DrainFrame(f)
    PROVE  PumpInv'
  <1>1. /\ Handle(f) /\ effects' = effects \o Effects(f) /\ pc = "drain"
        /\ UNCHANGED <<uiVars, child, pc, deliverable, requests, completed,
                       pendingPrompts, transcript, backlog, spawns, historyVars>>
    BY DEF DrainFrame
  <1>2. MachineInv' /\ UiInv'
    BY <1>1, HandleInv, UnchangedUiInv DEF PumpInv
  <1>3. UNCHANGED <<exited, choice, permissionQueue>>
    BY <1>1 DEF uiVars, promptVars
  <1>4. Effects(f) \in Seq(EffectType)
    BY ResponseFacts, OtherFrameFacts, SingleFacts DEF PumpInv
  <1>5. Handshake' /\ Binding' /\ effects' \in Seq(EffectType)
    <2>1. CASE f.type = "response" /\ HandleResponse(f)
      BY <1>1, <1>3, <2>1, DrainResponse
    <2>2. CASE UNCHANGED <<phase, sessionId, outgoing>> /\ f.type # "response"
      BY <1>1, <1>3, <1>4, <2>2, OtherFrameFacts, AddOthers DEF PumpInv
    <2>3. CASE UNCHANGED machineVars /\ f.type = "response" /\ f.id \notin DOMAIN outgoing
      <3>1. Effects(f) = <<ProtocolError>> /\ ProtocolError.type \in OtherEffects
        BY <2>3 DEF Effects, ResponseEffects, ProtocolError, OtherEffects
      <3>2. \A i \in DOMAIN Effects(f) : Effects(f)[i].type \in OtherEffects
        BY <3>1, ErrorIsEffect, SingleFacts
      <3> QED
        BY <1>1, <1>3, <1>4, <2>3, <3>2, AddOthers DEF machineVars
    <2>4. \/ f.type = "response" /\ HandleResponse(f)
          \/ UNCHANGED <<phase, sessionId, outgoing>> /\ f.type # "response"
          \/ UNCHANGED machineVars /\ f.type = "response" /\ f.id \notin DOMAIN outgoing
      BY <1>1 DEF Handle, HandlePermission, Effective, machineVars
    <2> QED
      BY <2>1, <2>2, <2>3, <2>4
  <1>6. PumpTypeOK' /\ Stages'
    BY <1>1, <1>5 DEF historyVars, PumpInv, PumpTypeOK, Stages
  <1>7. NoneLost'
    <2>1. \A r \in incoming : OnItsWay(r)'
      BY <1>1, <1>3, <1>4, AddKeepsWay DEF PumpInv, NoneLost
    <2>2. CASE incoming' \subseteq incoming
      BY <2>1, <2>2 DEF NoneLost
    <2>3. CASE f.type = "permission" /\ HandlePermission(f)
      <3> DEFINE e == PermissionRequested(f.id, f.params)
      <3>1. Effects(f) = <<e>> /\ incoming' = incoming \cup {f.id}
        BY <2>3 DEF Effects, PermissionEffects, HandlePermission
      <3>2. e.type = "PermissionRequested" /\ e.request.id = f.id
        BY DEF PermissionRequested
      <3> HIDE DEF e
      <3>3. effects \in Seq(EffectType) /\ effects' = effects \o <<e>>
        BY <1>1, <3>1 DEF PumpInv, PumpTypeOK
      <3>4. Len(effects) + 1 \in DOMAIN effects' /\ effects'[Len(effects) + 1] = e
        BY <3>3
      <3>5. OnItsWay(f.id)'
        BY <3>2, <3>4 DEF OnItsWay
      <3> QED
        BY <2>1, <3>1, <3>5 DEF NoneLost
    <2>4. incoming' \subseteq incoming \/ (f.type = "permission" /\ HandlePermission(f))
      BY <1>1 DEF Handle, HandleResponse, machineVars
    <2> QED
      BY <2>2, <2>3, <2>4
  <1> QED
    BY <1>2, <1>5, <1>6, <1>7 DEF PumpInv

(* The next effect is taken off the list.                                  *)
LEMMA NextEffectFacts ==
    ASSUME PumpInv, NEW type, NextEffect(type)
    PROVE  /\ pc = "split" /\ effects' \in Seq(EffectType)
           /\ 1 \in DOMAIN effects /\ Head(effects) = effects[1]
           /\ Head(effects) \in EffectType /\ Head(effects).type = type
           /\ \A i \in DOMAIN effects' : /\ i + 1 \in DOMAIN effects /\ i + 1 # 1
                                         /\ i \in Nat /\ effects'[i] = effects[i + 1]
           /\ \A i \in DOMAIN effects :
                  i = 1 \/ (i - 1 \in DOMAIN effects' /\ effects'[i - 1] = effects[i])
  <1>1. /\ effects \in Seq(EffectType) /\ effects # <<>> /\ effects' = Tail(effects)
        /\ pc = "split" /\ Head(effects).type = type
    BY DEF NextEffect, PumpInv, PumpTypeOK
  <1> QED
    BY <1>1, TailFacts

(* Taking an effect that carries no request loses none.                    *)
LEMMA NextEffectWay ==
    ASSUME PumpInv, NEW type, NextEffect(type), type # "PermissionRequested",
           UNCHANGED <<requests, choice, permissionQueue, incoming>>
    PROVE  NoneLost'
  <1>1. \A i \in DOMAIN effects : effects[i].type = "PermissionRequested"
            => i - 1 \in DOMAIN effects' /\ effects'[i - 1] = effects[i]
    BY NextEffectFacts
  <1> QED
    BY <1>1 DEF PumpInv, NoneLost, OnItsWay

(* The first Initialized is the only one, so session/new is sent from      *)
(* READY with nothing in flight.                                           *)
LEMMA SplitInitializedInv == PumpInv /\ SplitInitialized => PumpInv'
  <1> SUFFICES ASSUME PumpInv, SplitInitialized PROVE PumpInv'
    OBVIOUS
  <1>1. /\ NextEffect("Initialized") /\ NewSession /\ consents' = {}
        /\ UNCHANGED <<uiVars, child, pc, deliverable, requests, completed, pendingPrompts,
                       transcript, backlog, spawns, submitted, sent, dropped>>
    BY DEF SplitInitialized
  <1>2. MachineInv' /\ UiInv'
    BY <1>1, NewSessionInv, UnchangedUiInv DEF PumpInv
  <1>3. PumpTypeOK' /\ Stages'
    BY <1>1, NextEffectFacts DEF PumpInv, PumpTypeOK, Stages
  <1>4. /\ phase = "READY" /\ outgoing = Empty /\ Send("session/new")
        /\ UNCHANGED <<phase, sessionId, incoming, exited, choice, permissionQueue>>
    BY <1>1, NextEffectFacts
    DEF NewSession, PumpInv, Handshake, NoStateError, uiVars, promptVars
  <1>5. DOMAIN outgoing' = {nextRequestId} /\ outgoing'[nextRequestId] = "session/new"
    <2>1. "session/new" \in Methods /\ MachineTypeOK /\ IdsAreFresh
      BY DEF Methods, PumpInv, MachineInv
    <2> QED
      BY <1>4, <2>1, SendFacts, EmptyFacts
  <1>6. OneRequestInFlight'
    BY <1>4, <1>5 DEF OneRequestInFlight
  <1>7. \A i \in DOMAIN effects' : effects'[i].type # "Initialized"
    <2>1. /\ 1 \in DOMAIN effects /\ effects[1].type = "Initialized"
          /\ \A i \in DOMAIN effects' : /\ i + 1 \in DOMAIN effects /\ i + 1 # 1
                                        /\ effects'[i] = effects[i + 1]
      BY <1>1, NextEffectFacts
    <2>2. \A i \in DOMAIN effects : effects[i].type = "Initialized" => i = 1
      BY <2>1 DEF PumpInv, Handshake, OneInitialized
    <2> QED
      BY <2>1, <2>2
  <1>8. NoStateError' /\ OneInitialized'
    BY <1>1, <1>4, <1>7 DEF PumpInv, Handshake, NoStateError, OneInitialized
  <1>9. Binding'
    <2>1. \A i \in DOMAIN effects : effects[i].type = "SessionEstablished"
              => i - 1 \in DOMAIN effects' /\ effects'[i - 1] = effects[i]
      BY <1>1, NextEffectFacts
    <2>2. \A i \in DOMAIN effects' : i + 1 \in DOMAIN effects /\ effects'[i] = effects[i + 1]
      BY <1>1, NextEffectFacts
    <2> QED
      BY <1>1, <1>4, <2>1, <2>2 DEF PumpInv, Binding, InSession
  <1>10. NoneLost'
    BY <1>1, <1>4, NextEffectWay
  <1> QED
    BY <1>2, <1>3, <1>6, <1>8, <1>9, <1>10 DEF PumpInv, Handshake

LEMMA SplitEstablishedInv == PumpInv /\ SplitEstablished => PumpInv'
  <1> SUFFICES ASSUME PumpInv, SplitEstablished PROVE PumpInv'
    OBVIOUS
  <1>1. /\ NextEffect("SessionEstablished") /\ transcript' = Head(effects).session
        /\ backlog' = <<>> /\ SendPending(pendingPrompts)
        /\ UNCHANGED <<uiVars, child, pc, deliverable, requests, completed, spawns,
                       submitted, dropped, consents>>
    BY DEF SplitEstablished
  <1>2. /\ MachineInv' /\ OneRequestInFlight'
        /\ sent' \in Seq(1..MaxPrompts) /\ pendingPrompts' \in Seq(1..MaxPrompts)
        /\ UNCHANGED <<sessionId, incoming>>
        /\ InSession => InSession'
        /\ phase # "SESSION_ACTIVE" => UNCHANGED <<phase, outgoing>>
    BY <1>1, SendPendingFacts DEF PumpInv, PumpTypeOK, Handshake
  <1>3. UiInv' /\ UNCHANGED <<exited, choice, permissionQueue>>
    BY <1>1, UnchangedUiInv DEF PumpInv, uiVars, promptVars
  <1>4. transcript' = sessionId /\ transcript' \in SessionIds
    BY <1>1, NextEffectFacts, EffectShapes DEF PumpInv, Binding
  <1>5. PumpTypeOK' /\ Stages'
    <2>1. backlog' \in Seq(EffectType)
      BY <1>1, EmptySeq
    <2> QED
      BY <1>1, <1>2, <1>4, <2>1, NextEffectFacts DEF PumpInv, PumpTypeOK, Stages
  <1>6. \A i \in DOMAIN effects' : /\ i + 1 \in DOMAIN effects /\ i \in Nat
                                   /\ effects'[i] = effects[i + 1]
    BY <1>1, NextEffectFacts
  <1>7. NoStateError'
    BY <1>1, <1>2, <1>3, <1>6 DEF PumpInv, Handshake, NoStateError
  <1>8. OneInitialized'
    BY <1>6 DEF PumpInv, Handshake, OneInitialized
  <1>9. Binding'
    BY <1>1, <1>2, <1>4, <1>6 DEF PumpInv, Binding
  <1>10. NoneLost'
    BY <1>1, <1>2, <1>3, NextEffectWay
  <1> QED
    BY <1>2, <1>3, <1>5, <1>7, <1>8, <1>9, <1>10 DEF PumpInv, Handshake

LEMMA SplitOtherInv == PumpInv /\ SplitOther => PumpInv'
  <1> SUFFICES ASSUME PumpInv, SplitOther PROVE PumpInv'
    OBVIOUS
  <1> DEFINE e == Head(effects)
  <1>1. PICK type \in OtherEffects : NextEffect(type)
    BY DEF SplitOther
  <1>2. /\ deliverable' = Append(deliverable, e)
        /\ requests' = IF e.type = "PermissionRequested"
                         THEN Append(requests, e.request) ELSE requests
        /\ completed' = (completed \/ e.type = "PromptCompleted")
        /\ UNCHANGED <<machineVars, uiVars, child, pc, pendingPrompts, transcript,
                       backlog, spawns, historyVars>>
    BY DEF SplitOther
  <1>3. /\ e \in EffectType /\ e.type = type /\ e = effects[1] /\ pc = "split"
        /\ effects' \in Seq(EffectType)
        /\ e.type = "PermissionRequested" => e.request \in Request
    BY <1>1, NextEffectFacts, EffectShapes
  <1>4. MachineInv' /\ UiInv' /\ UNCHANGED <<exited, choice, permissionQueue, incoming,
                                            phase, outgoing, sessionId>>
    BY <1>2, UnchangedMachineInv, UnchangedUiInv
    DEF PumpInv, machineVars, uiVars, promptVars
  <1>5. PumpTypeOK' /\ Stages'
    <2>1. deliverable' \in Seq(EffectType) /\ requests' \in Seq(Request)
      BY <1>2, <1>3, AppendFacts DEF PumpInv, PumpTypeOK
    <2>2. completed' \in BOOLEAN
      BY <1>2
    <2> QED
      BY <1>2, <1>3, <2>1, <2>2 DEF PumpInv, PumpTypeOK, Stages, historyVars
  <1>6. \A i \in DOMAIN effects' : /\ i + 1 \in DOMAIN effects /\ i \in Nat
                                   /\ effects'[i] = effects[i + 1]
    BY <1>1, NextEffectFacts
  <1>7. \A i \in DOMAIN effects :
            i = 1 \/ (i - 1 \in DOMAIN effects' /\ effects'[i - 1] = effects[i])
    BY <1>1, NextEffectFacts
  <1>8. Handshake'
    <2>1. NoStateError'
      BY <1>2, <1>4, <1>6 DEF PumpInv, Handshake, NoStateError
    <2>2. OneInitialized'
      BY <1>6 DEF PumpInv, Handshake, OneInitialized
    <2>3. OneRequestInFlight'
      BY <1>4 DEF PumpInv, Handshake, OneRequestInFlight
    <2> QED
      BY <2>1, <2>2, <2>3 DEF Handshake
  <1>9. Binding'
    <2>1. \A i \in DOMAIN effects : effects[i].type = "SessionEstablished" => i # 1
      BY <1>3 DEF OtherEffects
    <2> QED
      BY <1>2, <1>4, <1>6, <1>7, <2>1 DEF PumpInv, Binding, InSession
  <1>10. NoneLost'
    <2> SUFFICES ASSUME NEW r \in incoming PROVE OnItsWay(r)'
      BY <1>4 DEF NoneLost
    <2>1. \A i \in DOMAIN requests : i \in DOMAIN requests' /\ requests'[i] = requests[i]
      BY <1>2, <1>3, AppendFacts DEF PumpInv, PumpTypeOK
    <2>2. ASSUME NEW i \in DOMAIN effects, effects[i].type = "PermissionRequested",
                 effects[i].request.id = r
          PROVE  OnItsWay(r)'
      <3>1. CASE i = 1
        <4>1. /\ Len(requests) + 1 \in DOMAIN requests'
              /\ requests'[Len(requests) + 1] = effects[1].request
          BY <1>2, <1>3, <2>2, <3>1, AppendFacts DEF PumpInv, PumpTypeOK
        <4> QED
          BY <2>2, <3>1, <4>1 DEF OnItsWay
      <3>2. CASE i # 1
        BY <1>7, <2>2, <3>2 DEF OnItsWay
      <3> QED
        BY <3>1, <3>2
    <2>3. OnItsWay(r)
      BY DEF PumpInv, NoneLost
    <2> QED
      BY <1>4, <2>1, <2>2, <2>3 DEF OnItsWay
  <1> QED
    BY <1>4, <1>5, <1>8, <1>9, <1>10 DEF PumpInv

LEMMA DeliverAllInv == PumpInv /\ DeliverAll => PumpInv'
  <1> SUFFICES ASSUME PumpInv, DeliverAll PROVE PumpInv'
    OBVIOUS
  <1>1. /\ effects = <<>> /\ deliverable' = <<>> /\ pc' = "present"
        /\ backlog' = IF transcript = NoSession THEN backlog \o deliverable ELSE backlog
        /\ UNCHANGED <<machineVars, uiVars, child, effects, requests, completed,
                       pendingPrompts, transcript, spawns, historyVars>>
    BY DEF DeliverAll, Deliver
  <1>2. MachineInv' /\ UiInv'
    BY <1>1, UnchangedMachineInv, UnchangedUiInv DEF PumpInv
  <1>3. PumpTypeOK' /\ Stages'
    <2>1. backlog' \in Seq(EffectType)
      BY <1>1, ConcatFacts DEF PumpInv, PumpTypeOK
    <2>2. deliverable' \in Seq(EffectType)
      BY <1>1, EmptySeq
    <2> QED
      BY <1>1, <2>1, <2>2 DEF PumpInv, PumpTypeOK, Stages, historyVars
  <1>4. Handshake' /\ Binding' /\ NoneLost'
    BY <1>1, HandshakeKept, BindingKept, NoneLostKept
    DEF machineVars, uiVars, promptVars, PumpInv
  <1> QED
    BY <1>2, <1>3, <1>4 DEF PumpInv

LEMMA PresentInv == PumpInv /\ Present => PumpInv'
  <1> SUFFICES ASSUME PumpInv, Present PROVE PumpInv'
    OBVIOUS
  <1> DEFINE q == Head(requests)
  <1>1. /\ pc = "present" /\ requests # <<>> /\ requests' = Tail(requests)
        /\ PromptPermission(q)
        /\ UNCHANGED <<machineVars, child, pc, effects, deliverable, completed,
                       pendingPrompts, transcript, backlog, spawns, historyVars>>
    BY DEF Present
  <1>2. /\ requests' \in Seq(Request) /\ q \in Request /\ q = requests[1]
        /\ \A i \in DOMAIN requests :
               i = 1 \/ (i - 1 \in DOMAIN requests' /\ requests'[i - 1] = requests[i])
    BY <1>1, TailFacts DEF PumpInv, PumpTypeOK
  <1>3. MachineInv' /\ UiInv'
    BY <1>1, <1>2, UnchangedMachineInv, PromptPermissionInv DEF PumpInv
  <1>4. PumpTypeOK' /\ Stages'
    BY <1>1, <1>2 DEF PumpInv, PumpTypeOK, Stages, historyVars
  <1>5. Handshake' /\ Binding'
    BY <1>1, HandshakeKept, BindingKept DEF machineVars, PromptPermission, PumpInv
  <1>6. NoneLost'
    <2> SUFFICES ASSUME NEW r \in incoming PROVE OnItsWay(r)'
      BY <1>1 DEF NoneLost, machineVars
    <2>1. OnItsWay(r)
      BY DEF PumpInv, NoneLost
    <2>2. /\ \A i \in DOMAIN permissionQueue :
                 i \in DOMAIN permissionQueue' /\ permissionQueue'[i] = permissionQueue[i]
          /\ choice # NoRequest => choice' = choice
          /\ \/ choice' = q /\ choice' # NoRequest
             \/ \E i \in DOMAIN permissionQueue' : permissionQueue'[i] = q
      <3>1. CASE minibuffer # "none"
        <4>1. permissionQueue' = Append(permissionQueue, q) /\ UNCHANGED choice
          BY <1>1, <3>1 DEF PromptPermission
        <4> QED
          BY <1>2, <4>1, AppendFacts DEF PumpInv, UiInv, UiTypeOK
      <3>2. CASE minibuffer = "none"
        BY <1>1, <1>2, <3>2, NoRequestAssumption
        DEF PromptPermission, OpenChoice, PumpInv, UiInv, RowIsCoherent
      <3> QED
        BY <3>1, <3>2
    <2>3. ASSUME NEW i \in DOMAIN requests, requests[i].id = r
          PROVE  OnItsWay(r)'
      BY <1>2, <2>2, <2>3 DEF OnItsWay
    <2> QED
      BY <1>1, <2>1, <2>2, <2>3 DEF OnItsWay
  <1> QED
    BY <1>3, <1>4, <1>5, <1>6 DEF PumpInv

LEMMA EndReceiveInv == PumpInv /\ EndReceive => PumpInv'
  <1> SUFFICES ASSUME PumpInv, EndReceive PROVE PumpInv'
    OBVIOUS
  <1>1. /\ pc = "present" /\ requests = <<>> /\ pc' = "idle" /\ completed' = FALSE
        /\ \/ SendPending(pendingPrompts)
           \/ UNCHANGED <<machineVars, pendingPrompts, sent>>
        /\ UNCHANGED <<uiVars, child, effects, deliverable, requests, transcript, backlog,
                       spawns, submitted, dropped, consents>>
    BY DEF EndReceive
  <1>2. UiInv' /\ UNCHANGED <<exited, choice, permissionQueue>>
    BY <1>1, UnchangedUiInv DEF PumpInv, uiVars, promptVars
  <1>3. CASE SendPending(pendingPrompts)
    <2>1. MachineInv' /\ Handshake' /\ Binding'
      BY <1>1, <1>2, <1>3, SendPendingKeeps DEF PumpInv, PumpTypeOK
    <2>2. /\ sent' \in Seq(1..MaxPrompts) /\ pendingPrompts' \in Seq(1..MaxPrompts)
          /\ UNCHANGED incoming
      BY <1>3, SendPendingFacts DEF PumpInv, PumpTypeOK, Handshake
    <2>3. PumpTypeOK' /\ Stages'
      BY <1>1, <2>2 DEF PumpInv, PumpTypeOK, Stages
    <2>4. NoneLost'
      BY <1>1, <1>2, <2>2, NoneLostKept DEF PumpInv
    <2> QED
      BY <1>2, <2>1, <2>3, <2>4 DEF PumpInv
  <1>4. CASE UNCHANGED <<machineVars, pendingPrompts, sent>>
    <2>1. MachineInv' /\ UNCHANGED <<phase, outgoing, sessionId, incoming>>
      BY <1>4, UnchangedMachineInv DEF PumpInv, machineVars
    <2>2. PumpTypeOK' /\ Stages'
      BY <1>1, <1>4 DEF PumpInv, PumpTypeOK, Stages
    <2>3. Handshake' /\ Binding' /\ NoneLost'
      BY <1>1, <1>2, <2>1, HandshakeKept, BindingKept, NoneLostKept DEF PumpInv
    <2> QED
      BY <1>2, <2>1, <2>2, <2>3 DEF PumpInv
  <1> QED
    BY <1>1, <1>3, <1>4

-----------------------------------------------------------------------------
(* The end of a child.                                                     *)

LEMMA AgentExitInv == PumpInv /\ AgentExit => PumpInv'
  <1> SUFFICES ASSUME PumpInv, AgentExit PROVE PumpInv'
    OBVIOUS
  <1>1. /\ pc = "idle" /\ child' = FALSE /\ AbortPendingPermissions /\ FreshMachine
        /\ dropped' = dropped \cup ToSet(pendingPrompts)
        /\ pendingPrompts' = <<>> /\ backlog' = <<>> /\ transcript' = NoSession
        /\ consents' = {}
        /\ UNCHANGED <<pc, effects, deliverable, requests, completed, spawns, submitted, sent>>
    BY DEF AgentExit, Reset, Waiting
  <1>2. MachineInv' /\ UiInv'
    BY <1>1, FreshMachineInv, AbortPendingPermissionsInv DEF PumpInv
  <1>3. /\ phase' = "DISCONNECTED" /\ sessionId' = NoSession /\ incoming' = {}
        /\ outgoing' = Empty /\ effects' = <<>>
    BY <1>1 DEF FreshMachine, PumpInv, Stages
  <1>4. PumpTypeOK' /\ Stages'
    <2>1. dropped' \subseteq 1..MaxPrompts
      BY <1>1, ToSetFacts DEF PumpInv, PumpTypeOK
    <2>2. pendingPrompts' \in Seq(1..MaxPrompts) /\ backlog' \in Seq(EffectType)
      BY <1>1, EmptySeq
    <2> QED
      BY <1>1, <2>1, <2>2 DEF PumpInv, PumpTypeOK, Stages
  <1>5. Handshake' /\ Binding' /\ NoneLost'
    BY <1>1, <1>3, EmptyFacts
    DEF Handshake, NoStateError, OneInitialized, OneRequestInFlight, Binding, NoneLost
  <1> QED
    BY <1>2, <1>4, <1>5 DEF PumpInv

LEMMA CloseInv == PumpInv /\ Close => PumpInv'
  <1> SUFFICES ASSUME PumpInv, Close PROVE PumpInv'
    OBVIOUS
  <1>1. MachineInv' /\ UiInv'
    BY UnchangedMachineInv, UnchangedUiInv DEF PumpInv, Close
  <1>2. PumpTypeOK' /\ Stages'
    BY DEF Close, historyVars, PumpInv, PumpTypeOK, Stages
  <1>3. Handshake' /\ Binding' /\ NoneLost'
    BY HandshakeKept, BindingKept, NoneLostKept
    DEF Close, machineVars, uiVars, promptVars, PumpInv
  <1> QED
    BY <1>1, <1>2, <1>3 DEF PumpInv

LEMMA PumpNextInv == PumpInv /\ [Next]_vars => PumpInv'
  <1> SUFFICES ASSUME PumpInv, [Next]_vars PROVE PumpInv'
    OBVIOUS
  <1>1. CASE UserEvent
    BY <1>1, EditorKeyInv, DismissPromptInv, SubmitPromptInv, SubmitAndSpawnInv,
       SubmitSpawnFailsInv, AnswerPermissionInv, KeyboardQuitInv
    DEF UserEvent
  <1>2. CASE PumpStep
    BY <1>2, EndDrainInv, SplitInitializedInv, SplitEstablishedInv, SplitOtherInv,
       DeliverAllInv, PresentInv, EndReceiveInv
    DEF PumpStep
  <1>3. CASE AgentEvent
    BY <1>3, BeginReceiveInv, DrainFrameInv, DrainGarbageInv, AgentExitInv
    DEF AgentEvent
  <1>4. CASE Close
    BY <1>4, CloseInv
  <1>5. CASE Terminated \/ UNCHANGED vars
    BY <1>5, PumpStutterInv DEF Terminated
  <1> QED
    BY <1>1, <1>2, <1>3, <1>4, <1>5 DEF Next

-----------------------------------------------------------------------------
(* The pump keeps its inductive invariant with any peer, any user and any  *)
(* sequence of children.                                                   *)
THEOREM PumpCorrect == Spec => []PumpInv
  <1>1. Init => PumpInv
    BY PumpInitInv
  <1>2. PumpInv /\ [Next]_vars => PumpInv'
    BY PumpNextInv
  <1> QED
    BY <1>1, <1>2, PTL DEF Spec

(* Every field keeps its type, the peer's effects included.                *)
THEOREM PumpTypeCorrect == Spec => []TypeOK
  <1>1. PumpInv => TypeOK
    BY DEF PumpInv, PumpTypeOK, TypeOK, MachineInv, UiInv
  <1> QED
    BY <1>1, PumpCorrect, PTL

(* No call of start, new_session or prompt raises AcpStateError through    *)
(* the editor's loop.                                                      *)
THEOREM PumpNoStateError == Spec => []NoStateError
  <1>1. PumpInv => NoStateError
    BY DEF PumpInv, Handshake
  <1> QED
    BY <1>1, PumpCorrect, PTL

(* Turns never overlap: one client request is in flight at a time, and the *)
(* phase says which.                                                       *)
THEOREM PumpOneRequest == Spec => []OneRequestInFlight
  <1>1. PumpInv => OneRequestInFlight
    BY DEF PumpInv, Handshake
  <1> QED
    BY <1>1, PumpCorrect, PTL

(* Between events the bound transcript is the one of the machine's         *)
(* session, and nothing is held back once there is one (_bind, _deliver).  *)
THEOREM PumpTranscript == Spec => []TranscriptFollowsSession
  <1>1. PumpInv => TranscriptFollowsSession
    BY DEF PumpInv, Stages, Binding, TranscriptFollowsSession
  <1> QED
    BY <1>1, PumpCorrect, PTL

(* C-g never answers a request behind the user's back: when it reaches the *)
(* turn no request is pending.                                             *)
THEOREM PumpCancelFindsNothing == Spec => []CancelFindsNothing
  <1>1. PumpInv => CancelFindsNothing
    <2> SUFFICES ASSUME PumpInv, Waiting, Idle PROVE incoming = {}
      BY DEF CancelFindsNothing
    <2>1. effects = <<>> /\ requests = <<>>
      BY DEF PumpInv, Stages, Waiting
    <2>2. permissionQueue = <<>> /\ choice = NoRequest
      BY DEF PumpInv, UiInv, RowIsCoherent, QueueBehindPrompt, Idle
    <2> QED
      BY <2>1, <2>2 DEF PumpInv, NoneLost, OnItsWay
  <1> QED
    BY <1>1, PumpCorrect, PTL

-----------------------------------------------------------------------------
(* The requests on their way to the user.                                  *)

(* An effect that carries a request to be shown.                           *)
Asks(i) == effects[i].type = "PermissionRequested"

(* The machine awaits an answer to q, and holds the payload q shows.       *)
Current(q) == q.id \in incoming /\ q.params = requestParams[q.id]

Tracked ==
    /\ \A i \in DOMAIN effects : Asks(i) => Current(effects[i].request)
    /\ \A i \in DOMAIN requests : Current(requests[i])
    /\ \A i \in DOMAIN permissionQueue : Current(permissionQueue[i])
    /\ choice # NoRequest => Current(choice)

(* No id is twice at one station of the way ...                            *)
Distinct ==
    /\ \A i, j \in DOMAIN effects :
           Asks(i) /\ Asks(j) /\ effects[i].request.id = effects[j].request.id => i = j
    /\ \A i, j \in DOMAIN requests : requests[i].id = requests[j].id => i = j
    /\ \A i, j \in DOMAIN permissionQueue :
           permissionQueue[i].id = permissionQueue[j].id => i = j

(* ... nor at two of them.                                                 *)
Apart ==
    /\ \A i \in DOMAIN effects : Asks(i) =>
           /\ \A j \in DOMAIN requests : requests[j].id # effects[i].request.id
           /\ \A j \in DOMAIN permissionQueue :
                  permissionQueue[j].id # effects[i].request.id
           /\ choice # NoRequest => choice.id # effects[i].request.id
    /\ \A i \in DOMAIN requests :
           /\ \A j \in DOMAIN permissionQueue : permissionQueue[j].id # requests[i].id
           /\ choice # NoRequest => choice.id # requests[i].id
    /\ choice # NoRequest =>
           \A j \in DOMAIN permissionQueue : permissionQueue[j].id # choice.id

(* With NoneLost, "exactly the requests in flight, each in one place" is   *)
(* inductive: a new request comes with an id that is not in flight, hence  *)
(* (Tracked) is nowhere on the way yet, and an answer removes from the     *)
(* machine the one request (Distinct, Apart) that leaves the row.          *)
RequestInv == Tracked /\ Distinct /\ Apart

-----------------------------------------------------------------------------
(* What keeps it, by what happens to the carriers.                         *)

LEMMA RequestInitInv == Init => RequestInv
  BY SingleFacts, NoRequestAssumption
  DEF Init, UiInit, RequestInv, Tracked, Distinct, Apart

(* Nothing moves.                                                          *)
LEMMA NothingMoves ==
    ASSUME RequestInv,
           UNCHANGED <<effects, requests, permissionQueue, choice, incoming, requestParams>>
    PROVE  RequestInv'
  BY DEF RequestInv, Tracked, Distinct, Apart, Asks, Current

(* All is taken down.                                                      *)
LEMMA NothingLeft ==
    ASSUME effects' = <<>>, requests' = <<>>, permissionQueue' = <<>>, choice' = NoRequest
    PROVE  RequestInv'
  BY DEF RequestInv, Tracked, Distinct, Apart

(* The row is freed: the head of the queue takes it, and at most the       *)
(* request that was on the row leaves the machine.                         *)
LEMMA RowFreed ==
    ASSUME PumpInv, RequestInv, DrainPermissionQueue, UNCHANGED <<effects, requests>>,
           \A r \in incoming :
               \/ choice # NoRequest /\ choice.id = r
               \/ r \in incoming' /\ requestParams'[r] = requestParams[r]
    PROVE  RequestInv'
  <1> DEFINE Still(q) == q.id \in incoming' /\ q.params = requestParams'[q.id]
  <1>1. permissionQueue \in Seq(Request)
    BY DEF PumpInv, UiInv, UiTypeOK
  <1>2. \A q : Current(q) /\ (choice = NoRequest \/ choice.id # q.id) => Still(q)
    BY DEF Current
  <1>3. /\ \A i \in DOMAIN effects : Asks(i) => Still(effects[i].request)
        /\ \A i \in DOMAIN requests : Still(requests[i])
        /\ \A i \in DOMAIN permissionQueue : Still(permissionQueue[i])
    <2> HIDE DEF Still
    <2> QED
      BY <1>2 DEF RequestInv, Tracked, Apart
  <1>4. CASE permissionQueue = <<>>
    <2>1. choice' = NoRequest /\ permissionQueue' = <<>>
      BY <1>4 DEF DrainPermissionQueue
    <2> QED
      BY <1>3, <2>1 DEF RequestInv, Tracked, Distinct, Apart, Asks, Current
  <1>5. CASE permissionQueue # <<>>
    <2>1. choice' = Head(permissionQueue) /\ permissionQueue' = Tail(permissionQueue)
      BY <1>5 DEF DrainPermissionQueue, OpenChoice
    <2>2. /\ 1 \in DOMAIN permissionQueue /\ choice' = permissionQueue[1]
          /\ \A i \in DOMAIN permissionQueue' :
                 /\ i + 1 \in DOMAIN permissionQueue /\ i + 1 # 1 /\ i \in Nat
                 /\ permissionQueue'[i] = permissionQueue[i + 1]
      BY <1>1, <1>5, <2>1, TailFacts
    <2>3. Tracked'
      BY <1>3, <2>2 DEF Tracked, Current, Asks
    <2>4. Distinct'
      <3>1. \A i, j \in DOMAIN permissionQueue' :
                permissionQueue'[i].id = permissionQueue'[j].id => i = j
        BY <2>2 DEF RequestInv, Distinct
      <3> QED
        BY <3>1 DEF RequestInv, Distinct, Asks
    <2>5. Apart'
      BY <2>2 DEF RequestInv, Distinct, Apart, Asks
    <2> QED
      BY <2>3, <2>4, <2>5 DEF RequestInv
  <1> QED
    BY <1>4, <1>5

(* Effects that carry no request are added.                                *)
LEMMA OthersAdded ==
    ASSUME PumpInv, RequestInv, NEW t \in Seq(EffectType), effects' = effects \o t,
           \A i \in DOMAIN t : t[i].type # "PermissionRequested",
           UNCHANGED <<requests, permissionQueue, choice, incoming, requestParams>>
    PROVE  RequestInv'
  <1>1. \A i \in DOMAIN effects' : Asks(i)'
            => i \in DOMAIN effects /\ effects'[i] = effects[i] /\ Asks(i)
    <2>1. effects \in Seq(EffectType)
      BY DEF PumpInv, PumpTypeOK
    <2>2. /\ \A i \in DOMAIN effects : effects'[i] = effects[i]
          /\ \A i \in DOMAIN effects' :
                 \/ i \in DOMAIN effects
                 \/ i - Len(effects) \in DOMAIN t /\ effects'[i] = t[i - Len(effects)]
      BY <2>1, ConcatFacts
    <2> QED
      BY <2>2 DEF Asks
  <1>2. Tracked'
    BY <1>1 DEF RequestInv, Tracked, Current
  <1>3. Distinct'
    BY <1>1 DEF RequestInv, Distinct
  <1>4. Apart'
    BY <1>1 DEF RequestInv, Apart
  <1> QED
    BY <1>2, <1>3, <1>4 DEF RequestInv

(* A request the machine has just begun to track is added.                 *)
LEMMA RequestAdded ==
    ASSUME PumpInv, RequestInv, NEW r \in RequestIds, NEW p \in Params,
           effects' = effects \o <<PermissionRequested(r, p)>>,
           r \notin incoming, incoming' = incoming \cup {r},
           requestParams' = Put(requestParams, r, p),
           UNCHANGED <<requests, permissionQueue, choice>>
    PROVE  RequestInv'
  <1> DEFINE e == PermissionRequested(r, p)
             n == Len(effects) + 1
  <1>1. /\ e.request.id = r /\ e.request.params = p
        /\ e.type = "PermissionRequested" /\ e \in EffectType
    BY RequestIsEffect DEF PermissionRequested
  <1>2. /\ \A i \in DOMAIN effects : effects'[i] = effects[i]
        /\ \A i \in DOMAIN effects' : i \in DOMAIN effects \/ i = n
        /\ effects'[n] = e
    <2>1. effects \in Seq(EffectType) /\ effects' = effects \o <<e>>
      BY DEF PumpInv, PumpTypeOK
    <2> HIDE DEF e
    <2> QED
      BY <2>1
  <1> HIDE DEF e, n
  <1>3. \A i \in DOMAIN effects : Asks(i)' <=> Asks(i)
    BY <1>2 DEF Asks
  <1>4. requestParams'[r] = p /\ \A x \in incoming : requestParams'[x] = requestParams[x]
    <2>1. DOMAIN requestParams = incoming
      BY DEF PumpInv, MachineInv, PendingTracked
    <2> QED
      BY <2>1 DEF Put
  <1> DEFINE Still(q) == q.id \in incoming' /\ q.params = requestParams'[q.id]
  <1>5. \A q : Current(q) => Still(q) /\ q.id # r
    BY <1>4 DEF Current
  <1>6. Still(e.request)
    BY <1>1, <1>4
  <1>7. Tracked'
    <2> HIDE DEF Still
    <2>1. \A i \in DOMAIN effects' : Asks(i)' => Still(effects'[i].request)
      BY <1>2, <1>3, <1>5, <1>6 DEF RequestInv, Tracked
    <2>2. /\ \A i \in DOMAIN requests : Still(requests[i])
          /\ \A i \in DOMAIN permissionQueue : Still(permissionQueue[i])
          /\ choice # NoRequest => Still(choice)
      BY <1>5 DEF RequestInv, Tracked
    <2> QED
      BY <2>1, <2>2 DEF Tracked, Current, Still
  <1>8. Distinct'
    <2>1. \A i \in DOMAIN effects : Asks(i) => effects[i].request.id # r
      BY <1>5 DEF RequestInv, Tracked
    <2>2. ASSUME NEW i \in DOMAIN effects', NEW j \in DOMAIN effects', Asks(i)', Asks(j)',
                 effects'[i].request.id = effects'[j].request.id
          PROVE  i = j
      BY <1>1, <1>2, <1>3, <2>1, <2>2 DEF RequestInv, Distinct
    <2> QED
      BY <2>2 DEF RequestInv, Distinct
  <1>9. Apart'
    <2>1. /\ \A i \in DOMAIN requests : requests[i].id # r
          /\ \A i \in DOMAIN permissionQueue : permissionQueue[i].id # r
          /\ choice # NoRequest => choice.id # r
      BY <1>5 DEF RequestInv, Tracked
    <2> QED
      BY <1>1, <1>2, <1>3, <2>1 DEF RequestInv, Apart
  <1> QED
    BY <1>7, <1>8, <1>9 DEF RequestInv

(* The next effect carries no request.                                     *)
LEMMA OtherTaken ==
    ASSUME PumpInv, RequestInv, NEW type, NextEffect(type),
           UNCHANGED <<requests, permissionQueue, choice, incoming, requestParams>>
    PROVE  RequestInv'
  <1>1. \A i \in DOMAIN effects' : /\ i + 1 \in DOMAIN effects /\ i \in Nat
                                   /\ effects'[i] = effects[i + 1]
                                   /\ Asks(i)' <=> Asks(i + 1)
    BY NextEffectFacts DEF Asks
  <1>2. Tracked'
    BY <1>1 DEF RequestInv, Tracked, Current
  <1>3. Distinct'
    BY <1>1 DEF RequestInv, Distinct
  <1>4. Apart'
    BY <1>1 DEF RequestInv, Apart
  <1> QED
    BY <1>2, <1>3, <1>4 DEF RequestInv

(* The next effect carries a request: it is set aside to be presented.     *)
LEMMA RequestTaken ==
    ASSUME PumpInv, RequestInv, NextEffect("PermissionRequested"),
           requests' = Append(requests, effects[1].request),
           UNCHANGED <<permissionQueue, choice, incoming, requestParams>>
    PROVE  RequestInv'
  <1>1. \A i \in DOMAIN effects' : /\ i + 1 \in DOMAIN effects /\ i \in Nat /\ i + 1 # 1
                                   /\ effects'[i] = effects[i + 1]
                                   /\ Asks(i)' <=> Asks(i + 1)
    BY NextEffectFacts DEF Asks
  <1>2. 1 \in DOMAIN effects /\ Asks(1) /\ effects[1].request \in Request
    BY NextEffectFacts, EffectShapes DEF Asks
  <1> DEFINE q == effects[1].request
             n == Len(requests) + 1
  <1>3. /\ \A i \in DOMAIN requests : i \in DOMAIN requests' /\ requests'[i] = requests[i]
        /\ \A i \in DOMAIN requests' : i \in DOMAIN requests \/ i = n
        /\ requests'[n] = q
    <2>1. requests \in Seq(Request) /\ requests' = Append(requests, q)
      BY DEF PumpInv, PumpTypeOK
    <2> HIDE DEF q
    <2> QED
      BY <1>2, <2>1
  <1>4. Tracked'
    BY <1>1, <1>2, <1>3 DEF RequestInv, Tracked, Current
  <1>5. Distinct'
    <2>1. \A i \in DOMAIN requests : requests[i].id # q.id
      BY <1>2 DEF RequestInv, Apart
    <2>2. \A i, j \in DOMAIN requests' : requests'[i].id = requests'[j].id => i = j
      BY <1>3, <2>1 DEF RequestInv, Distinct
    <2>3. \A i, j \in DOMAIN effects' : Asks(i)' /\ Asks(j)'
              /\ effects'[i].request.id = effects'[j].request.id => i = j
      BY <1>1 DEF RequestInv, Distinct
    <2> QED
      BY <2>2, <2>3 DEF RequestInv, Distinct
  <1>6. Apart'
    <2>1. \A i \in DOMAIN effects' : Asks(i)' =>
              /\ effects'[i].request.id # q.id
              /\ \A j \in DOMAIN requests : requests[j].id # effects'[i].request.id
              /\ \A j \in DOMAIN permissionQueue :
                     permissionQueue[j].id # effects'[i].request.id
              /\ choice # NoRequest => choice.id # effects'[i].request.id
      BY <1>1, <1>2 DEF RequestInv, Distinct, Apart
    <2>2. /\ \A j \in DOMAIN permissionQueue : permissionQueue[j].id # q.id
          /\ choice # NoRequest => choice.id # q.id
      BY <1>2 DEF RequestInv, Apart
    <2> QED
      BY <1>3, <2>1, <2>2 DEF RequestInv, Apart
  <1> QED
    BY <1>4, <1>5, <1>6 DEF RequestInv

(* The first request set aside goes behind the row, or onto it.            *)
LEMMA RequestPresented ==
    ASSUME PumpInv, RequestInv, Present
    PROVE  RequestInv'
  <1> DEFINE q == requests[1]
             n == Len(permissionQueue) + 1
  <1>1. /\ requests # <<>> /\ requests' = Tail(requests)
        /\ PromptPermission(Head(requests))
        /\ UNCHANGED <<effects, incoming, requestParams>>
    BY DEF Present, machineVars
  <1>2. requests \in Seq(Request) /\ permissionQueue \in Seq(Request)
    BY DEF PumpInv, PumpTypeOK, UiInv, UiTypeOK
  <1>3. /\ 1 \in DOMAIN requests /\ Head(requests) = q /\ q \in Request
        /\ \A i \in DOMAIN requests' : /\ i + 1 \in DOMAIN requests /\ i \in Nat
                                       /\ i + 1 # 1 /\ requests'[i] = requests[i + 1]
    BY <1>1, <1>2, TailFacts
  <1>4. /\ Current(q)
        /\ \A i \in DOMAIN effects : Asks(i) => effects[i].request.id # q.id
        /\ \A i \in DOMAIN requests' : requests'[i].id # q.id
        /\ \A i \in DOMAIN permissionQueue : permissionQueue[i].id # q.id
        /\ choice # NoRequest => choice.id # q.id
    BY <1>3 DEF RequestInv, Tracked, Distinct, Apart
  <1>5. /\ \A i \in DOMAIN requests' : Current(requests'[i])
        /\ \A i, j \in DOMAIN requests' : requests'[i].id = requests'[j].id => i = j
    BY <1>3 DEF RequestInv, Tracked, Distinct
  <1>6. CASE minibuffer # "none"
    <2>1. permissionQueue' = Append(permissionQueue, q) /\ UNCHANGED choice
      BY <1>1, <1>3, <1>6 DEF PromptPermission
    <2>2. /\ \A i \in DOMAIN permissionQueue : permissionQueue'[i] = permissionQueue[i]
          /\ \A i \in DOMAIN permissionQueue' : i \in DOMAIN permissionQueue \/ i = n
          /\ permissionQueue'[n] = q
      <3>1. q \in Request
        BY <1>3
      <3> HIDE DEF q
      <3> QED
        BY <1>2, <2>1, <3>1
    <2> HIDE DEF q, n
    <2>3. Tracked'
      BY <1>1, <1>4, <1>5, <2>1, <2>2 DEF RequestInv, Tracked, Current, Asks
    <2>4. Distinct'
      BY <1>1, <1>4, <1>5, <2>2 DEF RequestInv, Distinct, Asks
    <2>5. Apart'
      <3>1. \A i \in DOMAIN effects : Asks(i) =>
                /\ \A j \in DOMAIN requests' : requests'[j].id # effects[i].request.id
                /\ \A j \in DOMAIN permissionQueue' :
                       permissionQueue'[j].id # effects[i].request.id
        BY <1>3, <1>4, <2>2 DEF RequestInv, Apart
      <3>2. \A i \in DOMAIN requests' :
                /\ \A j \in DOMAIN permissionQueue' : permissionQueue'[j].id # requests'[i].id
                /\ choice # NoRequest => choice.id # requests'[i].id
        BY <1>3, <1>4, <2>2 DEF RequestInv, Apart
      <3> QED
        BY <1>1, <1>4, <2>1, <2>2, <3>1, <3>2 DEF RequestInv, Apart, Asks
    <2> QED
      BY <2>3, <2>4, <2>5 DEF RequestInv
  <1>7. CASE minibuffer = "none"
    <2>1. choice' = q /\ UNCHANGED permissionQueue
      BY <1>1, <1>3, <1>7 DEF PromptPermission, OpenChoice
    <2>2. choice = NoRequest
      BY <1>7 DEF PumpInv, UiInv, RowIsCoherent
    <2> HIDE DEF q, n
    <2>3. Tracked'
      BY <1>1, <1>4, <1>5, <2>1 DEF RequestInv, Tracked, Current, Asks
    <2>4. Distinct'
      BY <1>1, <1>5, <2>1 DEF RequestInv, Distinct, Asks
    <2>5. Apart'
      <3>1. \A i \in DOMAIN effects : Asks(i) =>
                \A j \in DOMAIN requests' : requests'[j].id # effects[i].request.id
        BY <1>3 DEF RequestInv, Apart
      <3>2. \A i \in DOMAIN requests' :
                \A j \in DOMAIN permissionQueue : permissionQueue[j].id # requests'[i].id
        BY <1>3 DEF RequestInv, Apart
      <3> QED
        BY <1>1, <1>4, <2>1, <3>1, <3>2 DEF RequestInv, Apart, Asks
    <2> QED
      BY <2>3, <2>4, <2>5 DEF RequestInv
  <1> QED
    BY <1>6, <1>7

-----------------------------------------------------------------------------
(* The steps.                                                              *)

LEMMA RequestUserEvent ==
    ASSUME PumpInv, RequestInv, UserEvent
    PROVE  RequestInv'
  <1>1. ASSUME EditorKey \/ DismissPrompt \/ SubmitSpawnFails
        PROVE  RequestInv'
    <2>1. UNCHANGED <<effects, requests, incoming, requestParams>>
      BY <1>1 DEF EditorKey, DismissPrompt, SubmitSpawnFails, pumpVars, machineVars
    <2>2. CASE UNCHANGED <<permissionQueue, choice>>
      BY <2>1, <2>2, NothingMoves
    <2>3. CASE DrainPermissionQueue
      BY <2>1, <2>3, RowFreed
    <2>4. UNCHANGED <<permissionQueue, choice>> \/ DrainPermissionQueue
      BY <1>1 DEF EditorKey, DismissPrompt, SubmitSpawnFails, SubmitText, CloseTextPrompt,
                  EditorStep, OpenTextPrompt, EditText, BeginExit, ExitAnswer, SaveOffered,
                  DeclineOffered, ExitAnyway, AbandonExit, EditBuffer, promptVars
    <2> QED
      BY <2>2, <2>3, <2>4
  <1>2. CASE SubmitPrompt
    <2>1. /\ DrainPermissionQueue /\ UNCHANGED <<effects, requests>>
          /\ SendPending(Append(pendingPrompts, submitted + 1))
      BY <1>2 DEF SubmitPrompt, SubmitText, CloseTextPrompt
    <2>2. Append(pendingPrompts, submitted + 1) \in Seq(1..MaxPrompts)
      BY <1>2, SubmitTextFacts DEF SubmitPrompt
    <2>3. UNCHANGED <<incoming, requestParams>>
      BY <2>1, <2>2, SendPendingFacts DEF PumpInv, PumpTypeOK, Handshake
    <2> QED
      BY <2>1, <2>3, RowFreed
  <1>3. CASE SubmitAndSpawn
    <2>1. /\ DrainPermissionQueue
          /\ UNCHANGED <<effects, requests, incoming, requestParams>>
      BY <1>3 DEF SubmitAndSpawn, SubmitText, CloseTextPrompt, Start
    <2> QED
      BY <2>1, RowFreed
  <1>4. ASSUME NEW key \in Keys, AnswerPermission(key)
        PROVE  RequestInv'
    <2> DEFINE r == choice.id
    <2>1. /\ choice # NoRequest /\ DrainPermissionQueue /\ UNCHANGED <<effects, requests>>
          /\ \/ incoming' = incoming \ {r} /\ requestParams' = Drop(requestParams, r)
             \/ UNCHANGED <<incoming, requestParams>>
      BY <1>4 DEF AnswerPermission, DecidePermission, Choosing, CloseChoice,
                  ResolvePermission, machineVars
    <2>2. DOMAIN requestParams = incoming
      BY DEF PumpInv, MachineInv, PendingTracked
    <2>3. \A x \in incoming :
              r = x \/ (x \in incoming' /\ requestParams'[x] = requestParams[x])
      BY <2>1, <2>2 DEF Drop
    <2> QED
      BY <2>1, <2>3, RowFreed
  <1>5. CASE KeyboardQuit
    <2>1. /\ effects' = <<>> /\ requests' = <<>>
          /\ permissionQueue' = <<>> /\ choice' = NoRequest
      BY <1>5 DEF KeyboardQuit, Waiting, pumpVars, AbortPendingPermissions, PumpInv, Stages
    <2> QED
      BY <2>1, NothingLeft
  <1> QED
    BY <1>1, <1>2, <1>3, <1>4, <1>5 DEF UserEvent

LEMMA RequestDrainFrame ==
    ASSUME PumpInv, RequestInv, NEW f \in Frame, DrainFrame(f)
    PROVE  RequestInv'
  <1>1. /\ Handle(f) /\ effects' = effects \o Effects(f)
        /\ UNCHANGED <<requests, permissionQueue, choice>>
    BY DEF DrainFrame, uiVars, promptVars
  <1>2. CASE f.type = "permission" /\ HandlePermission(f)
    <2>1. /\ f.id \in RequestIds /\ f.params \in Params
          /\ Effects(f) = <<PermissionRequested(f.id, f.params)>>
          /\ f.id \notin incoming /\ incoming' = incoming \cup {f.id}
          /\ requestParams' = Put(requestParams, f.id, f.params)
      BY <1>2 DEF Frame, Effects, PermissionEffects, HandlePermission
    <2> QED
      BY <1>1, <2>1, RequestAdded
  <1>3. CASE f.type # "permission" \/ ~Effective(f)
    <2>1. UNCHANGED <<incoming, requestParams>>
      BY <1>1, <1>3 DEF Handle, HandleResponse, HandlePermission, Effective, machineVars
    <2>2. Effects(f) \in Seq(EffectType)
      BY ResponseFacts, OtherFrameFacts, SingleFacts DEF PumpInv
    <2>3. \A i \in DOMAIN Effects(f) : Effects(f)[i].type # "PermissionRequested"
      <3>1. CASE f.type = "response"
        <4>1. PICK e \in EffectType : /\ Effects(f) = <<e>>
                                      /\ e.type # "PermissionRequested"
          BY <3>1, ResponseFacts DEF PumpInv
        <4> QED
          BY <4>1, SingleFacts
      <3>2. CASE f.type = "permission"
        <4> DEFINE e == PermissionResolved(f.id,
                            Granted(f.params, Selected(SelectAutoOption(f.params))))
        <4>1. e.type # "PermissionRequested" /\ ProtocolError.type # "PermissionRequested"
          BY DEF PermissionResolved, ProtocolError
        <4> HIDE DEF e
        <4>2. Effects(f) = <<e>> \/ Effects(f) = <<ProtocolError>>
          BY <1>3, <3>2 DEF Effects, PermissionEffects, Effective, e
        <4> QED
          BY <4>1, <4>2, SingleFacts
      <3>3. CASE f.type = "update"
        <4>1. ProtocolError.type # "PermissionRequested" /\ TurnOutput.type # "PermissionRequested"
          BY DEF ProtocolError, TurnOutput
        <4>2. Effects(f) \in {<<ProtocolError>>, <<TurnOutput>>, <<>>}
          BY <3>3 DEF Effects, UpdateEffects
        <4> QED
          BY <4>1, <4>2, SingleFacts
      <3>4. CASE f.type \in {"notification", "unsupported"}
        <4>1. Effects(f) = <<>>
          BY <3>4 DEF Effects
        <4> QED
          BY <4>1
      <3> QED
        BY <3>1, <3>2, <3>3, <3>4 DEF Frame
    <2> QED
      BY <1>1, <2>1, <2>2, <2>3, OthersAdded
  <1>4. f.type = "permission" /\ Effective(f) => HandlePermission(f)
    BY <1>1 DEF Handle
  <1> QED
    BY <1>2, <1>3, <1>4

LEMMA RequestAgentEvent ==
    ASSUME PumpInv, RequestInv, AgentEvent
    PROVE  RequestInv'
  <1>1. CASE BeginReceive
    BY <1>1, NothingMoves DEF BeginReceive, machineVars, uiVars, promptVars
  <1>2. CASE DrainGarbage
    <2>1. /\ effects' = Append(effects, ProtocolError) /\ effects \in Seq(EffectType)
          /\ UNCHANGED <<requests, permissionQueue, choice, incoming, requestParams>>
      BY <1>2 DEF DrainGarbage, machineVars, uiVars, promptVars, PumpInv, PumpTypeOK
    <2>2. effects' = effects \o <<ProtocolError>>
      BY <2>1, ErrorIsEffect
    <2>3. /\ <<ProtocolError>> \in Seq(EffectType)
          /\ \A i \in DOMAIN <<ProtocolError>> :
                 <<ProtocolError>>[i].type # "PermissionRequested"
      <3>1. ProtocolError.type # "PermissionRequested"
        BY DEF ProtocolError
      <3> QED
        BY <3>1, ErrorIsEffect, SingleFacts
    <2> QED
      BY <2>1, <2>2, <2>3, OthersAdded
  <1>3. CASE AgentExit
    <2>1. /\ effects' = <<>> /\ requests' = <<>>
          /\ permissionQueue' = <<>> /\ choice' = NoRequest
      BY <1>3 DEF AgentExit, Waiting, AbortPendingPermissions, PumpInv, Stages
    <2> QED
      BY <2>1, NothingLeft
  <1> QED
    BY <1>1, <1>2, <1>3, RequestDrainFrame DEF AgentEvent

LEMMA RequestPumpStep ==
    ASSUME PumpInv, RequestInv, PumpStep
    PROVE  RequestInv'
  <1>1. CASE EndDrain \/ DeliverAll
    BY <1>1, NothingMoves DEF EndDrain, DeliverAll, machineVars, uiVars, promptVars
  <1>2. CASE SplitInitialized
    <2>1. /\ NextEffect("Initialized")
          /\ UNCHANGED <<requests, permissionQueue, choice, incoming, requestParams>>
      BY <1>2 DEF SplitInitialized, NewSession, uiVars, promptVars
    <2> QED
      BY <2>1, OtherTaken
  <1>3. CASE SplitEstablished
    <2>1. /\ NextEffect("SessionEstablished") /\ SendPending(pendingPrompts)
          /\ UNCHANGED <<requests, permissionQueue, choice>>
      BY <1>3 DEF SplitEstablished, uiVars, promptVars
    <2>2. UNCHANGED <<incoming, requestParams>>
      BY <2>1, SendPendingFacts DEF PumpInv, PumpTypeOK, Handshake
    <2> QED
      BY <2>1, <2>2, OtherTaken
  <1>4. CASE SplitOther
    <2>1. PICK type \in OtherEffects : NextEffect(type)
      BY <1>4 DEF SplitOther
    <2>2. effects[1].type = type /\ Head(effects) = effects[1]
      BY <2>1, NextEffectFacts
    <2>3. /\ requests' = IF type = "PermissionRequested"
                           THEN Append(requests, effects[1].request) ELSE requests
          /\ UNCHANGED <<permissionQueue, choice, incoming, requestParams>>
      BY <1>4, <2>2 DEF SplitOther, machineVars, uiVars, promptVars
    <2> QED
      BY <2>1, <2>3, OtherTaken, RequestTaken
  <1>5. CASE EndReceive
    <2>1. /\ SendPending(pendingPrompts) \/ UNCHANGED machineVars
          /\ UNCHANGED <<effects, requests, permissionQueue, choice>>
      BY <1>5 DEF EndReceive, uiVars, promptVars
    <2>2. UNCHANGED <<incoming, requestParams>>
      <3>1. CASE SendPending(pendingPrompts)
        BY <3>1, SendPendingFacts DEF PumpInv, PumpTypeOK, Handshake
      <3> QED
        BY <2>1, <3>1 DEF machineVars
    <2> QED
      BY <2>1, <2>2, NothingMoves
  <1> QED
    BY <1>1, <1>2, <1>3, <1>4, <1>5, RequestPresented DEF PumpStep

LEMMA RequestNextInv == PumpInv /\ RequestInv /\ [Next]_vars => RequestInv'
  <1> SUFFICES ASSUME PumpInv, RequestInv, [Next]_vars PROVE RequestInv'
    OBVIOUS
  <1>1. CASE Close
    BY <1>1, NothingMoves DEF Close, machineVars, uiVars, promptVars
  <1>2. CASE Terminated \/ UNCHANGED vars
    BY <1>2, NothingMoves DEF Terminated, vars, machineVars, uiVars, promptVars, pumpVars
  <1> QED
    BY <1>1, <1>2, RequestUserEvent, RequestAgentEvent, RequestPumpStep DEF Next

-----------------------------------------------------------------------------
(* The requests on the way stay the requests in flight, payloads included, *)
(* whatever the peer sends and the user does.                              *)
THEOREM RequestsCorrect == Spec => [](PumpInv /\ RequestInv)
  <1>1. Init => PumpInv /\ RequestInv
    BY PumpInitInv, RequestInitInv
  <1>2. PumpInv /\ RequestInv /\ [Next]_vars => (PumpInv /\ RequestInv)'
    BY PumpNextInv, RequestNextInv
  <1> QED
    BY <1>1, <1>2, PTL DEF Spec

LEMMA PlaceShapes ==
    ASSUME NEW r, NEW a
    PROVE  a \in Places(r) <=>
               \/ \E i \in DOMAIN effects :
                      /\ Asks(i) /\ effects[i].request.id = r /\ a = <<"effects", i>>
               \/ \E i \in DOMAIN requests : requests[i].id = r /\ a = <<"requests", i>>
               \/ \E i \in DOMAIN permissionQueue :
                      permissionQueue[i].id = r /\ a = <<"queue", i>>
               \/ choice # NoRequest /\ choice.id = r /\ a = <<"row", 0>>
  BY DEF Places, Asks

(* Each request in flight is in one place on its way to the user, and no   *)
(* other request is: none is lost between the machine, the pump and the    *)
(* session, none is shown twice, and no prompt is about a request the      *)
(* machine has forgotten (receive, _apply, PromptPermission, the drains).  *)
THEOREM RequestsDelivered == Spec => []RequestsReachUser
  <1>1. PumpInv /\ RequestInv => RequestsReachUser
    <2> SUFFICES ASSUME PumpInv, RequestInv, NEW r \in RequestIds
                 PROVE  /\ r \in incoming <=> Places(r) # {}
                        /\ \A a, b \in Places(r) : a = b
      BY DEF RequestsReachUser
    <2>1. r \in incoming => Places(r) # {}
      <3> SUFFICES ASSUME r \in incoming PROVE \E a : a \in Places(r)
        OBVIOUS
      <3>1. OnItsWay(r)
        BY DEF PumpInv, NoneLost
      <3>2. CASE \E i \in DOMAIN effects : Asks(i) /\ effects[i].request.id = r
        BY <3>2, PlaceShapes
      <3>3. CASE \E i \in DOMAIN requests : requests[i].id = r
        BY <3>3, PlaceShapes
      <3>4. CASE \E i \in DOMAIN permissionQueue : permissionQueue[i].id = r
        BY <3>4, PlaceShapes
      <3>5. CASE choice # NoRequest /\ choice.id = r
        BY <3>5, PlaceShapes
      <3> QED
        BY <3>1, <3>2, <3>3, <3>4, <3>5 DEF OnItsWay, Asks
    <2>2. ASSUME NEW a \in Places(r) PROVE r \in incoming
      BY PlaceShapes DEF RequestInv, Tracked, Current
    <2>3. ASSUME NEW a \in Places(r), NEW b \in Places(r) PROVE a = b
      <3>1. CASE \E i \in DOMAIN effects :
                     Asks(i) /\ effects[i].request.id = r /\ a = <<"effects", i>>
        BY <3>1, PlaceShapes DEF RequestInv, Distinct, Apart
      <3>2. CASE \E i \in DOMAIN requests : requests[i].id = r /\ a = <<"requests", i>>
        BY <3>2, PlaceShapes DEF RequestInv, Distinct, Apart
      <3>3. CASE \E i \in DOMAIN permissionQueue :
                     permissionQueue[i].id = r /\ a = <<"queue", i>>
        BY <3>3, PlaceShapes DEF RequestInv, Distinct, Apart
      <3>4. CASE choice # NoRequest /\ choice.id = r /\ a = <<"row", 0>>
        BY <3>4, PlaceShapes DEF RequestInv, Distinct, Apart
      <3> QED
        BY <3>1, <3>2, <3>3, <3>4, PlaceShapes
    <2> QED
      BY <2>1, <2>2, <2>3
  <1> QED
    BY <1>1, RequestsCorrect, PTL

(* The prompt on the row, and every prompt behind it, shows the payload    *)
(* the machine will look the answer up in (session.py _open_choice;        *)
(* machine.py resolve_permission), even when an id is used again.          *)
THEOREM PromptShowsPayload == Spec => []PayloadsAgree
  <1>1. PumpInv /\ RequestInv => PayloadsAgree
    BY DEF RequestInv, Tracked, Current, PayloadsAgree
  <1> QED
    BY <1>1, RequestsCorrect, PTL

-----------------------------------------------------------------------------
(* The line of prompts.                                                    *)

Line == sent \o pendingPrompts

(* PromptsAccounted, about any line, count and set of dropped prompts.     *)
Accounted(line, count, gone) ==
    /\ \A i, j \in DOMAIN line : i < j => line[i] < line[j]
    /\ ToSet(line) \cap gone = {}
    /\ ToSet(line) \cup gone = 1..count

LEMMA AccountedLine == PromptsAccounted <=> Accounted(Line, submitted, dropped)
  BY DEF PromptsAccounted, Accounted, Line

(* The next prompt joins the line.                                         *)
LEMMA LineGrows ==
    ASSUME NEW line \in Seq(Nat), NEW n \in Nat, NEW gone, Accounted(line, n, gone)
    PROVE  Accounted(Append(line, n + 1), n + 1, gone)
  <1> DEFINE new == Append(line, n + 1)
  <1>1. /\ \A i \in DOMAIN line : i \in DOMAIN new /\ new[i] = line[i] /\ i <= Len(line)
        /\ \A i \in DOMAIN new : i \in Nat /\ (i \in DOMAIN line \/ i = Len(line) + 1)
        /\ Len(line) + 1 \in DOMAIN new /\ new[Len(line) + 1] = n + 1
        /\ Len(line) \in Nat
    OBVIOUS
  <1> HIDE DEF new
  <1>2. /\ \A i \in DOMAIN line : line[i] \in 1..n
        /\ \A i \in DOMAIN line : line[i] \notin gone
        /\ gone \subseteq 1..n
    BY DEF Accounted, ToSet
  <1>3. ToSet(new) = ToSet(line) \cup {n + 1}
    BY <1>1 DEF ToSet
  <1>4. \A i, j \in DOMAIN new : i < j => new[i] < new[j]
    BY <1>1, <1>2 DEF Accounted
  <1>5. ToSet(new) \cap gone = {}
    BY <1>2, <1>3 DEF Accounted
  <1>6. ToSet(new) \cup gone = 1..(n + 1)
    BY <1>3 DEF Accounted
  <1> QED
    BY <1>4, <1>5, <1>6 DEF Accounted, new

(* The next prompt is dropped at once.                                     *)
LEMMA NextDropped ==
    ASSUME NEW line, NEW n \in Nat, NEW gone, Accounted(line, n, gone)
    PROVE  Accounted(line, n + 1, gone \cup {n + 1})
  <1>1. ToSet(line) \subseteq 1..n /\ n + 1 \notin 1..n
    BY DEF Accounted
  <1>2. 1..(n + 1) = 1..n \cup {n + 1}
    OBVIOUS
  <1> QED
    BY <1>1, <1>2 DEF Accounted

(* The tail of the line is dropped.                                        *)
LEMMA TailDropped ==
    ASSUME NEW s \in Seq(Nat), NEW t \in Seq(Nat), NEW n \in Nat, NEW gone,
           Accounted(s \o t, n, gone)
    PROVE  Accounted(s, n, gone \cup ToSet(t))
  <1>1. /\ \A i \in DOMAIN s : i \in DOMAIN (s \o t) /\ (s \o t)[i] = s[i]
        /\ \A i \in DOMAIN t : /\ Len(s) + i \in DOMAIN (s \o t)
                               /\ (s \o t)[Len(s) + i] = t[i]
        /\ \A i \in DOMAIN (s \o t) :
               \/ i \in DOMAIN s
               \/ i - Len(s) \in DOMAIN t /\ (s \o t)[i] = t[i - Len(s)]
    BY ConcatFacts
  <1>2. /\ \A i \in DOMAIN s : i <= Len(s) /\ i \in Nat
        /\ \A i \in DOMAIN t : i > 0 /\ i \in Nat
        /\ Len(s) \in Nat
    OBVIOUS
  <1>3. \A i, j \in DOMAIN s : i < j => s[i] < s[j]
    BY <1>1, <1>2 DEF Accounted
  <1>4. ToSet(s \o t) = ToSet(s) \cup ToSet(t)
    <2> DEFINE st == s \o t
    <2>1. /\ \A i \in DOMAIN st : (\E j \in DOMAIN s : st[i] = s[j])
                                 \/ (\E j \in DOMAIN t : st[i] = t[j])
          /\ \A j \in DOMAIN s : \E i \in DOMAIN st : st[i] = s[j]
          /\ \A j \in DOMAIN t : \E i \in DOMAIN st : st[i] = t[j]
      BY <1>1, <1>2
    <2> HIDE DEF st
    <2>2. ToSet(st) = ToSet(s) \cup ToSet(t)
      BY <2>1 DEF ToSet
    <2> QED
      BY <2>2 DEF st
  <1>5. ASSUME NEW i \in DOMAIN s, NEW j \in DOMAIN t
        PROVE  s[i] # t[j]
    <2>1. i < Len(s) + j
      BY <1>1, <1>2
    <2>2. (s \o t)[i] < (s \o t)[Len(s) + j]
      BY <1>1, <1>2, <2>1 DEF Accounted
    <2>3. s[i] \in Nat /\ t[j] \in Nat
      OBVIOUS
    <2>4. s[i] < t[j]
      BY <1>1, <1>2, <2>2
    <2> QED
      BY <2>3, <2>4
  <1>6. ToSet(s) \cap ToSet(t) = {}
    BY <1>5 DEF ToSet
  <1> QED
    BY <1>3, <1>4, <1>6 DEF Accounted

LEMMA HeadMoves ==
    ASSUME NEW S, NEW s \in Seq(S), NEW t \in Seq(S), t # <<>>
    PROVE  Append(s, Head(t)) \o Tail(t) = s \o t
  <1>1. /\ Append(s, Head(t)) = s \o <<Head(t)>>
        /\ <<Head(t)>> \in Seq(S) /\ Tail(t) \in Seq(S)
    OBVIOUS
  <1>2. <<Head(t)>> \o Tail(t) = t
    OBVIOUS
  <1>3. (s \o <<Head(t)>>) \o Tail(t) = s \o (<<Head(t)>> \o Tail(t))
    BY <1>1, ConcatAssociative
  <1> QED
    BY <1>1, <1>2, <1>3

(* _send_pending moves the head of what is held to the end of what is sent *)
(* and so leaves the line as it is.                                        *)
LEMMA SendKeepsLine ==
    ASSUME sent \in Seq(1..MaxPrompts), NEW q \in Seq(1..MaxPrompts), SendPending(q)
    PROVE  Line' = sent \o q
  <1>1. CASE q # <<>> /\ phase = "SESSION_ACTIVE"
    <2>1. sent' = Append(sent, Head(q)) /\ pendingPrompts' = Tail(q)
      BY <1>1 DEF SendPending
    <2> QED
      BY <1>1, <2>1, HeadMoves DEF Line
  <1>2. CASE ~(q # <<>> /\ phase = "SESSION_ACTIVE")
    BY <1>2 DEF SendPending, Line
  <1> QED
    BY <1>1, <1>2

LEMMA PromptsNextInv == PumpInv /\ PromptsAccounted /\ [Next]_vars => PromptsAccounted'
  <1> SUFFICES ASSUME PumpInv, PromptsAccounted, [Next]_vars PROVE PromptsAccounted'
    OBVIOUS
  <1>1. /\ sent \in Seq(1..MaxPrompts) /\ pendingPrompts \in Seq(1..MaxPrompts)
        /\ sent \in Seq(Nat) /\ pendingPrompts \in Seq(Nat) /\ Line \in Seq(Nat)
        /\ submitted \in Nat
    <2>1. /\ sent \in Seq(1..MaxPrompts) /\ pendingPrompts \in Seq(1..MaxPrompts)
          /\ submitted \in Nat
      BY BoundsAssumption DEF PumpInv, PumpTypeOK
    <2>2. 1..MaxPrompts \subseteq Nat
      BY BoundsAssumption
    <2>3. sent \in Seq(Nat) /\ pendingPrompts \in Seq(Nat)
      BY <2>1, <2>2, SeqMonotonic
    <2> QED
      BY <2>1, <2>3 DEF Line
  <1>2. Accounted(Line, submitted, dropped)
    BY AccountedLine
  <1>3. SUFFICES Accounted(Line', submitted', dropped')
    BY DEF PromptsAccounted, Accounted, Line
  <1>4. ASSUME UNCHANGED <<submitted, dropped>>,
               \/ UNCHANGED <<sent, pendingPrompts>>
               \/ SendPending(pendingPrompts)
        PROVE  Accounted(Line', submitted', dropped')
    <2>1. Line' = Line
      BY <1>1, <1>4, SendKeepsLine DEF Line
    <2> QED
      BY <1>2, <1>4, <2>1
  <1>5. CASE SubmitPrompt \/ SubmitAndSpawn
    <2> DEFINE q == Append(pendingPrompts, submitted + 1)
    <2>1. q \in Seq(1..MaxPrompts)
      BY <1>5, SubmitTextFacts DEF SubmitPrompt, SubmitAndSpawn
    <2>2. Line' = sent \o q
      <3>1. CASE SubmitPrompt
        BY <1>1, <2>1, <3>1, SendKeepsLine DEF SubmitPrompt
      <3>2. CASE SubmitAndSpawn
        BY <3>2 DEF SubmitAndSpawn, Line
      <3> QED
        BY <1>5, <3>1, <3>2
    <2>3. sent \o q = Append(Line, submitted + 1)
      BY <1>1 DEF Line
    <2>4. submitted' = submitted + 1 /\ dropped' = dropped
      BY <1>5 DEF SubmitPrompt, SubmitAndSpawn, SubmitText
    <2>5. Accounted(Append(Line, submitted + 1), submitted + 1, dropped)
      BY <1>1, <1>2, LineGrows
    <2> QED
      BY <2>2, <2>3, <2>4, <2>5
  <1>6. CASE SubmitSpawnFails
    <2>1. Line' = Line /\ submitted' = submitted + 1 /\ dropped' = dropped \cup {submitted + 1}
      BY <1>6 DEF SubmitSpawnFails, SubmitText, pumpVars, Line
    <2>2. Accounted(Line, submitted + 1, dropped \cup {submitted + 1})
      BY <1>1, <1>2, NextDropped
    <2> QED
      BY <2>1, <2>2
  <1>7. CASE AgentExit
    <2>1. /\ sent' = sent /\ pendingPrompts' = <<>> /\ submitted' = submitted
          /\ dropped' = dropped \cup ToSet(pendingPrompts)
      BY <1>7 DEF AgentExit, Reset
    <2>2. Line' = sent
      BY <1>1, <2>1 DEF Line
    <2>3. Accounted(sent, submitted, dropped \cup ToSet(pendingPrompts))
      BY <1>1, <1>2, TailDropped DEF Line
    <2> QED
      BY <2>1, <2>2, <2>3
  <1>8. CASE SplitEstablished \/ EndReceive
    BY <1>4, <1>8 DEF SplitEstablished, EndReceive
  <1>9. ASSUME \/ EditorKey \/ DismissPrompt \/ KeyboardQuit \/ Close \/ Terminated
               \/ \E key \in Keys : AnswerPermission(key)
               \/ EndDrain \/ SplitInitialized \/ SplitOther \/ DeliverAll \/ Present
               \/ BeginReceive \/ DrainGarbage \/ \E f \in Frame : DrainFrame(f)
               \/ UNCHANGED vars
        PROVE  Accounted(Line', submitted', dropped')
    <2>1. UNCHANGED <<sent, pendingPrompts, submitted, dropped>>
      BY <1>9 DEF EditorKey, DismissPrompt, KeyboardQuit, Close, Terminated,
                  AnswerPermission, EndDrain, SplitInitialized, SplitOther, DeliverAll,
                  Present, BeginReceive, DrainGarbage, DrainFrame, vars, pumpVars,
                  historyVars
    <2> QED
      BY <1>4, <2>1
  <1> QED
    BY <1>5, <1>6, <1>7, <1>8, <1>9 DEF Next, UserEvent, PumpStep, AgentEvent

(* Prompts go out in the order the user submitted them, and each is on the *)
(* wire, held, or reported as dropped, and only once (pump.py submit,      *)
(* _send_pending, _reset), across any number of dead children.             *)
THEOREM PromptsNeverVanish == Spec => []PromptsAccounted
  <1>1. Init => PromptsAccounted
    BY DEF Init, PromptsAccounted, ToSet
  <1>2. PumpInv /\ PromptsAccounted /\ [Next]_vars => PromptsAccounted'
    BY PromptsNextInv
  <1> QED
    BY <1>1, <1>2, PumpCorrect, PTL DEF Spec

-----------------------------------------------------------------------------
(* Consent.                                                                *)

(* What FirstIdOf picks is looked up again under its own kind, or under    *)
(* that of an option further down with the same id.                        *)
LEMMA FirstIdKind ==
    ASSUME NEW p \in Params, NEW kinds, FirstIdOf(p, kinds) # NoOption
    PROVE  \E i, j \in DOMAIN p.options :
               /\ p.options[i].id = FirstIdOf(p, kinds) /\ p.options[i].kind \in kinds
               /\ p.options[j].id = FirstIdOf(p, kinds)
               /\ p.options[j].kind = KindOf(p, FirstIdOf(p, kinds))
               /\ i <= j
  <1> DEFINE n == Len(p.options)
             I == {i \in 1..n : p.options[i].kind \in kinds /\ p.options[i].id # NonString}
             i0 == Min(I)
             id == FirstIdOf(p, kinds)
             J == {j \in 1..n : p.options[j].id = id}
             j0 == Max(J)
  <1>1. n \in Nat /\ DOMAIN p.options = 1..n
    BY ParamsAssumption
  <1>2. I # {} => i0 \in I
    <2>1. I \in SUBSET Nat
      BY <1>1
    <2> HIDE DEF I
    <2> QED
      BY <2>1, MinOf
  <1>3. FirstIdOf(p, kinds) = LET k == IF I # {} THEN i0 ELSE 0
                              IN  IF k = 0 THEN NoOption ELSE p.options[k].id
    BY DEF FirstIdOf, SelectInSeq
  <1>4. i0 \in I /\ id = p.options[i0].id
    BY <1>2, <1>3
  <1>5. i0 \in J
    BY <1>4
  <1>6. j0 \in J /\ i0 <= j0
    <2>1. J \in SUBSET (0..n)
      BY <1>1
    <2> HIDE DEF J, i0
    <2> QED
      BY <1>1, <1>5, <2>1, MaxOf
  <1>7. KindOf(p, id) = LET k == IF J # {} THEN j0 ELSE 0
                        IN  IF k = 0 THEN NoKind ELSE p.options[k].kind
    BY DEF KindOf, SelectLastInSeq
  <1>8. j0 # 0 /\ j0 \in 1..n /\ p.options[j0].id = id /\ J # {}
    <2> HIDE DEF j0
    <2> QED
      BY <1>1, <1>6
  <1>9. KindOf(p, id) = p.options[j0].kind
    <2> HIDE DEF j0, J
    <2> QED
      BY <1>7, <1>8
  <1>10. i0 \in 1..n /\ p.options[i0].kind \in kinds
    <2> HIDE DEF i0
    <2> QED
      BY <1>4
  <1> HIDE DEF i0, j0, id
  <1> QED
    BY <1>1, <1>4, <1>6, <1>8, <1>9, <1>10 DEF id

(* Only s and a select an option of a lasting scope, where the id chosen   *)
(* is not that of such an option too.                                      *)
LEMMA CachingKeys ==
    ASSUME choice.params \in Params, NEW key \in Keys,
           Decision(key) # NoDecision, Caches(choice.params, Decision(key)),
           ~SharedWithLasting(choice.params, Decision(key))
    PROVE  key \in {"s", "a"}
  <1> DEFINE p == choice.params
             d == Decision(key)
  <1>1. ASSUME NEW kinds, FirstIdOf(p, kinds) # NoOption,
               d = Selected(FirstIdOf(p, kinds))
        PROVE  kinds \cap CacheableKinds # {}
    <2>1. d.type = "selected" /\ d.option = FirstIdOf(p, kinds)
      BY <1>1 DEF Selected
    <2>2. KindOf(p, d.option) \in CacheableKinds
      BY <2>1 DEF Caches, DecidedKind, NoKind, CacheableKinds
    <2>3. PICK i \in DOMAIN p.options, j \in DOMAIN p.options :
              /\ p.options[i].id = d.option /\ p.options[i].kind \in kinds
              /\ p.options[j].id = d.option /\ p.options[j].kind \in CacheableKinds
              /\ i <= j
      <3> HIDE DEF d
      <3> QED
        BY <1>1, <2>1, <2>2, FirstIdKind
    <2>4. i < j => p.options[i].kind \in CacheableKinds
      BY <2>1, <2>3 DEF SharedWithLasting
    <2>5. i \in Nat /\ j \in Nat
      BY <2>3, ParamsAssumption
    <2> QED
      BY <2>3, <2>4, <2>5
  <1>2. d # Cancelled
    BY DEF Caches, DecidedKind, Cancelled, NoKind, CacheableKinds
  <1>3. /\ {"allow_once"} \cap CacheableKinds = {}
        /\ RejectKinds \cap CacheableKinds = {}
    BY DEF CacheableKinds, RejectKinds
  <1>4. CASE key = "RET"
    <2>1. d = ChoiceAcceptDecision(p)
      BY <1>4 DEF Decision, Chars, AnswerChars
    <2> QED
      BY <1>1, <1>2, <1>3, <2>1 DEF ChoiceAcceptDecision
  <1>5. CASE key = "C-g"
    BY <1>2, <1>5 DEF Decision, Chars, AnswerChars
  <1>6. CASE key \in Chars
    <2>1. d = ChoiceKeyToDecision(p, key)
      BY <1>6 DEF Decision, Chars, AnswerChars
    <2>2. CASE key = "y"
      <3>1. key \in DOMAIN KeyKind /\ KeyKind[key] = "allow_once"
        BY <2>2 DEF KeyKind
      <3> QED
        BY <1>1, <1>2, <1>3, <2>1, <3>1 DEF ChoiceKeyToDecision
    <2>3. CASE key = "n"
      <3>1. key \notin DOMAIN KeyKind /\ key \in AnswerChars
        BY <2>3 DEF KeyKind, AnswerChars
      <3> QED
        BY <1>1, <1>2, <1>3, <2>1, <2>3, <3>1 DEF ChoiceKeyToDecision
    <2>4. CASE key = "x"
      <3>1. key \notin DOMAIN KeyKind /\ key \notin AnswerChars
        BY <2>4 DEF KeyKind, AnswerChars
      <3> QED
        BY <2>1, <2>4, <3>1 DEF ChoiceKeyToDecision
    <2> QED
      BY <1>6, <2>2, <2>3, <2>4 DEF Chars, AnswerChars
  <1> QED
    BY <1>4, <1>5, <1>6 DEF Keys

LEMMA ConsentNextInv ==
    ASSUME PumpInv, RequestInv, AutoApprovalNeedsConsent, [Next]_vars
    PROVE  AutoApprovalNeedsConsent'
  <1>1. ASSUME NEW key \in Keys, AnswerPermission(key)
        PROVE  AutoApprovalNeedsConsent'
    <2> DEFINE r == choice.id
               d == Decision(key)
    <2>1. /\ d # NoDecision /\ choice # NoRequest /\ choice \in Request
          /\ \/ r \in incoming /\ ResolvePermission(r, d)
             \/ UNCHANGED machineVars
          /\ consents' = consents \cup Consents(choice.params, key)
      BY <1>1 DEF AnswerPermission, DecidePermission, Choosing, PumpInv, UiInv, UiTypeOK
    <2>2. choice.params \in Params /\ requestParams[r] = choice.params
      BY <2>1 DEF Request, RequestInv, Tracked, Current
    <2>3. Caches(choice.params, d) => PermissionIdentity(choice.params) \in consents'
      <3>1. Caches(choice.params, d) =>
                key \in {"s", "a"} \/ SharedWithLasting(choice.params, d)
        BY <2>1, <2>2, CachingKeys
      <3> QED
        BY <2>1, <3>1 DEF Consents
    <2>4. autoApprovals' \subseteq autoApprovals \cup
              {i \in {PermissionIdentity(choice.params)} : Caches(choice.params, d)}
      BY <2>1, <2>2 DEF ResolvePermission, machineVars
    <2> HIDE DEF d
    <2> QED
      BY <2>1, <2>3, <2>4 DEF AutoApprovalNeedsConsent
  <1>2. CASE SplitInitialized
    BY <1>2 DEF SplitInitialized, NewSession, AutoApprovalNeedsConsent
  <1>3. CASE AgentExit
    BY <1>3 DEF AgentExit, Reset, FreshMachine, AutoApprovalNeedsConsent
  <1>4. ASSUME UNCHANGED <<autoApprovals, consents>>
        PROVE  AutoApprovalNeedsConsent'
    BY <1>4 DEF AutoApprovalNeedsConsent
  <1>5. CASE SubmitPrompt \/ SplitEstablished \/ EndReceive
    <2>1. consents' = consents
      BY <1>5 DEF SubmitPrompt, SplitEstablished, EndReceive
    <2>2. autoApprovals' = autoApprovals
      BY <1>5 DEF SubmitPrompt, SplitEstablished, EndReceive, SendPending, Prompt,
                  machineVars
    <2> QED
      BY <1>4, <2>1, <2>2
  <1>6. ASSUME NEW f \in Frame, DrainFrame(f)
        PROVE  AutoApprovalNeedsConsent'
    <2>1. UNCHANGED <<autoApprovals, consents>>
      BY <1>6 DEF DrainFrame, Handle, HandleResponse, HandlePermission, machineVars,
                  historyVars
    <2> QED
      BY <1>4, <2>1
  <1>7. ASSUME \/ EditorKey \/ DismissPrompt \/ SubmitAndSpawn \/ SubmitSpawnFails
               \/ KeyboardQuit \/ Close \/ Terminated \/ EndDrain \/ SplitOther
               \/ DeliverAll \/ Present \/ BeginReceive \/ DrainGarbage \/ UNCHANGED vars
        PROVE  AutoApprovalNeedsConsent'
    <2>1. UNCHANGED <<autoApprovals, consents>>
      BY <1>7 DEF EditorKey, DismissPrompt, SubmitAndSpawn, SubmitSpawnFails, KeyboardQuit,
                  Close, Terminated, EndDrain, SplitOther, DeliverAll, Present,
                  BeginReceive, DrainGarbage, Start, Cancel, vars, machineVars, historyVars
    <2> QED
      BY <1>4, <2>1
  <1> QED
    BY <1>1, <1>2, <1>3, <1>5, <1>6, <1>7 DEF Next, UserEvent, PumpStep, AgentEvent

(* The client answers for the user only what the user granted for longer   *)
(* in this session of this child: s or a was pressed for it, or the id the *)
(* user chose is one that the payload gives to a lasting option too        *)
(* (resolve_permission, new_session, _choice_accept_decision).             *)
THEOREM ConsentNeeded == Spec => []AutoApprovalNeedsConsent
  <1>1. Init => AutoApprovalNeedsConsent
    BY DEF Init, MachineInit, AutoApprovalNeedsConsent
  <1>2. (PumpInv /\ RequestInv) /\ AutoApprovalNeedsConsent /\ [Next]_vars
            => AutoApprovalNeedsConsent'
    BY ConsentNextInv
  <1> QED
    BY <1>1, <1>2, RequestsCorrect, PTL DEF Spec

=============================================================================
