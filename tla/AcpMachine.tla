----------------------------- MODULE AcpMachine -----------------------------
(***************************************************************************)
(* The client side of one ACP session: the pure state machine of           *)
(* acp/machine.py.  Each function of that file is an action on the fields  *)
(* of the AcpMachine record; what it returns besides the new machine, the  *)
(* SessionEffects, is a state function of the same arguments, evaluated    *)
(* before the step.                                                        *)
(*                                                                         *)
(* A frame is one parsed inbound envelope:                                 *)
(*   response      answers the client request `id` with status ok, error,  *)
(*                 or malformed (a result without the field the method     *)
(*                 requires); id -1 stands for the null id                 *)
(*   update        session/update for `session`, carrying turn output, an  *)
(*                 unmodelled kind, or no update object                    *)
(*   notification  any other notification                                  *)
(*   permission    session/request_permission                              *)
(*   unsupported   an fs, terminal or unknown request: refused at once     *)
(***************************************************************************)
EXTENDS Permissions, Integers

CONSTANTS SessionIds,   \* session ids an agent may mint
          NoSession,    \* Python's None where a session id is expected
          MaxRequests   \* bound: client requests sent by one machine

ASSUME SessionAssumption == NoSession \notin SessionIds
ASSUME MaxRequestsAssumption == MaxRequests \in Nat

VARIABLES phase, sessionId, nextRequestId,
          outgoing,        \* in_flight_outgoing: request id -> method
          incoming,        \* in_flight_incoming: ids (always permissions)
          requestParams,   \* id -> params of the requests in flight
          autoApprovals    \* identities pre-approved in this ACP session

machineVars == <<phase, sessionId, nextRequestId, outgoing, incoming,
                 requestParams, autoApprovals>>

Phases  == {"DISCONNECTED", "INITIALIZING", "READY", "SESSION_ACTIVE",
            "PROMPT_IN_FLIGHT"}
Methods == {"initialize", "session/new", "session/prompt"}

NullId == -1

Frame ==
    [type : {"response"}, id : {NullId} \cup 0..MaxRequests,
     status : {"ok", "malformed", "error"}, session : SessionIds]
    \cup [type : {"update"}, session : SessionIds \cup {NoSession},
          body : {"turn", "unmodelled", "missing"}]
    \cup [type : {"notification"}]
    \cup [type : {"permission"}, id : RequestIds, params : Params]
    \cup [type : {"unsupported"}, id : RequestIds]

(* SessionEffects.  The five kinds of turn output are one effect here.     *)
Initialized           == [type |-> "Initialized"]
SessionEstablished(s) == [type |-> "SessionEstablished", session |-> s]
TurnOutput            == [type |-> "TurnOutput"]
PromptCompleted       == [type |-> "PromptCompleted"]
ProtocolError         == [type |-> "ProtocolError"]
PermissionRequested(r, p)  == [type |-> "PermissionRequested",
                               request |-> [id |-> r, params |-> p]]
PermissionResolved(r, g)   == [type |-> "PermissionResolved",
                               id |-> r, granted |-> g]

(* A dictionary with one more, or one fewer, key.                          *)
Put(f, k, v) == [x \in DOMAIN f \cup {k} |-> IF x = k THEN v ELSE f[x]]
Drop(f, k)   == [x \in DOMAIN f \ {k} |-> f[x]]
Empty        == [x \in {} |-> x]

-----------------------------------------------------------------------------
MachineInit ==
    /\ phase = "DISCONNECTED"
    /\ sessionId = NoSession
    /\ nextRequestId = 0
    /\ outgoing = Empty
    /\ incoming = {}
    /\ requestParams = Empty
    /\ autoApprovals = {}

(* The pump replaces the machine by a fresh one when its child is gone.    *)
FreshMachine ==
    /\ phase' = "DISCONNECTED"
    /\ sessionId' = NoSession
    /\ nextRequestId' = 0
    /\ outgoing' = Empty
    /\ incoming' = {}
    /\ requestParams' = Empty
    /\ autoApprovals' = {}

(* Outbound requests.                                                      *)

Send(method) ==
    /\ nextRequestId < MaxRequests
    /\ nextRequestId' = nextRequestId + 1
    /\ outgoing' = Put(outgoing, nextRequestId, method)

Start ==
    /\ phase = "DISCONNECTED"
    /\ phase' = "INITIALIZING"
    /\ Send("initialize")
    /\ UNCHANGED <<sessionId, incoming, requestParams, autoApprovals>>

NewSession ==
    /\ phase = "READY"
    /\ Send("session/new")
    /\ autoApprovals' = {}
    /\ UNCHANGED <<phase, sessionId, incoming, requestParams>>

Prompt ==
    /\ phase = "SESSION_ACTIVE"
    /\ phase' = "PROMPT_IN_FLIGHT"
    /\ Send("session/prompt")
    /\ UNCHANGED <<sessionId, incoming, requestParams, autoApprovals>>

(* session/cancel, and the cancelled outcome for every pending request.    *)
Cancel ==
    /\ phase = "PROMPT_IN_FLIGHT"
    /\ incoming' = {}
    /\ requestParams' = Empty
    /\ UNCHANGED <<phase, sessionId, nextRequestId, outgoing, autoApprovals>>

(* Answer one pending permission request.                                  *)
ResolvePermission(r, d) ==
    /\ r \in incoming
    /\ incoming' = incoming \ {r}
    /\ requestParams' = Drop(requestParams, r)
    /\ autoApprovals' = autoApprovals \cup
           {i \in {PermissionIdentity(requestParams[r])} :
                Caches(requestParams[r], d)}
    /\ UNCHANGED <<phase, sessionId, nextRequestId, outgoing>>

-----------------------------------------------------------------------------
(* Inbound frames.                                                         *)

Recovery == [m \in Methods |-> CASE m = "initialize"     -> "DISCONNECTED"
                                 [] m = "session/new"    -> "READY"
                                 [] m = "session/prompt" -> "SESSION_ACTIVE"]

(* An initialize result is never malformed: every field is optional.       *)
Usable(f, method) == f.status = "ok" \/ (f.status = "malformed"
                                         /\ method = "initialize")

Milestone(f, method) ==
    CASE method = "initialize"     -> Initialized
      [] method = "session/new"    -> SessionEstablished(f.session)
      [] method = "session/prompt" -> PromptCompleted

ResponseEffects(f) ==
    IF f.id \in DOMAIN outgoing /\ Usable(f, outgoing[f.id])
      THEN <<Milestone(f, outgoing[f.id])>>
      ELSE <<ProtocolError>>

(* Mutant: the answered request stays in flight.                           *)
HandleResponseKeepsEntry(f) ==
    /\ f.id \in DOMAIN outgoing
    /\ phase' = IF f.status = "error" THEN Recovery[outgoing[f.id]]
                ELSE IF outgoing[f.id] = "initialize" THEN "READY"
                ELSE "SESSION_ACTIVE"
    /\ sessionId' = IF outgoing[f.id] = "session/new" THEN f.session ELSE sessionId
    /\ UNCHANGED <<nextRequestId, outgoing, incoming, requestParams, autoApprovals>>

HandleResponse(f) ==
    /\ f.id \in DOMAIN outgoing
    /\ LET method == outgoing[f.id]
       IN /\ outgoing' = Drop(outgoing, f.id)
          /\ phase' = CASE f.status = "error" -> Recovery[method]
                        [] Usable(f, method)  -> IF method = "initialize"
                                                   THEN "READY"
                                                   ELSE "SESSION_ACTIVE"
                        [] f.status # "error" /\ ~Usable(f, method) -> phase
          /\ sessionId' = IF method = "session/new" /\ f.status = "ok"
                            THEN f.session ELSE sessionId
    /\ UNCHANGED <<nextRequestId, incoming, requestParams, autoApprovals>>

(* No notification changes the machine.                                    *)
UpdateEffects(f) ==
    IF \/ sessionId = NoSession
       \/ f.session # sessionId
       \/ f.body = "missing"
       \/ f.body = "turn" /\ phase # "PROMPT_IN_FLIGHT"
      THEN <<ProtocolError>>
      ELSE IF f.body = "turn" THEN <<TurnOutput>> ELSE <<>>

InSession == phase \in {"SESSION_ACTIVE", "PROMPT_IN_FLIGHT"}

AutoAnswered(f) ==
    /\ PermissionIdentity(f.params) \in autoApprovals
    /\ SelectAutoOption(f.params) # NoOption

PermissionEffects(f) ==
    IF ~InSession \/ f.id \in incoming
      THEN <<ProtocolError>>
      ELSE IF AutoAnswered(f)
             THEN <<PermissionResolved(f.id,
                        Granted(f.params, Selected(SelectAutoOption(f.params))))>>
             ELSE <<PermissionRequested(f.id, f.params)>>

(* Mutant: a replayed id overwrites the slot of the request in flight.     *)
HandlePermissionReplay(f) ==
    /\ InSession
    /\ ~AutoAnswered(f)
    /\ incoming' = incoming \cup {f.id}
    /\ requestParams' = Put(requestParams, f.id, f.params)
    /\ UNCHANGED <<phase, sessionId, nextRequestId, outgoing, autoApprovals>>

(* An auto-answered request is tracked and resolved within the one call,   *)
(* and its identity is already cached: only a prompted request is a change. *)
HandlePermission(f) ==
    /\ InSession
    /\ f.id \notin incoming
    /\ ~AutoAnswered(f)
    /\ incoming' = incoming \cup {f.id}
    /\ requestParams' = Put(requestParams, f.id, f.params)
    /\ UNCHANGED <<phase, sessionId, nextRequestId, outgoing, autoApprovals>>

Effects(f) ==
    CASE f.type = "response"   -> ResponseEffects(f)
      [] f.type = "update"     -> UpdateEffects(f)
      [] f.type = "permission" -> PermissionEffects(f)
      [] f.type \in {"notification", "unsupported"} -> <<>>

(* Does the frame change the machine at all?                               *)
Effective(f) ==
    \/ f.type = "response" /\ f.id \in DOMAIN outgoing
    \/ f.type = "permission" /\ InSession /\ f.id \notin incoming
                             /\ ~AutoAnswered(f)

Handle(f) ==
    \/ f.type = "response" /\ HandleResponse(f)
    \/ f.type = "permission" /\ HandlePermission(f)
    \/ ~Effective(f) /\ UNCHANGED machineVars

-----------------------------------------------------------------------------
(* The machine on its own, under any driver that respects the documented   *)
(* preconditions and any peer.                                             *)

Decisions == {Selected(o) : o \in UNION {{p.options[i].id : i \in DOMAIN p.options}
                                          : p \in Params} \ {NonString}}
             \cup {Cancelled}

MachineNext ==
    \/ Start
    \/ NewSession
    \/ Prompt
    \/ Cancel
    \/ \E r \in RequestIds, d \in Decisions : ResolvePermission(r, d)
    \/ \E f \in Frame : Handle(f)

MachineSpec == MachineInit /\ [][MachineNext]_machineVars

-----------------------------------------------------------------------------
(* Type invariant.                                                         *)
MachineTypeOK ==
    /\ phase \in Phases
    /\ sessionId \in SessionIds \cup {NoSession}
    /\ nextRequestId \in 0..MaxRequests
    /\ DOMAIN outgoing \subseteq Nat
    /\ \A n \in DOMAIN outgoing : outgoing[n] \in Methods
    /\ incoming \subseteq RequestIds
    /\ \A r \in DOMAIN requestParams : requestParams[r] \in Params
    /\ autoApprovals \subseteq {PermissionIdentity(p) : p \in Params}

(* A request id is never reused while a request is in flight, so a late    *)
(* answer cannot be attributed to a newer request: every id in flight was  *)
(* minted before the next one (machine.py start/new_session/prompt).       *)
IdsAreFresh == \A n \in DOMAIN outgoing : n < nextRequestId

(* The phase tells which handshake step is outstanding, whatever order     *)
(* answers, errors and duplicates arrive in: initialize is in flight       *)
(* exactly while INITIALIZING, alone, nothing is in flight while the       *)
(* machine may be started (again), and there is no session before          *)
(* session/new was answered with an id.                                    *)
HandshakePhase ==
    /\ (phase = "INITIALIZING")
           <=> \E n \in DOMAIN outgoing : outgoing[n] = "initialize"
    /\ \A m, n \in DOMAIN outgoing :
           outgoing[m] = "initialize" /\ outgoing[n] = "initialize" => m = n
    /\ phase \in {"DISCONNECTED", "INITIALIZING"}
           => \A n \in DOMAIN outgoing : outgoing[n] = "initialize"
    /\ InSession => sessionId # NoSession

(* The two dictionaries of pending requests agree, and no request is       *)
(* pending in a machine that never had a session.                          *)
PendingTracked ==
    /\ DOMAIN requestParams = incoming
    /\ incoming # {} => sessionId # NoSession

(* machine.py:494 "Restore the phase so the machine is not stuck": a       *)
(* machine in a turn waits for an answer to a session/prompt.              *)
TurnHasPrompt ==
    phase = "PROMPT_IN_FLIGHT"
        => \E n \in DOMAIN outgoing : outgoing[n] = "session/prompt"

=============================================================================
