---------------------------- MODULE Permissions ----------------------------
(***************************************************************************)
(* The payload of a session/request_permission and everything the client   *)
(* reads out of it: the option list, the auto-approval identity, the       *)
(* option the machine reports on a cache hit and the decision a key of the *)
(* choice minibuffer stands for (acp/machine.py, session.py).              *)
(*                                                                         *)
(* A payload is a record [tool, call, options]: the tool and its arguments, *)
(* the per-invocation toolCallId, and the options as the agent ordered     *)
(* them.  An option is a record [id, kind]; its id is a string, possibly   *)
(* empty, or NonString, any JSON value that is not a string.               *)
(***************************************************************************)
EXTENDS Naturals, Sequences, SequencesExt

CONSTANTS RequestIds,   \* JSON-RPC ids of agent -> client requests
          Params,       \* the permission payloads an agent may send
          NonString,    \* an optionId that is not a JSON string
          NoOption,     \* Python's None where an optionId is expected
          NoDecision    \* Python's None where a decision is expected

AllowKinds     == {"allow_once", "allow_session", "allow_always"}
RejectKinds    == {"reject_once", "reject_always"}
CacheableKinds == {"allow_session", "allow_always"}
NoKind         == "none"    \* a missing kind, or one outside the 0.9.0 enum
OptionKinds    == AllowKinds \cup RejectKinds \cup {NoKind}

ASSUME ParamsAssumption ==
    /\ \A p \in Params : /\ DOMAIN p = {"tool", "call", "options"}
                         /\ Len(p.options) \in Nat
                         /\ DOMAIN p.options = 1..Len(p.options)
                         /\ \A i \in DOMAIN p.options :
                                p.options[i].kind \in OptionKinds
    /\ NoOption # NonString

(* A permission request as the session and the machine pass it around.     *)
Request == [id : RequestIds, params : Params]

-----------------------------------------------------------------------------
(* What the machine reads.                                                 *)

(* Tool, arguments and options; the volatile toolCallId is stripped.       *)
PermissionIdentity(p) == [tool |-> p.tool, options |-> p.options]

(* optionId of the first option of one of these kinds with a string id.    *)
FirstIdOf(p, kinds) ==
    LET i == SelectInSeq(p.options,
                 LAMBDA o : o.kind \in kinds /\ o.id # NonString)
    IN  IF i = 0 THEN NoOption ELSE p.options[i].id

(* Python's `a or b`: None and the empty string both fall through.         *)
SelectAutoOption(p) ==
    LET cached == FirstIdOf(p, CacheableKinds)
    IN  IF cached \in {NoOption, ""} THEN FirstIdOf(p, {"allow_once"})
                                     ELSE cached

(* The kind of the LAST option carrying the id: later duplicates shadow.   *)
KindOf(p, optionId) ==
    LET i == SelectLastInSeq(p.options, LAMBDA o : o.id = optionId)
    IN  IF i = 0 THEN NoKind ELSE p.options[i].kind

Selected(optionId) == [type |-> "selected", option |-> optionId]
Cancelled          == [type |-> "cancelled"]

DecidedKind(p, d) == IF d.type = "selected" THEN KindOf(p, d.option) ELSE NoKind
Granted(p, d)     == DecidedKind(p, d) \in AllowKinds
Caches(p, d)      == DecidedKind(p, d) \in CacheableKinds

-----------------------------------------------------------------------------
(* What a key at the choice prompt means.  The keys are RET, C-g, the four *)
(* answer characters and "x", any other printable character.               *)

AnswerChars == {"y", "s", "a", "n"}
Chars       == AnswerChars \cup {"x"}

KeyKind == [y |-> "allow_once", s |-> "allow_session", a |-> "allow_always"]

ChoiceKeyToDecision(p, c) ==
    CASE c \in DOMAIN KeyKind ->
            LET id == FirstIdOf(p, {KeyKind[c]})
            IN  IF id = NoOption THEN NoDecision ELSE Selected(id)
      [] c = "n" ->
            LET id == FirstIdOf(p, RejectKinds)
            IN  IF id = NoOption THEN Cancelled ELSE Selected(id)
      [] c \notin AnswerChars -> NoDecision

(* Mutant: RET takes the first allow option, whatever its scope.           *)
AcceptFirstAllow(p) ==
    LET id == FirstIdOf(p, AllowKinds)
    IN  IF id = NoOption THEN Cancelled ELSE Selected(id)

(* RET stands for allow_once only; without a usable one it denies.         *)
ChoiceAcceptDecision(p) ==
    LET id == FirstIdOf(p, {"allow_once"})
    IN  IF id = NoOption THEN Cancelled ELSE Selected(id)

=============================================================================
