-------------------------------- MODULE Wire --------------------------------
(***************************************************************************)
(* The way from the child's output to an agent buffer: the child writes    *)
(* lines, the pipe hands them over in chunks of any size, the decoder      *)
(* (acp/codec.py) finds the lines again, parse_message makes messages of   *)
(* them, and the effects of one chunk's frames are rendered and appended   *)
(* to a buffer by one delivery (pump.py receive, session.py).              *)
(*                                                                         *)
(* The machine between messages and effects is AcpMachine's subject; here  *)
(* a message stands for the effect it has in a turn.  Which buffer a       *)
(* delivery goes to is AgentPump's; here it is any agent buffer.           *)
(***************************************************************************)
EXTENDS Envelopes, TranscriptFold, SequencesExt

CONSTANTS Messages,       \* what the child says
          BadPayloads,    \* JSON it may send that is no envelope
          AgentBuffers,
          MaxItems,       \* bound: lines the child writes
          MaxOdd,         \* bound: how many of them are no message
          MaxDeaths       \* bound: children that die

(* What is said is a message of JSON-RPC; an update stands for the effect  *)
(* it has.                                                                 *)
WellFormed(m) ==
    \/ /\ m.type = "Request"
       /\ m = Request(m.id, m.method, m.params)
       /\ m.id \in {"int", "str"} /\ m.method # "not a string"
    \/ /\ m.type = "Notification"
       /\ m = Notification(m.method, m.params)
       /\ m.params \in EffectKinds /\ m.method # "not a string"
    \/ /\ m.type = "Response"
       /\ m = Response(m.id, m.result)
       /\ m.id \in {"int", "str"}
    \/ /\ m.type = "ResponseError"
       /\ m = ResponseError(m.id, m.error)
       /\ ValidId(m.id) /\ m.error = "error"

ASSUME NullAssumption == Null \notin {"int", "str"}
ASSUME MessagesAssumption ==
    \A m \in Messages : WellFormed(m) /\ ToJson(m) # NotAnObject
ASSUME BadPayloadsAssumption == \A p \in BadPayloads : ~ValidEnvelope(p)

VARIABLES
    pipe,       \* bytes written and not yet read
    buffer,     \* JsonRpcDecoder._buffer
    alive,      \* there is a child
    deaths,
    folds,      \* _agent_folds
    transcript, \* the text of each agent buffer
    \* History, for the properties only.
    sent,       \* the complete lines written
    lines,      \* how many of them have been read to their end
    received,   \* what came out of the decoder and parse_message
    delivered   \* the effects each buffer was given

historyVars == <<sent, lines, received, delivered>>
vars == <<pipe, buffer, alive, deaths, folds, transcript, historyVars>>

-----------------------------------------------------------------------------
(* Bytes.  The JSON text of a value is two of them, so that a chunk can    *)
(* end inside it.                                                          *)
NL == <<"newline">>
SP == <<"space">>
Opening(p) == <<"opening", p>>
Closing(p) == <<"closing", p>>

(* encode: one line per value.                                             *)
Encode(p) == <<Opening(p), Closing(p), NL>>

(* bytes.strip: the line from its first byte that is no blank to its last. *)
Strip(line) ==
    LET inked == {i \in DOMAIN line : line[i] # SP}
    IN  IF inked = {} THEN <<>> ELSE SubSeq(line, Min(inked), Max(inked))

(* Is the line the JSON text of one value?  If not, json.loads raises one  *)
(* of the errors that messages catches, JSONDecodeError or                 *)
(* UnicodeDecodeError.  Lines on which it raises another (an integer over  *)
(* Python's digit limit, nesting over its recursion limit) are left out:   *)
(* the exception leaves messages and the chunk's earlier results are lost. *)
IsJson(line) ==
    /\ Len(Strip(line)) = 2
    /\ Strip(line)[1][1] = "opening"
    /\ Strip(line)[2] = Closing(Strip(line)[1][2])

Failure == [type |-> "DecodeFailure"]
Invalid == [type |-> "AcpProtocolError"]

(* One complete line: nothing for a blank one, else one result.            *)
DecodeLine(line) ==
    IF Strip(line) = <<>> THEN <<>>
    ELSE IF ~IsJson(line) THEN <<Failure>>
    ELSE LET p == Strip(line)[1][2]
         IN  IF ValidEnvelope(p) THEN <<ParseMessage(p)>> ELSE <<Invalid>>

(* Mutant: the unfinished line is decoded too.                             *)
RestAfterAll(bytes) == <<>>

(* The positions of the newlines, the unfinished line after the last one,  *)
(* and the results of the finished ones, in order.                         *)
Newlines(bytes) == {i \in 1..Len(bytes) : bytes[i] = NL}
LastNewline(bytes) == Max(Newlines(bytes) \cup {0})
Rest(bytes) == SubSeq(bytes, LastNewline(bytes) + 1, Len(bytes))

LineUpTo(bytes, i) ==
    SubSeq(bytes, Max({j \in Newlines(bytes) : j < i} \cup {0}) + 1, i - 1)

Decoded(bytes) ==
    FlattenSeq([i \in 1..Len(bytes) |->
        IF bytes[i] = NL THEN DecodeLine(LineUpTo(bytes, i)) ELSE <<>>])

(* What a result shows in the transcript of a running turn; the requests   *)
(* of the agent are refused without a word.                                *)
EffectOf(r) ==
    CASE r.type = "Notification" -> r.params
      [] r.type = "Response"     -> "end"
      [] r.type = "Request"      -> "silent"
      [] r.type \in {"ResponseError", "DecodeFailure", "AcpProtocolError"} -> "block"

-----------------------------------------------------------------------------
(* The fold and the text after several effects.                            *)
FoldAfter(fold, effects) ==
    LET after[i \in 0..Len(effects)] ==
            IF i = 0 THEN fold ELSE AdvanceFold(after[i - 1], effects[i])
    IN  after[Len(effects)]

TextOf(fold, effects) ==
    FlattenSeq([i \in 1..Len(effects) |->
                    AdvanceText(FoldAfter(fold, SubSeq(effects, 1, i - 1)), effects[i])])

(* Mutant: one fold for all buffers.                                       *)
DeliverToSharedFold(b, effects) ==
    /\ folds' = [c \in AgentBuffers |-> FoldAfter(folds[b], effects)]
    /\ transcript' = [transcript EXCEPT ![b] = @ \o TextOf(folds[b], effects)]
    /\ delivered' = [delivered EXCEPT ![b] = @ \o effects]

(* DeliverSessionEffects: the target's fold advances and its text grows in *)
(* one dispatch.                                                           *)
Deliver(b, effects) ==
    /\ folds' = [folds EXCEPT ![b] = FoldAfter(@, effects)]
    /\ transcript' = [transcript EXCEPT ![b] = @ \o TextOf(folds[b], effects)]
    /\ delivered' = [delivered EXCEPT ![b] = @ \o effects]

Init ==
    /\ pipe = <<>> /\ buffer = <<>> /\ alive = TRUE /\ deaths = 0
    /\ folds = [b \in AgentBuffers |-> FreshFold]
    /\ transcript = [b \in AgentBuffers |-> <<>>]
    /\ sent = <<>> /\ lines = 0 /\ received = <<>>
    /\ delivered = [b \in AgentBuffers |-> <<>>]

-----------------------------------------------------------------------------
(* The child: messages, other JSON, blank lines and garbage.               *)
Items == [kind : {"message"}, value : Messages]
         \cup [kind : {"payload"}, value : BadPayloads]
         \cup [kind : {"blank", "garbage"}]

Line(item) ==
    CASE item.kind = "message" -> Encode(ToJson(item.value))
      [] item.kind = "payload" -> <<SP>> \o Encode(item.value)
      [] item.kind = "blank"   -> <<SP, NL>>
      [] item.kind = "garbage" -> <<Opening(NotAnObject), NL>>

Odd(items) == Cardinality({i \in DOMAIN items : items[i].kind # "message"})

Write(item) ==
    /\ alive /\ Len(sent) < MaxItems
    /\ sent' = Append(sent, item) /\ Odd(sent') <= MaxOdd
    /\ pipe' = pipe \o Line(item)
    /\ UNCHANGED <<buffer, alive, deaths, folds, transcript, lines, received, delivered>>

(* The child dies, between two lines or with one begun.                    *)
Die(begun) ==
    /\ alive /\ deaths < MaxDeaths
    /\ pipe' = pipe \o begun
    /\ alive' = FALSE /\ deaths' = deaths + 1
    /\ UNCHANGED <<buffer, folds, transcript, historyVars>>

(* pump.receive: a chunk of any length is fed to the decoder, and what it  *)
(* finished is delivered at once.                                          *)
Receive(n, b) ==
    LET bytes == buffer \o SubSeq(pipe, 1, n)
    IN  \E results \in {Decoded(bytes)} :
            /\ pipe' = SubSeq(pipe, n + 1, Len(pipe))
            /\ buffer' = Rest(bytes)
            /\ Deliver(b, [i \in DOMAIN results |-> EffectOf(results[i])])
            /\ received' = received \o results
            /\ lines' = lines + Cardinality(Newlines(bytes))
            /\ UNCHANGED <<alive, deaths, sent>>

(* pump._reset: a fresh decoder for the next child.                        *)
Reset == alive' = TRUE /\ buffer' = <<>>

(* pump.exited, once everything the child wrote was read.                  *)
Exited(b) ==
    /\ ~alive /\ pipe = <<>>
    /\ Deliver(b, <<"block">>)
    /\ Reset
    /\ UNCHANGED <<pipe, deaths, sent, lines, received>>

Next ==
    \/ \E item \in Items : Write(item)
    \/ \E begun \in {<<>>, <<Opening(NotAnObject)>>} : Die(begun)
    \/ \E n \in 1..Len(pipe), b \in AgentBuffers : Receive(n, b)
    \/ \E b \in AgentBuffers : Exited(b)

Spec == Init /\ [][Next]_vars

-----------------------------------------------------------------------------
(* Properties.                                                             *)

(* What each line ought to come out as.                                    *)
Outcome(item) ==
    CASE item.kind = "message" -> <<item.value>>
      [] item.kind = "payload" -> <<Invalid>>
      [] item.kind = "blank"   -> <<>>
      [] item.kind = "garbage" -> <<Failure>>

(* JsonRpcDecoder, parse_message, to_json: however the pipe cuts the       *)
(* bytes up, every finished line comes out once, in order, as the message  *)
(* that went in; a bad line is one error and spoils no neighbour; and a    *)
(* line its child never finished never joins the next child's first.       *)
MessagesArriveWhole ==
    received = FlattenSeq([i \in 1..lines |-> Outcome(sent[i])])

(* advance, _render_effects: a buffer's transcript is that of its own      *)
(* effects, headers in the right places, whatever batches they came in and *)
(* whatever other buffers were given in between.                           *)
TranscriptReadsRight ==
    \A b \in AgentBuffers :
        LET es == delivered[b]
        IN  transcript[b] = FlattenSeq([i \in 1..Len(es) |-> Expected(es, i)])

=============================================================================
