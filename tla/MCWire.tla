------------------------------- MODULE MCWire -------------------------------
(* Instances of Wire for TLC.                                              *)
EXTENDS Wire, TLC

BufferSymmetry == Permutations(AgentBuffers)

(* Updates of a turn, its end, a request of the agent's, and an error that *)
(* answers nothing.                                                        *)
Spoken ==
    {Notification("session/update", "text"), Notification("session/update", "thought"),
     Response("int", Null), Request("str", "fs/read_text_file", Null),
     ResponseError(Null, "error")}

(* One envelope against each rule of JSON-RPC 2.0 that messages.py lists.  *)
Refused ==
    {NotAnObject,
     [jsonrpc |-> "1.0", method |-> "m"],
     Object([id |-> "int", result |-> "r", error |-> "error"]),
     Object([method |-> "m", result |-> "r"]),
     Object([id |-> "float", method |-> "m"]),
     Object([id |-> Null, method |-> "m"]),
     Object([id |-> Null, result |-> "r"]),
     Object([method |-> "not a string"]),
     Object([id |-> "int", error |-> "no code"]),
     Object([id |-> "int"])}

=============================================================================
