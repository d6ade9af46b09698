----------------------------- MODULE Envelopes -----------------------------
(***************************************************************************)
(* acp/messages.py: JSON-RPC envelopes and their JSON form.                *)
(*                                                                         *)
(* A JSON object is a function from the names of its fields.  Of a value   *)
(* only its JSON type matters, and the content where a payload has one.    *)
(***************************************************************************)
EXTENDS Naturals, Sequences

CONSTANTS Null,        \* JSON's null, Python's None
          NotAnObject  \* a JSON value that is no object

(* The types an id may have; floats, booleans and lists are not ids.       *)
ValidId(v) == v \in {"int", "str", Null}

Request(id, method, params) ==
    [type |-> "Request", id |-> id, method |-> method, params |-> params]
Notification(method, params) ==
    [type |-> "Notification", method |-> method, params |-> params]
Response(id, result) == [type |-> "Response", id |-> id, result |-> result]
ResponseError(id, error) == [type |-> "ResponseError", id |-> id, error |-> error]

(* An object with the version and these fields; None is left out of them.  *)
Object(fields) == [f \in DOMAIN fields \cup {"jsonrpc"} |->
                      IF f = "jsonrpc" THEN "2.0" ELSE fields[f]]
Without(fields, name) == [f \in DOMAIN fields \ {name} |-> fields[f]]

ToJson(m) ==
    LET fields == Without(m, "type")
    IN  Object(IF m.type \in {"Request", "Notification"} /\ m.params = Null
                 THEN Without(fields, "params") ELSE fields)

Has(p, field) == field \in DOMAIN p

Get(p, field) == IF Has(p, field) THEN p[field] ELSE Null

(* The checks of parse_message; any that fails raises AcpProtocolError.    *)
ValidEnvelope(p) ==
    /\ p # NotAnObject
    /\ Get(p, "jsonrpc") = "2.0"
    /\ ~(Has(p, "result") /\ Has(p, "error"))
    /\ Has(p, "method") => ~Has(p, "result") /\ ~Has(p, "error")
    /\ Has(p, "id") => ValidId(p.id)
    /\ Has(p, "id") /\ p.id = Null => Has(p, "error") /\ ~Has(p, "method")
    /\ IF Has(p, "method")
         THEN p.method # "not a string"
         ELSE Has(p, "id") /\ (Has(p, "result") \/ Get(p, "error") = "error")

(* The typed message of a valid envelope.                                  *)
ParseMessage(p) ==
    IF Has(p, "method")
      THEN IF Has(p, "id") THEN Request(p.id, p.method, Get(p, "params"))
                           ELSE Notification(p.method, Get(p, "params"))
      ELSE IF Has(p, "result") THEN Response(p.id, p.result)
                               ELSE ResponseError(p.id, p.error)

=============================================================================
