------------------------------ MODULE MCParams ------------------------------
(* Permission payloads for the model-checking instances.                   *)
LOCAL INSTANCE Sequences

Payload(tool, call, options) == [tool |-> tool, call |-> call, options |-> options]
Option(id, kind) == [id |-> id, kind |-> kind]

Usual == <<Option("once", "allow_once"), Option("sess", "allow_session"),
           Option("no", "reject_once")>>

(* One payload, enough where payloads play no part.                        *)
OnePayload == {Payload("edit", "c1", Usual)}

(* Every scope, an unknown kind, an unusable id, and an id two options     *)
(* share, in one payload.                                                  *)
AllScopes(nonString) ==
    {Payload("run", "c1", <<Option(nonString, "allow_once"),
                            Option("evil", "none"),
                            Option("ever", "allow_always"),
                            Option("once", "allow_once"),
                            Option("once", "allow_session")>>)}

=============================================================================
