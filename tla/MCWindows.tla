----------------------------- MODULE MCWindows -----------------------------
(* Instances of Windows for TLC.                                           *)
EXTENDS Windows

(* One file, whose name the user may also type.                            *)
OneFile == [p \in {"p"} |-> "file"]

(* The user may claim the agent's name before the agent does.              *)
Names == {<<"agent", 1>>, <<"scratch", 1>>}

(* The one of that name, theirs or the agent's, is where they set a mark.   *)
Marked == {<<"agent", 1>>}

=============================================================================
