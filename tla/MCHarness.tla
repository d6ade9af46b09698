----------------------------- MODULE MCHarness -----------------------------
(* Instances of Harness for TLC.                                           *)
EXTENDS Harness, MCParams

AnyPayload == OnePayload \cup AllScopes(NonString)

(* Sequences, chords, answers, and keys that are none of these.            *)
SomeBytes == {"ESC", "[", "O", "A", "1", "y", "n", "a", "x", "b", "C-x", "C-c", "C-f",
              "C-s", "C-g", "C-k", "RET", "DEL"}

=============================================================================
