---------------------------- MODULE LineEndings ----------------------------
(***************************************************************************)
(* files.py: what a buffer holds of its file and what a save writes back.  *)
(* A file whose every line separator is a carriage return and a newline is *)
(* held with newlines alone; any other is held as it is.                   *)
(***************************************************************************)
EXTENDS Integers, Sequences, SequencesExt

CONSTANTS CR, NewLine         \* "\r" and "\n"

(* A separator of two characters begins, or ends, at position i.           *)
StartsPair(t, i) == t[i] = CR /\ i < Len(t) /\ t[i + 1] = NewLine
EndsPair(t, i) == t[i] = NewLine /\ i > 1 /\ t[i - 1] = CR

(* The pairs are all there is of either character.                         *)
OnlyPairs(t) == \A i \in DOMAIN t :
    t[i] \in {CR, NewLine} => StartsPair(t, i) \/ EndsPair(t, i)

DetectLineEnding(t) ==
    IF (\E i \in DOMAIN t : StartsPair(t, i)) /\ OnlyPairs(t) THEN "CRLF" ELSE "LF"

(* replace(CRLF, LF), and replace(LF, CRLF).                               *)
Collapse(t) ==
    FlattenSeq([i \in 1..Len(t) |-> IF StartsPair(t, i) THEN <<>> ELSE <<t[i]>>])
Expand(t) ==
    FlattenSeq([i \in 1..Len(t) |-> IF t[i] = NewLine THEN <<CR, NewLine>>
                                    ELSE <<t[i]>>])

ToBufferText(file, eol) == IF eol = "CRLF" THEN Collapse(file) ELSE file

(* Collapsing first keeps a CR of the text from doubling before a newline. *)
ToFileText(t, eol) == IF eol = "CRLF" THEN Expand(Collapse(t)) ELSE t

(* What a visit of the file puts in the buffer.                            *)
Visited(file) == ToBufferText(file, DetectLineEnding(file))

=============================================================================
