--------------------------- MODULE MCBufferEdit ---------------------------
(* Instances of BufferEdit for TLC.                                        *)
EXTENDS BufferEdit

(* Files that end their lines in one way, in the other, and in both.       *)
Files == {<<"a", NewLine>>, <<"a", CR, NewLine>>, <<NewLine, CR, NewLine>>}
Typed == {<<"b", NewLine>>}
Foreign == {<<CR>>}

(* str.replace, which the code uses, as the scan it is; LineEndings says   *)
(* what comes of it, character by character.                               *)
Replace(t, old, new) ==
    LET from[i \in 1..(Len(t) + 2)] ==
            IF i > Len(t) THEN <<>>
            ELSE IF SubSeq(t, i, Min({Len(t), i + Len(old) - 1})) = old
                 THEN new \o from[i + Len(old)]
                 ELSE <<t[i]>> \o from[i + 1]
    IN  from[1]

(* Every text of up to six characters.                                     *)
ASSUME ReplaceAssumption ==
    LET CRLF == <<CR, NewLine>>
        LF == <<NewLine>>
    IN  \A t \in BoundedSeq({"a", CR, NewLine}, 6) :
            /\ Collapse(t) = Replace(t, CRLF, LF)
            /\ Expand(t) = Replace(t, LF, CRLF)
            /\ DetectLineEnding(t) = "CRLF" <=>
                  /\ Replace(t, CRLF, <<>>) # t
                  /\ Range(Replace(t, CRLF, <<>>)) \cap {CR, NewLine} = {}

=============================================================================
