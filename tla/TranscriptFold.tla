--------------------------- MODULE TranscriptFold ---------------------------
(***************************************************************************)
(* acp/transcript.py: the text an effect adds to an agent buffer, given    *)
(* what is open in it.  The text is a sequence of pieces: the two headers, *)
(* and one piece for what the effect itself says, its wording left out.    *)
(*                                                                         *)
(* "text" and "thought" are the two kinds of chunk; "block" is everything  *)
(* set off on lines of its own (tool calls, plans, permissions, protocol   *)
(* errors); "end" is the end of a turn; "silent" are the handshake steps.  *)
(***************************************************************************)
EXTENDS Naturals, Sequences

EffectKinds == {"text", "thought", "block", "end", "silent"}

FreshFold == [turnOpen |-> FALSE, thoughtOpen |-> FALSE, turns |-> 0]

TurnHeader(fold) == IF fold.turnOpen THEN <<>> ELSE <<"turn header">>
ThoughtHeader(fold) == IF fold.thoughtOpen THEN <<>> ELSE <<"thought header">>

(* The fold after an effect.                                               *)
AdvanceFold(fold, effect) ==
    CASE effect = "text"    -> [fold EXCEPT !.turnOpen = TRUE, !.thoughtOpen = FALSE]
      [] effect = "thought" -> [fold EXCEPT !.turnOpen = TRUE, !.thoughtOpen = TRUE]
      [] effect = "block"   -> [fold EXCEPT !.thoughtOpen = FALSE]
      [] effect = "end"     -> [turnOpen |-> FALSE, thoughtOpen |-> FALSE,
                                turns |-> fold.turns + 1]
      [] effect = "silent"  -> fold

(* The text the effect adds.                                               *)
AdvanceText(fold, effect) ==
    CASE effect = "text"    -> TurnHeader(fold) \o <<effect>>
      [] effect = "thought" -> TurnHeader(fold) \o ThoughtHeader(fold) \o <<effect>>
      [] effect \in {"block", "end"} -> <<effect>>
      [] effect = "silent"  -> <<>>

-----------------------------------------------------------------------------
(* What a reader of the whole transcript expects, without a fold: a turn   *)
(* has its header before its first chunk and nowhere else, a thought has   *)
(* one before each run of thought chunks.                                  *)
Chunks == {"text", "thought"}

FirstOfTurn(es, i) ==
    \A j \in 1..(i - 1) : es[j] \in Chunks => \E k \in j..(i - 1) : es[k] = "end"

StartsThought(es, i) ==
    \A j \in 1..(i - 1) : es[j] = "thought"
        => \E k \in j..(i - 1) : es[k] \notin {"thought", "silent"}

Expected(es, i) ==
    (IF es[i] \in Chunks /\ FirstOfTurn(es, i) THEN <<"turn header">> ELSE <<>>)
    \o (IF es[i] = "thought" /\ StartsThought(es, i) THEN <<"thought header">> ELSE <<>>)
    \o (IF es[i] = "silent" THEN <<>> ELSE <<es[i]>>)

=============================================================================
