----------------------------- MODULE AgentLife -----------------------------
(***************************************************************************)
(* What the pump relies on: the life of its agent as the events it handles *)
(* tell it (pump.py receive, exited).  One child at a time is spawned; its *)
(* chunks arrive in the order it wrote them, none skipped and none twice;  *)
(* then it is gone, once, and nothing of it arrives afterwards.            *)
(***************************************************************************)
EXTENDS Naturals

CONSTANT NoChild          \* no agent is running

VARIABLES current,        \* the child being conversed with
          last,           \* the last chunk received from it
          born            \* children spawned so far

Spawn ==
    /\ current = NoChild
    /\ born' = born + 1
    /\ current' = born'
    /\ last' = 0

Receive ==
    /\ current # NoChild
    /\ last' = last + 1
    /\ UNCHANGED <<current, born>>

Gone ==
    /\ current # NoChild
    /\ current' = NoChild
    /\ last' = 0
    /\ UNCHANGED born

LifeInit == current = NoChild /\ last = 0 /\ born = 0
LifeNext == Spawn \/ Receive \/ Gone
LifeSpec == LifeInit /\ [][LifeNext]_<<current, last, born>>

=============================================================================
