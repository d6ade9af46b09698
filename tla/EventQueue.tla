----------------------------- MODULE EventQueue -----------------------------
(***************************************************************************)
(* The one mailbox between the producer threads and the editor's loop      *)
(* (input.py EventQueue): two lanes, the human's first.  Every method runs *)
(* under the queue's lock, so each is one step of its caller.  Events      *)
(* carry the child they come from, which the code's events do not: it is   *)
(* what the properties compare.                                            *)
(***************************************************************************)
EXTENDS Naturals, Sequences, SequencesExt

CONSTANT MaxFailures     \* bound: producers that fail in one run

ASSUME FailuresAssumption == MaxFailures \in Nat

VARIABLES priority, background, closed,
          failures       \* producers that failed

queueVars == <<priority, background, closed, failures>>

PriorityTypes == {"key", "resize", "failed"}

QueueInit ==
    /\ priority = <<>>
    /\ background = <<>>
    /\ closed = FALSE
    /\ failures = 0

(* Mutant: only agent output waits in the background lane.                 *)
EnqueueExitFirst(e) ==
    LET urgent == e.type \notin {"bytes", "stderr"}
    IN  /\ priority' = IF ~closed /\ urgent THEN Append(priority, e) ELSE priority
        /\ background' = IF ~closed /\ ~urgent THEN Append(background, e)
                                               ELSE background
        /\ UNCHANGED closed

(* In its lane; dropped once the queue is closed.                          *)
Enqueue(e) ==
    LET urgent == e.type \in PriorityTypes
    IN  /\ priority' = IF ~closed /\ urgent THEN Append(priority, e) ELSE priority
        /\ background' = IF ~closed /\ ~urgent THEN Append(background, e)
                                               ELSE background
        /\ UNCHANGED closed

Put(e) == Enqueue(e) /\ UNCHANGED failures

(* fail: a producer is about to die.                                       *)
Fail ==
    /\ failures < MaxFailures
    /\ failures' = failures + 1
    /\ Enqueue([type |-> "failed"])

(* next_event.  The loop waits until Available.                            *)
Available == priority # <<>> \/ background # <<>>
NextEvent == IF priority # <<>> THEN Head(priority) ELSE Head(background)
Pop ==
    /\ Available
    /\ IF priority # <<>>
         THEN priority' = Tail(priority) /\ UNCHANGED background
         ELSE background' = Tail(background) /\ UNCHANGED priority
    /\ UNCHANGED <<closed, failures>>

CloseQueue == closed' = TRUE /\ UNCHANGED <<priority, background, failures>>

=============================================================================
