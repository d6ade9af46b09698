------------------------------ MODULE AgentIo ------------------------------
(***************************************************************************)
(* The agent's child processes and the three threads that serve each: a    *)
(* wire reader, a stderr reader and a writer (pump.py AgentIo,             *)
(* streaming.py SystemAgentProcess).  A step is the stretch of a thread    *)
(* between two of the points where another thread can be seen: a blocking  *)
(* call, an operation on a shared queue, the last test of _stopped.  The   *)
(* test at the head of a loop is made in the step that gets there.         *)
(*                                                                         *)
(* Children are numbered in the order they are spawned; a chunk of output  *)
(* is its number.                                                          *)
(***************************************************************************)
EXTENDS EventQueue, FiniteSets

CONSTANTS MaxChildren,   \* bound: children spawned in one run
          MaxChunks,     \* bound: chunks a child writes
          MaxErrors      \* bound: stderr chunks a child writes

ASSUME IoBoundsAssumption ==
    MaxChildren \in Nat /\ MaxChunks \in Nat /\ MaxErrors \in Nat

Children == 1..MaxChildren

VARIABLES os,        \* child -> "unborn", "running", "mute" (stdout closed), "dead"
          pipes,     \* child -> are our ends of its pipes open?
          written,   \* child -> chunks written to its stdout
          taken,     \* child -> chunks its wire reader has read
          errors,    \* child -> chunks written to its stderr
          errTaken,  \* child -> chunks its stderr reader has read
          stopped,   \* child -> _stopped of its AgentIo
          outbox,    \* child -> _outbox of its AgentIo: "data", then "stop"
          wire,      \* child -> where its wire reader is
          stderr,    \* child -> where its stderr reader is
          writer,    \* child -> where its writer is
          broken     \* history: a read of its stdout failed

childVars   == <<os, pipes, written, errors>>
channelVars == <<stopped, outbox>>
wireVars    == <<wire, taken, broken>>
stderrVars  == <<stderr, errTaken>>
threadVars  == <<channelVars, wireVars, stderrVars, writer>>

IoInit ==
    /\ os      = [c \in Children |-> "unborn"]
    /\ pipes   = [c \in Children |-> FALSE]
    /\ written = [c \in Children |-> 0]
    /\ taken   = [c \in Children |-> 0]
    /\ errors  = [c \in Children |-> 0]
    /\ errTaken = [c \in Children |-> 0]
    /\ stopped = [c \in Children |-> FALSE]
    /\ outbox  = [c \in Children |-> <<>>]
    /\ wire    = [c \in Children |-> "off"]
    /\ stderr  = [c \in Children |-> "off"]
    /\ writer  = [c \in Children |-> "off"]
    /\ broken  = [c \in Children |-> FALSE]

Living(c) == os[c] \in {"running", "mute"}
Eof(c)    == os[c] \in {"mute", "dead"} /\ taken[c] = written[c]

-----------------------------------------------------------------------------
(* The child, an arbitrary program.                                        *)

ChildWrites(c) ==
    /\ os[c] = "running"
    /\ written[c] < MaxChunks
    /\ written' = [written EXCEPT ![c] = @ + 1]
    /\ UNCHANGED <<os, pipes, errors, threadVars, queueVars>>

ChildComplains(c) ==
    /\ Living(c)
    /\ errors[c] < MaxErrors
    /\ errors' = [errors EXCEPT ![c] = @ + 1]
    /\ UNCHANGED <<os, pipes, written, threadVars, queueVars>>

ChildClosesStdout(c) ==
    /\ os[c] = "running"
    /\ os' = [os EXCEPT ![c] = "mute"]
    /\ UNCHANGED <<pipes, written, errors, threadVars, queueVars>>

ChildDies(c) ==
    /\ Living(c)
    /\ os' = [os EXCEPT ![c] = "dead"]
    /\ UNCHANGED <<pipes, written, errors, threadVars, queueVars>>

-----------------------------------------------------------------------------
(* _read_wire.                                                             *)

WireMoves(c, from, to) == wire[c] = from /\ wire' = [wire EXCEPT ![c] = to]

WireReads(c) ==
    /\ WireMoves(c, "read", "put")
    /\ pipes[c] /\ taken[c] < written[c]
    /\ taken' = [taken EXCEPT ![c] = @ + 1]
    /\ UNCHANGED <<childVars, queueVars, channelVars, stderrVars, writer,
                   broken>>

WirePuts(c) ==
    /\ WireMoves(c, "put", IF stopped[c] THEN "report" ELSE "read")
    /\ Put([type |-> "bytes", child |-> c, n |-> taken[c]])
    /\ UNCHANGED <<childVars, channelVars, stderrVars, writer, taken, broken>>

(* Mutant: a dead child ends the stream at once, what it wrote or not.     *)
WireEndsEarly(c) ==
    /\ WireMoves(c, "read", "report")
    /\ os[c] \in {"mute", "dead"} \/ ~pipes[c]
    /\ UNCHANGED <<childVars, queueVars, channelVars, stderrVars, writer,
                   taken, broken>>

(* The read returns b"", or raises because terminate closed the pipe.      *)
WireEnds(c) ==
    /\ WireMoves(c, "read", "report")
    /\ Eof(c) \/ ~pipes[c]
    /\ UNCHANGED <<childVars, queueVars, channelVars, stderrVars, writer,
                   taken, broken>>

(* The read raises OSError though nobody closed the pipe.                  *)
WireBreaks(c) ==
    /\ WireMoves(c, "read", "report")
    /\ pipes[c]
    /\ broken' = [broken EXCEPT ![c] = TRUE]
    /\ UNCHANGED <<childVars, queueVars, channelVars, stderrVars, writer,
                   taken>>

(* Mutant: the exit is reported only when poll() has a status.             *)
WireReportsStatus(c) ==
    /\ WireMoves(c, "report", IF stopped[c] \/ os[c] # "dead"
                                THEN "done" ELSE "exit")
    /\ UNCHANGED <<childVars, queueVars, channelVars, stderrVars, writer,
                   taken, broken>>

WireReports(c) ==
    /\ WireMoves(c, "report", IF stopped[c] THEN "done" ELSE "exit")
    /\ UNCHANGED <<childVars, queueVars, channelVars, stderrVars, writer,
                   taken, broken>>

WirePutsExit(c) ==
    /\ WireMoves(c, "exit", "done")
    /\ Put([type |-> "exited", child |-> c])
    /\ UNCHANGED <<childVars, channelVars, stderrVars, writer, taken, broken>>

-----------------------------------------------------------------------------
(* _read_stderr.                                                           *)

StderrMoves(c, from, to) == stderr[c] = from /\ stderr' = [stderr EXCEPT ![c] = to]

StderrReads(c) ==
    /\ StderrMoves(c, "read", "put")
    /\ pipes[c] /\ errTaken[c] < errors[c]
    /\ errTaken' = [errTaken EXCEPT ![c] = @ + 1]
    /\ UNCHANGED <<childVars, queueVars, channelVars, wireVars, writer>>

StderrPuts(c) ==
    /\ StderrMoves(c, "put", IF stopped[c] THEN "done" ELSE "read")
    /\ Put([type |-> "stderr", child |-> c])
    /\ UNCHANGED <<childVars, channelVars, wireVars, writer, errTaken>>

StderrEnds(c) ==
    /\ StderrMoves(c, "read", "done")
    /\ (os[c] = "dead" /\ errTaken[c] = errors[c]) \/ ~pipes[c]
    /\ UNCHANGED <<childVars, queueVars, channelVars, wireVars, writer,
                   errTaken>>

-----------------------------------------------------------------------------
(* _write_loop.  Writing blocks until the child drains its stdin, which it *)
(* may never do; it raises once the child is dead or the pipe closed.      *)

WriterMoves(c, from, to) == writer[c] = from /\ writer' = [writer EXCEPT ![c] = to]

WriterGets(c) ==
    /\ outbox[c] # <<>>
    /\ outbox' = [outbox EXCEPT ![c] = Tail(@)]
    /\ WriterMoves(c, "get", IF Head(outbox[c]) = "stop" \/ stopped[c]
                               THEN "done" ELSE "write")
    /\ UNCHANGED <<childVars, queueVars, stopped, wireVars, stderrVars>>

WriterWrites(c) ==
    /\ WriterMoves(c, "write", "get")
    /\ Living(c) /\ pipes[c]
    /\ UNCHANGED <<childVars, queueVars, channelVars, wireVars, stderrVars>>

(* Mutant: the writer reports the dead child too.                          *)
WriterReports(c) ==
    /\ WriterMoves(c, "write", "done")
    /\ ~Living(c) \/ ~pipes[c]
    /\ Put([type |-> "exited", child |-> c])
    /\ UNCHANGED <<childVars, channelVars, wireVars, stderrVars>>

WriterEnds(c) ==
    /\ WriterMoves(c, "write", "done")
    /\ ~Living(c) \/ ~pipes[c]
    /\ UNCHANGED <<childVars, queueVars, channelVars, wireVars, stderrVars>>

(* An exception in a thread that is no pipe error fails the queue.         *)
ThreadCrashes(c) ==
    /\ \/ WireMoves(c, "read", "done") /\ UNCHANGED <<stderr, writer>>
       \/ StderrMoves(c, "read", "done") /\ UNCHANGED <<wire, writer>>
       \/ WriterMoves(c, "write", "done") /\ UNCHANGED <<wire, stderr>>
    /\ Fail
    /\ UNCHANGED <<childVars, channelVars, taken, errTaken, broken>>

-----------------------------------------------------------------------------
Child(c) ==
    \/ ChildWrites(c)
    \/ ChildComplains(c)
    \/ ChildClosesStdout(c)
    \/ ChildDies(c)

(* What each thread does once it can: the OS schedules every thread.       *)
WireStep(c) ==
    \/ WireReads(c)
    \/ WirePuts(c)
    \/ WireEnds(c)
    \/ WireReports(c)
    \/ WirePutsExit(c)

StderrStep(c) ==
    \/ StderrReads(c)
    \/ StderrPuts(c)
    \/ StderrEnds(c)

WriterStep(c) == WriterGets(c) \/ WriterEnds(c)

IoNext ==
    \E c \in Children :
        \/ Child(c)
        \/ WireStep(c)
        \/ StderrStep(c)
        \/ WriterStep(c)
        \/ WriterWrites(c)
        \/ WireBreaks(c)
        \/ ThreadCrashes(c)

ThreadsEnded(c) == {wire[c], stderr[c], writer[c]} \subseteq {"off", "done"}

=============================================================================
