----------------------------- MODULE EventLoop -----------------------------
(***************************************************************************)
(* run_editor (terminal.py) over the event queue: the loop, the part of    *)
(* the pump that owns the child (pump.py _spawn, close, _reset), the       *)
(* terminal's two reader threads and the teardown.  What a key or a        *)
(* delivery does to the editor is left to AgentPump; here a key quits, or  *)
(* is a command that may have the pump spawn an agent or write to it.      *)
(***************************************************************************)
EXTENDS AgentIo

CONSTANTS Sizes,        \* terminal sizes
          NoSize,       \* the size watcher has no baseline yet
          MaxKeys,      \* bound: keys typed
          MaxResizes    \* bound: resizes of the terminal

ASSUME LoopAssumption ==
    MaxKeys \in Nat /\ MaxResizes \in Nat /\ NoSize \notin Sizes /\ Sizes # {}

NoChild == 0
KeyKinds == {"command", "quit"}

VARIABLES pc,            \* where the loop is
          after,         \* where it goes when the child has been closed
          process,       \* pump._process
          channel,       \* pump._channel
          spawns,        \* children spawned so far
          heard,         \* history: the last chunk handled
          lostOutput,    \* history: an exit was handled before the child's output
          readersStopped, \* _stopped of TerminalReaders
          keys,          \* where the key reader is
          watcher,       \* where the size watcher is
          baseline,      \* the watcher's last size
          frame,         \* the size the editor renders at
          size,          \* the terminal's size
          raced,         \* history: loop and watcher started from two sizes
          typed, resizes \* counters for the bounds

loopVars == <<pc, after, process, channel, spawns, heard, lostOutput>>
termVars == <<readersStopped, keys, watcher, baseline, frame, size, raced, typed,
              resizes>>
ioVars   == <<childVars, threadVars>>
vars     == <<loopVars, termVars, ioVars, queueVars>>

Init ==
    /\ QueueInit /\ IoInit
    /\ pc = "boot" /\ after = "next"
    /\ process = NoChild /\ channel = NoChild
    /\ spawns = 0 /\ heard = 0 /\ lostOutput = FALSE
    /\ readersStopped = FALSE
    /\ keys = "read" /\ watcher = "seed" /\ baseline = NoSize
    /\ size \in Sizes /\ frame = NoSize
    /\ raced = FALSE /\ typed = 0 /\ resizes = 0

-----------------------------------------------------------------------------
(* The terminal and its readers.                                           *)

TypeKey(k) ==
    /\ keys = "read"
    /\ typed < MaxKeys
    /\ typed' = typed + 1
    /\ Put([type |-> "key", key |-> k])
    /\ keys' = IF readersStopped THEN "done" ELSE "read"
    /\ UNCHANGED <<loopVars, ioVars, readersStopped, watcher, baseline, frame,
                   size, raced, resizes>>

(* End of the terminal's input, or any failure to read it.                 *)
KeyInputEnds ==
    /\ keys = "read"
    /\ keys' = "done"
    /\ Fail
    /\ UNCHANGED <<loopVars, ioVars, readersStopped, watcher, baseline, frame,
                   size, raced, typed, resizes>>

TerminalResizes(s) ==
    /\ resizes < MaxResizes /\ s # size
    /\ resizes' = resizes + 1
    /\ size' = s
    /\ UNCHANGED <<loopVars, ioVars, queueVars, readersStopped, keys, watcher,
                   baseline, frame, raced, typed>>

WatcherSeeds ==
    /\ watcher = "seed"
    /\ watcher' = "poll"
    /\ baseline' = size
    /\ raced' = (frame # NoSize /\ frame # size)
    /\ UNCHANGED <<loopVars, ioVars, queueVars, readersStopped, keys, frame,
                   size, typed, resizes>>

(* Mutant: sizes are compared with the first one seen.                     *)
WatcherPollsFirst ==
    /\ watcher = "poll" /\ ~readersStopped
    /\ size # baseline
    /\ Put([type |-> "resize", size |-> size])
    /\ UNCHANGED <<loopVars, ioVars, readersStopped, keys, watcher, baseline,
                   frame, size, raced, typed, resizes>>

WatcherPolls ==
    /\ watcher = "poll" /\ ~readersStopped
    /\ size # baseline
    /\ baseline' = size
    /\ Put([type |-> "resize", size |-> size])
    /\ UNCHANGED <<loopVars, ioVars, readersStopped, keys, watcher, frame,
                   size, raced, typed, resizes>>

WatcherStops ==
    /\ watcher = "poll" /\ readersStopped
    /\ watcher' = "done"
    /\ UNCHANGED <<loopVars, ioVars, queueVars, readersStopped, keys, baseline,
                   frame, size, raced, typed, resizes>>

(* get_size fails in the watcher's thread.                                 *)
WatcherFails ==
    /\ watcher \in {"seed", "poll"}
    /\ watcher' = "done"
    /\ Fail
    /\ UNCHANGED <<loopVars, ioVars, readersStopped, keys, baseline, frame,
                   size, raced, typed, resizes>>

-----------------------------------------------------------------------------
(* The loop.                                                               *)

(* Mutant: the loop starts from the watcher's baseline.                    *)
BootFromBaseline ==
    /\ pc = "boot"
    /\ pc' = "next"
    /\ frame' = baseline
    /\ UNCHANGED <<after, process, channel, spawns, heard, lostOutput, ioVars,
                   queueVars, readersStopped, keys, watcher, baseline, size,
                   raced, typed, resizes>>

(* The readers run already when the loop reads the size for its harness.   *)
Boot ==
    /\ pc = "boot"
    /\ pc' = "next"
    /\ frame' = size
    /\ raced' = (baseline # NoSize /\ baseline # size)
    /\ UNCHANGED <<after, process, channel, spawns, heard, lostOutput, ioVars,
                   queueVars, readersStopped, keys, watcher, baseline, size,
                   typed, resizes>>

Handles(type) == pc = "next" /\ Available /\ NextEvent.type = type /\ Pop
HandlesKey(k) == Handles("key") /\ NextEvent.key = k

HandleResize ==
    /\ Handles("resize")
    /\ frame' = NextEvent.size
    /\ UNCHANGED <<loopVars, ioVars, readersStopped, keys, watcher, baseline,
                   size, raced, typed, resizes>>

(* A write the pump owes the agent goes to the writer's outbox, if any.    *)
Write(c) == outbox' = [outbox EXCEPT ![c] = Append(@, "data")]

(* A command: it owes the agent a message, or nothing, or asks for an      *)
(* agent whose launch fails (a line in the log, and the editor goes on).   *)
HandleCommand ==
    /\ HandlesKey("command")
    /\ \/ process # NoChild /\ Write(process)
       \/ UNCHANGED outbox
    /\ UNCHANGED <<loopVars, termVars, childVars, stopped, wireVars,
                   stderrVars, writer>>

Born(c) ==
    /\ spawns' = c
    /\ process' = c
    /\ os' = [os EXCEPT ![c] = "running"]
    /\ pipes' = [pipes EXCEPT ![c] = TRUE]
    /\ heard' = 0

(* submit with no agent: _spawn starts the child, then its threads, then   *)
(* writes the initialize request.                                          *)
HandleSpawn ==
    /\ HandlesKey("command")
    /\ process = NoChild
    /\ spawns < MaxChildren
    /\ LET c == spawns + 1
       IN /\ Born(c)
          /\ channel' = c
          /\ wire' = [wire EXCEPT ![c] = "read"]
          /\ stderr' = [stderr EXCEPT ![c] = "read"]
          /\ writer' = [writer EXCEPT ![c] = "get"]
          /\ Write(c)
    /\ UNCHANGED <<pc, after, lostOutput, termVars, written, errors, stopped,
                   taken, errTaken, broken>>

(* Mutant: the pump owns the child only once its threads run.              *)
HandleThreadsFailUnowned ==
    /\ HandlesKey("command")
    /\ process = NoChild
    /\ spawns < MaxChildren
    /\ LET c == spawns + 1
       IN /\ spawns' = c
          /\ os' = [os EXCEPT ![c] = "running"]
          /\ pipes' = [pipes EXCEPT ![c] = TRUE]
    /\ pc' = "close" /\ after' = "finally"
    /\ UNCHANGED <<process, channel, heard, lostOutput, termVars, written,
                   errors, threadVars>>

(* The launch succeeds but a thread will not start: the exception ends the *)
(* run, with the threads that did start running and no channel.            *)
HandleThreadsFail ==
    /\ HandlesKey("command")
    /\ process = NoChild
    /\ spawns < MaxChildren
    /\ LET c == spawns + 1
       IN /\ Born(c)
          /\ wire' \in {wire, [wire EXCEPT ![c] = "read"]}
          /\ stderr' \in {stderr, [stderr EXCEPT ![c] = "read"]}
          /\ stderr' # stderr => wire' # wire
    /\ pc' = "close" /\ after' = "finally"
    /\ UNCHANGED <<channel, lostOutput, termVars, written, errors, channelVars,
                   writer, taken, errTaken, broken>>

(* receive: a delivery that may owe the agent an answer.                   *)
HandleBytes ==
    /\ Handles("bytes")
    /\ heard' = NextEvent.n
    /\ \/ process # NoChild /\ Write(process)
       \/ UNCHANGED outbox
    /\ UNCHANGED <<pc, after, process, channel, spawns, lostOutput, termVars,
                   childVars, stopped, wireVars, stderrVars, writer>>

HandleStderr ==
    /\ Handles("stderr")
    /\ UNCHANGED <<loopVars, ioVars, termVars>>

(* exited: the transcript line, then _reset, which closes the child.       *)
HandleExited ==
    /\ Handles("exited")
    /\ pc' = "close" /\ after' = "next"
    /\ lostOutput' = (lostOutput \/ LET c == NextEvent.child
                                    IN  heard # written[c] /\ ~broken[c])
    /\ UNCHANGED <<process, channel, spawns, heard, termVars, ioVars>>

(* EditorExited, or a producer's failure raised on the loop's thread: the  *)
(* finally clause runs.                                                    *)
HandleQuit ==
    /\ HandlesKey("quit") \/ Handles("failed")
    /\ pc' = "close" /\ after' = "finally"
    /\ UNCHANGED <<process, channel, spawns, heard, lostOutput, termVars,
                   ioVars>>

-----------------------------------------------------------------------------
(* pump.close, then what follows it.                                       *)

(* Mutant: the writer gets no sentinel.                                    *)
CloseChannelOnly ==
    /\ pc = "close"
    /\ pc' = "terminate"
    /\ channel' = NoChild
    /\ stopped' = [c \in Children |-> stopped[c] \/ c = channel]
    /\ UNCHANGED <<after, process, spawns, heard, lostOutput, termVars,
                   childVars, queueVars, outbox, wireVars, stderrVars, writer>>

CloseChannel ==
    /\ pc = "close"
    /\ pc' = "terminate"
    /\ channel' = NoChild
    /\ stopped' = [c \in Children |-> stopped[c] \/ c = channel]
    /\ outbox' = [c \in Children |-> IF c = channel THEN Append(outbox[c], "stop")
                                                    ELSE outbox[c]]
    /\ UNCHANGED <<after, process, spawns, heard, lostOutput, termVars,
                   childVars, queueVars, wireVars, stderrVars, writer>>

(* terminate: a living child is asked to stop and waited for.              *)
SignalChild ==
    /\ pc = "terminate"
    /\ process # NoChild /\ Living(process)
    /\ pc' = "wait"
    /\ UNCHANGED <<after, process, channel, spawns, heard, lostOutput,
                   termVars, ioVars, queueVars>>

(* It is gone, or the grace period is over and it is killed; its pipes are *)
(* closed and the pump forgets it.                                         *)
ReapChild ==
    /\ \/ pc = "terminate" /\ process # NoChild /\ ~Living(process)
       \/ pc = "wait"
    /\ os' = [os EXCEPT ![process] = "dead"]
    /\ pipes' = [pipes EXCEPT ![process] = FALSE]
    /\ process' = NoChild
    /\ heard' = 0
    /\ pc' = after
    /\ UNCHANGED <<after, channel, spawns, lostOutput, termVars, written,
                   errors, threadVars, queueVars>>

NoChildToReap ==
    /\ pc = "terminate" /\ process = NoChild
    /\ pc' = after
    /\ UNCHANGED <<after, process, channel, spawns, heard, lostOutput,
                   termVars, ioVars, queueVars>>

StopReaders ==
    /\ pc = "finally"
    /\ pc' = "shut"
    /\ readersStopped' = TRUE
    /\ UNCHANGED <<after, process, channel, spawns, heard, lostOutput, ioVars,
                   queueVars, keys, watcher, baseline, frame, size, raced,
                   typed, resizes>>

ShutQueue ==
    /\ pc = "shut"
    /\ pc' = "done"
    /\ CloseQueue
    /\ UNCHANGED <<after, process, channel, spawns, heard, lostOutput,
                   termVars, ioVars>>

Terminated == pc = "done" /\ UNCHANGED vars

-----------------------------------------------------------------------------
LoopStep ==
    \/ Boot
    \/ HandleResize
    \/ HandleCommand
    \/ HandleSpawn
    \/ HandleThreadsFail
    \/ HandleBytes
    \/ HandleStderr
    \/ HandleExited
    \/ HandleQuit
    \/ CloseChannel
    \/ SignalChild
    \/ ReapChild
    \/ NoChildToReap
    \/ StopReaders
    \/ ShutQueue

TerminalStep ==
    \/ \E k \in KeyKinds : TypeKey(k)
    \/ KeyInputEnds
    \/ \E s \in Sizes : TerminalResizes(s)
    \/ WatcherSeeds
    \/ WatcherPolls
    \/ WatcherStops
    \/ WatcherFails

Next ==
    \/ LoopStep
    \/ TerminalStep
    \/ IoNext /\ UNCHANGED <<loopVars, termVars>>
    \/ Terminated

Spec == Init /\ [][Next]_vars

(* The OS runs every thread that can run.  Nothing is assumed of the child *)
(* or of the user.                                                         *)
Wire(c)   == WireStep(c) /\ UNCHANGED <<loopVars, termVars>>
Stderr(c) == StderrStep(c) /\ UNCHANGED <<loopVars, termVars>>
Writer(c) == WriterStep(c) /\ UNCHANGED <<loopVars, termVars>>

FairSpec ==
    /\ Spec
    /\ WF_vars(LoopStep)
    /\ WF_vars(WatcherSeeds) /\ WF_vars(WatcherPolls) /\ WF_vars(WatcherStops)
    /\ \A c \in Children :
           WF_vars(Wire(c)) /\ WF_vars(Stderr(c)) /\ WF_vars(Writer(c))

-----------------------------------------------------------------------------
(* Type invariant.                                                         *)
LoopTypeOK ==
    /\ pc \in {"boot", "next", "close", "terminate", "wait", "finally", "shut",
              "done"}
    /\ after \in {"next", "finally"}
    /\ process \in Children \cup {NoChild} /\ channel \in Children \cup {NoChild}
    /\ spawns \in 0..MaxChildren /\ heard \in 0..MaxChunks
    /\ keys \in {"read", "done"} /\ watcher \in {"seed", "poll", "done"}
    /\ baseline \in Sizes \cup {NoSize} /\ size \in Sizes
    /\ frame = NoSize <=> pc = "boot"
    /\ \A c \in Children :
           /\ os[c] \in {"unborn", "running", "mute", "dead"}
           /\ written[c] \in 0..MaxChunks /\ taken[c] \in 0..written[c]
           /\ errors[c] \in 0..MaxErrors /\ errTaken[c] \in 0..errors[c]
           /\ ToSet(outbox[c]) \subseteq {"data", "stop"}
           /\ wire[c] \in {"off", "read", "put", "report", "exit", "done"}
           /\ stderr[c] \in {"off", "read", "put", "done"}
           /\ writer[c] \in {"off", "get", "write", "done"}

(* An event of a child is handled only while the pump converses with that  *)
(* child: neither a late chunk nor a late exit of an old child reaches the *)
(* new one's machine, although events carry no identity (pump.py receive   *)
(* and exited act on whatever child there is).                             *)
EventsAreCurrent ==
    pc = "next" /\ Available /\ NextEvent.type \in {"bytes", "exited"}
        => NextEvent.child = process

(* No child outlives the pump's knowledge of it, whatever fails on the     *)
(* way: "a leaked child holding a pipe is worse than a garbled terminal"   *)
(* (pump.py close, _spawn; run_editor's finally).                          *)
NoOrphans == /\ \A c \in Children : Living(c) => process = c
             /\ pc = "done" => process = NoChild

(* All a child wrote is handled before its exit is, unless a read of its   *)
(* pipe failed: the account of why it died is not lost with it.            *)
NoOutputLost == ~lostOutput

(* The events the loop handles are a life the pump can rely on.            *)
Life == INSTANCE AgentLife WITH current <- process, last <- heard, born <- spawns
LifeImplemented == Life!LifeSpec

(* A child that is gone, or has closed its output, is noticed: the pump    *)
(* lets go of it, so that the next prompt starts a fresh one.              *)
DeathNoticed ==
    \A c \in Children : os[c] \in {"mute", "dead"} ~> process # c

(* The threads of a closed channel, and all of them once the run is over,  *)
(* come to an end: none stays blocked on a pipe or on its outbox ("The     *)
(* writer gets a sentinel so it stops even if it is idle").                *)
ThreadsEnd ==
    \A c \in Children : stopped[c] \/ pc = "done" ~> ThreadsEnded(c)

(* The editor comes to render at the terminal's size, unless loop and      *)
(* watcher began from two sizes (the startup race TerminalReaders owns) or *)
(* the watcher's thread is dead.                                           *)
FrameFollowsTerminal ==
    <>[](frame = size \/ raced \/ watcher = "done" \/ pc # "next")

=============================================================================
