-------------------------- MODULE EventLoop_proofs --------------------------
(***************************************************************************)
(* The loop, the threads of its children and the queue between them: no    *)
(* child outlives the pump's knowledge of it, an event is handled only     *)
(* while its child is the one conversed with, a child's output is handled  *)
(* before its exit is, and what the pump sees is an AgentLife.  For any    *)
(* number of children, chunks, keys and failures.                          *)
(***************************************************************************)
EXTENDS EventLoop, SequenceTheorems, TLAPS

-----------------------------------------------------------------------------
(* The inductive invariant.                                                *)

(* What the two lanes hold.                                                *)
Urgent ==
    [type : {"key"}, key : KeyKinds] \cup [type : {"resize"}, size : Sizes]
    \cup [type : {"failed"}]
Deliveries ==
    [type : {"bytes"}, child : Children, n : 0..MaxChunks]
    \cup [type : {"stderr", "exited"}, child : Children]

QueueOK ==
    /\ priority \in Seq(Urgent) /\ background \in Seq(Deliveries)
    /\ closed \in BOOLEAN /\ failures \in Nat

IoOK ==
    /\ os \in [Children -> {"unborn", "running", "mute", "dead"}]
    /\ pipes \in [Children -> BOOLEAN]
    /\ written \in [Children -> 0..MaxChunks] /\ taken \in [Children -> 0..MaxChunks]
    /\ errors \in [Children -> 0..MaxErrors] /\ errTaken \in [Children -> 0..MaxErrors]
    /\ \A c \in Children : taken[c] <= written[c] /\ errTaken[c] <= errors[c]
    /\ stopped \in [Children -> BOOLEAN]
    /\ outbox \in [Children -> Seq({"data", "stop"})]
    /\ wire \in [Children -> {"off", "read", "put", "report", "exit", "done"}]
    /\ stderr \in [Children -> {"off", "read", "put", "done"}]
    /\ writer \in [Children -> {"off", "get", "write", "done"}]
    /\ broken \in [Children -> BOOLEAN]

TermOK ==
    /\ keys \in {"read", "done"} /\ watcher \in {"seed", "poll", "done"}
    /\ baseline \in Sizes \cup {NoSize} /\ size \in Sizes
    /\ frame \in Sizes \cup {NoSize}
    /\ frame = NoSize <=> pc = "boot"

Closing == {"close", "terminate", "wait"}
Closed  == {"finally", "shut", "done"}

ControlOK ==
    /\ pc \in {"boot", "next"} \cup Closing \cup Closed
    /\ after \in {"next", "finally"}
    /\ spawns \in 0..MaxChildren /\ process \in 0..spawns
    /\ channel \in {NoChild, process}
    /\ heard \in 0..MaxChunks /\ lostOutput \in BOOLEAN

(* The pump owns whatever lives, until it has closed it; a child not yet   *)
(* spawned has left no trace.                                              *)
Owned ==
    /\ \A c \in Children : Living(c) => process = c
    /\ process # NoChild => pipes[process]
    /\ pc \in Closed => process = NoChild
    /\ pc = "wait" => process # NoChild
    /\ pc \in {"terminate", "wait"} \cup Closed => channel = NoChild
    /\ closed => pc = "done"
    /\ \A c \in Children :
          c > spawns => /\ os[c] = "unborn" /\ wire[c] = "off" /\ ~stopped[c]
                        /\ taken[c] = 0 /\ written[c] = 0

(* The run is not over: the loop will handle another event.                *)
Looping == pc \in {"boot", "next"} \/ (pc \in Closing /\ after = "next")

(* The chunks of a child that are in the queue or have been.               *)
Sent(c) == IF wire[c] = "put" THEN taken[c] - 1 ELSE taken[c]

(* Its reader came to the end of what it wrote, or a read failed.          *)
Exhausted(c) == broken[c] \/ Eof(c)

Slots == 1..Len(background)
OfWire(i) == background[i].type \in {"bytes", "exited"}

(* Only the child conversed with has a wire reader at work; once it is     *)
(* past reading there is nothing more to read.                             *)
OneReader ==
    /\ \A c \in Children : wire[c] \notin {"off", "done"} => c = process
    /\ \A c \in Children : stopped[c] => wire[c] = "done"
    /\ \A c \in Children : wire[c] \in {"report", "exit"} => Exhausted(c)

(* Only that child has events of a wire reader in the queue, and its exit  *)
(* is the last of them.                                                    *)
ExitLast ==
    /\ \A i \in Slots : OfWire(i) => background[i].child = process
    /\ \A i \in Slots :
          background[i].type = "exited" =>
              /\ wire[process] = "done" /\ Exhausted(process)
              /\ \A j \in Slots : j > i => ~OfWire(j)
    /\ pc \in Closing =>
          /\ process # NoChild /\ wire[process] = "done"
          /\ \A i \in Slots : ~OfWire(i)

(* The queue holds the chunks that were sent and not heard, in order.      *)
ChunksInOrder ==
    process # NoChild =>
        /\ heard <= Sent(process)
        /\ \A i \in Slots : background[i].type = "bytes" => background[i].n \in (heard + 1)..Sent(process)
        /\ \A i, j \in Slots :
              background[i].type = "bytes" /\ background[j].type = "bytes" /\ i < j
                  => background[i].n < background[j].n
        /\ \A m \in (heard + 1)..Sent(process) :
              \E i \in Slots : background[i].type = "bytes" /\ background[i].n = m

Stream == OneReader /\ ExitLast /\ ChunksInOrder
Base   == QueueOK /\ IoOK /\ TermOK /\ ControlOK /\ Owned

LoopInv == Base /\ (Looping => Stream) /\ NoOutputLost

-----------------------------------------------------------------------------
(* The queue.                                                              *)

LEMMA UrgentTypes == \A e \in Urgent : e.type \in PriorityTypes
  BY DEF Urgent, PriorityTypes

LEMMA DeliveryTypes ==
    \A e \in Deliveries : /\ e.type \in {"bytes", "stderr", "exited"}
                          /\ e.type \notin PriorityTypes
                          /\ e.child \in Children
                          /\ e.type = "bytes" => e.n \in 0..MaxChunks
  BY DEF Deliveries, PriorityTypes

(* Terminal input joins the first lane, and leaves the other alone.        *)
LEMMA EnqueueUrgent ==
    ASSUME QueueOK, NEW e \in Urgent, Enqueue(e)
    PROVE  /\ priority' \in Seq(Urgent)
           /\ background' = background /\ closed' = closed
<1>1. e.type \in PriorityTypes
  BY UrgentTypes
<1> QED
  BY <1>1 DEF QueueOK, Enqueue

(* What a thread of a child puts joins the end of the second lane, unless  *)
(* the queue is closed.                                                    *)
LEMMA EnqueueDelivery ==
    ASSUME QueueOK, NEW e \in Deliveries, Enqueue(e)
    PROVE  /\ priority' = priority /\ closed' = closed
           /\ background' \in Seq(Deliveries)
           /\ closed => background' = background
           /\ ~closed => /\ Len(background') = Len(background) + 1
                         /\ \A i \in Slots : background'[i] = background[i]
                         /\ background'[Len(background) + 1] = e
<1>1. e.type \notin PriorityTypes
  BY DeliveryTypes
<1>2. /\ priority' = priority /\ closed' = closed
      /\ background' = IF closed THEN background ELSE Append(background, e)
  BY <1>1 DEF QueueOK, Enqueue
<1>3. background \in Seq(Deliveries)
  BY DEF QueueOK
<1>4. CASE closed
  BY <1>2, <1>3, <1>4
<1>5. CASE ~closed
  BY <1>2, <1>3, <1>5, AppendProperties DEF Slots
<1> QED
  BY <1>4, <1>5 DEF QueueOK

(* Fail only reports the failure, to the first lane.                       *)
LEMMA FailFacts ==
    ASSUME QueueOK, Fail
    PROVE  QueueOK' /\ background' = background /\ closed' = closed
<1>1. [type |-> "failed"] \in Urgent
  BY DEF Urgent
<1>2. failures' \in Nat
  BY DEF Fail, QueueOK
<1> QED
  BY <1>1, <1>2, EnqueueUrgent DEF Fail, QueueOK

(* The loop takes the oldest urgent event, and a delivery only when no     *)
(* urgent one waits.                                                       *)
LEMMA PopUrgent ==
    ASSUME QueueOK, NEW t \in PriorityTypes, Handles(t)
    PROVE  /\ QueueOK' /\ background' = background /\ closed' = closed
           /\ NextEvent \in Urgent /\ NextEvent.type = t
<1>1. priority # <<>>
  BY DeliveryTypes, HeadTailProperties DEF Handles, Available, NextEvent, QueueOK
<1> QED
  BY <1>1, HeadTailProperties DEF Handles, Pop, NextEvent, QueueOK

LEMMA PopDelivery ==
    ASSUME QueueOK, NEW t, t \notin PriorityTypes, Handles(t)
    PROVE  /\ QueueOK' /\ closed' = closed
           /\ 1 \in Slots /\ NextEvent = background[1]
           /\ NextEvent \in Deliveries /\ background[1].type = t
           /\ Len(background') = Len(background) - 1
           /\ \A i \in 1..(Len(background) - 1) : background'[i] = background[i + 1]
<1>1. priority = <<>>
  BY UrgentTypes, HeadTailProperties DEF Handles, NextEvent, QueueOK
<1>2. /\ background # <<>> /\ background' = Tail(background)
      /\ NextEvent = Head(background) /\ NextEvent.type = t
      /\ priority' = priority /\ closed' = closed /\ failures' = failures
  BY <1>1 DEF Handles, Pop, Available, NextEvent
<1>3. background \in Seq(Deliveries)
  BY DEF QueueOK
<1>4. Len(background) \in Nat \ {0} /\ Head(background) = background[1]
  BY <1>2, <1>3, EmptySeq
<1> QED
  BY <1>2, <1>3, <1>4, HeadTailProperties DEF QueueOK, Slots

-----------------------------------------------------------------------------
(* What the steps of each party leave alone.                               *)

(* The terminal's readers only put what was typed or resized, or fail.     *)
LEMMA TerminalFrame ==
    ASSUME Base, TerminalStep
    PROVE  /\ UNCHANGED <<loopVars, ioVars>> /\ QueueOK'
           /\ background' = background /\ closed' = closed
<1>1. QueueOK /\ size \in Sizes
  BY DEF Base, TermOK
<1>2. CASE \E k \in KeyKinds : TypeKey(k)
  <2>1. PICK k \in KeyKinds : TypeKey(k)
    BY <1>2
  <2>2. [type |-> "key", key |-> k] \in Urgent
    BY DEF Urgent
  <2>3. Enqueue([type |-> "key", key |-> k]) /\ UNCHANGED <<failures, loopVars, ioVars>>
    BY <2>1 DEF TypeKey, Put
  <2> QED
    BY <1>1, <2>2, <2>3, EnqueueUrgent DEF QueueOK
<1>3. CASE KeyInputEnds \/ WatcherFails
  <2>1. Fail /\ UNCHANGED <<loopVars, ioVars>>
    BY <1>3 DEF KeyInputEnds, WatcherFails
  <2> QED
    BY <1>1, <2>1, FailFacts
<1>4. CASE WatcherPolls
  <2>1. [type |-> "resize", size |-> size] \in Urgent
    BY <1>1 DEF Urgent
  <2>2. /\ Enqueue([type |-> "resize", size |-> size])
        /\ UNCHANGED <<failures, loopVars, ioVars>>
    BY <1>4 DEF WatcherPolls, Put
  <2> QED
    BY <1>1, <2>1, <2>2, EnqueueUrgent DEF QueueOK
<1>5. CASE (\E s \in Sizes : TerminalResizes(s)) \/ WatcherSeeds \/ WatcherStops
  <2>1. UNCHANGED <<loopVars, ioVars, queueVars>>
    BY <1>5 DEF TerminalResizes, WatcherSeeds, WatcherStops
  <2> QED
    BY <1>1, <2>1 DEF QueueOK, queueVars
<1> QED
  BY <1>2, <1>3, <1>4, <1>5 DEF TerminalStep

(* So do the threads of a child with what they read, in the other lane;    *)
(* they touch no lock of another's.                                        *)
LEMMA IoFrame ==
    ASSUME Base, IoNext
    PROVE  QueueOK' /\ closed' = closed /\ stopped' = stopped /\ pipes' = pipes
<1>1. QueueOK /\ IoOK
  BY DEF Base
<1>2. PICK c \in Children : \/ Child(c) \/ WireStep(c) \/ StderrStep(c) \/ WriterStep(c)
                            \/ WriterWrites(c) \/ WireBreaks(c) \/ ThreadCrashes(c)
  BY DEF IoNext
<1>3. ASSUME NEW e \in Deliveries, Put(e)
      PROVE  QueueOK' /\ closed' = closed
  BY <1>1, <1>3, EnqueueDelivery DEF Put, QueueOK
<1>4. CASE WirePuts(c)
  <2>1. taken[c] \in 0..MaxChunks
    BY <1>1 DEF IoOK
  <2>2. [type |-> "bytes", child |-> c, n |-> taken[c]] \in Deliveries
    BY <2>1 DEF Deliveries
  <2> QED
    BY <1>3, <1>4, <2>2 DEF WirePuts, channelVars, childVars
<1>5. CASE WirePutsExit(c)
  <2>1. [type |-> "exited", child |-> c] \in Deliveries
    BY DEF Deliveries
  <2> QED
    BY <1>3, <1>5, <2>1 DEF WirePutsExit, channelVars, childVars
<1>6. CASE StderrPuts(c)
  <2>1. [type |-> "stderr", child |-> c] \in Deliveries
    BY DEF Deliveries
  <2> QED
    BY <1>3, <1>6, <2>1 DEF StderrPuts, channelVars, childVars
<1>7. CASE ThreadCrashes(c)
  BY <1>1, <1>7, FailFacts DEF ThreadCrashes, channelVars, childVars
<1>8. CASE \/ Child(c) \/ WireReads(c) \/ WireEnds(c) \/ WireReports(c)
           \/ StderrReads(c) \/ StderrEnds(c) \/ WriterStep(c) \/ WriterWrites(c)
           \/ WireBreaks(c)
  <2>1. UNCHANGED <<queueVars, stopped, pipes>>
    BY <1>8 DEF Child, ChildWrites, ChildComplains, ChildClosesStdout, ChildDies,
                WireReads, WireEnds, WireReports, StderrReads, StderrEnds,
                WriterStep, WriterGets, WriterEnds, WriterWrites, WireBreaks,
                channelVars, threadVars, childVars
  <2> QED
    BY <1>1, <2>1 DEF QueueOK, queueVars
<1> QED
  BY <1>2, <1>4, <1>5, <1>6, <1>7, <1>8 DEF WireStep, StderrStep

(* The loop takes from the queue, and closes it, but puts nothing.         *)
LEMMA LoopFrame ==
    ASSUME Base, LoopStep
    PROVE  QueueOK' /\ (closed' = closed \/ pc' = "done")
<1>1. QueueOK
  BY DEF Base
<1>2. ASSUME NEW t, Handles(t) PROVE QueueOK' /\ closed' = closed
  BY <1>1, <1>2, PopUrgent, PopDelivery
<1>3. CASE \/ HandleResize \/ HandleCommand \/ HandleSpawn \/ HandleThreadsFail
           \/ HandleBytes \/ HandleStderr \/ HandleExited \/ HandleQuit
  <2>1. \E t \in {"resize", "key", "bytes", "stderr", "exited", "failed"} : Handles(t)
    BY <1>3 DEF HandleResize, HandleCommand, HandleSpawn, HandleThreadsFail,
                HandleBytes, HandleStderr, HandleExited, HandleQuit, HandlesKey
  <2> QED
    BY <1>2, <2>1
<1>4. CASE Boot \/ CloseChannel \/ SignalChild \/ ReapChild \/ NoChildToReap \/ StopReaders
  <2>1. UNCHANGED queueVars
    BY <1>4 DEF Boot, CloseChannel, SignalChild, ReapChild, NoChildToReap, StopReaders
  <2> QED
    BY <1>1, <2>1 DEF QueueOK, queueVars
<1>5. CASE ShutQueue
  BY <1>1, <1>5 DEF QueueOK, ShutQueue, CloseQueue
<1> QED
  BY <1>3, <1>4, <1>5 DEF LoopStep

-----------------------------------------------------------------------------
(* The types of the loop, the terminal and the threads.                    *)

LEMMA TermStep ==
    ASSUME Base, [Next]_vars
    PROVE  TermOK'
<1>1. TermOK /\ QueueOK /\ pc \in {"boot", "next"} \cup Closing \cup Closed
      /\ after \in {"next", "finally"}
  BY DEF Base, ControlOK
<1>2. NoSize \notin Sizes
  BY LoopAssumption
<1>3. CASE TerminalStep
  <2>1. pc' = pc
    BY <1>3, TerminalFrame DEF loopVars
  <2> QED
    BY <1>1, <1>3, <2>1 DEF TermOK, TerminalStep, TypeKey, KeyInputEnds, TerminalResizes,
         WatcherSeeds, WatcherPolls, WatcherStops, WatcherFails
<1>4. CASE Boot
  BY <1>1, <1>2, <1>4 DEF TermOK, Boot
<1>5. CASE HandleResize
  <2>1. NextEvent \in Urgent /\ NextEvent.type = "resize"
    BY <1>1, <1>5, PopUrgent DEF HandleResize, PriorityTypes
  <2>2. NextEvent.size \in Sizes
    BY <2>1 DEF Urgent
  <2> QED
    BY <1>1, <1>2, <1>5, <2>2 DEF TermOK, HandleResize, Handles, loopVars
<1>6. CASE \/ HandleCommand \/ HandleSpawn \/ HandleThreadsFail \/ HandleBytes
           \/ HandleStderr \/ HandleExited \/ HandleQuit
  <2>1. pc = "next" /\ pc' # "boot" /\ UNCHANGED termVars
    BY <1>6 DEF HandleCommand, HandleSpawn, HandleThreadsFail, HandleBytes, HandleStderr,
                HandleExited, HandleQuit, HandlesKey, Handles, loopVars
  <2> QED
    BY <1>1, <2>1 DEF TermOK, termVars
<1>7. CASE CloseChannel \/ SignalChild \/ ReapChild \/ NoChildToReap \/ StopReaders \/ ShutQueue
  <2>1. pc # "boot" /\ pc' # "boot"
    BY <1>1, <1>7 DEF CloseChannel, SignalChild, ReapChild, NoChildToReap, StopReaders, ShutQueue
  <2>2. UNCHANGED <<keys, watcher, baseline, size, frame>>
    BY <1>7 DEF CloseChannel, SignalChild, ReapChild, NoChildToReap, StopReaders, ShutQueue,
                termVars
  <2> QED
    BY <1>1, <2>1, <2>2 DEF TermOK
<1>8. CASE UNCHANGED <<loopVars, termVars>>
  BY <1>1, <1>8 DEF TermOK, loopVars, termVars
<1> QED
  BY <1>3, <1>4, <1>5, <1>6, <1>7, <1>8 DEF Next, LoopStep, Terminated, vars

LEMMA ControlStep ==
    ASSUME Base, [Next]_vars
    PROVE  ControlOK'
<1>1. QueueOK /\ ControlOK /\ Owned
  BY DEF Base
<1>2. MaxChildren \in Nat /\ MaxChunks \in Nat
  BY IoBoundsAssumption
<1> USE DEF ControlOK, Closing, Closed, NoChild
<1>3. CASE Boot \/ SignalChild \/ NoChildToReap \/ StopReaders \/ ShutQueue
  BY <1>1, <1>3 DEF Boot, SignalChild, NoChildToReap, StopReaders, ShutQueue
<1>4. CASE HandleCommand \/ HandleStderr \/ HandleExited \/ HandleQuit \/ HandleResize
  BY <1>1, <1>4 DEF HandleCommand, HandleStderr, HandleExited, HandleQuit, HandleResize,
                    loopVars
<1>5. CASE HandleSpawn \/ HandleThreadsFail
  BY <1>1, <1>2, <1>5 DEF HandleSpawn, HandleThreadsFail, Born
<1>6. CASE HandleBytes
  <2>1. NextEvent \in Deliveries /\ NextEvent.type = "bytes"
    BY <1>1, <1>6, PopDelivery DEF HandleBytes, PriorityTypes
  <2>2. heard' \in 0..MaxChunks
    BY <1>6, <2>1, DeliveryTypes DEF HandleBytes
  <2> QED
    BY <1>1, <1>6, <2>2 DEF HandleBytes
<1>7. CASE CloseChannel \/ ReapChild
  BY <1>1, <1>2, <1>7 DEF CloseChannel, ReapChild, Owned
<1>8. CASE TerminalStep \/ UNCHANGED loopVars
  <2>1. UNCHANGED loopVars
    BY <1>8, TerminalFrame
  <2> QED
    BY <1>1, <2>1 DEF loopVars
<1> QED
  BY <1>3, <1>4, <1>5, <1>6, <1>7, <1>8 DEF Next, LoopStep, Terminated, vars

LEMMA WriteType ==
    ASSUME outbox \in [Children -> Seq({"data", "stop"})], NEW c, Write(c)
    PROVE  outbox' \in [Children -> Seq({"data", "stop"})]
<1>1. \A d \in Children : Append(outbox[d], "data") \in Seq({"data", "stop"})
  BY AppendProperties
<1> QED
  BY <1>1 DEF Write

LEMMA IoLoopStep ==
    ASSUME Base, LoopStep
    PROVE  IoOK'
<1>1. IoOK
  BY DEF Base
<1>2. CASE \/ Boot \/ HandleResize \/ HandleStderr \/ HandleExited \/ HandleQuit
           \/ SignalChild \/ NoChildToReap \/ StopReaders \/ ShutQueue
  <2>1. UNCHANGED ioVars
    BY <1>2 DEF Boot, HandleResize, HandleStderr, HandleExited, HandleQuit, SignalChild,
                NoChildToReap, StopReaders, ShutQueue
  <2> QED
    BY <1>1, <2>1 DEF IoOK, ioVars, childVars, threadVars, channelVars, wireVars, stderrVars
<1>3. CASE HandleCommand \/ HandleBytes
  <2>1. outbox' \in [Children -> Seq({"data", "stop"})]
    BY <1>1, <1>3, WriteType DEF IoOK, HandleCommand, HandleBytes
  <2>2. UNCHANGED <<childVars, stopped, wireVars, stderrVars, writer>>
    BY <1>3 DEF HandleCommand, HandleBytes
  <2> QED
    BY <1>1, <2>1, <2>2 DEF IoOK, childVars, wireVars, stderrVars
<1>4. CASE HandleSpawn
  <2>1. outbox' \in [Children -> Seq({"data", "stop"})]
    BY <1>1, <1>4, WriteType DEF IoOK, HandleSpawn
  <2> QED
    BY <1>1, <1>4, <2>1 DEF IoOK, HandleSpawn, Born
<1>5. CASE HandleThreadsFail
  <2>1. /\ os' = [os EXCEPT ![spawns + 1] = "running"]
        /\ pipes' = [pipes EXCEPT ![spawns + 1] = TRUE]
        /\ wire' \in {wire, [wire EXCEPT ![spawns + 1] = "read"]}
        /\ stderr' \in {stderr, [stderr EXCEPT ![spawns + 1] = "read"]}
        /\ UNCHANGED <<written, errors, channelVars, writer, taken, errTaken, broken>>
    BY <1>5 DEF HandleThreadsFail, Born
  <2>2. /\ os' \in [Children -> {"unborn", "running", "mute", "dead"}]
        /\ pipes' \in [Children -> BOOLEAN]
        /\ wire' \in [Children -> {"off", "read", "put", "report", "exit", "done"}]
        /\ stderr' \in [Children -> {"off", "read", "put", "done"}]
    BY <1>1, <2>1 DEF IoOK
  <2> QED
    BY <1>1, <2>1, <2>2 DEF IoOK, channelVars
<1>6. CASE CloseChannel
  <2>1. \A c \in Children : outbox[c] \in Seq({"data", "stop"})
    BY <1>1 DEF IoOK
  <2>2. outbox' \in [Children -> Seq({"data", "stop"})]
    BY <1>6, <2>1, AppendProperties DEF CloseChannel
  <2>3. stopped' \in [Children -> BOOLEAN]
    BY <1>1, <1>6 DEF CloseChannel, IoOK
  <2>4. UNCHANGED <<childVars, wireVars, stderrVars, writer>>
    BY <1>6 DEF CloseChannel
  <2> QED
    BY <1>1, <2>2, <2>3, <2>4 DEF IoOK, childVars, wireVars, stderrVars
<1>7. CASE ReapChild
  BY <1>1, <1>7 DEF IoOK, ReapChild, threadVars, channelVars, wireVars, stderrVars
<1> QED
  BY <1>2, <1>3, <1>4, <1>5, <1>6, <1>7 DEF LoopStep

LEMMA IoThreadStep ==
    ASSUME Base, IoNext
    PROVE  IoOK'
<1>1. IoOK
  BY DEF Base
<1>2. MaxChunks \in Nat /\ MaxErrors \in Nat
  BY IoBoundsAssumption
<1>3. PICK c \in Children : \/ Child(c) \/ WireStep(c) \/ StderrStep(c) \/ WriterStep(c)
                            \/ WriterWrites(c) \/ WireBreaks(c) \/ ThreadCrashes(c)
  BY DEF IoNext
<1> USE <1>1, <1>2
<1> USE DEF IoOK, childVars, threadVars, channelVars, wireVars, stderrVars
<1>4. CASE ChildWrites(c)
  BY <1>4 DEF ChildWrites
<1>5. CASE ChildComplains(c)
  BY <1>5 DEF ChildComplains
<1>6. CASE ChildClosesStdout(c) \/ ChildDies(c)
  BY <1>6 DEF ChildClosesStdout, ChildDies
<1>7. CASE WireReads(c)
  <2>1. taken[c] < written[c] /\ written[c] \in 0..MaxChunks /\ taken[c] \in 0..MaxChunks
    BY <1>7 DEF WireReads
  <2>2. /\ taken' = [taken EXCEPT ![c] = @ + 1] /\ wire' = [wire EXCEPT ![c] = "put"]
        /\ UNCHANGED <<childVars, channelVars, stderrVars, writer, broken>>
    BY <1>7 DEF WireReads, WireMoves
  <2>3. taken[c] + 1 \in 0..MaxChunks /\ taken[c] + 1 <= written[c]
    BY <2>1
  <2>4. /\ taken' \in [Children -> 0..MaxChunks]
        /\ \A d \in Children : taken'[d] = IF d = c THEN taken[c] + 1 ELSE taken[d]
    BY <2>2, <2>3
  <2> QED
    BY <2>2, <2>3, <2>4
<1>8. CASE WirePuts(c) \/ WireEnds(c) \/ WireReports(c) \/ WirePutsExit(c)
  BY <1>8 DEF WirePuts, WireEnds, WireReports, WirePutsExit, WireMoves
<1>9. CASE WireBreaks(c)
  BY <1>9 DEF WireBreaks, WireMoves
<1>10. CASE StderrReads(c)
  BY <1>10 DEF StderrReads, StderrMoves
<1>11. CASE StderrPuts(c) \/ StderrEnds(c)
  BY <1>11 DEF StderrPuts, StderrEnds, StderrMoves
<1>12. CASE WriterGets(c)
  <2>1. outbox[c] \in Seq({"data", "stop"}) /\ outbox[c] # <<>>
    BY <1>12 DEF WriterGets
  <2>2. Tail(outbox[c]) \in Seq({"data", "stop"})
    BY <2>1, HeadTailProperties
  <2>3. outbox' \in [Children -> Seq({"data", "stop"})]
    BY <1>12, <2>2 DEF WriterGets
  <2>4. writer' \in [Children -> {"off", "get", "write", "done"}]
    BY <1>12 DEF WriterGets, WriterMoves
  <2> QED
    BY <1>12, <2>3, <2>4 DEF WriterGets
<1>13. CASE WriterEnds(c) \/ WriterWrites(c)
  BY <1>13 DEF WriterEnds, WriterWrites, WriterMoves
<1>14. CASE ThreadCrashes(c)
  BY <1>14 DEF ThreadCrashes, WireMoves, StderrMoves, WriterMoves
<1> QED
  BY <1>3, <1>4, <1>5, <1>6, <1>7, <1>8, <1>9, <1>10, <1>11, <1>12, <1>13, <1>14
     DEF Child, WireStep, StderrStep, WriterStep

LEMMA IoStep ==
    ASSUME Base, [Next]_vars
    PROVE  IoOK'
<1>1. CASE TerminalStep \/ UNCHANGED ioVars
  <2>1. UNCHANGED ioVars
    BY <1>1, TerminalFrame
  <2> QED
    BY <2>1 DEF Base, IoOK, ioVars, childVars, threadVars, channelVars, wireVars, stderrVars
<1> QED
  BY <1>1, IoLoopStep, IoThreadStep DEF Next, Terminated, vars

LEMMA QueueStep ==
    ASSUME Base, [Next]_vars
    PROVE  QueueOK'
<1>1. CASE UNCHANGED queueVars
  BY <1>1 DEF Base, QueueOK, queueVars
<1> QED
  BY <1>1, TerminalFrame, IoFrame, LoopFrame DEF Next, Terminated, vars

-----------------------------------------------------------------------------
(* Ownership.                                                              *)

OwnedVars == <<os, process, pipes, pc, channel, closed, spawns, wire, stopped, taken, written>>

LEMMA OwnedStep ==
    ASSUME Base, [Next]_vars
    PROVE  Owned'
<1>1. IoOK /\ ControlOK /\ Owned /\ MaxChildren \in Nat
  BY IoBoundsAssumption DEF Base
<1>2. CASE UNCHANGED OwnedVars
  BY <1>1, <1>2 DEF Owned, OwnedVars, Living
<1>3. CASE TerminalStep \/ Terminated \/ UNCHANGED vars
  <2>1. UNCHANGED OwnedVars
    BY <1>3, TerminalFrame DEF Terminated, vars, loopVars, ioVars, childVars, threadVars,
                 channelVars, wireVars, queueVars, OwnedVars
  <2> QED
    BY <1>2, <2>1
<1>4. CASE IoNext /\ UNCHANGED <<loopVars, termVars>>
  <2>1. /\ UNCHANGED <<process, pc, channel, spawns, pipes, closed, stopped>>
    BY <1>4, IoFrame DEF loopVars
  <2>2. PICK c \in Children : \/ Child(c) \/ WireStep(c) \/ StderrStep(c) \/ WriterStep(c)
                              \/ WriterWrites(c) \/ WireBreaks(c) \/ ThreadCrashes(c)
    BY <1>4 DEF IoNext
  <2>3. /\ \A d \in Children : os'[d] \in {"running", "mute"} => os[d] \in {"running", "mute"}
        /\ \A d \in Children : os[d] = "unborn" => os'[d] = "unborn" /\ written'[d] = written[d]
    <3>1. CASE Child(c)
      BY <1>1, <3>1 DEF Child, ChildWrites, ChildComplains, ChildClosesStdout, ChildDies,
                        Living, IoOK
    <3>2. CASE ~Child(c)
      <4>1. UNCHANGED <<os, written>>
        BY <2>2, <3>2 DEF WireStep, StderrStep, WriterStep, WireReads, WirePuts, WireEnds,
             WireReports, WirePutsExit, StderrReads, StderrPuts, StderrEnds, WriterGets,
             WriterEnds, WriterWrites, WireBreaks, ThreadCrashes, childVars
      <4> QED
        BY <4>1
    <3> QED
      BY <3>1, <3>2
  <2>4. \A d \in Children : wire[d] = "off" => wire'[d] = "off" /\ taken'[d] = taken[d]
    <3>1. CASE Child(c) \/ StderrStep(c) \/ WriterStep(c) \/ WriterWrites(c)
      <4>1. UNCHANGED <<wire, taken>>
        BY <3>1 DEF Child, ChildWrites, ChildComplains, ChildClosesStdout, ChildDies,
             StderrStep, StderrReads, StderrPuts, StderrEnds, WriterStep, WriterGets,
             WriterEnds, WriterWrites, threadVars, wireVars
      <4> QED
        BY <4>1
    <3>2. CASE WireStep(c) \/ WireBreaks(c) \/ ThreadCrashes(c)
      <4>1. \/ wire' = wire /\ taken' = taken
            \/ /\ wire[c] # "off"
               /\ \E to : wire' = [wire EXCEPT ![c] = to]
               /\ taken' = taken \/ taken' = [taken EXCEPT ![c] = @ + 1]
        BY <3>2 DEF WireStep, WireReads, WirePuts, WireEnds, WireReports, WirePutsExit,
             WireBreaks, ThreadCrashes, WireMoves
      <4> QED
        BY <1>1, <4>1 DEF IoOK
    <3> QED
      BY <2>2, <3>1, <3>2
  <2> QED
    BY <1>1, <2>1, <2>3, <2>4 DEF Owned, Living
<1>5. CASE LoopStep
  <2>1. closed' => pc' = "done"
    <3>1. pc # "done"
      BY <1>5 DEF LoopStep, Boot, HandleResize, HandleCommand, HandleSpawn, HandleThreadsFail,
           HandleBytes, HandleStderr, HandleExited, HandleQuit, CloseChannel, SignalChild,
           ReapChild, NoChildToReap, StopReaders, ShutQueue, HandlesKey, Handles
    <3> QED
      BY <1>1, <1>5, <3>1, LoopFrame DEF Owned
  <2>2. CASE \/ Boot \/ HandleResize \/ HandleCommand \/ HandleBytes \/ HandleStderr
             \/ HandleExited \/ HandleQuit
    <3>1. UNCHANGED <<os, process, pipes, channel, spawns, wire, stopped, taken, written>>
      BY <2>2 DEF Boot, HandleResize, HandleCommand, HandleBytes, HandleStderr, HandleExited,
                  HandleQuit, loopVars, ioVars, childVars, threadVars, channelVars, wireVars
    <3>2. pc' \in {"next", "close"}
      BY <2>2 DEF Boot, HandleResize, HandleCommand, HandleBytes, HandleStderr, HandleExited,
                  HandleQuit, loopVars, HandlesKey, Handles
    <3> QED
      BY <1>1, <2>1, <3>1, <3>2 DEF Owned, Living, Closed
  <2>3. CASE HandleSpawn \/ HandleThreadsFail
    <3> DEFINE c == spawns + 1
    <3>1. /\ process = NoChild /\ c \in Children
          /\ spawns' = c /\ process' = c /\ stopped' = stopped
          /\ os' = [os EXCEPT ![c] = "running"] /\ pipes' = [pipes EXCEPT ![c] = TRUE]
          /\ wire' \in {wire, [wire EXCEPT ![c] = "read"]}
          /\ taken' = taken /\ written' = written
      BY <1>1, <2>3 DEF HandleSpawn, HandleThreadsFail, Born, ControlOK, Children, channelVars
    <3>2. pc' \in {"next", "close"}
      BY <2>3 DEF HandleSpawn, HandleThreadsFail, HandlesKey, Handles
    <3>3. \A d \in Children : d > c => d > spawns /\ d # c
      BY <1>1 DEF ControlOK, Children
    <3>4. \A d \in Children : Living(d)' => d = c
      BY <1>1, <3>1 DEF Living, Owned, IoOK, NoChild, Children
    <3>5. c # NoChild /\ pipes'[c]
      BY <1>1, <3>1 DEF NoChild, Children, IoOK
    <3> HIDE DEF c
    <3> QED
      BY <1>1, <2>1, <3>1, <3>2, <3>3, <3>4, <3>5 DEF Owned, Closed, IoOK
  <2>4. CASE CloseChannel
    <3>1. /\ UNCHANGED <<os, process, pipes, spawns, wire, taken, written>>
          /\ pc' = "terminate" /\ channel' = NoChild
          /\ stopped' = [c \in Children |-> stopped[c] \/ c = channel]
      BY <2>4 DEF CloseChannel, childVars, wireVars
    <3>2. \A c \in Children : c > spawns => c # channel
      BY <1>1 DEF ControlOK, Children, NoChild
    <3> QED
      BY <1>1, <2>1, <3>1, <3>2 DEF Owned, Living, Closed
  <2>5. CASE SignalChild \/ NoChildToReap \/ StopReaders \/ ShutQueue
    <3>1. UNCHANGED <<os, process, pipes, channel, spawns, wire, stopped, taken, written>>
      BY <2>5 DEF SignalChild, NoChildToReap, StopReaders, ShutQueue,
                  ioVars, childVars, threadVars, channelVars, wireVars
    <3>2. /\ pc \in {"terminate", "finally", "shut"}
          /\ pc' = "wait" => process # NoChild
          /\ pc' \in Closed => process = NoChild
      <4>1. after \notin {"wait", "done", "shut"}
        BY <1>1 DEF ControlOK
      <4> QED
        BY <1>1, <2>5, <4>1 DEF SignalChild, NoChildToReap, StopReaders, ShutQueue, Closed, Owned
    <3>3. channel = NoChild
      BY <1>1, <3>2 DEF Owned, Closed
    <3> QED
      BY <1>1, <2>1, <3>1, <3>2, <3>3 DEF Owned, Living
  <2>6. CASE ReapChild
    <3>1. /\ process # NoChild /\ pc \in {"terminate", "wait"}
      BY <1>1, <2>6 DEF ReapChild, Owned
    <3>2. process \in Children /\ ~(process > spawns)
      BY <1>1, <3>1 DEF ControlOK, NoChild, Children
    <3>3. /\ os' = [os EXCEPT ![process] = "dead"] /\ process' = NoChild
          /\ UNCHANGED <<channel, spawns, wire, stopped, taken, written>>
      BY <2>6 DEF ReapChild, threadVars, channelVars, wireVars
    <3>4. pc' # "wait" /\ channel = NoChild
      BY <1>1, <2>6, <3>1 DEF ReapChild, ControlOK, Owned
    <3>5. \A c \in Children : ~Living(c)'
      BY <1>1, <3>2, <3>3 DEF Living, Owned, IoOK
    <3> QED
      BY <1>1, <2>1, <3>2, <3>3, <3>4, <3>5 DEF Owned, IoOK
  <2> QED
    BY <1>5, <2>2, <2>3, <2>4, <2>5, <2>6 DEF LoopStep
<1> QED
  BY <1>3, <1>4, <1>5 DEF Next

LEMMA BaseStep ==
    ASSUME Base, [Next]_vars
    PROVE  Base'
BY QueueStep, IoStep, TermStep, ControlStep, OwnedStep DEF Base

LEMMA BaseInit == Init => Base
<1> SUFFICES ASSUME Init PROVE Base
  OBVIOUS
<1>1. MaxChildren \in Nat /\ MaxChunks \in Nat /\ MaxErrors \in Nat
  BY IoBoundsAssumption
<1>2. QueueOK
  BY EmptySeq DEF Init, QueueInit, QueueOK
<1>3. IoOK
  BY <1>1 DEF Init, IoInit, IoOK
<1>4. TermOK
  BY LoopAssumption DEF Init, TermOK
<1>5. ControlOK
  <2>1. pc = "boot" /\ after = "next" /\ lostOutput = FALSE
        /\ process = 0 /\ channel = 0 /\ spawns = 0 /\ heard = 0
    BY DEF Init, NoChild
  <2>2. pc \in {"boot", "next"} \cup Closing \cup Closed
    BY <2>1
  <2>3. spawns \in 0..MaxChildren /\ process \in 0..spawns /\ heard \in 0..MaxChunks
    BY <1>1, <2>1
  <2> QED
    BY <2>1, <2>2, <2>3 DEF ControlOK, NoChild
<1>6. Owned
  BY <1>1 DEF Init, QueueInit, IoInit, Owned, Living, Closed, NoChild
<1> QED
  BY <1>2, <1>3, <1>4, <1>5, <1>6 DEF Base

-----------------------------------------------------------------------------
(* The stream of a child's events, step by step.                           *)

LEMMA ProcessIsChild ==
    ASSUME Base, process # NoChild
    PROVE  process \in Children /\ process <= spawns
<1>1. spawns \in 0..MaxChildren /\ process \in 0..spawns /\ MaxChildren \in Nat
  BY IoBoundsAssumption DEF Base, ControlOK
<1> QED
  BY <1>1 DEF NoChild, Children

(* While the loop runs, the queue is open.                                 *)
LEMMA OpenQueue ==
    ASSUME Base, Looping
    PROVE  ~closed
BY DEF Base, Owned, Looping, Closing

StreamVars == <<process, heard, wire, taken, background, written, os, broken, stopped>>

LEMMA StreamKept ==
    ASSUME Stream, UNCHANGED StreamVars, pc' \in Closing => pc \in Closing
    PROVE  Stream'
<1>1. OneReader'
  BY DEF Stream, StreamVars, OneReader, Exhausted, Eof
<1>2. ExitLast'
  BY DEF Stream, StreamVars, ExitLast, Slots, OfWire, Exhausted, Eof
<1>3. ChunksInOrder'
  BY DEF Stream, StreamVars, ChunksInOrder, Slots, Sent
<1> QED
  BY <1>1, <1>2, <1>3 DEF Stream

(* Taking a delivery shifts the others down by one.                        *)
LEMMA Popped ==
    ASSUME Base, NEW t, t \notin PriorityTypes, Handles(t)
    PROVE  /\ 1 \in Slots /\ NextEvent = background[1] /\ background[1].type = t
           /\ background[1] \in Deliveries
           /\ \A i \in Slots' : i + 1 \in Slots /\ background'[i] = background[i + 1]
           /\ \A i \in Slots : i # 1 => i - 1 \in Slots' /\ background'[i - 1] = background[i]
<1>1. QueueOK
  BY DEF Base
<1>2. /\ 1 \in Slots /\ NextEvent = background[1] /\ background[1].type = t
      /\ background[1] \in Deliveries
      /\ Len(background') = Len(background) - 1 /\ Len(background) \in Nat
      /\ \A i \in 1..(Len(background) - 1) : background'[i] = background[i + 1]
  BY <1>1, PopDelivery, LenProperties DEF QueueOK
<1>3. \A i \in Slots' : i + 1 \in Slots /\ background'[i] = background[i + 1]
  BY <1>2 DEF Slots
<1>4. \A i \in Slots : i # 1 => i - 1 \in Slots' /\ background'[i - 1] = background[i]
  BY <1>2 DEF Slots
<1> QED
  BY <1>2, <1>3, <1>4

(* What is said of every event holds of those that stay.                   *)
LEMMA ExitLastPopped ==
    ASSUME Base, Stream, NEW t, t \notin PriorityTypes, Handles(t),
           UNCHANGED <<process, wire, taken, written, os, broken>>
    PROVE  /\ \A i \in Slots' : OfWire(i)' => background'[i].child = process'
           /\ \A i \in Slots' :
                 background'[i].type = "exited" =>
                     /\ wire'[process'] = "done" /\ Exhausted(process)'
                     /\ \A j \in Slots' : j > i => ~OfWire(j)'
<1>1. \A i \in Slots' : i + 1 \in Slots /\ background'[i] = background[i + 1]
  BY Popped
<1>2. \A i \in Slots' : OfWire(i)' <=> OfWire(i + 1)
  BY <1>1 DEF OfWire
<1>3. \A i \in Slots' : OfWire(i)' => background'[i].child = process'
  BY <1>1, <1>2 DEF Stream, ExitLast
<1>4. ASSUME NEW i \in Slots', background'[i].type = "exited"
      PROVE  /\ wire'[process'] = "done" /\ Exhausted(process)'
             /\ \A j \in Slots' : j > i => ~OfWire(j)'
  <2>1. i + 1 \in Slots /\ background[i + 1].type = "exited"
    BY <1>1, <1>4
  <2>2. /\ wire[process] = "done" /\ Exhausted(process)
        /\ \A j \in Slots : j > i + 1 => ~OfWire(j)
    BY <2>1 DEF Stream, ExitLast
  <2>3. \A j \in Slots' : j > i => j + 1 \in Slots /\ j + 1 > i + 1
    BY <1>1 DEF Slots
  <2> QED
    BY <1>2, <2>2, <2>3 DEF Exhausted, Eof
<1> QED
  BY <1>3, <1>4

(* So does the order of the chunks that stay.                              *)
LEMMA OrderPopped ==
    ASSUME Base, Stream, NEW t, t \notin PriorityTypes, Handles(t),
           UNCHANGED process, process # NoChild
    PROVE  \A i, j \in Slots' :
              background'[i].type = "bytes" /\ background'[j].type = "bytes" /\ i < j
                  => background'[i].n < background'[j].n
<1>1. \A i \in Slots' : i + 1 \in Slots /\ background'[i] = background[i + 1]
  BY Popped
<1>2. \A i, j \in Slots' : i < j => i + 1 < j + 1
  BY DEF Slots
<1> QED
  BY <1>1, <1>2 DEF Stream, ChunksInOrder

(* A stderr chunk handled is no part of the stream.                        *)
LEMMA StreamStderrHandled ==
    ASSUME Base, Stream, HandleStderr
    PROVE  Stream'
<1>1. Handles("stderr") /\ "stderr" \notin PriorityTypes /\ pc' = "next"
  BY DEF HandleStderr, PriorityTypes, loopVars, Handles
<1>2. UNCHANGED <<process, heard, wire, taken, written, os, broken, stopped>>
  BY DEF HandleStderr, loopVars, ioVars, childVars, threadVars, wireVars, channelVars
<1>3. OneReader'
  BY <1>2 DEF Stream, OneReader, Exhausted, Eof
<1>4. ExitLast'
  BY <1>1, <1>2, ExitLastPopped DEF ExitLast, Closing
<1>5. ChunksInOrder'
  <2> SUFFICES ASSUME process # NoChild PROVE ChunksInOrder'
    BY <1>2 DEF ChunksInOrder
  <2>1. /\ background[1].type = "stderr"
        /\ \A i \in Slots' : i + 1 \in Slots /\ background'[i] = background[i + 1]
        /\ \A i \in Slots : i # 1 => i - 1 \in Slots' /\ background'[i - 1] = background[i]
    BY <1>1, Popped
  <2>2. heard' <= Sent(process)' /\ Sent(process)' = Sent(process)
    BY <1>2 DEF Stream, ChunksInOrder, Sent
  <2>3. \A i \in Slots' : background'[i].type = "bytes"
                              => background'[i].n \in (heard' + 1)..Sent(process)'
    BY <1>2, <2>1, <2>2 DEF Stream, ChunksInOrder
  <2>4. ASSUME NEW m \in (heard' + 1)..Sent(process)'
        PROVE  \E i \in Slots' : background'[i].type = "bytes" /\ background'[i].n = m
    <3>1. PICK i \in Slots : background[i].type = "bytes" /\ background[i].n = m
      BY <1>2, <2>2 DEF Stream, ChunksInOrder
    <3> QED
      BY <2>1, <3>1
  <2> QED
    BY <1>1, <1>2, <2>2, <2>3, <2>4, OrderPopped DEF ChunksInOrder
<1> QED
  BY <1>3, <1>4, <1>5 DEF Stream

(* The chunk at the head of the queue is the next one to hear.             *)
LEMMA NextChunk ==
    ASSUME Base, Stream, Handles("bytes")
    PROVE  /\ process # NoChild /\ background[1].child = process
           /\ background[1].n = heard + 1 /\ heard + 1 <= Sent(process)
<1>0. "bytes" \notin PriorityTypes /\ heard \in Nat
  BY DEF PriorityTypes, Base, ControlOK
<1>1. 1 \in Slots /\ background[1].type = "bytes" /\ background[1] \in Deliveries
  BY <1>0, Popped
<1>2. background[1].child = process /\ process # NoChild
  <2>1. background[1].child = process
    BY <1>1 DEF Stream, ExitLast, OfWire
  <2> QED
    BY <1>1, <2>1, DeliveryTypes DEF NoChild, Children
<1>3. background[1].n \in (heard + 1)..Sent(process)
  BY <1>1, <1>2 DEF Stream, ChunksInOrder
<1>4. Sent(process) \in Int
  <2>1. process \in Children
    BY <1>1, <1>2, DeliveryTypes
  <2> QED
    BY <2>1 DEF Base, IoOK, Sent
<1>5. PICK i \in Slots : background[i].type = "bytes" /\ background[i].n = heard + 1
  <2>1. heard + 1 \in (heard + 1)..Sent(process)
    BY <1>0, <1>3, <1>4
  <2> QED
    BY <1>2, <2>1 DEF Stream, ChunksInOrder
<1>6. i = 1
  <2> SUFFICES ASSUME i # 1 PROVE FALSE
    OBVIOUS
  <2>1. 1 < i
    BY DEF Slots
  <2>2. background[1].n < background[i].n
    BY <1>1, <1>2, <1>5, <2>1 DEF Stream, ChunksInOrder
  <2> QED
    BY <1>0, <1>3, <1>4, <1>5, <2>2
<1> QED
  BY <1>0, <1>2, <1>3, <1>4, <1>5, <1>6

(* Hearing it leaves the later ones to be heard.                           *)
LEMMA StreamBytesHandled ==
    ASSUME Base, Stream, HandleBytes
    PROVE  Stream'
<1>1. Handles("bytes") /\ "bytes" \notin PriorityTypes /\ pc' = "next"
      /\ heard' = NextEvent.n
  BY DEF HandleBytes, PriorityTypes, Handles
<1>2. UNCHANGED <<process, wire, taken, written, os, broken, stopped>>
  BY DEF HandleBytes, childVars, wireVars
<1>3. OneReader'
  BY <1>2 DEF Stream, OneReader, Exhausted, Eof
<1>4. ExitLast'
  BY <1>1, <1>2, ExitLastPopped DEF ExitLast, Closing
<1>5. ChunksInOrder'
  <2>1. /\ 1 \in Slots /\ NextEvent = background[1] /\ background[1].type = "bytes"
        /\ \A i \in Slots' : i + 1 \in Slots /\ background'[i] = background[i + 1]
        /\ \A i \in Slots : i # 1 => i - 1 \in Slots' /\ background'[i - 1] = background[i]
    BY <1>1, Popped
  <2>2. /\ process # NoChild /\ heard' = heard + 1 /\ heard + 1 <= Sent(process)
        /\ background[1].n = heard + 1
    BY <1>1, <2>1, NextChunk
  <2>3. Sent(process)' = Sent(process) /\ Sent(process) \in Int /\ heard \in Nat
    <3>1. process \in Children
      BY <2>2, ProcessIsChild
    <3> QED
      BY <1>2, <3>1 DEF Sent, Base, IoOK, ControlOK
  <2>4. ASSUME NEW i \in Slots', background'[i].type = "bytes"
        PROVE  background'[i].n \in (heard' + 1)..Sent(process)'
    <3>1. i + 1 \in Slots /\ background'[i] = background[i + 1] /\ 1 < i + 1
      BY <2>1 DEF Slots
    <3>2. background[1].n < background[i + 1].n
      BY <2>1, <2>2, <2>4, <3>1 DEF Stream, ChunksInOrder
    <3>3. background[i + 1].n \in (heard + 1)..Sent(process)
      BY <2>2, <2>4, <3>1 DEF Stream, ChunksInOrder
    <3> QED
      BY <2>2, <2>3, <3>1, <3>2, <3>3
  <2>5. ASSUME NEW m \in (heard' + 1)..Sent(process)'
        PROVE  \E i \in Slots' : background'[i].type = "bytes" /\ background'[i].n = m
    <3>1. m \in (heard + 1)..Sent(process) /\ m # heard + 1
      BY <2>2, <2>3
    <3>2. PICK i \in Slots : background[i].type = "bytes" /\ background[i].n = m
      BY <2>2, <3>1 DEF Stream, ChunksInOrder
    <3>3. i # 1
      BY <2>2, <3>1, <3>2
    <3> QED
      BY <2>1, <3>2, <3>3
  <2> QED
    BY <1>1, <1>2, <2>2, <2>3, <2>4, <2>5, OrderPopped DEF ChunksInOrder
<1> QED
  BY <1>3, <1>4, <1>5 DEF Stream

(* An exit is handled when nothing of its child is left to hear.           *)
LEMMA LastEvent ==
    ASSUME Base, Stream, Handles("exited")
    PROVE  /\ process # NoChild /\ background[1].child = process
           /\ wire[process] = "done" /\ heard = Sent(process) /\ Exhausted(process)
           /\ \A i \in Slots : i # 1 => ~OfWire(i)
<1>0. "exited" \notin PriorityTypes
  BY DEF PriorityTypes
<1>1. 1 \in Slots /\ background[1].type = "exited" /\ background[1] \in Deliveries
  BY <1>0, Popped
<1>2. background[1].child = process /\ process # NoChild /\ process \in Children
  <2>1. background[1].child = process
    BY <1>1 DEF Stream, ExitLast, OfWire
  <2> QED
    BY <1>1, <2>1, DeliveryTypes DEF NoChild, Children
<1>3. /\ wire[process] = "done" /\ Exhausted(process)
      /\ \A j \in Slots : j > 1 => ~OfWire(j)
  BY <1>1 DEF Stream, ExitLast
<1>4. \A i \in Slots : i # 1 => i > 1
  BY DEF Slots
<1>5. heard = Sent(process)
  <2> SUFFICES ASSUME heard # Sent(process) PROVE FALSE
    OBVIOUS
  <2>1. heard <= Sent(process) /\ heard \in Nat /\ Sent(process) \in Int
    BY <1>2 DEF Stream, ChunksInOrder, Base, ControlOK, IoOK, Sent
  <2>2. heard + 1 \in (heard + 1)..Sent(process)
    BY <2>1
  <2>3. PICK i \in Slots : background[i].type = "bytes"
    BY <1>2, <2>2 DEF Stream, ChunksInOrder
  <2> QED
    BY <1>1, <1>3, <1>4, <2>3 DEF OfWire
<1> QED
  BY <1>2, <1>3, <1>4, <1>5

LEMMA StreamExitHandled ==
    ASSUME Base, Stream, HandleExited
    PROVE  Stream' /\ lostOutput' = lostOutput
<1>1. Handles("exited") /\ "exited" \notin PriorityTypes
  BY DEF HandleExited, PriorityTypes
<1>2. UNCHANGED <<process, heard, wire, taken, written, os, broken, stopped>>
  BY DEF HandleExited, ioVars, childVars, threadVars, wireVars, channelVars
<1>3. /\ 1 \in Slots /\ NextEvent = background[1]
      /\ \A i \in Slots' : i + 1 \in Slots /\ background'[i] = background[i + 1]
  BY <1>1, Popped
<1>4. /\ process # NoChild /\ background[1].child = process
      /\ wire[process] = "done" /\ heard = Sent(process) /\ Exhausted(process)
      /\ \A i \in Slots : i # 1 => ~OfWire(i)
  BY <1>1, LastEvent
<1>5. \A i \in Slots' : ~OfWire(i)'
  <2>1. \A i \in Slots' : i + 1 # 1
    BY DEF Slots
  <2> QED
    BY <1>3, <1>4, <2>1 DEF OfWire
<1>6. OneReader'
  BY <1>2 DEF Stream, OneReader, Exhausted, Eof
<1>7. ExitLast'
  BY <1>2, <1>4, <1>5 DEF ExitLast, OfWire
<1>8. ChunksInOrder'
  <2>1. Sent(process)' = Sent(process) /\ heard' = heard /\ Sent(process) \in Int
    <3>1. process \in Children
      BY <1>4, ProcessIsChild
    <3> QED
      BY <1>2, <3>1 DEF Sent, Base, IoOK
  <2>2. \A i \in Slots' : background'[i].type # "bytes"
    BY <1>5 DEF OfWire
  <2> QED
    BY <1>4, <2>1, <2>2 DEF ChunksInOrder
<1>9. heard = written[process] \/ broken[process]
  BY <1>4 DEF Exhausted, Eof, Sent
<1>10. lostOutput' = lostOutput
  <2>1. lostOutput' = (lostOutput \/ (heard # written[process] /\ ~broken[process]))
    BY <1>3, <1>4 DEF HandleExited
  <2> QED
    BY <1>9, <2>1 DEF Base, ControlOK
<1> QED
  BY <1>6, <1>7, <1>8, <1>10 DEF Stream

(* A spawn starts a stream from nothing: no event of an earlier child is   *)
(* left, and none of its readers.                                          *)
LEMMA StreamSpawned ==
    ASSUME Base, Stream, HandleSpawn
    PROVE  Stream'
<1> DEFINE c == spawns + 1
<1>1. /\ process = NoChild /\ c \in Children /\ c > spawns
      /\ process' = c /\ heard' = 0 /\ os' = [os EXCEPT ![c] = "running"]
      /\ wire' = [wire EXCEPT ![c] = "read"] /\ pc' = "next"
      /\ UNCHANGED <<written, stopped, taken, broken>> /\ background' = background
  <2>1. /\ process = NoChild /\ spawns < MaxChildren /\ pc = "next" /\ background' = background
    BY PopUrgent DEF HandleSpawn, HandlesKey, Handles, PriorityTypes, Base
  <2>2. c \in Children /\ c > spawns
    BY <2>1, IoBoundsAssumption DEF Base, ControlOK, Children
  <2> QED
    BY <2>1, <2>2 DEF HandleSpawn, Born
<1>2. /\ wire \in [Children -> {"off", "read", "put", "report", "exit", "done"}]
      /\ os \in [Children -> {"unborn", "running", "mute", "dead"}]
      /\ taken[c] = 0 /\ ~stopped[c] /\ NoChild \notin Children
  BY <1>1 DEF Base, IoOK, Owned, NoChild, Children
<1> HIDE DEF c
<1>3. \A d \in Children : wire[d] \in {"off", "done"}
  BY <1>1, <1>2 DEF Stream, OneReader
<1>4. \A i \in Slots : ~OfWire(i)
  <2>1. \A i \in Slots : background[i] \in Deliveries
    BY ElementOfSeq DEF Slots, Base, QueueOK
  <2> QED
    BY <1>1, <1>2, <2>1, DeliveryTypes DEF Stream, ExitLast
<1>5. OneReader'
  BY <1>1, <1>2, <1>3 DEF Stream, OneReader
<1>6. ExitLast'
  <2>1. \A i \in Slots' : ~OfWire(i)'
    BY <1>1, <1>4 DEF Slots, OfWire
  <2> QED
    BY <1>1, <2>1 DEF ExitLast, OfWire, Closing
<1>7. ChunksInOrder'
  <2>1. Sent(process)' = 0
    BY <1>1, <1>2 DEF Sent
  <2>2. \A i \in Slots' : background'[i].type # "bytes"
    BY <1>1, <1>4 DEF Slots, OfWire
  <2> QED
    BY <1>1, <2>1, <2>2 DEF ChunksInOrder
<1> QED
  BY <1>5, <1>6, <1>7 DEF Stream

(* A close after an exit touches no thread at work and no event.           *)
LEMMA StreamClosed ==
    ASSUME Base, Stream, CloseChannel
    PROVE  Stream'
<1>1. /\ UNCHANGED <<process, heard, wire, taken, background, written, os, broken>>
      /\ stopped' = [c \in Children |-> stopped[c] \/ c = channel]
      /\ pc = "close" /\ pc' = "terminate"
  BY DEF CloseChannel, wireVars, childVars, queueVars
<1>2. wire[process] = "done" /\ \A c \in Children : c = channel => c = process
  <2>1. wire[process] = "done"
    BY <1>1 DEF Stream, ExitLast, Closing
  <2>2. NoChild \notin Children /\ channel \in {NoChild, process}
    BY DEF Base, ControlOK, NoChild, Children
  <2> QED
    BY <2>1, <2>2
<1>3. OneReader'
  BY <1>1, <1>2 DEF Stream, OneReader, Exhausted, Eof
<1>4. ExitLast'
  BY <1>1 DEF Stream, ExitLast, Slots, OfWire, Exhausted, Eof, Closing
<1>5. ChunksInOrder'
  BY <1>1 DEF Stream, ChunksInOrder, Slots, Sent
<1> QED
  BY <1>3, <1>4, <1>5 DEF Stream

(* Then the child is forgotten.                                            *)
LEMMA StreamReaped ==
    ASSUME Base, Stream, ReapChild
    PROVE  Stream'
<1>1. /\ UNCHANGED <<wire, taken, background, written, broken, stopped>>
      /\ process' = NoChild /\ pc \in Closing /\ pc' \notin Closing
      /\ os' = [os EXCEPT ![process] = "dead"]
  BY DEF ReapChild, threadVars, wireVars, channelVars, queueVars, Closing, Base, ControlOK
<1>2. /\ wire[process] = "done" /\ \A i \in Slots : ~OfWire(i)
  BY <1>1 DEF Stream, ExitLast
<1>3. OneReader'
  <2>1. \A c \in Children : wire[c] \in {"off", "done"}
    BY <1>2 DEF Stream, OneReader, Base, IoOK
  <2> QED
    BY <1>1, <2>1 DEF Stream, OneReader
<1>4. ExitLast'
  BY <1>1, <1>2 DEF ExitLast, Slots, OfWire
<1>5. ChunksInOrder'
  BY <1>1 DEF ChunksInOrder
<1> QED
  BY <1>3, <1>4, <1>5 DEF Stream

(* An event put at the end: what held of the others still does.            *)
LEMMA Joined ==
    ASSUME Base, Looping, NEW e \in Deliveries, Put(e)
    PROVE  LET last == Len(background) + 1
           IN  /\ last \in Slots' /\ background'[last] = e
               /\ \A i \in Slots : i \in Slots' /\ i < last /\ background'[i] = background[i]
               /\ \A i \in Slots' : i # last => i \in Slots /\ i < last
<1>1. /\ Len(background') = Len(background) + 1 /\ Len(background) \in Nat
      /\ \A i \in Slots : background'[i] = background[i]
      /\ background'[Len(background) + 1] = e
  BY OpenQueue, EnqueueDelivery, LenProperties DEF Put, Base, QueueOK
<1> QED
  BY <1>1 DEF Slots

LEMMA StreamStderrPut ==
    ASSUME Base, Looping, Stream, NEW c \in Children, StderrPuts(c),
           UNCHANGED loopVars
    PROVE  Stream'
<1> DEFINE e == [type |-> "stderr", child |-> c]
           last == Len(background) + 1
<1>1. e \in Deliveries /\ Put(e) /\ ~(e.type \in {"bytes", "exited"})
  BY DEF Deliveries, StderrPuts
<1>2. /\ last \in Slots' /\ background'[last] = e
      /\ \A i \in Slots : i \in Slots' /\ i < last /\ background'[i] = background[i]
      /\ \A i \in Slots' : i # last => i \in Slots /\ i < last
  BY <1>1, Joined
<1>3. UNCHANGED <<process, heard, pc, wire, taken, written, os, broken, stopped>>
  BY DEF StderrPuts, loopVars, childVars, wireVars, channelVars
<1> HIDE DEF e, last
<1>4. \A i \in Slots' : OfWire(i)' => i # last /\ i \in Slots /\ OfWire(i)
  BY <1>1, <1>2 DEF OfWire
<1>5. OneReader'
  BY <1>3 DEF Stream, OneReader, Exhausted, Eof
<1>6. ExitLast'
  <2>1. \A i \in Slots' : OfWire(i)' => background'[i].child = process'
    BY <1>2, <1>3, <1>4 DEF Stream, ExitLast
  <2>2. ASSUME NEW i \in Slots', background'[i].type = "exited"
        PROVE  /\ wire'[process'] = "done" /\ Exhausted(process)'
               /\ \A j \in Slots' : j > i => ~OfWire(j)'
    <3>1. i \in Slots /\ background[i].type = "exited"
      BY <1>2, <1>4, <2>2 DEF OfWire
    <3> QED
      BY <1>3, <1>4, <3>1 DEF Stream, ExitLast, Exhausted, Eof
  <2>3. pc' \in Closing => /\ process' # NoChild /\ wire'[process'] = "done"
                           /\ \A i \in Slots' : ~OfWire(i)'
    BY <1>3, <1>4 DEF Stream, ExitLast
  <2> QED
    BY <2>1, <2>2, <2>3 DEF ExitLast
<1>7. ChunksInOrder'
  <2>1. \A i \in Slots' : background'[i].type = "bytes"
                              => i \in Slots /\ background[i] = background'[i]
    BY <1>2, <1>4 DEF OfWire
  <2>2. \A i \in Slots : i \in Slots' /\ background'[i] = background[i]
    BY <1>2
  <2> QED
    BY <1>3, <2>1, <2>2 DEF Stream, ChunksInOrder, Sent
<1> QED
  BY <1>5, <1>6, <1>7 DEF Stream

(* A wire reader at work serves the child conversed with, unstopped, and   *)
(* that child has no exit in the queue yet.                                *)
LEMMA ReaderAtWork ==
    ASSUME Base, Stream, NEW c \in Children, wire[c] \notin {"off", "done"}
    PROVE  /\ c = process /\ process # NoChild /\ ~stopped[c] /\ pc \notin Closing
           /\ \A d \in Children : d # c => wire[d] \in {"off", "done"}
           /\ \A i \in Slots : background[i].type # "exited"
           /\ heard \in Nat /\ heard <= Sent(c) /\ Sent(c) \in Int
<1>1. c = process /\ process # NoChild /\ ~stopped[c]
  <2>1. NoChild \notin Children
    BY DEF NoChild, Children
  <2> QED
    BY <2>1 DEF Stream, OneReader
<1>2. pc \notin Closing /\ \A i \in Slots : background[i].type # "exited"
  BY <1>1 DEF Stream, ExitLast
<1>3. \A d \in Children : d # c => wire[d] \in {"off", "done"}
  BY <1>1 DEF Stream, OneReader
<1>4. heard \in Nat /\ heard <= Sent(c) /\ Sent(c) \in Int
  BY <1>1 DEF Stream, ChunksInOrder, Base, IoOK, ControlOK, Sent
<1> QED
  BY <1>1, <1>2, <1>3, <1>4

(* It moves on, short of a put; it stops reading only when there is        *)
(* nothing more to read.                                                   *)
LEMMA StreamReaderMoved ==
    ASSUME Base, Base', Stream, NEW c \in Children, wire[c] \notin {"off", "done"},
           NEW to, wire' = [wire EXCEPT ![c] = to], Sent(c)' = Sent(c),
           to \in {"report", "exit"} => Exhausted(c)',
           UNCHANGED <<process, heard, pc, background, stopped, os, written>>
    PROVE  Stream'
<1>1. /\ c = process /\ process # NoChild /\ ~stopped[c] /\ pc \notin Closing
      /\ \A d \in Children : d # c => wire[d] \in {"off", "done"}
      /\ \A i \in Slots : background[i].type # "exited"
  BY ReaderAtWork
<1>2. wire'[c] = to /\ \A d \in Children : d # c => wire'[d] = wire[d]
  BY DEF Base, IoOK
<1>3. OneReader'
  BY <1>1, <1>2 DEF Stream, OneReader
<1>4. ExitLast'
  BY <1>1 DEF Stream, ExitLast, Slots, OfWire
<1>5. ChunksInOrder'
  BY <1>1 DEF Stream, ChunksInOrder, Slots
<1> QED
  BY <1>3, <1>4, <1>5 DEF Stream

(* A chunk joins those that are not heard yet.                             *)
LEMMA StreamChunkPut ==
    ASSUME Base, Looping, Stream, NEW c \in Children, WirePuts(c), UNCHANGED loopVars
    PROVE  Stream'
<1> DEFINE e == [type |-> "bytes", child |-> c, n |-> taken[c]]
           last == Len(background) + 1
<1>1. /\ wire[c] = "put" /\ taken[c] \in 0..MaxChunks
      /\ wire \in [Children -> {"off", "read", "put", "report", "exit", "done"}]
  BY DEF WirePuts, WireMoves, Base, IoOK
<1>2. /\ c = process /\ process # NoChild /\ ~stopped[c] /\ pc \notin Closing
      /\ \A d \in Children : d # c => wire[d] \in {"off", "done"}
      /\ \A i \in Slots : background[i].type # "exited"
      /\ heard \in Nat /\ heard <= Sent(c)
  BY <1>1, ReaderAtWork
<1>3. e \in Deliveries /\ Put(e) /\ e.type = "bytes" /\ e.child = c /\ e.n = taken[c]
  BY <1>1 DEF Deliveries, WirePuts
<1>4. /\ last \in Slots' /\ background'[last] = e
      /\ \A i \in Slots : i \in Slots' /\ i < last /\ background'[i] = background[i]
      /\ \A i \in Slots' : i # last => i \in Slots /\ i < last
  BY <1>3, Joined
<1>5. /\ UNCHANGED <<process, heard, pc, taken, written, os, broken, stopped>>
      /\ wire' = [wire EXCEPT ![c] = "read"]
  BY <1>2 DEF WirePuts, WireMoves, loopVars, childVars, channelVars
<1> HIDE DEF e
<1>6. OneReader'
  BY <1>1, <1>2, <1>5 DEF Stream, OneReader, Exhausted, Eof
<1>7. ExitLast'
  <2>1. \A i \in Slots' : background'[i].type # "exited"
    BY <1>2, <1>3, <1>4
  <2>2. \A i \in Slots' : OfWire(i)' => background'[i].child = process'
    <3>1. \A i \in Slots : OfWire(i)' => OfWire(i)
      BY <1>4 DEF OfWire
    <3>2. ASSUME NEW i \in Slots', i # last, OfWire(i)' PROVE background'[i].child = process'
      BY <1>4, <1>5, <3>1, <3>2 DEF Stream, ExitLast
    <3> QED
      BY <1>2, <1>3, <1>4, <1>5, <3>2
  <2> QED
    BY <1>2, <1>5, <2>1, <2>2 DEF ExitLast
<1>8. ChunksInOrder'
  <2>1. Sent(c) = taken[c] - 1 /\ Sent(process)' = taken[c]
    BY <1>1, <1>2, <1>5 DEF Sent
  <2>2. \A i \in Slots : background[i].type = "bytes" => background[i].n \in (heard + 1)..(taken[c] - 1)
    BY <1>2, <2>1 DEF Stream, ChunksInOrder
  <2>3. \A i \in Slots' : background'[i].type = "bytes" => background'[i].n \in (heard' + 1)..taken[c]
    <3>1. ASSUME NEW i \in Slots', i # last, background'[i].type = "bytes"
          PROVE  background'[i].n \in (heard' + 1)..taken[c]
      <4>1. background'[i].n \in (heard + 1)..(taken[c] - 1)
        BY <1>4, <2>2, <3>1
      <4> QED
        BY <1>1, <1>2, <1>5, <4>1
    <3>2. background'[last].n \in (heard' + 1)..taken[c]
      BY <1>1, <1>2, <1>3, <1>4, <1>5, <2>1
    <3> QED
      BY <3>1, <3>2
  <2>4. ASSUME NEW i \in Slots', NEW j \in Slots',
               background'[i].type = "bytes", background'[j].type = "bytes", i < j
        PROVE  background'[i].n < background'[j].n
    <3>1. i \in Slots /\ i # last
      BY <1>4, <2>4 DEF Slots
    <3>2. CASE j = last
      <4>1. background'[i].n \in (heard + 1)..(taken[c] - 1)
        BY <1>4, <2>2, <2>4, <3>1
      <4>2. background'[j].n = taken[c]
        BY <1>3, <1>4, <3>2
      <4> QED
        BY <1>1, <1>2, <4>1, <4>2
    <3>3. CASE j # last
      <4>1. j \in Slots /\ background'[i] = background[i] /\ background'[j] = background[j]
        BY <1>4, <3>1, <3>3
      <4> QED
        BY <1>2, <2>4, <3>1, <4>1 DEF Stream, ChunksInOrder
    <3> QED
      BY <3>2, <3>3
  <2>5. ASSUME NEW m \in (heard' + 1)..taken[c]
        PROVE  \E i \in Slots' : background'[i].type = "bytes" /\ background'[i].n = m
    <3>1. CASE m = taken[c]
      BY <1>3, <1>4, <3>1
    <3>2. CASE m # taken[c]
      <4>1. m \in (heard + 1)..Sent(process)
        BY <1>1, <1>2, <1>5, <2>1, <3>2
      <4>2. PICK i \in Slots : background[i].type = "bytes" /\ background[i].n = m
        BY <1>2, <4>1 DEF Stream, ChunksInOrder
      <4> QED
        BY <1>4, <4>2
    <3> QED
      BY <3>1, <3>2
  <2>6. heard' <= taken[c]
    BY <1>1, <1>2, <1>5, <2>1
  <2> QED
    BY <2>1, <2>3, <2>4, <2>5, <2>6 DEF ChunksInOrder
<1> QED
  BY <1>6, <1>7, <1>8 DEF Stream

(* The exit follows the last chunk.                                        *)
LEMMA StreamExitPut ==
    ASSUME Base, Looping, Stream, NEW c \in Children, WirePutsExit(c), UNCHANGED loopVars
    PROVE  Stream'
<1> DEFINE e == [type |-> "exited", child |-> c]
           last == Len(background) + 1
<1>1. /\ wire[c] = "exit"
      /\ wire \in [Children -> {"off", "read", "put", "report", "exit", "done"}]
  BY DEF WirePutsExit, WireMoves, Base, IoOK
<1>2. /\ c = process /\ process # NoChild /\ pc \notin Closing
      /\ \A d \in Children : d # c => wire[d] \in {"off", "done"}
      /\ \A i \in Slots : background[i].type # "exited"
  BY <1>1, ReaderAtWork
<1>3. e \in Deliveries /\ Put(e) /\ e.type = "exited" /\ e.child = c
  BY <1>1 DEF Deliveries, WirePutsExit
<1>4. /\ last \in Slots' /\ background'[last] = e
      /\ \A i \in Slots : i \in Slots' /\ i < last /\ background'[i] = background[i]
      /\ \A i \in Slots' : i # last => i \in Slots /\ i < last
  BY <1>3, Joined
<1>5. /\ UNCHANGED <<process, heard, pc, taken, written, os, broken, stopped>>
      /\ wire' = [wire EXCEPT ![c] = "done"] /\ wire'[c] = "done"
  BY <1>1 DEF WirePutsExit, WireMoves, loopVars, childVars, channelVars
<1>6. Exhausted(c)
  BY <1>1 DEF Stream, OneReader
<1> HIDE DEF e
<1>7. OneReader'
  BY <1>1, <1>2, <1>5 DEF Stream, OneReader, Exhausted, Eof
<1>8. ExitLast'
  <2>1. \A i \in Slots' : background'[i].type = "exited" => i = last
    BY <1>2, <1>4
  <2>2. \A i \in Slots' : OfWire(i)' => background'[i].child = process'
    <3>1. \A i \in Slots : OfWire(i)' => OfWire(i)
      BY <1>4 DEF OfWire
    <3>2. ASSUME NEW i \in Slots', i # last, OfWire(i)' PROVE background'[i].child = process'
      BY <1>4, <1>5, <3>1, <3>2 DEF Stream, ExitLast
    <3> QED
      BY <1>2, <1>3, <1>4, <1>5, <3>2
  <2>3. \A j \in Slots' : ~(j > last)
    <3>1. \A j \in Slots' : j \in Int /\ (j = last \/ j < last)
      BY <1>4 DEF Slots
    <3> QED
      BY <1>4, <3>1 DEF Slots
  <2>4. wire'[process'] = "done" /\ Exhausted(process)'
    BY <1>2, <1>5, <1>6 DEF Exhausted, Eof
  <2> QED
    BY <1>2, <1>5, <2>1, <2>2, <2>3, <2>4 DEF ExitLast
<1>9. ChunksInOrder'
  <2>1. Sent(process)' = Sent(process)
    BY <1>1, <1>2, <1>5 DEF Sent
  <2>2. \A i \in Slots' : background'[i].type = "bytes"
                              => i \in Slots /\ background[i] = background'[i]
    BY <1>3, <1>4
  <2>3. \A i \in Slots : i \in Slots' /\ background'[i] = background[i]
    BY <1>4
  <2> QED
    BY <1>5, <2>1, <2>2, <2>3 DEF Stream, ChunksInOrder
<1> QED
  BY <1>7, <1>8, <1>9 DEF Stream

-----------------------------------------------------------------------------
(* Every step preserves the invariant.                                     *)

LEMMA StreamIoStep ==
    ASSUME Base, Base', Looping, Stream, IoNext, UNCHANGED <<loopVars, termVars>>
    PROVE  Stream'
<1>1. PICK c \in Children : \/ Child(c) \/ WireStep(c) \/ StderrStep(c) \/ WriterStep(c)
                            \/ WriterWrites(c) \/ WireBreaks(c) \/ ThreadCrashes(c)
  BY DEF IoNext
<1>2. UNCHANGED <<process, heard, pc>>
  BY DEF loopVars
<1>3. IoOK /\ QueueOK
  BY DEF Base
<1>4. CASE Child(c)
  <2>1. UNCHANGED <<wire, taken, background, stopped, broken>>
    BY <1>4 DEF Child, ChildWrites, ChildComplains, ChildClosesStdout, ChildDies,
                threadVars, wireVars, channelVars, queueVars
  <2>2. \A d \in Children : Exhausted(d) => Exhausted(d)'
    BY <1>3, <1>4, <2>1 DEF Child, ChildWrites, ChildComplains, ChildClosesStdout, ChildDies,
                Exhausted, Eof, IoOK
  <2>3. OneReader'
    BY <1>2, <2>1, <2>2 DEF Stream, OneReader
  <2>4. ExitLast'
    <3>1. \A i \in Slots : background[i].type = "exited" => process \in Children
      <4>1. \A i \in Slots : background[i] \in Deliveries
        BY <1>3, ElementOfSeq DEF Slots, QueueOK
      <4> QED
        BY <4>1, DeliveryTypes DEF Stream, ExitLast, OfWire
    <3> QED
      BY <1>2, <2>1, <2>2, <3>1 DEF Stream, ExitLast, Slots, OfWire
  <2>5. ChunksInOrder'
    BY <1>2, <2>1 DEF Stream, ChunksInOrder, Slots, Sent
  <2> QED
    BY <2>3, <2>4, <2>5 DEF Stream
<1>5. CASE WireReads(c)
  <2>1. /\ wire[c] = "read" /\ wire' = [wire EXCEPT ![c] = "put"]
        /\ taken' = [taken EXCEPT ![c] = @ + 1]
        /\ UNCHANGED <<background, stopped, os, written>>
    BY <1>5 DEF WireReads, WireMoves, queueVars, channelVars, childVars
  <2>2. Sent(c)' = Sent(c)
    BY <1>3, <2>1 DEF Sent, IoOK
  <2> QED
    BY <1>2, <2>1, <2>2, StreamReaderMoved
<1>6. CASE WirePuts(c) \/ WirePutsExit(c) \/ StderrPuts(c)
  BY <1>6, StreamChunkPut, StreamExitPut, StreamStderrPut
<1>7. CASE WireEnds(c)
  <2>1. /\ wire[c] = "read" /\ wire' = [wire EXCEPT ![c] = "report"]
        /\ UNCHANGED <<background, stopped, os, written, taken, broken>>
        /\ Eof(c) \/ ~pipes[c]
    BY <1>7 DEF WireEnds, WireMoves, queueVars, channelVars, childVars
  <2>2. Sent(c)' = Sent(c)
    BY <1>3, <2>1 DEF Sent, IoOK
  <2>3. pipes[c]
    BY <2>1, ReaderAtWork DEF Base, Owned
  <2>4. Exhausted(c)'
    BY <2>1, <2>3 DEF Exhausted, Eof
  <2> QED
    BY <1>2, <2>1, <2>2, <2>4, StreamReaderMoved
<1>8. CASE WireBreaks(c)
  <2>1. /\ wire[c] = "read" /\ wire' = [wire EXCEPT ![c] = "report"]
        /\ broken' = [broken EXCEPT ![c] = TRUE]
        /\ UNCHANGED <<background, stopped, os, written, taken>>
    BY <1>8 DEF WireBreaks, WireMoves, queueVars, channelVars, childVars
  <2>2. Sent(c)' = Sent(c) /\ Exhausted(c)'
    BY <1>3, <2>1 DEF Sent, IoOK, Exhausted
  <2> QED
    BY <1>2, <2>1, <2>2, StreamReaderMoved
<1>9. CASE WireReports(c)
  <2>1. /\ wire[c] = "report"
        /\ wire' = [wire EXCEPT ![c] = IF stopped[c] THEN "done" ELSE "exit"]
        /\ UNCHANGED <<background, stopped, os, written, taken, broken>>
    BY <1>9 DEF WireReports, WireMoves, queueVars, channelVars, childVars
  <2>2. Sent(c)' = Sent(c)
    BY <1>3, <2>1 DEF Sent, IoOK
  <2>3. Exhausted(c)'
    BY <2>1 DEF Stream, OneReader, Exhausted, Eof
  <2> QED
    BY <1>2, <2>1, <2>2, <2>3, StreamReaderMoved
<1>10. CASE ThreadCrashes(c)
  <2>1. UNCHANGED <<background, stopped, os, written, taken, broken>>
    BY <1>3, <1>10, FailFacts DEF ThreadCrashes, channelVars, childVars
  <2>2. CASE wire' = wire
    BY <1>2, <2>1, <2>2, StreamKept DEF StreamVars
  <2>3. CASE wire' # wire
    <3>1. wire[c] = "read" /\ wire' = [wire EXCEPT ![c] = "done"]
      BY <1>10, <2>3 DEF ThreadCrashes, WireMoves
    <3>2. Sent(c)' = Sent(c)
      BY <1>3, <2>1, <3>1 DEF Sent, IoOK
    <3> QED
      BY <1>2, <2>1, <3>1, <3>2, StreamReaderMoved
  <2> QED
    BY <2>2, <2>3
<1>11. CASE StderrReads(c) \/ StderrEnds(c) \/ WriterStep(c) \/ WriterWrites(c)
  <2>1. UNCHANGED <<background, wire, stopped, os, written, taken, broken>>
    BY <1>11 DEF StderrReads, StderrEnds, WriterStep, WriterGets, WriterEnds, WriterWrites,
                 queueVars, channelVars, childVars, wireVars
  <2> QED
    BY <1>2, <2>1, StreamKept DEF StreamVars
<1> QED
  BY <1>1, <1>4, <1>5, <1>6, <1>7, <1>8, <1>9, <1>10, <1>11 DEF WireStep, StderrStep

(* Once the run is ending it does not loop again.                          *)
LEMMA LoopingBefore ==
    ASSUME Base, [Next]_vars, Looping'
    PROVE  Looping
<1>1. pc \in {"boot", "next"} \cup Closing \cup Closed /\ after \in {"next", "finally"}
  BY DEF Base, ControlOK
<1>2. CASE UNCHANGED <<pc, after>>
  BY <1>2 DEF Looping
<1>3. CASE LoopStep
  BY <1>1, <1>3 DEF LoopStep, Boot, HandleResize, HandleCommand, HandleSpawn, HandleThreadsFail,
         HandleBytes, HandleStderr, HandleExited, HandleQuit, CloseChannel, SignalChild,
         ReapChild, NoChildToReap, StopReaders, ShutQueue, HandlesKey, Handles, Looping,
         Closing, Closed
<1>4. CASE TerminalStep
  <2>1. UNCHANGED <<pc, after>>
    BY <1>4, TerminalFrame DEF loopVars
  <2> QED
    BY <1>2, <2>1
<1> QED
  BY <1>2, <1>3, <1>4 DEF Next, Terminated, vars, loopVars

LEMMA StreamStep ==
    ASSUME Base, Base', Looping => Stream, [Next]_vars, Looping'
    PROVE  Stream'
<1>1. Looping /\ Stream
  BY LoopingBefore
<1>2. CASE LoopStep
  <2>1. CASE Boot \/ HandleResize \/ HandleCommand \/ SignalChild
    <3>1. UNCHANGED <<process, heard, wire, taken, written, os, broken, stopped>>
          /\ (pc' \in Closing => pc \in Closing)
      BY <2>1 DEF Boot, HandleResize, HandleCommand, SignalChild, loopVars, ioVars, childVars,
                  threadVars, wireVars, channelVars, Closing
    <3>2. background' = background
      BY <2>1, PopUrgent DEF Boot, HandleResize, HandleCommand, SignalChild, queueVars,
                  PriorityTypes, HandlesKey, Base
    <3> QED
      BY <1>1, <3>1, <3>2, StreamKept DEF StreamVars
  <2>2. CASE \/ HandleSpawn \/ HandleBytes \/ HandleStderr \/ HandleExited
             \/ CloseChannel \/ ReapChild
    BY <1>1, <2>2, StreamSpawned, StreamBytesHandled, StreamStderrHandled,
       StreamExitHandled, StreamClosed, StreamReaped
  <2>3. CASE HandleThreadsFail \/ HandleQuit \/ StopReaders \/ ShutQueue
    <3>1. ~Looping'
      BY <2>3 DEF HandleThreadsFail, HandleQuit, StopReaders, ShutQueue, Looping, Closing
    <3> QED
      BY <3>1
  <2>4. CASE NoChildToReap
    BY <1>1, <2>4 DEF NoChildToReap, Stream, ExitLast, Closing
  <2> QED
    BY <1>2, <2>1, <2>2, <2>3, <2>4 DEF LoopStep
<1>3. CASE TerminalStep \/ Terminated \/ UNCHANGED vars
  <2>1. UNCHANGED StreamVars /\ pc' = pc
    BY <1>3, TerminalFrame DEF Terminated, vars, loopVars, ioVars, childVars, threadVars,
                 channelVars, wireVars, queueVars, StreamVars
  <2> QED
    BY <1>1, <2>1, StreamKept
<1>4. CASE IoNext /\ UNCHANGED <<loopVars, termVars>>
  BY <1>1, <1>4, StreamIoStep
<1> QED
  BY <1>2, <1>3, <1>4 DEF Next

LEMMA OutputStep ==
    ASSUME Base, Looping => Stream, [Next]_vars
    PROVE  lostOutput' = lostOutput
<1>1. CASE HandleExited
  <2>1. Looping
    BY <1>1 DEF HandleExited, Handles, Looping
  <2> QED
    BY <1>1, <2>1, StreamExitHandled
<1>2. CASE LoopStep /\ ~HandleExited
  BY <1>2 DEF LoopStep, Boot, HandleResize, HandleCommand, HandleSpawn, HandleThreadsFail,
         HandleBytes, HandleStderr, HandleQuit, CloseChannel, SignalChild,
         ReapChild, NoChildToReap, StopReaders, ShutQueue, loopVars
<1>3. CASE TerminalStep
  BY <1>3, TerminalFrame DEF loopVars
<1> QED
  BY <1>1, <1>2, <1>3 DEF Next, Terminated, vars, loopVars

(* The invariant of the run, from which the results below follow.          *)
THEOREM LoopCorrect == Spec => []LoopInv
<1>1. Init => LoopInv
  <2>1. Init => OneReader /\ ExitLast /\ ChunksInOrder /\ NoOutputLost
    BY DEF Init, IoInit, QueueInit, OneReader, ExitLast, ChunksInOrder, NoOutputLost, Slots,
           Closing
  <2> QED
    BY <2>1, BaseInit DEF LoopInv, Stream
<1>2. LoopInv /\ [Next]_vars => LoopInv'
  BY BaseStep, StreamStep, OutputStep DEF LoopInv, NoOutputLost
<1> QED
  BY <1>1, <1>2, PTL DEF Spec

-----------------------------------------------------------------------------
(* The results.                                                            *)

(* Every variable of the loop and of its children's threads keeps its      *)
(* type; the editor has a size to render at as soon as the loop runs, and  *)
(* a reader never takes more than its child wrote.                         *)
THEOREM LoopTypes == Spec => []LoopTypeOK
<1>1. LoopInv => LoopTypeOK
  <2> SUFFICES ASSUME LoopInv PROVE LoopTypeOK
    OBVIOUS
  <2>1. IoOK /\ TermOK /\ ControlOK /\ MaxChildren \in Nat
    BY IoBoundsAssumption DEF LoopInv, Base
  <2>2. \A c \in Children : ToSet(outbox[c]) \subseteq {"data", "stop"}
    <3>1. \A c \in Children : outbox[c] \in Seq({"data", "stop"})
      BY <2>1 DEF IoOK
    <3> QED
      BY <3>1, ElementOfSeq, LenProperties DEF ToSet
  <2>3. process \in Children \cup {NoChild} /\ channel \in Children \cup {NoChild}
    BY <2>1 DEF ControlOK, Children, NoChild
  <2>4. \A c \in Children :
           /\ os[c] \in {"unborn", "running", "mute", "dead"}
           /\ written[c] \in 0..MaxChunks /\ taken[c] \in 0..written[c]
           /\ errors[c] \in 0..MaxErrors /\ errTaken[c] \in 0..errors[c]
    BY <2>1 DEF IoOK
  <2> QED
    BY <2>1, <2>2, <2>3, <2>4 DEF LoopTypeOK, IoOK, TermOK, ControlOK, Closing, Closed
<1> QED
  BY <1>1, LoopCorrect, PTL

(* An event of a child reaches the pump only while the pump converses with *)
(* that child (pump.py receive and exited, which do not ask whose it is).  *)
THEOREM EventsStayCurrent == Spec => []EventsAreCurrent
<1>1. LoopInv => EventsAreCurrent
  <2> SUFFICES ASSUME LoopInv, pc = "next", Available, NextEvent.type \in {"bytes", "exited"}
               PROVE  NextEvent.child = process
    BY DEF EventsAreCurrent
  <2>1. QueueOK /\ ExitLast
    BY DEF LoopInv, Base, Stream, Looping
  <2>2. NextEvent = background[1] /\ 1 \in Slots
    <3>1. priority = <<>>
      <4>1. NextEvent.type \notin PriorityTypes
        BY DEF PriorityTypes
      <4> QED
        BY <2>1, <4>1, UrgentTypes, HeadTailProperties DEF NextEvent, QueueOK
    <3> QED
      BY <2>1, <3>1, EmptySeq DEF NextEvent, Available, QueueOK, Slots
  <2> QED
    BY <2>1, <2>2 DEF ExitLast, OfWire
<1> QED
  BY <1>1, LoopCorrect, PTL

(* Whatever fails on the way, a child that lives is the one the pump knows *)
(* of, and none is left when the run is over (pump.py close, _spawn;       *)
(* run_editor's finally).                                                  *)
THEOREM NoChildOrphaned == Spec => []NoOrphans
<1>1. LoopInv => NoOrphans
  BY DEF LoopInv, Base, Owned, NoOrphans, Closed
<1> QED
  BY <1>1, LoopCorrect, PTL

(* What a child wrote before it went is handled before its exit is         *)
(* (_read_wire, which reports the exit after the last chunk, and the lane  *)
(* the two share).                                                         *)
THEOREM OutputBeforeExit == Spec => []NoOutputLost
<1>1. LoopInv => NoOutputLost
  BY DEF LoopInv
<1> QED
  BY <1>1, LoopCorrect, PTL

(* The loop, the threads and the queue between them implement what the     *)
(* pump relies on: one child at a time, its chunks in order, none skipped  *)
(* and none twice, then its end.                                           *)
THEOREM LifeRefined == Spec => LifeImplemented
<1>1. Init => Life!LifeInit
  BY DEF Init, Life!LifeInit
<1>2. LoopInv /\ [Next]_vars => [Life!LifeNext]_<<process, heard, spawns>>
  <2> SUFFICES ASSUME LoopInv, [Next]_vars, ~UNCHANGED <<process, heard, spawns>>
               PROVE  Life!LifeNext
    OBVIOUS
  <2>1. Base /\ Owned /\ (Looping => Stream)
    BY DEF LoopInv, Base
  <2>2. HandleSpawn \/ HandleThreadsFail \/ HandleBytes \/ ReapChild
    <3>1. ~TerminalStep
      BY <2>1, TerminalFrame DEF loopVars
    <3> QED
      BY <3>1 DEF Next, LoopStep, Boot, HandleResize, HandleCommand, HandleStderr, HandleExited,
         HandleQuit, CloseChannel, SignalChild, NoChildToReap, StopReaders, ShutQueue, Terminated,
         vars, loopVars
  <2>3. CASE HandleSpawn \/ HandleThreadsFail
    BY <2>3 DEF HandleSpawn, HandleThreadsFail, Born, Life!LifeNext, Life!Spawn
  <2>4. CASE HandleBytes
    <3>1. Handles("bytes") /\ heard' = NextEvent.n /\ UNCHANGED <<process, spawns>>
      BY <2>4 DEF HandleBytes
    <3>2. Stream /\ "bytes" \notin PriorityTypes
      BY <2>1, <3>1 DEF Handles, Looping, PriorityTypes
    <3>3. process # NoChild /\ heard' = heard + 1
      BY <2>1, <3>1, <3>2, NextChunk, Popped
    <3> QED
      BY <3>1, <3>3 DEF Life!LifeNext, Life!Receive
  <2>5. CASE ReapChild
    <3>1. process # NoChild
      BY <2>1, <2>5 DEF ReapChild, Owned
    <3> QED
      BY <2>5, <3>1 DEF ReapChild, Life!LifeNext, Life!Gone
  <2> QED
    BY <2>2, <2>3, <2>4, <2>5
<1> QED
  BY <1>1, <1>2, LoopCorrect, PTL DEF Spec, LifeImplemented, Life!LifeSpec

=============================================================================
