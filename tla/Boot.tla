-------------------------------- MODULE Boot --------------------------------
(***************************************************************************)
(* How the IO unit comes up: app_main on one core creates the queues and   *)
(* the BLE task, waits for that task to answer on the queue, allocates the *)
(* playback buffer and enters the loop; the BLE task on the other core     *)
(* starts the NimBLE host and then answers with a dummy item, on the same  *)
(* queue the host's write callback posts the client's commands to.  The    *)
(* host can serve a client from the moment it is started, and nothing      *)
(* makes a client wait until the unit has booted.                          *)
(*                                                                         *)
(* The pointers are kept as what they point at: nothing or the playback    *)
(* buffer.  A copy through a pointer to nothing ends in the processor's    *)
(* panic handler, which restarts the unit.                                 *)
(***************************************************************************)
EXTENDS Integers, Sequences

CONSTANTS
  QueueLength,    \* the length of blePeriph_bleToAppQueue
  Faults,         \* what may be broken: "queues", "task", "slow", "psram"
  MaxRestarts     \* bound: how often power is lost

ASSUME QueueAssumption   == QueueLength \in Nat \ {0}
ASSUME FaultsAssumption  == Faults \subseteq {"queues", "task", "slow", "psram"}
ASSUME RestartAssumption == MaxRestarts \in Nat

VARIABLES
  broken,               \* what is broken in this unit
  mainPc,               \* where app_main is
  apiPc,                \* where blePeriphAPI_task is
  hostUp,               \* does the NimBLE host run?
  queue,                \* blePeriph_bleToAppQueue, by the origin of its items
  playbackBufferBASE,
  playbackWritePtr,
  panic,                \* has a copy gone through a pointer to nothing?
  streaming,            \* has the client begun a stream, before a restart maybe?
  restarts,
  answered,             \* history: whose item app_main took for the answer
  hasty                 \* history: has a client written while app_main waited?

appVars    == <<mainPc, playbackBufferBASE>>
bleVars    == <<apiPc, hostUp>>
worldVars  == <<broken, restarts>>
writeVars  == <<playbackWritePtr, panic, streaming>>
history    == <<answered, hasty>>
vars == <<appVars, bleVars, queue, writeVars, worldVars, history>>

Pointers == {"nothing", "buffer"}

Switches == hostUp \in BOOLEAN /\ panic \in BOOLEAN /\ hasty \in BOOLEAN

Places ==
  /\ broken \subseteq Faults
  /\ mainPc \in {"queues", "task", "await", "failed", "allocate", "fault", "loop"}
  /\ apiPc \in {"none", "init", "answer", "serving", "deleted"}
  /\ queue \in Seq({"dummy", "client"}) /\ Len(queue) <= QueueLength
  /\ playbackBufferBASE \in Pointers /\ playbackWritePtr \in Pointers
  /\ streaming \in {"no", "begun", "resumed"}
  /\ restarts \in 0..MaxRestarts
  /\ answered \in {"nobody", "dummy", "client"}

TypeOK == Switches /\ Places

(* What is in RAM when the processor starts.                               *)
Reset ==
  /\ mainPc' = "queues" /\ apiPc' = "none" /\ hostUp' = FALSE
  /\ queue' = <<>>
  /\ playbackBufferBASE' = "nothing" /\ playbackWritePtr' = "nothing"
  /\ panic' = FALSE
  /\ answered' = "nobody" /\ hasty' = FALSE

Init ==
  /\ broken \in SUBSET Faults
  /\ mainPc = "queues" /\ apiPc = "none" /\ hostUp = FALSE
  /\ queue = <<>>
  /\ playbackBufferBASE = "nothing" /\ playbackWritePtr = "nothing"
  /\ panic = FALSE
  /\ streaming = "no" /\ restarts = 0
  /\ answered = "nobody" /\ hasty = FALSE

-----------------------------------------------------------------------------
(* app_main and initRTOSTasks.  A failure ends in a loop that does nothing *)
(* but log.                                                                *)
CreateQueues ==
  /\ mainPc = "queues"
  /\ mainPc' = IF "queues" \in broken THEN "failed" ELSE "task"
  /\ UNCHANGED <<playbackBufferBASE, bleVars, queue, writeVars, worldVars, history>>

CreateTask ==
  /\ mainPc = "task"
  /\ \/ "task" \in broken /\ mainPc' = "failed" /\ UNCHANGED apiPc
     \/ "task" \notin broken /\ mainPc' = "await" /\ apiPc' = "init"
  /\ UNCHANGED <<playbackBufferBASE, hostUp, queue, writeVars, worldVars, history>>

(* The first item there is, whoever it is from.                            *)
PeekAnswer ==
  /\ mainPc = "await" /\ queue # <<>>
  /\ answered' = Head(queue)
  /\ mainPc' = "allocate"
  /\ UNCHANGED <<playbackBufferBASE, queue, bleVars, writeVars, worldVars, hasty>>

TakeAnswer ==
  /\ mainPc = "await" /\ queue # <<>>
  /\ answered' = Head(queue) /\ queue' = Tail(queue)
  /\ mainPc' = "allocate"
  /\ UNCHANGED <<playbackBufferBASE, bleVars, writeVars, worldVars, hasty>>

(* Five seconds without one, which the start of the host does not take     *)
(* unless something is wrong with it.                                      *)
NoAnswer ==
  /\ mainPc = "await" /\ queue = <<>> /\ "slow" \in broken
  /\ mainPc' = "failed"
  /\ UNCHANGED <<playbackBufferBASE, bleVars, queue, writeVars, worldVars, history>>

(* systemEntryPoint up to its loop.                                        *)
AllocateAgain ==
  /\ mainPc = "allocate"
  /\ mainPc' = IF "psram" \in broken THEN "allocate" ELSE "loop"
  /\ playbackBufferBASE' = IF "psram" \in broken THEN "nothing" ELSE "buffer"
  /\ UNCHANGED <<bleVars, queue, writeVars, worldVars, history>>

AllocateUnpublished ==
  /\ mainPc = "allocate"
  /\ mainPc' = IF "psram" \in broken THEN "fault" ELSE "loop"
  /\ UNCHANGED <<playbackBufferBASE, bleVars, queue, writeVars, worldVars, history>>

Allocate ==
  /\ mainPc = "allocate"
  /\ mainPc' = IF "psram" \in broken THEN "fault" ELSE "loop"
  /\ playbackBufferBASE' = IF "psram" \in broken THEN "nothing" ELSE "buffer"
  /\ UNCHANGED <<bleVars, queue, writeVars, worldVars, history>>

LoopReceives ==
  /\ mainPc = "loop" /\ queue # <<>>
  /\ queue' = Tail(queue)
  /\ UNCHANGED <<appVars, bleVars, writeVars, worldVars, history>>

-----------------------------------------------------------------------------
(* blePeriphAPI_task.  The queue it would be shut down by is written by    *)
(* nobody: after its answer it only sleeps.                                *)
InitNimBle ==
  /\ apiPc = "init"
  /\ hostUp' = TRUE
  /\ apiPc' = "answer"
  /\ UNCHANGED <<appVars, queue, writeVars, worldVars, history>>

Answer ==
  /\ apiPc = "answer" /\ Len(queue) < QueueLength
  /\ queue' = Append(queue, "dummy")
  /\ apiPc' = "serving"
  /\ UNCHANGED <<appVars, hostUp, writeVars, worldVars, history>>

(* Five seconds without room in the queue.                                 *)
AnswerGivenUp ==
  /\ apiPc = "answer" /\ Len(queue) = QueueLength
  /\ apiPc' = "deleted"
  /\ UNCHANGED <<appVars, hostUp, queue, writeVars, worldVars, history>>

-----------------------------------------------------------------------------
(***************************************************************************)
(* The write callback, as far as the pointers and the queue go (GattServer *)
(* has the rest).  The client begins streams, goes on with the one it has  *)
(* begun, perhaps after a restart of the unit too, and writes commands.    *)
(***************************************************************************)
ClientWrites ==
  /\ hostUp /\ ~panic
  /\ hasty' = (hasty \/ mainPc = "await")

PostFromClient ==
  queue' = IF Len(queue) < QueueLength THEN Append(queue, "client") ELSE queue

CopyThrough(pointer) ==
  IF pointer = "nothing" THEN panic' = TRUE /\ UNCHANGED queue
                         ELSE PostFromClient /\ UNCHANGED panic

FirstPayload ==
  /\ ClientWrites
  /\ playbackWritePtr' = playbackBufferBASE
  /\ CopyThrough(playbackBufferBASE)
  /\ streaming' = "begun"
  /\ UNCHANGED <<appVars, bleVars, worldVars, answered>>

NextPayload ==
  /\ ClientWrites /\ streaming # "no"
  /\ CopyThrough(playbackWritePtr)
  /\ UNCHANGED <<appVars, bleVars, worldVars, answered, playbackWritePtr, streaming>>

WriteCommand ==
  /\ ClientWrites
  /\ PostFromClient
  /\ UNCHANGED <<appVars, bleVars, worldVars, answered, writeVars>>

StreamEnds ==
  /\ ~panic /\ streaming # "no"
  /\ streaming' = "no"
  /\ UNCHANGED <<appVars, bleVars, queue, playbackWritePtr, panic, worldVars, history>>

(* The panic handler restarts the unit, and so does a loss of power.  The  *)
(* client may go on with its stream as if nothing had happened.            *)
Restart ==
  /\ restarts < MaxRestarts
  /\ restarts' = restarts + 1
  /\ Reset
  /\ \/ streaming' = "no"
     \/ streaming # "no" /\ streaming' = "resumed"
  /\ UNCHANGED broken

-----------------------------------------------------------------------------
Main == CreateQueues \/ CreateTask \/ TakeAnswer \/ NoAnswer \/ Allocate \/ LoopReceives

Api == InitNimBle \/ Answer \/ AnswerGivenUp

Client == FirstPayload \/ NextPayload \/ WriteCommand \/ StreamEnds

Next == (~panic /\ (Main \/ Api)) \/ Client \/ Restart

Spec == Init /\ [][Next]_vars

(* Both tasks run whenever they are ready, on cores of their own.          *)
FairSpec == Spec /\ WF_vars(~panic /\ Main) /\ WF_vars(~panic /\ Api)

-----------------------------------------------------------------------------
(* The loop takes over a queue in order: app_main takes exactly one item   *)
(* for the answer, the BLE task posts its dummy at most once a boot, and   *)
(* the dummy, whose opcode nobody has set, is left for the loop only when  *)
(* a client has written while app_main waited and its item was taken.      *)
NoDummy  == \A k \in 1..Len(queue) : queue[k] # "dummy"
OneDummy == \A j, k \in 1..Len(queue) : queue[j] = "dummy" /\ queue[k] = "dummy" => j = k

OneAnswer ==
  /\ mainPc \in {"queues", "task"} => apiPc = "none" /\ ~hostUp /\ queue = <<>>
  /\ apiPc # "serving" => NoDummy
  /\ OneDummy
  /\ mainPc = "await" =>
       /\ apiPc = "serving" => ~NoDummy
       /\ ~hasty => \A k \in 1..Len(queue) : queue[k] # "client"
  /\ mainPc \in {"allocate", "fault", "loop"} =>
       \/ answered = "dummy" /\ apiPc = "serving" /\ NoDummy
       \/ answered = "client" /\ hasty
  /\ mainPc = "loop" => playbackBufferBASE = "buffer"

(* Once the loop runs, no payload is copied through a pointer that nobody  *)
(* has set, but for a client that goes on with a stream it has not begun   *)
(* since the restart: not when the boot took a client's item for its       *)
(* answer, nor when the stream was begun while app_main still waited.      *)
CopiesHaveABuffer == panic => mainPc # "loop" \/ streaming = "resumed"

(* Why: a stream begun in this boot has set the pointer it goes on with,   *)
(* or its first payload was the unit's last.                               *)
PointersSet ==
  /\ streaming = "begun" => panic \/ playbackWritePtr = "buffer"
  /\ CopiesHaveABuffer

Booted == mainPc \in {"loop", "failed", "fault"}

(* The boot does not hang: whatever is broken and whenever a client        *)
(* writes, app_main ends in its loop, or in one that reports the failure,  *)
(* or a copy has ended the unit.                                           *)
BootEnds == <>[](Booted \/ panic)
=============================================================================
