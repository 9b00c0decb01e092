----------------------------- MODULE BootProofs -----------------------------
(***************************************************************************)
(* That the loop finds what it needs, for every length of the queue,       *)
(* whatever is broken, however often the unit restarts and whenever a      *)
(* client writes.                                                          *)
(***************************************************************************)
EXTENDS Boot, TLAPS

USE DEF appVars, bleVars, writeVars, worldVars, history

(* Every variable keeps its type: the queue its length, whoever posts.     *)
THEOREM TypeCorrect == Spec => []TypeOK
<1>1. Init => TypeOK
  <2>1. Init => Switches
    BY DEF Init, Switches
  <2>2. Init => Places
    BY QueueAssumption, RestartAssumption DEF Init, Places, Pointers
  <2> QED
    BY <2>1, <2>2 DEF TypeOK
<1>2. ASSUME TypeOK, [Next]_vars  PROVE Switches'
  <2> USE <1>2 DEF TypeOK, Switches
  <2>1. CASE Main \/ Api
    BY <2>1 DEF Main, CreateQueues, CreateTask, TakeAnswer, NoAnswer, Allocate,
                LoopReceives, Api, InitNimBle, Answer, AnswerGivenUp
  <2>2. CASE Client
    BY <2>2 DEF Client, FirstPayload, NextPayload, WriteCommand, StreamEnds, CopyThrough,
                ClientWrites
  <2>3. CASE Restart
    BY <2>3 DEF Restart, Reset
  <2>4. CASE UNCHANGED vars
    BY <2>4 DEF vars
  <2> QED
    BY <2>1, <2>2, <2>3, <2>4 DEF Next
<1>3. ASSUME TypeOK, [Next]_vars  PROVE Places'
  <2> USE <1>3, QueueAssumption, RestartAssumption DEF TypeOK, Places, Pointers
  <2>1. CASE Main
    BY <2>1 DEF Main, CreateQueues, CreateTask, TakeAnswer, NoAnswer, Allocate, LoopReceives
  <2>2. CASE Api
    BY <2>2 DEF Api, InitNimBle, Answer, AnswerGivenUp
  <2>3. CASE Client
    <3>1. UNCHANGED queue \/ PostFromClient
      BY <2>3 DEF Client, FirstPayload, NextPayload, WriteCommand, StreamEnds, CopyThrough
    <3>2. queue' \in Seq({"dummy", "client"}) /\ Len(queue') <= QueueLength
      BY <3>1 DEF PostFromClient
    <3> QED
      BY <2>3, <3>2 DEF Client, FirstPayload, NextPayload, WriteCommand, StreamEnds
  <2>4. CASE Restart
    BY <2>4 DEF Restart, Reset
  <2>5. CASE UNCHANGED vars
    BY <2>5 DEF vars
  <2> QED
    BY <2>1, <2>2, <2>3, <2>4, <2>5 DEF Next
<1> QED
  BY <1>1, <1>2, <1>3, PTL DEF Spec, TypeOK

-----------------------------------------------------------------------------
(* What a client's write does to the queue leaves the boot in order,       *)
(* whenever it comes.                                                      *)
LEMMA WriteInOrder ==
  ASSUME TypeOK, OneAnswer, ClientWrites, queue' = queue \/ PostFromClient,
         UNCHANGED <<appVars, bleVars, answered>>
  PROVE  OneAnswer'
<1> USE DEF TypeOK, Places, Switches
<1>1. (NoDummy => NoDummy') /\ (~NoDummy => ~NoDummy') /\ (OneDummy => OneDummy')
  <2>1. CASE queue' = queue
    BY <2>1 DEF NoDummy, OneDummy
  <2>2. CASE queue' = Append(queue, "client")
    <3>1. Len(queue') = Len(queue) + 1 /\ queue'[Len(queue) + 1] = "client"
      BY <2>2
    <3>2. \A k \in 1..Len(queue) : queue'[k] = queue[k]
      BY <2>2
    <3> QED
      BY <3>1, <3>2 DEF NoDummy, OneDummy
  <2> QED
    BY <2>1, <2>2 DEF PostFromClient
<1>2. mainPc \in {"queues", "task"} => FALSE
  BY DEF OneAnswer, ClientWrites
<1>3. mainPc = "await" => hasty'
  BY DEF ClientWrites
<1>4. hasty => hasty'
  BY DEF ClientWrites
<1> QED
  BY <1>1, <1>2, <1>3, <1>4 DEF OneAnswer

(* The boot stays in order in every step, whenever a client writes: one    *)
(* answer is taken before the loop, and the dummy item is left for the     *)
(* loop only when a client's item was taken in its place.                  *)
THEOREM BootInOrder == Spec => []OneAnswer
<1>1. Init => OneAnswer
  BY DEF Init, OneAnswer, NoDummy, OneDummy
<1>2. ASSUME TypeOK, OneAnswer, [Next]_vars  PROVE OneAnswer'
  <2> USE <1>2 DEF TypeOK, Places, Switches
  <2>1. CASE CreateQueues \/ CreateTask \/ NoAnswer
    BY <2>1 DEF CreateQueues, CreateTask, NoAnswer, OneAnswer, NoDummy, OneDummy
  <2>2. CASE TakeAnswer
    <3>1. \A k \in 1..Len(queue') : k + 1 \in 1..Len(queue) /\ queue'[k] = queue[k + 1]
      BY <2>2 DEF TakeAnswer
    <3>2. OneDummy' /\ (NoDummy => NoDummy')
      BY <3>1 DEF OneAnswer, NoDummy, OneDummy
    <3>3. 1 \in 1..Len(queue) /\ answered' = queue[1] /\ queue[1] \in {"dummy", "client"}
      BY <2>2 DEF TakeAnswer
    <3>4. CASE queue[1] = "dummy"
      <4>1. NoDummy' /\ apiPc = "serving"
        BY <3>1, <3>3, <3>4 DEF OneAnswer, NoDummy, OneDummy
      <4> QED
        BY <2>2, <3>2, <3>3, <3>4, <4>1 DEF TakeAnswer, OneAnswer
    <3>5. CASE queue[1] = "client"
      <4>1. hasty
        BY <2>2, <3>3, <3>5 DEF TakeAnswer, OneAnswer
      <4> QED
        BY <2>2, <3>2, <3>3, <3>5, <4>1 DEF TakeAnswer, OneAnswer
    <3> QED
      BY <3>3, <3>4, <3>5
  <2>3. CASE Allocate
    <3>1. mainPc' \in {"fault", "loop"} /\ (mainPc' = "loop" => playbackBufferBASE' = "buffer")
      BY <2>3 DEF Allocate
    <3>2. UNCHANGED <<apiPc, hostUp, queue, answered, hasty>> /\ (NoDummy' <=> NoDummy)
          /\ (OneDummy' <=> OneDummy)
      BY <2>3 DEF Allocate, NoDummy, OneDummy
    <3>3. mainPc = "allocate"
      BY <2>3 DEF Allocate
    <3> QED
      BY <3>1, <3>2, <3>3 DEF OneAnswer
  <2>4. CASE LoopReceives
    <3>1. \A k \in 1..Len(queue') : k + 1 \in 1..Len(queue) /\ queue'[k] = queue[k + 1]
      BY <2>4 DEF LoopReceives
    <3>2. OneDummy' /\ (NoDummy => NoDummy')
      BY <3>1 DEF OneAnswer, NoDummy, OneDummy
    <3> QED
      BY <2>4, <3>2 DEF LoopReceives, OneAnswer
  <2>5. CASE InitNimBle \/ AnswerGivenUp
    BY <2>5 DEF InitNimBle, AnswerGivenUp, OneAnswer, NoDummy, OneDummy
  <2>6. CASE Answer
    <3>1. NoDummy /\ mainPc \notin {"queues", "task"}
      BY <2>6 DEF Answer, OneAnswer
    <3>2. Len(queue') = Len(queue) + 1 /\ queue'[Len(queue) + 1] = "dummy"
      BY <2>6 DEF Answer
    <3>3. \A k \in 1..Len(queue) : queue'[k] = queue[k]
      BY <2>6 DEF Answer
    <3>4. OneDummy' /\ ~NoDummy' /\ \A k \in 1..Len(queue') :
                                      queue'[k] = "client" => k \in 1..Len(queue)
      BY <3>1, <3>2, <3>3 DEF NoDummy, OneDummy
    <3>5. UNCHANGED <<mainPc, playbackBufferBASE, answered, hasty, hostUp>>
          /\ apiPc = "answer" /\ apiPc' = "serving"
      BY <2>6 DEF Answer
    <3> QED
      BY <3>1, <3>3, <3>4, <3>5 DEF OneAnswer
  <2>7. CASE FirstPayload \/ NextPayload \/ WriteCommand
    <3>1. ClientWrites /\ (queue' = queue \/ PostFromClient)
      BY <2>7 DEF FirstPayload, NextPayload, WriteCommand, CopyThrough
    <3>2. UNCHANGED <<appVars, bleVars, answered>>
      BY <2>7 DEF FirstPayload, NextPayload, WriteCommand
    <3> QED
      BY <3>1, <3>2, WriteInOrder
  <2>8. CASE Restart
    BY <2>8 DEF Restart, Reset, OneAnswer, NoDummy, OneDummy
  <2>9. CASE StreamEnds \/ UNCHANGED vars
    BY <2>9 DEF StreamEnds, vars, OneAnswer, NoDummy, OneDummy
  <2> QED
    BY <2>1, <2>2, <2>3, <2>4, <2>5, <2>6, <2>7, <2>8, <2>9
       DEF Next, Main, Api, Client
<1> QED
  BY <1>1, <1>2, TypeCorrect, PTL DEF Spec

-----------------------------------------------------------------------------
(* Once the loop runs, every payload a client begins or goes on with finds *)
(* a buffer, unless its stream was begun before a restart: through every   *)
(* order of the steps of the two tasks and the client's writes, whatever   *)
(* is broken and however often power is lost.                              *)
THEOREM CopiesLand == Spec => []CopiesHaveABuffer
<1>1. Init => PointersSet
  BY DEF Init, PointersSet, CopiesHaveABuffer
<1>2. ASSUME TypeOK, OneAnswer, PointersSet, [Next]_vars  PROVE PointersSet'
  <2> USE <1>2 DEF TypeOK, Places, Switches
  <2>1. CASE ~panic /\ (Main \/ Api)
    <3>1. UNCHANGED writeVars
      BY <2>1 DEF Main, CreateQueues, CreateTask, TakeAnswer, NoAnswer, Allocate,
                  LoopReceives, Api, InitNimBle, Answer, AnswerGivenUp
    <3> QED
      BY <2>1, <3>1 DEF PointersSet, CopiesHaveABuffer
  <2>2. CASE FirstPayload
    <3>1. ~panic /\ playbackWritePtr' = playbackBufferBASE /\ mainPc' = mainPc
      BY <2>2 DEF FirstPayload, ClientWrites
    <3>2. CASE playbackBufferBASE = "nothing"
      <4>1. panic' /\ mainPc # "loop"
        BY <2>2, <3>2 DEF FirstPayload, CopyThrough, OneAnswer
      <4> QED
        BY <3>1, <4>1 DEF PointersSet, CopiesHaveABuffer
    <3>3. CASE playbackBufferBASE = "buffer"
      BY <2>2, <3>1, <3>3 DEF FirstPayload, CopyThrough, PointersSet, CopiesHaveABuffer
    <3> QED
      BY <3>2, <3>3 DEF Pointers
  <2>3. CASE NextPayload
    <3>1. ~panic /\ streaming \in {"begun", "resumed"}
          /\ UNCHANGED <<playbackWritePtr, streaming>>
      BY <2>3 DEF NextPayload, ClientWrites
    <3>2. CASE streaming = "begun"
      <4>1. playbackWritePtr = "buffer"
        BY <3>1, <3>2 DEF PointersSet
      <4>2. ~panic'
        BY <2>3, <3>1, <4>1 DEF NextPayload, CopyThrough
      <4> QED
        BY <3>1, <4>1, <4>2 DEF PointersSet, CopiesHaveABuffer
    <3>3. CASE streaming = "resumed"
      BY <3>1, <3>3 DEF PointersSet, CopiesHaveABuffer
    <3> QED
      BY <3>1, <3>2, <3>3
  <2>4. CASE WriteCommand \/ StreamEnds \/ UNCHANGED vars
    BY <2>4 DEF WriteCommand, StreamEnds, vars, PointersSet, CopiesHaveABuffer
  <2>5. CASE Restart
    BY <2>5 DEF Restart, Reset, PointersSet, CopiesHaveABuffer
  <2> QED
    BY <2>1, <2>2, <2>3, <2>4, <2>5 DEF Next, Client
<1>3. PointersSet => CopiesHaveABuffer
  BY DEF PointersSet
<1> QED
  BY <1>1, <1>2, <1>3, TypeCorrect, BootInOrder, PTL DEF Spec
=============================================================================
