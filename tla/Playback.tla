------------------------------ MODULE Playback ------------------------------
(***************************************************************************)
(* The application side of the IO unit: the loop of systemEntryPoint, the  *)
(* player it calls (playbackMidiData) and the delta timer with its         *)
(* interrupt.  The loop takes commands off the queue filled by the BLE     *)
(* side, one per turn, and then gives the player one turn; the timer       *)
(* interrupt can come between any two steps.                               *)
(*                                                                         *)
(* The loop is cut where the interrupt can tell the difference: taking a   *)
(* command, the player's parse of one event, its reset of deltaTimerFired, *)
(* the start of the timer and the write to the UART.                       *)
(***************************************************************************)
EXTENDS MidiTrack

CONSTANTS
  Tracks,         \* the tracks a client may have put into the buffer
  BufferSize,     \* PLACYBACK_DATA_ALLOCATION_SIZE
  QueueLength,    \* the length of blePeriph_bleToAppQueue
  Commands,       \* the opcodes the client sends
  DataLengths,    \* the payload lengths it announces
  MaxTotal        \* bound: the client announces no more data beyond this

ASSUME BufferAssumption   == BufferSize \in Nat \ {0}
ASSUME QueueAssumption    == QueueLength \in Nat \ {0}
ASSUME CommandsAssumption == Commands \subseteq Byte
ASSUME LengthsAssumption  == DataLengths \subseteq UInt16 /\ MaxTotal \in Nat
ASSUME TracksAssumption   == \A t \in Tracks : IsTrack(t, BufferSize)

VARIABLES
  track,                  \* the track whose bytes are in the buffer (ghost)
  mem,                    \* the playback buffer in PSRAM
  queue,                  \* blePeriph_bleToAppQueue
  pc,                     \* where the loop is
  isPlayingBack,
  waitingForDeltaTimer,
  deltaTimerFired,        \* set by the interrupt, cleared by the loop
  alarm,                  \* ticks until the timer's alarm, 0 when there is none
  playbackPtr,            \* as an offset from playbackDataBASE
  isRunningStatus,
  currentDeltaTime,
  previousStatus,         \* previousStatusForRunningStatus
  totalDataLength,
  bytesToSend,
  rxStatus,               \* the instrument's running status
  heard                   \* the messages it heard since the last beginning

loopVars   == <<pc, queue, totalDataLength>>
playerVars == <<playbackPtr, isRunningStatus, currentDeltaTime, previousStatus,
                bytesToSend>>
timerVars  == <<deltaTimerFired, alarm>>
wireVars   == <<rxStatus, heard>>
dataVars   == <<track, mem>>
vars == <<dataVars, loopVars, isPlayingBack, waitingForDeltaTimer, timerVars,
          playerVars, wireVars>>

QueueItem == [opcode : Byte, dataLength : UInt16]

TypeOK ==
  /\ track \in Tracks
  /\ mem \in [0..BufferSize - 1 -> Byte]
  /\ queue \in Seq(QueueItem) /\ Len(queue) <= QueueLength
  /\ pc \in {"receive", "service", "arm", "start", "send"}
  /\ isPlayingBack \in BOOLEAN
  /\ waitingForDeltaTimer \in BOOLEAN
  /\ deltaTimerFired \in BOOLEAN
  /\ alarm \in Nat
  /\ playbackPtr \in Nat
  /\ isRunningStatus \in BOOLEAN
  /\ currentDeltaTime \in Nat
  /\ previousStatus \in {0} \cup 128..239
  /\ totalDataLength \in Nat
  /\ bytesToSend \in 0..255
  /\ rxStatus \in {0} \cup 128..239
  /\ heard \in Seq(Seq(Byte))

(* The loop as systemEntryPoint enters it, whatever the buffer holds.      *)
LoopInit ==
  /\ queue = <<>>
  /\ pc = "receive"
  /\ isPlayingBack = FALSE
  /\ waitingForDeltaTimer = FALSE
  /\ deltaTimerFired = FALSE
  /\ alarm = 0
  /\ playbackPtr = 0
  /\ isRunningStatus = FALSE
  /\ currentDeltaTime = 0
  /\ previousStatus = 0
  /\ totalDataLength = 0
  /\ bytesToSend = 0
  /\ rxStatus = 0
  /\ heard = <<>>

Init ==
  /\ track \in Tracks
  /\ mem = track.image
  /\ LoopInit

-----------------------------------------------------------------------------
(***************************************************************************)
(* The queue.  xQueueReceive gives up at once when there is nothing: one   *)
(* millisecond is no tick at all at CONFIG_FREERTOS_HZ=100.                *)
(***************************************************************************)
ReceiveNothing ==
  /\ pc = "receive"
  /\ queue = <<>>
  /\ pc' = "service"
  /\ UNCHANGED <<dataVars, queue, totalDataLength, isPlayingBack,
                 waitingForDeltaTimer, timerVars, playerVars, wireVars>>

(* What an item does to the announced length, and to playback.             *)
TotalAfter(item) ==
  CASE item.opcode = 1 -> item.dataLength
    [] item.opcode = 2 -> totalDataLength + item.dataLength
    [] OTHER           -> totalDataLength

PlayingAfterMore(item) == item.opcode = 2 \/ (isPlayingBack /\ item.opcode # 3)

PlayingAfter(item) == item.opcode = 1 \/ (isPlayingBack /\ item.opcode # 3)

ReceiveCommand ==
  /\ pc = "receive"
  /\ queue # <<>>
  /\ totalDataLength' = TotalAfter(Head(queue))
  /\ isPlayingBack' = PlayingAfter(Head(queue))
  /\ waitingForDeltaTimer' = (waitingForDeltaTimer /\ Head(queue).opcode # 3)
  /\ queue' = Tail(queue)
  /\ pc' = "service"
  /\ UNCHANGED <<dataVars, timerVars, playerVars, wireVars>>

-----------------------------------------------------------------------------
(***************************************************************************)
(* One turn of the player.  It is due when playback is on and no delta     *)
(* time is being waited for, or the wait is over.                          *)
(***************************************************************************)
DueAlways == isPlayingBack

DueOnlyFired == isPlayingBack /\ deltaTimerFired

Due == isPlayingBack /\ (waitingForDeltaTimer => deltaTimerFired)

NotDue ==
  /\ pc = "service"
  /\ ~Due
  /\ pc' = "receive"
  /\ UNCHANGED <<dataVars, queue, totalDataLength, isPlayingBack,
                 waitingForDeltaTimer, timerVars, playerVars, wireVars>>

(* The wait that is over is forgotten before the player is called.         *)
WakeUpStillWaiting ==
  /\ deltaTimerFired' = (deltaTimerFired /\ ~waitingForDeltaTimer)
  /\ UNCHANGED waitingForDeltaTimer

WakeUp ==
  /\ waitingForDeltaTimer' = FALSE
  /\ deltaTimerFired' = (deltaTimerFired /\ ~waitingForDeltaTimer)

(* The delta-time is fetched unless the turn before found a running status *)
(* and fetched it already.                                                 *)
EventPtr ==
  IF isRunningStatus THEN playbackPtr ELSE playbackPtr + DeltaLen(mem, playbackPtr)

FetchDelta ==
  currentDeltaTime' =
    IF isRunningStatus THEN currentDeltaTime ELSE DeltaValue(mem, playbackPtr)

(* The status byte of the event: the one of the event before it when       *)
(* running status was found and there was such an event.                   *)
StatusByte ==
  IF isRunningStatus /\ previousStatus # 0 /\ previousStatus < 248
  THEN previousStatus
  ELSE mem[EventPtr]

PlayMeta ==
  /\ pc = "service" /\ Due /\ StatusByte = 255
  /\ WakeUp
  /\ FetchDelta
  /\ LET type == IF isRunningStatus THEN EventPtr ELSE EventPtr + 1
     IN  IF mem[type] = EndOfTrack
         THEN /\ isPlayingBack' = FALSE
              /\ playbackPtr' = 0
              /\ heard' = <<>>
         ELSE /\ playbackPtr' = AfterMeta(mem, type)
              /\ UNCHANGED <<isPlayingBack, heard>>
  /\ isRunningStatus' = FALSE
  /\ pc' = "receive"
  /\ UNCHANGED <<dataVars, queue, totalDataLength, alarm, previousStatus,
                 bytesToSend, rxStatus>>

(* The status byte is kept, channel and all, for events that leave it out. *)
RememberNoChannel == previousStatus' = 16 * SubType(StatusByte)

RememberStatus == previousStatus' = StatusByte

PlayVoice ==
  /\ pc = "service" /\ Due /\ IsVoice(StatusByte)
  /\ WakeUp
  /\ FetchDelta
  /\ playbackPtr' = EventPtr
  /\ RememberStatus
  /\ bytesToSend' = MessageBytes(SubType(IF isRunningStatus THEN previousStatus
                                                            ELSE StatusByte))
  /\ pc' = IF currentDeltaTime' # 0 /\ ~isRunningStatus THEN "arm" ELSE "send"
  /\ UNCHANGED <<dataVars, queue, totalDataLength, isPlayingBack, alarm,
                 isRunningStatus, wireVars>>

(* Neither a meta event nor a voice status: the player takes it for a data *)
(* byte and comes back for it in its next turn.                            *)
FindRunningStatus ==
  /\ pc = "service" /\ Due /\ StatusByte # 255 /\ ~IsVoice(StatusByte)
  /\ WakeUp
  /\ FetchDelta
  /\ playbackPtr' = EventPtr
  /\ isRunningStatus' = TRUE
  /\ pc' = "receive"
  /\ UNCHANGED <<dataVars, queue, totalDataLength, isPlayingBack, alarm,
                 previousStatus, bytesToSend, wireVars>>

(***************************************************************************)
(* The delta time of a voice message is waited for after the message.      *)
(***************************************************************************)
ArmWait ==
  /\ pc = "arm"
  /\ deltaTimerFired' = FALSE
  /\ waitingForDeltaTimer' = TRUE
  /\ pc' = "start"
  /\ UNCHANGED <<dataVars, queue, totalDataLength, isPlayingBack, alarm,
                 playerVars, wireVars>>

(* startDeltaTimer: the count goes back to zero and the alarm is set; the  *)
(* timer is never stopped, and starting it again changes nothing.          *)
StartTimer ==
  /\ pc = "start"
  /\ alarm' = currentDeltaTime
  /\ pc' = "send"
  /\ UNCHANGED <<dataVars, queue, totalDataLength, isPlayingBack,
                 waitingForDeltaTimer, deltaTimerFired, playerVars, wireVars>>

(* What the instrument makes of the bytes: a status byte begins a message  *)
(* and is remembered, data bytes alone repeat the status it remembers.     *)
Wire(bytes) ==
  IF bytes = <<>> THEN UNCHANGED wireVars
  ELSE IF bytes[1] >= 128
  THEN /\ rxStatus' = bytes[1]
       /\ heard' = Append(heard, bytes)
  ELSE /\ heard' = Append(heard, <<rxStatus>> \o bytes)
       /\ UNCHANGED rxStatus

(* The status byte is not there to be sent under running status.           *)
(* bytesToSend is a uint8_t: taking one off a message of none leaves 255.  *)
SendCountWhole == bytesToSend

SendCount == IF isRunningStatus THEN (bytesToSend + 255) % 256 ELSE bytesToSend

SendMessage ==
  /\ pc = "send"
  /\ Wire([k \in 1..SendCount |-> mem[playbackPtr + k - 1]])
  /\ playbackPtr' = playbackPtr + SendCount
  /\ bytesToSend' = SendCount
  /\ isRunningStatus' = FALSE
  /\ pc' = "receive"
  /\ UNCHANGED <<dataVars, queue, totalDataLength, isPlayingBack,
                 waitingForDeltaTimer, timerVars, currentDeltaTime,
                 previousStatus>>

-----------------------------------------------------------------------------
(***************************************************************************)
(* The timer and its interrupt: the alarm is a single shot, and the        *)
(* interrupt handler raises the flag.                                      *)
(***************************************************************************)
TimerTick ==
  /\ alarm > 0
  /\ alarm' = alarm - 1
  /\ deltaTimerFired' = (deltaTimerFired \/ alarm = 1)
  /\ UNCHANGED <<dataVars, loopVars, isPlayingBack, waitingForDeltaTimer,
                 playerVars, wireVars>>

(* The client, as the queue shows it: commands while the track stays in    *)
(* the buffer.  A full queue takes nothing.                                *)
Client ==
  /\ Len(queue) < QueueLength
  /\ \E op \in Commands, n \in DataLengths :
       /\ op = 2 => totalDataLength < MaxTotal
       /\ queue' = Append(queue, [opcode |-> op, dataLength |-> n])
  /\ UNCHANGED <<dataVars, pc, totalDataLength, isPlayingBack,
                 waitingForDeltaTimer, timerVars, playerVars, wireVars>>

Player ==
  \/ NotDue \/ PlayMeta \/ PlayVoice \/ FindRunningStatus
  \/ ArmWait \/ StartTimer \/ SendMessage

Loop == ReceiveNothing \/ ReceiveCommand \/ Player

Next == Loop \/ TimerTick \/ Client

Spec == Init /\ [][Next]_vars

(* The scheduler runs the loop's task again after every vTaskDelay, and    *)
(* the timer counts by itself.  The client owes nothing.                   *)
FairSpec == Spec /\ WF_vars(Loop) /\ WF_vars(TimerTick)
=============================================================================
