----------------------------- MODULE Sequencer -----------------------------
(***************************************************************************)
(* The whole IO unit: the NimBLE host task that fills the playback buffer  *)
(* on one core (GattServer), the application loop that plays it on the     *)
(* other (Playback), and nothing between them but the buffer in PSRAM and  *)
(* the queue.  The player does not know how much of a stream has arrived,  *)
(* and a stream can begin while another is being played.  The ghost lost   *)
(* records the first time either matters; from then on the player reads    *)
(* bytes that are not the track's, and the model follows it no further.    *)
(***************************************************************************)
EXTENDS PlaybackCorrect

CONSTANTS PayloadSize, JunkLengths      \* as in GattServer

ASSUME PayloadAssumption == PayloadSize \in UInt16 /\ PayloadSize \in 2..BufferSize
ASSUME JunkAssumption    == JunkLengths \subseteq UInt16 /\ JunkLengths # {}

VARIABLES
  written, eventBuffer, payloadsReceived, gattPc, item,   \* as in GattServer
  lost,         \* "no", "underrun" or "overwritten"
  dropped,      \* has an item of the current stream met a full queue?
  stale         \* has a stop ended a wait and left its alarm running?

Gatt == INSTANCE GattServer

gattVars   == <<written, eventBuffer, payloadsReceived, gattPc, item>>
playVars   == <<pc, totalDataLength, isPlayingBack, waitingForDeltaTimer,
                timerVars, playerVars, wireVars>>
ghostVars  == <<lost, dropped, stale>>
systemVars == <<vars, gattVars, ghostVars>>

SystemTypeOK ==
  /\ TypeOK /\ Gatt!TypeOK
  /\ lost \in {"no", "underrun", "overwritten"}
  /\ dropped \in BOOLEAN /\ stale \in BOOLEAN

SystemInit ==
  /\ Gatt!Init
  /\ LoopInit
  /\ lost = "no"
  /\ dropped = FALSE /\ stale = FALSE

-----------------------------------------------------------------------------
(* The bytes of the event the player turns to, as they should be.          *)
EventArrived ==
  \A a \in track.at[Position]..track.at[Position + 1] - 1 :
    mem[a] = track.image[a]

LoopStep ==
  /\ lost = "no"
  /\ pc = "service" /\ Due => EventArrived
  /\ Loop
  /\ stale' = (stale \/ (ReceiveCommand /\ waitingForDeltaTimer /\ ~waitingForDeltaTimer'
                          /\ alarm > 0))
  /\ UNCHANGED <<gattVars, lost, dropped>>

(* playbackMidiData is called, and what it is about to read has not come.  *)
Underrun ==
  /\ lost = "no"
  /\ pc = "service" /\ Due /\ ~EventArrived
  /\ lost' = "underrun"
  /\ UNCHANGED <<vars, gattVars, dropped, stale>>

Timer ==
  /\ TimerTick
  /\ UNCHANGED <<gattVars, ghostVars>>

(* A write of the client, MaxTotal bounding the count it makes the loop    *)
(* keep.  The first payload of another track replaces the bytes under a    *)
(* player that is not at the beginning.                                    *)
Write ==
  /\ \/ Gatt!StartStream
     \/ totalDataLength < MaxTotal /\ Gatt!ContinueStream
     \/ Gatt!WriteCommand
  /\ lost' = IF lost = "no" /\ track' # track /\ playbackPtr # 0
             THEN "overwritten" ELSE lost
  /\ UNCHANGED <<playVars, dropped, stale>>

PostItem ==
  /\ Gatt!Post
  /\ dropped' = \/ Len(queue) = QueueLength
                \/ item.opcode # 1 /\ dropped
  /\ UNCHANGED <<playVars, lost, stale>>

SystemNext == LoopStep \/ Underrun \/ Timer \/ Write \/ PostItem

SystemSpec == SystemInit /\ [][SystemNext]_systemVars

(* The loop, the timer and the host task run by themselves; the client     *)
(* owes nothing.                                                           *)
SystemFairSpec ==
  /\ SystemSpec
  /\ WF_systemVars(LoopStep \/ Underrun)
  /\ WF_systemVars(Timer)
  /\ WF_systemVars(PostItem)

-----------------------------------------------------------------------------
(* The messages of the events of t before event i.                         *)
MessagesBefore(t, i) ==
  LET upTo[k \in 0..Len(t.ev)] ==
        IF k = 0 THEN <<>>
        ELSE IF Sounds(t.ev[k]) THEN Append(upTo[k - 1], Message(t, k))
                                ELSE upTo[k - 1]
  IN  upTo[i - 1]

(* What the callback promises it keeps while the player runs: payloads are *)
(* in the buffer where they belong, and the next one will fit.             *)
StreamInPlace == SystemTypeOK /\ Gatt!BufferHoldsStream /\ Gatt!NextPayloadFits

(* As long as the stream keeps ahead of the player and no other stream     *)
(* takes its place, the instrument hears exactly the messages of the       *)
(* track in front of the playback pointer: neither the copy of a payload   *)
(* on the other core, nor commands, nor a full queue disturb it.           *)
HearsTheStream ==
  lost = "no" /\ pc \in {"receive", "service"} =>
    /\ OnEventBoundary
    /\ heard = MessagesBefore(track, Position)

(* No wait for a delta-time is cut short, until a stop leaves the alarm of *)
(* one running: it can ring into the next.                                 *)
NoWaitCutShort == ~stale => NoEarlyWake

(* What the loop has been told of plus what is on its way to it is what    *)
(* the callback has copied, unless an item was dropped: a start replaces   *)
(* the count, a continuation adds to it.                                   *)
Told(total, items) ==
  LET after[k \in 0..Len(items)] ==
        IF k = 0 THEN total
        ELSE CASE items[k].opcode = 1 -> items[k].dataLength
               [] items[k].opcode = 2 -> after[k - 1] + items[k].dataLength
               [] OTHER               -> after[k - 1]
  IN  after[Len(items)]

Copied ==
  IF payloadsReceived <= 1 THEN payloadsReceived * PayloadSize
  ELSE (payloadsReceived - 1) * PayloadSize
         + Gatt!ChunkLength(track, payloadsReceived - 1)

TotalAccountsForCopies ==
  gattPc = "idle" /\ ~dropped => Told(totalDataLength, queue) = Copied

(* Playback that was started comes to its end or falls behind the stream;  *)
(* it does not hang on a timer or on the queue.                            *)
PlaybackComesToAnEnd == isPlayingBack ~> (~isPlayingBack \/ lost # "no")

(* A start that entered the queue is acted on.                             *)
StartIsHeard ==
  (\E k \in 1..Len(queue) : queue[k].opcode = 1)
    ~> (isPlayingBack \/ lost # "no")
=============================================================================
