-------------------------- MODULE PlaybackCorrect --------------------------
(***************************************************************************)
(* What the playback loop must get right, stated over Playback.            *)
(***************************************************************************)
EXTENDS Playback

(* The event the playback pointer is in.                                   *)
Position == EventAt(track, playbackPtr)

(* The player against its promise: one event of TrackPlayer is one turn of *)
(* the player, or the several steps from the turn to the UART.             *)
Promise == INSTANCE TrackPlayer WITH
             next <- Position, playing <- isPlayingBack

(* What the instrument hears is the voice messages of the track, each      *)
(* once, complete and in order, whatever the interrupt and the client's    *)
(* commands do in between: the byte-level player (delta-time decoding,     *)
(* meta skipping, running status in two turns) implements TrackPlayer.     *)
PlaysTheTrack == Promise!Spec

(* Between two turns the pointer is at the delta-time of an event, or,     *)
(* when a running status was found, at the data bytes of the event whose   *)
(* status byte is left out: a slip of one byte and every event after it    *)
(* would be read askew.                                                    *)
OnEventBoundary ==
  pc \in {"receive", "service"} =>
    \E i \in 1..Len(track.ev) :
      IF isRunningStatus
      THEN /\ playbackPtr = track.at[i] + DeltaLen(mem, track.at[i])
           /\ track.ev[i].kind = "running"
      ELSE playbackPtr = track.at[i]

(* A wait never outlives its timer: whoever waits has an alarm coming, or  *)
(* one that has rung and was not thrown away.  The flag is cleared and     *)
(* raised by two parties, and clearing it after the alarm would leave the  *)
(* unit silent for good.                                                   *)
NoLostWakeup ==
  waitingForDeltaTimer => alarm > 0 \/ deltaTimerFired \/ pc = "start"

(* A wait is not cut short: when its end is signalled to the loop, the     *)
(* timer started for it has run out.                                       *)
NoEarlyWake ==
  waitingForDeltaTimer /\ deltaTimerFired /\ pc # "start" => alarm = 0

(* The player and the instrument agree on the running status whenever the  *)
(* player is about to leave a status byte out: the player's own record of  *)
(* it survives meta events, the end of the track and stops.                *)
SameRunningStatus ==
  pc \in {"receive", "service"} => rxStatus = previousStatus

(* Once started, and not stopped by the client, the unit reaches the end   *)
(* of the track.                                                           *)
TrackEnds == isPlayingBack ~> ~isPlayingBack

-----------------------------------------------------------------------------
(***************************************************************************)
(* What the notes beside the code say of it, and the code does not do for  *)
(* every track.                                                            *)
(***************************************************************************)

(* "The delta-time specifies how many MIDI TICKS to wait until the next    *)
(* event": no message with a delta-time goes out without its wait.         *)
EveryDeltaIsWaitedFor ==
  pc = "send" /\ currentDeltaTime # 0 => waitingForDeltaTimer

-----------------------------------------------------------------------------
(***************************************************************************)
(* The inductive invariant behind these properties, for tracks made of     *)
(* events the player has a complete case for.                              *)
(***************************************************************************)
ASSUME SupportedAssumption == \A t \in Tracks : Supported(t)

(* Event i of the track, delta-time taken off.                             *)
Body(i) == track.at[i] + DeltaLen(track.image, track.at[i])

(* The bytes of event i are in the buffer.                                 *)
InMem(i) == \A a \in track.at[i]..track.at[i + 1] - 1 : mem[a] = track.image[a]

(* Between two turns: the player is about to read event i, or has found    *)
(* that it leaves its status byte out.  The status it remembers is the     *)
(* instrument's, and the one in force at event i if the track has set one. *)
BetweenEvents(i) ==
  /\ IF isRunningStatus THEN playbackPtr = Body(i) /\ track.ev[i].kind = "running"
                        ELSE playbackPtr = track.at[i]
  /\ track.ctx[i] # 0 => previousStatus = track.ctx[i]
  /\ rxStatus = previousStatus

(* Within a turn: event i has been parsed and is about to be sent.         *)
WithinEvent(i) ==
  /\ isPlayingBack
  /\ playbackPtr = Body(i)
  /\ Sounds(track.ev[i])
  /\ isRunningStatus <=> track.ev[i].kind = "running"
  /\ previousStatus = track.ctx[i + 1]
  /\ bytesToSend = MessageBytes(SubType(previousStatus))
  /\ isRunningStatus => rxStatus = previousStatus

Turn(i) == IF pc \in {"receive", "service"} THEN BetweenEvents(i) ELSE WithinEvent(i)

(* The player has begun with its event: it has found a running status, or  *)
(* is about to send.  And it reads its event when it has begun with it or  *)
(* is about to.                                                            *)
Begun == isRunningStatus \/ pc \notin {"receive", "service"}

Reads == Begun \/ (pc = "service" /\ Due)

(* A wait is armed only for a delta-time there is.                         *)
WaitInv ==
  /\ pc \in {"arm", "start"} => currentDeltaTime # 0
  /\ NoLostWakeup

(* The player is always in some event of the track, in step with the wire, *)
(* the buffer is the track's image, and no wait outlives its timer.        *)
IInv ==
  /\ TypeOK
  /\ mem = track.image
  /\ \E i \in 1..Len(track.ev) : Turn(i)
  /\ WaitInv
=============================================================================
