---------------------------- MODULE SequencerInv ----------------------------
(***************************************************************************)
(* The inductive invariant behind the properties of Sequencer, for tracks  *)
(* of supported events and a client that starts and continues playback     *)
(* only with the payloads of a stream.                                     *)
(***************************************************************************)
EXTENDS Sequencer

ASSUME CommandsApart == 1 \notin Commands /\ 2 \notin Commands

(* The callback's count of payloads is the client's, but for a last        *)
(* payload of one byte, which it turns away.                               *)
CountsAgree ==
  \/ payloadsReceived = written
  \/ /\ payloadsReceived = written - 1
     /\ Gatt!ChunkLength(track, written - 1) = 1
     /\ written * PayloadSize >= Gatt!Length(track)

(* The client's stream, in the buffer as far as it was written.            *)
StreamInv ==
  /\ written = 0 => payloadsReceived = 0
  /\ written > 0 => /\ payloadsReceived > 0
                    /\ (written - 1) * PayloadSize < Gatt!Length(track)
                    /\ CountsAgree
  /\ Gatt!BufferHoldsStream

(* The player is at event i, the messages of all events before it have     *)
(* gone out, and if it has begun with the event, the event is there.       *)
InStep(i) ==
  /\ Turn(i)
  /\ heard = MessagesBefore(track, i)
  /\ Begun => InMem(i)

PlayerInv == lost = "no" => \E i \in 1..Len(track.ev) : InStep(i)

(* A wait is on from its arming on, not before; unless a stop left an      *)
(* alarm behind, there is none when nobody waits, when the wait is over    *)
(* and when the next one is about to be started.                           *)
AlarmInv ==
  /\ pc = "arm" => ~waitingForDeltaTimer
  /\ pc = "start" => waitingForDeltaTimer
  /\ ~stale /\ pc = "start" => ~deltaTimerFired
  /\ ~stale /\ (~waitingForDeltaTimer \/ deltaTimerFired \/ pc = "start") => alarm = 0

(* What is on its way to the loop, in order.                               *)
OnItsWay == IF gattPc = "post" THEN Append(queue, item) ELSE queue

(* A start on its way makes good for whatever was dropped before.          *)
CountInv ==
  ~dropped \/ (gattPc = "post" /\ item.opcode = 1) =>
    Told(totalDataLength, OnItsWay) = Copied

SystemInv ==
  /\ SystemTypeOK
  /\ WaitInv
  /\ StreamInv
  /\ PlayerInv
  /\ AlarmInv
=============================================================================
