---------------------------- MODULE TrackPlayer ----------------------------
(***************************************************************************)
(* What the IO unit promises: a track is a list of events, and while it is *)
(* playing the instrument on the MIDI port hears its voice messages, each  *)
(* once, in order and complete; a stopped unit says nothing; when the end  *)
(* of the track is reached the unit stops and is ready to play the track   *)
(* again from its first event.  Bytes, pointers, running status, timers    *)
(* and tasks do not appear here.                                           *)
(***************************************************************************)
EXTENDS MidiTrack

CONSTANT Tracks

VARIABLES
  track,      \* the track in the unit
  next,       \* the index of the event to play next
  playing,    \* has the client started playback?
  heard       \* the messages the instrument heard since the last beginning

vars == <<track, next, playing, heard>>

Init ==
  /\ track \in Tracks
  /\ next = 1
  /\ playing = FALSE
  /\ heard = <<>>

Start ==
  /\ playing' = TRUE
  /\ UNCHANGED <<track, next, heard>>

Stop ==
  /\ playing' = FALSE
  /\ UNCHANGED <<track, next, heard>>

PlayEvent ==
  /\ playing
  /\ track.ev[next].kind # "end"
  /\ next' = next + 1
  /\ heard' = IF Sounds(track.ev[next]) THEN Append(heard, Message(track, next))
                                        ELSE heard
  /\ UNCHANGED <<track, playing>>

Finish ==
  /\ playing
  /\ track.ev[next].kind = "end"
  /\ playing' = FALSE
  /\ next' = 1
  /\ heard' = <<>>
  /\ UNCHANGED track

Next == Start \/ Stop \/ PlayEvent \/ Finish

Spec == Init /\ [][Next]_vars
=============================================================================
