----------------------------- MODULE MCPlayback -----------------------------
(***************************************************************************)
(* Instances of Playback for TLC.                                          *)
(***************************************************************************)
EXTENDS PlaybackCorrect, TrackBuilder

Size == 32

Zero == <<0>>

(* Two notes, the second with its status left out, a tempo change, then a  *)
(* two-byte message repeated by running status and a meta event in between. *)
Song ==
  BuildTrack(<< NoteOn(Zero, 60), Again(<<1>>, <<64, 64>>), Tempo(Zero),
                Program(<<2>>, 5), TrackName(<<1>>), Again(Zero, <<6>>),
                End(<<1>>) >>, Size, 0)

(* Delta-times of several bytes, and a track whose first event is a meta   *)
(* event.                                                                  *)
LongDeltas ==
  BuildTrack(<< TrackName(Zero), NoteOn(<<128, 1>>, 60),
                NoteOff(<<128, 128, 3>>, 60),
                Again(<<128, 128, 128, 0>>, <<62, 0>>), End(<<129, 0>>) >>,
             Size, 0)

MCTracks == {Song, LongDeltas}

(* An event under running status that has a delta-time of its own.         *)
Running ==
  { BuildTrack(<< NoteOn(Zero, 60), Again(<<3>>, <<64, 64>>),
                  NoteOff(<<2>>, 60), End(Zero) >>, Size, 0) }

MCLengths == {1}
=============================================================================
