---------------------------- MODULE MCSequencer ----------------------------
(***************************************************************************)
(* Instances of Sequencer for TLC: payloads of six bytes instead of 510    *)
(* and three tracks of one or two payloads: one that fills the buffer to   *)
(* its last byte, the border of the payloads in the middle of an event,    *)
(* one that ends one byte into its second payload, and one whose only      *)
(* payload is short, so that the first copy takes stale bytes with it.     *)
(***************************************************************************)
EXTENDS SequencerInv, TrackBuilder

Size == 11

Zero == <<0>>

Full ==
  BuildTrack(<< NoteOn(<<1>>, 60), Again(Zero, <<60, 0>>), End(Zero) >>, Size, 0)

OneOver == BuildTrack(<< Program(<<2>>, 5), End(Zero) >>, Size, 0)

Short == BuildTrack(<< End(Zero) >>, Size, 0)

MCTracks == {Full, OneOver, Short}
MCJunk == {7}
NoLengths == {}
=============================================================================
