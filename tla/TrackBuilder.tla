---------------------------- MODULE TrackBuilder ----------------------------
(***************************************************************************)
(* Builds the tracks of the model-checking instances: from a list of       *)
(* events, each written <<delta bytes, kind, bytes>>, to the record that   *)
(* MidiTrack!IsTrack describes.  The value of a delta-time is computed     *)
(* here the way midiNotes.txt defines it, one septet after the other, and  *)
(* not with the player's own arithmetic.                                   *)
(***************************************************************************)
EXTENDS MidiTrack, SequencesExt

Vlq(bytes) == FoldLeft(LAMBDA acc, b : 128 * acc + (b % 128), 0, bytes)

EventRecord(e) == [delta |-> Vlq(e[1]), kind |-> e[2], bytes |-> e[3]]

Flatten(evs) == FoldLeft(LAMBDA acc, e : acc \o e[1] \o e[3], <<>>, evs)

(* The status in force after the first k events.                           *)
ContextAfter(evs, k) ==
  FoldLeft(LAMBDA s, e : IF e[2] = "voice" THEN e[3][1] ELSE s,
           0, SubSeq(evs, 1, k))

(* The track, in a buffer of the given size whose other bytes are fill.    *)
BuildTrack(evs, size, fill) ==
  LET bytes == Flatten(evs)
  IN  [ev    |-> [i \in 1..Len(evs) |-> EventRecord(evs[i])],
       at    |-> [i \in 1..Len(evs) + 1 |-> Len(Flatten(SubSeq(evs, 1, i - 1)))],
       ctx   |-> [i \in 1..Len(evs) + 1 |-> ContextAfter(evs, i - 1)],
       image |-> [a \in 0..size - 1 |->
                    IF a < Len(bytes) THEN bytes[a + 1] ELSE fill]]

(* The events the instances are made of.                                   *)
NoteOn(d, note)   == <<d, "voice", <<144, note, 64>>>>
NoteOff(d, note)  == <<d, "voice", <<128, note, 0>>>>
Program(d, p)     == <<d, "voice", <<193, p>>>>
Again(d, bytes)   == <<d, "running", bytes>>
Tempo(d)          == <<d, "meta", <<255, 81, 3, 7, 161, 32>>>>
TrackName(d)      == <<d, "meta", <<255, 3, 1, 77>>>>
End(d)            == <<d, "end", <<255, 47, 0>>>>
=============================================================================
