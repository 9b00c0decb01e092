----------------------------- MODULE MidiTrack -----------------------------
(***************************************************************************)
(* The byte format the player walks through: delta-times, voice messages   *)
(* and meta events, as system.c reads them out of the playback buffer, and *)
(* the layout of a track in that buffer (midiNotes.txt).                   *)
(*                                                                         *)
(* A track is described twice: by its list of events (what the composer    *)
(* wrote) and by the buffer image the client streams.  IsTrack ties the    *)
(* two together, so that what the player does to the bytes can be compared *)
(* with what the events ask for.                                           *)
(***************************************************************************)
EXTENDS Integers, Sequences

Byte == 0..255

UInt16 == 0..65535

(***************************************************************************)
(* getMidiDeltaTime: a delta-time is one to four bytes, most significant   *)
(* first; bit 8 of a byte says that another follows, and the fourth byte   *)
(* is the last whatever its flag says.                                     *)
(***************************************************************************)
HasMoreBytes(b) == b >= 128

DeltaLen(m, p) ==
  IF ~HasMoreBytes(m[p])     THEN 1 ELSE
  IF ~HasMoreBytes(m[p + 1]) THEN 2 ELSE
  IF ~HasMoreBytes(m[p + 2]) THEN 3 ELSE 4

(* Byte a of the store, counted from the least significant, without its    *)
(* flag: the mask 0x7F << 8a followed by the shift right by a leaves the   *)
(* seven bits at position 7a.                                              *)
Septet(m, p, a) ==
  IF a < DeltaLen(m, p) THEN m[p + DeltaLen(m, p) - 1 - a] % 128 ELSE 0

DeltaValue(m, p) ==
  Septet(m, p, 0) + 128 * Septet(m, p, 1)
                  + 16384 * Septet(m, p, 2) + 2097152 * Septet(m, p, 3)

(***************************************************************************)
(* Voice messages: status 0x80..0xEF.  bytesToSend is chosen by the high   *)
(* nibble: program change and channel pressure are two bytes, the others   *)
(* three, and a nibble the switch does not know leaves it at zero.         *)
(***************************************************************************)
IsVoice(s) == s \in 128..239

SubType(s) == s \div 16

MessageBytes(sub) ==
  IF sub \in {12, 13} THEN 2 ELSE IF sub \in 8..14 THEN 3 ELSE 0

(***************************************************************************)
(* Meta events: the types whose length byte the player reads and skips,    *)
(* and where processMetaMessage leaves the pointer, given that it enters   *)
(* on the type byte.                                                       *)
(***************************************************************************)
EndOfTrack     == 47
SequenceNumber == 0
SkippedMeta    == (1..7) \cup {9, 32, 33, 81, 84, 88, 89}

AfterMetaShort(m, p) ==
  IF m[p] \in SkippedMeta THEN p + 1 + m[p + 1] ELSE p

AfterMeta(m, p) ==
  IF m[p] \in SkippedMeta        THEN p + 2 + m[p + 1]
  ELSE IF m[p] = SequenceNumber  THEN p + 3
  ELSE p

-----------------------------------------------------------------------------
(***************************************************************************)
(* A track.  ev is its list of events, each with the delta-time in front   *)
(* of it, its kind and the bytes that follow the delta-time; image is the  *)
(* content of the playback buffer; at[i] is the address of event i and     *)
(* ctx[i] the status byte in force when event i begins (0 when no voice    *)
(* message has been seen yet).                                             *)
(***************************************************************************)
Placed(t, i) ==
  LET e == t.ev[i]
      b == t.at[i]
      d == DeltaLen(t.image, b)
  IN  /\ t.at[i + 1] = b + d + Len(e.bytes)
      /\ e.delta = DeltaValue(t.image, b)
      /\ \A k \in 1..Len(e.bytes) : t.image[b + d + k - 1] = e.bytes[k]
      /\ t.ctx[i + 1] = IF e.kind = "voice" THEN e.bytes[1] ELSE t.ctx[i]

(* What the events look like (midiNotes.txt and the comments of system.c): *)
(* a voice message, a voice message that leaves its status byte out        *)
(* because it repeats the one in force, a system exclusive message, a meta *)
(* event and the end of the track, which comes last and only there.        *)
Shaped(t, i) ==
  LET e == t.ev[i]
      s == t.ctx[i]
  IN  \/ /\ e.kind = "voice"
         /\ IsVoice(e.bytes[1])
         /\ Len(e.bytes) = MessageBytes(SubType(e.bytes[1]))
      \/ /\ e.kind = "running"
         /\ IsVoice(s)
         /\ e.bytes[1] < 128
         /\ Len(e.bytes) = MessageBytes(SubType(s)) - 1
      \/ /\ e.kind = "sysex"
         /\ e.bytes[1] \in {240, 247}
      \/ /\ e.kind = "meta"
         /\ e.bytes[1] = 255
         /\ e.bytes[2] # EndOfTrack
         /\ Len(e.bytes) > 2
      \/ /\ e.kind = "end"
         /\ e.bytes = <<255, EndOfTrack, 0>>
         /\ i = Len(t.ev)

IsTrack(t, size) ==
  LET n == Len(t.ev)
  IN  /\ n \in Nat \ {0}
      /\ t.image \in [0..size - 1 -> Byte]
      /\ t.at \in [1..n + 1 -> 0..size]
      /\ t.ctx \in [1..n + 1 -> Byte]
      /\ t.at[1] = 0
      /\ \A i, j \in 1..n + 1 : i < j => t.at[i] < t.at[j]
      /\ t.ctx[1] = 0
      /\ t.ev[n].kind = "end"
      /\ \A i \in 1..n : /\ t.ev[i].bytes \in Seq(Byte) \ {<<>>}
                         /\ Placed(t, i)
                         /\ Shaped(t, i)

(* The events the player has a complete case for: voice messages, running  *)
(* status, the end of the track, and meta events of a skipped type whose   *)
(* length fits the one byte that is read for it.                           *)
SupportedEvent(e) ==
  \/ e.kind \in {"voice", "running", "end"}
  \/ /\ e.kind = "meta"
     /\ e.bytes[2] \in SkippedMeta
     /\ Len(e.bytes) = 3 + e.bytes[3]

Supported(t) == \A i \in 1..Len(t.ev) : SupportedEvent(t.ev[i])

(* The event that address p of the buffer belongs to.                      *)
EventAt(t, p) == CHOOSE i \in 1..Len(t.ev) : t.at[i] <= p /\ p < t.at[i + 1]

(* Does event e make a sound: is it to be transmitted?                     *)
Sounds(e) == e.kind \in {"voice", "running"}

(* The complete message event i of t stands for, status byte included.     *)
Message(t, i) ==
  IF t.ev[i].kind = "running" THEN <<t.ctx[i]>> \o t.ev[i].bytes
                              ELSE t.ev[i].bytes
=============================================================================
