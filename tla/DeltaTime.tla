----------------------------- MODULE DeltaTime -----------------------------
(***************************************************************************)
(* getMidiDeltaTime as it runs: the bytes of the delta-time are gathered   *)
(* into a 32-bit word, the last one lowest, and the seven bits of each are *)
(* then brought together.  Elsewhere the function is used as DeltaLen and  *)
(* DeltaValue of MidiTrack; here those are what it is compared with, and   *)
(* both with the definition midiNotes.txt gives: take bit 8 off each byte  *)
(* and concatenate.                                                        *)
(***************************************************************************)
EXTENDS MidiTrack

CONSTANT DeltaBytes         \* the bytes a delta-time may be made of

ASSUME DeltaBytesAssumption == DeltaBytes \subseteq Byte

VARIABLES
  bytes,        \* the four bytes at deltaTimeBase on entry, as 0..3 -> Byte
  offset,       \* how far deltaTimeBase has been moved
  tempStore,    \* the 32-bit word, as its bytes from the lowest
  numBytes,
  a,            \* the loop counter of the second part
  result,
  pc            \* "gather", "join" or "return"

vars == <<bytes, offset, tempStore, numBytes, a, result, pc>>

TypeOK ==
  /\ bytes \in [0..3 -> Byte]
  /\ offset \in 0..4
  /\ tempStore \in [0..3 -> Byte]
  /\ numBytes \in 0..3
  /\ a \in 0..4
  /\ result \in 0..2^28 - 1
  /\ pc \in {"gather", "join", "return"}

Init ==
  /\ bytes \in [0..3 -> DeltaBytes]
  /\ offset = 0
  /\ tempStore = [k \in 0..3 |-> 0]
  /\ numBytes = 0
  /\ a = 0
  /\ result = 0
  /\ pc = "gather"

(* tempStore <<= 8 drops its highest byte and leaves the lowest zero.      *)
ShiftedByByte(word) == [k \in 0..3 |-> IF k = 0 THEN 0 ELSE word[k - 1]]

(* tempStore |= byte, into a lowest byte that is zero.                     *)
WithLowest(word, b) == [word EXCEPT ![0] = b]

(* The flag of the fourth byte is not obeyed.                              *)
NextByteExpected == HasMoreBytes(bytes[offset]) /\ numBytes < 3

GatherByte ==
  /\ pc = "gather"
  /\ IF NextByteExpected
     THEN /\ tempStore' = ShiftedByByte(WithLowest(tempStore, bytes[offset]))
          /\ numBytes' = numBytes + 1
          /\ offset' = offset + 1
          /\ UNCHANGED pc
     ELSE /\ tempStore' = WithLowest(tempStore, bytes[offset])
          /\ pc' = "join"
          /\ UNCHANGED <<numBytes, offset>>
  /\ UNCHANGED <<bytes, a, result>>

(* Byte k of the word without its flag, 7 bits at 8k, moved down by k: the *)
(* seven bits do not overlap those of the other bytes, so that or is sum.  *)
JoinedWithFlag(k) == result + tempStore[k] * 2^(7 * k)

Joined(k) == result + (tempStore[k] % 128) * 2^(7 * k)

JoinByte ==
  /\ pc = "join"
  /\ IF a <= numBytes
     THEN /\ result' = Joined(a)
          /\ a' = a + 1
          /\ UNCHANGED <<offset, pc>>
     ELSE /\ offset' = offset + 1
          /\ pc' = "return"
          /\ UNCHANGED <<a, result>>
  /\ UNCHANGED <<bytes, tempStore, numBytes>>

Next == GatherByte \/ JoinByte

Spec == Init /\ [][Next]_vars

-----------------------------------------------------------------------------
(* The definition of midiNotes.txt: the bytes up to the first one without  *)
(* a flag, bit 8 of each removed, concatenated.                            *)
Concatenated(m, n) ==
  LET upTo[k \in 0..n] == IF k = 0 THEN 0 ELSE 128 * upTo[k - 1] + (m[k - 1] % 128)
  IN  upTo[n]

(* What the function returns, and where it leaves the pointer, is what the *)
(* player's model takes for the delta-time, whatever the bytes.            *)
ReturnsDeltaTime ==
  pc = "return" => result = DeltaValue(bytes, 0) /\ offset = DeltaLen(bytes, 0)

(* And it is the delta-time that midiNotes.txt defines, as long as the     *)
(* fourth byte closes it.                                                  *)
AgreesWithNotes ==
  pc = "return" =>
    \E n \in 1..4 : /\ \A k \in 0..n - 2 : HasMoreBytes(bytes[k])
                    /\ n = 4 \/ ~HasMoreBytes(bytes[n - 1])
                    /\ offset = n
                    /\ result = Concatenated(bytes, n)

(* The shifts and masks decode every delta-time, read no further than its  *)
(* last byte and keep all within a word.                                   *)
DecodesDeltaTimes == TypeOK /\ ReturnsDeltaTime /\ AgreesWithNotes
=============================================================================
