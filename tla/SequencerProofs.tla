-------------------------- MODULE SequencerProofs --------------------------
(***************************************************************************)
(* Theorems about the player alone, and then about the whole IO unit: a    *)
(* buffer that is written on one core while it is read on the other, for   *)
(* every set of supported tracks, every payload and buffer size, every     *)
(* length of the queue and every client.                                   *)
(***************************************************************************)
EXTENDS SequencerInv, SequenceTheorems, Recursion, TLAPS

(***************************************************************************)
(* The playback loop: every set of supported tracks, every buffer and      *)
(* queue, and every client.                                                *)
(***************************************************************************)

(* A delta-time takes one to four bytes.                                   *)
LEMMA DeltaLenBounds == \A m, p : DeltaLen(m, p) \in 1..4
  BY DEF DeltaLen

(* What IsTrack says of event i: where it is, where its bytes are, and     *)
(* where the next one begins.                                              *)
LEMMA EventLayout ==
  ASSUME NEW t \in Tracks, NEW i \in 1..Len(t.ev)
  PROVE  LET b == t.at[i]
             d == DeltaLen(t.image, b)
             e == t.ev[i]
         IN  /\ Len(t.ev) \in Nat \ {0}
             /\ b \in Nat /\ d \in 1..4
             /\ e.bytes \in Seq(Byte) /\ Len(e.bytes) \in Nat \ {0}
             /\ \A k \in 1..Len(e.bytes) : e.bytes[k] \in Byte
             /\ i + 1 \in 1..Len(t.ev) + 1
             /\ t.at[i + 1] = b + d + Len(e.bytes)
             /\ t.at[i + 1] \in 0..BufferSize
             /\ t.ctx[i] \in Byte /\ t.ctx[i + 1] \in Byte
             /\ \A k \in 1..Len(e.bytes) : b + d + k - 1 \in 0..BufferSize - 1
             /\ \A k \in 1..Len(e.bytes) : t.image[b + d + k - 1] = e.bytes[k]
             /\ t.ctx[i + 1] = IF e.kind = "voice" THEN e.bytes[1] ELSE t.ctx[i]
<1> DEFINE b == t.at[i]
           d == DeltaLen(t.image, b)
           e == t.ev[i]
<1>1. IsTrack(t, BufferSize)
  BY TracksAssumption
<1>2. Len(t.ev) \in Nat \ {0} /\ i + 1 \in 1..Len(t.ev) + 1 /\ i \in 1..Len(t.ev) + 1
  BY <1>1 DEF IsTrack
<1>3. b \in Nat /\ t.at[i + 1] \in 0..BufferSize
  <2>1. t.at \in [1..Len(t.ev) + 1 -> 0..BufferSize]
    BY <1>1 DEF IsTrack
  <2>2. b \in 0..BufferSize /\ t.at[i + 1] \in 0..BufferSize
    BY <2>1, <1>2
  <2> QED BY <2>2, BufferAssumption
<1>4. d \in 1..4
  BY DeltaLenBounds
<1>5. e.bytes \in Seq(Byte) /\ e.bytes # <<>>
  BY <1>1 DEF IsTrack
<1>6. /\ Len(e.bytes) \in Nat \ {0}
      /\ \A k \in 1..Len(e.bytes) : e.bytes[k] \in Byte
  BY <1>5
<1>7. Placed(t, i)
  BY <1>1 DEF IsTrack
<1>8. t.ctx[i] \in Byte /\ t.ctx[i + 1] \in Byte
  BY <1>1, <1>2 DEF IsTrack
<1>9. t.at[i + 1] = b + d + Len(e.bytes)
  BY <1>7 DEF Placed
<1>10. \A k \in 1..Len(e.bytes) :
         /\ b + d + k - 1 \in 0..BufferSize - 1
         /\ t.image[b + d + k - 1] = e.bytes[k]
  <2> TAKE k \in 1..Len(e.bytes)
  <2>1. b + d + k - 1 \in 0..BufferSize - 1
    <3> DEFINE n == Len(e.bytes)
    <3>1. n \in Nat \ {0} /\ k \in 1..n /\ t.at[i + 1] = b + d + n
      BY <1>6, <1>9
    <3> HIDE DEF b, d, n
    <3> QED BY <3>1, <1>3, <1>4, <1>6, <1>9, BufferAssumption
  <2>2. t.image[b + d + k - 1] = e.bytes[k]
    BY <1>7 DEF Placed
  <2> QED BY <2>1, <2>2
<1>11. t.ctx[i + 1] = IF e.kind = "voice" THEN e.bytes[1] ELSE t.ctx[i]
  BY <1>7 DEF Placed
<1> QED
  BY <1>2, <1>3, <1>4, <1>5, <1>6, <1>8, <1>9, <1>10, <1>11

(* A delta-time read where one is written is a number.                     *)
LEMMA DeltaValueNat ==
  ASSUME NEW t \in Tracks, NEW i \in 1..Len(t.ev)
  PROVE  DeltaValue(t.image, t.at[i]) \in Nat
<1> DEFINE m == t.image
           b == t.at[i]
           d == DeltaLen(m, b)
<1>1. /\ b \in Nat /\ d \in 1..4
      /\ t.at[i + 1] = b + d + Len(t.ev[i].bytes)
      /\ Len(t.ev[i].bytes) \in Nat \ {0}
      /\ t.at[i + 1] \in 0..BufferSize
  BY EventLayout
<1>2. m \in [0..BufferSize - 1 -> Byte]
  BY TracksAssumption DEF IsTrack
<1>3. \A a \in 0..3 : Septet(m, b, a) \in 0..127
  <2> TAKE a \in 0..3
  <2>1. CASE a < d
    <3>1. b + d - 1 - a \in 0..BufferSize - 1
      <4> DEFINE n == Len(t.ev[i].bytes)
      <4>1. n \in Nat \ {0} /\ t.at[i + 1] = b + d + n
        BY <1>1
      <4> HIDE DEF b, d, n
      <4> QED BY <4>1, <1>1, <2>1, BufferAssumption
    <3> DEFINE x == m[b + d - 1 - a]
    <3>2. x \in 0..255
      BY <1>2, <3>1 DEF Byte
    <3>3. Septet(m, b, a) = x % 128
      BY <2>1 DEF Septet
    <3> HIDE DEF x
    <3> QED BY <3>2, <3>3
  <2>2. CASE ~(a < d)
    BY <2>2 DEF Septet
  <2> QED BY <2>1, <2>2
<1> DEFINE p == Septet(m, b, 0)
           q == Septet(m, b, 1)
           r == Septet(m, b, 2)
           s == Septet(m, b, 3)
<1>4. p \in 0..127 /\ q \in 0..127 /\ r \in 0..127 /\ s \in 0..127
  BY <1>3
<1>5. DeltaValue(m, b) = p + 128 * q + 16384 * r + 2097152 * s
  BY SMT DEF DeltaValue
<1>6. p + 128 * q + 16384 * r + 2097152 * s \in Nat
  <2> HIDE DEF p, q, r, s
  <2> QED BY <1>4, SMT
<1> QED BY <1>5, <1>6, SMT

(* The events do not overlap: an address lies in one of them at most.      *)
LEMMA EventAtIs ==
  ASSUME NEW t \in Tracks, NEW p \in Nat, NEW i \in 1..Len(t.ev),
         t.at[i] <= p, p < t.at[i + 1]
  PROVE  EventAt(t, p) = i
<1>1. IsTrack(t, BufferSize)
  BY TracksAssumption
<1>2. /\ Len(t.ev) \in Nat
      /\ \A j \in 1..Len(t.ev) + 1 : t.at[j] \in Nat
      /\ \A j, k \in 1..Len(t.ev) + 1 : j < k => t.at[j] < t.at[k]
  <2>1. /\ Len(t.ev) \in Nat
        /\ t.at \in [1..Len(t.ev) + 1 -> 0..BufferSize]
    BY <1>1 DEF IsTrack
  <2>2. \A j, k \in 1..Len(t.ev) + 1 : j < k => t.at[j] < t.at[k]
    BY <1>1 DEF IsTrack
  <2>3. 0..BufferSize \subseteq Nat
    BY BufferAssumption
  <2> QED BY <2>1, <2>2, <2>3
<1>3. ASSUME NEW j \in 1..Len(t.ev),
             t.at[j] <= p, p < t.at[j + 1]
      PROVE  j = i
  <2>1. CASE j < i
    <3>1. t.at[j + 1] <= t.at[i]
      <4>1. j + 1 = i \/ j + 1 < i
        BY <2>1, <1>2
      <4>2. j + 1 \in 1..Len(t.ev) + 1 /\ i \in 1..Len(t.ev) + 1
        BY <1>2
      <4>3. CASE j + 1 = i
        BY <4>2, <4>3, <1>2
      <4>4. CASE j + 1 < i
        <5>1. t.at[j + 1] < t.at[i]
          BY <4>2, <4>4, <1>2
        <5> QED BY <4>2, <5>1, <1>2
      <4> QED BY <4>1, <4>3, <4>4
    <3>2. t.at[j + 1] \in Nat /\ t.at[i] \in Nat
      BY <1>2
    <3> QED BY <3>1, <3>2, <1>3
  <2>2. CASE i < j
    <3>1. t.at[i + 1] <= t.at[j]
      <4>1. i + 1 = j \/ i + 1 < j
        BY <2>2, <1>2
      <4>2. i + 1 \in 1..Len(t.ev) + 1 /\ j \in 1..Len(t.ev) + 1
        BY <1>2
      <4> QED BY <4>1, <4>2, <1>2
    <3>2. t.at[i + 1] \in Nat /\ t.at[j] \in Nat
      BY <1>2
    <3> QED BY <3>1, <3>2, <1>3
  <2> QED BY <2>1, <2>2, <1>2
<1> QED BY <1>3 DEF EventAt

(* A length on the wire is a number.                                       *)
LEMMA WordIsNat == \A n \in UInt16 : n \in Nat
<1> DEFINE most == 65535
<1>1. UInt16 = 0..most
  BY DEF UInt16
<1> HIDE DEF most
<1>2. \A n \in 0..most : n \in Nat
  OBVIOUS
<1> QED BY <1>1, <1>2

(* Voice status bytes are none of the others.                              *)
LEMMA VoiceRange ==
  \A s \in 128..239 : s # 0 /\ s # 255 /\ s < 248 /\ s >= 128 /\ s \in Byte /\ IsVoice(s)
  BY SMT DEF IsVoice, Byte

(* Every event of a track is of one of the four kinds.                     *)
LEMMA KindShape ==
  ASSUME NEW t \in Tracks, NEW i \in 1..Len(t.ev)
  PROVE  t.ev[i].kind \in {"voice", "running", "meta", "end"}
<1>3. SupportedEvent(t.ev[i])
  BY SupportedAssumption DEF Supported
<1> QED BY <1>3 DEF SupportedEvent

(* What the kinds of supported events look like from their first bytes.    *)
LEMMA VoiceShape ==
  ASSUME NEW t \in Tracks, NEW i \in 1..Len(t.ev)
  PROVE  t.ev[i].kind = "voice" =>
           /\ t.ev[i].bytes[1] \in 128..239
           /\ Len(t.ev[i].bytes) = MessageBytes(SubType(t.ev[i].bytes[1]))
<1>1. IsTrack(t, BufferSize)
  BY TracksAssumption
<1>2. Shaped(t, i)
  BY <1>1 DEF IsTrack
<1> QED BY <1>2 DEF Shaped, IsVoice

(* A running event has no status byte of its own.                          *)
LEMMA RunningShape ==
  ASSUME NEW t \in Tracks, NEW i \in 1..Len(t.ev)
  PROVE  t.ev[i].kind = "running" =>
           /\ t.ctx[i] \in 128..239
           /\ t.ev[i].bytes[1] < 128
           /\ Len(t.ev[i].bytes) = MessageBytes(SubType(t.ctx[i])) - 1
<1>1. IsTrack(t, BufferSize)
  BY TracksAssumption
<1>2. Shaped(t, i)
  BY <1>1 DEF IsTrack
<1> QED BY <1>2 DEF Shaped, IsVoice

(* A meta event says its own length.                                       *)
LEMMA MetaShape ==
  ASSUME NEW t \in Tracks, NEW i \in 1..Len(t.ev)
  PROVE  t.ev[i].kind = "meta" =>
           /\ t.ev[i].bytes[1] = 255
           /\ t.ev[i].bytes[2] \in SkippedMeta
           /\ t.ev[i].bytes[2] # EndOfTrack
           /\ Len(t.ev[i].bytes) = 3 + t.ev[i].bytes[3]
           /\ Len(t.ev[i].bytes) > 2
<1>1. IsTrack(t, BufferSize)
  BY TracksAssumption
<1>2. Shaped(t, i)
  BY <1>1 DEF IsTrack
<1>3. SupportedEvent(t.ev[i])
  BY SupportedAssumption DEF Supported
<1>4. t.ev[i].kind = "meta" => /\ t.ev[i].bytes[1] = 255
                               /\ t.ev[i].bytes[2] # EndOfTrack
                               /\ Len(t.ev[i].bytes) > 2
  BY <1>2 DEF Shaped
<1>5. t.ev[i].kind = "meta" => /\ t.ev[i].bytes[2] \in SkippedMeta
                               /\ Len(t.ev[i].bytes) = 3 + t.ev[i].bytes[3]
  BY <1>3 DEF SupportedEvent
<1> QED BY <1>4, <1>5

(* The end of a track is always the same three bytes.                      *)
LEMMA EndShape ==
  ASSUME NEW t \in Tracks, NEW i \in 1..Len(t.ev)
  PROVE  t.ev[i].kind = "end" => t.ev[i].bytes = <<255, EndOfTrack, 0>>
<1>1. IsTrack(t, BufferSize)
  BY TracksAssumption
<1>2. Shaped(t, i)
  BY <1>1 DEF IsTrack
<1> QED BY <1>2 DEF Shaped

(* Every event but the end of the track has a next one.                    *)
LEMMA NextShape ==
  ASSUME NEW t \in Tracks, NEW i \in 1..Len(t.ev)
  PROVE  t.ev[i].kind # "end" => i + 1 \in 1..Len(t.ev)
<1>1. IsTrack(t, BufferSize)
  BY TracksAssumption
<1>2. Len(t.ev) \in Nat \ {0} /\ t.ev[Len(t.ev)].kind = "end"
  BY <1>1 DEF IsTrack
<1> QED BY <1>2

(* A track begins at its first byte, with no status yet.                   *)
LEMMA FirstShape ==
  ASSUME NEW t \in Tracks, NEW i \in 1..Len(t.ev)
  PROVE  t.at[1] = 0 /\ t.ctx[1] = 0 /\ 1 \in 1..Len(t.ev)
<1>1. IsTrack(t, BufferSize)
  BY TracksAssumption
<1>2. Len(t.ev) \in Nat \ {0} /\ t.at[1] = 0 /\ t.ctx[1] = 0
  BY <1>1 DEF IsTrack
<1> QED BY <1>2

(* The layout again, of the track in the unit and in terms of Body.        *)
LEMMA BodyLayout ==
  ASSUME track \in Tracks, NEW i \in 1..Len(track.ev)
  PROVE  LET bytes == track.ev[i].bytes
         IN  /\ Body(i) \in Nat
             /\ track.at[i] \in Nat
             /\ track.at[i] < Body(i)
             /\ bytes \in Seq(Byte) /\ Len(bytes) \in Nat \ {0}
             /\ 1 \in 1..Len(bytes)
             /\ track.at[i + 1] = Body(i) + Len(bytes)
             /\ Body(i) < track.at[i + 1]
             /\ track.at[i + 1] \in Nat
             /\ \A k \in 1..Len(bytes) : track.image[Body(i) + k - 1] = bytes[k]
<1> DEFINE b == track.at[i]
           d == DeltaLen(track.image, b)
           bytes == track.ev[i].bytes
           n == Len(bytes)
<1>1. /\ b \in Nat /\ d \in 1..4
      /\ bytes \in Seq(Byte) /\ n \in Nat \ {0}
      /\ track.at[i + 1] = b + d + n
  BY EventLayout
<1>2. \A k \in 1..n : track.image[b + d + k - 1] = bytes[k]
  BY EventLayout, Zenon
<1>3. Body(i) = b + d
  BY DEF Body
<1>4. /\ b + d \in Nat /\ b < b + d /\ b + d < b + d + n
      /\ 1 \in 1..n /\ b + d + n \in Nat
  <2> HIDE DEF b, d, n
  <2> QED BY <1>1
<1>5. \A k \in 1..n : track.image[Body(i) + k - 1] = bytes[k]
  BY <1>2, <1>3
<1> HIDE DEF b, d, n, bytes
<1>6. /\ Body(i) \in Nat /\ b \in Nat /\ b < Body(i)
      /\ bytes \in Seq(Byte) /\ n \in Nat \ {0} /\ 1 \in 1..n
      /\ track.at[i + 1] = Body(i) + n
      /\ Body(i) < track.at[i + 1] /\ track.at[i + 1] \in Nat
  BY <1>1, <1>3, <1>4
<1> QED
  BY <1>5, <1>6 DEF b, n, bytes

(* What is read of an event in the buffer is what the track says of it:    *)
(* its delta-time, and its bytes.                                          *)
LEMMA EventInMem ==
  ASSUME track \in Tracks, NEW i \in 1..Len(track.ev), InMem(i)
  PROVE  /\ DeltaLen(mem, track.at[i]) = DeltaLen(track.image, track.at[i])
         /\ DeltaValue(mem, track.at[i]) = DeltaValue(track.image, track.at[i])
         /\ \A k \in 1..Len(track.ev[i].bytes) : mem[Body(i) + k - 1] = track.ev[i].bytes[k]
<1> DEFINE b == track.at[i]
           d == DeltaLen(track.image, b)
           c == track.at[i + 1]
           n == Len(track.ev[i].bytes)
<1>1. b \in Nat /\ d \in 1..4 /\ n \in Nat \ {0} /\ c = b + d + n
  BY EventLayout
<1>2. \A a \in b..c - 1 : mem[a] = track.image[a]
  BY DEF InMem
<1>3. \A k \in 0..d - 1 : mem[b + k] = track.image[b + k]
  <2> TAKE k \in 0..d - 1
  <2>1. b + k \in b..c - 1
    <3> HIDE DEF b, c, d, n
    <3> QED BY <1>1
  <2> QED BY <1>2, <2>1
<1>4. DeltaLen(mem, b) = d
  <2>0. b + 0 = b
    BY <1>1
  <2>1. mem[b] = track.image[b]
    BY <1>1, <1>3, <2>0
  <2>2. d > 1 => mem[b + 1] = track.image[b + 1]
    BY <1>1, <1>3
  <2>3. d > 2 => mem[b + 2] = track.image[b + 2]
    BY <1>1, <1>3
  <2> QED BY <2>1, <2>2, <2>3 DEF DeltaLen
<1>5. \A a \in 0..3 : Septet(mem, b, a) = Septet(track.image, b, a)
  <2> TAKE a \in 0..3
  <2>1. CASE a < d
    <3>1. d - 1 - a \in 0..d - 1 /\ b + (d - 1 - a) = b + d - 1 - a
      <4> HIDE DEF b, d
      <4> QED BY <1>1, <2>1
    <3>2. mem[b + d - 1 - a] = track.image[b + d - 1 - a]
      <4>1. mem[b + (d - 1 - a)] = track.image[b + (d - 1 - a)]
        <5> HIDE DEF b, d
        <5> QED BY <1>3, <3>1
      <4> QED BY <3>1, <4>1
    <3> QED BY <1>4, <2>1, <3>2 DEF Septet
  <2>2. CASE ~(a < d)
    BY <1>4, <2>2 DEF Septet
  <2> QED BY <2>1, <2>2
<1>6. DeltaValue(mem, b) = DeltaValue(track.image, b)
  <2>1. /\ Septet(mem, b, 0) = Septet(track.image, b, 0)
        /\ Septet(mem, b, 1) = Septet(track.image, b, 1)
        /\ Septet(mem, b, 2) = Septet(track.image, b, 2)
        /\ Septet(mem, b, 3) = Septet(track.image, b, 3)
    BY <1>5
  <2> QED BY <2>1, SMT DEF DeltaValue
<1>7. \A k \in 1..n : mem[b + d + k - 1] = track.ev[i].bytes[k]
  <2>0. \A k \in 1..n : track.image[b + d + k - 1] = track.ev[i].bytes[k]
    BY EventLayout, Zenon
  <2> TAKE k \in 1..n
  <2>1. b + d + k - 1 \in b..c - 1
    <3> HIDE DEF b, c, d, n
    <3> QED BY <1>1
  <2> QED BY <1>2, <2>0, <2>1
<1>8. Body(i) = b + d
  BY DEF Body
<1>9. \A k \in 1..n : mem[Body(i) + k - 1] = track.ev[i].bytes[k]
  BY <1>7, <1>8
<1> QED BY <1>4, <1>6, <1>9

(* What a turn of the player sees: the pointer behind the delta-time, and  *)
(* the status byte of event i, written or left out.                        *)
LEMMA TurnSees ==
  ASSUME TypeOK, NEW i \in 1..Len(track.ev), InMem(i), BetweenEvents(i)
  PROVE  /\ EventPtr = Body(i)
         /\ \A k \in 1..Len(track.ev[i].bytes) : mem[Body(i) + k - 1] = track.ev[i].bytes[k]
         /\ mem[Body(i)] = track.ev[i].bytes[1]
         /\ isRunningStatus => /\ previousStatus = track.ctx[i]
                               /\ previousStatus \in 128..239
                               /\ track.ev[i].kind = "running"
                               /\ StatusByte = previousStatus
         /\ ~isRunningStatus => StatusByte = track.ev[i].bytes[1]
<1>0. track \in Tracks
  BY DEF TypeOK
<1>1. EventPtr = Body(i)
  BY <1>0, EventInMem DEF EventPtr, Body, BetweenEvents
<1>2. \A k \in 1..Len(track.ev[i].bytes) : mem[Body(i) + k - 1] = track.ev[i].bytes[k]
  BY <1>0, EventInMem
<1>3. mem[Body(i)] = track.ev[i].bytes[1]
  <2>1. 1 \in 1..Len(track.ev[i].bytes) /\ Body(i) \in Nat
    BY <1>0, BodyLayout
  <2>2. Body(i) + 1 - 1 = Body(i)
    BY <2>1
  <2> QED BY <1>2, <2>1, <2>2
<1>4. ASSUME isRunningStatus
      PROVE  /\ previousStatus = track.ctx[i]
             /\ previousStatus \in 128..239
             /\ track.ev[i].kind = "running"
             /\ StatusByte = previousStatus
  <2>1. track.ev[i].kind = "running"
    BY <1>4 DEF BetweenEvents
  <2>2. track.ctx[i] \in 128..239
    BY <1>0, <2>1, RunningShape
  <2>3. previousStatus = track.ctx[i]
    <3>1. track.ctx[i] # 0
      BY <2>2, VoiceRange
    <3> QED BY <3>1 DEF BetweenEvents
  <2>4. previousStatus # 0 /\ previousStatus < 248
    BY <2>2, <2>3, VoiceRange
  <2> QED BY <1>4, <2>1, <2>2, <2>3, <2>4 DEF StatusByte
<1>5. ~isRunningStatus => StatusByte = track.ev[i].bytes[1]
  BY <1>1, <1>3 DEF StatusByte
<1> QED BY <1>1, <1>2, <1>3, <1>4, <1>5

-----------------------------------------------------------------------------
(***************************************************************************)
(* What a step of the loop makes of the player's being at event i, as      *)
(* long as the event is in the buffer when it is read: the player stays    *)
(* there, goes on to the next one with its message gone out, or is back at *)
(* the first one.  Nothing is said of the rest of the buffer, which may    *)
(* still be filling.                                                       *)
(***************************************************************************)
Stays(i) ==
  /\ Turn(i)'
  /\ heard' = heard
  /\ Begun' => Reads

Advances(i) ==
  /\ i + 1 \in 1..Len(track.ev)
  /\ Turn(i + 1)'
  /\ heard' = IF Sounds(track.ev[i]) THEN Append(heard, Message(track, i)) ELSE heard
  /\ ~Begun'

Restarts ==
  /\ 1 \in 1..Len(track.ev)
  /\ Turn(1)'
  /\ heard' = <<>>
  /\ ~Begun'

Outcome(i) ==
  /\ TypeOK' /\ WaitInv' /\ UNCHANGED dataVars
  /\ Stays(i) \/ Advances(i) \/ Restarts

(***************************************************************************)
(* The invariant holds at the beginning.                                   *)
(***************************************************************************)
LEMMA InitInv == Init => IInv
<1> SUFFICES ASSUME Init PROVE IInv
  OBVIOUS
<1> USE DEF Init, LoopInit
<1>1. track \in Tracks /\ IsTrack(track, BufferSize)
  BY TracksAssumption
<1>2. TypeOK
  <2>1. mem \in [0..BufferSize - 1 -> Byte]
    BY <1>1 DEF IsTrack
  <2>2. queue \in Seq(QueueItem) /\ Len(queue) <= QueueLength
    BY QueueAssumption
  <2>3. heard \in Seq(Seq(Byte))
    OBVIOUS
  <2>4. /\ previousStatus \in {0} \cup 128..239 /\ rxStatus \in {0} \cup 128..239
        /\ alarm \in Nat /\ playbackPtr \in Nat /\ currentDeltaTime \in Nat
        /\ totalDataLength \in Nat /\ bytesToSend \in 0..255
    OBVIOUS
  <2>5. /\ isPlayingBack \in BOOLEAN /\ waitingForDeltaTimer \in BOOLEAN
        /\ deltaTimerFired \in BOOLEAN /\ isRunningStatus \in BOOLEAN
        /\ pc \in {"receive", "service", "arm", "start", "send"}
    OBVIOUS
  <2> HIDE DEF Init, LoopInit
  <2> QED BY <1>1, <2>1, <2>2, <2>3, <2>4, <2>5 DEF TypeOK
<1>3. 1 \in 1..Len(track.ev) /\ track.at[1] = 0 /\ track.ctx[1] = 0
  <2>1. Len(track.ev) \in Nat \ {0} /\ track.at[1] = 0 /\ track.ctx[1] = 0
    BY <1>1 DEF IsTrack
  <2> QED BY <2>1
<1>4. Turn(1)
  BY <1>3 DEF Turn, BetweenEvents
<1>5. WaitInv
  BY DEF WaitInv, NoLostWakeup
<1> QED BY <1>2, <1>3, <1>4, <1>5 DEF IInv

(***************************************************************************)
(* Steps that leave the player where it is.                                *)
(***************************************************************************)
LEMMA ReceiveNothingStep ==
  ASSUME TypeOK, WaitInv, NEW i \in 1..Len(track.ev), Turn(i), ReceiveNothing
  PROVE  Outcome(i)
<1> USE DEF ReceiveNothing, dataVars, timerVars, playerVars, wireVars
<1>2. TypeOK'
  BY DEF TypeOK
<1>3. Turn(i)'
  BY DEF Turn, BetweenEvents, Body
<1>4. WaitInv'
  BY DEF WaitInv, NoLostWakeup
<1>5. heard' = heard /\ (Begun' => Reads)
  BY DEF Begun, Reads
<1> QED BY <1>2, <1>3, <1>4, <1>5 DEF Outcome, Stays

LEMMA NotDueStep ==
  ASSUME TypeOK, WaitInv, NEW i \in 1..Len(track.ev), Turn(i), NotDue
  PROVE  Outcome(i)
<1> USE DEF NotDue, dataVars, timerVars, playerVars, wireVars
<1>2. TypeOK'
  BY DEF TypeOK
<1>3. Turn(i)'
  BY DEF Turn, BetweenEvents, Body
<1>4. WaitInv'
  BY DEF WaitInv, NoLostWakeup
<1>5. heard' = heard /\ (Begun' => Reads)
  BY DEF Begun, Reads
<1> QED BY <1>2, <1>3, <1>4, <1>5 DEF Outcome, Stays

LEMMA ItemTypes ==
  ASSUME queue \in Seq(QueueItem), queue # <<>>
  PROVE  /\ Head(queue).opcode \in Byte
         /\ Head(queue).dataLength \in Nat
         /\ Tail(queue) \in Seq(QueueItem)
         /\ Len(Tail(queue)) = Len(queue) - 1
         /\ Len(queue) \in Nat
<1>1. Head(queue) \in QueueItem /\ Tail(queue) \in Seq(QueueItem) /\ Len(queue) \in Nat
  BY SMT
<1>2. Len(Tail(queue)) = Len(queue) - 1
  BY SMT
<1>3. Head(queue).opcode \in Byte /\ Head(queue).dataLength \in Nat
  <2>1. Head(queue).opcode \in Byte /\ Head(queue).dataLength \in UInt16
    BY <1>1 DEF QueueItem
  <2> QED BY <2>1, WordIsNat
<1> QED BY <1>1, <1>2, <1>3

LEMMA ReceiveCommandStep ==
  ASSUME TypeOK, WaitInv, NEW i \in 1..Len(track.ev), Turn(i), ReceiveCommand
  PROVE  Outcome(i)
<1> USE DEF ReceiveCommand, dataVars, timerVars, playerVars, wireVars
<1>2. TypeOK'
  <2>1. TypeOK
    OBVIOUS
  <2>2. /\ Head(queue).dataLength \in Nat
        /\ Tail(queue) \in Seq(QueueItem)
        /\ Len(Tail(queue)) = Len(queue) - 1
        /\ Len(queue) \in Nat
    BY <2>1, ItemTypes DEF TypeOK
  <2>3. queue' \in Seq(QueueItem) /\ Len(queue') <= QueueLength
    BY <2>1, <2>2, QueueAssumption DEF TypeOK
  <2>4. totalDataLength' \in Nat
    BY <2>1, <2>2 DEF TypeOK, TotalAfter
  <2>5. isPlayingBack' \in BOOLEAN /\ waitingForDeltaTimer' \in BOOLEAN
    BY DEF PlayingAfter
  <2> QED BY <2>1, <2>3, <2>4, <2>5 DEF TypeOK
<1>3. Turn(i)'
  BY DEF Turn, BetweenEvents, Body
<1>4. WaitInv'
  BY DEF WaitInv, NoLostWakeup
<1>5. heard' = heard /\ (Begun' => Reads)
  BY DEF Begun, Reads
<1> QED BY <1>2, <1>3, <1>4, <1>5 DEF Outcome, Stays

LEMMA ArmWaitStep ==
  ASSUME TypeOK, WaitInv, NEW i \in 1..Len(track.ev), Turn(i), ArmWait
  PROVE  Outcome(i)
<1> USE DEF ArmWait, dataVars, playerVars, wireVars
<1>2. TypeOK'
  BY DEF TypeOK
<1>3. Turn(i)'
  BY DEF Turn, WithinEvent, Body
<1>4. WaitInv'
  BY DEF WaitInv, NoLostWakeup
<1>5. heard' = heard /\ (Begun' => Reads)
  BY DEF Begun, Reads
<1> QED BY <1>2, <1>3, <1>4, <1>5 DEF Outcome, Stays

LEMMA StartTimerStep ==
  ASSUME TypeOK, WaitInv, NEW i \in 1..Len(track.ev), Turn(i), StartTimer
  PROVE  Outcome(i)
<1> USE DEF StartTimer, dataVars, playerVars, wireVars
<1>2. TypeOK'
  BY DEF TypeOK
<1>3. Turn(i)'
  BY DEF Turn, WithinEvent, Body
<1>4. WaitInv'
  <2>1. currentDeltaTime \in Nat /\ currentDeltaTime # 0
    BY DEF TypeOK, WaitInv
  <2>2. alarm' > 0
    BY <2>1
  <2> QED BY <2>2 DEF WaitInv, NoLostWakeup
<1>5. heard' = heard /\ (Begun' => Reads)
  BY DEF Begun, Reads
<1> QED BY <1>2, <1>3, <1>4, <1>5 DEF Outcome, Stays

(* The interrupt and the client touch nothing the player's turn is about.  *)
LEMMA TurnKept ==
  ASSUME NEW i \in 1..Len(track.ev), Turn(i),
         UNCHANGED <<track, pc, isPlayingBack, playerVars, rxStatus>>
  PROVE  Turn(i)' /\ (Begun' <=> Begun)
  BY DEF Turn, BetweenEvents, WithinEvent, Body, Begun, playerVars

LEMMA TimerTickTypes ==
  ASSUME TypeOK, WaitInv, TimerTick
  PROVE  TypeOK' /\ WaitInv'
<1> USE DEF TimerTick, dataVars, loopVars, playerVars, wireVars
<1>0. alarm \in Nat /\ alarm > 0
  BY DEF TypeOK
<1>2. TypeOK'
  <2>1. alarm' \in Nat /\ deltaTimerFired' \in BOOLEAN
    BY <1>0
  <2> QED BY <2>1 DEF TypeOK
<1>4. WaitInv'
  <2>1. alarm' > 0 \/ deltaTimerFired'
    <3>1. CASE alarm = 1
      BY <3>1
    <3>2. CASE alarm # 1
      BY <1>0, <3>2
    <3> QED BY <3>1, <3>2
  <2> QED BY <2>1 DEF WaitInv, NoLostWakeup
<1> QED BY <1>2, <1>4

LEMMA ClientTypes ==
  ASSUME TypeOK, WaitInv, Client
  PROVE  TypeOK' /\ WaitInv'
<1> USE DEF Client, dataVars, timerVars, playerVars, wireVars
<1>2. TypeOK'
  <2>1. PICK op \in Commands, n \in DataLengths :
          queue' = Append(queue, [opcode |-> op, dataLength |-> n])
    BY SMT
  <2>2. [opcode |-> op, dataLength |-> n] \in QueueItem
    <3>1. op \in Byte /\ n \in UInt16
      BY CommandsAssumption, LengthsAssumption
    <3> QED BY <3>1 DEF QueueItem
  <2>3. queue \in Seq(QueueItem) /\ Len(queue) \in Nat /\ QueueLength \in Nat
    BY QueueAssumption DEF TypeOK
  <2>4. queue' \in Seq(QueueItem) /\ Len(queue') = Len(queue) + 1
    BY <2>1, <2>2, <2>3
  <2>5. Len(queue') <= QueueLength
    BY <2>3, <2>4
  <2> QED BY <2>4, <2>5 DEF TypeOK
<1>4. WaitInv'
  BY DEF WaitInv, NoLostWakeup
<1> QED BY <1>2, <1>4

(***************************************************************************)
(* The turns of the player.                                                *)
(***************************************************************************)
LEMMA FetchDeltaType ==
  ASSUME TypeOK, NEW i \in 1..Len(track.ev), InMem(i), BetweenEvents(i), FetchDelta
  PROVE  currentDeltaTime' \in Nat
<1>1. CASE isRunningStatus
  BY <1>1 DEF FetchDelta, TypeOK
<1>2. CASE ~isRunningStatus
  <2>1. playbackPtr = track.at[i] /\ track \in Tracks
    BY <1>2 DEF BetweenEvents, TypeOK
  <2>2. DeltaValue(mem, playbackPtr) \in Nat
    BY <2>1, DeltaValueNat, EventInMem
  <2> QED BY <1>2, <2>2 DEF FetchDelta
<1> QED BY <1>1, <1>2

(* A meta turn ends at the next event, or at the first one if it was the   *)
(* end of the track.                                                       *)
LEMMA MetaTurn ==
  ASSUME TypeOK, NEW i \in 1..Len(track.ev), InMem(i), BetweenEvents(i), PlayMeta
  PROVE  /\ ~isRunningStatus
         /\ \/ /\ track.ev[i].kind = "meta"
               /\ playbackPtr' = track.at[i + 1]
               /\ UNCHANGED <<isPlayingBack, heard>>
            \/ /\ track.ev[i].kind = "end"
               /\ playbackPtr' = 0
               /\ isPlayingBack' = FALSE
               /\ heard' = <<>>
<1> DEFINE bytes == track.ev[i].bytes
           n == Len(bytes)
           p == Body(i)
<1>0. track \in Tracks /\ StatusByte = 255
  BY DEF TypeOK, PlayMeta
<1>1. ~isRunningStatus
  <2> SUFFICES ASSUME isRunningStatus PROVE FALSE
    OBVIOUS
  <2>1. previousStatus \in 128..239 /\ StatusByte = previousStatus
    BY TurnSees
  <2> QED BY <1>0, <2>1, VoiceRange
<1>2. EventPtr = p /\ bytes[1] = 255
  BY <1>0, <1>1, TurnSees
<1>3. track.ev[i].kind \in {"meta", "end"}
  <2>1. track.ev[i].kind # "voice"
    <3>1. track.ev[i].kind = "voice" => track.ev[i].bytes[1] \in 128..239
      BY <1>0, VoiceShape
    <3>2. 255 \notin 128..239
      OBVIOUS
    <3> QED BY <1>2, <3>1, <3>2
  <2>2. track.ev[i].kind # "running"
    <3>1. ~(255 < 128)
      OBVIOUS
    <3> QED BY <1>0, <1>2, <3>1, RunningShape
  <2> QED BY <1>0, <2>1, <2>2, KindShape
<1>4. /\ p \in Nat /\ n \in Nat \ {0} /\ bytes \in Seq(Byte)
      /\ track.at[i + 1] = p + n
  BY <1>0, BodyLayout
<1>5. \A k \in 1..n : mem[p + k - 1] = bytes[k]
  BY TurnSees
<1>6. n > 2
  <2>1. CASE track.ev[i].kind = "meta"
    BY <1>0, <2>1, MetaShape
  <2>2. CASE track.ev[i].kind = "end"
    <3>1. bytes = <<255, EndOfTrack, 0>>
      BY <1>0, <2>2, EndShape
    <3> QED BY <3>1
  <2> QED BY <1>3, <2>1, <2>2
<1>7. mem[p + 1] = bytes[2] /\ mem[p + 1 + 1] = bytes[3] /\ bytes[3] \in Byte
  <2>1. /\ 2 \in 1..n /\ 3 \in 1..n
        /\ p + 2 - 1 = p + 1 /\ p + 3 - 1 = p + 1 + 1
    <3> HIDE DEF n, p
    <3> QED BY <1>4, <1>6
  <2>2. mem[p + 2 - 1] = bytes[2] /\ mem[p + 3 - 1] = bytes[3]
    <3> HIDE DEF n, p, bytes
    <3> QED BY <1>5, <2>1
  <2>3. bytes[3] \in Byte
    <3>1. 3 \in 1..Len(bytes)
      BY <2>1 DEF n
    <3> HIDE DEF bytes, n, p
    <3> QED BY <1>4, <3>1
  <2> QED BY <2>1, <2>2, <2>3
<1>8. CASE track.ev[i].kind = "meta"
  <2>1. bytes[2] \in SkippedMeta /\ bytes[2] # EndOfTrack /\ n = 3 + bytes[3]
    BY <1>0, <1>8, MetaShape
  <2>2. playbackPtr' = AfterMeta(mem, p + 1) /\ UNCHANGED <<isPlayingBack, heard>>
    BY <1>1, <1>2, <1>7, <2>1 DEF PlayMeta
  <2>3. AfterMeta(mem, p + 1) = p + 1 + 2 + bytes[3]
    BY <1>7, <2>1 DEF AfterMeta
  <2>4. p + 1 + 2 + bytes[3] = p + n
    <3> DEFINE x == bytes[3]
    <3>1. x \in 0..255
      BY <1>7 DEF Byte
    <3>2. n = 3 + x
      BY <2>1
    <3>3. p + 1 + 2 + x = p + n
      <4> HIDE DEF n, p, x
      <4> QED BY <1>4, <3>1, <3>2
    <3> QED BY <3>3
  <2> QED BY <1>1, <1>4, <1>8, <2>2, <2>3, <2>4
<1>9. CASE track.ev[i].kind = "end"
  <2>1. bytes[2] = EndOfTrack
    <3>1. bytes = <<255, EndOfTrack, 0>>
      BY <1>0, <1>9, EndShape
    <3> QED BY <3>1
  <2> QED BY <1>1, <1>2, <1>7, <1>9, <2>1 DEF PlayMeta
<1> QED BY <1>3, <1>8, <1>9

LEMMA PlayMetaStep ==
  ASSUME TypeOK, WaitInv, NEW i \in 1..Len(track.ev), InMem(i), Turn(i), PlayMeta
  PROVE  Outcome(i)
<1>0. track \in Tracks /\ pc = "service"
  BY DEF TypeOK, PlayMeta
<1>2. BetweenEvents(i)
  BY <1>0 DEF Turn
<1>3. /\ UNCHANGED <<track, mem, queue, totalDataLength, alarm, previousStatus,
                     bytesToSend, rxStatus>>
      /\ isRunningStatus' = FALSE /\ pc' = "receive"
      /\ waitingForDeltaTimer' = FALSE /\ deltaTimerFired' \in BOOLEAN
      /\ FetchDelta
  BY DEF PlayMeta, WakeUp, dataVars
<1>4. CASE track.ev[i].kind = "meta"
  <2>1. playbackPtr' = track.at[i + 1] /\ UNCHANGED <<isPlayingBack, heard>>
    BY <1>0, <1>2, <1>4, MetaTurn
  <2>2. i + 1 \in 1..Len(track.ev) /\ track.at[i + 1] \in Nat
    BY <1>0, <1>4, NextShape, BodyLayout
  <2>3. track.ctx[i + 1] = track.ctx[i]
    BY <1>0, <1>4, EventLayout
  <2>4. TypeOK'
    BY <1>0, <1>2, <1>3, <2>1, <2>2, FetchDeltaType DEF TypeOK
  <2>5. Turn(i + 1)'
    BY <1>2, <1>3, <2>1, <2>3 DEF Turn, BetweenEvents
  <2>6. WaitInv'
    BY <1>3 DEF WaitInv, NoLostWakeup
  <2>7. heard' = heard /\ ~Sounds(track.ev[i]) /\ ~Begun'
    BY <1>3, <1>4, <2>1 DEF Sounds, Begun
  <2>8. Advances(i)
    BY <2>2, <2>5, <2>7 DEF Advances
  <2> QED BY <1>3, <2>4, <2>6, <2>8 DEF Outcome, dataVars
<1>5. CASE track.ev[i].kind = "end"
  <2>1. playbackPtr' = 0 /\ isPlayingBack' = FALSE /\ heard' = <<>>
    BY <1>0, <1>2, <1>5, MetaTurn
  <2>2. track.at[1] = 0 /\ track.ctx[1] = 0 /\ 1 \in 1..Len(track.ev)
    BY <1>0, FirstShape
  <2>3. heard' \in Seq(Seq(Byte)) /\ playbackPtr' \in Nat
    BY <2>1
  <2>4. TypeOK'
    BY <1>0, <1>2, <1>3, <2>1, <2>3, FetchDeltaType DEF TypeOK
  <2>5. Turn(1)'
    BY <1>2, <1>3, <2>1, <2>2 DEF Turn, BetweenEvents
  <2>6. WaitInv'
    BY <1>3 DEF WaitInv, NoLostWakeup
  <2>7. Restarts
    BY <1>3, <2>1, <2>2, <2>5 DEF Restarts, Begun
  <2> QED BY <1>3, <2>4, <2>6, <2>7 DEF Outcome, dataVars
<1> QED BY <1>0, <1>2, <1>4, <1>5, MetaTurn

(* Which status bytes which kinds of event show to a turn.                 *)
LEMMA VoiceTurn ==
  ASSUME TypeOK, NEW i \in 1..Len(track.ev), InMem(i), BetweenEvents(i),
         IsVoice(StatusByte)
  PROVE  /\ StatusByte = track.ctx[i + 1]
         /\ StatusByte \in 128..239
         /\ isRunningStatus <=> track.ev[i].kind = "running"
         /\ track.ev[i].kind \in {"voice", "running"}
         /\ isRunningStatus => StatusByte = previousStatus
<1>0. track \in Tracks /\ StatusByte \in 128..239
  BY DEF TypeOK, IsVoice
<1>1. track.ctx[i + 1] = IF track.ev[i].kind = "voice" THEN track.ev[i].bytes[1]
                                                       ELSE track.ctx[i]
  BY <1>0, EventLayout
<1>2. CASE isRunningStatus
  <2>1. /\ track.ev[i].kind = "running" /\ previousStatus = track.ctx[i]
        /\ StatusByte = previousStatus
    BY <1>2, TurnSees
  <2> QED BY <1>0, <1>1, <1>2, <2>1
<1>3. CASE ~isRunningStatus
  <2>1. StatusByte = track.ev[i].bytes[1]
    BY <1>3, TurnSees
  <2>2. StatusByte # 255 /\ ~(StatusByte < 128)
    BY <1>0
  <2>3. track.ev[i].kind = "voice"
    <3>1. track.ev[i].kind = "running" => track.ev[i].bytes[1] < 128
      BY <1>0, RunningShape
    <3>2. track.ev[i].kind = "meta" => track.ev[i].bytes[1] = 255
      BY <1>0, MetaShape
    <3>3. track.ev[i].kind = "end" => track.ev[i].bytes = <<255, EndOfTrack, 0>>
      BY <1>0, EndShape
    <3>4. track.ev[i].kind \in {"voice", "running", "meta", "end"}
      BY <1>0, KindShape
    <3> QED BY <2>1, <2>2, <3>1, <3>2, <3>3, <3>4
  <2> QED BY <1>0, <1>1, <1>3, <2>1, <2>3
<1> QED BY <1>2, <1>3

LEMMA PlayVoiceStep ==
  ASSUME TypeOK, WaitInv, NEW i \in 1..Len(track.ev), InMem(i), Turn(i), PlayVoice
  PROVE  Outcome(i)
<1>0. /\ track \in Tracks /\ pc = "service" /\ Due
      /\ isPlayingBack /\ IsVoice(StatusByte)
  BY DEF TypeOK, PlayVoice, Due
<1>2. BetweenEvents(i)
  BY <1>0 DEF Turn
<1>3. /\ UNCHANGED <<track, mem, queue, totalDataLength, isPlayingBack, alarm,
                     isRunningStatus, rxStatus, heard>>
      /\ waitingForDeltaTimer' = FALSE /\ deltaTimerFired' \in BOOLEAN
      /\ FetchDelta
      /\ playbackPtr' = EventPtr
      /\ previousStatus' = StatusByte
      /\ pc' = IF currentDeltaTime' # 0 /\ ~isRunningStatus THEN "arm" ELSE "send"
  BY DEF PlayVoice, WakeUp, RememberStatus, dataVars, wireVars
<1>4. bytesToSend' = MessageBytes(SubType(previousStatus'))
  <2>1. isRunningStatus => StatusByte = previousStatus
    BY <1>0, <1>2, TurnSees
  <2>2. bytesToSend' = MessageBytes(SubType(IF isRunningStatus THEN previousStatus
                                                               ELSE StatusByte))
    BY DEF PlayVoice
  <2>3. (IF isRunningStatus THEN previousStatus ELSE StatusByte) = previousStatus'
    BY <1>3, <2>1
  <2> QED BY <2>2, <2>3
<1>5. TypeOK'
  <2>1. playbackPtr' \in Nat
    BY <1>0, <1>2, <1>3, TurnSees, BodyLayout
  <2>2. previousStatus' \in {0} \cup 128..239
    BY <1>0, <1>2, <1>3, VoiceTurn
  <2>3. bytesToSend' \in 0..255
    BY <1>4 DEF MessageBytes
  <2>4. currentDeltaTime' \in Nat
    BY <1>0, <1>2, <1>3, FetchDeltaType
  <2>5. pc' \in {"receive", "service", "arm", "start", "send"}
    BY <1>3
  <2> QED BY <1>0, <1>3, <2>1, <2>2, <2>3, <2>4, <2>5 DEF TypeOK
<1>6. Turn(i)'
  <2>1. WithinEvent(i)'
    <3>1. playbackPtr' = Body(i)'
      BY <1>0, <1>2, <1>3, TurnSees DEF Body
    <3>2. Sounds(track'.ev[i]) /\ (isRunningStatus' <=> track'.ev[i].kind = "running")
      BY <1>0, <1>2, <1>3, VoiceTurn DEF Sounds
    <3>3. previousStatus' = track'.ctx[i + 1]
      BY <1>0, <1>2, <1>3, VoiceTurn
    <3>4. isRunningStatus' => rxStatus' = previousStatus'
      <4>1. isRunningStatus => StatusByte = previousStatus
        BY <1>0, <1>2, TurnSees
      <4>2. rxStatus = previousStatus
        BY <1>2 DEF BetweenEvents
      <4> QED BY <1>3, <4>1, <4>2
    <3> QED BY <1>0, <1>3, <1>4, <3>1, <3>2, <3>3, <3>4 DEF WithinEvent
  <2>2. pc' \notin {"receive", "service"}
    BY <1>3
  <2> QED BY <2>1, <2>2 DEF Turn
<1>7. WaitInv'
  BY <1>3 DEF WaitInv, NoLostWakeup
<1>8. Stays(i)
  BY <1>0, <1>3, <1>6 DEF Stays, Reads
<1> QED BY <1>3, <1>5, <1>7, <1>8 DEF Outcome, dataVars

LEMMA RunningTurn ==
  ASSUME TypeOK, NEW i \in 1..Len(track.ev), InMem(i), BetweenEvents(i),
         StatusByte # 255, ~IsVoice(StatusByte)
  PROVE  ~isRunningStatus /\ track.ev[i].kind = "running"
<1>0. track \in Tracks
  BY DEF TypeOK
<1>1. ~isRunningStatus
  <2> SUFFICES ASSUME isRunningStatus PROVE FALSE
    OBVIOUS
  <2>1. previousStatus \in 128..239 /\ StatusByte = previousStatus
    BY TurnSees
  <2> QED BY <2>1 DEF IsVoice
<1>2. StatusByte = track.ev[i].bytes[1]
  BY <1>1, TurnSees
<1>3. track.ev[i].kind # "voice"
  <2>1. track.ev[i].kind = "voice" => track.ev[i].bytes[1] \in 128..239
    BY <1>0, VoiceShape
  <2> QED BY <1>2, <2>1, VoiceRange
<1>4. track.ev[i].kind # "meta"
  <2>1. track.ev[i].kind = "meta" => track.ev[i].bytes[1] = 255
    BY <1>0, MetaShape
  <2> QED BY <1>2, <2>1
<1>5. track.ev[i].kind # "end"
  <2>1. track.ev[i].kind = "end" => track.ev[i].bytes = <<255, EndOfTrack, 0>>
    BY <1>0, EndShape
  <2> QED BY <1>2, <2>1
<1> QED BY <1>0, <1>1, <1>3, <1>4, <1>5, KindShape

LEMMA FindRunningStatusStep ==
  ASSUME TypeOK, WaitInv, NEW i \in 1..Len(track.ev), InMem(i), Turn(i), FindRunningStatus
  PROVE  Outcome(i)
<1>0. /\ track \in Tracks /\ pc = "service" /\ Due
      /\ StatusByte # 255 /\ ~IsVoice(StatusByte)
  BY DEF TypeOK, FindRunningStatus
<1>2. BetweenEvents(i)
  BY <1>0 DEF Turn
<1>3. /\ UNCHANGED <<track, mem, queue, totalDataLength, isPlayingBack, alarm,
                     previousStatus, bytesToSend, rxStatus, heard>>
      /\ waitingForDeltaTimer' = FALSE /\ deltaTimerFired' \in BOOLEAN
      /\ FetchDelta
      /\ playbackPtr' = EventPtr /\ isRunningStatus' = TRUE /\ pc' = "receive"
  BY DEF FindRunningStatus, WakeUp, dataVars, wireVars
<1>4. track.ev[i].kind = "running"
  BY <1>0, <1>2, RunningTurn
<1>5. playbackPtr' = Body(i) /\ Body(i) \in Nat
  BY <1>0, <1>2, <1>3, TurnSees, BodyLayout
<1>6. currentDeltaTime' \in Nat
  BY <1>0, <1>2, <1>3, FetchDeltaType
<1>7. TypeOK'
  BY <1>0, <1>3, <1>5, <1>6 DEF TypeOK
<1>8. Turn(i)'
  BY <1>2, <1>3, <1>4, <1>5 DEF Turn, BetweenEvents, Body
<1>9. WaitInv'
  BY <1>3 DEF WaitInv, NoLostWakeup
<1>10. Stays(i)
  BY <1>0, <1>3, <1>8 DEF Stays, Reads
<1> QED BY <1>3, <1>7, <1>9, <1>10 DEF Outcome, dataVars

(* What goes out on the wire is the message of the event, without its      *)
(* status byte if the event leaves it out.                                 *)
LEMMA SendsMessage ==
  ASSUME TypeOK, NEW i \in 1..Len(track.ev), InMem(i), WithinEvent(i), SendMessage
  PROVE  /\ playbackPtr' = track.at[i + 1]
         /\ bytesToSend' \in 0..255
         /\ rxStatus' = previousStatus
         /\ heard' = Append(heard, Message(track, i))
         /\ Message(track, i) \in Seq(Byte)
<1> DEFINE bytes == track.ev[i].bytes
           n == Len(bytes)
           sent == [k \in 1..SendCount |-> mem[playbackPtr + k - 1]]
<1>0. track \in Tracks /\ track.ev[i].kind \in {"voice", "running"}
  BY DEF TypeOK, WithinEvent, Sounds
<1>1. /\ Body(i) \in Nat /\ bytes \in Seq(Byte) /\ n \in Nat \ {0} /\ 1 \in 1..n
      /\ track.at[i + 1] = Body(i) + n
      /\ \A k \in 1..n : mem[Body(i) + k - 1] = bytes[k]
  BY <1>0, BodyLayout, EventInMem
<1>2. /\ playbackPtr = Body(i)
      /\ isRunningStatus <=> track.ev[i].kind = "running"
      /\ previousStatus = track.ctx[i + 1]
      /\ bytesToSend = MessageBytes(SubType(previousStatus))
      /\ isRunningStatus => rxStatus = previousStatus
  BY DEF WithinEvent
<1>3. track.ctx[i + 1] = IF track.ev[i].kind = "voice" THEN bytes[1] ELSE track.ctx[i]
  BY <1>0, EventLayout
<1>4. SendCount = n /\ n \in 0..255
  <2>1. bytesToSend \in {0, 2, 3}
    BY <1>2 DEF MessageBytes
  <2>2. CASE track.ev[i].kind = "voice"
    <3>1. n = bytesToSend
      <4>1. n = MessageBytes(SubType(bytes[1]))
        BY <1>0, <2>2, VoiceShape
      <4> QED BY <1>2, <1>3, <2>2, <4>1
    <3> QED BY <1>2, <2>1, <2>2, <3>1 DEF SendCount
  <2>3. CASE track.ev[i].kind = "running"
    <3>1. n = bytesToSend - 1
      <4>1. n = MessageBytes(SubType(track.ctx[i])) - 1
        BY <1>0, <2>3, RunningShape
      <4>2. previousStatus = track.ctx[i]
        BY <1>2, <1>3, <2>3
      <4> QED BY <1>2, <4>1, <4>2
    <3>2. bytesToSend \in {2, 3}
      <4> HIDE DEF n
      <4> QED BY <1>1, <2>1, <3>1
    <3>3. (bytesToSend + 255) % 256 = bytesToSend - 1
      BY <3>2
    <3>4. SendCount = n
      BY <1>2, <2>3, <3>1, <3>3 DEF SendCount
    <3>5. bytesToSend - 1 \in 0..255
      BY <3>2
    <3> QED BY <3>1, <3>4, <3>5
  <2> QED BY <1>0, <2>2, <2>3
<1>5. sent = bytes
  <2>1. sent = [k \in 1..n |-> bytes[k]]
    BY <1>1, <1>2, <1>4
  <2>2. bytes \in [1..n -> Byte]
    BY <1>1, LenProperties
  <2>3. bytes = [k \in 1..n |-> bytes[k]]
    BY <2>2
  <2> QED BY <2>1, <2>3
<1>6. Wire(bytes) /\ playbackPtr' = playbackPtr + SendCount /\ bytesToSend' = SendCount
  BY <1>5 DEF SendMessage
<1>7. bytes # <<>> /\ bytes[1] \in Byte
  BY <1>1
<1>8. CASE track.ev[i].kind = "voice"
  <2>1. bytes[1] \in 128..239
    BY <1>0, <1>8, VoiceShape
  <2>2. bytes[1] >= 128
    BY <2>1, VoiceRange
  <2>3. rxStatus' = bytes[1] /\ heard' = Append(heard, bytes)
    BY <1>6, <1>7, <2>2 DEF Wire
  <2>4. Message(track, i) = bytes
    BY <1>8 DEF Message
  <2> QED BY <1>1, <1>2, <1>3, <1>4, <1>6, <1>8, <2>3, <2>4
<1>9. CASE track.ev[i].kind = "running"
  <2>1. bytes[1] < 128
    BY <1>0, <1>9, RunningShape
  <2>2. ~(bytes[1] >= 128)
    <3> DEFINE x == bytes[1]
    <3>1. x \in 0..255 /\ x < 128
      BY <1>7, <2>1 DEF Byte
    <3>2. ~(x >= 128)
      <4> HIDE DEF x
      <4> QED BY <3>1
    <3> QED BY <3>2
  <2>3. UNCHANGED rxStatus /\ heard' = Append(heard, <<rxStatus>> \o bytes)
    BY <1>6, <1>7, <2>2 DEF Wire
  <2>4. rxStatus = previousStatus /\ previousStatus = track.ctx[i]
    BY <1>2, <1>3, <1>9
  <2>5. Message(track, i) = <<rxStatus>> \o bytes
    BY <1>9, <2>4 DEF Message
  <2>6. <<rxStatus>> \o bytes \in Seq(Byte)
    <3>1. rxStatus \in Byte
      BY <1>0, <2>4, EventLayout
    <3> QED BY <1>1, <3>1
  <2> QED BY <1>1, <1>2, <1>4, <1>6, <2>3, <2>4, <2>5, <2>6
<1> QED BY <1>0, <1>8, <1>9

LEMMA SendMessageStep ==
  ASSUME TypeOK, WaitInv, NEW i \in 1..Len(track.ev), InMem(i), Turn(i), SendMessage
  PROVE  Outcome(i)
<1>0. track \in Tracks /\ pc = "send"
  BY DEF TypeOK, SendMessage
<1>2. WithinEvent(i)
  BY <1>0 DEF Turn
<1>3. /\ UNCHANGED <<track, mem, queue, totalDataLength, isPlayingBack,
                     waitingForDeltaTimer, deltaTimerFired, alarm,
                     currentDeltaTime, previousStatus>>
      /\ isRunningStatus' = FALSE /\ pc' = "receive"
  BY DEF SendMessage, dataVars, timerVars
<1>4. /\ playbackPtr' = track.at[i + 1] /\ bytesToSend' \in 0..255
      /\ rxStatus' = previousStatus
      /\ heard' = Append(heard, Message(track, i))
      /\ Message(track, i) \in Seq(Byte)
  BY <1>0, <1>2, SendsMessage
<1>5. i + 1 \in 1..Len(track.ev) /\ track.at[i + 1] \in Nat
  <2>1. track.ev[i].kind # "end"
    BY <1>2 DEF WithinEvent, Sounds
  <2> QED BY <1>0, <2>1, NextShape, BodyLayout
<1>6. TypeOK'
  <2>1. heard' \in Seq(Seq(Byte))
    BY <1>0, <1>4 DEF TypeOK
  <2>2. rxStatus' \in {0} \cup 128..239
    BY <1>0, <1>4 DEF TypeOK
  <2>3. playbackPtr' \in Nat /\ bytesToSend' \in 0..255
    BY <1>4, <1>5
  <2>4. /\ queue' \in Seq(QueueItem) /\ Len(queue') <= QueueLength
        /\ mem' \in [0..BufferSize - 1 -> Byte]
    BY <1>3 DEF TypeOK
  <2>5. UNCHANGED <<track, mem, queue, totalDataLength, isPlayingBack,
                    waitingForDeltaTimer, deltaTimerFired, alarm,
                    currentDeltaTime, previousStatus>>
    BY <1>3
  <2>6. isRunningStatus' \in BOOLEAN /\ pc' = "receive"
    BY <1>3
  <2> QED BY <2>1, <2>2, <2>3, <2>4, <2>5, <2>6 DEF TypeOK
<1>7. Turn(i + 1)'
  <2>1. previousStatus = track.ctx[i + 1]
    BY <1>2 DEF WithinEvent
  <2> QED BY <1>3, <1>4, <2>1 DEF Turn, BetweenEvents
<1>8. WaitInv'
  BY <1>0, <1>3 DEF WaitInv, NoLostWakeup
<1>9. Sounds(track.ev[i]) /\ ~Begun'
  BY <1>2, <1>3 DEF WithinEvent, Begun
<1>10. Advances(i)
  BY <1>4, <1>5, <1>7, <1>9 DEF Advances
<1> QED BY <1>3, <1>6, <1>8, <1>10 DEF Outcome, dataVars

-----------------------------------------------------------------------------
(* One step of the loop, whatever it is.                                   *)
LEMMA LoopOutcome ==
  ASSUME TypeOK, WaitInv, NEW i \in 1..Len(track.ev), Turn(i), Reads => InMem(i), Loop
  PROVE  Outcome(i)
<1>1. CASE PlayMeta \/ PlayVoice \/ FindRunningStatus \/ SendMessage
  <2>1. Reads
    BY <1>1 DEF PlayMeta, PlayVoice, FindRunningStatus, SendMessage, Reads, Begun
  <2> QED BY <1>1, <2>1, PlayMetaStep, PlayVoiceStep, FindRunningStatusStep, SendMessageStep
<1>2. CASE ReceiveNothing \/ ReceiveCommand \/ NotDue \/ ArmWait \/ StartTimer
  BY <1>2, ReceiveNothingStep, ReceiveCommandStep, NotDueStep, ArmWaitStep, StartTimerStep
<1> QED BY <1>1, <1>2 DEF Loop, Player

(* IInv is inductive: whatever the loop, the interrupt and the client do   *)
(* next, the player is still at an event of the track and in step with the *)
(* wire, and a wait still has its timer.                                   *)
THEOREM Inductive == IInv /\ [Next]_vars => IInv'
<1> SUFFICES ASSUME IInv, [Next]_vars PROVE IInv'
  OBVIOUS
<1>0. TypeOK /\ WaitInv /\ mem = track.image
  BY DEF IInv
<1>1. PICK i \in 1..Len(track.ev) : Turn(i)
  BY DEF IInv
<1>2. CASE Loop
  <2>1. InMem(i)
    BY <1>0 DEF InMem
  <2>2. Outcome(i)
    BY <1>0, <1>1, <1>2, <2>1, LoopOutcome
  <2>3. UNCHANGED <<track, mem>> /\ TypeOK' /\ WaitInv'
    BY <2>2 DEF Outcome, dataVars
  <2>4. \E j \in 1..Len(track.ev) : Turn(j)'
    BY <2>2 DEF Outcome, Stays, Advances, Restarts
  <2> QED BY <1>0, <2>3, <2>4 DEF IInv
<1>3. CASE UNCHANGED vars \/ TimerTick \/ Client
  <2>1. UNCHANGED <<track, mem, pc, isPlayingBack, playerVars, rxStatus>>
    BY <1>3 DEF vars, TimerTick, Client, dataVars, loopVars, wireVars
  <2>2. Turn(i)'
    BY <1>1, <2>1, TurnKept
  <2>3. TypeOK' /\ WaitInv'
    <3>1. CASE UNCHANGED vars
      BY <1>0, <3>1 DEF vars, dataVars, loopVars, timerVars, playerVars, wireVars,
         TypeOK, WaitInv, NoLostWakeup
    <3> QED BY <1>0, <1>3, <3>1, TimerTickTypes, ClientTypes
  <2> QED BY <1>0, <2>1, <2>2, <2>3 DEF IInv
<1> QED BY <1>2, <1>3 DEF Next

THEOREM Invariance == Spec => []IInv
  BY InitInv, Inductive, PTL DEF Spec

(* Every variable keeps its type; in particular the pointer never leaves   *)
(* the naturals for a byte that is no length.                              *)
THEOREM TypeCorrect == Spec => []TypeOK
<1>1. IInv => TypeOK
  BY DEF IInv
<1> QED BY <1>1, Invariance, PTL

(* Between two turns the pointer is at the delta-time of an event or at    *)
(* the data bytes of an event under running status.                        *)
THEOREM StaysOnBoundary == Spec => []OnEventBoundary
<1>1. IInv => OnEventBoundary
  BY DEF IInv, Turn, BetweenEvents, Body, OnEventBoundary
<1> QED BY <1>1, Invariance, PTL

(* Whoever waits for the delta timer has an alarm coming or one that has   *)
(* rung, with the interrupt at any point of the loop.                      *)
THEOREM WaitsEnd == Spec => []NoLostWakeup
<1>1. IInv => NoLostWakeup
  BY DEF IInv, WaitInv
<1> QED BY <1>1, Invariance, PTL

(* The player's running status is the instrument's whenever it matters.    *)
THEOREM StatusAgrees == Spec => []SameRunningStatus
<1>1. IInv => SameRunningStatus
  BY DEF IInv, Turn, BetweenEvents, SameRunningStatus
<1> QED BY <1>1, Invariance, PTL

-----------------------------------------------------------------------------
(***************************************************************************)
(* The player implements TrackPlayer.                                      *)
(***************************************************************************)
LEMMA PositionOfTurn ==
  ASSUME TypeOK, NEW i \in 1..Len(track.ev), Turn(i)
  PROVE  Position = i
<1>1. track \in Tracks /\ playbackPtr \in Nat
  BY DEF TypeOK
<1>2. playbackPtr = track.at[i] \/ playbackPtr = Body(i)
  BY DEF Turn, BetweenEvents, WithinEvent
<1>3. track.at[i] <= playbackPtr /\ playbackPtr < track.at[i + 1]
  <2> DEFINE p == track.at[i]
             q == Body(i)
             r == track.at[i + 1]
  <2>1. p \in Nat /\ q \in Nat /\ r \in Nat /\ p < q /\ q < r
    BY <1>1, BodyLayout
  <2>2. p <= playbackPtr /\ playbackPtr < r
    <3>1. playbackPtr = p \/ playbackPtr = q
      BY <1>2
    <3> HIDE DEF p, q, r
    <3> QED BY <2>1, <3>1
  <2> QED BY <2>2
<1> QED BY <1>1, <1>3, EventAtIs DEF Position

LEMMA PositionAfter ==
  ASSUME track' = track, track \in Tracks, NEW i \in 1..Len(track.ev),
         playbackPtr' = track.at[i] \/ playbackPtr' = Body(i)
  PROVE  Position' = i
<1> DEFINE p == track.at[i]
           q == Body(i)
           r == track.at[i + 1]
<1>1. p \in Nat /\ q \in Nat /\ r \in Nat /\ p < q /\ q < r
  BY BodyLayout
<1>2. playbackPtr' \in Nat /\ p <= playbackPtr' /\ playbackPtr' < r
  <2>1. playbackPtr' = p \/ playbackPtr' = q
    OBVIOUS
  <2> HIDE DEF p, q, r
  <2> QED BY <1>1, <2>1
<1>3. EventAt(track, playbackPtr') = i
  BY <1>2, EventAtIs
<1> QED BY <1>3 DEF Position

LEMMA InitRefines == Init => Promise!Init
<1> SUFFICES ASSUME Init PROVE Promise!Init
  OBVIOUS
<1>1. IInv
  BY InitInv
<1>2. TypeOK /\ track \in Tracks /\ playbackPtr = 0 /\ pc = "receive"
      /\ isPlayingBack = FALSE /\ heard = <<>> /\ isRunningStatus = FALSE
      /\ previousStatus = 0 /\ rxStatus = 0
  BY <1>1 DEF Init, LoopInit, IInv
<1>3. PICK i \in 1..Len(track.ev) : Turn(i)
  BY <1>1 DEF IInv
<1>4. 1 \in 1..Len(track.ev) /\ track.at[1] = 0 /\ track.ctx[1] = 0
  BY <1>2, <1>3, FirstShape
<1>5. Turn(1)
  BY <1>2, <1>4 DEF Turn, BetweenEvents
<1>6. Position = 1
  BY <1>2, <1>4, <1>5, PositionOfTurn
<1> QED BY <1>2, <1>6 DEF Promise!Init

LEMMA StepRefines == IInv /\ [Next]_vars => [Promise!Next]_(Promise!vars)
<1> SUFFICES ASSUME IInv, [Next]_vars PROVE [Promise!Next]_(Promise!vars)
  OBVIOUS
<1>0. TypeOK /\ mem = track.image /\ track \in Tracks
  BY DEF IInv, TypeOK
<1>1. PICK i \in 1..Len(track.ev) : Turn(i)
  BY DEF IInv
<1>2. Position = i
  BY <1>0, <1>1, PositionOfTurn
<1>2a. InMem(i)
  BY <1>0 DEF InMem
<1>3. ASSUME UNCHANGED <<track, playbackPtr, isPlayingBack, heard>>
      PROVE  UNCHANGED Promise!vars
  BY <1>3 DEF Promise!vars, Position
<1>4. CASE \/ UNCHANGED vars \/ ReceiveNothing \/ NotDue
           \/ ArmWait \/ StartTimer \/ TimerTick \/ Client
  BY <1>3, <1>4 DEF vars, ReceiveNothing, NotDue, ArmWait, StartTimer, TimerTick,
     Client, dataVars, loopVars, timerVars, playerVars, wireVars
<1>5. CASE ReceiveCommand
  <2>1. /\ UNCHANGED <<track, playbackPtr, heard>>
        /\ isPlayingBack' = PlayingAfter(Head(queue))
    BY <1>5 DEF ReceiveCommand, dataVars, playerVars, wireVars
  <2>2. Position' = Position
    BY <2>1 DEF Position
  <2>3. isPlayingBack \in BOOLEAN
    BY <1>0 DEF TypeOK
  <2>4. isPlayingBack' = TRUE \/ isPlayingBack' = FALSE
    BY <2>1 DEF PlayingAfter
  <2> QED BY <2>1, <2>2, <2>4 DEF Promise!Next, Promise!Start, Promise!Stop
<1>6. CASE PlayVoice \/ FindRunningStatus
  <2>1. BetweenEvents(i)
    BY <1>1, <1>6 DEF Turn, PlayVoice, FindRunningStatus
  <2>2. /\ UNCHANGED <<track, isPlayingBack, heard>>
        /\ playbackPtr' = EventPtr
    BY <1>6 DEF PlayVoice, FindRunningStatus, dataVars, wireVars
  <2>3. playbackPtr' = Body(i)
    BY <1>0, <1>2a, <2>1, <2>2, TurnSees
  <2>4. Position' = i
    BY <1>0, <2>2, <2>3, PositionAfter
  <2> QED BY <1>2, <2>2, <2>4 DEF Promise!vars
<1>7. CASE PlayMeta
  <2>1. BetweenEvents(i) /\ track' = track /\ isPlayingBack
    BY <1>1, <1>7 DEF Turn, PlayMeta, dataVars, Due
  <2>2. CASE track.ev[i].kind = "meta"
    <3>1. playbackPtr' = track.at[i + 1] /\ UNCHANGED <<isPlayingBack, heard>>
      BY <1>0, <1>2a, <1>7, <2>1, <2>2, MetaTurn
    <3>2. i + 1 \in 1..Len(track.ev)
      BY <1>0, <2>2, NextShape
    <3>3. Position' = i + 1
      BY <1>0, <2>1, <3>1, <3>2, PositionAfter
    <3>4. Promise!PlayEvent
      BY <1>2, <2>1, <2>2, <3>1, <3>3 DEF Promise!PlayEvent, Sounds, Promise!Sounds
    <3> QED BY <3>4 DEF Promise!Next
  <2>3. CASE track.ev[i].kind = "end"
    <3>1. playbackPtr' = 0 /\ isPlayingBack' = FALSE /\ heard' = <<>>
      BY <1>0, <1>2a, <1>7, <2>1, <2>3, MetaTurn
    <3>2. 1 \in 1..Len(track.ev) /\ track.at[1] = 0
      BY <1>0, FirstShape
    <3>3. Position' = 1
      BY <1>0, <2>1, <3>1, <3>2, PositionAfter
    <3>4. Promise!Finish
      BY <1>2, <2>1, <2>3, <3>1, <3>3 DEF Promise!Finish
    <3> QED BY <3>4 DEF Promise!Next
  <2> QED BY <1>0, <1>2a, <1>7, <2>1, <2>2, <2>3, MetaTurn
<1>8. CASE SendMessage
  <2>1. WithinEvent(i) /\ UNCHANGED <<track, isPlayingBack>>
    BY <1>1, <1>8 DEF Turn, SendMessage, dataVars
  <2>2. /\ playbackPtr' = track.at[i + 1]
        /\ heard' = Append(heard, Message(track, i))
    BY <1>0, <1>2a, <1>8, <2>1, SendsMessage
  <2>3. isPlayingBack /\ Sounds(track.ev[i]) /\ track.ev[i].kind # "end"
    BY <2>1 DEF WithinEvent, Sounds
  <2>4. i + 1 \in 1..Len(track.ev)
    BY <1>0, <2>3, NextShape
  <2>5. Position' = i + 1
    BY <1>0, <2>1, <2>2, <2>4, PositionAfter
  <2>6. Promise!PlayEvent
    BY <1>2, <2>1, <2>2, <2>3, <2>5
    DEF Promise!PlayEvent, Sounds, Promise!Sounds, Message, Promise!Message
  <2> QED BY <2>6 DEF Promise!Next
<1> QED BY <1>4, <1>5, <1>6, <1>7, <1>8 DEF Next, Loop, Player

(* The byte-level player keeps the promise of TrackPlayer: for every track *)
(* of supported events the instrument hears its messages, each once,       *)
(* complete and in order, whatever the interrupt and the client do.        *)
THEOREM Implements == Spec => PlaysTheTrack
<1>1. Spec => []IInv
  BY Invariance
<1>2. Init => Promise!Init
  BY InitRefines
<1>3. IInv /\ [Next]_vars => [Promise!Next]_(Promise!vars)
  BY StepRefines
<1> QED BY <1>1, <1>2, <1>3, PTL DEF Spec, PlaysTheTrack, Promise!Spec

(***************************************************************************)
(* A track and the payloads it is cut into.                                *)
(***************************************************************************)

(* Every event lies within the length of its track, and that within the    *)
(* buffer; a track is at least its end.                                    *)
LEMMA EventsInside ==
  ASSUME NEW t \in Tracks
  PROVE  /\ Gatt!Length(t) \in Nat /\ Gatt!Length(t) >= 4 /\ Gatt!Length(t) <= BufferSize
         /\ \A i \in 1..Len(t.ev) : t.at[i + 1] <= Gatt!Length(t)
<1> DEFINE n == Len(t.ev)
           e == t.at[n + 1]
<1>1. IsTrack(t, BufferSize)
  BY TracksAssumption
<1>2. /\ n \in Nat \ {0} /\ n \in 1..n
      /\ t.at \in [1..n + 1 -> 0..BufferSize]
      /\ \A i, j \in 1..n + 1 : i < j => t.at[i] < t.at[j]
      /\ t.ev[n].kind = "end"
  BY <1>1 DEF IsTrack
<1>3. e \in 0..BufferSize /\ BufferSize \in Nat
  BY <1>2, BufferAssumption
<1>4. e >= 4
  <2> DEFINE b == t.at[n]
             d == DeltaLen(t.image, b)
             l == Len(t.ev[n].bytes)
  <2>1. b \in Nat /\ d \in 1..4 /\ e = b + d + l
    BY <1>2, EventLayout
  <2>2. t.ev[n].bytes = <<255, EndOfTrack, 0>>
    BY <1>2, EndShape
  <2>3. l = 3
    BY <2>2
  <2> HIDE DEF b, d, e, l
  <2> QED BY <2>1, <2>3
<1>5. \A i \in 1..n : t.at[i + 1] <= e
  <2> TAKE i \in 1..n
  <2>1. i + 1 \in 1..n + 1 /\ n + 1 \in 1..n + 1 /\ (i + 1 = n + 1 \/ i + 1 < n + 1)
    BY <1>2
  <2>2. t.at[i + 1] \in 0..BufferSize
    BY <1>2, <2>1
  <2>3. t.at[i + 1] = e \/ t.at[i + 1] < e
    BY <1>2, <2>1
  <2> QED BY <1>3, <2>2, <2>3
<1>6. Gatt!Length(t) = e
  BY DEF Gatt!Length
<1> HIDE DEF e
<1> QED BY <1>3, <1>4, <1>5, <1>6

LEMMA Sizes ==
  /\ PayloadSize \in Nat /\ PayloadSize >= 2 /\ PayloadSize <= BufferSize
  /\ BufferSize \in Nat
  /\ \A n \in 0..PayloadSize : n \in UInt16
<1>1. PayloadSize \in UInt16 /\ PayloadSize \in 2..BufferSize /\ BufferSize \in Nat
  BY PayloadAssumption, BufferAssumption
<1> DEFINE most == 65535
<1>2. UInt16 = 0..most /\ most \in Nat
  BY DEF UInt16
<1>3. \A n \in 0..PayloadSize : n \in UInt16
  <2> HIDE DEF most
  <2> QED BY <1>1, <1>2
<1> QED BY <1>1, <1>3

LEMMA Times ==
  ASSUME NEW k \in Nat
  PROVE  /\ k * PayloadSize \in Nat
         /\ (k + 1) * PayloadSize = k * PayloadSize + PayloadSize
         /\ 0 * PayloadSize = 0 /\ 1 * PayloadSize = PayloadSize
<1>1. \A i, p \in Nat : i * p \in Nat /\ (i + 1) * p = i * p + p
  OBVIOUS
<1>2. \A p \in Nat : 0 * p = 0 /\ 1 * p = p
  OBVIOUS
<1> QED BY <1>1, <1>2, Sizes

(* Payload k of a track: it is not empty, lies within the track, and holds *)
(* its bytes from k * PayloadSize on.                                      *)
LEMMA ChunkIs ==
  ASSUME NEW t \in Tracks, NEW k \in Nat, k * PayloadSize < Gatt!Length(t)
  PROVE  /\ Gatt!ChunkLength(t, k) \in 1..PayloadSize
         /\ k * PayloadSize + Gatt!ChunkLength(t, k) <= Gatt!Length(t)
         /\ (k + 1) * PayloadSize < Gatt!Length(t) => Gatt!ChunkLength(t, k) = PayloadSize
         /\ (k + 1) * PayloadSize >= Gatt!Length(t) =>
              k * PayloadSize + Gatt!ChunkLength(t, k) = Gatt!Length(t)
         /\ k = 0 => Gatt!ChunkLength(t, k) >= 2
         /\ Gatt!Chunk(t, k) \in Seq(Byte)
         /\ Len(Gatt!Chunk(t, k)) = Gatt!ChunkLength(t, k)
         /\ \A a \in 0..Gatt!ChunkLength(t, k) - 1 :
              Gatt!Chunk(t, k)[a + 1] = t.image[k * PayloadSize + a]
<1> DEFINE l == Gatt!Length(t)
           n == Gatt!ChunkLength(t, k)
           c == Gatt!Chunk(t, k)
           kp == k * PayloadSize
           kq == (k + 1) * PayloadSize
<1>1. /\ l \in Nat /\ l >= 4 /\ l <= BufferSize
      /\ PayloadSize \in Nat /\ PayloadSize >= 2 /\ BufferSize \in Nat
      /\ kp \in Nat /\ kq = kp + PayloadSize /\ kp < l
      /\ k = 0 => kp = 0
  BY EventsInside, Sizes, Times
<1>2. n = IF kq <= l THEN PayloadSize ELSE l - kp
  BY DEF Gatt!ChunkLength
<1>3. /\ n \in 1..PayloadSize /\ kp + n <= l /\ n \in Nat
      /\ kq < l => n = PayloadSize
      /\ kq >= l => kp + n = l
      /\ k = 0 => n >= 2
  <2> HIDE DEF l, n, kp, kq
  <2> QED BY <1>1, <1>2
<1>4. c = [j \in 1..n |-> t.image[kp + j - 1]]
  BY DEF Gatt!Chunk
<1>5. t.image \in [0..BufferSize - 1 -> Byte]
  BY TracksAssumption DEF IsTrack
<1> HIDE DEF l, n, c, kp, kq
<1>6. \A j \in 1..n : kp + j - 1 \in 0..BufferSize - 1
  BY <1>1, <1>3
<1>7. c \in Seq(Byte) /\ Len(c) = n
  <2>1. \A j \in 1..n : t.image[kp + j - 1] \in Byte
    BY <1>5, <1>6
  <2>2. n \in Nat
    BY <1>3
  <2> QED BY <1>4, <2>1, <2>2
<1>8. \A a \in 0..n - 1 : c[a + 1] = t.image[kp + a]
  <2> TAKE a \in 0..n - 1
  <2>1. a + 1 \in 1..n /\ kp + (a + 1) - 1 = kp + a
    BY <1>1, <1>3
  <2> QED BY <1>4, <2>1
<1> QED BY <1>3, <1>7, <1>8 DEF l, n, c, kp, kq

-----------------------------------------------------------------------------
(***************************************************************************)
(* The types of the two halves, in the names of one.                       *)
(***************************************************************************)
LEMMA SameSets ==
  /\ Gatt!Byte = Byte /\ Gatt!UInt16 = UInt16
  /\ Gatt!Item = QueueItem /\ Gatt!Address = 0..BufferSize - 1
<1>1. Gatt!Byte = Byte /\ Gatt!UInt16 = UInt16 /\ Gatt!Address = 0..BufferSize - 1
  BY DEF Gatt!Byte, Byte, Gatt!UInt16, UInt16, Gatt!Address
<1>2. Gatt!Item = QueueItem
  BY <1>1 DEF Gatt!Item, QueueItem
<1> QED BY <1>1, <1>2

LEMMA SystemTypes ==
  ASSUME SystemTypeOK
  PROVE  /\ TypeOK /\ track \in Tracks
         /\ mem \in [0..BufferSize - 1 -> Byte]
         /\ queue \in Seq(QueueItem) /\ Len(queue) <= QueueLength
         /\ written \in Nat /\ payloadsReceived \in Nat
         /\ eventBuffer \in [0..PayloadSize - 1 -> Byte]
         /\ gattPc \in {"idle", "post"} /\ item \in QueueItem
         /\ lost \in {"no", "underrun", "overwritten"}
         /\ dropped \in BOOLEAN /\ stale \in BOOLEAN
<1>1. /\ TypeOK /\ Gatt!TypeOK
      /\ lost \in {"no", "underrun", "overwritten"}
      /\ dropped \in BOOLEAN /\ stale \in BOOLEAN
  BY DEF SystemTypeOK
<1>2. /\ track \in Tracks /\ mem \in [0..BufferSize - 1 -> Byte]
      /\ queue \in Seq(QueueItem) /\ Len(queue) <= QueueLength
  BY <1>1 DEF TypeOK
<1>3. /\ written \in Nat /\ payloadsReceived \in Nat
      /\ eventBuffer \in [0..PayloadSize - 1 -> Byte]
      /\ gattPc \in {"idle", "post"} /\ item \in QueueItem
  BY <1>1, SameSets DEF Gatt!TypeOK
<1> QED BY <1>1, <1>2, <1>3

LEMMA SystemTypesNext ==
  ASSUME TypeOK',
         written' \in Nat, payloadsReceived' \in Nat,
         eventBuffer' \in [0..PayloadSize - 1 -> Byte],
         gattPc' \in {"idle", "post"}, item' \in QueueItem,
         lost' \in {"no", "underrun", "overwritten"},
         dropped' \in BOOLEAN, stale' \in BOOLEAN
  PROVE  SystemTypeOK'
<1>1. /\ track' \in Tracks /\ mem' \in [0..BufferSize - 1 -> Byte]
      /\ queue' \in Seq(QueueItem) /\ Len(queue') <= QueueLength
  BY DEF TypeOK
<1>2. Gatt!TypeOK'
  BY <1>1, SameSets DEF Gatt!TypeOK
<1> QED BY <1>2 DEF SystemTypeOK

-----------------------------------------------------------------------------
(***************************************************************************)
(* What the callback does with a write.                                    *)
(***************************************************************************)
LEMMA FlatIs ==
  ASSUME SystemTypeOK, NEW data \in Seq(Byte), eventBuffer' = Gatt!Flat(data)
  PROVE  /\ eventBuffer' \in [0..PayloadSize - 1 -> Byte]
         /\ \A a \in 0..PayloadSize - 1 : a < Len(data) => eventBuffer'[a] = data[a + 1]
<1>1. eventBuffer \in [0..PayloadSize - 1 -> Byte] /\ PayloadSize \in Nat /\ Len(data) \in Nat
  BY SystemTypes, Sizes
<1>2. eventBuffer' = [a \in 0..PayloadSize - 1 |-> IF a < Len(data) THEN data[a + 1]
                                                                  ELSE eventBuffer[a]]
  BY DEF Gatt!Flat
<1>3. \A a \in 0..PayloadSize - 1 : a < Len(data) => data[a + 1] \in Byte
  <2> TAKE a \in 0..PayloadSize - 1
  <2> HAVE a < Len(data)
  <2>1. a + 1 \in 1..Len(data)
    BY <1>1
  <2> QED BY <2>1
<1>4. \A a \in 0..PayloadSize - 1 :
        (IF a < Len(data) THEN data[a + 1] ELSE eventBuffer[a]) \in Byte
  BY <1>1, <1>3
<1> QED BY <1>2, <1>4

LEMMA CopyToIs ==
  ASSUME SystemTypeOK, NEW off \in Nat, NEW n \in 0..PayloadSize,
         eventBuffer' \in [0..PayloadSize - 1 -> Byte], Gatt!CopyTo(off, n)
  PROVE  /\ mem' \in [0..BufferSize - 1 -> Byte]
         /\ \A a \in 0..BufferSize - 1 :
              mem'[a] = IF a >= off /\ a < off + n THEN eventBuffer'[a - off] ELSE mem[a]
<1>1. mem \in [0..BufferSize - 1 -> Byte]
  BY SystemTypes
<1>2. mem' = [a \in 0..BufferSize - 1 |-> IF a >= off /\ a < off + n
                                          THEN eventBuffer'[a - off] ELSE mem[a]]
  BY DEF Gatt!CopyTo, Gatt!Address
<1>3. \A a \in 0..BufferSize - 1 : a >= off /\ a < off + n => a - off \in 0..PayloadSize - 1
  BY Sizes
<1>4. \A a \in 0..BufferSize - 1 :
        (IF a >= off /\ a < off + n THEN eventBuffer'[a - off] ELSE mem[a]) \in Byte
  BY <1>1, <1>3
<1> QED BY <1>2, <1>4

(* The first payload of a stream.                                          *)
LEMMA StartFacts ==
  ASSUME SystemTypeOK, Gatt!StartStream
  PROVE  /\ track' \in Tracks /\ written' = 1 /\ payloadsReceived' = 1
         /\ UNCHANGED queue /\ gattPc = "idle" /\ gattPc' = "post"
         /\ item' = [opcode |-> 1, dataLength |-> PayloadSize]
         /\ eventBuffer' \in [0..PayloadSize - 1 -> Byte]
         /\ mem' \in [0..BufferSize - 1 -> Byte]
         /\ \A a \in 0..BufferSize - 1 :
              IF a < PayloadSize THEN a < Gatt!Length(track') => mem'[a] = track'.image[a]
                                 ELSE mem'[a] = mem[a]
<1> DEFINE c == Gatt!Chunk(track', 0)
           n == Gatt!ChunkLength(track', 0)
           l == Gatt!Length(track')
<1>1. track' \in Tracks /\ written' = 1 /\ Gatt!Access(Gatt!FirstPayload, 1, c)
  BY DEF Gatt!StartStream
<1>2. /\ l \in Nat /\ l >= 4 /\ PayloadSize \in Nat /\ PayloadSize >= 2
      /\ 0 * PayloadSize = 0 /\ BufferSize \in Nat
      /\ (0 + 1) * PayloadSize = PayloadSize
  BY <1>1, EventsInside, Sizes, Times
<1>3. /\ c \in Seq(Byte) /\ Len(c) = n /\ n \in 1..PayloadSize /\ n >= 2
      /\ \A a \in 0..n - 1 : c[a + 1] = track'.image[0 * PayloadSize + a]
      /\ (0 + 1) * PayloadSize < l => n = PayloadSize
      /\ (0 + 1) * PayloadSize >= l => 0 * PayloadSize + n = l
  <2>1. 0 \in Nat /\ 0 * PayloadSize < l
    BY <1>2
  <2> QED BY <1>1, <2>1, ChunkIs
<1> HIDE DEF c, n, l
<1>4. /\ gattPc = "idle" /\ eventBuffer' = Gatt!Flat(c) /\ UNCHANGED queue
      /\ gattPc' = "post" /\ Gatt!StoreFirst(1)
  <2>1. Len(c) + 2 >= 4 /\ ~(Len(c) + 2 < 4)
    BY <1>2, <1>3
  <2>2. 32 # 16
    OBVIOUS
  <2> QED BY <1>1, <2>1, <2>2 DEF Gatt!Access, Gatt!FirstPayload, Gatt!NextPayload
<1>5. /\ eventBuffer' \in [0..PayloadSize - 1 -> Byte]
      /\ \A a \in 0..PayloadSize - 1 : a < n => eventBuffer'[a] = c[a + 1]
  BY <1>3, <1>4, FlatIs
<1>6. /\ payloadsReceived' = 1 /\ item' = [opcode |-> 1, dataLength |-> PayloadSize]
      /\ Gatt!CopyTo(0, PayloadSize)
  BY <1>4 DEF Gatt!StoreFirst
<1>7. /\ mem' \in [0..BufferSize - 1 -> Byte]
      /\ \A a \in 0..BufferSize - 1 :
           mem'[a] = IF a >= 0 /\ a < 0 + PayloadSize THEN eventBuffer'[a - 0] ELSE mem[a]
  <2>1. 0 \in Nat /\ PayloadSize \in 0..PayloadSize
    BY <1>2
  <2>2. eventBuffer' \in [0..PayloadSize - 1 -> Byte] /\ Gatt!CopyTo(0, PayloadSize)
    BY <1>5, <1>6
  <2> QED BY <2>1, <2>2, CopyToIs
<1>8. ASSUME NEW a \in 0..BufferSize - 1
      PROVE  IF a < PayloadSize THEN a < l => mem'[a] = track'.image[a]
                                ELSE mem'[a] = mem[a]
  <2>1. CASE a < PayloadSize /\ a < l
    <3>1. a \in 0..n - 1 /\ a \in 0..PayloadSize - 1 /\ a < n
      BY <1>2, <1>3, <2>1
    <3>2. a - 0 = a /\ a >= 0 /\ a < 0 + PayloadSize /\ 0 * PayloadSize + a = a
      BY <1>2, <2>1
    <3>3. mem'[a] = eventBuffer'[a]
      BY <1>7, <3>2
    <3>4. eventBuffer'[a] = track'.image[a]
      BY <1>3, <1>5, <3>1, <3>2
    <3> QED BY <2>1, <3>3, <3>4
  <2>2. CASE ~(a < PayloadSize)
    BY <1>2, <1>7, <2>2
  <2> QED BY <2>1, <2>2
<1> QED BY <1>1, <1>4, <1>5, <1>6, <1>7, <1>8 DEF l

(* The next payload: the callback and the client agree on where it goes,   *)
(* and it is the track's bytes that go there; one of a single byte stops   *)
(* short of the buffer.                                                    *)
LEMMA ContinueFacts ==
  ASSUME SystemTypeOK, StreamInv, Gatt!ContinueStream
  PROVE  /\ UNCHANGED <<track, queue>> /\ gattPc = "idle"
         /\ written > 0 /\ written' = written + 1 /\ payloadsReceived = written
         /\ written * PayloadSize < Gatt!Length(track)
         /\ eventBuffer' \in [0..PayloadSize - 1 -> Byte]
         /\ mem' \in [0..BufferSize - 1 -> Byte]
         /\ \/ /\ Gatt!ChunkLength(track, written) = 1
               /\ UNCHANGED <<mem, payloadsReceived, gattPc, item>>
            \/ /\ Gatt!ChunkLength(track, written) >= 2
               /\ gattPc' = "post" /\ payloadsReceived' = written + 1
               /\ item' = [opcode |-> 2,
                           dataLength |-> Gatt!ChunkLength(track, written)]
               /\ \A a \in 0..BufferSize - 1 :
                    IF a < written * PayloadSize
                         \/ a >= written * PayloadSize + Gatt!ChunkLength(track, written)
                    THEN mem'[a] = mem[a] ELSE mem'[a] = track.image[a]
<1> DEFINE c == Gatt!Chunk(track, written)
           n == Gatt!ChunkLength(track, written)
           off == written * PayloadSize
           l == Gatt!Length(track)
<1>1. /\ written > 0 /\ off < l /\ written' = written + 1 /\ UNCHANGED track
      /\ Gatt!Access(Gatt!NextPayload, 2, c)
  BY DEF Gatt!ContinueStream
<1>2. /\ track \in Tracks /\ written \in Nat /\ payloadsReceived \in Nat
      /\ off \in Nat /\ l \in Nat /\ l <= BufferSize
      /\ PayloadSize \in Nat /\ BufferSize \in Nat
      /\ mem \in [0..BufferSize - 1 -> Byte]
  BY SystemTypes, EventsInside, Sizes, Times
<1>3. payloadsReceived = written
  <2>1. CountsAgree
    BY <1>1, <1>2 DEF StreamInv
  <2>2. ~(off >= l)
    <3> HIDE DEF off, l
    <3> QED BY <1>1, <1>2
  <2> QED BY <2>1, <2>2 DEF CountsAgree
<1>4. /\ c \in Seq(Byte) /\ Len(c) = n /\ n \in 1..PayloadSize /\ off + n <= l
      /\ \A a \in 0..n - 1 : c[a + 1] = track.image[off + a]
  BY <1>1, <1>2, ChunkIs
<1> HIDE DEF c, n, off, l
<1>5. /\ gattPc = "idle" /\ eventBuffer' = Gatt!Flat(c) /\ UNCHANGED queue
      /\ \/ Len(c) + 2 < 4 /\ UNCHANGED <<mem, payloadsReceived, gattPc, item>>
         \/ Len(c) + 2 >= 4 /\ gattPc' = "post" /\ Gatt!StoreNext(2, c)
  <2>1. 32 # 16
    OBVIOUS
  <2> QED BY <1>1, <2>1 DEF Gatt!Access, Gatt!FirstPayload, Gatt!NextPayload
<1>6. /\ eventBuffer' \in [0..PayloadSize - 1 -> Byte]
      /\ \A a \in 0..PayloadSize - 1 : a < n => eventBuffer'[a] = c[a + 1]
  BY <1>4, <1>5, FlatIs
<1>7. CASE Len(c) + 2 < 4 /\ UNCHANGED <<mem, payloadsReceived, gattPc, item>>
  <2>1. n = 1
    BY <1>4, <1>7
  <2> QED BY <1>1, <1>2, <1>3, <1>5, <1>6, <1>7, <2>1 DEF n, off, l
<1>8. CASE Len(c) + 2 >= 4 /\ gattPc' = "post" /\ Gatt!StoreNext(2, c)
  <2>1. n >= 2
    BY <1>4, <1>8
  <2>2. /\ payloadsReceived' = written + 1
        /\ item' = [opcode |-> 2, dataLength |-> n]
        /\ Gatt!CopyTo(off, n)
    BY <1>3, <1>4, <1>8 DEF Gatt!StoreNext, Gatt!PayloadLength, off
  <2>3. /\ mem' \in [0..BufferSize - 1 -> Byte]
        /\ \A a \in 0..BufferSize - 1 :
             mem'[a] = IF a >= off /\ a < off + n THEN eventBuffer'[a - off] ELSE mem[a]
    <3>1. n \in 0..PayloadSize
      BY <1>2, <1>4
    <3> QED BY <1>2, <1>6, <2>2, <3>1, CopyToIs
  <2>4. ASSUME NEW a \in 0..BufferSize - 1
        PROVE  IF a < off \/ a >= off + n THEN mem'[a] = mem[a]
                                          ELSE mem'[a] = track.image[a]
    <3>1. CASE a >= off /\ a < off + n
      <4>1. /\ a - off \in 0..PayloadSize - 1 /\ a - off < n /\ a - off \in 0..n - 1
            /\ off + (a - off) = a
        BY <1>2, <1>4, <3>1
      <4>2. mem'[a] = eventBuffer'[a - off]
        BY <2>3, <3>1
      <4>3. eventBuffer'[a - off] = c[(a - off) + 1]
        BY <1>6, <4>1
      <4>4. c[(a - off) + 1] = track.image[a]
        BY <1>4, <4>1
      <4>5. ~(a < off \/ a >= off + n)
        BY <1>2, <1>4, <3>1
      <4> QED BY <4>2, <4>3, <4>4, <4>5
    <3>2. CASE ~(a >= off /\ a < off + n)
      <4>1. a < off \/ a >= off + n
        BY <1>2, <1>4, <3>2
      <4> QED BY <2>3, <3>2, <4>1
    <3> QED BY <3>1, <3>2
  <2> QED BY <1>1, <1>2, <1>3, <1>5, <1>6, <1>8, <2>1, <2>2, <2>3, <2>4 DEF n, off, l
<1> QED BY <1>5, <1>7, <1>8

(* A command: nothing of the stream is touched, and the item's dataLength  *)
(* is whatever it happens to hold.                                         *)
LEMMA CommandFacts ==
  ASSUME SystemTypeOK, Gatt!WriteCommand
  PROVE  /\ UNCHANGED <<track, written, queue, mem, payloadsReceived>>
         /\ gattPc = "idle" /\ gattPc' = "post"
         /\ eventBuffer' \in [0..PayloadSize - 1 -> Byte]
         /\ item' \in QueueItem /\ item'.opcode \in Commands
<1>1. PICK op \in Commands : Gatt!Access(0, op, <<0, 0>>)
  BY DEF Gatt!WriteCommand
<1>2. UNCHANGED <<track, written>>
  BY DEF Gatt!WriteCommand, Gatt!clientVars
<1>3. <<0, 0>> \in Seq(Byte) /\ Len(<<0, 0>>) = 2
  <2>1. 0 \in Byte
    BY SMT DEF Byte
  <2> QED BY <2>1
<1>4. /\ gattPc = "idle" /\ eventBuffer' = Gatt!Flat(<<0, 0>>) /\ UNCHANGED queue
      /\ gattPc' = "post" /\ Gatt!StoreNothing(op)
  <2>1. ~(2 + 2 < 4) /\ 0 # 32 /\ 0 # 16
    OBVIOUS
  <2> QED BY <1>1, <1>3, <2>1 DEF Gatt!Access, Gatt!FirstPayload, Gatt!NextPayload
<1>5. eventBuffer' \in [0..PayloadSize - 1 -> Byte]
  BY <1>3, <1>4, FlatIs
<1>6. PICK n \in JunkLengths : item' = [opcode |-> op, dataLength |-> n]
  BY <1>4 DEF Gatt!StoreNothing
<1>7. UNCHANGED <<mem, payloadsReceived>>
  BY <1>4 DEF Gatt!StoreNothing
<1>8. item' \in QueueItem /\ item'.opcode \in Commands
  <2>1. op \in Byte /\ n \in UInt16
    BY CommandsAssumption, JunkAssumption
  <2> QED BY <1>6, <2>1 DEF QueueItem
<1> QED BY <1>2, <1>4, <1>5, <1>7, <1>8

-----------------------------------------------------------------------------
(***************************************************************************)
(* The messages of a track in front of an event, one event after another.  *)
(***************************************************************************)
LEMMA MessageType ==
  ASSUME NEW t \in Tracks, NEW i \in 1..Len(t.ev)
  PROVE  Message(t, i) \in Seq(Byte)
<1>1. t.ev[i].bytes \in Seq(Byte) /\ t.ctx[i] \in Byte
  BY EventLayout
<1>2. <<t.ctx[i]>> \o t.ev[i].bytes \in Seq(Byte)
  BY <1>1
<1> QED BY <1>1, <1>2 DEF Message

LEMMA MessagesGrow ==
  ASSUME NEW t \in Tracks
  PROVE  /\ MessagesBefore(t, 1) = <<>>
         /\ \A i \in 1..Len(t.ev) :
              MessagesBefore(t, i + 1) =
                IF Sounds(t.ev[i]) THEN Append(MessagesBefore(t, i), Message(t, i))
                                   ELSE MessagesBefore(t, i)
<1> DEFINE n == Len(t.ev)
           S == Seq(Seq(Byte))
           F(g) == [k \in 0..n |-> IF k = 0 THEN <<>>
                                   ELSE IF Sounds(t.ev[k])
                                   THEN Append(g[k - 1], Message(t, k)) ELSE g[k - 1]]
           u == CHOOSE g : g = F(g)
           step == [p \in (1..n) \X S |->
                      IF Sounds(t.ev[p[1]]) THEN Append(p[2], Message(t, p[1])) ELSE p[2]]
<1>1. n \in Nat
  BY EventsInside, TracksAssumption DEF IsTrack
<1>2. \E g : g = F(g)
  <2>1. <<>> \in S
    OBVIOUS
  <2>2. step \in [(1..n) \X S -> S]
    <3>1. ASSUME NEW p \in (1..n) \X S
          PROVE  (IF Sounds(t.ev[p[1]]) THEN Append(p[2], Message(t, p[1])) ELSE p[2]) \in S
      <4>1. p[1] \in 1..n /\ p[2] \in S
        OBVIOUS
      <4>2. Message(t, p[1]) \in Seq(Byte)
        BY <4>1, MessageType
      <4>3. Append(p[2], Message(t, p[1])) \in S
        BY <4>1, <4>2
      <4> QED BY <4>1, <4>3
    <3> QED BY <3>1
  <2>3. PICK g : IsTable(g, n, S, <<>>, step)
    <3>1. \E g : IsTable(g, n, S, <<>>, step)
      <4> HIDE DEF n, S, step
      <4> QED BY <1>1, <2>1, <2>2, TableExists
    <3> HIDE DEF n, S, step
    <3> QED BY <3>1
  <2>4. /\ g \in [0..n -> S] /\ g[0] = <<>>
        /\ \A k \in 1..n : g[k] = step[<<k, g[k - 1]>>]
    <3> HIDE DEF n, S, step
    <3> QED BY <2>3 DEF IsTable
  <2>5. ASSUME NEW k \in 1..n
        PROVE  g[k] = IF Sounds(t.ev[k]) THEN Append(g[k - 1], Message(t, k)) ELSE g[k - 1]
    <3>1. g[k - 1] \in S
      <4>1. k - 1 \in 0..n
        BY <1>1
      <4> HIDE DEF n, S, step
      <4> QED BY <2>4, <4>1
    <3>2. <<k, g[k - 1]>> \in (1..n) \X S
      BY <3>1
    <3>3. step[<<k, g[k - 1]>>] =
            IF Sounds(t.ev[k]) THEN Append(g[k - 1], Message(t, k)) ELSE g[k - 1]
      BY <3>2
    <3> HIDE DEF step, n, S
    <3> QED BY <2>4, <3>3
  <2>6. \A k \in 0..n : g[k] = F(g)[k]
    <3> TAKE k \in 0..n
    <3>1. CASE k = 0
      <4>1. g[0] = <<>>
        <5> HIDE DEF n, S, step
        <5> QED BY <2>4
      <4> QED BY <1>1, <3>1, <4>1
    <3>2. CASE k # 0
      <4>1. k \in 1..n
        BY <1>1, <3>2
      <4> QED BY <2>5, <3>2, <4>1
    <3> QED BY <3>1, <3>2
  <2>7. g = [k \in 0..n |-> g[k]]
    <3> HIDE DEF n, S, step
    <3> QED BY <2>4
  <2>8. g = F(g)
    BY <2>6, <2>7
  <2> QED BY <2>8
<1>3. u = F(u)
  <2> HIDE DEF F
  <2> QED BY <1>2, Zenon
<1>4. \A i \in 1..n + 1 : MessagesBefore(t, i) = u[i - 1]
  BY DEF MessagesBefore
<1> HIDE DEF u
<1>5. /\ u[0] = <<>>
      /\ \A k \in 1..n : u[k] = IF Sounds(t.ev[k]) THEN Append(u[k - 1], Message(t, k))
                                                   ELSE u[k - 1]
  <2>1. \A k \in 0..n : u[k] = F(u)[k]
    BY <1>3, Zenon
  <2>2. u[0] = <<>>
    <3>1. 0 \in 0..n
      BY <1>1
    <3>2. u[0] = F(u)[0]
      BY <2>1, <3>1, Zenon
    <3> QED BY <3>1, <3>2
  <2>3. ASSUME NEW k \in 1..n
        PROVE  u[k] = IF Sounds(t.ev[k]) THEN Append(u[k - 1], Message(t, k)) ELSE u[k - 1]
    <3>1. k \in 0..n /\ k # 0
      BY <1>1
    <3>2. u[k] = F(u)[k]
      BY <2>1, <3>1, Zenon
    <3> QED BY <3>1, <3>2
  <2> QED BY <2>2, <2>3
<1>6. MessagesBefore(t, 1) = <<>>
  <2>1. 1 \in 1..n + 1 /\ 1 - 1 = 0
    BY <1>1
  <2> QED BY <1>4, <1>5, <2>1
<1>7. ASSUME NEW i \in 1..n
      PROVE  MessagesBefore(t, i + 1) =
                IF Sounds(t.ev[i]) THEN Append(MessagesBefore(t, i), Message(t, i))
                                   ELSE MessagesBefore(t, i)
  <2>1. i \in 1..n + 1 /\ i + 1 \in 1..n + 1 /\ (i + 1) - 1 = i
    BY <1>1
  <2>2. MessagesBefore(t, i + 1) = u[i] /\ MessagesBefore(t, i) = u[i - 1]
    BY <1>4, <2>1
  <2> QED BY <1>5, <2>2
<1> QED BY <1>6, <1>7

-----------------------------------------------------------------------------
(***************************************************************************)
(* The stream in the buffer, write by write.                               *)
(***************************************************************************)
LEMMA StartKeepsStream ==
  ASSUME SystemTypeOK, Gatt!StartStream
  PROVE  StreamInv'
<1> DEFINE l == Gatt!Length(track')
<1>1. /\ track' \in Tracks /\ written' = 1 /\ payloadsReceived' = 1
      /\ \A a \in 0..BufferSize - 1 :
           IF a < PayloadSize THEN a < l => mem'[a] = track'.image[a]
                              ELSE mem'[a] = mem[a]
  BY StartFacts
<1>2. /\ l \in Nat /\ l >= 4 /\ l <= BufferSize /\ BufferSize \in Nat /\ PayloadSize \in Nat
      /\ (1 - 1) * PayloadSize = 0 /\ 1 * PayloadSize = PayloadSize
  BY <1>1, EventsInside, Sizes, Times
<1>3. CountsAgree'
  BY <1>1 DEF CountsAgree
<1>4. Gatt!BufferHoldsStream'
  <2>1. Gatt!Received' = IF 1 * PayloadSize <= l THEN 1 * PayloadSize ELSE l
    BY <1>1 DEF Gatt!Received, Gatt!Length
  <2> DEFINE r == Gatt!Received'
  <2>2. r = IF PayloadSize <= l THEN PayloadSize ELSE l
    BY <1>2, <2>1
  <2>3. ASSUME NEW a \in 0..r - 1
        PROVE  mem'[a] = track'.image[a]
    <3>1. a \in 0..BufferSize - 1 /\ a < PayloadSize /\ a < l
      <4> HIDE DEF r, l
      <4> QED BY <1>2, <2>2
    <3> QED BY <1>1, <3>1
  <2> QED BY <2>3 DEF Gatt!BufferHoldsStream
<1>5. written' # 0 /\ payloadsReceived' > 0 /\ (written' - 1) * PayloadSize < l
  BY <1>1, <1>2
<1>6. (written' - 1) * PayloadSize < Gatt!Length(track)'
  BY <1>5 DEF Gatt!Length
<1> QED BY <1>3, <1>4, <1>5, <1>6 DEF StreamInv

LEMMA ContinueKeepsStream ==
  ASSUME SystemTypeOK, StreamInv, Gatt!ContinueStream
  PROVE  StreamInv'
<1> DEFINE l == Gatt!Length(track)
           n == Gatt!ChunkLength(track, written)
           off == written * PayloadSize
<1>1. /\ track' = track /\ written > 0 /\ written' = written + 1
      /\ payloadsReceived = written /\ off < l
  BY ContinueFacts
<1>2. /\ track \in Tracks /\ written \in Nat
      /\ l \in Nat /\ l <= BufferSize /\ BufferSize \in Nat /\ PayloadSize \in Nat
      /\ off \in Nat /\ (written + 1) * PayloadSize = off + PayloadSize
  BY SystemTypes, EventsInside, Sizes, Times
<1>3. /\ n \in 1..PayloadSize /\ off + n <= l
      /\ off + PayloadSize < l => n = PayloadSize
      /\ off + PayloadSize >= l => off + n = l
  BY <1>1, <1>2, ChunkIs
<1>4. Gatt!Length(track)' = l /\ Gatt!ChunkLength(track, written)' = Gatt!ChunkLength(track, written')
  BY <1>1 DEF Gatt!Length, Gatt!ChunkLength
<1>5. (written' - 1) * PayloadSize < Gatt!Length(track)'
  <2>1. written' - 1 = written
    BY <1>1, <1>2
  <2> QED BY <1>1, <1>4, <2>1
<1>6. \A a \in 0..off - 1 : mem[a] = track.image[a]
  <2>1. Gatt!Received = off
    BY <1>1, <1>2 DEF Gatt!Received
  <2>2. Gatt!BufferHoldsStream
    BY DEF StreamInv
  <2> QED BY <1>1, <2>1, <2>2 DEF Gatt!BufferHoldsStream
<1>7. CASE n = 1 /\ UNCHANGED <<mem, payloadsReceived, gattPc, item>>
  <2>1. CountsAgree'
    <3>1. off + PayloadSize >= l
      <4>1. PayloadSize >= 2
        BY Sizes
      <4> HIDE DEF off, l, n
      <4> QED BY <1>2, <1>3, <1>7, <4>1
    <3>2. written' * PayloadSize >= l
      BY <1>1, <1>2, <3>1
    <3>3. Gatt!ChunkLength(track, written' - 1) = 1
      <4>1. written' - 1 = written
        BY <1>1, <1>2
      <4> QED BY <1>7, <4>1
    <3>4. payloadsReceived' = written' - 1
      BY <1>1, <1>2, <1>7
    <3>5. Gatt!ChunkLength(track, written - 1)' = Gatt!ChunkLength(track, written' - 1)
      BY <1>1 DEF Gatt!ChunkLength, Gatt!Length
    <3> QED BY <1>4, <3>2, <3>3, <3>4, <3>5 DEF CountsAgree
  <2>2. Gatt!BufferHoldsStream'
    <3>1. Gatt!Received' = off
      BY <1>1, <1>2, <1>7 DEF Gatt!Received, Gatt!Length
    <3> QED BY <1>1, <1>6, <1>7, <3>1 DEF Gatt!BufferHoldsStream
  <2>3. payloadsReceived' > 0 /\ written' # 0
    BY <1>1, <1>2, <1>7
  <2> QED BY <1>5, <2>1, <2>2, <2>3 DEF StreamInv
<1>8. CASE /\ n >= 2 /\ payloadsReceived' = written + 1
           /\ \A a \in 0..BufferSize - 1 : IF a < off \/ a >= off + n
                                           THEN mem'[a] = mem[a]
                                           ELSE mem'[a] = track.image[a]
  <2>1. CountsAgree'
    BY <1>1, <1>8 DEF CountsAgree
  <2>2. Gatt!BufferHoldsStream'
    <3>1. Gatt!Received' = IF (written + 1) * PayloadSize <= l
                           THEN (written + 1) * PayloadSize ELSE l
      BY <1>1, <1>8 DEF Gatt!Received, Gatt!Length
    <3> DEFINE r == Gatt!Received'
    <3>2. r = off + n
      <4>1. r = IF off + PayloadSize <= l THEN off + PayloadSize ELSE l
        BY <1>2, <3>1
      <4> HIDE DEF r, off, n, l
      <4> QED BY <1>2, <1>3, <4>1
    <3>3. ASSUME NEW a \in 0..r - 1
          PROVE  mem'[a] = track.image[a]
      <4>1. a \in 0..BufferSize - 1 /\ a < off + n
        <5> HIDE DEF r, off, n, l
        <5> QED BY <1>2, <1>3, <3>2
      <4>2. CASE a < off
        <5>1. a \in 0..off - 1
          <6> HIDE DEF r, off
          <6> QED BY <4>1, <4>2, <1>2
        <5> QED BY <1>6, <1>8, <4>1, <4>2, <5>1
      <4>3. CASE ~(a < off)
        <5>1. ~(a < off \/ a >= off + n)
          <6> HIDE DEF off, n, r, l
          <6> QED BY <1>2, <1>3, <4>1, <4>3
        <5> QED BY <1>8, <4>1, <5>1
      <4> QED BY <4>2, <4>3
    <3> QED BY <1>1, <3>3 DEF Gatt!BufferHoldsStream
  <2>3. payloadsReceived' > 0 /\ written' # 0
    BY <1>1, <1>2, <1>8
  <2> QED BY <1>5, <2>1, <2>2, <2>3 DEF StreamInv
<1> QED BY <1>7, <1>8, ContinueFacts

(* Whoever does not touch the stream keeps it.                             *)
LEMMA StreamKept ==
  ASSUME StreamInv, UNCHANGED <<track, mem, written, payloadsReceived>>
  PROVE  StreamInv'
<1>1. /\ Gatt!Length(track)' = Gatt!Length(track)
      /\ Gatt!ChunkLength(track, written - 1)' = Gatt!ChunkLength(track, written - 1)
  BY DEF Gatt!Length, Gatt!ChunkLength
<1>2. CountsAgree' = CountsAgree
  BY <1>1 DEF CountsAgree
<1>3. Gatt!BufferHoldsStream' = Gatt!BufferHoldsStream
  BY DEF Gatt!BufferHoldsStream, Gatt!Received, Gatt!Length
<1> QED BY <1>1, <1>2, <1>3 DEF StreamInv

(* What the run checks of the stream.                                      *)
LEMMA StreamInvFits ==
  ASSUME SystemTypeOK, StreamInv
  PROVE  Gatt!NextPayloadFits
<1> SUFFICES ASSUME written > 0
             PROVE  \/ /\ payloadsReceived = written
                       /\ written * PayloadSize < Gatt!Length(track) =>
                            written * PayloadSize + Gatt!ChunkLength(track, written)
                              <= BufferSize
                    \/ /\ payloadsReceived = written - 1
                       /\ Gatt!ChunkLength(track, written - 1) = 1
                       /\ written * PayloadSize >= Gatt!Length(track)
  BY DEF Gatt!NextPayloadFits
<1> DEFINE l == Gatt!Length(track)
           n == Gatt!ChunkLength(track, written)
           off == written * PayloadSize
<1>1. track \in Tracks /\ written \in Nat
  BY SystemTypes
<1>2. off < l => off + n <= BufferSize
  <2> SUFFICES ASSUME off < l  PROVE off + n <= BufferSize
    OBVIOUS
  <2>1. off + n <= l /\ n \in 1..PayloadSize
    BY <1>1, ChunkIs
  <2>2. l \in Nat /\ l <= BufferSize /\ BufferSize \in Nat /\ off \in Nat /\ PayloadSize \in Nat
    BY <1>1, EventsInside, Sizes, Times
  <2> HIDE DEF l, n, off
  <2> QED BY <2>1, <2>2
<1>3. CountsAgree
  BY DEF StreamInv
<1> QED BY <1>2, <1>3 DEF CountsAgree

-----------------------------------------------------------------------------
(***************************************************************************)
(* The player, while the buffer is written.                                *)
(***************************************************************************)
LEMMA InStepKept ==
  ASSUME NEW i \in 1..Len(track.ev), InStep(i), InMem(i) => InMem(i)',
         UNCHANGED <<track, pc, isPlayingBack, playerVars, wireVars>>
  PROVE  InStep(i)'
<1>1. UNCHANGED <<rxStatus, heard>>
  BY DEF wireVars
<1>2. Turn(i)' /\ (Begun' <=> Begun)
  BY <1>1, TurnKept DEF InStep
<1>3. MessagesBefore(track, i)' = MessagesBefore(track, i)
  BY DEF MessagesBefore, Sounds, Message
<1> QED BY <1>1, <1>2, <1>3 DEF InStep

(* Bytes of the track where others were, or nothing new: what has arrived  *)
(* stays.                                                                  *)
LEMMA InMemKept ==
  ASSUME track \in Tracks, track' = track, NEW i \in 1..Len(track.ev), InMem(i),
         \A a \in 0..BufferSize - 1 :
           a < Gatt!Length(track) => mem'[a] = mem[a] \/ mem'[a] = track.image[a]
  PROVE  InMem(i)'
<1>1. ASSUME NEW a \in track.at[i]..track.at[i + 1] - 1
      PROVE  mem'[a] = track.image[a]
  <2> DEFINE l == Gatt!Length(track)
             b == track.at[i]
             c == track.at[i + 1]
  <2>1. /\ c <= l /\ l <= BufferSize /\ l \in Nat /\ BufferSize \in Nat
        /\ b \in Nat /\ c \in Nat
    BY EventsInside, BodyLayout, Sizes
  <2>2. a \in 0..BufferSize - 1 /\ a < l
    <3>1. a \in b..c - 1
      OBVIOUS
    <3> HIDE DEF l, b, c
    <3> QED BY <2>1, <3>1
  <2>3. mem[a] = track.image[a]
    BY DEF InMem
  <2> QED BY <2>2, <2>3
<1> QED BY <1>1 DEF InMem

(* Another stream under a player that has not begun.                       *)
LEMMA BeginsAnew ==
  ASSUME TypeOK, NEW i \in 1..Len(track.ev), InStep(i), playbackPtr = 0,
         track' \in Tracks, UNCHANGED playVars
  PROVE  1 \in 1..Len(track'.ev) /\ InStep(1)'
<1>0. track \in Tracks
  BY DEF TypeOK
<1>1. Body(i) \in Nat /\ track.at[i] \in Nat /\ track.at[i] < Body(i)
  BY <1>0, BodyLayout
<1>2. playbackPtr # Body(i)
  BY <1>1
<1>3. /\ pc \in {"receive", "service"} /\ BetweenEvents(i) /\ ~isRunningStatus
      /\ playbackPtr = track.at[i] /\ rxStatus = previousStatus
  BY <1>2 DEF InStep, Turn, BetweenEvents, WithinEvent
<1>4. i = 1
  <2>1. IsTrack(track, BufferSize)
    BY <1>0, TracksAssumption
  <2>2. /\ Len(track.ev) \in Nat \ {0} /\ track.at[1] = 0
        /\ \A j, k \in 1..Len(track.ev) + 1 : j < k => track.at[j] < track.at[k]
    BY <2>1 DEF IsTrack
  <2>3. i > 1 => track.at[1] < track.at[i]
    BY <2>2
  <2> QED BY <1>3, <2>2, <2>3
<1>5. heard = <<>>
  BY <1>0, <1>4, MessagesGrow DEF InStep
<1>6. 1 \in 1..Len(track'.ev) /\ track'.at[1] = 0 /\ track'.ctx[1] = 0
  <2>1. IsTrack(track', BufferSize)
    BY TracksAssumption
  <2> QED BY <2>1 DEF IsTrack
<1>7. /\ UNCHANGED <<pc, playbackPtr, isRunningStatus, previousStatus, rxStatus, heard>>
  BY DEF playVars, playerVars, wireVars
<1>8. Turn(1)' /\ ~Begun'
  BY <1>3, <1>6, <1>7 DEF Turn, BetweenEvents, Begun
<1>9. heard' = MessagesBefore(track', 1)
  BY <1>5, <1>7, MessagesGrow
<1>10. heard' = MessagesBefore(track, 1)'
  BY <1>9 DEF MessagesBefore, Sounds, Message
<1> QED BY <1>6, <1>8, <1>10 DEF InStep

(* A write of the client leaves the player in step, or it is the end of    *)
(* what the model follows.                                                 *)
LEMMA WriteKeepsPlayer ==
  ASSUME SystemTypeOK, StreamInv, PlayerInv, Write
  PROVE  PlayerInv'
<1> SUFFICES ASSUME lost' = "no"  PROVE \E i \in 1..Len(track'.ev) : InStep(i)'
  BY DEF PlayerInv
<1>0. TypeOK /\ track \in Tracks
  BY SystemTypes
<1>1. UNCHANGED playVars /\ lost = "no" /\ (track' = track \/ playbackPtr = 0)
  BY DEF Write
<1>2. PICK i \in 1..Len(track.ev) : InStep(i)
  BY <1>1 DEF PlayerInv
<1>3. UNCHANGED <<pc, isPlayingBack, playerVars, wireVars>>
  BY <1>1 DEF playVars
<1>4. ASSUME track' = track,
             \A a \in 0..BufferSize - 1 :
               a < Gatt!Length(track) => mem'[a] = mem[a] \/ mem'[a] = track.image[a]
      PROVE  InStep(i)'
  <2>1. InMem(i) => InMem(i)'
    BY <1>0, <1>4, InMemKept
  <2> QED BY <1>2, <1>3, <1>4, <2>1, InStepKept
<1>5. CASE Gatt!StartStream
  <2>1. /\ track' \in Tracks
        /\ \A a \in 0..BufferSize - 1 :
             IF a < PayloadSize THEN a < Gatt!Length(track') => mem'[a] = track'.image[a]
                                ELSE mem'[a] = mem[a]
    BY <1>5, StartFacts
  <2>2. CASE track' = track
    <3>1. \A a \in 0..BufferSize - 1 :
            a < Gatt!Length(track) => mem'[a] = mem[a] \/ mem'[a] = track.image[a]
      BY <2>1, <2>2
    <3> QED BY <1>4, <2>2, <3>1
  <2>3. CASE playbackPtr = 0
    BY <1>0, <1>1, <1>2, <2>1, <2>3, BeginsAnew
  <2> QED BY <1>1, <2>2, <2>3
<1>6. CASE Gatt!ContinueStream
  <2>1. track' = track
    BY <1>6, ContinueFacts
  <2>2. \A a \in 0..BufferSize - 1 : mem'[a] = mem[a] \/ mem'[a] = track.image[a]
    BY <1>6, ContinueFacts
  <2> QED BY <1>4, <2>1, <2>2
<1>7. CASE Gatt!WriteCommand
  <2>1. track' = track /\ mem' = mem
    BY <1>7, CommandFacts
  <2> QED BY <1>4, <2>1
<1> QED BY <1>5, <1>6, <1>7 DEF Write

(* A step of the loop, as long as the event it reads is there.             *)
LEMMA LoopKeepsPlayer ==
  ASSUME SystemTypeOK, WaitInv, PlayerInv, LoopStep
  PROVE  TypeOK' /\ WaitInv' /\ UNCHANGED dataVars /\ PlayerInv'
<1>0. TypeOK /\ track \in Tracks
  BY SystemTypes
<1>1. /\ lost = "no" /\ lost' = lost /\ Loop
      /\ (pc = "service" /\ Due) => EventArrived
  BY DEF LoopStep
<1>2. PICK i \in 1..Len(track.ev) : InStep(i)
  BY <1>1 DEF PlayerInv
<1>3. Reads => InMem(i)
  <2>1. CASE Begun
    BY <1>2, <2>1 DEF InStep
  <2>2. CASE pc = "service" /\ Due
    <3>1. Position = i
      BY <1>0, <1>2, PositionOfTurn DEF InStep
    <3> QED BY <1>1, <2>2, <3>1 DEF EventArrived, InMem
  <2> QED BY <2>1, <2>2 DEF Reads
<1>4. Outcome(i)
  BY <1>0, <1>1, <1>2, <1>3, LoopOutcome DEF InStep
<1>5. TypeOK' /\ WaitInv' /\ UNCHANGED <<track, mem>> /\ UNCHANGED dataVars
  BY <1>4 DEF Outcome, dataVars
<1>6. \A j : MessagesBefore(track, j)' = MessagesBefore(track, j)
  BY <1>5 DEF MessagesBefore, Sounds, Message
<1>7. heard = MessagesBefore(track, i)
  BY <1>2 DEF InStep
<1>8. \E j \in 1..Len(track.ev) : InStep(j)'
  <2>1. CASE Stays(i)
    <3>1. Begun' => InMem(i)'
      BY <1>3, <1>5, <2>1 DEF Stays, InMem
    <3>2. InStep(i)'
      BY <1>6, <1>7, <2>1, <3>1 DEF Stays, InStep
    <3> QED BY <3>2
  <2>2. CASE Advances(i)
    <3>1. heard' = MessagesBefore(track, i + 1)
      BY <1>0, <1>7, <2>2, MessagesGrow DEF Advances
    <3>2. InStep(i + 1)'
      BY <1>6, <2>2, <3>1 DEF Advances, InStep
    <3> QED BY <2>2, <3>2 DEF Advances
  <2>3. CASE Restarts
    <3>1. heard' = MessagesBefore(track, 1)
      BY <1>0, <2>3, MessagesGrow DEF Restarts
    <3>2. InStep(1)'
      BY <1>6, <2>3, <3>1 DEF Restarts, InStep
    <3> QED BY <2>3, <3>2 DEF Restarts
  <2> QED BY <1>4, <2>1, <2>2, <2>3 DEF Outcome
<1> QED BY <1>5, <1>8 DEF PlayerInv

(* No wait is cut short by what the loop does, but for a stop.             *)
LEMMA LoopKeepsAlarm ==
  ASSUME SystemTypeOK, AlarmInv, LoopStep
  PROVE  AlarmInv'
<1>0. /\ alarm \in Nat /\ stale \in BOOLEAN
      /\ waitingForDeltaTimer \in BOOLEAN /\ deltaTimerFired \in BOOLEAN
      /\ stale' = (stale \/ (ReceiveCommand /\ waitingForDeltaTimer
                               /\ ~waitingForDeltaTimer' /\ alarm > 0))
  BY SystemTypes DEF TypeOK, LoopStep
<1>1. CASE ReceiveNothing \/ NotDue \/ SendMessage
  BY <1>0, <1>1 DEF ReceiveNothing, NotDue, SendMessage, timerVars, AlarmInv
<1>2. CASE ReceiveCommand
  <2>1. /\ pc = "receive" /\ pc' = "service" /\ UNCHANGED <<deltaTimerFired, alarm>>
        /\ waitingForDeltaTimer' => waitingForDeltaTimer
    BY <1>2 DEF ReceiveCommand, timerVars
  <2> QED BY <1>0, <1>2, <2>1 DEF AlarmInv
<1>3. CASE PlayMeta \/ PlayVoice \/ FindRunningStatus
  <2>1. /\ WakeUp /\ UNCHANGED alarm /\ Due /\ pc = "service" /\ pc' # "start"
    BY <1>3 DEF PlayMeta, PlayVoice, FindRunningStatus
  <2>2. waitingForDeltaTimer => deltaTimerFired
    BY <2>1 DEF Due
  <2> QED BY <1>0, <2>1, <2>2 DEF WakeUp, AlarmInv
<1>4. CASE ArmWait
  BY <1>0, <1>4 DEF ArmWait, AlarmInv
<1>5. CASE StartTimer
  BY <1>0, <1>5 DEF StartTimer, AlarmInv
<1> QED BY <1>1, <1>2, <1>3, <1>4, <1>5 DEF LoopStep, Loop, Player

-----------------------------------------------------------------------------
(***************************************************************************)
(* The invariant of the system.                                            *)
(***************************************************************************)
LEMMA SystemInitInv == SystemInit => SystemInv
<1> SUFFICES ASSUME SystemInit  PROVE SystemInv
  OBVIOUS
<1>1. /\ track \in Tracks /\ written = 0 /\ payloadsReceived = 0 /\ gattPc = "idle"
      /\ mem = [a \in 0..BufferSize - 1 |-> 0]
      /\ eventBuffer = [a \in 0..PayloadSize - 1 |-> 0]
      /\ item = [opcode |-> 0, dataLength |-> 0]
  BY SameSets DEF SystemInit, Gatt!Init
<1>2. /\ LoopInit /\ lost = "no" /\ dropped = FALSE /\ stale = FALSE
  BY DEF SystemInit
<1>3. 0 \in Byte /\ 0 \in UInt16
  BY SMT DEF Byte, UInt16
<1>4. TypeOK
  <2>1. mem \in [0..BufferSize - 1 -> Byte]
    BY <1>1, <1>3
  <2>2. /\ queue = <<>> /\ heard = <<>> /\ pc = "receive"
        /\ previousStatus = 0 /\ rxStatus = 0 /\ alarm = 0 /\ playbackPtr = 0
        /\ currentDeltaTime = 0 /\ totalDataLength = 0 /\ bytesToSend = 0
        /\ isPlayingBack = FALSE /\ waitingForDeltaTimer = FALSE
        /\ deltaTimerFired = FALSE /\ isRunningStatus = FALSE
    BY <1>2 DEF LoopInit
  <2>3. queue \in Seq(QueueItem) /\ Len(queue) <= QueueLength /\ heard \in Seq(Seq(Byte))
    BY <2>2, QueueAssumption
  <2>4. /\ previousStatus \in {0} \cup 128..239 /\ rxStatus \in {0} \cup 128..239
        /\ alarm \in Nat /\ playbackPtr \in Nat /\ currentDeltaTime \in Nat
        /\ totalDataLength \in Nat /\ bytesToSend \in 0..255
    BY <2>2
  <2>5. /\ isPlayingBack \in BOOLEAN /\ waitingForDeltaTimer \in BOOLEAN
        /\ deltaTimerFired \in BOOLEAN /\ isRunningStatus \in BOOLEAN
        /\ pc \in {"receive", "service", "arm", "start", "send"}
    BY <2>2
  <2> QED BY <1>1, <2>1, <2>3, <2>4, <2>5 DEF TypeOK
<1>5. SystemTypeOK
  <2>1. Gatt!TypeOK
    <3>1. queue \in Seq(QueueItem) /\ Len(queue) <= QueueLength
          /\ mem \in [0..BufferSize - 1 -> Byte]
      BY <1>4 DEF TypeOK
    <3>2. eventBuffer \in [0..PayloadSize - 1 -> Byte] /\ item \in QueueItem
      BY <1>1, <1>3 DEF QueueItem
    <3> QED BY <1>1, <3>1, <3>2, SameSets DEF Gatt!TypeOK
  <2> QED BY <1>2, <1>4, <2>1 DEF SystemTypeOK
<1>6. StreamInv
  BY <1>1 DEF StreamInv, Gatt!BufferHoldsStream
<1>7. WaitInv /\ AlarmInv
  BY <1>2 DEF LoopInit, WaitInv, NoLostWakeup, AlarmInv
<1>8. PlayerInv
  <2>1. 1 \in 1..Len(track.ev) /\ track.at[1] = 0 /\ track.ctx[1] = 0
    <3>1. IsTrack(track, BufferSize)
      BY <1>1, TracksAssumption
    <3> QED BY <3>1 DEF IsTrack
  <2>2. Turn(1) /\ ~Begun /\ heard = <<>>
    BY <1>2, <2>1 DEF LoopInit, Turn, BetweenEvents, Begun
  <2>3. InStep(1)
    BY <1>1, <2>2, MessagesGrow DEF InStep
  <2> QED BY <2>1, <2>3 DEF PlayerInv
<1> QED BY <1>5, <1>6, <1>7, <1>8 DEF SystemInv

LEMMA LoopStepInv == SystemInv /\ LoopStep => SystemInv'
<1> SUFFICES ASSUME SystemInv, LoopStep  PROVE SystemInv'
  OBVIOUS
<1>0. SystemTypeOK /\ WaitInv /\ StreamInv /\ PlayerInv /\ AlarmInv
  BY DEF SystemInv
<1>1. TypeOK' /\ WaitInv' /\ PlayerInv' /\ UNCHANGED <<track, mem>>
  BY <1>0, LoopKeepsPlayer DEF dataVars
<1>2. UNCHANGED <<written, eventBuffer, payloadsReceived, gattPc, item, lost, dropped>>
  BY DEF LoopStep, gattVars
<1>3. stale' \in BOOLEAN
  BY <1>0, SystemTypes DEF LoopStep
<1>4. SystemTypeOK'
  BY <1>0, <1>1, <1>2, <1>3, SystemTypes, SystemTypesNext
<1>5. StreamInv'
  BY <1>0, <1>1, <1>2, StreamKept
<1>6. AlarmInv'
  BY <1>0, LoopKeepsAlarm
<1> QED BY <1>1, <1>4, <1>5, <1>6 DEF SystemInv

LEMMA UnderrunInv == SystemInv /\ Underrun => SystemInv'
<1> SUFFICES ASSUME SystemInv, Underrun  PROVE SystemInv'
  OBVIOUS
<1>0. SystemTypeOK /\ WaitInv /\ StreamInv /\ AlarmInv
  BY DEF SystemInv
<1>1. /\ UNCHANGED <<track, mem, queue, pc, totalDataLength, isPlayingBack,
                     waitingForDeltaTimer, deltaTimerFired, alarm, playbackPtr,
                     isRunningStatus, currentDeltaTime, previousStatus, bytesToSend,
                     rxStatus, heard>>
      /\ UNCHANGED <<written, eventBuffer, payloadsReceived, gattPc, item, dropped, stale>>
      /\ lost' = "underrun"
  BY DEF Underrun, vars, dataVars, loopVars, timerVars, playerVars, wireVars, gattVars
<1>2. TypeOK'
  BY <1>0, <1>1, SystemTypes DEF TypeOK
<1>3. SystemTypeOK'
  BY <1>0, <1>1, <1>2, SystemTypes, SystemTypesNext
<1>4. StreamInv'
  BY <1>0, <1>1, StreamKept
<1>5. WaitInv' /\ AlarmInv' /\ PlayerInv'
  BY <1>0, <1>1 DEF WaitInv, NoLostWakeup, AlarmInv, PlayerInv
<1> QED BY <1>3, <1>4, <1>5 DEF SystemInv

LEMMA TimerInv == SystemInv /\ Timer => SystemInv'
<1> SUFFICES ASSUME SystemInv, Timer  PROVE SystemInv'
  OBVIOUS
<1>0. SystemTypeOK /\ WaitInv /\ StreamInv /\ PlayerInv /\ AlarmInv /\ TimerTick /\ TypeOK
  BY SystemTypes DEF SystemInv, Timer
<1>1. /\ UNCHANGED <<track, mem, queue, pc, isPlayingBack, waitingForDeltaTimer,
                     playerVars, wireVars>>
      /\ UNCHANGED <<written, eventBuffer, payloadsReceived, gattPc, item, lost,
                     dropped, stale>>
      /\ alarm > 0 /\ alarm' = alarm - 1
      /\ deltaTimerFired' = (deltaTimerFired \/ alarm = 1)
  BY <1>0 DEF Timer, TimerTick, dataVars, loopVars, gattVars, ghostVars
<1>2. TypeOK' /\ WaitInv'
  BY <1>0, TimerTickTypes
<1>3. SystemTypeOK'
  BY <1>0, <1>1, <1>2, SystemTypes, SystemTypesNext
<1>4. StreamInv'
  BY <1>0, <1>1, StreamKept
<1>5. AlarmInv'
  <2>1. alarm \in Nat /\ stale \in BOOLEAN /\ deltaTimerFired \in BOOLEAN
    BY <1>0, SystemTypes DEF TypeOK
  <2> QED BY <1>0, <1>1, <2>1 DEF AlarmInv
<1>6. PlayerInv'
  <2> SUFFICES ASSUME lost' = "no"  PROVE \E i \in 1..Len(track'.ev) : InStep(i)'
    BY DEF PlayerInv
  <2>1. PICK i \in 1..Len(track.ev) : InStep(i)
    BY <1>0, <1>1 DEF PlayerInv
  <2>2. InMem(i) => InMem(i)'
    BY <1>1 DEF InMem
  <2>3. InStep(i)'
    BY <1>1, <2>1, <2>2, InStepKept
  <2> QED BY <1>1, <2>3
<1> QED BY <1>2, <1>3, <1>4, <1>5, <1>6 DEF SystemInv

LEMMA WriteInv == SystemInv /\ Write => SystemInv'
<1> SUFFICES ASSUME SystemInv, Write  PROVE SystemInv'
  OBVIOUS
<1>0. SystemTypeOK /\ WaitInv /\ StreamInv /\ PlayerInv /\ AlarmInv /\ TypeOK
  BY SystemTypes DEF SystemInv
<1>1. /\ UNCHANGED <<pc, totalDataLength, isPlayingBack, waitingForDeltaTimer,
                     deltaTimerFired, alarm, playbackPtr, isRunningStatus,
                     currentDeltaTime, previousStatus, bytesToSend, rxStatus, heard>>
      /\ UNCHANGED <<dropped, stale>> /\ lost' \in {lost, "overwritten"}
  BY DEF Write, playVars, timerVars, playerVars, wireVars
<1>2. PlayerInv'
  BY <1>0, WriteKeepsPlayer
<1>3. /\ track' \in Tracks /\ UNCHANGED queue
      /\ mem' \in [0..BufferSize - 1 -> Byte]
      /\ eventBuffer' \in [0..PayloadSize - 1 -> Byte]
      /\ written' \in Nat /\ payloadsReceived' \in Nat
      /\ gattPc' \in {"idle", "post"} /\ item' \in QueueItem
      /\ StreamInv'
  <2>0. /\ track \in Tracks /\ mem \in [0..BufferSize - 1 -> Byte]
        /\ written \in Nat /\ payloadsReceived \in Nat
        /\ gattPc \in {"idle", "post"} /\ item \in QueueItem
    BY <1>0, SystemTypes
  <2>1. CASE Gatt!StartStream
    <3>1. [opcode |-> 1, dataLength |-> PayloadSize] \in QueueItem
      <4>1. 1 \in Byte /\ PayloadSize \in UInt16
        BY PayloadAssumption, SMT DEF Byte
      <4> QED BY <4>1 DEF QueueItem
    <3>2. StreamInv'
      BY <1>0, <2>1, StartKeepsStream
    <3> QED BY <1>0, <2>1, <3>1, <3>2, StartFacts
  <2>2. CASE Gatt!ContinueStream
    <3> DEFINE n == Gatt!ChunkLength(track, written)
    <3>1. [opcode |-> 2, dataLength |-> n] \in QueueItem
      <4>1. n \in 1..PayloadSize
        BY <1>0, <2>0, <2>2, ContinueFacts, ChunkIs
      <4>2. n \in UInt16
        <5> HIDE DEF n
        <5> QED BY <4>1, Sizes
      <4>3. 2 \in Byte
        BY SMT DEF Byte
      <4> QED BY <4>2, <4>3 DEF QueueItem
    <3>2. StreamInv'
      BY <1>0, <2>2, ContinueKeepsStream
    <3>3. /\ track' = track /\ UNCHANGED queue /\ written' = written + 1
          /\ mem' \in [0..BufferSize - 1 -> Byte]
          /\ eventBuffer' \in [0..PayloadSize - 1 -> Byte]
          /\ payloadsReceived' \in {payloadsReceived, written + 1}
          /\ gattPc' \in {gattPc, "post"}
          /\ item' \in {item, [opcode |-> 2, dataLength |-> n]}
      BY <1>0, <2>2, ContinueFacts
    <3> QED BY <2>0, <3>1, <3>2, <3>3
  <2>3. CASE Gatt!WriteCommand
    <3>1. /\ UNCHANGED <<track, written, queue, mem, payloadsReceived>>
          /\ gattPc' = "post" /\ item' \in QueueItem
          /\ eventBuffer' \in [0..PayloadSize - 1 -> Byte]
      BY <1>0, <2>3, CommandFacts
    <3>2. StreamInv'
      BY <1>0, <3>1, StreamKept
    <3> QED BY <2>0, <3>1, <3>2
  <2> QED BY <2>1, <2>2, <2>3 DEF Write
<1>4. TypeOK'
  BY <1>0, <1>1, <1>3 DEF TypeOK
<1>5. SystemTypeOK'
  BY <1>0, <1>1, <1>3, <1>4, SystemTypes, SystemTypesNext
<1>6. WaitInv' /\ AlarmInv'
  BY <1>0, <1>1 DEF WaitInv, NoLostWakeup, AlarmInv
<1> QED BY <1>2, <1>3, <1>5, <1>6 DEF SystemInv

LEMMA PostFacts ==
  ASSUME SystemTypeOK, PostItem
  PROVE  /\ gattPc = "post" /\ gattPc' = "idle"
         /\ queue' = IF Len(queue) < QueueLength THEN Append(queue, item) ELSE queue
         /\ queue' \in Seq(QueueItem) /\ Len(queue') <= QueueLength
         /\ dropped' = (Len(queue) = QueueLength \/ (item.opcode # 1 /\ dropped))
         /\ UNCHANGED <<track, written, mem, eventBuffer, payloadsReceived, item>>
         /\ UNCHANGED <<playVars, lost, stale>>
<1>1. /\ gattPc = "post" /\ gattPc' = "idle"
      /\ queue' = IF Len(queue) < QueueLength THEN Append(queue, item) ELSE queue
      /\ dropped' = (Len(queue) = QueueLength \/ (item.opcode # 1 /\ dropped))
      /\ UNCHANGED <<track, written, mem, eventBuffer, payloadsReceived, item>>
      /\ UNCHANGED <<playVars, lost, stale>>
  BY DEF PostItem, Gatt!Post, Gatt!clientVars
<1>2. queue \in Seq(QueueItem) /\ Len(queue) <= QueueLength /\ item \in QueueItem
  BY SystemTypes
<1>3. queue' \in Seq(QueueItem) /\ Len(queue') <= QueueLength
  <2>1. CASE Len(queue) < QueueLength
    <3>1. Append(queue, item) \in Seq(QueueItem) /\ Len(Append(queue, item)) = Len(queue) + 1
      BY <1>2
    <3>2. Len(queue) \in Nat /\ QueueLength \in Nat
      BY <1>2, QueueAssumption
    <3>3. Len(queue) + 1 <= QueueLength
      BY <2>1, <3>2
    <3> QED BY <1>1, <2>1, <3>1, <3>3
  <2>2. CASE ~(Len(queue) < QueueLength)
    BY <1>1, <1>2, <2>2
  <2> QED BY <2>1, <2>2
<1> QED BY <1>1, <1>3

LEMMA PostItemInv == SystemInv /\ PostItem => SystemInv'
<1> SUFFICES ASSUME SystemInv, PostItem  PROVE SystemInv'
  OBVIOUS
<1>0. SystemTypeOK /\ WaitInv /\ StreamInv /\ PlayerInv /\ AlarmInv /\ TypeOK
  BY SystemTypes DEF SystemInv
<1>1. /\ UNCHANGED <<pc, totalDataLength, isPlayingBack, waitingForDeltaTimer,
                     timerVars, playerVars, wireVars, lost, stale>>
      /\ UNCHANGED <<track, written, mem, eventBuffer, payloadsReceived, item>>
      /\ queue' \in Seq(QueueItem) /\ Len(queue') <= QueueLength
      /\ gattPc' = "idle" /\ dropped' \in BOOLEAN
  BY <1>0, PostFacts DEF playVars
<1>2. TypeOK'
  BY <1>0, <1>1 DEF TypeOK, timerVars, playerVars, wireVars
<1>3. SystemTypeOK'
  BY <1>0, <1>1, <1>2, SystemTypes, SystemTypesNext
<1>4. StreamInv'
  BY <1>0, <1>1, StreamKept
<1>5. WaitInv' /\ AlarmInv'
  BY <1>0, <1>1 DEF WaitInv, NoLostWakeup, AlarmInv, timerVars, playerVars
<1>6. PlayerInv'
  <2> SUFFICES ASSUME lost' = "no"  PROVE \E i \in 1..Len(track'.ev) : InStep(i)'
    BY DEF PlayerInv
  <2>1. PICK i \in 1..Len(track.ev) : InStep(i)
    BY <1>0, <1>1 DEF PlayerInv
  <2>2. InMem(i) => InMem(i)'
    BY <1>1 DEF InMem
  <2>3. InStep(i)'
    BY <1>1, <2>1, <2>2, InStepKept
  <2> QED BY <1>1, <2>3
<1> QED BY <1>3, <1>4, <1>5, <1>6 DEF SystemInv

LEMMA SystemStutter == SystemInv /\ UNCHANGED systemVars => SystemInv'
<1> SUFFICES ASSUME SystemInv, UNCHANGED systemVars  PROVE SystemInv'
  OBVIOUS
<1>0. SystemTypeOK /\ WaitInv /\ StreamInv /\ PlayerInv /\ AlarmInv /\ TypeOK
  BY SystemTypes DEF SystemInv
<1>1. /\ UNCHANGED <<track, mem, queue, pc, totalDataLength, isPlayingBack,
                     waitingForDeltaTimer, timerVars, playerVars, wireVars>>
      /\ UNCHANGED <<written, eventBuffer, payloadsReceived, gattPc, item, lost,
                     dropped, stale>>
  BY DEF systemVars, vars, dataVars, loopVars, gattVars, ghostVars
<1>2. TypeOK'
  BY <1>0, <1>1 DEF TypeOK, timerVars, playerVars, wireVars
<1>3. SystemTypeOK'
  BY <1>0, <1>1, <1>2, SystemTypes, SystemTypesNext
<1>4. StreamInv'
  BY <1>0, <1>1, StreamKept
<1>5. WaitInv' /\ AlarmInv'
  BY <1>0, <1>1 DEF WaitInv, NoLostWakeup, AlarmInv, timerVars, playerVars
<1>6. PlayerInv'
  <2> SUFFICES ASSUME lost' = "no"  PROVE \E i \in 1..Len(track'.ev) : InStep(i)'
    BY DEF PlayerInv
  <2>1. PICK i \in 1..Len(track.ev) : InStep(i)
    BY <1>0, <1>1 DEF PlayerInv
  <2>2. InMem(i) => InMem(i)'
    BY <1>1 DEF InMem
  <2>3. InStep(i)'
    BY <1>1, <2>1, <2>2, InStepKept
  <2> QED BY <1>1, <2>3
<1> QED BY <1>3, <1>4, <1>5, <1>6 DEF SystemInv

(* SystemInv is inductive: whatever the two cores, the interrupt and the   *)
(* client do next, the stream is in place and the player in step with it.  *)
THEOREM SystemInductive == SystemInv /\ [SystemNext]_systemVars => SystemInv'
  BY LoopStepInv, UnderrunInv, TimerInv, WriteInv, PostItemInv, SystemStutter
  DEF SystemNext

THEOREM SystemInvariance == SystemSpec => []SystemInv
  BY SystemInitInv, SystemInductive, PTL DEF SystemSpec

(* What the callback has counted of a stream is in the buffer, byte for    *)
(* byte, and the next payload will land behind it and inside the           *)
(* allocation, whatever track follows which and however long the last      *)
(* payload is.                                                             *)
THEOREM StreamStaysInPlace == SystemSpec => []StreamInPlace
<1>1. SystemInv => StreamInPlace
  BY StreamInvFits DEF SystemInv, StreamInv, StreamInPlace
<1> QED BY <1>1, SystemInvariance, PTL

(* As long as the player does not overtake the stream and no other stream  *)
(* begins under it, the instrument has heard exactly the messages of the   *)
(* events in front of the playback pointer, while the other core copies    *)
(* payloads and posts items at any point of a turn.                        *)
THEOREM InstrumentHearsStream == SystemSpec => []HearsTheStream
<1>1. SystemInv => HearsTheStream
  <2> SUFFICES ASSUME SystemInv, lost = "no", pc \in {"receive", "service"}
               PROVE  OnEventBoundary /\ heard = MessagesBefore(track, Position)
    BY DEF HearsTheStream
  <2>1. SystemTypeOK /\ TypeOK /\ track \in Tracks
    BY SystemTypes DEF SystemInv
  <2>2. PICK i \in 1..Len(track.ev) : InStep(i)
    BY DEF SystemInv, PlayerInv
  <2>3. Position = i /\ heard = MessagesBefore(track, i)
    BY <2>1, <2>2, PositionOfTurn DEF InStep
  <2>4. isRunningStatus => DeltaLen(mem, track.at[i]) = DeltaLen(track.image, track.at[i])
    BY <2>1, <2>2, EventInMem DEF InStep, Begun
  <2>5. OnEventBoundary
    BY <2>2, <2>4 DEF InStep, Turn, BetweenEvents, Body, OnEventBoundary
  <2> QED BY <2>3, <2>5
<1> QED BY <1>1, SystemInvariance, PTL

(* A wait that is over has had its whole time, until a stop leaves an      *)
(* alarm behind.                                                           *)
THEOREM WaitsAreWhole == SystemSpec => []NoWaitCutShort
<1>1. SystemInv => NoWaitCutShort
  BY DEF SystemInv, AlarmInv, NoWaitCutShort, NoEarlyWake
<1> QED BY <1>1, SystemInvariance, PTL
-----------------------------------------------------------------------------
(***************************************************************************)
(* The count of a stream's bytes.                                          *)
(***************************************************************************)

(* What an item makes of a count.                                          *)
Counted(total, it) ==
  CASE it.opcode = 1 -> it.dataLength
    [] it.opcode = 2 -> total + it.dataLength
    [] OTHER         -> total

LEMMA CountedType ==
  ASSUME NEW total \in Nat, NEW it \in QueueItem
  PROVE  Counted(total, it) \in Nat
<1>1. it.dataLength \in Nat
  <2> DEFINE most == 65535
  <2>1. UInt16 = 0..most /\ most \in Nat
    BY DEF UInt16
  <2>2. it.dataLength \in UInt16
    BY DEF QueueItem
  <2> HIDE DEF most
  <2> QED BY <2>1, <2>2
<1> QED BY <1>1 DEF Counted

(* The counts after each of a sequence of items.                           *)
Counts(u, n, items) == \A k \in 1..n : u[k] = Counted(u[k - 1], items[k])

IsCount(u, total, items) ==
  /\ u \in [0..Len(items) -> Nat]
  /\ u[0] = total
  /\ Counts(u, Len(items), items)

LEMMA ToldBy ==
  ASSUME NEW total \in Nat, NEW items \in Seq(QueueItem)
  PROVE  \E u : IsCount(u, total, items) /\ Told(total, items) = u[Len(items)]
<1> DEFINE n == Len(items)
           F(g) == [k \in 0..n |-> IF k = 0 THEN total
                                   ELSE CASE items[k].opcode = 1 -> items[k].dataLength
                                          [] items[k].opcode = 2 ->
                                               g[k - 1] + items[k].dataLength
                                          [] OTHER -> g[k - 1]]
           u == CHOOSE g : g = F(g)
           step == [p \in (1..n) \X Nat |-> Counted(p[2], items[p[1]])]
<1>1. n \in Nat /\ \A k \in 1..n : items[k] \in QueueItem
  OBVIOUS
<1>2. step \in [(1..n) \X Nat -> Nat]
  <2>1. ASSUME NEW p \in (1..n) \X Nat
        PROVE  Counted(p[2], items[p[1]]) \in Nat
    <3>1. p[2] \in Nat /\ items[p[1]] \in QueueItem
      BY <1>1
    <3> QED BY <3>1, CountedType
  <2> QED BY <2>1
<1>3. PICK g : IsTable(g, n, Nat, total, step)
  <2>1. \E g : IsTable(g, n, Nat, total, step)
    <3> HIDE DEF n, step
    <3> QED BY <1>1, <1>2, TableExists
  <2> HIDE DEF n, step
  <2> QED BY <2>1
<1>4. /\ g \in [0..n -> Nat] /\ g[0] = total
      /\ \A k \in 1..n : g[k] = step[<<k, g[k - 1]>>]
  <2> HIDE DEF n, step
  <2> QED BY <1>3 DEF IsTable
<1>5. ASSUME NEW k \in 1..n
      PROVE  g[k] = Counted(g[k - 1], items[k])
  <2>1. <<k, g[k - 1]>> \in (1..n) \X Nat
    <3>1. k - 1 \in 0..n
      BY <1>1
    <3> HIDE DEF n, step
    <3> QED BY <1>4, <3>1
  <2>2. step[<<k, g[k - 1]>>] = Counted(g[k - 1], items[k])
    BY <2>1
  <2> HIDE DEF n, step
  <2> QED BY <1>4, <2>2
<1>6. \A k \in 0..n : g[k] = F(g)[k]
  <2> TAKE k \in 0..n
  <2>1. CASE k = 0
    <3>1. g[0] = total
      <4> HIDE DEF n, step
      <4> QED BY <1>4
    <3> QED BY <1>1, <2>1, <3>1
  <2>2. CASE k # 0
    <3>1. k \in 1..n
      BY <1>1, <2>2
    <3> QED BY <1>5, <2>2, <3>1 DEF Counted
  <2> QED BY <2>1, <2>2
<1>7. g = F(g)
  <2>1. g = [k \in 0..n |-> g[k]]
    <3> HIDE DEF n, step
    <3> QED BY <1>4
  <2> QED BY <1>6, <2>1
<1>8. u = F(u)
  <2>1. \E h : h = F(h)
    BY <1>7
  <2> HIDE DEF F
  <2> QED BY <2>1, Zenon
<1>9. Told(total, items) = u[n]
  BY DEF Told
<1> HIDE DEF u
<1>10. u[0] = total
  <2>1. 0 \in 0..n
    BY <1>1
  <2>2. u[0] = F(u)[0]
    BY <1>8, Zenon
  <2> QED BY <2>1, <2>2
<1>11. ASSUME NEW k \in 1..n
       PROVE  u[k] = Counted(u[k - 1], items[k])
  <2>1. k \in 0..n /\ k # 0
    BY <1>1
  <2>2. u[k] = F(u)[k]
    BY <1>8, Zenon
  <2> QED BY <2>1, <2>2 DEF Counted
<1>12. \A k \in 0..n : u[k] \in Nat
  <2> DEFINE P == {k \in 0..n : u[k] \in Nat}
  <2>1. 0 \in P
    BY <1>1, <1>10
  <2>2. \A k \in 1..n : k - 1 \in P => k \in P
    <3> TAKE k \in 1..n
    <3> HAVE k - 1 \in P
    <3>1. u[k - 1] \in Nat /\ k \in 0..n
      OBVIOUS
    <3>2. u[k] \in Nat
      BY <1>1, <1>11, <3>1, CountedType
    <3> QED BY <3>1, <3>2
  <2>3. \A k \in 0..n : k \in P
    <3> HIDE DEF P, n
    <3> QED BY <1>1, <2>1, <2>2, UpTo
  <2> QED BY <2>3
<1>13. u \in [0..n -> Nat]
  <2>1. u = [k \in 0..n |-> u[k]]
    <3>1. \A h : F(h) = [k \in 0..n |-> F(h)[k]]
      OBVIOUS
    <3> HIDE DEF F
    <3> QED BY <1>8, <3>1, Zenon
  <2> HIDE DEF n
  <2> QED BY <1>12, <2>1
<1>14. Counts(u, n, items)
  BY <1>11 DEF Counts
<1> QED BY <1>9, <1>10, <1>13, <1>14 DEF IsCount

(* Two counts of the same items are the same.                              *)
LEMMA SameCount ==
  ASSUME NEW n \in Nat, NEW u, NEW v, NEW items, u[0] = v[0],
         Counts(u, n, items), Counts(v, n, items)
  PROVE  u[n] = v[n]
<1> DEFINE P == {k \in 0..n : u[k] = v[k]}
<1>1. 0 \in P
  OBVIOUS
<1>2. \A k \in 1..n : k - 1 \in P => k \in P
  <2> TAKE k \in 1..n
  <2> HAVE k - 1 \in P
  <2>1. u[k - 1] = v[k - 1] /\ k \in 0..n
    OBVIOUS
  <2>2. u[k] = v[k]
    BY <2>1 DEF Counts
  <2> QED BY <2>1, <2>2
<1>3. \A k \in 0..n : k \in P
  <2> HIDE DEF P
  <2> QED BY <1>1, <1>2, UpTo
<1> QED BY <1>3

LEMMA ToldType ==
  ASSUME NEW total \in Nat, NEW items \in Seq(QueueItem)
  PROVE  Told(total, items) \in Nat
<1>1. PICK u : IsCount(u, total, items) /\ Told(total, items) = u[Len(items)]
  BY ToldBy
<1>2. Len(items) \in 0..Len(items)
  OBVIOUS
<1> QED BY <1>1, <1>2 DEF IsCount

(* The loop is told of one item more.                                      *)
LEMMA ToldAppend ==
  ASSUME NEW total \in Nat, NEW items \in Seq(QueueItem), NEW it \in QueueItem
  PROVE  Told(total, Append(items, it)) = Counted(Told(total, items), it)
<1> DEFINE more == Append(items, it)
           n == Len(items)
<1>1. /\ more \in Seq(QueueItem) /\ Len(more) = n + 1 /\ n \in Nat
      /\ more[n + 1] = it /\ \A k \in 1..n : more[k] = items[k]
  OBVIOUS
<1> HIDE DEF more
<1>2. PICK u : IsCount(u, total, items) /\ Told(total, items) = u[n]
  BY ToldBy
<1>3. PICK v : IsCount(v, total, more) /\ Told(total, more) = v[n + 1]
  BY <1>1, ToldBy
<1> HIDE DEF n
<1>4. v[n] = u[n]
  <2>1. v[0] = u[0] /\ Counts(u, n, items)
    BY <1>2, <1>3 DEF IsCount, n
  <2>2. Counts(v, n, items)
    <3> SUFFICES ASSUME NEW k \in 1..n  PROVE v[k] = Counted(v[k - 1], items[k])
      BY DEF Counts
    <3>1. k \in 1..n + 1
      BY <1>1
    <3>2. v[k] = Counted(v[k - 1], more[k])
      BY <1>1, <1>3, <3>1 DEF IsCount, Counts
    <3> QED BY <1>1, <3>2
  <2> QED BY <1>1, <2>1, <2>2, SameCount
<1>5. v[n + 1] = Counted(v[n], it)
  <2>1. n + 1 \in 1..n + 1 /\ (n + 1) - 1 = n
    BY <1>1
  <2>2. v[n + 1] = Counted(v[(n + 1) - 1], more[n + 1])
    BY <1>1, <1>3, <2>1 DEF IsCount, Counts
  <2> QED BY <1>1, <2>1, <2>2
<1> QED BY <1>2, <1>3, <1>4, <1>5 DEF more

(* The loop takes the first item.                                          *)
LEMMA ToldTail ==
  ASSUME NEW total \in Nat, NEW items \in Seq(QueueItem), items # <<>>
  PROVE  Told(total, items) = Told(Counted(total, Head(items)), Tail(items))
<1> DEFINE rest == Tail(items)
           n == Len(items)
<1>1. /\ rest \in Seq(QueueItem) /\ Len(rest) = n - 1 /\ n \in Nat /\ n >= 1
      /\ Head(items) = items[1] /\ items[1] \in QueueItem
      /\ \A k \in 1..n - 1 : rest[k] = items[k + 1]
  OBVIOUS
<1> HIDE DEF rest
<1>2. PICK u : IsCount(u, total, items) /\ Told(total, items) = u[n]
  BY ToldBy
<1> DEFINE start == Counted(total, items[1])
<1>3. PICK v : IsCount(v, start, rest) /\ Told(start, rest) = v[n - 1]
  <2>1. start \in Nat
    BY <1>1, CountedType
  <2> HIDE DEF start, n
  <2> QED BY <1>1, <2>1, ToldBy
<1> DEFINE w == [k \in 0..n - 1 |-> u[k + 1]]
<1>4. w[n - 1] = v[n - 1]
  <2>0. /\ u[0] = total /\ v[0] = start /\ n - 1 \in Nat
        /\ \A k \in 1..n : u[k] = Counted(u[k - 1], items[k])
        /\ \A k \in 1..n - 1 : v[k] = Counted(v[k - 1], rest[k])
    BY <1>1, <1>2, <1>3 DEF IsCount, Counts
  <2>1. w[0] = v[0]
    <3>1. 1 \in 1..n /\ 0 \in 0..n - 1 /\ 1 - 1 = 0 /\ 0 + 1 = 1
      BY <1>1
    <3>2. u[1] = Counted(u[1 - 1], items[1])
      BY <2>0, <3>1
    <3> QED BY <2>0, <3>1, <3>2
  <2>2. Counts(w, n - 1, rest)
    <3> SUFFICES ASSUME NEW k \in 1..n - 1
                 PROVE  w[k] = Counted(w[k - 1], rest[k])
      BY DEF Counts
    <3>1. /\ k + 1 \in 1..n /\ k \in 0..n - 1 /\ k - 1 \in 0..n - 1
          /\ (k + 1) - 1 = k /\ (k - 1) + 1 = k
      BY <1>1
    <3>2. u[k + 1] = Counted(u[k], rest[k])
      BY <1>1, <2>0, <3>1
    <3> QED BY <3>1, <3>2
  <2>3. Counts(v, n - 1, rest)
    BY <2>0 DEF Counts
  <2> HIDE DEF w, n
  <2> QED BY <2>0, <2>1, <2>2, <2>3, SameCount
<1>5. w[n - 1] = u[n]
  <2>1. n - 1 \in 0..n - 1 /\ (n - 1) + 1 = n
    BY <1>1
  <2> QED BY <2>1
<1> QED BY <1>1, <1>2, <1>3, <1>4, <1>5 DEF rest

(* What is on its way, and what one item more or less makes of it.         *)
LEMMA OnItsWayType ==
  ASSUME SystemTypeOK
  PROVE  OnItsWay \in Seq(QueueItem) /\ totalDataLength \in Nat
<1>1. queue \in Seq(QueueItem) /\ item \in QueueItem /\ TypeOK
  BY SystemTypes
<1>2. totalDataLength \in Nat
  BY <1>1 DEF TypeOK
<1> QED BY <1>1, <1>2 DEF OnItsWay

LEMMA CountKept ==
  ASSUME CountInv,
         UNCHANGED <<totalDataLength, queue, track, gattPc, item, payloadsReceived, dropped>>
  PROVE  CountInv'
<1>1. OnItsWay' = OnItsWay
  BY DEF OnItsWay
<1>2. Told(totalDataLength, OnItsWay)' = Told(totalDataLength, OnItsWay)
  BY <1>1 DEF Told
<1>3. Copied' = Copied
  BY DEF Copied, Gatt!ChunkLength, Gatt!Length
<1> QED BY <1>2, <1>3 DEF CountInv

LEMMA LoopStepCounts ==
  ASSUME SystemTypeOK, CountInv, LoopStep
  PROVE  CountInv'
<1>1. Loop /\ UNCHANGED <<gattPc, item, payloadsReceived, dropped>>
  BY DEF LoopStep, gattVars
<1>2. CASE ReceiveCommand
  <2>1. /\ queue # <<>> /\ queue' = Tail(queue) /\ track' = track
        /\ totalDataLength' = Counted(totalDataLength, Head(queue))
    BY <1>2 DEF ReceiveCommand, TotalAfter, Counted, dataVars
  <2>2. queue \in Seq(QueueItem) /\ item \in QueueItem
    BY SystemTypes
  <2>3. OnItsWay # <<>> /\ Head(OnItsWay) = Head(queue)
    BY <2>1, <2>2 DEF OnItsWay
  <2>4. OnItsWay' = Tail(OnItsWay)
    <3>1. Tail(Append(queue, item)) = Append(Tail(queue), item)
      BY <2>1, <2>2
    <3> QED BY <1>1, <2>1, <3>1 DEF OnItsWay
  <2>5. Told(totalDataLength', OnItsWay') = Told(totalDataLength, OnItsWay)
    BY <2>1, <2>3, <2>4, OnItsWayType, ToldTail
  <2>6. Told(totalDataLength, OnItsWay)' = Told(totalDataLength, OnItsWay)
    BY <2>5 DEF Told
  <2>7. Copied' = Copied
    BY <1>1, <2>1 DEF Copied, Gatt!ChunkLength, Gatt!Length
  <2> QED BY <1>1, <2>6, <2>7 DEF CountInv
<1>3. CASE ReceiveNothing \/ Player
  <2>1. UNCHANGED <<totalDataLength, queue, track>>
    BY <1>3 DEF ReceiveNothing, Player, NotDue, PlayMeta, PlayVoice, FindRunningStatus,
                ArmWait, StartTimer, SendMessage, dataVars
  <2> QED BY <1>1, <2>1, CountKept
<1> QED BY <1>1, <1>2, <1>3 DEF Loop

(* What the callback has copied before the payload it is about to copy.    *)
LEMMA CopiedSoFar ==
  ASSUME SystemTypeOK, StreamInv, Gatt!ContinueStream
  PROVE  Copied = written * PayloadSize
<1>1. /\ written \in Nat /\ written > 0 /\ payloadsReceived = written
      /\ track \in Tracks /\ written * PayloadSize < Gatt!Length(track)
  BY ContinueFacts, SystemTypes
<1>2. CASE written = 1
  BY <1>1, <1>2 DEF Copied
<1>3. CASE written # 1
  <2>1. /\ written - 1 \in Nat /\ (written - 1) + 1 = written /\ ~(written <= 1)
    BY <1>1, <1>3
  <2> DEFINE k == written - 1
             n == Gatt!ChunkLength(track, k)
  <2>2. Copied = k * PayloadSize + n
    BY <1>1, <2>1 DEF Copied
  <2>3. /\ k * PayloadSize \in Nat /\ PayloadSize \in Nat
        /\ written * PayloadSize = k * PayloadSize + PayloadSize
    BY <2>1, Times, Sizes
  <2>4. Gatt!Length(track) \in Nat
    BY <1>1, EventsInside
  <2>5. n = PayloadSize
    <3>1. k * PayloadSize < Gatt!Length(track)
      <4> HIDE DEF k
      <4> QED BY <1>1, <2>3, <2>4
    <3>2. (k + 1) * PayloadSize < Gatt!Length(track)
      BY <1>1, <2>1
    <3> HIDE DEF k
    <3> QED BY <1>1, <2>1, <3>1, <3>2, ChunkIs DEF k
  <2> QED BY <2>2, <2>3, <2>5
<1> QED BY <1>2, <1>3

LEMMA WriteCounts ==
  ASSUME SystemTypeOK, StreamInv, CountInv, Write
  PROVE  CountInv'
<1>1. UNCHANGED <<totalDataLength, dropped>>
  BY DEF Write, playVars
<1>2. queue \in Seq(QueueItem) /\ totalDataLength \in Nat
  BY SystemTypes, OnItsWayType
<1>3. ASSUME NEW it \in QueueItem, item' = it, UNCHANGED queue, gattPc' = "post"
      PROVE  Told(totalDataLength, OnItsWay)' = Counted(Told(totalDataLength, queue), it)
  <2>1. OnItsWay' = Append(queue, it)
    BY <1>3 DEF OnItsWay
  <2>2. Told(totalDataLength', OnItsWay') = Counted(Told(totalDataLength, queue), it)
    BY <1>1, <1>2, <2>1, ToldAppend
  <2> QED BY <2>2 DEF Told
<1>4. CASE Gatt!StartStream
  <2> DEFINE it == [opcode |-> 1, dataLength |-> PayloadSize]
  <2>1. /\ payloadsReceived' = 1 /\ item' = it /\ UNCHANGED queue /\ gattPc' = "post"
    BY <1>4, StartFacts
  <2>2. it \in QueueItem
    <3>1. 1 \in Byte /\ PayloadSize \in UInt16
      BY PayloadAssumption, SMT DEF Byte
    <3> QED BY <3>1 DEF QueueItem
  <2>3. Told(totalDataLength, OnItsWay)' = Counted(Told(totalDataLength, queue), it)
    BY <1>3, <2>1, <2>2
  <2>4. Counted(Told(totalDataLength, queue), it) = PayloadSize
    BY DEF Counted
  <2>5. Copied' = PayloadSize
    BY <2>1, Sizes DEF Copied
  <2> QED BY <2>3, <2>4, <2>5 DEF CountInv
<1>5. CASE Gatt!ContinueStream
  <2> DEFINE n == Gatt!ChunkLength(track, written)
             it == [opcode |-> 2, dataLength |-> n]
  <2>1. /\ UNCHANGED <<track, queue>> /\ gattPc = "idle"
        /\ written > 0 /\ written \in Nat /\ payloadsReceived = written
        /\ written * PayloadSize < Gatt!Length(track) /\ track \in Tracks
        /\ \/ UNCHANGED <<payloadsReceived, gattPc, item>>
           \/ /\ gattPc' = "post" /\ payloadsReceived' = written + 1 /\ item' = it
    BY <1>5, ContinueFacts, SystemTypes
  <2>2. CASE UNCHANGED <<payloadsReceived, gattPc, item>>
    BY <1>1, <2>1, <2>2, CountKept
  <2>3. CASE gattPc' = "post" /\ payloadsReceived' = written + 1 /\ item' = it
    <3>1. it \in QueueItem
      <4>1. n \in 1..PayloadSize
        BY <2>1, ChunkIs
      <4>2. n \in UInt16
        <5> HIDE DEF n
        <5> QED BY <4>1, Sizes
      <4>3. 2 \in Byte
        BY SMT DEF Byte
      <4> QED BY <4>2, <4>3 DEF QueueItem
    <3>2. Told(totalDataLength, OnItsWay)' = Counted(Told(totalDataLength, queue), it)
      BY <1>3, <2>1, <2>3, <3>1
    <3>3. Counted(Told(totalDataLength, queue), it) = Told(totalDataLength, queue) + n
      BY DEF Counted
    <3>4. Copied = written * PayloadSize
      BY <1>5, CopiedSoFar
    <3>5. Copied' = written * PayloadSize + n
      <4>1. ~(written + 1 <= 1) /\ (written + 1) - 1 = written
        BY <2>1
      <4>2. Gatt!ChunkLength(track', payloadsReceived' - 1) = n
        BY <2>1, <2>3, <4>1
      <4>3. Gatt!ChunkLength(track, payloadsReceived - 1)' = n
        BY <4>2 DEF Gatt!ChunkLength, Gatt!Length
      <4> QED BY <2>3, <4>1, <4>3 DEF Copied
    <3>6. ~dropped => Told(totalDataLength, queue) = Copied
      BY <2>1 DEF CountInv, OnItsWay
    <3>7. item'.opcode # 1
      BY <2>3
    <3> HIDE DEF it, n
    <3> QED BY <1>1, <3>2, <3>3, <3>4, <3>5, <3>6, <3>7 DEF CountInv
  <2> QED BY <2>1, <2>2, <2>3
<1>6. CASE Gatt!WriteCommand
  <2>1. /\ UNCHANGED <<track, queue, payloadsReceived>>
        /\ gattPc = "idle" /\ gattPc' = "post"
        /\ item' \in QueueItem /\ item'.opcode # 1 /\ item'.opcode # 2
    BY <1>6, CommandFacts, CommandsApart
  <2>2. Told(totalDataLength, OnItsWay)' = Counted(Told(totalDataLength, queue), item')
    BY <1>3, <2>1
  <2>3. Counted(Told(totalDataLength, queue), item') = Told(totalDataLength, queue)
    BY <2>1 DEF Counted
  <2>4. Copied' = Copied
    BY <2>1 DEF Copied, Gatt!ChunkLength, Gatt!Length
  <2>5. ~dropped => Told(totalDataLength, queue) = Copied
    BY <2>1 DEF CountInv, OnItsWay
  <2> QED BY <1>1, <2>1, <2>2, <2>3, <2>4, <2>5 DEF CountInv
<1> QED BY <1>4, <1>5, <1>6 DEF Write

LEMMA PostItemCounts ==
  ASSUME SystemTypeOK, CountInv, PostItem
  PROVE  CountInv'
<1>1. /\ gattPc = "post" /\ gattPc' = "idle"
      /\ queue' = IF Len(queue) < QueueLength THEN Append(queue, item) ELSE queue
      /\ dropped' = (Len(queue) = QueueLength \/ (item.opcode # 1 /\ dropped))
      /\ UNCHANGED <<track, payloadsReceived, item, totalDataLength>>
  BY PostFacts DEF playVars
<1> SUFFICES ASSUME ~dropped'
             PROVE  Told(totalDataLength, OnItsWay)' = Copied'
  BY <1>1 DEF CountInv
<1>2. Len(queue) < QueueLength
  <2>1. Len(queue) \in Nat /\ QueueLength \in Nat /\ Len(queue) <= QueueLength
    BY SystemTypes, QueueAssumption
  <2>2. Len(queue) # QueueLength
    BY <1>1, Zenon
  <2> QED BY <2>1, <2>2
<1>3. OnItsWay' = OnItsWay
  BY <1>1, <1>2 DEF OnItsWay
<1>4. Told(totalDataLength, OnItsWay)' = Told(totalDataLength, OnItsWay)
  BY <1>1, <1>3 DEF Told
<1>5. Told(totalDataLength, OnItsWay) = Copied
  <2>1. dropped \in BOOLEAN
    BY SystemTypes
  <2> QED BY <1>1, <2>1 DEF CountInv
<1>6. Copied' = Copied
  BY <1>1 DEF Copied, Gatt!ChunkLength, Gatt!Length
<1> QED BY <1>4, <1>5, <1>6

LEMMA CountInit == SystemInit => CountInv
<1> SUFFICES ASSUME SystemInit  PROVE CountInv
  OBVIOUS
<1>1. /\ queue = <<>> /\ totalDataLength = 0 /\ gattPc = "idle" /\ payloadsReceived = 0
  BY DEF SystemInit, Gatt!Init, LoopInit
<1>2. <<>> \in Seq(QueueItem) /\ Len(<<>>) = 0 /\ 0 \in Nat
  OBVIOUS
<1>3. PICK u : IsCount(u, 0, <<>>) /\ Told(0, <<>>) = u[Len(<<>>)]
  BY <1>2, ToldBy
<1>4. Told(0, <<>>) = 0
  BY <1>2, <1>3 DEF IsCount
<1>5. Copied = 0
  BY <1>1, Times DEF Copied
<1> QED BY <1>1, <1>4, <1>5 DEF CountInv, OnItsWay

LEMMA CountInductive == SystemInv /\ CountInv /\ [SystemNext]_systemVars => CountInv'
<1> SUFFICES ASSUME SystemInv, CountInv, [SystemNext]_systemVars  PROVE CountInv'
  OBVIOUS
<1>0. SystemTypeOK /\ StreamInv
  BY DEF SystemInv
<1>1. CASE LoopStep
  BY <1>0, <1>1, LoopStepCounts
<1>2. CASE Underrun \/ Timer \/ UNCHANGED systemVars
  <2>1. UNCHANGED <<totalDataLength, queue, track, gattPc, item, payloadsReceived, dropped>>
    BY <1>2 DEF Underrun, Timer, TimerTick, systemVars, vars, dataVars, loopVars,
                gattVars, ghostVars
  <2> QED BY <2>1, CountKept
<1>3. CASE Write
  BY <1>0, <1>3, WriteCounts
<1>4. CASE PostItem
  BY <1>0, <1>4, PostItemCounts
<1> QED BY <1>1, <1>2, <1>3, <1>4 DEF SystemNext

(* Between two calls of the callback the loop has been told, or will be    *)
(* by what is in the queue, of every byte the callback has copied, unless  *)
(* an item of the stream met a full queue.                                 *)
THEOREM CopiesAreAccounted == SystemSpec => []TotalAccountsForCopies
<1>1. CountInv => TotalAccountsForCopies
  BY DEF CountInv, OnItsWay, TotalAccountsForCopies
<1>2. SystemInit /\ [][SystemNext]_systemVars /\ []SystemInv => []CountInv
  BY CountInit, CountInductive, PTL
<1> QED BY <1>1, <1>2, SystemInvariance, PTL DEF SystemSpec
=============================================================================
