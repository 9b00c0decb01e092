----------------------------- MODULE GattServer -----------------------------
(***************************************************************************)
(* The BLE side of the IO unit: the access callback of the event-buffer    *)
(* characteristic, run by the NimBLE host task for every write of the      *)
(* client, and the client that streams a track through it, payload by      *)
(* payload.  The callback copies the payload into the playback buffer,     *)
(* which the application reads on the other core, and then posts an item   *)
(* on the queue; the two are separate steps.                               *)
(***************************************************************************)
EXTENDS MidiTrack

CONSTANTS
  Tracks,         \* the tracks a client may stream
  BufferSize,     \* PLACYBACK_DATA_ALLOCATION_SIZE
  PayloadSize,    \* payload bytes of a full write: 510
  QueueLength,    \* the length of blePeriph_bleToAppQueue
  Commands,       \* the opcodes the client writes outside a stream
  JunkLengths     \* what the uninitialised dataLength of an item may hold

VARIABLES
  track,            \* the track the client is streaming
  written,          \* how many of its payloads the client has written
  mem,              \* the playback buffer
  queue,            \* blePeriph_bleToAppQueue
  eventBuffer,      \* characteristic_eventBuffer behind its two header bytes
  payloadsReceived, \* playbackPayloadsReceived
  gattPc,           \* "idle", or "post" between the copy and the queue
  item              \* the queueItem about to be posted

clientVars == <<track, written>>
gattVars   == <<eventBuffer, payloadsReceived, gattPc, item>>

Item == [opcode : Byte, dataLength : UInt16]

Address == 0..BufferSize - 1

TypeOK ==
  /\ track \in Tracks
  /\ written \in Nat
  /\ mem \in [Address -> Byte]
  /\ queue \in Seq(Item) /\ Len(queue) <= QueueLength
  /\ eventBuffer \in [0..PayloadSize - 1 -> Byte]
  /\ payloadsReceived \in Nat
  /\ gattPc \in {"idle", "post"}
  /\ item \in Item

Init ==
  /\ track \in Tracks
  /\ written = 0
  /\ mem = [a \in Address |-> 0]
  /\ queue = <<>>
  /\ eventBuffer = [a \in 0..PayloadSize - 1 |-> 0]
  /\ payloadsReceived = 0
  /\ gattPc = "idle"
  /\ item = [opcode |-> 0, dataLength |-> 0]

-----------------------------------------------------------------------------
(***************************************************************************)
(* gatt_svr_chr_access.  A write is a header (flags and opcode) and data.  *)
(* The data overwrites the front of the event buffer and leaves what a     *)
(* longer write put behind it; a write of less than four bytes goes no     *)
(* further, and is answered with success all the same.                     *)
(***************************************************************************)
Flat(data) ==
  [a \in 0..PayloadSize - 1 |-> IF a < Len(data) THEN data[a + 1]
                                                 ELSE eventBuffer[a]]

(* memcpy of n bytes of the event buffer to offset off of the playback     *)
(* buffer.                                                                 *)
CopyToNext(off, n) ==
  mem' = [a \in Address |-> IF a > off /\ a < off + n THEN eventBuffer'[a - off]
                                                       ELSE mem[a]]

CopyTo(off, n) ==
  mem' = [a \in Address |-> IF a >= off /\ a < off + n THEN eventBuffer'[a - off]
                                                        ELSE mem[a]]

(* lengthWritten - 2                                                       *)
PayloadLength(data) == Len(data)

(* Flags 0x20: the first payload, whose length is not looked at.           *)
FirstPayload == 32

StoreFirst(opcode) ==
  /\ CopyTo(0, PayloadSize)
  /\ payloadsReceived' = 1
  /\ item' = [opcode |-> opcode, dataLength |-> PayloadSize]

(* Flags 0x10: the next payload lands behind those received.               *)
NextPayload == 16

StoreNextAsFull(opcode, data) ==
  /\ CopyTo(payloadsReceived * PayloadSize, PayloadLength(data))
  /\ payloadsReceived' = payloadsReceived + 1
  /\ item' = [opcode |-> opcode, dataLength |-> PayloadSize]

StoreNext(opcode, data) ==
  /\ CopyTo(payloadsReceived * PayloadSize, PayloadLength(data))
  /\ payloadsReceived' = payloadsReceived + 1
  /\ item' = [opcode |-> opcode, dataLength |-> PayloadLength(data)]

(* Any other flags: nothing is copied, and nothing sets dataLength.        *)
StoreNothing(opcode) ==
  /\ \E n \in JunkLengths : item' = [opcode |-> opcode, dataLength |-> n]
  /\ UNCHANGED <<mem, payloadsReceived>>

Access(flags, opcode, data) ==
  /\ gattPc = "idle"
  /\ eventBuffer' = Flat(data)
  /\ UNCHANGED queue
  /\ \/ /\ Len(data) + 2 < 4
        /\ UNCHANGED <<mem, payloadsReceived, gattPc, item>>
     \/ /\ Len(data) + 2 >= 4
        /\ gattPc' = "post"
        /\ \/ flags = FirstPayload /\ StoreFirst(opcode)
           \/ flags = NextPayload /\ StoreNext(opcode, data)
           \/ flags \notin {FirstPayload, NextPayload} /\ StoreNothing(opcode)

(* xQueueSendFromISR: an item that finds the queue full is dropped, and    *)
(* nobody is told.                                                         *)
Post ==
  /\ gattPc = "post"
  /\ queue' = IF Len(queue) < QueueLength THEN Append(queue, item) ELSE queue
  /\ gattPc' = "idle"
  /\ UNCHANGED <<clientVars, mem, eventBuffer, payloadsReceived, item>>

-----------------------------------------------------------------------------
(***************************************************************************)
(* The client, which is not part of the repository: what the flags and     *)
(* opcodes of the callback and of the loop ask of it.  It streams a track  *)
(* in payloads of PayloadSize bytes, the last one shorter, and may give it *)
(* up for another one, or write a command, at any time.                    *)
(***************************************************************************)
Length(t) == t.at[Len(t.ev) + 1]

ChunkLength(t, k) ==
  IF (k + 1) * PayloadSize <= Length(t) THEN PayloadSize
                                        ELSE Length(t) - k * PayloadSize

Chunk(t, k) ==
  [j \in 1..ChunkLength(t, k) |-> t.image[k * PayloadSize + j - 1]]

StartStream ==
  /\ track' \in Tracks
  /\ written' = 1
  /\ Access(FirstPayload, 1, Chunk(track', 0))

ContinueStream ==
  /\ written > 0
  /\ written * PayloadSize < Length(track)
  /\ written' = written + 1
  /\ Access(NextPayload, 2, Chunk(track, written))
  /\ UNCHANGED track

WriteCommand ==
  /\ \E op \in Commands : Access(0, op, <<0, 0>>)
  /\ UNCHANGED clientVars

-----------------------------------------------------------------------------
(* How much of the track is in the buffer, by the callback's own count.    *)
Received ==
  IF payloadsReceived * PayloadSize <= Length(track)
  THEN payloadsReceived * PayloadSize ELSE Length(track)

(* What the callback has counted is in the buffer, byte for byte: payloads *)
(* land one behind the other, a short last one included, and neither a     *)
(* command in the middle of a stream nor the stale bytes behind a short    *)
(* first payload damage what is there.                                     *)
BufferHoldsStream ==
  written > 0 => \A a \in 0..Received - 1 : mem[a] = track.image[a]

(* The callback's payload count is the client's, so that the next payload  *)
(* lands where it belongs and inside the allocation; only a last payload   *)
(* of a single byte is turned away.                                        *)
NextPayloadFits ==
  written > 0 =>
    \/ /\ payloadsReceived = written
       /\ written * PayloadSize < Length(track) =>
            written * PayloadSize + ChunkLength(track, written) <= BufferSize
    \/ /\ payloadsReceived = written - 1
       /\ ChunkLength(track, written - 1) = 1
       /\ written * PayloadSize >= Length(track)
=============================================================================
