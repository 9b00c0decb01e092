-------------------------- MODULE DeltaTimeProofs --------------------------
(***************************************************************************)
(* Theorems about getMidiDeltaTime, for delta-times of any bytes: all 2^32 *)
(* contents of the four bytes it may look at.                              *)
(***************************************************************************)
EXTENDS DeltaTime, TLAPS

(* The number that the first n of the septets m are, the most significant  *)
(* first.                                                                  *)
Septets(m, n) ==
  IF n = 0 THEN 0
  ELSE IF n = 1 THEN m[0] % 128
  ELSE IF n = 2 THEN 128 * (m[0] % 128) + (m[1] % 128)
  ELSE IF n = 3 THEN 128 * (128 * (m[0] % 128) + (m[1] % 128)) + (m[2] % 128)
  ELSE 128 * (128 * (128 * (m[0] % 128) + (m[1] % 128)) + (m[2] % 128)) + (m[3] % 128)

LEMMA SeptetOf ==
  ASSUME NEW m \in [0..3 -> Byte], NEW j \in 0..3
  PROVE  m[j] % 128 \in 0..127
<1> DEFINE x == m[j]
<1>1. x \in 0..255
  BY DEF Byte
<1>2. x % 128 \in 0..127
  <2> HIDE DEF x
  <2> QED BY <1>1
<1> QED BY <1>2

(* One more of them is a multiplication by 128 and an addition.            *)
LEMMA SeptetsStep ==
  ASSUME NEW m \in [0..3 -> Byte], NEW k \in 1..4
  PROVE  Septets(m, k) = 128 * Septets(m, k - 1) + (m[k - 1] % 128)
<1>0. \A j \in 0..3 : m[j] % 128 \in 0..127
  BY SeptetOf
<1>1. CASE k = 1
  BY <1>0, <1>1, SMT DEF Septets
<1>2. CASE k \in 2..4
  BY <1>2, SMT DEF Septets
<1> QED BY <1>1, <1>2

(* The notes' definition, a recursion over the bytes, is that number: a    *)
(* function that satisfies the recursion exists, and any other agrees with *)
(* it, one byte after the other.                                           *)
LEMMA ConcatenatedIs ==
  ASSUME NEW m \in [0..3 -> Byte], NEW n \in 1..4
  PROVE  Concatenated(m, n) = Septets(m, n)
<1> DEFINE F(g) == [k \in 0..n |-> IF k = 0 THEN 0 ELSE 128 * g[k - 1] + (m[k - 1] % 128)]
           u == CHOOSE g : g = F(g)
           s == [k \in 0..n |-> Septets(m, k)]
<1>1. s = F(s)
  <2>1. \A k \in 0..n : s[k] = F(s)[k]
    <3> TAKE k \in 0..n
    <3>1. CASE k = 0
      BY <3>1, SMT DEF Septets
    <3>2. CASE k # 0
      <4>1. k \in 1..4 /\ k - 1 \in 0..n
        BY <3>2
      <4>2. s[k] = 128 * s[k - 1] + (m[k - 1] % 128)
        BY <4>1, SeptetsStep
      <4> QED BY <3>2, <4>2
    <3> QED BY <3>1, <3>2
  <2> QED BY <2>1
<1>2. u = F(u)
  <2> HIDE DEF F, s
  <2> QED BY <1>1, Zenon
<1>3. Concatenated(m, n) = u[n]
  BY DEF Concatenated
<1>4. \A k \in 0..n : u[k] = Septets(m, k)
  <2> HIDE DEF u
  <2>0. /\ u[0] = 0
        /\ \A k \in 1..n : u[k] = 128 * u[k - 1] + (m[k - 1] % 128)
    BY <1>2
  <2>1. u[0] = Septets(m, 0)
    BY <2>0, SMT DEF Septets
  <2>2. \A k \in 1..n : u[k - 1] = Septets(m, k - 1) => u[k] = Septets(m, k)
    BY <2>0, SeptetsStep
  <2> QED BY <2>1, <2>2
<1> QED BY <1>3, <1>4

-----------------------------------------------------------------------------
(* The bytes taken so far, all of them with their flag, lie in the word    *)
(* from its second byte on, the last one lowest.                           *)
Gathering ==
  /\ offset = numBytes /\ a = 0 /\ result = 0
  /\ \A k \in 0..numBytes - 1 : HasMoreBytes(bytes[k])
  /\ \A k \in 1..numBytes : tempStore[k] = bytes[numBytes - k]

(* All bytes of the delta-time are in the word, the last one lowest.       *)
Gathered ==
  /\ numBytes = 3 \/ ~HasMoreBytes(bytes[numBytes])
  /\ \A k \in 0..numBytes - 1 : HasMoreBytes(bytes[k])
  /\ \A k \in 0..numBytes : tempStore[k] = bytes[numBytes - k]

(* What the first n bytes of the word, from the lowest, are worth.         *)
Low(n) ==
  (IF n > 0 THEN tempStore[0] % 128 ELSE 0)
    + (IF n > 1 THEN 128 * (tempStore[1] % 128) ELSE 0)
    + (IF n > 2 THEN 16384 * (tempStore[2] % 128) ELSE 0)
    + (IF n > 3 THEN 2097152 * (tempStore[3] % 128) ELSE 0)

Inv ==
  /\ TypeOK
  /\ pc = "gather" => Gathering
  /\ pc # "gather" => Gathered /\ a <= numBytes + 1 /\ result = Low(a)
  /\ pc = "join" => offset = numBytes
  /\ pc = "return" => offset = numBytes + 1 /\ a = numBytes + 1

(* The types the steps below need of the bytes and the counters.           *)
LEMMA Types ==
  ASSUME TypeOK
  PROVE  /\ bytes \in [0..3 -> Byte] /\ tempStore \in [0..3 -> Byte]
         /\ numBytes \in 0..3 /\ a \in 0..4 /\ offset \in 0..4
  BY SMT DEF TypeOK

LEMMA InitInv == Init => Inv
<1> SUFFICES ASSUME Init  PROVE Inv
  OBVIOUS
<1>1. bytes \in [0..3 -> Byte] /\ tempStore \in [0..3 -> Byte]
  <2>1. bytes \in [0..3 -> DeltaBytes] /\ DeltaBytes \subseteq Byte
    BY DeltaBytesAssumption DEF Init
  <2>2. tempStore = [k \in 0..3 |-> 0] /\ 0 \in Byte
    BY SMT DEF Init, Byte
  <2> QED BY <2>1, <2>2
<1>2. TypeOK
  BY <1>1, SMT DEF Init, TypeOK
<1>3. Gathering
  BY SMT DEF Init, Gathering
<1> QED BY <1>2, <1>3 DEF Init, Inv

(* A byte more: those that are there move up, and it becomes the lowest.   *)
LEMMA GatherByteInv == Inv /\ GatherByte => Inv'
<1> SUFFICES ASSUME Inv, GatherByte  PROVE Inv'
  OBVIOUS
<1>0. /\ TypeOK /\ Gathering /\ pc = "gather"
      /\ UNCHANGED <<bytes, a, result>>
      /\ offset \in 0..3 /\ bytes[offset] \in Byte
  BY SMT DEF Inv, GatherByte, TypeOK, Gathering
<1>1. CASE NextByteExpected
  <2>1. /\ tempStore' = ShiftedByByte(WithLowest(tempStore, bytes[offset]))
        /\ numBytes' = numBytes + 1 /\ offset' = offset + 1 /\ pc' = "gather"
    BY <1>0, <1>1 DEF GatherByte
  <2>2. numBytes < 3 /\ HasMoreBytes(bytes[offset])
    BY <1>1 DEF NextByteExpected
  <2>3. /\ tempStore' \in [0..3 -> Byte]
        /\ tempStore'[1] = bytes[offset]
        /\ \A k \in 2..3 : tempStore'[k] = tempStore[k - 1]
    BY <1>0, <2>1, SMT DEF ShiftedByByte, WithLowest, TypeOK, Byte
  <2>4. TypeOK'
    BY <1>0, <2>1, <2>2, <2>3, SMT DEF TypeOK
  <2>5. Gathering'
    BY <1>0, <2>1, <2>2, <2>3, SMT DEF Gathering, TypeOK
  <2> QED BY <2>1, <2>4, <2>5 DEF Inv
<1>2. CASE ~NextByteExpected
  <2>1. /\ tempStore' = WithLowest(tempStore, bytes[offset])
        /\ pc' = "join" /\ UNCHANGED <<numBytes, offset>>
    BY <1>0, <1>2 DEF GatherByte
  <2>2. /\ tempStore' \in [0..3 -> Byte]
        /\ tempStore'[0] = bytes[offset]
        /\ \A k \in 1..3 : tempStore'[k] = tempStore[k]
    BY <1>0, <2>1, SMT DEF WithLowest, TypeOK
  <2>3. TypeOK'
    BY <1>0, <2>1, <2>2, SMT DEF TypeOK
  <2>4. Gathered'
    BY <1>0, <1>2, <2>1, <2>2, SMT DEF Gathered, Gathering, NextByteExpected, TypeOK
  <2>5. result' = Low(a)'
    BY <1>0, SMT DEF Low, Gathering
  <2> QED BY <1>0, <2>1, <2>3, <2>4, <2>5, SMT DEF Inv, Gathering, TypeOK
<1> QED BY <1>1, <1>2

(* The shifts by 7 bits a byte.                                            *)
LEMMA Powers ==
  2^(7 * 0) = 1 /\ 2^(7 * 1) = 128 /\ 2^(7 * 2) = 16384 /\ 2^(7 * 3) = 2097152
  OBVIOUS

(* What n bytes of the word are worth, written out.                        *)
LEMMA LowIs ==
  ASSUME TypeOK
  PROVE  /\ \A k \in 0..3 : tempStore[k] % 128 \in 0..127
         /\ Low(0) = 0
         /\ Low(1) = tempStore[0] % 128
         /\ Low(2) = (tempStore[0] % 128) + 128 * (tempStore[1] % 128)
         /\ Low(3) = (tempStore[0] % 128) + 128 * (tempStore[1] % 128)
                       + 16384 * (tempStore[2] % 128)
         /\ Low(4) = (tempStore[0] % 128) + 128 * (tempStore[1] % 128)
                       + 16384 * (tempStore[2] % 128) + 2097152 * (tempStore[3] % 128)
<1>1. \A k \in 0..3 : tempStore[k] % 128 \in 0..127
  BY Types, SeptetOf
<1> DEFINE p == tempStore[0] % 128  q == tempStore[1] % 128
           r == tempStore[2] % 128  s == tempStore[3] % 128
<1>2. p \in 0..127 /\ q \in 0..127 /\ r \in 0..127 /\ s \in 0..127
  BY <1>1
<1>3. \A n \in 0..4 : Low(n) = (IF n > 0 THEN p ELSE 0) + (IF n > 1 THEN 128 * q ELSE 0)
                                  + (IF n > 2 THEN 16384 * r ELSE 0)
                                  + (IF n > 3 THEN 2097152 * s ELSE 0)
  BY DEF Low
<1>4. /\ Low(0) = 0 /\ Low(1) = p /\ Low(2) = p + 128 * q
      /\ Low(3) = p + 128 * q + 16384 * r
      /\ Low(4) = p + 128 * q + 16384 * r + 2097152 * s
  <2> HIDE DEF p, q, r, s
  <2> QED BY <1>2, <1>3, SMT
<1> QED BY <1>1, <1>4

(* A byte of the word more.                                                *)
LEMMA JoinedIs ==
  ASSUME TypeOK, a \in 0..3, result = Low(a)
  PROVE  Joined(a) = Low(a + 1) /\ Joined(a) \in 0..2^28 - 1
<1> DEFINE p == tempStore[0] % 128  q == tempStore[1] % 128
           r == tempStore[2] % 128  s == tempStore[3] % 128
<1>0. /\ p \in 0..127 /\ q \in 0..127 /\ r \in 0..127 /\ s \in 0..127
      /\ Low(0) = 0 /\ Low(1) = p /\ Low(2) = p + 128 * q
      /\ Low(3) = p + 128 * q + 16384 * r
      /\ Low(4) = p + 128 * q + 16384 * r + 2097152 * s
  BY LowIs, SMT
<1>1. CASE a = 0
  <2>1. 2^(7 * a) = 1
    BY <1>1, Powers, SMT
  <2>2. Joined(a) = result + p * 1
    BY <1>1, <2>1, SMT DEF Joined
  <2> HIDE DEF p, q, r, s
  <2>3. Joined(a) = Low(a + 1)
    BY <1>0, <1>1, <2>2, SMT
  <2>4. Low(1) \in 0..2^28 - 1
    BY <1>0, SMT
  <2> QED BY <1>1, <2>3, <2>4
<1>2. CASE a = 1
  <2>1. 2^(7 * a) = 128
    BY <1>2, Powers, SMT
  <2>2. Joined(a) = result + q * 128
    BY <1>2, <2>1, SMT DEF Joined
  <2> HIDE DEF p, q, r, s
  <2>3. Joined(a) = Low(a + 1)
    BY <1>0, <1>2, <2>2, SMT
  <2>4. Low(2) \in 0..2^28 - 1
    BY <1>0, SMT
  <2> QED BY <1>2, <2>3, <2>4
<1>3. CASE a = 2
  <2>1. 2^(7 * a) = 16384
    BY <1>3, Powers, SMT
  <2>2. Joined(a) = result + r * 16384
    BY <1>3, <2>1, SMT DEF Joined
  <2> HIDE DEF p, q, r, s
  <2>3. Joined(a) = Low(a + 1)
    BY <1>0, <1>3, <2>2, SMT
  <2>4. Low(3) \in 0..2^28 - 1
    BY <1>0, SMT
  <2> QED BY <1>3, <2>3, <2>4
<1>4. CASE a = 3
  <2>1. 2^(7 * a) = 2097152
    BY <1>4, Powers, SMT
  <2>2. Joined(a) = result + s * 2097152
    BY <1>4, <2>1, SMT DEF Joined
  <2> HIDE DEF p, q, r, s
  <2>3. Joined(a) = Low(a + 1)
    BY <1>0, <1>4, <2>2, SMT
  <2>4. Low(4) \in 0..2^28 - 1
    BY <1>0, SMT
  <2> QED BY <1>4, <2>3, <2>4
<1> QED BY <1>1, <1>2, <1>3, <1>4

LEMMA JoinByteInv == Inv /\ JoinByte => Inv'
<1> SUFFICES ASSUME Inv, JoinByte  PROVE Inv'
  OBVIOUS
<1>0. /\ TypeOK /\ Gathered /\ pc = "join" /\ offset = numBytes
      /\ result = Low(a) /\ a <= numBytes + 1
      /\ UNCHANGED <<bytes, tempStore, numBytes>>
  BY DEF Inv, JoinByte
<1>1. Gathered'
  BY <1>0 DEF Gathered
<1>2. CASE a <= numBytes
  <2>1. /\ result' = Joined(a) /\ a' = a + 1 /\ UNCHANGED <<offset, pc>>
    BY <1>2 DEF JoinByte
  <2>2. a \in 0..3
    BY <1>0, <1>2, Types
  <2>3. Joined(a) = Low(a + 1) /\ Joined(a) \in 0..2^28 - 1
    BY <1>0, <2>2, JoinedIs
  <2>4. Low(a)' = Low(a + 1)
    BY <1>0, <2>1, SMT DEF Low
  <2> QED BY <1>0, <1>1, <1>2, <2>1, <2>2, <2>3, <2>4, SMT DEF Inv, TypeOK
<1>3. CASE ~(a <= numBytes)
  <2>1. offset' = offset + 1 /\ pc' = "return" /\ UNCHANGED <<a, result>>
    BY <1>3 DEF JoinByte
  <2>2. Low(a)' = Low(a)
    BY <1>0, <2>1, SMT DEF Low
  <2> QED BY <1>0, <1>1, <1>3, <2>1, <2>2, SMT DEF Inv, TypeOK
<1> QED BY <1>2, <1>3

LEMMA NextInv == Inv /\ [Next]_vars => Inv'
<1>1. Inv /\ UNCHANGED vars => Inv'
  <2> SUFFICES ASSUME Inv, UNCHANGED vars  PROVE Inv'
    OBVIOUS
  <2>1. TypeOK' = TypeOK /\ Low(a)' = Low(a)
    BY SMT DEF TypeOK, Low, vars
  <2>2. Gathering' = Gathering /\ Gathered' = Gathered
    BY DEF Gathering, Gathered, vars
  <2> QED BY <2>1, <2>2 DEF Inv, vars
<1> QED BY <1>1, GatherByteInv, JoinByteInv DEF Next

-----------------------------------------------------------------------------
(* What is gathered, byte by byte of the word, is the number the septets   *)
(* are, and DeltaLen and DeltaValue of the player's model are its length   *)
(* and value.                                                              *)
LEMMA Returned ==
  ASSUME TypeOK, Gathered
  PROVE  /\ Low(numBytes + 1) = Septets(bytes, numBytes + 1)
         /\ DeltaLen(bytes, 0) = numBytes + 1
         /\ DeltaValue(bytes, 0) = Septets(bytes, numBytes + 1)
<1> DEFINE p == bytes[0] % 128  q == bytes[1] % 128
           r == bytes[2] % 128  s == bytes[3] % 128
<1>0. /\ p \in 0..127 /\ q \in 0..127 /\ r \in 0..127 /\ s \in 0..127
      /\ numBytes \in 0..3 /\ bytes \in [0..3 -> Byte]
  BY Types, SeptetOf
<1>1. CASE numBytes = 0
  <2>1. DeltaLen(bytes, 0) = 1
    BY <1>0, <1>1, SMT DEF Gathered, DeltaLen, HasMoreBytes
  <2>2. DeltaValue(bytes, 0) = p
    <3>1. \A k \in 0..3 : Septet(bytes, 0, k) = IF k < 1 THEN bytes[0 - k] % 128 ELSE 0
      BY <2>1, SMT DEF Septet
    <3>2. Septet(bytes, 0, 0) = p /\ Septet(bytes, 0, 1) = 0 /\ Septet(bytes, 0, 2) = 0 /\ Septet(bytes, 0, 3) = 0
      BY <3>1, SMT
    <3> HIDE DEF p, q, r, s
    <3> QED BY <1>0, <3>2, SMT DEF DeltaValue
  <2>3. Low(1) = p
    <3>1. tempStore[0] % 128 = p
      BY <1>1, SMT DEF Gathered
    <3>2. QED BY <3>1, LowIs, SMT
  <2>4. Septets(bytes, 1) = p
    BY SMT DEF Septets
  <2> HIDE DEF p, q, r, s
  <2> QED BY <1>0, <1>1, <2>1, <2>2, <2>3, <2>4, SMT
<1>2. CASE numBytes = 1
  <2>1. DeltaLen(bytes, 0) = 2
    BY <1>0, <1>2, SMT DEF Gathered, DeltaLen, HasMoreBytes
  <2>2. DeltaValue(bytes, 0) = q + 128 * p
    <3>1. \A k \in 0..3 : Septet(bytes, 0, k) = IF k < 2 THEN bytes[1 - k] % 128 ELSE 0
      BY <2>1, SMT DEF Septet
    <3>2. Septet(bytes, 0, 0) = q /\ Septet(bytes, 0, 1) = p /\ Septet(bytes, 0, 2) = 0 /\ Septet(bytes, 0, 3) = 0
      BY <3>1, SMT
    <3> HIDE DEF p, q, r, s
    <3> QED BY <1>0, <3>2, SMT DEF DeltaValue
  <2>3. Low(2) = q + 128 * p
    <3>1. tempStore[0] % 128 = q /\ tempStore[1] % 128 = p
      BY <1>2, SMT DEF Gathered
    <3>2. QED BY <3>1, LowIs, SMT
  <2>4. Septets(bytes, 2) = 128 * p + q
    BY SMT DEF Septets
  <2> HIDE DEF p, q, r, s
  <2> QED BY <1>0, <1>2, <2>1, <2>2, <2>3, <2>4, SMT
<1>3. CASE numBytes = 2
  <2>1. DeltaLen(bytes, 0) = 3
    BY <1>0, <1>3, SMT DEF Gathered, DeltaLen, HasMoreBytes
  <2>2. DeltaValue(bytes, 0) = r + 128 * q + 16384 * p
    <3>1. \A k \in 0..3 : Septet(bytes, 0, k) = IF k < 3 THEN bytes[2 - k] % 128 ELSE 0
      BY <2>1, SMT DEF Septet
    <3>2. Septet(bytes, 0, 0) = r /\ Septet(bytes, 0, 1) = q /\ Septet(bytes, 0, 2) = p /\ Septet(bytes, 0, 3) = 0
      BY <3>1, SMT
    <3> HIDE DEF p, q, r, s
    <3> QED BY <1>0, <3>2, SMT DEF DeltaValue
  <2>3. Low(3) = r + 128 * q + 16384 * p
    <3>1. tempStore[0] % 128 = r /\ tempStore[1] % 128 = q /\ tempStore[2] % 128 = p
      BY <1>3, SMT DEF Gathered
    <3>2. QED BY <3>1, LowIs, SMT
  <2>4. Septets(bytes, 3) = 128 * (128 * p + q) + r
    BY SMT DEF Septets
  <2> HIDE DEF p, q, r, s
  <2> QED BY <1>0, <1>3, <2>1, <2>2, <2>3, <2>4, SMT
<1>4. CASE numBytes = 3
  <2>1. DeltaLen(bytes, 0) = 4
    BY <1>0, <1>4, SMT DEF Gathered, DeltaLen, HasMoreBytes
  <2>2. DeltaValue(bytes, 0) = s + 128 * r + 16384 * q + 2097152 * p
    <3>1. \A k \in 0..3 : Septet(bytes, 0, k) = IF k < 4 THEN bytes[3 - k] % 128 ELSE 0
      BY <2>1, SMT DEF Septet
    <3>2. Septet(bytes, 0, 0) = s /\ Septet(bytes, 0, 1) = r /\ Septet(bytes, 0, 2) = q /\ Septet(bytes, 0, 3) = p
      BY <3>1, SMT
    <3> HIDE DEF p, q, r, s
    <3> QED BY <1>0, <3>2, SMT DEF DeltaValue
  <2>3. Low(4) = s + 128 * r + 16384 * q + 2097152 * p
    <3>1. tempStore[0] % 128 = s /\ tempStore[1] % 128 = r /\ tempStore[2] % 128 = q /\ tempStore[3] % 128 = p
      BY <1>4, SMT DEF Gathered
    <3>2. QED BY <3>1, LowIs, SMT
  <2>4. Septets(bytes, 4) = 128 * (128 * (128 * p + q) + r) + s
    BY SMT DEF Septets
  <2> HIDE DEF p, q, r, s
  <2> QED BY <1>0, <1>4, <2>1, <2>2, <2>3, <2>4, SMT
<1> QED BY <1>0, <1>1, <1>2, <1>3, <1>4

LEMMA InvDecodes == Inv => DecodesDeltaTimes
<1> SUFFICES ASSUME Inv  PROVE DecodesDeltaTimes
  OBVIOUS
<1>0. TypeOK
  BY DEF Inv
<1>1. ASSUME pc = "return"
      PROVE  /\ result = Septets(bytes, numBytes + 1) /\ offset = numBytes + 1
             /\ DeltaLen(bytes, 0) = numBytes + 1
             /\ DeltaValue(bytes, 0) = Septets(bytes, numBytes + 1)
             /\ Gathered /\ numBytes + 1 \in 1..4
  <2>1. numBytes \in 0..3
    BY <1>0, Types
  <2>2. Gathered /\ result = Low(a) /\ offset = numBytes + 1 /\ a = numBytes + 1
    BY <1>1 DEF Inv
  <2> QED BY <1>0, <2>1, <2>2, Returned
<1>2. ReturnsDeltaTime
  BY <1>1 DEF ReturnsDeltaTime
<1>3. AgreesWithNotes
  <2> SUFFICES ASSUME pc = "return"
               PROVE  \E n \in 1..4 : /\ \A k \in 0..n - 2 : HasMoreBytes(bytes[k])
                                      /\ n = 4 \/ ~HasMoreBytes(bytes[n - 1])
                                      /\ offset = n
                                      /\ result = Concatenated(bytes, n)
    BY DEF AgreesWithNotes
  <2> DEFINE n == numBytes + 1
  <2>1. n \in 1..4 /\ offset = n /\ result = Septets(bytes, n)
    BY <1>1
  <2>2. Concatenated(bytes, n) = Septets(bytes, n)
    BY <1>0, <2>1, Types, ConcatenatedIs
  <2>3. /\ \A k \in 0..n - 2 : HasMoreBytes(bytes[k])
        /\ n = 4 \/ ~HasMoreBytes(bytes[n - 1])
    BY <1>0, <1>1, Types DEF Gathered
  <2> QED BY <2>1, <2>2, <2>3
<1> QED BY <1>0, <1>2, <1>3 DEF DecodesDeltaTimes

(* The shifts and masks of getMidiDeltaTime decode every delta-time there  *)
(* is: one to four bytes are consumed, up to the first without a flag, the *)
(* value is what midiNotes.txt defines and what the player's model takes   *)
(* it for, and neither the word nor the counters leave their range.        *)
THEOREM Decodes == Spec => []DecodesDeltaTimes
  BY InitInv, NextInv, InvDecodes, PTL DEF Spec
=============================================================================
