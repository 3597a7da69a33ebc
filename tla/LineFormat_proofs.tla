------------------------- MODULE LineFormat_proofs -------------------------
(***************************************************************************)
(* The CRC of a protocol line notices one damaged byte, and any damage of  *)
(* an odd number of bits, for content of any length over any ASCII         *)
(* characters.  The first argument is that a turn of compute_crc8's loop   *)
(* loses nothing: Shift, and so Crc8, is injective in the register, hence  *)
(* two registers that once differ differ for good as long as the same      *)
(* bytes follow.  The second is that a turn keeps the register's parity.   *)
(* Both need that protocol.h's loop computes what protocol.py's does.      *)
(***************************************************************************)
EXTENDS LineFormat, FiniteSetTheorems, TLAPS

(* The turn of the loop. *)

Moved(c) == {i + 1 : i \in c \ {7}}

LEMMA SymDiffByte ==
  ASSUME NEW a \in Byte, NEW b \in Byte
  PROVE  SymDiff(a, b) \in Byte
BY DEF SymDiff, Byte

LEMMA SymDiffInjective ==
  ASSUME NEW a, NEW b, NEW x, SymDiff(a, x) = SymDiff(b, x)
  PROVE  a = b
BY DEF SymDiff

LEMMA MovedBits ==
  ASSUME NEW c \in Byte
  PROVE  /\ Moved(c) \in Byte
         /\ 0 \notin Moved(c)
         /\ \A i \in 0..6 : i \in c <=> i + 1 \in Moved(c)
<1>1. c \subseteq Bit
  BY DEF Byte
<1>2. Moved(c) \subseteq 1..7
  BY <1>1 DEF Moved, Bit
<1>3. \A i \in 0..6 : i \in c => i + 1 \in Moved(c)
  BY DEF Moved
<1>4. ASSUME NEW i \in 0..6, i + 1 \in Moved(c) PROVE i \in c
  <2>1. PICK j \in c \ {7} : i + 1 = j + 1
    BY <1>4 DEF Moved
  <2>2. j = i
    BY <1>1, <2>1 DEF Bit
  <2> QED
    BY <2>1, <2>2
<1> QED
  BY <1>2, <1>3, <1>4 DEF Byte, Bit

LEMMA ShiftByte ==
  ASSUME NEW c \in Byte
  PROVE  Shift(c) \in Byte
<1>1. Poly \in Byte
  BY DEF Poly, Byte, Bit
<1>2. Shift(c) = IF 7 \in c THEN SymDiff(Moved(c), Poly) ELSE Moved(c)
  BY DEF Shift, Moved
<1> QED
  BY <1>1, <1>2, MovedBits, SymDiffByte

LEMMA ShiftBits ==
  ASSUME NEW c \in Byte
  PROVE  /\ 0 \in Shift(c) <=> 7 \in c
         /\ 7 \in c => Shift(c) = SymDiff(Moved(c), Poly)
         /\ 7 \notin c => Shift(c) = Moved(c)
<1>2. Shift(c) = IF 7 \in c THEN SymDiff(Moved(c), Poly) ELSE Moved(c)
  BY DEF Shift, Moved
<1> QED
  BY <1>2, MovedBits DEF SymDiff, Poly

LEMMA ShiftInjective ==
  ASSUME NEW a \in Byte, NEW b \in Byte, Shift(a) = Shift(b)
  PROVE  a = b
<1>1. 7 \in a <=> 7 \in b
  BY ShiftBits
<1>2. Moved(a) = Moved(b)
  BY <1>1, ShiftBits, SymDiffInjective
<1>3. \A i \in 0..6 : i \in a <=> i \in b
  BY <1>2, MovedBits
<1>4. \A i \in Bit : i \in 0..6 \/ i = 7
  BY DEF Bit
<1> QED
  BY <1>1, <1>3, <1>4 DEF Byte

LEMMA SymDiffLeft ==
  ASSUME NEW a, NEW b, NEW x, SymDiff(x, a) = SymDiff(x, b)
  PROVE  a = b
BY DEF SymDiff

Shift8(c) == Shift(Shift(Shift(Shift(Shift(Shift(Shift(Shift(c))))))))

LEMMA Shift8Injective ==
  ASSUME NEW a \in Byte, NEW b \in Byte, Shift8(a) = Shift8(b)
  PROVE  a = b
<1>1. \A c \in Byte : Shift(c) \in Byte
  BY ShiftByte
<1>2. \A c, d \in Byte : Shift(c) = Shift(d) => c = d
  BY ShiftInjective
<1> DEFINE Two(c)  == Shift(Shift(c))
           Four(c) == Two(Two(c))
<1>3. \A c \in Byte : Two(c) \in Byte
  BY <1>1
<1>4. \A c, d \in Byte : Two(c) = Two(d) => c = d
  BY <1>1, <1>2
<1>7. Four(Four(a)) = Four(Four(b))
  BY DEF Shift8
<1> HIDE DEF Two
<1>5. \A c \in Byte : Four(c) \in Byte
  BY <1>3
<1>6. \A c, d \in Byte : Four(c) = Four(d) => c = d
  BY <1>3, <1>4
<1> HIDE DEF Four
<1> QED
  BY <1>5, <1>6, <1>7

LEMMA Shift8Byte ==
  ASSUME NEW c \in Byte
  PROVE  Shift8(c) \in Byte
BY ShiftByte DEF Shift8

(* A byte. *)

LEMMA Crc8Byte ==
  ASSUME NEW crc \in Byte, NEW byte \in Byte
  PROVE  Crc8(crc, byte) \in Byte
<1>1. Crc8(crc, byte) = Shift8(SymDiff(crc, byte))
  BY DEF Crc8, Shift8
<1> QED
  BY <1>1, SymDiffByte, Shift8Byte

\* The same byte read into two registers: compute_crc8 keeps them apart.
LEMMA Crc8Injective ==
  ASSUME NEW c \in Byte, NEW d \in Byte, NEW byte \in Byte,
         Crc8(c, byte) = Crc8(d, byte)
  PROVE  c = d
<1>1. Shift8(SymDiff(c, byte)) = Shift8(SymDiff(d, byte))
  BY DEF Crc8, Shift8
<1> QED
  BY <1>1, SymDiffByte, Shift8Injective, SymDiffInjective

\* Two bytes read into one register: compute_crc8 tells them apart.
LEMMA Crc8Distinguishes ==
  ASSUME NEW crc \in Byte, NEW b \in Byte, NEW e \in Byte,
         Crc8(crc, b) = Crc8(crc, e)
  PROVE  b = e
<1>1. Shift8(SymDiff(crc, b)) = Shift8(SymDiff(crc, e))
  BY DEF Crc8, Shift8
<1> QED
  BY <1>1, SymDiffByte, Shift8Injective, SymDiffLeft

LEMMA HostCrc8Byte ==
  ASSUME NEW crc \in Byte, NEW byte \in Byte
  PROVE  HostCrc8(crc, byte) \in Byte
<1>1. /\ {0, 1, 2, 3, 5, 6, 7} \in Byte
      /\ {0, 1, 2, 3, 4, 5, 7} \in Byte
      /\ {0, 2, 3, 4, 5, 7} \in Byte
  BY DEF Byte, Bit
<1> QED
  BY <1>1, Crc8Byte DEF HostCrc8

(* The two implementations. *)

\* protocol.py masks the shifted integer, protocol.h lets the assignment cut
\* it: a turn of either loop gives the same byte.
LEMMA SameShift ==
  ASSUME NEW c \in Byte
  PROVE  DeviceShift(c) = Shift(c)
<1> DEFINE wide == {i + 1 : i \in c}
<1>1. c \subseteq 0..7
  BY DEF Byte, Bit
<1>2. wide \cap Bit = Moved(c)
  <2>1. ASSUME NEW k \in wide \cap Bit PROVE k \in Moved(c)
    <3>1. PICK i \in c : k = i + 1
      OBVIOUS
    <3>2. i # 7
      BY <1>1, <2>1, <3>1 DEF Bit
    <3> QED
      BY <3>1, <3>2 DEF Moved
  <2>2. ASSUME NEW k \in Moved(c) PROVE k \in wide \cap Bit
    BY <2>2, MovedBits DEF Moved, Byte
  <2> QED
    BY <2>1, <2>2
<1>3. DeviceShift(c) = IF 7 \in c THEN SymDiff(wide, {0, 4, 5}) \cap Bit ELSE wide \cap Bit
  BY DEF DeviceShift
<1>4. SymDiff(wide, {0, 4, 5}) \cap Bit = SymDiff(wide \cap Bit, {0, 4, 5})
  <2> HIDE DEF wide
  <2>1. {0, 4, 5} \subseteq Bit
    BY DEF Bit
  <2> QED
    BY <2>1 DEF SymDiff
<1>5. Shift(c) = IF 7 \in c THEN SymDiff(Moved(c), {0, 4, 5}) ELSE Moved(c)
  BY DEF Shift, Moved, Poly
<1> HIDE DEF wide
<1> QED
  BY <1>2, <1>3, <1>4, <1>5

\* protocol.h's crc8 is protocol.py's compute_crc8.
LEMMA SameCrc8 ==
  ASSUME NEW crc \in Byte, NEW byte \in Byte
  PROVE  DeviceCrc8(crc, byte) = Crc8(crc, byte)
<1> DEFINE s == SymDiff(crc, byte)
<1>1. s \in Byte
  BY SymDiffByte
<1>2. \A c \in Byte : Shift(c) \in Byte /\ DeviceShift(c) = Shift(c)
  BY ShiftByte, SameShift
<1>3. Crc8(crc, byte) = Shift(Shift(Shift(Shift(Shift(Shift(Shift(Shift(s))))))))
  BY DEF Crc8
<1>4. DeviceCrc8(crc, byte) = DeviceFour(DeviceFour(s))
  BY DEF DeviceCrc8
<1> HIDE DEF s
<1>5. \A c \in Byte : DeviceTwo(c) = Shift(Shift(c)) /\ DeviceTwo(c) \in Byte
  BY <1>2 DEF DeviceTwo
<1>6. \A c \in Byte : DeviceFour(c) = Shift(Shift(Shift(Shift(c)))) /\ DeviceFour(c) \in Byte
  BY <1>2, <1>5 DEF DeviceFour
<1> QED
  BY <1>1, <1>3, <1>4, <1>6

(* The transfer. *)

\* What a byte on the wire does to the registers, on whichever side they are.
LEMMA TransferRegisters ==
  ASSUME TypeOK, NEW byte \in Byte, NEW flipped \in Byte, Transfer(byte, flipped)
  PROVE  /\ sent' = Crc8(sent, byte)
         /\ device' = Crc8(device, SymDiff(byte, flipped))
         /\ host' = HostCrc8(host, SymDiff(byte, flipped))
<1> DEFINE arrived == SymDiff(byte, flipped)
<1>1. arrived \in Byte
  BY SymDiffByte
<1>2. /\ sent' = IF sender = "device" THEN DeviceCrc8(sent, byte) ELSE Crc8(sent, byte)
      /\ device' = DeviceCrc8(device, arrived)
      /\ host' = HostCrc8(host, arrived)
  BY DEF Transfer
<1>3. sent \in Byte /\ device \in Byte
  BY DEF TypeOK
<1> HIDE DEF arrived
<1>4. DeviceCrc8(sent, byte) = Crc8(sent, byte) /\ DeviceCrc8(device, arrived) = Crc8(device, arrived)
  BY <1>1, <1>3, SameCrc8
<1>5. sent' = Crc8(sent, byte) /\ device' = Crc8(device, arrived) /\ host' = HostCrc8(host, arrived)
  BY <1>2, <1>4
<1> QED
  BY <1>5 DEF arrived

LEMMA Damaged ==
  ASSUME NEW byte \in Byte, NEW flipped \in Noise
  PROVE  SymDiff(byte, flipped) \in Byte /\ SymDiff(byte, flipped) # byte
<1>1. flipped \in Byte /\ flipped # {}
  BY FormatAssumption
<1> QED
  BY <1>1, SymDiffByte DEF SymDiff

LEMMA CharIsAscii ==
  ASSUME NEW byte \in Chars
  PROVE  byte \in Byte /\ 7 \notin byte
BY FormatAssumption DEF Byte, Bit

LEMMA Undamaged ==
  ASSUME NEW byte
  PROVE  SymDiff(byte, {}) = byte
BY DEF SymDiff

LEMMA NoneIsNoByte == None \notin Byte
BY DEF None, Byte, Bit

LEMMA TransferType ==
  ASSUME TypeOK, NEW byte \in Byte, NEW flipped \in Byte, Transfer(byte, flipped)
  PROVE  /\ sent' \in Byte /\ device' \in Byte /\ host' \in Byte
         /\ odd' \in BOOLEAN /\ ascii' \in BOOLEAN
<1>1. SymDiff(byte, flipped) \in Byte
  BY SymDiffByte
<1>2. odd' \in BOOLEAN /\ ascii' \in BOOLEAN
  BY DEF Transfer
<1>3. sent \in Byte /\ device \in Byte /\ host \in Byte
  BY DEF TypeOK
<1>4. /\ sent' = Crc8(sent, byte)
      /\ device' = Crc8(device, SymDiff(byte, flipped))
      /\ host' = HostCrc8(host, SymDiff(byte, flipped))
  BY TransferRegisters
<1> QED
  BY <1>1, <1>2, <1>3, <1>4, Crc8Byte, HostCrc8Byte

\* The inductive invariant: without damage the three registers agree; after
\* one damaged content byte the device's differs from the sender's, and the
\* host's is the device's if it could decode the byte.
Registers ==
  /\ hits = 0 => device = sent /\ host = sent /\ ascii
                 /\ suffix = IF at = "read" THEN sent ELSE None
  /\ hits = 1 /\ (at = "read" => suffix = sent) => device # sent /\ (ascii => host = device)
  /\ at # "read" => suffix = None

IInv == TypeOK /\ Registers

LEMMA InitIInv == Init => IInv
<1>1. {} \in Byte
  BY DEF Byte
<1>2. MaxHits \in Nat
  BY FormatAssumption
<1>5. 0 \in 0..MaxHits
  BY <1>2
<1>3. Init => TypeOK
  BY <1>1, <1>5, Zenon DEF Init, TypeOK
<1>4. Init => Registers
  BY DEF Init, Registers
<1> QED
  BY <1>3, <1>4 DEF IInv

LEMMA SendByteIInv == IInv /\ SendByte => IInv'
<1> SUFFICES ASSUME IInv, SendByte PROVE IInv'
  OBVIOUS
<1>1. PICK byte \in Chars : Transfer(byte, {})
  BY DEF SendByte
<1>2. byte \in Byte /\ 7 \notin byte /\ {} \in Byte
  BY CharIsAscii DEF Byte
<1>3. TypeOK'
  <2>1. /\ sent' \in Byte /\ device' \in Byte /\ host' \in Byte
        /\ odd' \in BOOLEAN /\ ascii' \in BOOLEAN
    BY <1>1, <1>2, TransferType DEF IInv
  <2>2. sender' = sender /\ at' = at /\ suffix' = suffix /\ hits' = hits
    BY DEF SendByte
  <2> QED
    BY <2>1, <2>2 DEF IInv, TypeOK
<1>6. /\ sent' = Crc8(sent, byte) /\ device' = Crc8(device, SymDiff(byte, {}))
      /\ host' = HostCrc8(host, SymDiff(byte, {}))
  BY <1>1, <1>2, TransferRegisters DEF IInv
<1>7. host' = Crc8(host, byte)
  BY <1>2, <1>6, Undamaged DEF HostCrc8
<1>8. ascii' = ascii /\ at' = at /\ at = "content" /\ suffix' = suffix /\ hits' = hits
  BY <1>1, <1>2, Undamaged DEF Transfer, SendByte, IInv, TypeOK
<1>4. /\ sent' = Crc8(sent, byte) /\ device' = Crc8(device, byte)
      /\ host' = Crc8(host, byte) /\ ascii' = ascii
      /\ at' = at /\ at = "content" /\ suffix' = suffix /\ hits' = hits
  BY <1>6, <1>7, <1>8, Undamaged
<1>5. device # sent => device' # sent'
  BY <1>2, <1>4, Crc8Injective DEF IInv, TypeOK
<1> QED
  BY <1>3, <1>4, <1>5 DEF IInv, Registers

LEMMA DamageByteIInv == IInv /\ DamageByte => IInv'
<1> SUFFICES ASSUME IInv, DamageByte PROVE IInv'
  OBVIOUS
<1>1. PICK byte \in Chars, flipped \in Noise : Transfer(byte, flipped)
  BY DEF DamageByte
<1> DEFINE arrived == SymDiff(byte, flipped)
<1>2. byte \in Byte /\ flipped \in Byte /\ arrived \in Byte /\ arrived # byte
  BY CharIsAscii, Damaged, FormatAssumption
<1>3. hits' = hits + 1 /\ hits \in Nat /\ hits < MaxHits /\ MaxHits \in Nat
  BY FormatAssumption DEF DamageByte, IInv, TypeOK
<1>4. TypeOK'
  <2>1. /\ sent' \in Byte /\ device' \in Byte /\ host' \in Byte
        /\ odd' \in BOOLEAN /\ ascii' \in BOOLEAN
    BY <1>1, <1>2, TransferType DEF IInv
  <2>2. sender' = sender /\ at' = at /\ suffix' = suffix /\ hits' \in 0..MaxHits
    BY <1>3 DEF DamageByte
  <2> QED
    BY <2>1, <2>2 DEF IInv, TypeOK
<1>5. /\ sent' = Crc8(sent, byte) /\ device' = Crc8(device, arrived)
      /\ host' = HostCrc8(host, arrived) /\ ascii' = (ascii /\ 7 \notin arrived)
      /\ at' = at /\ at = "content" /\ suffix' = suffix
  BY <1>1, <1>2, TransferRegisters DEF Transfer, DamageByte, IInv
<1>6. hits = 0 => device' # sent' /\ (ascii' => host' = device')
  <2>1. SUFFICES ASSUME hits = 0 PROVE device' # sent' /\ (ascii' => host' = device')
    OBVIOUS
  <2>2. device = sent /\ host = sent /\ sent \in Byte
    BY <2>1 DEF IInv, Registers, TypeOK
  <2>3. device' # sent'
    BY <1>2, <1>5, <2>2, Crc8Distinguishes
  <2>4. ascii' => host' = device'
    BY <1>5, <2>2 DEF HostCrc8
  <2> QED
    BY <2>3, <2>4
<1> QED
  BY <1>3, <1>4, <1>5, <1>6 DEF IInv, Registers

LEMMA EndContentIInv == IInv /\ EndContent => IInv'
BY DEF IInv, TypeOK, Registers, EndContent

LEMMA SendSuffixIInv == IInv /\ SendSuffix => IInv'
<1> SUFFICES ASSUME IInv, SendSuffix PROVE IInv'
  OBVIOUS
<1>1. /\ sender' = sender /\ sent' = sent /\ device' = device /\ host' = host
      /\ odd' = odd /\ ascii' = ascii
      /\ at = "suffix" /\ at' = "read"
  BY DEF SendSuffix
<1>2. hits \in Nat /\ MaxHits \in Nat /\ sent \in Byte
  BY FormatAssumption DEF IInv, TypeOK
<1>3. CASE suffix' = sent /\ hits' = hits
  BY <1>1, <1>3 DEF IInv, TypeOK, Registers
<1>4. CASE hits < MaxHits /\ hits' = hits + 1 /\ \E flipped \in Noise : suffix' = SymDiff(sent, flipped)
  <2>1. suffix' \in Byte /\ suffix' # sent
    BY <1>2, <1>4, Damaged
  <2> QED
    BY <1>1, <1>2, <1>4, <2>1 DEF IInv, TypeOK, Registers
<1>5. CASE hits < MaxHits /\ hits' = hits + 1 /\ suffix' = None
  <2>1. None # sent
    BY <1>2, NoneIsNoByte
  <2> QED
    BY <1>1, <1>2, <1>5, <2>1 DEF IInv, TypeOK, Registers
<1> QED
  BY <1>3, <1>4, <1>5 DEF SendSuffix

LEMMA NextIInv == IInv /\ [Next]_vars => IInv'
<1> SUFFICES ASSUME IInv, [Next]_vars PROVE IInv'
  OBVIOUS
<1>1. CASE UNCHANGED vars
  BY <1>1 DEF vars, IInv, TypeOK, Registers
<1> QED
  BY <1>1, SendByteIInv, DamageByteIInv, EndContentIInv, SendSuffixIInv DEF Next

\* The registers keep their relation through every byte transferred.
THEOREM Inductive == Spec => []IInv
BY InitIInv, NextIInv, PTL DEF Spec

\* The registers are bytes: the C register of eight bits and Python's masked
\* integer hold the same values.
THEOREM TypeCorrect == Spec => []TypeOK
<1>1. IInv => TypeOK
  BY DEF IInv
<1> QED
  BY <1>1, Inductive, PTL

\* A line of any length none of whose bytes was damaged is accepted at the
\* other end: protocol.py's and protocol.h's loops agree on every content.
THEOREM CleanLines == Spec => []CleanAccepted
<1>1. IInv => CleanAccepted
  BY DEF IInv, Registers, CleanAccepted, DeviceAccepts, HostAccepts
<1> QED
  BY <1>1, Inductive, PTL

\* One damaged content byte is noticed by both ends, for lines of any length,
\* any characters and any set of flipped bits the host can decode.
THEOREM OneByte == Spec => []SingleByteCaught
<1>1. IInv => SingleByteCaught
  <2> SUFFICES ASSUME IInv, at = "read", hits = 1, suffix = sent
               PROVE  ~DeviceAccepts /\ (ascii => ~HostAccepts)
    BY DEF SingleByteCaught
  <2>1. device # sent /\ (ascii => host = device)
    BY DEF IInv, Registers
  <2>2. suffix # None
    BY NoneIsNoByte DEF IInv, TypeOK
  <2> QED
    BY <2>1, <2>2 DEF DeviceAccepts, HostAccepts
<1> QED
  BY <1>1, Inductive, PTL

(* Parity.  The polynomial has the factor x + 1, that is an odd number of  *)
(* bits: a turn of the loop keeps the parity of the register, so a         *)
(* register holds the parity of all the bits that went into it.            *)

Odd(s) == Cardinality(s) % 2 = 1

LEMMA ByteFinite ==
  ASSUME NEW a \in Byte
  PROVE  IsFiniteSet(a) /\ Cardinality(a) \in Nat
<1>1. IsFiniteSet(Bit) /\ a \in SUBSET Bit
  <2>1. 0 \in Int /\ 7 \in Int
    OBVIOUS
  <2> QED
    BY <2>1, FS_Interval, Zenon DEF Bit, Byte
<1>2. IsFiniteSet(a)
  BY <1>1, FS_Subset
<1> QED
  BY <1>2, FS_CardinalityType

\* XOR adds parities.
LEMMA OddSymDiff ==
  ASSUME NEW a \in Byte, NEW b \in Byte
  PROVE  Odd(SymDiff(a, b)) <=> ~(Odd(a) <=> Odd(b))
<1> DEFINE l == a \ b
           r == b \ a
           m == a \cap b
<1>1. IsFiniteSet(a) /\ IsFiniteSet(b) /\ Cardinality(a) \in Nat /\ Cardinality(b) \in Nat
  BY ByteFinite
<1>2. b \cap a = m /\ l \cap r = {} /\ SymDiff(a, b) = l \cup r
  BY DEF SymDiff
<1>9. IsFiniteSet(r) /\ Cardinality(r) = Cardinality(b) - Cardinality(b \cap a)
  BY <1>1, FS_Difference
<1>3. IsFiniteSet(l) /\ Cardinality(l) = Cardinality(a) - Cardinality(m)
  BY <1>1, FS_Difference
<1>4. IsFiniteSet(r) /\ Cardinality(r) = Cardinality(b) - Cardinality(m)
  BY <1>2, <1>9, Zenon
<1>5. Cardinality(m) \in Nat
  BY <1>1, FS_Intersection, FS_CardinalityType
<1>6. Cardinality(SymDiff(a, b)) = Cardinality(l) + Cardinality(r) - Cardinality(l \cap r)
  BY <1>2, <1>3, <1>4, FS_Union
<1>7. Cardinality(l \cap r) = 0
  BY <1>2, FS_EmptySet
<1>8. Cardinality(SymDiff(a, b)) = Cardinality(a) + Cardinality(b) - 2 * Cardinality(m)
  BY <1>1, <1>3, <1>4, <1>5, <1>6, <1>7
<1> QED
  BY <1>1, <1>5, <1>8 DEF Odd

LEMMA MovedCardinality ==
  ASSUME NEW c \in Byte
  PROVE  Cardinality(Moved(c)) = Cardinality(c \ {7})
<1> DEFINE low == c \ {7}
           up  == [i \in low |-> i + 1]
<1>1. IsFiniteSet(low) /\ low \subseteq Nat
  BY ByteFinite, FS_RemoveElement DEF Byte, Bit
<1>2. up \in Bijection(low, Moved(c))
  <2>1. up \in [low -> Moved(c)]
    BY DEF Moved
  <2>2. \A i, j \in low : up[i] = up[j] => i = j
    BY <1>1
  <2>3. \A k \in Moved(c) : \E i \in low : up[i] = k
    BY DEF Moved
  <2> QED
    BY <2>1, <2>2, <2>3 DEF Bijection, Injection, Surjection, IsInjective
<1>3. ExistsBijection(low, Moved(c))
  BY <1>2 DEF ExistsBijection
<1> QED
  BY <1>1, <1>3, FS_Bijection

LEMMA PolyOdd == Poly \in Byte /\ Odd(Poly)
<1>1. Poly = ({0} \cup {4}) \cup {5}
  BY DEF Poly
<1>2. IsFiniteSet({0}) /\ Cardinality({0}) = 1
  BY FS_Singleton
<1>3. IsFiniteSet({0} \cup {4}) /\ Cardinality({0} \cup {4}) = 2
  BY <1>2, FS_AddElement
<1>4. Cardinality(({0} \cup {4}) \cup {5}) = 3
  BY <1>3, FS_AddElement
<1> QED
  BY <1>1, <1>4 DEF Odd, Poly, Byte, Bit

\* A turn of compute_crc8's loop keeps the parity.
LEMMA ShiftParity ==
  ASSUME NEW c \in Byte
  PROVE  Odd(Shift(c)) <=> Odd(c)
<1>1. IsFiniteSet(c) /\ Cardinality(c) \in Nat
  BY ByteFinite
<1>2. Cardinality(Moved(c)) = IF 7 \in c THEN Cardinality(c) - 1 ELSE Cardinality(c)
  BY <1>1, MovedCardinality, FS_RemoveElement
<1>3. CASE 7 \notin c
  BY <1>2, <1>3, ShiftBits DEF Odd
<1>4. CASE 7 \in c
  <2>1. Odd(Moved(c)) <=> ~Odd(c)
    BY <1>1, <1>2, <1>4 DEF Odd
  <2>2. Odd(Shift(c)) <=> ~(Odd(Moved(c)) <=> Odd(Poly))
    BY <1>4, ShiftBits, MovedBits, PolyOdd, OddSymDiff
  <2> QED
    BY <2>1, <2>2, PolyOdd
<1> QED
  BY <1>3, <1>4

\* Reading a byte adds its parity to the register's.
LEMMA Crc8Parity ==
  ASSUME NEW crc \in Byte, NEW byte \in Byte
  PROVE  Odd(Crc8(crc, byte)) <=> ~(Odd(crc) <=> Odd(byte))
<1> DEFINE s == SymDiff(crc, byte)
<1>1. s \in Byte
  BY SymDiffByte
<1>2. \A c \in Byte : Shift(c) \in Byte /\ (Odd(Shift(c)) <=> Odd(c))
  BY ShiftByte, ShiftParity
<1>3. Odd(Shift8(s)) <=> Odd(s)
  <2> HIDE DEF s
  <2> QED
    BY <1>1, <1>2 DEF Shift8
<1>4. Crc8(crc, byte) = Shift8(s)
  BY DEF Crc8, Shift8
<1> QED
  BY <1>3, <1>4, OddSymDiff

\* The inductive invariant: the flipped content bits are odd in number exactly
\* when the registers' parities differ.
Parities ==
  /\ odd <=> ~(Odd(device) <=> Odd(sent))
  /\ ascii => (odd <=> ~(Odd(host) <=> Odd(sent)))

LEMMA TransferParities ==
  ASSUME TypeOK, Parities, NEW byte \in Byte, NEW flipped \in Byte, Transfer(byte, flipped)
  PROVE  Parities'
<1> DEFINE arrived == SymDiff(byte, flipped)
<1>1. arrived \in Byte
  BY SymDiffByte
<1>2. Odd(arrived) <=> ~(Odd(byte) <=> Odd(flipped))
  BY OddSymDiff
<1>3. sent \in Byte /\ device \in Byte /\ host \in Byte /\ odd \in BOOLEAN /\ ascii \in BOOLEAN
  BY DEF TypeOK
<1>4. /\ sent' = Crc8(sent, byte) /\ device' = Crc8(device, arrived)
      /\ host' = HostCrc8(host, arrived) /\ ascii' = (ascii /\ 7 \notin arrived)
      /\ odd' = (odd # Odd(flipped))
  BY TransferRegisters DEF Transfer, Odd
<1>5. odd' <=> ~(odd <=> Odd(flipped))
  BY <1>3, <1>4, Zenon DEF Odd
<1>6. Odd(sent') <=> ~(Odd(sent) <=> Odd(byte))
  BY <1>3, <1>4, Crc8Parity
<1>7. Odd(device') <=> ~(Odd(device) <=> Odd(arrived))
  BY <1>1, <1>3, <1>4, Crc8Parity
<1>8. ascii' => ascii /\ (Odd(host') <=> ~(Odd(host) <=> Odd(arrived)))
  <2> SUFFICES ASSUME ascii' PROVE ascii /\ (Odd(host') <=> ~(Odd(host) <=> Odd(arrived)))
    OBVIOUS
  <2>1. ascii /\ 7 \notin arrived
    BY <1>4
  <2>2. host' = Crc8(host, arrived)
    BY <1>4, <2>1 DEF HostCrc8
  <2> QED
    BY <1>1, <1>3, <2>1, <2>2, Crc8Parity
<1> QED
  <2> HIDE DEF arrived
  <2>1. odd' <=> ~(Odd(device') <=> Odd(sent'))
    BY <1>2, <1>5, <1>6, <1>7 DEF Parities
  <2>2. ascii' => (odd' <=> ~(Odd(host') <=> Odd(sent')))
    BY <1>2, <1>5, <1>6, <1>8 DEF Parities
  <2> QED
    BY <2>1, <2>2 DEF Parities, Odd

LEMMA ParitiesInductive == IInv /\ Parities /\ [Next]_vars => Parities'
<1> SUFFICES ASSUME IInv, Parities, [Next]_vars PROVE Parities'
  OBVIOUS
<1>1. TypeOK
  BY DEF IInv
<1>2. CASE UNCHANGED vars
  BY <1>2 DEF vars, Parities, Odd
<1>3. CASE SendByte
  <2>1. PICK byte \in Chars : Transfer(byte, {})
    BY <1>3 DEF SendByte
  <2>2. byte \in Byte /\ {} \in Byte
    BY CharIsAscii DEF Byte
  <2> QED
    BY <1>1, <2>1, <2>2, TransferParities
<1>4. CASE DamageByte
  <2>1. PICK byte \in Chars, flipped \in Noise : Transfer(byte, flipped)
    BY <1>4 DEF DamageByte
  <2>2. byte \in Byte /\ flipped \in Byte
    BY CharIsAscii, FormatAssumption
  <2> QED
    BY <1>1, <2>1, <2>2, TransferParities
<1>5. CASE EndContent \/ SendSuffix
  BY <1>5 DEF EndContent, SendSuffix, Parities, Odd
<1> QED
  BY <1>2, <1>3, <1>4, <1>5 DEF Next

\* Damage that flips an odd number of bits, in however many bytes, is noticed
\* by both ends: the CRC of parse_line and validate_crc sees it for lines of
\* any length, as long as the host can decode the bytes.
THEOREM OddDamage == Spec => []OddDamageCaught
<1>1. Init => Parities
  BY DEF Init, Parities
<1>2. IInv /\ Parities => OddDamageCaught
  <2> SUFFICES ASSUME IInv, Parities, odd, suffix = sent, at = "read"
               PROVE  ~DeviceAccepts /\ (ascii => ~HostAccepts)
    BY DEF OddDamageCaught
  <2>1. device # sent /\ (ascii => host # sent)
    BY DEF Parities
  <2>2. suffix # None
    BY NoneIsNoByte DEF IInv, TypeOK
  <2> QED
    BY <2>1, <2>2 DEF DeviceAccepts, HostAccepts
<1> QED
  BY <1>1, <1>2, ParitiesInductive, Inductive, PTL DEF Spec
=============================================================================
