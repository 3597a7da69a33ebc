----------------------------- MODULE LineFormat -----------------------------
(***************************************************************************)
(* The check on a protocol line. format_crc on the host and emit on the    *)
(* device append the CRC-8 of a line's content; validate_crc on the device *)
(* and parse_line on the host compute it again over what arrived, each     *)
(* side with a loop of its own: src/etst/protocol.py has compute_crc8,     *)
(* include/etst/protocol.h crc8. One line is transferred byte by byte over *)
(* a wire that flips bits. A byte is the set of its one-bits, so that ^ is *)
(* SymDiff. Content is ASCII; its length is not bounded, since only the    *)
(* registers are kept. Bytes lost, inserted or turned into a line break    *)
(* are not modelled.                                                       *)
(***************************************************************************)
EXTENDS Naturals, FiniteSetsExt

CONSTANTS Chars,    \* the bytes the sender uses
          Noise,    \* the sets of bits a damaged byte may have flipped
          MaxHits   \* bound on the damaged bytes of a line

Bit  == 0..7
Byte == SUBSET Bit

ASSUME FormatAssumption ==
  /\ Chars \subseteq SUBSET (0..6) /\ Noise \subseteq Byte \ {{}} /\ MaxHits \in Nat

VARIABLES sender,   \* host or device
          at,       \* content, suffix, read: how far the line is transferred
          sent,     \* the sender's CRC register
          device,   \* the receiver's register when it is the device,
          host,     \* and when it is the host
          suffix,   \* the hex value received behind " *"; None if there is none
          hits,     \* history: the damaged bytes,
          odd,      \* whether the flipped content bits are odd in number,
          ascii     \* and whether all damaged bytes are still ASCII

vars == <<sender, at, sent, device, host, suffix, hits, odd, ascii>>

\* No byte.
None == {8}
-----------------------------------------------------------------------------
\* _CRC8_POLY, 0x31.
Poly == {0, 4, 5}

\* Mutants: the polynomial is 0x30; the top bit is not fed back; the register
\* is not cut to eight bits.
ShiftWithoutLowBit(crc) ==
  LET moved == {i + 1 : i \in crc \ {7}}
  IN  IF 7 \in crc THEN SymDiff(moved, {4, 5}) ELSE moved
ShiftPlain(crc) == {i + 1 : i \in crc \ {7}}
ShiftUnmasked(crc) ==
  LET moved == {i + 1 : i \in crc}
  IN  IF 7 \in crc THEN SymDiff(moved, Poly) ELSE moved

\* One turn of the inner loop of compute_crc8 (protocol.py), masked with 0xFF.
Shift(crc) ==
  LET moved == {i + 1 : i \in crc \ {7}}
  IN  IF 7 \in crc THEN SymDiff(moved, Poly) ELSE moved

\* Mutant: the polynomial goes in before the shift.
DeviceShiftLate(crc) ==
  LET fed == IF 7 \in crc THEN SymDiff(crc, {0, 4, 5}) ELSE crc
  IN  {i + 1 : i \in fed} \cap Bit

\* One turn of the loop of crc8 (protocol.h): the int that << and ^ make is cut
\* to a uint8_t when it is assigned.
DeviceShift(crc) ==
  (IF 7 \in crc THEN SymDiff({i + 1 : i \in crc}, {0, 4, 5}) ELSE {i + 1 : i \in crc})
    \cap Bit

DeviceTwo(crc)        == DeviceShift(DeviceShift(crc))
DeviceFour(crc)       == DeviceTwo(DeviceTwo(crc))
DeviceCrc8(crc, byte) == DeviceFour(DeviceFour(SymDiff(crc, byte)))

\* One byte: XOR it in, eight turns.
Crc8(crc, byte) ==
  Shift(Shift(Shift(Shift(Shift(Shift(Shift(Shift(SymDiff(crc, byte)))))))))

\* The host decodes what it reads with errors="replace": a byte with the top
\* bit set among ASCII bytes becomes U+FFFD, three bytes of UTF-8.
HostCrc8(crc, byte) ==
  IF 7 \in byte
  THEN Crc8(Crc8(Crc8(crc, {0, 1, 2, 3, 5, 6, 7}), {0, 1, 2, 3, 4, 5, 7}), {0, 2, 3, 4, 5, 7})
  ELSE Crc8(crc, byte)
-----------------------------------------------------------------------------
Init ==
  /\ sender \in {"host", "device"}
  /\ at = "content" /\ sent = {} /\ device = {} /\ host = {} /\ suffix = None
  /\ hits = 0 /\ odd = FALSE /\ ascii = TRUE

Transfer(byte, flipped) ==
  LET arrived == SymDiff(byte, flipped)
  IN  /\ sent'   = IF sender = "device" THEN DeviceCrc8(sent, byte) ELSE Crc8(sent, byte)
      /\ device' = DeviceCrc8(device, arrived)
      /\ host'   = HostCrc8(host, arrived)
      /\ odd'    = (odd # (Cardinality(flipped) % 2 = 1))
      /\ ascii'  = (ascii /\ 7 \notin arrived)

SendByte ==
  /\ at = "content" /\ \E byte \in Chars : Transfer(byte, {})
  /\ UNCHANGED <<sender, at, suffix, hits>>

DamageByte ==
  /\ at = "content" /\ hits < MaxHits /\ hits' = hits + 1
  /\ \E byte \in Chars, flipped \in Noise : Transfer(byte, flipped)
  /\ UNCHANGED <<sender, at, suffix>>

EndContent ==
  /\ at = "content" /\ at' = "suffix"
  /\ UNCHANGED <<sender, sent, device, host, suffix, hits, odd, ascii>>

\* format_crc's " *XX" arrives, reads as another value, or is not recognised.
SendSuffix ==
  /\ at = "suffix" /\ at' = "read"
  /\ \/ suffix' = sent /\ UNCHANGED hits
     \/ /\ hits < MaxHits /\ hits' = hits + 1
        /\ \/ \E flipped \in Noise : suffix' = SymDiff(sent, flipped)
           \/ suffix' = None
  /\ UNCHANGED <<sender, sent, device, host, odd, ascii>>

Next == SendByte \/ DamageByte \/ EndContent \/ SendSuffix

Spec == Init /\ [][Next]_vars
-----------------------------------------------------------------------------
\* validate_crc: a line without the suffix is not valid.
DeviceAccepts == at = "read" /\ suffix = device

\* parse_line and its callers: crc_valid is True, or None for a line without a
\* suffix; only False is rejected.
HostAccepts == at = "read" /\ suffix \in {host, None}

TypeOK ==
  /\ sender \in {"host", "device"}
  /\ at \in {"content", "suffix", "read"} /\ suffix \in Byte \cup {None}
  /\ sent \in Byte /\ device \in Byte /\ host \in Byte
  /\ hits \in 0..MaxHits /\ odd \in BOOLEAN /\ ascii \in BOOLEAN

\* A line none of whose bytes was damaged is accepted at the other end: the two
\* implementations of the CRC agree, on content of any length.
CleanAccepted ==
  at = "read" /\ hits = 0 => IF sender = "host" THEN DeviceAccepts ELSE HostAccepts

\* One damaged byte is noticed, wherever it is and however long the line: the
\* device rejects the line if the content was hit, and so does the host as
\* long as the damaged byte can be decoded.
SingleByteCaught ==
  at = "read" /\ hits = 1 /\ suffix = sent => ~DeviceAccepts /\ (ascii => ~HostAccepts)

\* So is any number of damaged bytes in which an odd number of bits flipped
\* (the polynomial has the factor x + 1).
OddDamageCaught ==
  odd /\ suffix = sent /\ at = "read" => ~DeviceAccepts /\ (ascii => ~HostAccepts)
==============================================================================
