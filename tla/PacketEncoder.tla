---------------------------- MODULE PacketEncoder ----------------------------
(***************************************************************************)
(* XorPacketEncoder: the header that goes before a payload and the two XOR *)
(* passes over the checksum and the payload.  A loop that computes each    *)
(* byte from the one before is stated by the equations between them.       *)
(*                                                                         *)
(* A byte has ByteSize values.  The two bytes of the field Len, which are  *)
(* never looked at one by one, count as one.                               *)
(***************************************************************************)
EXTENDS Integers, Sequences

CONSTANTS
  ByteSize,
  Xor(_, _),
  HeaderCode,
  EncryptKey

Byte == 0 .. ByteSize - 1

ASSUME ByteAssumption ==
  ByteSize \in Nat \ {0} /\ HeaderCode \in Byte /\ EncryptKey \in Byte
ASSUME XorAssumption ==
  \A a, b \in Byte : Xor(a, b) \in Byte /\ Xor(Xor(a, b), b) = a

\* Code, Len, RKey, Checksum; only the last of them is encrypted.
HeaderSize == 4

\* checksum += byte
Sums(s) ==
  {sum \in [0 .. Len(s) -> Byte] :
     sum[0] = 0 /\ \A i \in 1 .. Len(s) : sum[i] = (sum[i - 1] + s[i]) % ByteSize}

Checksums(s) == {sum[Len(s)] : sum \in Sums(s)}

\* What is combined with byte i: the byte made before it, the key and i.
Mask(made, key, i) == ((IF i = 1 THEN 0 ELSE made[i - 1]) + key + i) % ByteSize

Chained(key, s, made) == \A i \in 1 .. Len(s) : made[i] = Xor(s[i], Mask(made, key, i))

Chains(key, s) == {made \in [1 .. Len(s) -> Byte] : Chained(key, s, made)}

\* The loops of Decode run from the last byte to the first: the byte before the
\* one they change is as it was received.
Unchained(key, made) == [i \in 1 .. Len(made) |-> Xor(made[i], Mask(made, key, i))]

\* What Encode makes of a payload when rand() returns rkey.
Ciphers(rkey, s) == UNION {Chains(EncryptKey, first) : first \in Chains(rkey, s)}
Encodings(payload, rkey) ==
  UNION {{<<HeaderCode, Len(payload), rkey>> \o c : c \in Ciphers(rkey, <<sum>> \o payload)} : sum \in Checksums(payload)}

VerifyHeaderMagic(packet) == packet[1] = HeaderCode
PeekPayloadLength(packet) == packet[2]

\* Checksum and payload of the first message in the buffer, in clear.
Clear(packet) ==
  Unchained(packet[3], Unchained(EncryptKey, SubSeq(packet, 4, HeaderSize + PeekPayloadLength(packet))))

DecodeSucceeds(packet) == Clear(packet)[1] \in Checksums(Tail(Clear(packet)))
Decode(packet) == Tail(Clear(packet))

\* The packet is a message, and Decode finds the payload in it.
Carries(packet, payload) ==
  /\ Len(packet) = HeaderSize + Len(payload)
  /\ VerifyHeaderMagic(packet) /\ PeekPayloadLength(packet) = Len(payload)
  /\ DecodeSucceeds(packet) /\ Decode(packet) = payload
=============================================================================
