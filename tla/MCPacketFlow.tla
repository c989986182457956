---------------------------- MODULE MCPacketFlow ----------------------------
EXTENDS PacketFlow, TLC

CONSTANTS s1, s2

\* Bytes of two bits.
Bit(b, k) == (b \div k) % 2
XorTwoBits(a, b) == 2 * ((Bit(a, 2) + Bit(b, 2)) % 2) + ((Bit(a, 1) + Bit(b, 1)) % 2)

TwoPayloads == <<<<>>, <<1, 3>>>>
Sends == (s1 :> 2) @@ (s2 :> 1)
=============================================================================
