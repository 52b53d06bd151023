------------------------------ MODULE PacketCodec ------------------------------
(***************************************************************************)
(* WanServer's encoding of packets.  Each byte is mixed with the packet's  *)
(* random key, with a fixed key, with its place and with what came before  *)
(* it, so that a byte only decodes in its place and after the same bytes.  *)
(* Arithmetic is on int, and what is stored is its low byte.               *)
(***************************************************************************)
EXTENDS Integers, Sequences

FIXED_KEY == 50 \* 0x32

Byte == 0 .. 255
Low(x) == x % 256

\* exclusive or of four bits: in each, whether an odd number of them is set
Nibbles == [x \in 0 .. 15 |-> [y \in 0 .. 15 |->
    8 * ((x \div 8 + y \div 8) % 2) + 4 * ((x \div 4 + y \div 4) % 2)
        + 2 * ((x \div 2 + y \div 2) % 2) + ((x + y) % 2)]]

\* exclusive or of two bytes
Mixed(x, y) == 16 * Nibbles[x \div 16][y \div 16] + Nibbles[x % 16][y % 16]

\* a BYTE, to which the bytes are added
calculateCheckSum(data) ==
    LET sum[i \in 0 .. Len(data)] == IF i = 0 THEN 0 ELSE Low(sum[i - 1] + data[i])
    IN sum[Len(data)]

\* encode: the check sum and the bytes as they are sent
Encode(key, checkSum, data) ==
    LET scalar0 == Mixed(checkSum, Low(key + 1))
        at[i \in 0 .. Len(data)] ==
            IF i = 0 THEN [scalar |-> scalar0, encoded |-> Mixed(scalar0, FIXED_KEY + 1)]
            ELSE LET last == at[i - 1]
                     scalar == Mixed(data[i], Low(key + last.scalar + i + 1))
                 IN [scalar |-> scalar,
                     encoded |-> Mixed(scalar, Low(FIXED_KEY + last.encoded + i + 1))]
    IN [checkSum |-> at[0].encoded, data |-> [i \in 1 .. Len(data) |-> at[i].encoded]]

\* mutant: the byte is mixed with the one before it as it was, not as it came
DecodePlain(key, checkSum, data) ==
    LET p[i \in 0 .. Len(data)] ==
            IF i = 0 THEN Mixed(checkSum, FIXED_KEY + 1)
            ELSE LET last == IF i = 1 THEN checkSum ELSE p[i - 1]
                 IN Mixed(data[i], Low(last + FIXED_KEY + i + 1))
    IN [checkSum |-> Mixed(p[0], Low(key + 1)),
        data |-> [i \in 1 .. Len(data) |-> Mixed(p[i], Low(p[i - 1] + key + i + 1))]]

\* decode: e are the bytes as they came, p the same without the fixed key
Decode(key, checkSum, data) ==
    LET e == [i \in 0 .. Len(data) |-> IF i = 0 THEN checkSum ELSE data[i]]
        p == [i \in 0 .. Len(data) |->
                IF i = 0 THEN Mixed(e[0], FIXED_KEY + 1)
                ELSE Mixed(e[i], Low(e[i - 1] + FIXED_KEY + i + 1))]
    IN [checkSum |-> Mixed(p[0], Low(key + 1)),
        data |-> [i \in 1 .. Len(data) |-> Mixed(p[i], Low(p[i - 1] + key + i + 1))]]

================================================================================
