------------------------------- MODULE Packer -------------------------------
(***************************************************************************)
(* common/packer.go with crypto/xxtea and crypto/shuffle: how a Message    *)
(* becomes the bytes of one websocket message and back.  Everything is a   *)
(* function of its arguments; the random bytes of Obfuscate are arguments. *)
(*                                                                         *)
(* A byte has Byte values (256 in the code), a 16-bit number Byte^2 and a  *)
(* 32-bit word Byte^4, so that the limits of the numbers come within reach *)
(* of short messages.  Bytes are numbered from 1, as sequences are.        *)
(***************************************************************************)
EXTENDS Integers, SequencesExt

CONSTANTS
    Error,              \* what a function returns next to an error
    Byte,               \* values of a byte
    KEY_LENGTH, MIN_INPUT_LENGTH, MAX_TARGET_LENGTH, MAGIC_NUMBER,
    Delta,              \* xxtea's delta
    Mix(_, _, _, _, _)  \* sum, y, z, p and key -> xxtea's mx

Word16 == Byte * Byte
Word32 == Word16 * Word16

Bytes == 0 .. Byte - 1

\* The five strings of a Message are a sequence here: Wid, Cid, Msg, Network
\* and Address.
Messages == [cmd : Bytes, ok : BOOLEAN, strings : [1..5 -> Seq(Bytes)], data : Seq(Bytes)]

\* Rounds of xxtea for n words.
Rounds(n) == 6 + 52 \div n

ASSUME PackerAssumption ==
    /\ Byte \in Nat \ {0, 1}
    /\ KEY_LENGTH \in Nat /\ KEY_LENGTH >= 5
    /\ MIN_INPUT_LENGTH \in Nat /\ MAX_TARGET_LENGTH \in Nat /\ MAGIC_NUMBER \in Nat
    /\ MIN_INPUT_LENGTH <= MAX_TARGET_LENGTH
    /\ MAX_TARGET_LENGTH + MAGIC_NUMBER < Word16
    /\ Delta \in Nat
    /\ \A q \in 1..32 : (q * Delta) % Word32 # 0  \* or decrypt would stop before round 0
    /\ Error \notin Seq(Nat) /\ Error \notin Messages

\* The word of four bytes, the lowest first, and byte j of a word, from 0.
Word(b0, b1, b2, b3) == ((b3 * Byte + b2) * Byte + b1) * Byte + b0
ByteOf(word, j) == (word \div <<1, Byte, Word16, Word16 * Byte>>[j + 1]) % Byte

-----------------------------------------------------------------------------
(* Message <-> bytes                                                        *)

MESSAGE_VERSION == 1
MAX_STRING_LENGTH == Word16 - 1

\* binary.BigEndian
PutUint16(n) == <<ByteOf(n, 1), ByteOf(n, 0)>>
PutUint32(n) == <<ByteOf(n, 3), ByteOf(n, 2), ByteOf(n, 1), ByteOf(n, 0)>>
Uint16(b) == Word(b[2], b[1], 0, 0)
Uint32(b) == Word(b[4], b[3], b[2], b[1])

writeString(value) == PutUint16(Len(value)) \o value
writeBytes(value) == PutUint32(Len(value)) \o value

EncodeMessage(msg) ==
    IF \E i \in 1..5 : Len(msg.strings[i]) > MAX_STRING_LENGTH
    THEN Error
    ELSE <<MESSAGE_VERSION, msg.cmd, IF msg.ok THEN 1 ELSE 0>>
         \o (writeString(msg.strings[1]) \o (writeString(msg.strings[2])
         \o (writeString(msg.strings[3]) \o (writeString(msg.strings[4])
         \o (writeString(msg.strings[5]) \o writeBytes(msg.data))))))

Failed == [rest |-> <<>>, value |-> <<>>, err |-> TRUE]

\* Mutant: a short read of a field is not an error.
MutReadField(reader, k, n) ==
    LET end == IF k + n > Len(reader.rest) THEN Len(reader.rest) ELSE k + n IN
    IF reader.err \/ Len(reader.rest) < k THEN Failed
    ELSE [rest |-> SubSeq(reader.rest, end + 1, Len(reader.rest)),
          value |-> SubSeq(reader.rest, k + 1, end), err |-> FALSE]

\* Reads n bytes behind the k bytes of their number; after an error nothing.
ReadField(reader, k, n) ==
    IF reader.err \/ Len(reader.rest) < k \/ Len(reader.rest) - k < n THEN Failed
    ELSE [rest |-> SubSeq(reader.rest, k + n + 1, Len(reader.rest)),
          value |-> SubSeq(reader.rest, k + 1, k + n), err |-> FALSE]

readString(reader) == ReadField(reader, 2, Uint16(reader.rest))
readBytes(reader) == ReadField(reader, 4, Uint32(reader.rest))

decodeBinaryMessage(input) ==
    LET wid == readString([rest |-> SubSeq(input, 4, Len(input)), value |-> <<>>, err |-> FALSE])
        cid == readString(wid)
        message == readString(cid)
        network == readString(message)
        address == readString(network)
        data == readBytes(address)
    IN  IF \/ Len(input) < 3 \/ input[1] # MESSAGE_VERSION
           \/ data.err \/ data.rest # <<>>
        THEN Error
        ELSE [cmd |-> input[2], ok |-> input[3] # 0,
              strings |-> <<wid.value, cid.value, message.value, network.value, address.value>>,
              data |-> data.value]

\* encoding/gob rejects what EncodeMessage wrote, whole or cut.
decodeGobMessage(input) == Error

DecodeMessage(input) ==
    LET message == decodeBinaryMessage(input) IN
    IF message # Error THEN message ELSE decodeGobMessage(input)

-----------------------------------------------------------------------------
(* xxtea                                                                    *)

\* The bytes as words, with their number at the end for data.
toUint32s(bytes, includeLength) ==
    LET byte(i) == IF i \in DOMAIN bytes THEN bytes[i] ELSE 0
        words == [w \in 1..((Len(bytes) + 3) \div 4) |->
                    Word(byte(4 * w - 3), byte(4 * w - 2), byte(4 * w - 1), byte(4 * w))]
    IN  IF includeLength THEN Append(words, Len(bytes)) ELSE words

toBytes(v, includeLength) ==
    LET n == 4 * Len(v)
        all == [i \in 1..n |-> ByteOf(v[(i + 3) \div 4], (i - 1) % 4)]
        m == Last(v)
    IN  IF ~includeLength THEN all
        ELSE IF m < n - 7 \/ m > n - 4 THEN <<>> ELSE SubSeq(all, 1, m)

\* What mx makes of the neighbours of word p.
Mixed(v, p, sum, k) ==
    LET n == Len(v) IN
    Mix(sum, v[IF p = n THEN 1 ELSE p + 1], v[IF p = 1 THEN n ELSE p - 1], p, k)

\* One round: every word, from the first on, is mixed with its neighbours.
encryptRound(v, sum, k) ==
    LET u[p \in 0..Len(v)] ==
            IF p = 0 THEN v
            ELSE LET w == u[p - 1] IN
                 [w EXCEPT ![p] = (@ + Mixed(w, p, sum, k)) % Word32]
    IN  u[Len(v)]

\* Mutant: the inverse goes through the words in the same order.
MutDecryptRound(v, sum, k) ==
    LET u[p \in 0..Len(v)] ==
            IF p = 0 THEN v
            ELSE LET w == u[p - 1] IN
                 [w EXCEPT ![p] = (@ - Mixed(w, p, sum, k)) % Word32]
    IN  u[Len(v)]

\* The inverse, from the last word down; u[p] has p words done.
decryptRound(v, sum, k) ==
    LET n == Len(v)
        u[p \in 0..n] ==
            IF p = 0 THEN v
            ELSE LET w == u[p - 1] IN
                 [w EXCEPT ![n - p + 1] = (@ - Mixed(w, n - p + 1, sum, k)) % Word32]
    IN  u[n]

\* The sum of round q, of encrypt on its way up and decrypt on its way down.
Sum(q) == (q * Delta) % Word32

encrypt(v, k) ==
    LET u[q \in 0..Rounds(Len(v))] ==
            IF q = 0 THEN v ELSE encryptRound(u[q - 1], Sum(q), k)
    IN  u[Rounds(Len(v))]

decrypt(v, k) ==
    LET r == Rounds(Len(v))
        u[q \in 0..r] ==
            IF q = 0 THEN v ELSE decryptRound(u[q - 1], Sum(r - q + 1), k)
    IN  u[r]

Encrypt(input, k) ==
    IF input = <<>> THEN <<>> ELSE toBytes(encrypt(toUint32s(input, TRUE), k), FALSE)

Decrypt(input, k) ==
    IF input = <<>> THEN <<>> ELSE toBytes(decrypt(toUint32s(input, FALSE), k), TRUE)

-----------------------------------------------------------------------------
(* shuffle                                                                  *)

unique(key) ==
    LET u[i \in 0..Len(key)] ==
            IF i = 0 THEN <<>>
            ELSE LET w == u[i - 1] IN IF Contains(w, key[i]) THEN w ELSE Append(w, key[i])
    IN  u[Len(key)]

\* The i-th byte of the key and the i-th from its end change places.
getTable(key) ==
    LET table[i \in 0..(Len(key) \div 2)] ==
            IF i = 0 THEN [b \in Bytes |-> b]
            ELSE LET t == table[i - 1]
                     j == Len(key) - i + 1
                 IN  [t EXCEPT ![key[i]] = t[key[j]], ![key[j]] = t[key[i]]]
    IN  table[Len(key) \div 2]

\* shuffle.Encrypt, which is its own inverse.
Shuffle(data, key) ==
    LET table == getTable(unique(key)) IN [i \in DOMAIN data |-> table[data[i]]]

-----------------------------------------------------------------------------
(* The padding, in 16 bits                                                  *)

\* The bytes key[3:5] in little-endian.
KeyNumber(key) == key[4] + key[5] * Byte

Floor == MAX_TARGET_LENGTH + MAGIC_NUMBER

\* Max(key, floor) - MAX_TARGET_LENGTH
Offset(k) == (IF k < Floor THEN Floor ELSE k) - MAX_TARGET_LENGTH

\* rand.Intn(MAX_TARGET_LENGTH - MIN_INPUT_LENGTH + 1)
Draws == 0 .. MAX_TARGET_LENGTH - MIN_INPUT_LENGTH

\* Padding of a message of n bytes with draw r.
Padlen(n, r) == IF n >= MIN_INPUT_LENGTH THEN 0 ELSE MIN_INPUT_LENGTH - n + r

\* The 16-bit number that goes before the padding.
PackedPadlen(k, n, r) == (Offset(k) + Padlen(n, r)) % Word16

\* What the bytes of the padding are, nobody looks at.
Obfuscate(input, key, r) ==
    key \o PutUint16(PackedPadlen(KeyNumber(key), Len(input), r))
        \o [i \in 1..Padlen(Len(input), r) |-> 0]
        \o Shuffle(input, key)

Deobfuscate(input) ==
    LET key == SubSeq(input, 1, KEY_LENGTH)
        packed == Uint16(SubSeq(input, KEY_LENGTH + 1, KEY_LENGTH + 2))
        start == KEY_LENGTH + 2 + packed - Offset(KeyNumber(key))
    IN  IF \/ Len(input) < KEY_LENGTH + 2
           \/ packed < Offset(KeyNumber(key))
           \/ Len(input) < start
        THEN Error
        ELSE Shuffle(SubSeq(input, start + 1, Len(input)), key)

Pack(msg, password, key, r) ==
    LET bytes == EncodeMessage(msg) IN
    IF bytes = Error THEN Error ELSE Obfuscate(Encrypt(bytes, password), key, r)

Unpack(packed, password) ==
    LET data == Deobfuscate(packed) IN
    IF data = Error THEN Error ELSE DecodeMessage(Decrypt(data, password))
=============================================================================
