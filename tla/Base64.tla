------------------------------- MODULE Base64 -------------------------------
(***************************************************************************)
(* A line of the chat file: chat_send encodes a message, chat_read decodes *)
(* it again, and passes over a line that was damaged.  A character is its  *)
(* ASCII code, a message a sequence of bytes.                              *)
(***************************************************************************)
EXTENDS Integers, Sequences, SequencesExt, FiniteSetsExt

CONSTANTS
    RawBytes,   \* bytes of a message
    Raws,       \* the messages that are sent
    LINE_BUF    \* the buffer of chat_read for a line (MAX_MESSAGE_LEN, 1 MB)

ASSUME Base64Assumption ==
    /\ RawBytes \subseteq 1 .. 255 /\ Raws \subseteq Seq(RawBytes)
    /\ LINE_BUF \in Nat \ {0} /\ LINE_BUF % 4 = 0

VARIABLES
    raw,        \* the message
    line,       \* its line in the file
    damage      \* what happened to the line: "none", "cut", "foreign" or "blank"

b64vars == <<raw, line, damage>>

PAD == 61       \* =
SPACE == 32
White == {SPACE, 10, 13}
Refused == <<-1>>

encode_table ==
    [s \in 0 .. 63 |-> IF s < 26 THEN 65 + s
                       ELSE IF s < 52 THEN 97 + s - 26
                       ELSE IF s < 62 THEN 48 + s - 52
                       ELSE IF s = 62 THEN 43 ELSE 47]

\* Entries of characters that base64_is_valid_char refuses are never read.
decode_table ==
    [c \in {43, 47, PAD} \cup 48 .. 57 \cup 65 .. 90 \cup 97 .. 122 |->
        IF c = 43 THEN 62 ELSE IF c = 47 THEN 63 ELSE IF c = PAD THEN 64
        ELSE IF c < 58 THEN c - 48 + 52
        ELSE IF c < 91 THEN c - 65 ELSE c - 97 + 26]

base64_is_valid_char(c) ==
    c \in {PAD, 43, 47} \/ c \in 65 .. 90 \/ c \in 97 .. 122 \/ c \in 48 .. 57

base64_encoded_size(n) == ((n + 2) \div 3) * 4 + 1
base64_decoded_size(n) == (n \div 4) * 3 + 3

\* Three bytes or four sextets in one number, and one of them out of it.
FromBytes(x, y, z) == x * 2^16 + y * 2^8 + z
FromSextets(x, y, z, w) == x * 2^18 + y * 2^12 + z * 2^6 + w
SextetOf(n, k) == (n \div 64^(3 - k)) % 64
ByteOf(n, k) == (n \div 2^(8 * (2 - k))) % 256

\* Missing bytes count as 0 and are padded.
ByteAt(s, i) == IF i =< Len(s) THEN s[i] ELSE 0

base64_encode(s) ==
    [j \in 1 .. base64_encoded_size(Len(s)) - 1 |->
        LET b == (j - 1) \div 4
            k == (j - 1) % 4
        IN  IF 3 * b + k > Len(s) THEN PAD
            ELSE encode_table[SextetOf(FromBytes(ByteAt(s, 3 * b + 1), ByteAt(s, 3 * b + 2),
                                                 ByteAt(s, 3 * b + 3)), k)]]

Stripped(l) ==
    SubSeq(l, 1, Min({n \in 0 .. Len(l) : \A i \in n + 1 .. Len(l) : l[i] \in White}))

\* Padding is in the last block, not in its first half, and nothing follows.
ValidBase64(l) ==
    /\ Len(l) % 4 = 0
    /\ \A i \in 1 .. Len(l) :
          /\ base64_is_valid_char(l[i])
          /\ l[i] = PAD => /\ i > Len(l) - 2
                           /\ \A k \in i .. Len(l) : l[k] = PAD

\* Mutant: one byte less for padding, however much of it there is.
OutLenOnce(l) == (Len(l) \div 4) * 3 - (IF Last(l) = PAD THEN 1 ELSE 0)

OutLen(l) ==
    (Len(l) \div 4) * 3 - Cardinality({i \in {Len(l) - 1, Len(l)} : l[i] = PAD})

\* A padding character counts as 0.
SextetAt(l, i) == decode_table[l[i]] % 64

base64_decode(input, output_size) ==
    LET l == Stripped(input)
    IN  IF l = <<>> THEN <<>>
        ELSE IF ~ValidBase64(l) THEN Refused
        ELSE IF output_size < OutLen(l) THEN Refused
        ELSE [j \in 1 .. OutLen(l) |->
                 LET b == (j - 1) \div 3
                 IN  ByteOf(FromSextets(SextetAt(l, 4 * b + 1), SextetAt(l, 4 * b + 2),
                                        SextetAt(l, 4 * b + 3), SextetAt(l, 4 * b + 4)),
                            (j - 1) % 3)]

\* A piece of a line: chat_read passes over lines of spaces, which a repair leaves, and lines
\* whose length would abort base64_decoded_size.
ReadLine(l) ==
    IF Range(l) = {SPACE} \/ Len(l) % 4 # 0 THEN Refused
    ELSE base64_decode(l, base64_decoded_size(Len(l)))

\* fgets takes LINE_BUF - 1 characters of a line at most, and the rest as
\* lines of their own.
Piece(l, k) ==
    LET first == k * (LINE_BUF - 1)
    IN  SubSeq(l, first + 1,
               IF Len(l) > first + LINE_BUF - 1 THEN first + LINE_BUF - 1 ELSE Len(l))
Pieces(l) == {Piece(l, k) : k \in {i \in 0 .. Len(l) : i * (LINE_BUF - 1) < Len(l)}}

\* The messages that chat_read makes of a line.
chat_read(l) == {ReadLine(p) : p \in Pieces(l)} \ {Refused}

-----------------------------------------------------------------------------
B64Init == raw = <<>> /\ line = <<>> /\ damage = "none"

EncodeLine(s) ==
    /\ damage = "none" /\ raw = <<>>
    /\ raw' = s
    /\ line' = base64_encode(s)
    /\ UNCHANGED damage

\* The rest of the line is missing.
CutLine ==
    /\ damage = "none" /\ damage' = "cut"
    /\ \E n \in 1 .. Len(line) - 1 : line' = SubSeq(line, 1, n)
    /\ UNCHANGED raw

\* A character that is no letter, digit, + or / replaces one.
SpoilLine ==
    /\ damage = "none" /\ damage' = "foreign"
    /\ \E i \in 1 .. Len(line), c \in {PAD, SPACE, 45, 255} : line' = [line EXCEPT ![i] = c]
    /\ UNCHANGED raw

\* nbs-chat-repair overwrites the line.
BlankLine ==
    /\ damage = "none" /\ damage' = "blank" /\ line # <<>>
    /\ line' = [i \in 1 .. Len(line) |-> SPACE]
    /\ UNCHANGED raw

B64Next == (\E s \in Raws : EncodeLine(s)) \/ CutLine \/ SpoilLine \/ BlankLine

B64Spec == B64Init /\ [][B64Next]_b64vars

-----------------------------------------------------------------------------
\* Every message whose line fits the buffer is read back as it was sent; of
\* such a line that was cut or in which something foreign stands chat_read
\* makes a beginning of the message or nothing, never another message.  A
\* longer line reads as an end of the message or as nothing; of one that is
\* damaged nothing is said, but that a blanked line of any length reads as
\* nothing.
LineReadsBack ==
    line # <<>> =>
        /\ damage = "blank" => chat_read(line) = {}
        /\ Len(line) < LINE_BUF =>
              /\ damage = "none" => chat_read(line) = {raw}
              /\ \A m \in chat_read(line) : IsPrefix(m, raw)
        /\ damage = "none" => \A m \in chat_read(line) : IsSuffix(m, raw)
=============================================================================
