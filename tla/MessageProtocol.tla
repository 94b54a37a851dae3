---------------------------- MODULE MessageProtocol ----------------------------
(***************************************************************************)
(* The way of a message into an image and back (message_protocol.py): the  *)
(* padded, sealed frame, its Reed-Solomon blocks, their columns taken in   *)
(* turn, and the map that repeats their bits over all pixels; then damage, *)
(* the vote over the copies, correction and authentication.                *)
(***************************************************************************)
EXTENDS Integers, Sequences, FiniteSets, FiniteSetsExt

CONSTANTS
    ByteBits,                \* 8
    BlockData, BlockParity,  \* 223 and 32
    Parity(_),               \* the parity bytes that RSCodec appends
    HeaderBytes, TagBytes,   \* 45, PROTOCOL_PREFIX first, and Aead.MACBYTES
    MessageLimit, PixelsPerByte,   \* 1024 and 1024
    Messages,                \* encoded texts
    Passwords, ModelPairs,   \* and compatibility identifiers
    Sizes,                   \* numbers of pixels
    MaxDamage                \* bound: pixels read wrongly

VARIABLES
    sent,     \* what was encoded, for whom, or nothing yet
    pixelMap, \* create_payload_map
    damage,   \* the pixels that are read wrongly
    reading   \* of decode_message

messageVars == <<sent, pixelMap, damage, reading>>

Values == 2^ByteBits
Byte == 0..(Values - 1)
CodeBytes == BlockData + BlockParity
Listed(s) == <<>> \o s   \* s: TLC then evaluates each element once
Wrong(s, t) == Cardinality({i \in DOMAIN s : s[i] # t[i]})

\* of the codec: codewords differ in more bytes than it has parity
ASSUME CodecAssumption ==
    /\ \A data \in [1..BlockData -> Byte] : Parity(data) \in [1..BlockParity -> Byte]
    /\ \A data, other \in [1..BlockData -> Byte] :
           data # other => Wrong(data, other) + Wrong(Parity(data), Parity(other)) > BlockParity

ASSUME LayoutAssumption ==
    /\ {ByteBits, BlockData, PixelsPerByte} \subseteq Nat \ {0}
    /\ {BlockParity, HeaderBytes, TagBytes, MessageLimit, MaxDamage} \subseteq Nat
    /\ Sizes \subseteq Nat /\ Messages \subseteq Seq(Byte)
    /\ Values \in Nat \ {0, 1} /\ MessageLimit < Values * Values   \* lengths have two bytes

\* unpackbits and packbits, the highest bit first
Bits(byte) == [k \in 0..(ByteBits - 1) |-> (byte \div 2^(ByteBits - 1 - k)) % 2]
Pack(bits) == MapThenSumSet(LAMBDA k : bits[k] * 2^(ByteBits - 1 - k), DOMAIN bits)

\* of numpy: packbits undoes unpackbits
ASSUME PackingAssumption ==
    \A byte \in Byte : Bits(byte) \in [0..(ByteBits - 1) -> {0, 1}] /\ Pack(Bits(byte)) = byte

-----------------------------------------------------------------------------
(* calculate_capacity *)

LengthBytes == 2
Overhead == HeaderBytes + LengthBytes + TagBytes
MaximumMessage(pixels) ==
    IF pixels \div PixelsPerByte < MessageLimit THEN pixels \div PixelsPerByte ELSE MessageLimit
BlockCount(pixels) == (MaximumMessage(pixels) + Overhead + BlockData - 1) \div BlockData
FrameBytes(pixels) == BlockCount(pixels) * BlockData
ProtectedBytes(pixels) == BlockCount(pixels) * CodeBytes
ProtectedBits(pixels) == ProtectedBytes(pixels) * ByteBits
Supported(pixels) == ProtectedBits(pixels) <= pixels

-----------------------------------------------------------------------------
(* create_frame and recover_frame.  The cipher text stands for itself: a      *)
(* property looks at what decrypt accepts, never at what cipher text hides.   *)

Zeros(n) == [i \in 1..n |-> 0]
Header == [i \in 1..HeaderBytes |-> 1]

Body(message, pixels) ==
    LET body == <<Len(message) \div Values, Len(message) % Values>> \o message IN
    body \o Zeros(FrameBytes(pixels) - HeaderBytes - TagBytes - Len(body))

Frame(message, pixels) == Header \o Body(message, pixels) \o Zeros(TagBytes)

\* what a frame is bound to besides the password
Context(pair, pixels) == [pair |-> pair, pixels |-> pixels]

\* a password of the permitted length, as it is, or none
NoPassword == ""
PasswordBytes(password) == {password} \ {NoPassword}

\* decrypt opens what was sealed under the same key, header and context, and nothing else
Authentic(frame, password, context) ==
    /\ frame = sent.frame /\ password = sent.password /\ context = sent.context

TextOf(body, pixels) ==
    LET length == body[1] * Values + body[2]
        text == SubSeq(body, LengthBytes + 1, Len(body))
    IN IF length <= MaximumMessage(pixels) /\ \A i \in DOMAIN text : i > length => text[i] = 0
       THEN {SubSeq(text, 1, length)} ELSE {}

\* the text, or nothing: recovery_failure
RecoverFrame(frame, password, context) ==
    IF /\ PasswordBytes(password) # {}
       /\ SubSeq(frame, 1, HeaderBytes) = Header /\ Authentic(frame, password, context)
    THEN TextOf(SubSeq(frame, HeaderBytes + 1, Len(frame) - TagBytes), context.pixels) ELSE {}

-----------------------------------------------------------------------------
(* protect_frame and restore_frame *)

Codeword(data) == data \o Parity(data)
Block(frame, b) == SubSeq(frame, (b - 1) * BlockData + 1, b * BlockData)

\* a fault: one block after the other
FaultyPlace(b, column, pixels) == (b - 1) * CodeBytes + column

\* where the byte of a block is in the stream: column by column
Place(b, column, pixels) == (column - 1) * BlockCount(pixels) + b

Origin(i, pixels) ==
    CHOOSE at \in (1..BlockCount(pixels)) \X (1..CodeBytes) : Place(at[1], at[2], pixels) = i

Codewords(frame, pixels) ==
    Listed([b \in 1..BlockCount(pixels) |-> Codeword(Block(frame, b))])

ProtectFrame(frame, pixels) ==
    LET words == Codewords(frame, pixels) IN
    [i \in 1..ProtectedBytes(pixels) |-> words[Origin(i, pixels)[1]][Origin(i, pixels)[2]]]

\* the codec corrects half as many bytes as it has parity; with more it fails, or finds
\* another word
Corrected(received) ==
    {data \in [1..BlockData -> Byte] : Wrong(Codeword(data), received) <= BlockParity \div 2}

Received(bytes, b, pixels) ==
    Listed([column \in 1..CodeBytes |-> bytes[Place(b, column, pixels)]])

CorrectedBlocks(bytes, pixels) ==
    Listed([b \in 1..BlockCount(pixels) |-> Corrected(Received(bytes, b, pixels))])

RestoreFrame(bytes, pixels) ==
    LET blocks == CorrectedBlocks(bytes, pixels) IN
    IF \E b \in DOMAIN blocks : blocks[b] = {} THEN {}
    ELSE {[i \in 1..FrameBytes(pixels) |->
               (CHOOSE data \in blocks[(i - 1) \div BlockData + 1] : TRUE)
                   [((i - 1) % BlockData) + 1]]}

-----------------------------------------------------------------------------
(* create_payload_map and recover_payload_bytes *)

BitOf(bytes, i) == Bits(bytes[i \div ByteBits + 1])[i % ByteBits]
Copies(i, pixels) == {p \in 1..pixels : (p - 1) % ProtectedBits(pixels) = i}

PayloadMap(bytes, pixels) ==
    [p \in 1..pixels |-> BitOf(bytes, (p - 1) % ProtectedBits(pixels))]

ReadBit(p) == IF p \in damage THEN 1 - pixelMap[p] ELSE pixelMap[p]

\* twice the ones less the copies, full repetitions and extra ones; a tie is zero
Voted(i, pixels) ==
    LET copies == Copies(i, pixels)
        ones == {p \in copies : ReadBit(p) = 1}
    IN IF 2 * Cardinality(ones) - Cardinality(copies) > 0 THEN 1 ELSE 0

RecoverBytes(pixels) ==
    Listed([j \in 1..ProtectedBytes(pixels) |->
        Pack([k \in 0..(ByteBits - 1) |-> Voted((j - 1) * ByteBits + k, pixels)])])

-----------------------------------------------------------------------------
NothingSent == [message |-> <<>>, password |-> NoPassword, context |-> Context("", 0), frame |-> <<>>]
NoText == [text |-> {}, password |-> NoPassword, context |-> Context("", 0)]

EncodeMessage(message, password, pair, pixels) ==
    /\ sent = NothingSent
    /\ Supported(pixels) /\ Len(message) <= MaximumMessage(pixels)
    /\ PasswordBytes(password) # {}
    /\ LET frame == Frame(message, pixels) IN
       /\ sent' = [message |-> message, password |-> password,
                   context |-> Context(pair, pixels), frame |-> frame]
       /\ pixelMap' = PayloadMap(ProtectFrame(frame, pixels), pixels)
    /\ UNCHANGED <<damage, reading>>

\* the decoder network reads a bit wrongly
DamagePixel(p) ==
    /\ reading = NoText /\ Cardinality(damage) < MaxDamage
    /\ \A q \in damage : q < p
    /\ damage' = damage \cup {p}
    /\ UNCHANGED <<sent, pixelMap, reading>>

\* decode_message for the image that arrived; a part of it arrives when it was cropped
DecodeMessage(password, pair, pixels) ==
    /\ sent # NothingSent /\ reading = NoText
    /\ pixels <= sent.context.pixels /\ Supported(pixels)
    /\ reading' = [password |-> password, context |-> Context(pair, pixels),
                  text |-> UNION {RecoverFrame(frame, password, Context(pair, pixels)) :
                                      frame \in RestoreFrame(RecoverBytes(pixels), pixels)}]
    /\ UNCHANGED <<sent, pixelMap, damage>>

MessageInit == sent = NothingSent /\ pixelMap = <<>> /\ damage = {} /\ reading = NoText

MessageNext ==
    \E password \in Passwords, pair \in ModelPairs, pixels \in Sizes :
        \/ \E message \in Messages : EncodeMessage(message, password, pair, pixels)
        \/ DecodeMessage(password, pair, pixels)
        \/ \E p \in DOMAIN pixelMap : DamagePixel(p)

MessageSpec == MessageInit /\ [][MessageNext]_messageVars

-----------------------------------------------------------------------------
(* Properties *)

\* the bytes of the stream one of whose bits the vote may have lost
Lost == {i \div ByteBits : i \in
            {j \in 0..(ProtectedBits(sent.context.pixels) - 1) :
                LET copies == Copies(j, sent.context.pixels) IN
                2 * Cardinality(copies \cap damage) >= Cardinality(copies)}}

\* "No partial or guessed text returns" (docs/message_protocol.md): whatever was damaged and
\* whoever reads it, an answer is the message that was sent, to the byte, or none.
NoGuessedText == reading # NoText => reading.text \in {{}, {sent.message}}

\* Besides, "Correctable damage recovers exact bytes" (plan/sprint_02.md): while the bytes
\* that were lost are within as many neighbours as all blocks together can correct, the
\* right password and model get the message.
MessageExactOrRefused ==
    /\ NoGuessedText
    /\ /\ reading # NoText
       /\ reading.password = sent.password /\ reading.context = sent.context
       /\ Lost # {} => Max(Lost) - Min(Lost) <
                          (BlockParity \div 2) * BlockCount(sent.context.pixels)
       => reading.text = {sent.message}
================================================================================
