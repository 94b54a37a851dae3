------------------------- MODULE MessageProtocolProofs -------------------------
(***************************************************************************)
(* What holds of a message for every layout: a frame has room for every    *)
(* permitted message and opens to exactly the message that was sealed, so  *)
(* nobody reads another text; and damage in a burst that all blocks        *)
(* together can correct leaves it readable, since interleaving spreads the *)
(* burst, the vote restores the other bytes and the codec finds one word.  *)
(* Besides, with the code's own numbers every supported image has a layout *)
(* within the bounds that its record states.                               *)
(***************************************************************************)
EXTENDS MessageProtocol, SequenceTheorems, FiniteSetTheorems, WellFoundedInduction, TLAPS

(* Rounding up to whole blocks, as calculate_capacity does it. *)
LEMMA Rounded == ASSUME NEW n \in Nat, NEW d \in Nat \ {0}
                 PROVE  /\ (n + d - 1) \div d \in Nat
                        /\ n <= ((n + d - 1) \div d) * d
    OBVIOUS

-----------------------------------------------------------------------------
(* payload_capacity.py, schemas/protocol.py: with the code's numbers every image of   *)
(* ImageDimensions (512 by 512 pixels at least) has a layout, and its numbers are in  *)
(* the ranges that PayloadCapacity accepts: no supported image fails its validation.  *)
THEOREM ProductionCapacity ==
    ASSUME ByteBits = 8, BlockData = 223, BlockParity = 32,
           HeaderBytes = 45, TagBytes = 16,
           MessageLimit = 1024, PixelsPerByte = 1024,
           NEW pixels \in Nat, pixels >= 262144
    PROVE  /\ MaximumMessage(pixels) \in 256..1024
           /\ BlockCount(pixels) \in 2..5
           /\ FrameBytes(pixels) - Overhead - MaximumMessage(pixels) \in 0..222
           /\ 4080 <= ProtectedBits(pixels) /\ ProtectedBits(pixels) <= 10200
           /\ Supported(pixels)
<1>1. MaximumMessage(pixels) \in 256..1024
    BY DEF MaximumMessage
<1>2. BlockCount(pixels) \in 2..5
    BY <1>1 DEF BlockCount, Overhead, LengthBytes
<1>3. FrameBytes(pixels) - Overhead - MaximumMessage(pixels) \in 0..222
    BY <1>1 DEF FrameBytes, BlockCount, Overhead, LengthBytes
<1>4. ProtectedBits(pixels) = BlockCount(pixels) * 2040
    BY <1>2 DEF ProtectedBits, ProtectedBytes, CodeBytes
<1>5. ProtectedBits(pixels) \in Int
    BY <1>2, <1>4
<1>6. 4080 <= ProtectedBits(pixels) /\ ProtectedBits(pixels) <= 10200
    BY <1>2, <1>4
<1>7. Supported(pixels)
    BY <1>5, <1>6 DEF Supported
<1> QED BY <1>1, <1>2, <1>3, <1>6, <1>7

-----------------------------------------------------------------------------
LEMMA BytesAreNumbers == Values \in Nat \ {0} /\ Byte \subseteq Nat /\ 0 \in Byte /\ 1 \in Byte
<1>1. Values \in Nat \ {0, 1}
    BY LayoutAssumption
<1> QED BY <1>1 DEF Byte

LEMMA ZerosAreBytes == ASSUME NEW n \in Nat
                       PROVE  /\ Zeros(n) \in Seq(Byte) /\ Len(Zeros(n)) = n
                              /\ \A i \in 1..n : Zeros(n)[i] = 0
    BY BytesAreNumbers DEF Zeros

LEMMA HeaderIsSequence == Header \in Seq(Byte) /\ Len(Header) = HeaderBytes
    BY BytesAreNumbers, LayoutAssumption DEF Header

(* Division with rest. *)
LEMMA Divided == ASSUME NEW n \in Nat, NEW d \in Nat \ {0}
                 PROVE  /\ n \div d \in Nat /\ n % d \in 0..(d - 1)
                        /\ (n \div d) * d \in Nat /\ (n \div d) * d + (n % d) = n
<1> DEFINE q == n \div d
<1>1. q \in Nat /\ n % d \in 0..(d - 1) /\ n % d = n - d * q
    OBVIOUS
<1> HIDE DEF q
<1>2. q * d = d * q /\ q * d \in Nat
    BY <1>1
<1>3. q * d + (n % d) = n
  <2> DEFINE product == q * d
             rest == n % d
  <2>1. product \in Nat /\ rest \in Int /\ rest = n - product
      BY <1>1, <1>2
  <2> HIDE DEF product, rest
  <2>2. product + rest = n
      BY <2>1
  <2> QED BY <2>2 DEF product, rest
<1> QED BY <1>1, <1>2, <1>3 DEF q

(* And back. *)
LEMMA Composed == ASSUME NEW q \in Nat, NEW d \in Nat \ {0}, NEW r \in 0..(d - 1)
                  PROVE  q * d + r \in Nat /\ (q * d + r) \div d = q /\ (q * d + r) % d = r
    OBVIOUS

(* A length is written in two bytes, and read again. *)
LEMMA LengthInBytes ==
    ASSUME NEW n \in Nat, n <= MessageLimit
    PROVE  n \div Values \in Byte /\ n % Values \in Byte /\ (n \div Values) * Values + (n % Values) = n
<1> DEFINE V == Values
           high == n \div V
<1>1. V \in Nat \ {0} /\ MessageLimit \in Nat /\ MessageLimit < V * V
    BY LayoutAssumption
<1> HIDE DEF V
<1>2. high \in Nat /\ n % V \in 0..(V - 1) /\ high * V \in Nat /\ high * V + (n % V) = n
    BY <1>1, Divided
<1>3. high < V
  <2> HIDE DEF high
  <2>1. high * V <= n /\ n < V * V
    <3> DEFINE product == high * V
               rest == n % V
    <3>1. product \in Nat /\ rest \in Nat /\ product + rest = n
      <4>1. product \in Nat /\ product + rest = n
          BY <1>2, Zenon
      <4>2. rest \in Nat
          BY <1>1, <1>2
      <4> QED BY <4>1, <4>2
    <3> HIDE DEF product, rest
    <3>2. product <= n
        BY <3>1
    <3> QED BY <1>1, <3>2 DEF product
  <2>2. high >= V => high * V >= V * V
      BY <1>1, <1>2
  <2>3. high * V \in Nat /\ V * V \in Nat
      BY <1>1, <1>2
  <2> QED BY <1>1, <1>2, <2>1, <2>2, <2>3
<1> QED BY <1>1, <1>2, <1>3 DEF Byte, V

(* A message is permitted for an image. *)
Fits(message, pixels) ==
    message \in Seq(Byte) /\ pixels \in Nat /\ Len(message) <= MaximumMessage(pixels)

(* What follows the length in a body. *)
Padding(message, pixels) ==
    FrameBytes(pixels) - HeaderBytes - TagBytes - LengthBytes - Len(message)

(* The frame of an image has room for every permitted message. *)
LEMMA RoomForMessage == ASSUME NEW message, NEW pixels, Fits(message, pixels)
                        PROVE  FrameBytes(pixels) \in Nat /\ Padding(message, pixels) \in Nat
<1>1. MaximumMessage(pixels) \in Nat /\ Len(message) \in Nat
    BY LayoutAssumption DEF MaximumMessage, Fits
<1>2. Overhead \in Nat /\ BlockData \in Nat \ {0}
    BY LayoutAssumption DEF Overhead, LengthBytes
<1>3. /\ FrameBytes(pixels) \in Nat
      /\ MaximumMessage(pixels) + Overhead <= FrameBytes(pixels)
    <2> DEFINE n == MaximumMessage(pixels) + Overhead
    <2>1. n \in Nat
        BY <1>1, <1>2
    <2>2. (n + BlockData - 1) \div BlockData \in Nat
          /\ n <= ((n + BlockData - 1) \div BlockData) * BlockData
        BY <1>2, <2>1, Rounded
    <2> QED BY <1>2, <2>2 DEF FrameBytes, BlockCount
<1>4. HeaderBytes \in Nat /\ LengthBytes \in Nat /\ TagBytes \in Nat
    BY LayoutAssumption DEF LengthBytes
<1>5. Len(message) <= MaximumMessage(pixels)
    BY DEF Fits
<1>6. MaximumMessage(pixels) + HeaderBytes + LengthBytes + TagBytes <= FrameBytes(pixels)
    BY <1>1, <1>3, <1>4 DEF Overhead
<1>7. FrameBytes(pixels) - HeaderBytes - TagBytes - LengthBytes - Len(message) \in Nat
    <2>1. \A f, m, h, l, t, n \in Nat : m + h + l + t <= f /\ n <= m => f - h - t - l - n \in Nat
        OBVIOUS
    <2> QED BY <1>1, <1>3, <1>4, <1>5, <1>6, <2>1
<1> QED BY <1>3, <1>7 DEF Padding

(* The elements of a concatenation. *)
LEMMA Joined == ASSUME NEW s \in Seq(Byte), NEW t \in Seq(Byte)
                PROVE  /\ s \o t \in Seq(Byte) /\ Len(s \o t) = Len(s) + Len(t)
                       /\ \A i \in 1..Len(s) : (s \o t)[i] = s[i]
                       /\ \A i \in 1..Len(t) : (s \o t)[Len(s) + i] = t[i]
<1>1. Len(s) \in Nat /\ Len(t) \in Nat
    OBVIOUS
<1>2. \A i \in 1..Len(t) : (s \o t)[Len(s) + i] = t[i]
    <2> TAKE i \in 1..Len(t)
    <2>1. Len(s) + i \in 1..(Len(s) + Len(t)) /\ ~(Len(s) + i <= Len(s))
        BY <1>1
    <2>2. (Len(s) + i) - Len(s) = i
        BY <1>1
    <2> QED BY <2>1, <2>2
<1> QED BY <1>1, <1>2, ConcatProperties

(* A stretch of a sequence. *)
LEMMA Stretch == ASSUME NEW s \in Seq(Byte), NEW t \in Seq(Byte), NEW a \in Nat,
                        a + Len(t) <= Len(s), \A i \in 1..Len(t) : s[a + i] = t[i]
                 PROVE  SubSeq(s, a + 1, a + Len(t)) = t
<1> DEFINE part == SubSeq(s, a + 1, a + Len(t))
<1>1. Len(s) \in Nat /\ Len(t) \in Nat
    OBVIOUS
<1>2. part = [i \in 1..Len(t) |-> s[a + i]]
    BY <1>1 DEF part
<1>3. part = [i \in 1..Len(t) |-> t[i]]
    BY <1>2
<1>4. t = [i \in 1..Len(t) |-> t[i]]
    OBVIOUS
<1> QED BY <1>3, <1>4

(* The rest of a sequence. *)
LEMMA PartOf == ASSUME NEW s \in Seq(Byte), NEW a \in Nat, NEW n \in Nat, Len(s) = a + n
                PROVE  LET part == SubSeq(s, a + 1, Len(s)) IN
                       /\ part \in Seq(Byte) /\ Len(part) = n
                       /\ \A i \in 1..n : part[i] = s[a + i]
<1> DEFINE part == SubSeq(s, a + 1, Len(s))
<1>1. part = [i \in 1..n |-> s[a + i]]
    BY DEF part
<1>2. \A i \in 1..n : s[a + i] \in Byte
    OBVIOUS
<1> QED BY <1>1, <1>2

(* The parts of a body: the length, the message, and zeros. *)
LEMMA BodyParts ==
    ASSUME NEW message, NEW pixels, Fits(message, pixels)
    PROVE  LET body == Body(message, pixels) IN
           /\ body \in Seq(Byte)
           /\ Len(body) = LengthBytes + Len(message) + Padding(message, pixels)
           /\ body[1] * Values + body[2] = Len(message)
           /\ \A i \in 1..Len(message) : body[LengthBytes + i] = message[i]
           /\ \A i \in 1..Padding(message, pixels) :
                  body[LengthBytes + Len(message) + i] = 0
<1> DEFINE n == Len(message)
           first == <<n \div Values, n % Values>>
           whole == first \o message
           rest == Zeros(FrameBytes(pixels) - HeaderBytes - TagBytes - Len(whole))
           room == Padding(message, pixels)
<1>1. message \in Seq(Byte) /\ n \in Nat /\ LengthBytes \in Nat \ {0} /\ n <= MessageLimit
    BY LayoutAssumption DEF Fits, LengthBytes, MaximumMessage
<1>2. /\ first \in Seq(Byte) /\ Len(first) = LengthBytes
      /\ first[1] * Values + first[2] = n
    <2>1. n \div Values \in Byte /\ n % Values \in Byte /\ (n \div Values) * Values + (n % Values) = n
        BY <1>1, LengthInBytes
    <2> DEFINE high == n \div Values
               low == n % Values
    <2>2. high \in Byte /\ low \in Byte /\ high * Values + low = n
        BY <2>1, Zenon
    <2> HIDE DEF n, high, low
    <2>3. <<high, low>> \in Seq(Byte) /\ Len(<<high, low>>) = 2
          /\ <<high, low>>[1] = high /\ <<high, low>>[2] = low
        BY <2>2
    <2> QED BY <2>2, <2>3 DEF LengthBytes, high, low
<1>3. /\ whole \in Seq(Byte) /\ Len(whole) = LengthBytes + Len(message)
      /\ whole[1] * Values + whole[2] = n
      /\ \A i \in 1..Len(message) : whole[LengthBytes + i] = message[i]
    <2>1. whole = first \o message
        OBVIOUS
    <2> HIDE DEF first, whole, n
    <2>2. 1 \in 1..Len(first) /\ 2 \in 1..Len(first)
        BY <1>2 DEF LengthBytes
    <2>3. whole[1] = first[1] /\ whole[2] = first[2]
        BY <1>1, <1>2, <2>1, <2>2, Joined
    <2> QED BY <1>1, <1>2, <2>1, <2>3, Joined
<1>4. FrameBytes(pixels) - HeaderBytes - TagBytes - Len(whole) = room /\ room \in Nat
    <2>1. FrameBytes(pixels) \in Int
        BY RoomForMessage
    <2>2. room \in Nat /\ HeaderBytes \in Nat /\ TagBytes \in Nat
        BY RoomForMessage, LayoutAssumption
    <2> HIDE DEF whole
    <2> QED BY <1>1, <1>3, <2>1, <2>2 DEF Padding
<1>5. rest \in Seq(Byte) /\ Len(rest) = room /\ \A i \in 1..room : rest[i] = 0
    <2> HIDE DEF whole, room
    <2>1. rest = Zeros(room)
        BY <1>4
    <2> QED BY <1>4, <2>1, ZerosAreBytes
<1>6. Body(message, pixels) = whole \o rest
    BY DEF Body
<1> HIDE DEF first, whole, rest
<1> HIDE DEF room
<1> DEFINE body == Body(message, pixels)
<1> HIDE DEF body
<1>7. body = whole \o rest
    BY <1>6 DEF body
<1>8. body \in Seq(Byte) /\ Len(body) = LengthBytes + Len(message) + room
    BY <1>3, <1>5, <1>7, Joined
<1>9. \A i \in 1..Len(whole) : body[i] = whole[i]
    BY <1>3, <1>5, <1>7, Joined
<1>10. \A i \in 1..room : body[Len(whole) + i] = rest[i]
    BY <1>3, <1>5, <1>7, Joined
<1>11. body[1] * Values + body[2] = Len(message)
    <2>1. 1 \in 1..Len(whole) /\ 2 \in 1..Len(whole)
        BY <1>1, <1>3 DEF LengthBytes
    <2>2. body[1] = whole[1] /\ body[2] = whole[2]
        BY <1>9, <2>1
    <2> QED BY <1>3, <2>2
<1>12. \A i \in 1..Len(message) : body[LengthBytes + i] = message[i]
    <2> TAKE i \in 1..Len(message)
    <2>1. LengthBytes + i \in 1..Len(whole)
        BY <1>1, <1>3
    <2> QED BY <1>3, <1>9, <2>1
<1>13. \A i \in 1..room : body[LengthBytes + Len(message) + i] = 0
    BY <1>3, <1>5, <1>10
<1> QED BY <1>8, <1>11, <1>12, <1>13 DEF body, room

(* recover_frame: what create_frame made of a message opens to that message alone. *)
LEMMA BodyOpens == ASSUME NEW message, NEW pixels, Fits(message, pixels)
                   PROVE  TextOf(Body(message, pixels), pixels) = {message}
<1> DEFINE body == Body(message, pixels)
           text == SubSeq(body, LengthBytes + 1, Len(body))
           room == Padding(message, pixels)
<1>1. message \in Seq(Byte) /\ Len(message) \in Nat /\ LengthBytes \in Nat \ {0}
    BY LayoutAssumption DEF Fits, LengthBytes
<1>2. room \in Nat
    BY RoomForMessage
<1>3. /\ body \in Seq(Byte)
      /\ Len(body) = LengthBytes + Len(message) + room
      /\ body[1] * Values + body[2] = Len(message)
      /\ \A i \in 1..Len(message) : body[LengthBytes + i] = message[i]
      /\ \A i \in 1..room : body[LengthBytes + Len(message) + i] = 0
    BY BodyParts
<1> HIDE DEF body, room
<1>4. /\ text \in Seq(Byte) /\ Len(text) = Len(message) + room
      /\ \A i \in 1..(Len(message) + room) : text[i] = body[LengthBytes + i]
    <2> DEFINE n == Len(message) + room
    <2>1. n \in Nat /\ LengthBytes \in Nat
        BY <1>1, <1>2
    <2>2. body \in Seq(Byte) /\ Len(body) = LengthBytes + n
        BY <1>1, <1>2, <1>3
    <2> HIDE DEF n, text
    <2>3. text \in Seq(Byte) /\ Len(text) = n /\ \A i \in 1..n : text[i] = body[LengthBytes + i]
        <3> USE DEF text
        <3> QED BY <2>1, <2>2, PartOf
    <2> QED BY <2>3 DEF n
<1> HIDE DEF text
<1>5. \A i \in DOMAIN text : i > Len(message) => text[i] = 0
    <2> SUFFICES ASSUME NEW i \in DOMAIN text, i > Len(message)
                 PROVE  text[i] = 0
        OBVIOUS
    <2>1. i \in 1..(Len(message) + room) /\ i - Len(message) \in 1..room
        BY <1>1, <1>2, <1>4
    <2>2. text[i] = body[LengthBytes + Len(message) + (i - Len(message))]
        BY <1>1, <1>4, <2>1
    <2> QED BY <1>3, <2>1, <2>2
<1>6. SubSeq(text, 1, Len(message)) = message
    <2>1. \A i \in 1..Len(message) : text[0 + i] = message[i]
        <3> TAKE i \in 1..Len(message)
        <3>1. 0 + i = i /\ i \in 1..(Len(message) + room)
            BY <1>1, <1>2
        <3> QED BY <1>3, <1>4, <3>1
    <2>2. SubSeq(text, 0 + 1, 0 + Len(message)) = message
        BY <1>1, <1>2, <1>4, <2>1, Stretch
    <2> QED BY <1>1, <2>2
<1>7. Len(message) <= MaximumMessage(pixels)
    BY DEF Fits
<1> QED BY <1>3, <1>5, <1>6, <1>7 DEF TextOf, body, text

(* The parts of a frame: header, body, tag. *)
LEMMA FrameParts ==
    ASSUME NEW message, NEW pixels, Fits(message, pixels)
    PROVE  LET frame == Frame(message, pixels)
               body == Body(message, pixels) IN
           /\ frame \in Seq(Byte) /\ Len(frame) = FrameBytes(pixels)
           /\ Len(frame) = HeaderBytes + Len(body) + TagBytes
           /\ \A i \in 1..HeaderBytes : frame[i] = Header[i]
           /\ \A i \in 1..Len(body) : frame[HeaderBytes + i] = body[i]
<1> DEFINE body == Body(message, pixels)
           tag == Zeros(TagBytes)
           frame == Frame(message, pixels)
           whole == Header \o body
<1>1. body \in Seq(Byte) /\ Len(body) \in Nat
      /\ Len(body) = LengthBytes + Len(message) + Padding(message, pixels)
    BY BodyParts
<1>2. Header \in Seq(Byte) /\ Len(Header) = HeaderBytes /\ HeaderBytes \in Nat
    BY HeaderIsSequence, LayoutAssumption
<1>3. tag \in Seq(Byte) /\ Len(tag) = TagBytes /\ TagBytes \in Nat
    BY ZerosAreBytes, LayoutAssumption
<1>4. frame = whole \o tag
    BY DEF Frame
<1> HIDE DEF body, tag, frame
<1>5. /\ whole \in Seq(Byte) /\ Len(whole) = HeaderBytes + Len(body)
      /\ \A i \in 1..HeaderBytes : whole[i] = Header[i]
    BY <1>1, <1>2, Joined
<1>6. \A i \in 1..Len(body) : whole[HeaderBytes + i] = body[i]
    BY <1>1, <1>2, Joined
<1> HIDE DEF whole
<1>7. /\ frame \in Seq(Byte) /\ Len(frame) = Len(whole) + TagBytes
      /\ \A i \in 1..Len(whole) : frame[i] = whole[i]
    BY <1>3, <1>4, <1>5, Joined
<1>8. \A i \in 1..HeaderBytes : i \in 1..Len(whole)
    BY <1>1, <1>2, <1>5
<1>9. \A i \in 1..Len(body) : HeaderBytes + i \in 1..Len(whole)
    BY <1>1, <1>2, <1>5
<1>10. Len(frame) = FrameBytes(pixels)
  <2>1. /\ FrameBytes(pixels) \in Nat /\ Len(message) \in Nat /\ LengthBytes \in Nat
        /\ Len(frame) = HeaderBytes + (LengthBytes + Len(message) + Padding(message, pixels)) + TagBytes
      BY <1>1, <1>5, <1>7, RoomForMessage DEF Fits, LengthBytes
  <2> QED BY <1>2, <1>3, <2>1 DEF Padding
<1>11. Len(frame) = HeaderBytes + Len(body) + TagBytes
    BY <1>5, <1>7
<1>12. \A i \in 1..HeaderBytes : frame[i] = Header[i]
    BY <1>5, <1>7, <1>8
<1>13. \A i \in 1..Len(body) : frame[HeaderBytes + i] = body[i]
    BY <1>6, <1>7, <1>9
<1> QED BY <1>7, <1>10, <1>11, <1>12, <1>13 DEF body, frame

(* A frame shows its header and its body. *)
LEMMA FrameOpens ==
    ASSUME NEW message, NEW pixels, Fits(message, pixels)
    PROVE  LET frame == Frame(message, pixels) IN
           /\ SubSeq(frame, 1, HeaderBytes) = Header
           /\ SubSeq(frame, HeaderBytes + 1, Len(frame) - TagBytes) = Body(message, pixels)
<1> DEFINE body == Body(message, pixels)
           frame == Frame(message, pixels)
<1>1. body \in Seq(Byte) /\ Len(body) \in Nat
    BY BodyParts
<1>2. Header \in Seq(Byte) /\ Len(Header) = HeaderBytes /\ HeaderBytes \in Nat /\ TagBytes \in Nat
    BY HeaderIsSequence, LayoutAssumption
<1>3. /\ frame \in Seq(Byte) /\ Len(frame) = HeaderBytes + Len(body) + TagBytes
      /\ \A i \in 1..HeaderBytes : frame[i] = Header[i]
      /\ \A i \in 1..Len(body) : frame[HeaderBytes + i] = body[i]
    BY FrameParts
<1> HIDE DEF body, frame
<1>4. SubSeq(frame, HeaderBytes + 1, Len(frame) - TagBytes) = body
    <2>1. Len(frame) - TagBytes = HeaderBytes + Len(body) /\ HeaderBytes + Len(body) <= Len(frame)
        BY <1>1, <1>2, <1>3
    <2> QED BY <1>1, <1>2, <1>3, <2>1, Stretch
<1>5. SubSeq(frame, 1, HeaderBytes) = Header
    <2>1. 0 + Len(Header) <= Len(frame) /\ \A i \in 1..Len(Header) : frame[0 + i] = Header[i]
        BY <1>1, <1>2, <1>3
    <2>2. SubSeq(frame, 0 + 1, 0 + Len(Header)) = Header
        BY <1>2, <1>3, <2>1, Stretch
    <2> QED BY <1>2, <2>2
<1> QED BY <1>4, <1>5 DEF frame, body

-----------------------------------------------------------------------------
(* The inductive invariant: what was sent is the frame of a permitted message. *)
SentIsFrame ==
    sent # NothingSent =>
        /\ Fits(sent.message, sent.context.pixels)
        /\ sent.frame = Frame(sent.message, sent.context.pixels)

(* Whoever reads, decrypt accepts the frame that was sent or nothing. *)
LEMMA OnlyTheMessage ==
    ASSUME SentIsFrame, sent # NothingSent, NEW frame, NEW password, NEW context
    PROVE  RecoverFrame(frame, password, context) \subseteq {sent.message}
<1>1. CASE Authentic(frame, password, context)
    <2>1. frame = Frame(sent.message, context.pixels) /\ Fits(sent.message, context.pixels)
        BY <1>1 DEF Authentic, SentIsFrame
    <2>2. TextOf(SubSeq(frame, HeaderBytes + 1, Len(frame) - TagBytes), context.pixels)
            = {sent.message}
        BY <2>1, FrameOpens, BodyOpens
    <2> QED BY <2>2 DEF RecoverFrame
<1>2. CASE ~Authentic(frame, password, context)
    BY <1>2 DEF RecoverFrame
<1> QED BY <1>1, <1>2

MessageInv ==
    /\ SentIsFrame /\ NoGuessedText
    /\ sent = NothingSent => reading = NoText

LEMMA Inductive == ASSUME MessageInv, [MessageNext]_messageVars PROVE MessageInv'
<1>1. ASSUME NEW message \in Messages, NEW password, NEW pair, NEW pixels \in Sizes,
             EncodeMessage(message, password, pair, pixels)
      PROVE  MessageInv'
    <2>1. sent' = [message |-> message, password |-> password,
                   context |-> Context(pair, pixels), frame |-> Frame(message, pixels)]
        BY <1>1 DEF EncodeMessage
    <2>2. Fits(message, pixels)
        <3>1. message \in Seq(Byte)
            BY LayoutAssumption
        <3> QED BY <1>1, <3>1, LayoutAssumption DEF EncodeMessage, Fits
    <2>3. SentIsFrame'
        BY <2>1, <2>2 DEF SentIsFrame, Context, Fits
    <2>4. reading' = NoText
        BY <1>1 DEF EncodeMessage, MessageInv
    <2> QED BY <2>3, <2>4 DEF MessageInv, NoGuessedText
<1>2. ASSUME NEW password, NEW pair, NEW pixels,
             DecodeMessage(password, pair, pixels)
      PROVE  MessageInv'
    <2>1. sent # NothingSent /\ sent' = sent
        BY <1>2 DEF DecodeMessage
    <2>2. reading'.text \subseteq {sent.message}
        <3>1. reading'.text = UNION {RecoverFrame(frame, password, Context(pair, pixels)) :
                                 frame \in RestoreFrame(RecoverBytes(pixels), pixels)}
            BY <1>2 DEF DecodeMessage
        <3>2. \A frame : RecoverFrame(frame, password, Context(pair, pixels))
                            \subseteq {sent.message}
            BY <2>1, OnlyTheMessage DEF MessageInv
        <3> QED BY <3>1, <3>2
    <2> QED BY <2>1, <2>2 DEF MessageInv, SentIsFrame, NoGuessedText, Fits
<1>3. ASSUME NEW p, DamagePixel(p) PROVE MessageInv'
    BY <1>3 DEF DamagePixel, MessageInv, SentIsFrame, NoGuessedText
<1>4. CASE UNCHANGED messageVars
    BY <1>4 DEF messageVars, MessageInv, SentIsFrame, NoGuessedText
<1> QED BY <1>1, <1>2, <1>3, <1>4 DEF MessageNext

(* "No partial or guessed text returns" (docs/message_protocol.md), for every layout,    *)
(* every message, any damage and any reader.                                             *)
THEOREM NoGuess == MessageSpec => []NoGuessedText
<1>1. MessageInit => MessageInv
    BY DEF MessageInit, MessageInv, SentIsFrame, NoGuessedText
<1>2. MessageInv /\ [MessageNext]_messageVars => MessageInv'
    BY Inductive
<1>3. MessageInv => NoGuessedText
    BY DEF MessageInv
<1> QED BY <1>1, <1>2, <1>3, PTL DEF MessageSpec
-----------------------------------------------------------------------------
(* Of the codec: at most one codeword is close enough. *)
LEMMA ListedIs == ASSUME NEW S, NEW s \in Seq(S) PROVE Listed(s) = s
    BY ConcatEmptySeq DEF Listed

(* A codeword is the data followed by its parity. *)
LEMMA WordParts ==
    ASSUME NEW data \in [1..BlockData -> Byte]
    PROVE  /\ Codeword(data) \in [1..CodeBytes -> Byte]
           /\ \A i \in 1..BlockData : Codeword(data)[i] = data[i]
           /\ \A i \in 1..BlockParity : Codeword(data)[BlockData + i] = Parity(data)[i]
<1>1. BlockData \in Nat /\ BlockParity \in Nat /\ Parity(data) \in [1..BlockParity -> Byte]
    BY LayoutAssumption, CodecAssumption
<1> DEFINE parity == Parity(data)
<1>2. /\ data \in Seq(Byte) /\ Len(data) = BlockData
      /\ parity \in Seq(Byte) /\ Len(parity) = BlockParity
    BY <1>1
<1>3. Codeword(data) = data \o parity
    BY DEF Codeword
<1> HIDE DEF parity
<1>4. /\ Codeword(data) \in Seq(Byte) /\ Len(Codeword(data)) = BlockData + BlockParity
      /\ \A i \in 1..BlockData : Codeword(data)[i] = data[i]
      /\ \A i \in 1..BlockParity : Codeword(data)[BlockData + i] = parity[i]
  <2> DEFINE word == Codeword(data)
  <2>1. word = data \o parity
      BY <1>3
  <2> HIDE DEF word
  <2>2. word \in Seq(Byte) /\ Len(word) = Len(data) + Len(parity)
        /\ \A i \in 1..Len(data) : word[i] = data[i]
      BY <1>2, <2>1, Joined
  <2>3. \A i \in 1..Len(parity) : word[Len(data) + i] = parity[i]
      BY <1>2, <2>1, Joined
  <2> QED BY <1>2, <2>2, <2>3 DEF word
<1> QED BY <1>1, <1>4 DEF CodeBytes, parity

(* Sets of positions are finite. *)
LEMMA Positions == ASSUME NEW n \in Nat, NEW S \in SUBSET (1..n)
                   PROVE  IsFiniteSet(S) /\ Cardinality(S) \in Nat
<1> DEFINE all == 1..n
<1>1. IsFiniteSet(all) /\ S \subseteq all
    BY FS_Interval
<1> HIDE DEF all
<1> QED BY <1>1, FS_Subset, FS_CardinalityType

(* Not more elements than two sets have together. *)
LEMMA AtMostBoth ==
    ASSUME NEW S, NEW A, NEW B, IsFiniteSet(A), IsFiniteSet(B), S \subseteq A \cup B
    PROVE  Cardinality(S) <= Cardinality(A) + Cardinality(B)
<1> DEFINE both == A \cup B
<1>1. IsFiniteSet(both) /\ Cardinality(both) = Cardinality(A) + Cardinality(B) - Cardinality(A \cap B)
    BY FS_Union
<1>2. IsFiniteSet(A \cap B)
    BY FS_Intersection
<1>3. Cardinality(A) \in Nat /\ Cardinality(B) \in Nat /\ Cardinality(A \cap B) \in Nat
    BY <1>2, FS_CardinalityType
<1> HIDE DEF both
<1>4. IsFiniteSet(S) /\ Cardinality(S) <= Cardinality(both)
    BY <1>1, FS_Subset DEF both
<1>5. Cardinality(S) \in Nat /\ Cardinality(both) \in Nat
    BY <1>1, <1>4, FS_CardinalityType
<1> QED BY <1>1, <1>3, <1>4, <1>5

(* Different data differ, with their parity, in more bytes than the parity has. *)
LEMMA WordsDiffer ==
    ASSUME NEW data \in [1..BlockData -> Byte], NEW other \in [1..BlockData -> Byte], data # other
    PROVE  Cardinality({i \in 1..CodeBytes : Codeword(data)[i] # Codeword(other)[i]}) > BlockParity
<1> DEFINE D == {i \in 1..BlockData : data[i] # other[i]}
           E == {i \in 1..BlockParity : Parity(data)[i] # Parity(other)[i]}
           W == {i \in 1..CodeBytes : Codeword(data)[i] # Codeword(other)[i]}
           F == {BlockData + i : i \in E}
<1>1. BlockData \in Nat /\ BlockParity \in Nat /\ CodeBytes \in Nat /\ CodeBytes = BlockData + BlockParity
    BY LayoutAssumption DEF CodeBytes
<1>2. Cardinality(D) + Cardinality(E) > BlockParity
  <2>1. DOMAIN data = 1..BlockData /\ DOMAIN Parity(data) = 1..BlockParity
      BY CodecAssumption
  <2>2. Wrong(data, other) = Cardinality(D) /\ Wrong(Parity(data), Parity(other)) = Cardinality(E)
      BY <2>1 DEF Wrong
  <2> QED BY <2>2, CodecAssumption
<1>3. IsFiniteSet(D) /\ IsFiniteSet(E) /\ Cardinality(D) \in Nat /\ Cardinality(E) \in Nat
      /\ IsFiniteSet(W) /\ Cardinality(W) \in Nat
  <2>1. D \in SUBSET (1..BlockData) /\ E \in SUBSET (1..BlockParity) /\ W \in SUBSET (1..CodeBytes)
      OBVIOUS
  <2> HIDE DEF D, E, W
  <2> QED BY <1>1, <2>1, Positions
<1>4. D \subseteq W
    BY <1>1, WordParts
<1>5. F \subseteq W /\ D \cap F = {}
  <2>1. ASSUME NEW i \in E PROVE BlockData + i \in W /\ BlockData + i \notin D
    <3>1. i \in 1..BlockParity /\ Parity(data)[i] # Parity(other)[i]
        OBVIOUS
    <3>2. Codeword(data)[BlockData + i] # Codeword(other)[BlockData + i]
        BY <3>1, WordParts
    <3>3. BlockData + i \in 1..CodeBytes /\ BlockData + i \notin 1..BlockData
        BY <1>1, <3>1
    <3> QED BY <3>2, <3>3
  <2> HIDE DEF E, W, D
  <2> QED BY <2>1
<1>6. IsFiniteSet(F) /\ Cardinality(F) = Cardinality(E)
  <2> DEFINE shift == [i \in E |-> BlockData + i]
  <2>1. shift \in Surjection(E, F)
      BY DEF Surjection
  <2>2. shift \in Injection(E, F)
    <3>1. \A i, j \in E : BlockData + i = BlockData + j => i = j
        BY <1>1
    <3> HIDE DEF E
    <3> QED BY <3>1 DEF Injection, IsInjective
  <2> HIDE DEF E, F, shift
  <2> QED BY <1>3, <2>1, <2>2, FS_Surjection
<1> HIDE DEF D, E, F, W
<1>7. Cardinality(D \cup F) = Cardinality(D) + Cardinality(F)
  <2>1. Cardinality(D \cup F) = Cardinality(D) + Cardinality(F) - Cardinality(D \cap F)
      BY <1>3, <1>6, FS_Union
  <2>2. Cardinality(D \cap F) = 0
      BY <1>5, FS_EmptySet, Zenon
  <2> QED BY <1>3, <1>6, <2>1, <2>2
<1>8. Cardinality(D \cup F) <= Cardinality(W)
  <2>1. D \cup F \subseteq W
      BY <1>4, <1>5
  <2> QED BY <1>3, <2>1, FS_Subset
<1>9. Cardinality(W) > BlockParity
    BY <1>1, <1>2, <1>3, <1>6, <1>7, <1>8
<1> QED BY <1>9 DEF W

(* Data whose codeword is near what was received is all that the codec finds. *)
LEMMA OneWord ==
    ASSUME NEW received, NEW data \in [1..BlockData -> Byte],
           Wrong(Codeword(data), received) <= BlockParity \div 2
    PROVE  Corrected(received) = {data}
<1> SUFFICES ASSUME NEW other \in [1..BlockData -> Byte],
                    Wrong(Codeword(other), received) <= BlockParity \div 2, other # data
             PROVE  FALSE
    BY DEF Corrected
<1> DEFINE A == {i \in 1..CodeBytes : Codeword(data)[i] # received[i]}
           B == {i \in 1..CodeBytes : Codeword(other)[i] # received[i]}
           W == {i \in 1..CodeBytes : Codeword(data)[i] # Codeword(other)[i]}
<1>1. BlockParity \in Nat /\ CodeBytes \in Nat
    BY LayoutAssumption DEF CodeBytes
<1>2. Wrong(Codeword(data), received) = Cardinality(A) /\ Wrong(Codeword(other), received) = Cardinality(B)
  <2>1. DOMAIN Codeword(data) = 1..CodeBytes /\ DOMAIN Codeword(other) = 1..CodeBytes
      BY WordParts
  <2> QED BY <2>1 DEF Wrong
<1>3. W \subseteq A \cup B
    OBVIOUS
<1>4. Cardinality(W) > BlockParity
    BY WordsDiffer
<1>5. A \in SUBSET (1..CodeBytes) /\ B \in SUBSET (1..CodeBytes) /\ W \in SUBSET (1..CodeBytes)
    OBVIOUS
<1> HIDE DEF A, B, W
<1>6. /\ IsFiniteSet(A) /\ IsFiniteSet(B) /\ Cardinality(A) \in Nat /\ Cardinality(B) \in Nat
      /\ Cardinality(W) \in Nat
    BY <1>1, <1>5, Positions
<1>7. Cardinality(W) <= Cardinality(A) + Cardinality(B)
    BY <1>3, <1>6, AtMostBoth
<1>8. \A a, b, p \in Nat : a <= p \div 2 /\ b <= p \div 2 => a + b <= p
    OBVIOUS
<1>9. Cardinality(A) + Cardinality(B) <= BlockParity
    BY <1>1, <1>2, <1>6, <1>8
<1> QED BY <1>1, <1>4, <1>6, <1>7, <1>9

(* A set of numbers has a smallest, which Min chooses. *)
LEMMA Smallest ==
    ASSUME NEW F \in SUBSET Nat, F # {}
    PROVE  \E x \in F : \A y \in F : x <= y
<1>1. PICK x \in F : \A y \in F : ~ (<<y, x>> \in OpToRel(<, Nat))
  <2>1. IsWellFoundedOn(OpToRel(<, Nat), Nat)
      BY NatLessThanWellFounded, Zenon
  <2> QED BY <2>1, WFMin, Zenon
<1>2. ASSUME NEW y \in F PROVE x <= y
  <2>1. <<y, x>> \in Nat \X Nat
      OBVIOUS
  <2>2. ~ (<<y, x>>[1] < <<y, x>>[2])
      BY <1>1, <2>1, Zenon DEF OpToRel
  <2> QED BY <2>2
<1> QED BY <1>2

(* A bounded one has a largest, which Max chooses. *)
LEMMA Largest ==
    ASSUME NEW n \in Nat, NEW F \in SUBSET (0..n), F # {}
    PROVE  Max(F) \in F /\ \A y \in F : Max(F) >= y
<1> DEFINE gaps == {n - y : y \in F}
<1>1. gaps \in SUBSET Nat /\ gaps # {}
  <2>1. \A y \in F : n - y \in Nat
      OBVIOUS
  <2> QED BY <2>1
<1>2. PICK gap \in gaps : \A g \in gaps : gap <= g
    BY <1>1, Smallest
<1>3. PICK x \in F : gap = n - x
    OBVIOUS
<1>4. \A y \in F : x >= y
    BY <1>2, <1>3
<1>5. \E m \in F : \A y \in F : m >= y
    BY <1>4
<1> QED BY <1>5, Zenon DEF Max

LEMMA SmallestMin == ASSUME NEW F \in SUBSET Nat, F # {}
                     PROVE  Min(F) \in F /\ \A y \in F : Min(F) <= y
    BY Smallest DEF Min

-----------------------------------------------------------------------------
(* Interleaving: each byte of a block has a place of its own. *)
LEMMA PlacesApart ==
    ASSUME NEW n \in Nat, NEW C \in Nat, NEW b \in 1..n, NEW c \in 1..C
    PROVE  /\ (c - 1) * n + b \in 1..(n * C)
           /\ \A e \in 1..n, d \in 1..C : (c - 1) * n + b = (d - 1) * n + e => c = d /\ b = e
<1>1. n \in Nat \ {0} /\ c - 1 \in Nat /\ C - c \in Nat
    OBVIOUS
<1>2. (c - 1) * n + b \in 1..(n * C)
  <2> DEFINE before == (c - 1) * n
             after == (C - c) * n
  <2>1. before \in Nat /\ after \in Nat
      BY <1>1
  <2>2. n * C = before + n + after
      BY <1>1
  <2> HIDE DEF before, after
  <2>3. before + b \in 1..(before + n + after)
      BY <1>1, <2>1
  <2> QED BY <2>2, <2>3 DEF before
<1>3. ASSUME NEW e \in 1..n, NEW d \in 1..C, (c - 1) * n + b = (d - 1) * n + e
      PROVE  c = d /\ b = e
  <2> DEFINE x == (c - 1) * n + (b - 1)
             y == (d - 1) * n + (e - 1)
  <2>1. d - 1 \in Nat /\ b - 1 \in 0..(n - 1) /\ e - 1 \in 0..(n - 1)
      OBVIOUS
  <2>2. x \div n = c - 1 /\ x % n = b - 1
      BY <1>1, <2>1, Composed
  <2>3. y \div n = d - 1 /\ y % n = e - 1
      BY <1>1, <2>1, Composed
  <2>4. x = y
    <3> DEFINE p == (c - 1) * n
               q == (d - 1) * n
    <3>1. p \in Int /\ q \in Int /\ p + b = q + e
        BY <1>3
    <3> HIDE DEF p, q
    <3>2. p + (b - 1) = q + (e - 1)
        BY <3>1
    <3> QED BY <3>2 DEF p, q
  <2> HIDE DEF x, y
  <2> QED BY <2>1, <2>2, <2>3, <2>4
<1> QED BY <1>2, <1>3

(* Hence a burst meets few bytes of each block. *)
LEMMA FewColumns ==
    ASSUME NEW n \in Nat, NEW t \in Nat, NEW C \in Nat, NEW b \in 1..n, NEW first \in Nat,
           NEW S \in SUBSET (1..C),
           \A c \in S : first <= (c - 1) * n + b - 1 /\ (c - 1) * n + b - 1 < first + t * n
    PROVE  Cardinality(S) <= t
<1>1. CASE S = {}
  <2>1. Cardinality(S) = 0
      BY <1>1, FS_EmptySet, Zenon
  <2> QED BY <2>1
<1>2. CASE S # {}
  <2> DEFINE m == Min(S)
             near == m..(m + t - 1)
  <2>1. m \in S /\ \A c \in S : m <= c
    <3>1. S \in SUBSET Nat
        OBVIOUS
    <3> QED BY <1>2, <3>1, SmallestMin
  <2> HIDE DEF m
  <2>2. ASSUME NEW c \in S PROVE c \in near
    <3>1. m \in 1..C /\ c \in 1..C /\ m <= c /\ n \in Nat \ {0}
        BY <2>1
    <3> DEFINE d == c - m
               p == (m - 1) * n
               q == d * n
    <3>2. d \in Nat /\ p \in Nat /\ q \in Nat /\ t * n \in Nat
        BY <3>1
    <3>3. (c - 1) * n = p + q
        BY <3>1
    <3>4. q < t * n
      <4>1. first <= p + b - 1 /\ p + q + b - 1 < first + t * n
          BY <2>1, <3>3
      <4> DEFINE r == t * n
      <4> HIDE DEF p, q, r
      <4> QED BY <3>2, <4>1 DEF r
    <3>5. d < t
      <4> SUFFICES ASSUME d >= t PROVE FALSE
          BY <3>2
      <4>1. d * n >= t * n
        <5> DEFINE k == d - t
        <5>1. k \in Nat /\ d = t + k
            BY <3>2
        <5> HIDE DEF k
        <5>2. (t + k) * n = t * n + k * n /\ k * n \in Nat /\ t * n \in Nat
            BY <5>1
        <5> HIDE DEF d
        <5> QED BY <5>1, <5>2
      <4> QED BY <3>2, <3>4, <4>1
    <3> QED BY <3>1, <3>2, <3>5
  <2>3. m \in Nat
      BY <2>1
  <2>4. IsFiniteSet(near) /\ Cardinality(near) <= t
    <3>1. IsFiniteSet(near) /\ Cardinality(near) = IF m > m + t - 1 THEN 0 ELSE (m + t - 1) - m + 1
        BY <2>3, FS_Interval
    <3> HIDE DEF near
    <3> QED BY <2>3, <3>1
  <2>5. S \subseteq near
      BY <2>2
  <2> HIDE DEF near
  <2>6. IsFiniteSet(S) /\ Cardinality(S) <= Cardinality(near)
      BY <2>4, <2>5, FS_Subset
  <2>7. Cardinality(S) \in Nat /\ Cardinality(near) \in Nat
      BY <2>4, <2>6, FS_CardinalityType
  <2> QED BY <2>4, <2>6, <2>7
<1> QED BY <1>1, <1>2

-----------------------------------------------------------------------------
(* The sizes of a layout. *)
LEMMA LayoutSizes ==
    ASSUME NEW pixels \in Nat
    PROVE  /\ BlockCount(pixels) \in Nat /\ BlockData \in Nat \ {0} /\ CodeBytes \in Nat
           /\ ByteBits \in Nat \ {0} /\ ProtectedBytes(pixels) \in Nat
           /\ ProtectedBytes(pixels) = BlockCount(pixels) * CodeBytes
           /\ FrameBytes(pixels) = BlockCount(pixels) * BlockData /\ FrameBytes(pixels) \in Nat
<1>1. BlockData \in Nat \ {0} /\ BlockParity \in Nat /\ ByteBits \in Nat \ {0} /\ PixelsPerByte \in Nat \ {0}
      /\ MessageLimit \in Nat /\ HeaderBytes \in Nat /\ TagBytes \in Nat
    BY LayoutAssumption
<1>2. MaximumMessage(pixels) + Overhead \in Nat
    BY <1>1 DEF MaximumMessage, Overhead, LengthBytes
<1> DEFINE room == MaximumMessage(pixels) + Overhead
<1>3. BlockCount(pixels) = (room + BlockData - 1) \div BlockData
    BY DEF BlockCount
<1> HIDE DEF room
<1>4. BlockCount(pixels) \in Nat
    BY <1>1, <1>2, <1>3, Rounded DEF room
<1>5. CodeBytes \in Nat
    BY <1>1 DEF CodeBytes
<1> QED BY <1>1, <1>4, <1>5 DEF ProtectedBytes, FrameBytes

(* The blocks of a frame. *)
LEMMA BlocksOf ==
    ASSUME NEW pixels \in Nat, NEW frame \in Seq(Byte), Len(frame) = FrameBytes(pixels),
           NEW b \in 1..BlockCount(pixels)
    PROVE  /\ Block(frame, b) \in [1..BlockData -> Byte]
           /\ \A k \in 1..BlockData :
                  /\ (b - 1) * BlockData + k \in 1..Len(frame)
                  /\ Block(frame, b)[k] = frame[(b - 1) * BlockData + k]
<1> DEFINE n == BlockCount(pixels)
           before == (b - 1) * BlockData
<1>1. n \in Nat /\ BlockData \in Nat \ {0} /\ Len(frame) = n * BlockData
    BY LayoutSizes
<1>2. \A k \in 1..BlockData : before + k \in 1..Len(frame)
  <2> TAKE k \in 1..BlockData
  <2>1. (b - 1) * BlockData + k \in 1..(BlockData * n)
      BY <1>1, PlacesApart
  <2>2. BlockData * n = n * BlockData
      BY <1>1
  <2> QED BY <1>1, <2>1, <2>2
<1>3. before \in Nat /\ b * BlockData = before + BlockData
    BY <1>1
<1>4. Block(frame, b) = SubSeq(frame, before + 1, before + BlockData)
    BY <1>3 DEF Block
<1> HIDE DEF before, n
<1>5. Block(frame, b) = [k \in 1..BlockData |-> frame[before + k]]
  <2>1. SubSeq(frame, before + 1, before + BlockData)
            = [k \in 1..((before + BlockData) - (before + 1) + 1) |-> frame[k + (before + 1) - 1]]
      BY <1>1, <1>3
  <2>2. (before + BlockData) - (before + 1) + 1 = BlockData
      BY <1>1, <1>3
  <2>3. \A k \in 1..BlockData : k + (before + 1) - 1 = before + k
      BY <1>1, <1>3
  <2> QED BY <1>4, <2>1, <2>2, <2>3
<1>6. \A k \in 1..BlockData : frame[before + k] \in Byte
    BY <1>2
<1> QED BY <1>2, <1>5, <1>6 DEF before

(* protect_frame: where each byte of each codeword is. *)
LEMMA StreamOf ==
    ASSUME NEW pixels \in Nat, NEW frame \in Seq(Byte), Len(frame) = FrameBytes(pixels),
           NEW b \in 1..BlockCount(pixels), NEW c \in 1..CodeBytes
    PROVE  /\ Place(b, c, pixels) \in 1..ProtectedBytes(pixels)
           /\ ProtectFrame(frame, pixels)[Place(b, c, pixels)] = Codeword(Block(frame, b))[c]
           /\ Codeword(Block(frame, b))[c] \in Byte
<1> DEFINE n == BlockCount(pixels)
           words == [e \in 1..n |-> Codeword(Block(frame, e))]
           place == Place(b, c, pixels)
<1>1. n \in Nat /\ CodeBytes \in Nat /\ ProtectedBytes(pixels) = n * CodeBytes /\ b \in 1..n
    BY LayoutSizes
<1>2. place \in 1..ProtectedBytes(pixels)
      /\ \A e \in 1..n, d \in 1..CodeBytes : Place(e, d, pixels) = place => d = c /\ e = b
  <2>1. \A e \in 1..n, d \in 1..CodeBytes : Place(e, d, pixels) = (d - 1) * n + e
      BY DEF Place
  <2>2. /\ (c - 1) * n + b \in 1..(n * CodeBytes)
        /\ \A e \in 1..n, d \in 1..CodeBytes : (c - 1) * n + b = (d - 1) * n + e => c = d /\ b = e
    <3> HIDE DEF n
    <3> QED BY <1>1, PlacesApart
  <2> HIDE DEF n
  <2>3. place = (c - 1) * n + b
      BY <1>1, <2>1
  <2> HIDE DEF place
  <2>4. place \in 1..ProtectedBytes(pixels)
      BY <1>1, <2>2, <2>3
  <2>5. ASSUME NEW e \in 1..n, NEW d \in 1..CodeBytes, Place(e, d, pixels) = place
        PROVE  d = c /\ e = b
    <3>1. (c - 1) * n + b = (d - 1) * n + e
        BY <2>1, <2>3, <2>5
    <3> QED BY <2>2, <3>1
  <2> QED BY <2>4, <2>5
<1>3. Origin(place, pixels) = <<b, c>>
  <2>1. <<b, c>> \in (1..n) \X (1..CodeBytes) /\ Place(<<b, c>>[1], <<b, c>>[2], pixels) = place
      OBVIOUS
  <2>2. \A at \in (1..n) \X (1..CodeBytes) : Place(at[1], at[2], pixels) = place => at = <<b, c>>
      BY <1>2
  <2> HIDE DEF place
  <2> QED BY <2>1, <2>2 DEF Origin
<1>4. words \in Seq([1..CodeBytes -> Byte]) /\ words[b] = Codeword(Block(frame, b))
  <2>1. \A e \in 1..n : Codeword(Block(frame, e)) \in [1..CodeBytes -> Byte]
      BY BlocksOf, WordParts
  <2> QED BY <1>1, <2>1
<1>5. Codewords(frame, pixels) = words
    BY <1>4, ListedIs DEF Codewords
<1>6. Codeword(Block(frame, b))[c] \in Byte
    BY BlocksOf, WordParts
<1> HIDE DEF words, place
<1>7. ProtectFrame(frame, pixels)[place] = words[b][c]
  <2>1. ProtectFrame(frame, pixels)[place]
            = Codewords(frame, pixels)[Origin(place, pixels)[1]][Origin(place, pixels)[2]]
      BY <1>2 DEF ProtectFrame
  <2> QED BY <1>3, <1>5, <2>1
<1> QED BY <1>2, <1>4, <1>6, <1>7 DEF place

(* restore_frame: when the codec finds each block again, the frame is whole. *)
LEMMA FrameRestored ==
    ASSUME NEW pixels \in Nat, NEW frame \in Seq(Byte), Len(frame) = FrameBytes(pixels), NEW bytes,
           \A b \in 1..BlockCount(pixels) : Corrected(Received(bytes, b, pixels)) = {Block(frame, b)}
    PROVE  RestoreFrame(bytes, pixels) = {frame}
<1> DEFINE n == BlockCount(pixels)
           words == CorrectedBlocks(bytes, pixels)
           Read(i) == (CHOOSE data \in words[(i - 1) \div BlockData + 1] : TRUE)[((i - 1) % BlockData) + 1]
<1>1. n \in Nat /\ BlockData \in Nat \ {0} /\ CodeBytes \in Nat /\ Len(frame) = n * BlockData
    BY LayoutSizes
<1>2. words = [b \in 1..n |-> {Block(frame, b)}]
  <2> DEFINE blocks == [b \in 1..n |-> Corrected(Received(bytes, b, pixels))]
  <2>1. blocks = [b \in 1..n |-> {Block(frame, b)}]
      OBVIOUS
  <2>2. blocks \in Seq({{Block(frame, b)} : b \in 1..n})
      BY <1>1, <2>1
  <2>3. words = Listed(blocks)
      BY DEF CorrectedBlocks
  <2> HIDE DEF blocks, words
  <2> QED BY <2>1, <2>2, <2>3, ListedIs
<1>3. \A b \in 1..n : words[b] = {Block(frame, b)}
  <2> HIDE DEF words
  <2> QED BY <1>2
<1>4. RestoreFrame(bytes, pixels) = {[i \in 1..FrameBytes(pixels) |-> Read(i)]}
  <2>1. ~ \E b \in DOMAIN words : words[b] = {}
    <3> HIDE DEF words
    <3> QED BY <1>2
  <2> QED BY <2>1, Zenon DEF RestoreFrame
<1> HIDE DEF words
<1>5. \A i \in 1..Len(frame) : Read(i) = frame[i]
  <2> TAKE i \in 1..Len(frame)
  <2> DEFINE q == (i - 1) \div BlockData
             r == (i - 1) % BlockData
  <2>1. i - 1 \in Nat
      BY <1>1
  <2>2. q \in Nat /\ r \in 0..(BlockData - 1) /\ q * BlockData \in Nat /\ q * BlockData + r = i - 1
      BY <1>1, <2>1, Divided
  <2>3. q + 1 \in 1..n /\ r + 1 \in 1..BlockData
    <3>1. q < n
      <4> SUFFICES ASSUME q >= n PROVE FALSE
          BY <1>1, <2>2
      <4> HIDE DEF q, r
      <4>1. q * BlockData >= n * BlockData
        <5> DEFINE k == q - n
        <5>1. k \in Nat /\ q = n + k
            BY <1>1, <2>2
        <5> HIDE DEF k
        <5>2. (n + k) * BlockData = n * BlockData + k * BlockData /\ k * BlockData \in Nat
              /\ n * BlockData \in Nat
            BY <1>1, <5>1
        <5> QED BY <5>1, <5>2
      <4> DEFINE product == q * BlockData
      <4>2. product + r < Len(frame) /\ product >= Len(frame) /\ product \in Nat
          BY <1>1, <2>2, <4>1
      <4> HIDE DEF product
      <4> QED BY <2>2, <4>2
    <3> HIDE DEF q, r
    <3> QED BY <1>1, <2>2, <3>1
  <2>4. Read(i) = Block(frame, q + 1)[r + 1]
    <3>1. Read(i) = (CHOOSE data \in words[q + 1] : TRUE)[r + 1]
        OBVIOUS
    <3> HIDE DEF q, r
    <3> QED BY <1>3, <2>3, <3>1
  <2>5. Block(frame, q + 1)[r + 1] = frame[q * BlockData + (r + 1)]
    <3> HIDE DEF q, r
    <3>1. Block(frame, q + 1)[r + 1] = frame[((q + 1) - 1) * BlockData + (r + 1)]
        BY <2>3, BlocksOf
    <3>2. (q + 1) - 1 = q
        BY <2>2
    <3> QED BY <3>1, <3>2
  <2>6. q * BlockData + (r + 1) = i
    <3> DEFINE product == q * BlockData
    <3>1. product \in Nat /\ product + r = i - 1 /\ r \in Nat
        BY <2>2
    <3> HIDE DEF product, r
    <3>2. product + (r + 1) = i
        BY <3>1
    <3> QED BY <3>2 DEF product
  <2> QED BY <2>4, <2>5, <2>6
<1>6. [i \in 1..FrameBytes(pixels) |-> Read(i)] = frame
  <2> HIDE DEF Read
  <2>1. frame = [i \in 1..Len(frame) |-> frame[i]]
      OBVIOUS
  <2> QED BY <1>5, <2>1
<1> QED BY <1>4, <1>6

-----------------------------------------------------------------------------
(* The vote: more than half of the copies decide. *)
LEMMA VoteRight ==
    ASSUME NEW pixels \in Nat, NEW i \in Nat, NEW bit \in {0, 1},
           \A p \in Copies(i, pixels) : pixelMap[p] = bit,
           2 * Cardinality(Copies(i, pixels) \cap damage) < Cardinality(Copies(i, pixels))
    PROVE  Voted(i, pixels) = bit
<1> DEFINE copies == Copies(i, pixels)
           hit == copies \cap damage
           whole == copies \ damage
           ones == {p \in copies : ReadBit(p) = 1}
<1>1. copies \in SUBSET (1..pixels) /\ hit \in SUBSET (1..pixels) /\ whole \in SUBSET (1..pixels)
    BY DEF Copies
<1>2. ones = IF bit = 1 THEN whole ELSE hit
    BY DEF ReadBit
<1> HIDE DEF copies
<1>3. hit \cup whole = copies /\ hit \cap whole = {}
    OBVIOUS
<1> HIDE DEF hit, whole
<1>4. /\ IsFiniteSet(hit) /\ IsFiniteSet(whole) /\ Cardinality(hit) \in Nat /\ Cardinality(whole) \in Nat
    BY <1>1, Positions
<1>5. Cardinality(copies) = Cardinality(hit) + Cardinality(whole)
  <2>1. Cardinality(hit \cup whole) = Cardinality(hit) + Cardinality(whole) - Cardinality(hit \cap whole)
      BY <1>4, FS_Union
  <2>2. Cardinality(hit \cap whole) = 0
      BY <1>3, FS_EmptySet, Zenon
  <2>3. Cardinality(hit \cup whole) = Cardinality(copies)
      BY <1>3, Zenon
  <2> QED BY <1>4, <2>1, <2>2, <2>3
<1>6. 2 * Cardinality(hit) < Cardinality(copies)
    BY DEF hit, copies
<1>7. Voted(i, pixels) = IF 2 * Cardinality(ones) - Cardinality(copies) > 0 THEN 1 ELSE 0
    BY DEF Voted, copies
<1> HIDE DEF ones
<1>8. CASE bit = 1
    BY <1>2, <1>4, <1>5, <1>6, <1>7, <1>8
<1>9. CASE bit = 0
    BY <1>2, <1>4, <1>5, <1>6, <1>7, <1>9
<1> QED BY <1>8, <1>9

(* recover_payload_bytes: a byte none of whose bits is lost is the byte that was sent. *)
LEMMA ByteRecovered ==
    ASSUME NEW pixels \in Nat, pixels = sent.context.pixels, NEW bytes,
           pixelMap = PayloadMap(bytes, pixels),
           NEW j \in 1..ProtectedBytes(pixels), j - 1 \notin Lost, bytes[j] \in Byte
    PROVE  RecoverBytes(pixels)[j] = bytes[j]
<1> DEFINE n == ProtectedBytes(pixels)
           Vote(m) == [k \in 0..(ByteBits - 1) |-> Voted((m - 1) * ByteBits + k, pixels)]
           read == [m \in 1..n |-> Pack(Vote(m))]
<1>1. n \in Nat /\ ByteBits \in Nat \ {0} /\ ProtectedBits(pixels) = n * ByteBits
    BY LayoutSizes DEF ProtectedBits
<1>2. RecoverBytes(pixels)[j] = Pack(Vote(j))
  <2>1. read = [m \in 1..n |-> read[m]]
      OBVIOUS
  <2>2. RecoverBytes(pixels) = Listed(read)
      BY DEF RecoverBytes
  <2>3. read[j] = Pack(Vote(j))
      OBVIOUS
  <2> HIDE DEF read
  <2>4. read \in Seq({read[m] : m \in 1..n})
      BY <1>1, <2>1
  <2> QED BY <2>2, <2>3, <2>4, ListedIs
<1>3. Bits(bytes[j]) \in [0..(ByteBits - 1) -> {0, 1}] /\ Pack(Bits(bytes[j])) = bytes[j]
    BY PackingAssumption
<1>4. ASSUME NEW k \in 0..(ByteBits - 1)
      PROVE  Voted((j - 1) * ByteBits + k, pixels) = Bits(bytes[j])[k]
  <2> DEFINE i == (j - 1) * ByteBits + k
             bit == Bits(bytes[j])[k]
             copies == Copies(i, pixels)
  <2>1. j - 1 \in Nat /\ k \in 0..(ByteBits - 1)
      BY <1>1
  <2>2. i \in Nat /\ i \div ByteBits = j - 1 /\ i % ByteBits = k
      BY <1>1, <2>1, Composed
  <2>3. i \in 0..(ProtectedBits(pixels) - 1)
    <3> DEFINE before == (j - 1) * ByteBits
    <3>1. k + 1 \in 1..ByteBits /\ j \in 1..n
        BY <1>1
    <3>2. (j - 1) * ByteBits + (k + 1) \in 1..(ByteBits * n)
      <4> HIDE DEF n
      <4> QED BY <1>1, <3>1, PlacesApart
    <3>3. ByteBits * n = n * ByteBits /\ before \in Nat
        BY <1>1, <2>1
    <3> HIDE DEF before, n
    <3>4. before + (k + 1) <= ProtectedBits(pixels) /\ ProtectedBits(pixels) \in Int
        BY <1>1, <3>2, <3>3 DEF before
    <3>5. before + k \in 0..(ProtectedBits(pixels) - 1)
        BY <2>1, <3>3, <3>4
    <3> QED BY <3>5 DEF before
  <2>4. bit \in {0, 1} /\ BitOf(bytes, i) = bit
    <3>1. (j - 1) + 1 = j
        BY <2>1
    <3> HIDE DEF i
    <3> QED BY <1>3, <2>2, <3>1 DEF BitOf
  <2> HIDE DEF i
  <2>5. \A p \in copies : pixelMap[p] = bit
    <3>1. \A p \in copies : p \in 1..pixels /\ (p - 1) % ProtectedBits(pixels) = i
        BY DEF Copies
    <3> HIDE DEF copies, bit
    <3> QED BY <2>4, <3>1 DEF PayloadMap
  <2>6. ~ (2 * Cardinality(copies \cap damage) >= Cardinality(copies))
      BY <2>2, <2>3 DEF Lost
  <2>7. 2 * Cardinality(copies \cap damage) < Cardinality(copies)
    <3>1. copies \in SUBSET (1..pixels) /\ copies \cap damage \in SUBSET (1..pixels)
        BY DEF Copies
    <3> HIDE DEF copies
    <3>2. Cardinality(copies) \in Nat /\ Cardinality(copies \cap damage) \in Nat
        BY <3>1, Positions
    <3> QED BY <2>6, <3>2
  <2> HIDE DEF bit
  <2>8. Voted(i, pixels) = bit
      BY <2>2, <2>4, <2>5, <2>7, VoteRight
  <2> QED BY <2>8 DEF i, bit
<1>5. Vote(j) = Bits(bytes[j])
  <2> DEFINE bits == Bits(bytes[j])
  <2> HIDE DEF bits
  <2>1. bits \in [0..(ByteBits - 1) -> {0, 1}] /\ \A k \in 0..(ByteBits - 1) : Vote(j)[k] = bits[k]
      BY <1>3, <1>4 DEF bits
  <2>2. Vote(j) = bits
      BY <2>1
  <2> QED BY <2>2 DEF bits
<1> HIDE DEF Vote
<1> QED BY <1>2, <1>3, <1>5

-----------------------------------------------------------------------------
(* As much damage as the property permits. *)
ShortBurst ==
    Lost # {} => Max(Lost) - Min(Lost) < (BlockParity \div 2) * BlockCount(sent.context.pixels)

LEMMA BurstWindow ==
    ASSUME ShortBurst, sent.context.pixels \in Nat
    PROVE  \E first \in Nat : \A j \in Lost :
               first <= j /\ j < first + (BlockParity \div 2) * BlockCount(sent.context.pixels)
<1> DEFINE pixels == sent.context.pixels
           span == (BlockParity \div 2) * BlockCount(pixels)
           bits == ProtectedBits(pixels)
<1>1. /\ BlockCount(pixels) \in Nat /\ ByteBits \in Nat \ {0} /\ BlockParity \in Nat /\ bits \in Nat
  <2>1. BlockCount(pixels) \in Nat /\ ByteBits \in Nat \ {0} /\ ProtectedBytes(pixels) \in Nat
      BY LayoutSizes
  <2> QED BY <2>1, LayoutAssumption DEF ProtectedBits
<1>2. Lost \in SUBSET (0..bits)
  <2>1. \A i \in 0..(bits - 1) : i \div ByteBits \in 0..bits
    <3> TAKE i \in 0..(bits - 1)
    <3>1. i \in Nat /\ i <= bits
        BY <1>1
    <3>2. \A d \in Nat \ {0} : \A m \in Nat : m \div d \in Nat /\ m \div d <= m
        OBVIOUS
    <3> HIDE DEF bits
    <3> QED BY <1>1, <3>1, <3>2
  <2> QED BY <2>1 DEF Lost
<1>3. CASE Lost = {}
    BY <1>3
<1>4. CASE Lost # {}
  <2>1. /\ Max(Lost) \in Lost /\ \A j \in Lost : Max(Lost) >= j
        /\ Min(Lost) \in Lost /\ \A j \in Lost : Min(Lost) <= j
    <3> HIDE DEF bits
    <3>1. Lost \in SUBSET Nat
        BY <1>1, <1>2
    <3>2. bits \in Nat
        BY <1>1
    <3>3. Max(Lost) \in Lost /\ \A j \in Lost : Max(Lost) >= j
        BY <1>2, <1>4, <3>2, Largest
    <3>4. Min(Lost) \in Lost /\ \A j \in Lost : Min(Lost) <= j
        BY <1>4, <3>1, SmallestMin
    <3> QED BY <3>3, <3>4
  <2>2. Max(Lost) - Min(Lost) < span
      BY <1>4 DEF ShortBurst
  <2>3. span \in Nat
      BY <1>1
  <2>4. Max(Lost) \in Nat /\ Min(Lost) \in Nat /\ \A j \in Lost : j \in Nat
    <3> DEFINE low == Min(Lost)
               high == Max(Lost)
    <3>1. low \in Lost /\ high \in Lost /\ bits \in Nat
        BY <1>1, <2>1
    <3> HIDE DEF bits, low, high
    <3>2. low \in Nat /\ high \in Nat /\ \A j \in Lost : j \in Nat
        BY <1>2, <3>1
    <3> QED BY <3>2 DEF low, high
  <2> HIDE DEF span
  <2>5. \A j \in Lost : Min(Lost) <= j /\ j < Min(Lost) + span
      BY <2>1, <2>2, <2>3, <2>4
  <2> QED BY <2>4, <2>5 DEF span
<1> QED BY <1>3, <1>4

(* Then each block is found again. *)
LEMMA BlockFound ==
    ASSUME ShortBurst, NEW pixels \in Nat, pixels = sent.context.pixels,
           NEW frame \in Seq(Byte), Len(frame) = FrameBytes(pixels),
           pixelMap = PayloadMap(ProtectFrame(frame, pixels), pixels),
           NEW b \in 1..BlockCount(pixels)
    PROVE  Corrected(Received(RecoverBytes(pixels), b, pixels)) = {Block(frame, b)}
<1> DEFINE n == BlockCount(pixels)
           t == BlockParity \div 2
           bytes == RecoverBytes(pixels)
           word == Codeword(Block(frame, b))
           received == Received(bytes, b, pixels)
           S == {c \in 1..CodeBytes : word[c] # received[c]}
<1>1. n \in Nat /\ CodeBytes \in Nat /\ t \in Nat /\ b \in 1..n
  <2>1. n \in Nat /\ CodeBytes \in Nat
      BY LayoutSizes
  <2>2. BlockParity \in Nat
      BY LayoutAssumption
  <2>3. t \in Nat
      BY <2>2
  <2> QED BY <2>1, <2>3
<1>2. \A c \in 1..CodeBytes : received[c] = bytes[Place(b, c, pixels)]
  <2> DEFINE raw == [c \in 1..CodeBytes |-> bytes[Place(b, c, pixels)]]
  <2>1. raw = [c \in 1..CodeBytes |-> raw[c]]
      OBVIOUS
  <2>2. received = Listed(raw) /\ \A c \in 1..CodeBytes : raw[c] = bytes[Place(b, c, pixels)]
      BY DEF Received
  <2> HIDE DEF raw
  <2>3. raw \in Seq({raw[c] : c \in 1..CodeBytes})
      BY <1>1, <2>1
  <2> QED BY <2>2, <2>3, ListedIs
<1>3. ASSUME NEW c \in 1..CodeBytes, Place(b, c, pixels) - 1 \notin Lost
      PROVE  word[c] = received[c]
  <2> DEFINE j == Place(b, c, pixels)
             stream == ProtectFrame(frame, pixels)
  <2>1. j \in 1..ProtectedBytes(pixels) /\ stream[j] = word[c] /\ word[c] \in Byte
      BY StreamOf
  <2> HIDE DEF word, received, bytes
  <2>2. RecoverBytes(pixels)[j] = stream[j]
    <3> HIDE DEF stream, j
    <3> QED BY <1>3, <2>1, ByteRecovered DEF stream, j
  <2> QED BY <1>2, <2>1, <2>2 DEF bytes
<1>4. Block(frame, b) \in [1..BlockData -> Byte] /\ DOMAIN word = 1..CodeBytes
    BY BlocksOf, WordParts
<1>5. PICK first \in Nat : \A j \in Lost : first <= j /\ j < first + t * n
    BY BurstWindow
<1> HIDE DEF word, received
<1>6. \A c \in S : first <= (c - 1) * n + b - 1 /\ (c - 1) * n + b - 1 < first + t * n
  <2> TAKE c \in S
  <2>1. Place(b, c, pixels) - 1 \in Lost
      BY <1>3
  <2> DEFINE j == Place(b, c, pixels) - 1
             product == (c - 1) * n
  <2>2. product \in Int
      BY <1>1
  <2>3. Place(b, c, pixels) = product + b
      BY DEF Place
  <2>4. first <= j /\ j < first + t * n
      BY <1>5, <2>1
  <2>5. j = product + b - 1
    <3> HIDE DEF product, n
    <3> QED BY <1>1, <2>2, <2>3
  <2> HIDE DEF n, t, S, j
  <2> QED BY <2>4, <2>5
<1>7. Cardinality(S) <= t
  <2>1. S \in SUBSET (1..CodeBytes)
      OBVIOUS
  <2> HIDE DEF n, t, S
  <2> QED BY <1>1, <1>5, <1>6, <2>1, FewColumns
<1>8. Wrong(word, received) <= BlockParity \div 2
    BY <1>4, <1>7 DEF Wrong
<1> QED BY <1>4, <1>8, OneWord DEF word, received

(* And the frame is what was sent. *)
LEMMA FrameFound ==
    ASSUME ShortBurst, NEW pixels \in Nat, pixels = sent.context.pixels,
           NEW frame \in Seq(Byte), Len(frame) = FrameBytes(pixels),
           pixelMap = PayloadMap(ProtectFrame(frame, pixels), pixels)
    PROVE  RestoreFrame(RecoverBytes(pixels), pixels) = {frame}
    BY BlockFound, FrameRestored

(* Its reader gets the message. *)
LEMMA ReaderOpens ==
    ASSUME SentIsFrame, sent # NothingSent, sent.password # NoPassword
    PROVE  RecoverFrame(sent.frame, sent.password, sent.context) = {sent.message}
<1> DEFINE frame == sent.frame
           pixels == sent.context.pixels
<1>1. Fits(sent.message, pixels) /\ frame = Frame(sent.message, pixels)
    BY DEF SentIsFrame
<1>2. /\ SubSeq(frame, 1, HeaderBytes) = Header
      /\ SubSeq(frame, HeaderBytes + 1, Len(frame) - TagBytes) = Body(sent.message, pixels)
    BY <1>1, FrameOpens
<1>3. TextOf(Body(sent.message, pixels), pixels) = {sent.message}
    BY <1>1, BodyOpens
<1>4. PasswordBytes(sent.password) # {}
    BY DEF PasswordBytes
<1>5. Authentic(frame, sent.password, sent.context)
    BY DEF Authentic
<1> HIDE DEF frame, pixels
<1> QED BY <1>2, <1>3, <1>4, <1>5 DEF RecoverFrame, frame, pixels

(* The picture carries the frame, and a reader after short damage has the message. *)
Carried ==
    sent # NothingSent =>
        /\ pixelMap = PayloadMap(ProtectFrame(sent.frame, sent.context.pixels), sent.context.pixels)
        /\ sent.password # NoPassword
ReaderHasIt ==
    reading # NoText /\ reading.password = sent.password /\ reading.context = sent.context /\ ShortBurst
        => reading.text = {sent.message}
ExactInv == MessageInv /\ Carried /\ ReaderHasIt

LEMMA ExactStep == ASSUME ExactInv, [MessageNext]_messageVars PROVE ExactInv'
<1>1. MessageInv'
    BY Inductive DEF ExactInv
<1>2. ASSUME NEW message \in Messages, NEW password, NEW pair, NEW pixels \in Sizes,
             EncodeMessage(message, password, pair, pixels)
      PROVE  Carried' /\ ReaderHasIt'
  <2> DEFINE frame == Frame(message, pixels)
             new == [message |-> message, password |-> password,
                     context |-> Context(pair, pixels), frame |-> frame]
  <2>1. /\ sent' = new /\ PasswordBytes(password) # {} /\ reading' = reading /\ sent = NothingSent
        /\ pixelMap' = PayloadMap(ProtectFrame(frame, pixels), pixels)
      BY <1>2 DEF EncodeMessage
  <2>2. password # NoPassword
      BY <2>1 DEF PasswordBytes
  <2>3. sent'.frame = frame /\ sent'.context.pixels = pixels /\ sent'.password = password
      BY <2>1 DEF Context
  <2>4. reading' = NoText
      BY <2>1 DEF ExactInv, MessageInv
  <2> HIDE DEF frame, new
  <2> QED BY <2>1, <2>2, <2>3, <2>4 DEF Carried, ReaderHasIt
<1>3. ASSUME NEW password, NEW pair, NEW pixels, DecodeMessage(password, pair, pixels)
      PROVE  Carried' /\ ReaderHasIt'
  <2> DEFINE context == Context(pair, pixels)
             texts == {RecoverFrame(frame, password, context) :
                           frame \in RestoreFrame(RecoverBytes(pixels), pixels)}
  <2>1. /\ sent # NothingSent /\ sent' = sent /\ pixelMap' = pixelMap /\ damage' = damage
        /\ reading' = [password |-> password, context |-> context, text |-> UNION texts]
      BY <1>3 DEF DecodeMessage
  <2>2. ShortBurst' <=> ShortBurst
    <3>1. Lost' = Lost
        BY <2>1 DEF Lost
    <3> QED BY <2>1, <3>1 DEF ShortBurst
  <2>3. ASSUME password = sent.password, context = sent.context, ShortBurst
        PROVE  UNION texts = {sent.message}
    <3>1. sent.context.pixels = pixels
        BY <2>3 DEF Context
    <3>2. Fits(sent.message, pixels) /\ sent.frame = Frame(sent.message, pixels) /\ pixels \in Nat
        BY <2>1, <3>1 DEF ExactInv, MessageInv, SentIsFrame, Fits
    <3>3. sent.frame \in Seq(Byte) /\ Len(sent.frame) = FrameBytes(pixels)
        BY <3>2, FrameParts
    <3>4. pixelMap = PayloadMap(ProtectFrame(sent.frame, pixels), pixels)
        BY <2>1, <3>1 DEF ExactInv, Carried
    <3>5. RestoreFrame(RecoverBytes(pixels), pixels) = {sent.frame}
        BY <2>3, <3>1, <3>2, <3>3, <3>4, FrameFound
    <3>6. RecoverFrame(sent.frame, password, context) = {sent.message}
        BY <2>1, <2>3, ReaderOpens DEF ExactInv, MessageInv, Carried
    <3> HIDE DEF context
    <3> QED BY <3>5, <3>6
  <2> HIDE DEF context, texts
  <2>4. reading'.password = password /\ reading'.context = context /\ reading'.text = UNION texts
      BY <2>1
  <2>5. ReaderHasIt'
      BY <2>1, <2>2, <2>3, <2>4 DEF ReaderHasIt
  <2>6. Carried'
      BY <2>1 DEF ExactInv, Carried
  <2> QED BY <2>5, <2>6
<1>4. ASSUME NEW p, DamagePixel(p) PROVE Carried' /\ ReaderHasIt'
  <2>1. reading' = NoText /\ sent' = sent /\ pixelMap' = pixelMap
      BY <1>4 DEF DamagePixel
  <2> QED BY <2>1 DEF ExactInv, Carried, ReaderHasIt
<1>5. ASSUME UNCHANGED messageVars PROVE Carried' /\ ReaderHasIt'
  <2>1. sent' = sent /\ pixelMap' = pixelMap /\ damage' = damage /\ reading' = reading
      BY <1>5 DEF messageVars
  <2>2. ShortBurst' <=> ShortBurst
    <3>1. Lost' = Lost
        BY <2>1 DEF Lost
    <3> QED BY <2>1, <3>1 DEF ShortBurst
  <2>3. Carried'
      BY <2>1 DEF ExactInv, Carried
  <2>4. ReaderHasIt'
      BY <2>1, <2>2 DEF ExactInv, ReaderHasIt
  <2> QED BY <2>3, <2>4
<1>6. ASSUME MessageNext PROVE Carried' /\ ReaderHasIt'
  <2>1. PICK password \in Passwords, pair \in ModelPairs, pixels \in Sizes :
            \/ \E message \in Messages : EncodeMessage(message, password, pair, pixels)
            \/ DecodeMessage(password, pair, pixels)
            \/ \E p \in DOMAIN pixelMap : DamagePixel(p)
      BY <1>6 DEF MessageNext
  <2>2. CASE \E message \in Messages : EncodeMessage(message, password, pair, pixels)
      BY <1>2, <2>2
  <2>3. CASE DecodeMessage(password, pair, pixels)
      BY <1>3, <2>3
  <2>4. CASE \E p \in DOMAIN pixelMap : DamagePixel(p)
      BY <1>4, <2>4
  <2> QED BY <2>1, <2>2, <2>3, <2>4
<1> QED BY <1>1, <1>5, <1>6 DEF ExactInv

(* "Correctable damage recovers exact bytes" (plan/sprint_02.md), for every layout,       *)
(* every code of the stated distance, every message and every damage: what is lost in a   *)
(* burst no longer than all blocks correct together is found again, and nothing else is   *)
(* ever read.                                                                            *)
THEOREM ExactOrRefused == MessageSpec => []MessageExactOrRefused
<1>1. MessageInit => ExactInv
    BY DEF MessageInit, ExactInv, MessageInv, SentIsFrame, NoGuessedText, Carried, ReaderHasIt
<1>2. ExactInv /\ [MessageNext]_messageVars => ExactInv'
    BY ExactStep
<1>3. ExactInv => MessageExactOrRefused
    BY DEF ExactInv, MessageInv, ReaderHasIt, ShortBurst, MessageExactOrRefused
<1> QED BY <1>1, <1>2, <1>3, PTL DEF MessageSpec
================================================================================
