---------------------------- MODULE PelcoDProofs ----------------------------
(***************************************************************************)
(* What pelco_d.c promises of messages, for every address and every data:  *)
(* the conversions are inverse, what is built is valid, what is valid was  *)
(* not changed in one byte.  CameraLink keeps these promises.              *)
(***************************************************************************)
EXTENDS CameraLink, SequenceTheorems, TLAPS

Bytewise(m) == pelco_d_message_to_bytes(m)

Sum5(a, b, c, d, e) == (a + b + c + d + e) % 256

Valid(m) == pelco_d_validate_message(m) = SUCCESS

-----------------------------------------------------------------------------
\* Two sums that differ in one byte differ modulo 256.
LEMMA OneByte ==
  ASSUME NEW s \in Nat, NEW b \in Bytes, NEW c \in Bytes, b # c
  PROVE  (s + b) % 256 # (s + c) % 256
BY SMTT(30) DEF Bytes

\* So do two sums of five bytes.
LEMMA OneOfFive ==
  ASSUME NEW a \in Bytes, NEW b \in Bytes, NEW c \in Bytes, NEW d \in Bytes,
         NEW e \in Bytes, NEW x \in Bytes
  PROVE  /\ x # a => Sum5(x, b, c, d, e) # Sum5(a, b, c, d, e)
         /\ x # b => Sum5(a, x, c, d, e) # Sum5(a, b, c, d, e)
         /\ x # c => Sum5(a, b, x, d, e) # Sum5(a, b, c, d, e)
         /\ x # d => Sum5(a, b, c, x, e) # Sum5(a, b, c, d, e)
         /\ x # e => Sum5(a, b, c, d, x) # Sum5(a, b, c, d, e)
<1>1. ASSUME x # a
      PROVE  Sum5(x, b, c, d, e) # Sum5(a, b, c, d, e)
  <2> DEFINE s == b + c + d + e
  <2>1. s \in Nat /\ x + b + c + d + e = s + x /\ a + b + c + d + e = s + a
    BY DEF Bytes
  <2> HIDE DEF s
  <2>2. (s + x) % 256 # (s + a) % 256
    BY <1>1, <2>1, OneByte
  <2> QED BY <2>1, <2>2 DEF Sum5
<1>2. ASSUME x # b
      PROVE  Sum5(a, x, c, d, e) # Sum5(a, b, c, d, e)
  <2> DEFINE s == a + c + d + e
  <2>1. s \in Nat /\ a + x + c + d + e = s + x /\ a + b + c + d + e = s + b
    BY DEF Bytes
  <2> HIDE DEF s
  <2>2. (s + x) % 256 # (s + b) % 256
    BY <1>2, <2>1, OneByte
  <2> QED BY <2>1, <2>2 DEF Sum5
<1>3. ASSUME x # c
      PROVE  Sum5(a, b, x, d, e) # Sum5(a, b, c, d, e)
  <2> DEFINE s == a + b + d + e
  <2>1. s \in Nat /\ a + b + x + d + e = s + x /\ a + b + c + d + e = s + c
    BY DEF Bytes
  <2> HIDE DEF s
  <2>2. (s + x) % 256 # (s + c) % 256
    BY <1>3, <2>1, OneByte
  <2> QED BY <2>1, <2>2 DEF Sum5
<1>4. ASSUME x # d
      PROVE  Sum5(a, b, c, x, e) # Sum5(a, b, c, d, e)
  <2> DEFINE s == a + b + c + e
  <2>1. s \in Nat /\ a + b + c + x + e = s + x /\ a + b + c + d + e = s + d
    BY DEF Bytes
  <2> HIDE DEF s
  <2>2. (s + x) % 256 # (s + d) % 256
    BY <1>4, <2>1, OneByte
  <2> QED BY <2>1, <2>2 DEF Sum5
<1>5. ASSUME x # e
      PROVE  Sum5(a, b, c, d, x) # Sum5(a, b, c, d, e)
  <2> DEFINE s == a + b + c + d
  <2>1. s \in Nat /\ a + b + c + d + x = s + x /\ a + b + c + d + e = s + e
    BY DEF Bytes
  <2> HIDE DEF s
  <2>2. (s + x) % 256 # (s + e) % 256
    BY <1>5, <2>1, OneByte
  <2> QED BY <2>1, <2>2 DEF Sum5
<1> QED BY <1>1, <1>2, <1>3, <1>4, <1>5

\* Valid means: the sync byte in its place and the sum of the five others.
LEMMA ValidMeans ==
  ASSUME NEW m
  PROVE  Valid(m) <=>
           /\ m.sync = 255
           /\ m.checksum = Sum5(m.address, m.command1, m.command2, m.data1, m.data2)
BY DEF Sum5, Valid, pelco_d_validate_message, pelco_d_checksum, PELCO_D_SYNC_BYTE,
       SUCCESS, ERROR_CHECKSUM

\* The fields that pelco_d_create_message stores.
LEMMA CreatedFields ==
  ASSUME NEW a \in Bytes, NEW c1 \in Bytes, NEW c2 \in Bytes, NEW d1 \in Bytes,
         NEW d2 \in Bytes
  PROVE  pelco_d_create_message(a, c1, c2, d1, d2) =
           [ sync |-> 255, address |-> a, command1 |-> c1, command2 |-> c2,
             data1 |-> d1, data2 |-> d2,
             checksum |-> Sum5(a, c1, c2, d1, d2) ]
BY DEF Sum5, pelco_d_create_message, pelco_d_checksum, PELCO_D_SYNC_BYTE

\* What pelco_d_create_message stores is a message of bytes, valid, with the data in
\* their places.
LEMMA Created ==
  ASSUME NEW a \in Bytes, NEW c1 \in Bytes, NEW c2 \in Bytes, NEW d1 \in Bytes,
         NEW d2 \in Bytes
  PROVE  LET m == pelco_d_create_message(a, c1, c2, d1, d2)
         IN  m \in Message /\ Valid(m) /\ m.data1 = d1 /\ m.data2 = d2
<1> DEFINE sum == Sum5(a, c1, c2, d1, d2)
           m == [ sync |-> 255, address |-> a, command1 |-> c1, command2 |-> c2,
                  data1 |-> d1, data2 |-> d2, checksum |-> sum ]
<1>1. sum \in Bytes
  BY DEF Sum5, Bytes
<1>2. 255 \in Bytes
  BY DEF Bytes
<1>3. m \in Message
  BY <1>1, <1>2 DEF Message
<1>4. Valid(m)
  BY ValidMeans
<1>5. m.data1 = d1 /\ m.data2 = d2
  OBVIOUS
<1>6. pelco_d_create_message(a, c1, c2, d1, d2) = m
  BY CreatedFields
<1> HIDE DEF m
<1> QED BY <1>3, <1>4, <1>5, <1>6, Zenon

\* A checksum is a byte.
LEMMA ChecksumByte ==
  ASSUME NEW m \in Message
  PROVE  pelco_d_checksum(m) \in Bytes
<1>1. PICK a \in Bytes, b \in Bytes, c \in Bytes, d \in Bytes, e \in Bytes :
        /\ m.address = a /\ m.command1 = b /\ m.command2 = c /\ m.data1 = d
        /\ m.data2 = e
  BY DEF Message
<1>2. (a + b + c + d + e) % 256 \in Bytes
  BY DEF Bytes
<1> QED BY <1>1, <1>2 DEF pelco_d_checksum

\* The values returned are bytes too.
LEMMA ReturnsAreBytes ==
  /\ SUCCESS \in Bytes /\ ERROR_INVALID_SPEED \in Bytes /\ ERROR_CHECKSUM \in Bytes
  /\ SUCCESS # ERROR_CHECKSUM
BY DEF SUCCESS, ERROR_INVALID_SPEED, ERROR_CHECKSUM, Bytes

\* A message converted to bytes and back is the same message.
LEMMA RoundTrip ==
  ASSUME NEW m \in Message
  PROVE  /\ pelco_d_bytes_to_message(Bytewise(m)) = m
         /\ Bytewise(m) \in Seq(Bytes)
         /\ Len(Bytewise(m)) = 7
BY DEF Message, Bytewise, pelco_d_bytes_to_message, pelco_d_message_to_bytes

\* Seven bytes make a message.
LEMMA BytesMakeMessage ==
  ASSUME NEW b \in Seq(Bytes), Len(b) = 7
  PROVE  pelco_d_bytes_to_message(b) \in Message
<1>1. \A i \in 1 .. 7 : b[i] \in Bytes
  BY ElementOfSeq
<1>2. /\ b[1] \in Bytes /\ b[2] \in Bytes /\ b[3] \in Bytes /\ b[4] \in Bytes
      /\ b[5] \in Bytes /\ b[6] \in Bytes /\ b[7] \in Bytes
  BY <1>1
<1> QED BY <1>2 DEF Message, pelco_d_bytes_to_message

\* A valid message with one of its seven bytes changed is not valid.
LEMMA OneByteNoticed ==
  ASSUME NEW m \in Message, Valid(m), NEW n \in 1 .. 7, NEW byte \in Bytes,
         byte # Bytewise(m)[n]
  PROVE  ~ Valid(pelco_d_bytes_to_message([ Bytewise(m) EXCEPT ![n] = byte ]))
<1> DEFINE wire == [ Bytewise(m) EXCEPT ![n] = byte ]
           r == pelco_d_bytes_to_message(wire)
<1> SUFFICES ASSUME Valid(r) PROVE FALSE
  OBVIOUS
<1>1. PICK a \in Bytes, b \in Bytes, c \in Bytes, d \in Bytes, e \in Bytes :
        /\ m.address = a /\ m.command1 = b /\ m.command2 = c /\ m.data1 = d
        /\ m.data2 = e
  BY DEF Message
<1>2. m.sync = 255 /\ m.checksum = Sum5(a, b, c, d, e)
  BY <1>1, ValidMeans
<1>3. /\ wire[1] = 255
      /\ wire[7] = Sum5(wire[2], wire[3], wire[4], wire[5], wire[6])
  BY ValidMeans DEF pelco_d_bytes_to_message
<1>4. /\ wire[1] = IF n = 1 THEN byte ELSE m.sync
      /\ wire[2] = IF n = 2 THEN byte ELSE a
      /\ wire[3] = IF n = 3 THEN byte ELSE b
      /\ wire[4] = IF n = 4 THEN byte ELSE c
      /\ wire[5] = IF n = 5 THEN byte ELSE d
      /\ wire[6] = IF n = 6 THEN byte ELSE e
      /\ wire[7] = IF n = 7 THEN byte ELSE m.checksum
  BY <1>1 DEF Bytewise, pelco_d_message_to_bytes
<1>5. /\ n = 1 => byte # m.sync
      /\ n = 2 => byte # a
      /\ n = 3 => byte # b
      /\ n = 4 => byte # c
      /\ n = 5 => byte # d
      /\ n = 6 => byte # e
      /\ n = 7 => byte # m.checksum
  BY <1>1 DEF Bytewise, pelco_d_message_to_bytes
<1> HIDE DEF wire
<1>6. CASE n = 1
  BY <1>2, <1>3, <1>4, <1>5, <1>6
<1>7. CASE n = 7
  <2>1. wire[7] = byte /\ wire[7] = Sum5(a, b, c, d, e)
    BY <1>3, <1>4, <1>7
  <2> QED BY <1>2, <1>5, <1>7, <2>1
<1>8. CASE n \in 2 .. 6
  <2> DEFINE seen(k, old) == IF n = k THEN byte ELSE old
  <2>1. Sum5(seen(2, a), seen(3, b), seen(4, c), seen(5, d), seen(6, e))
          = Sum5(a, b, c, d, e)
    BY <1>2, <1>3, <1>4, <1>8
  <2>2. CASE n = 2
    <3>1. Sum5(byte, b, c, d, e) # Sum5(a, b, c, d, e)
      BY <1>5, <2>2, OneOfFive
    <3> QED BY <2>1, <2>2, <3>1
  <2>3. CASE n = 3
    <3>1. Sum5(a, byte, c, d, e) # Sum5(a, b, c, d, e)
      BY <1>5, <2>3, OneOfFive
    <3> QED BY <2>1, <2>3, <3>1
  <2>4. CASE n = 4
    <3>1. Sum5(a, b, byte, d, e) # Sum5(a, b, c, d, e)
      BY <1>5, <2>4, OneOfFive
    <3> QED BY <2>1, <2>4, <3>1
  <2>5. CASE n = 5
    <3>1. Sum5(a, b, c, byte, e) # Sum5(a, b, c, d, e)
      BY <1>5, <2>5, OneOfFive
    <3> QED BY <2>1, <2>5, <3>1
  <2>6. CASE n = 6
    <3>1. Sum5(a, b, c, d, byte) # Sum5(a, b, c, d, e)
      BY <1>5, <2>6, OneOfFive
    <3> QED BY <2>1, <2>6, <3>1
  <2> QED BY <1>8, <2>2, <2>3, <2>4, <2>5, <2>6
<1> QED BY <1>6, <1>7, <1>8

-----------------------------------------------------------------------------
\* What the line can make of the bytes of msg.
Damaged ==
  \/ Len(buff) < 7
  \/ \E n \in 1 .. 7, byte \in Bytes :
       /\ byte # Bytewise(msg)[n]
       /\ buff = [ Bytewise(msg) EXCEPT ![n] = byte ]

\* What the sender built stays valid, and each stage tells whether the line has
\* touched the message.
LinkInv ==
  /\ TypeOK
  /\ Valid(msg)
  /\ pc \in { "idle", "built" } => ~ noisy
  /\ pc = "sent" => IF noisy THEN Damaged ELSE buff = Bytewise(msg)
  /\ pc = "received" => IF noisy THEN ~ Valid(received) ELSE received = msg
  /\ pc = "checked" => IF noisy THEN rc # SUCCESS ELSE rc = SUCCESS /\ received = msg
  /\ pc # "idle" /\ asked.what = "move" =>
       msg.data1 =< MAX_SPEED /\ msg.data2 =< MAX_SPEED

\* Asking for nothing is a wish too.
LEMMA NothingIsWish == Nothing \in Wish
BY DEF Nothing, Wish, Pans, Tilts, Zooms

\* The invariant holds when the program starts.
LEMMA InitLinkInv == Init => LinkInv
<1> SUFFICES ASSUME Init PROVE LinkInv
  OBVIOUS
<1>1. 0 \in Bytes
  BY DEF Bytes
<1>2. NoMessage \in Message /\ Valid(NoMessage)
  BY <1>1, Created DEF NoMessage
<1>3. TypeOK
  <2>1. << >> \in Seq(Bytes)
    OBVIOUS
  <2>2. buff \in Seq(Bytes)
    BY <2>1 DEF Init
  <2>3. msg \in Message /\ received \in Message /\ asked \in Wish
    BY <1>2, NothingIsWish DEF Init
  <2>4. angle \in Int
    BY DEF Init
  <2> QED BY <2>2, <2>3, <2>4, ReturnsAreBytes, Zenon DEF Init, TypeOK
<1> QED BY <1>2, <1>3 DEF Init, LinkInv

\* A function of pelco_d.c that stores a message of bytes keeps the invariant, when
\* the speeds of a move are in range.
LEMMA StoredKeeps ==
  ASSUME LinkInv,
         NEW a \in Bytes, NEW c2 \in Bytes, NEW d1 \in Bytes, NEW d2 \in Bytes,
         NEW wish \in Wish,
         wish.what = "move" => d1 =< MAX_SPEED /\ d2 =< MAX_SPEED,
         Stored(pelco_d_create_message(a, 0, c2, d1, d2), wish)
  PROVE  LinkInv'
<1>1. 0 \in Bytes
  BY DEF Bytes
<1>2. msg' \in Message /\ Valid(msg') /\ msg'.data1 = d1 /\ msg'.data2 = d2
  <2>1. msg' = pelco_d_create_message(a, 0, c2, d1, d2)
    BY DEF Stored
  <2>2. LET m == pelco_d_create_message(a, 0, c2, d1, d2)
        IN  m \in Message /\ Valid(m) /\ m.data1 = d1 /\ m.data2 = d2
    BY <1>1, Created
  <2> QED BY <2>1, <2>2, Zenon
<1>3. TypeOK'
  BY <1>2, ReturnsAreBytes DEF LinkInv, TypeOK, Stored
<1>4. pc' = "built" /\ ~ noisy' /\ asked' = wish
  BY DEF Stored, LinkInv
<1>5. Valid(msg)'
  BY <1>2 DEF Valid
<1> QED BY <1>2, <1>3, <1>4, <1>5 DEF LinkInv

\* Two bytes hold a position on the wire.
LEMMA TwoBytes ==
  ASSUME NEW c, NEW i \in Int
  PROVE  /\ OnTheWire(c, i) \div 256 \in Bytes
         /\ OnTheWire(c, i) % 256 \in Bytes
<1>1. (i % 36000) \div 256 \in 0 .. 255
  OBVIOUS
<1>2. ((- i) % 36000) \div 256 \in 0 .. 255
  OBVIOUS
<1>3. (i % 36000) % 256 \in 0 .. 255
  OBVIOUS
<1>4. ((- i) % 36000) % 256 \in 0 .. 255
  OBVIOUS
<1>5. CASE c = TILT_REPLY
  <2>1. OnTheWire(c, i) = (- i) % 36000
    BY <1>5 DEF OnTheWire
  <2> QED BY <1>2, <1>4, <2>1 DEF Bytes
<1>6. CASE c # TILT_REPLY
  <2>1. OnTheWire(c, i) = i % 36000
    BY <1>6 DEF OnTheWire
  <2> QED BY <1>1, <1>3, <2>1 DEF Bytes
<1> QED BY <1>5, <1>6, Zenon

\* Building a command, or the camera's answer, keeps it.
LEMMA BuildKeeps ==
  ASSUME LinkInv, NEW address \in Addresses,
         \/ \E pan \in Pans, tilt \in Tilts, pan_speed, tilt_speed \in Speeds :
              PanTilt(address, pan, pan_speed, tilt, tilt_speed)
         \/ \E zoom \in Zooms : Zoom(address, zoom)
         \/ \E query \in { "pan", "tilt", "zoom" } : Query(address, query)
         \/ \E command2 \in { PAN_REPLY, TILT_REPLY }, n \in Hundredth :
              Reply(address, command2, n) \/ Reply(address, command2, - n)
  PROVE  LinkInv'
<1>1. address \in Bytes /\ 0 \in Bytes
  BY AddressesAssumption DEF Bytes
<1>2. ASSUME NEW pan \in Pans, NEW tilt \in Tilts, NEW pan_speed \in Speeds,
             NEW tilt_speed \in Speeds,
             PanTilt(address, pan, pan_speed, tilt, tilt_speed)
      PROVE  LinkInv'
  <2>1. PanBits(pan) + TiltBits(tilt) \in Bytes
    BY DEF Pans, Tilts, PanBits, TiltBits, Bytes
  <2>2. pan_speed \in Bytes /\ tilt_speed \in Bytes
    BY SpeedsAssumption
  <2>3. pan_speed =< MAX_SPEED /\ tilt_speed =< MAX_SPEED
    <3>1. ~ SpeedsRefused(pan_speed, tilt_speed)
      BY <1>2 DEF PanTilt
    <3> QED BY <2>2, <3>1 DEF SpeedsRefused, MAX_SPEED, Bytes
  <2> DEFINE wish == [ Nothing EXCEPT !.what = "move", !.pan = pan, !.tilt = tilt ]
  <2>4. wish \in Wish
    BY NothingIsWish DEF Wish
  <2>5. Stored(pelco_d_create_message(address, 0, PanBits(pan) + TiltBits(tilt),
                                      pan_speed, tilt_speed), wish)
    BY <1>2 DEF PanTilt, pelco_d_pan_tilt
  <2> HIDE DEF wish
  <2> QED BY <1>1, <2>1, <2>2, <2>3, <2>4, <2>5, StoredKeeps
<1>3. ASSUME NEW zoom \in Zooms, Zoom(address, zoom)
      PROVE  LinkInv'
  <2>1. ZoomBits(zoom) \in Bytes
    BY DEF Zooms, ZoomBits, Bytes
  <2> DEFINE wish == [ Nothing EXCEPT !.what = "move", !.zoom = zoom ]
  <2>2. wish \in Wish
    BY NothingIsWish DEF Wish
  <2>3. Stored(pelco_d_create_message(address, 0, ZoomBits(zoom), 0, 0), wish)
    BY <1>3 DEF Zoom, pelco_d_zoom
  <2>4. 0 =< MAX_SPEED
    BY DEF MAX_SPEED
  <2> HIDE DEF wish
  <2> QED BY <1>1, <2>1, <2>2, <2>3, <2>4, StoredKeeps
<1>4. ASSUME NEW query \in { "pan", "tilt", "zoom" }, Query(address, query)
      PROVE  LinkInv'
  <2>1. QueryBits(query) \in Bytes
    BY DEF QueryBits, Bytes
  <2> DEFINE wish == [ Nothing EXCEPT !.what = "query" ]
  <2>2. wish \in Wish /\ wish.what # "move"
    BY NothingIsWish DEF Wish
  <2>3. Stored(pelco_d_create_message(address, 0, QueryBits(query), 0, 0), wish)
    BY <1>4 DEF Query, pelco_d_query_position
  <2> HIDE DEF wish
  <2> QED BY <1>1, <2>1, <2>2, <2>3, StoredKeeps
<1>5. ASSUME NEW command2 \in { PAN_REPLY, TILT_REPLY }, NEW position \in Int,
             Reply(address, command2, position)
      PROVE  LinkInv'
  <2> DEFINE h == OnTheWire(command2, position)
             wish == [ Nothing EXCEPT
                         !.what = IF command2 = TILT_REPLY THEN "tilt" ELSE "pan",
                         !.at = position ]
  <2>1. h \div 256 \in Bytes /\ h % 256 \in Bytes
    BY TwoBytes
  <2>2. wish \in Wish /\ wish.what # "move"
    BY NothingIsWish DEF Wish
  <2>3. Stored(pelco_d_create_message(address, 0, command2, h \div 256, h % 256), wish)
    BY <1>5 DEF Reply
  <2>4. command2 \in Bytes
    BY DEF PAN_REPLY, TILT_REPLY, Bytes
  <2> HIDE DEF h, wish
  <2> QED BY <1>1, <2>1, <2>2, <2>3, <2>4, StoredKeeps
<1>6. ASSUME NEW n \in Hundredth
      PROVE  n \in Int /\ - n \in Int
  BY HundredthAssumption
<1> QED BY <1>2, <1>3, <1>4, <1>5, <1>6

\* So do the line and the receiver.
LEMMA LineKeeps ==
  ASSUME LinkInv,
         \/ ToBytes
         \/ \E n \in 1 .. MESSAGE_SIZE, byte \in Noise : Disturb(n, byte)
         \/ \E n \in 0 .. MESSAGE_SIZE - 1 : Cut(n)
  PROVE  LinkInv'
<1>1. ASSUME ToBytes PROVE LinkInv'
  <2>1. buff' \in Seq(Bytes) /\ buff' = Bytewise(msg)'
    BY <1>1, RoundTrip DEF ToBytes, LinkInv, TypeOK, Bytewise
  <2>2. TypeOK'
    BY <1>1, <2>1 DEF ToBytes, LinkInv, TypeOK
  <2> QED BY <1>1, <2>1, <2>2 DEF ToBytes, LinkInv, Valid
<1>2. ASSUME NEW n \in 1 .. 7, NEW byte \in Bytes, Disturb(n, byte)
      PROVE  LinkInv'
  <2>1. buff = Bytewise(msg) /\ Len(buff) = 7
    BY <1>2, RoundTrip DEF Disturb, LinkInv, TypeOK
  <2>2. buff' \in Seq(Bytes)
    BY <1>2, <2>1, ExceptSeq DEF Disturb, LinkInv, TypeOK
  <2>3. TypeOK'
    BY <1>2, <2>2 DEF Disturb, LinkInv, TypeOK
  <2>4. Damaged'
    BY <1>2, <2>1 DEF Disturb, Damaged, Bytewise
  <2> QED BY <1>2, <2>3, <2>4 DEF Disturb, LinkInv, Valid
<1>3. ASSUME NEW n \in 0 .. 6, Cut(n)
      PROVE  LinkInv'
  <2>1. buff \in Seq(Bytes) /\ Len(buff) = 7
    BY <1>3, RoundTrip DEF Cut, LinkInv, TypeOK
  <2>2. buff' \in Seq(Bytes) /\ Len(buff') < 7
    BY <1>3, <2>1, SubSeqProperties DEF Cut
  <2>3. TypeOK'
    BY <1>3, <2>2 DEF Cut, LinkInv, TypeOK
  <2>4. Damaged'
    BY <2>2 DEF Damaged
  <2> QED BY <1>3, <2>3, <2>4 DEF Cut, LinkInv, Valid
<1> QED BY <1>1, <1>2, <1>3, NoiseAssumption DEF MESSAGE_SIZE

\* A message that arrives whole is what was sent, or differs in one byte and is refused.
LEMMA ReceiverKeeps ==
  ASSUME LinkInv, FromBytes \/ RefusedFromBytes \/ Validate
  PROVE  LinkInv'
<1>1. ASSUME FromBytes PROVE LinkInv'
  <2>0. received' \in Message => rc' \in Bytes
    BY <1>1, ChecksumByte DEF FromBytes
  <2>1. buff \in Seq(Bytes) /\ ~ Len(buff) < 7
    BY <1>1 DEF FromBytes, BufferRefused, MESSAGE_SIZE, LinkInv, TypeOK
  <2>2. CASE ~ noisy
    <3>1. received' = msg
      BY <1>1, <2>2, RoundTrip DEF FromBytes, LinkInv, TypeOK
    <3>2. TypeOK'
      BY <1>1, <2>0, <3>1 DEF FromBytes, LinkInv, TypeOK
    <3> QED BY <1>1, <2>2, <3>1, <3>2 DEF FromBytes, LinkInv, Valid
  <2>3. CASE noisy
    <3>1. PICK n \in 1 .. 7, byte \in Bytes :
            byte # Bytewise(msg)[n] /\ buff = [ Bytewise(msg) EXCEPT ![n] = byte ]
      BY <1>1, <2>1, <2>3 DEF FromBytes, LinkInv, Damaged
    <3>2. Len(buff) = 7
      <4>1. Bytewise(msg) \in Seq(Bytes) /\ Len(Bytewise(msg)) = 7
        BY RoundTrip DEF LinkInv, TypeOK
      <4> QED BY <3>1, <4>1, ExceptSeq
    <3>3. received' \in Message
      BY <1>1, <2>1, <3>2, BytesMakeMessage DEF FromBytes
    <3>4. ~ Valid(received')
      BY <1>1, <3>1, OneByteNoticed DEF FromBytes, LinkInv, TypeOK
    <3>5. TypeOK'
      BY <1>1, <2>0, <3>3 DEF FromBytes, LinkInv, TypeOK
    <3> QED BY <1>1, <2>3, <3>4, <3>5 DEF FromBytes, LinkInv, Valid
  <2> QED BY <2>2, <2>3
<1>2. ASSUME RefusedFromBytes PROVE LinkInv'
  <2>1. noisy
    <3>1. Len(buff) < 7 /\ buff \in Seq(Bytes)
      BY <1>2 DEF LinkInv, TypeOK, RefusedFromBytes, BufferRefused, MESSAGE_SIZE
    <3>2. Len(Bytewise(msg)) = 7
      BY RoundTrip DEF LinkInv, TypeOK
    <3>3. ~ noisy => buff = Bytewise(msg)
      BY <1>2 DEF RefusedFromBytes, LinkInv
    <3>4. ~ noisy => Len(buff) = 7
      BY <3>2, <3>3, Zenon
    <3>5. \A k \in Nat : k < 7 => k # 7
      OBVIOUS
    <3>6. Len(buff) # 7
      BY <3>1, <3>5, LenProperties, Zenon
    <3> QED BY <3>4, <3>6, Zenon
  <2>2. TypeOK'
    BY <1>2, ReturnsAreBytes DEF RefusedFromBytes, LinkInv, TypeOK
  <2> QED BY <1>2, <2>1, <2>2, ReturnsAreBytes DEF RefusedFromBytes, LinkInv, Valid
<1>3. ASSUME Validate PROVE LinkInv'
  <2>1. rc' \in { SUCCESS, ERROR_CHECKSUM } /\ (rc' = SUCCESS <=> Valid(received))
    BY <1>3 DEF Validate, Valid, pelco_d_validate_message
  <2>2. TypeOK'
    BY <1>3, <2>1, ReturnsAreBytes DEF Validate, LinkInv, TypeOK
  <2>3. IF noisy THEN rc' # SUCCESS ELSE rc' = SUCCESS /\ received = msg
    BY <1>3, <2>1 DEF Validate, LinkInv
  <2> QED BY <1>3, <2>2, <2>3 DEF Validate, LinkInv, Valid
<1> QED BY <1>1, <1>2, <1>3

\* The angles are integers.
LEMMA AnglesAreIntegers ==
  ASSUME NEW m \in Message
  PROVE  pelco_get_pan_angle(m) \in Int /\ pelco_get_tilt_angle(m) \in Int
<1>1. PICK d1 \in Bytes, d2 \in Bytes : m.data1 = d1 /\ m.data2 = d2
  BY DEF Message
<1> DEFINE h == d1 * 256 + d2
<1>2. /\ h \div 100 \in Int
      /\ Truncated(36000 - h, 100) \in Int /\ Truncated(- h, 100) \in Int
  BY DEF Truncated, Bytes
<1>3. Hundredths(m) = h
  BY <1>1 DEF Hundredths
<1> HIDE DEF h
<1> QED BY <1>2, <1>3 DEF pelco_get_pan_angle, pelco_get_tilt_angle

\* And what is left: a refusal, reading an angle, the next message.
LEMMA OthersKeep ==
  ASSUME LinkInv,
         \/ \E pan_speed, tilt_speed \in Speeds : RefusedPanTilt(pan_speed, tilt_speed)
         \/ GetPan \/ GetTilt \/ Again
         \/ UNCHANGED vars
  PROVE  LinkInv'
<1>1. ASSUME NEW pan_speed, NEW tilt_speed, RefusedPanTilt(pan_speed, tilt_speed)
      PROVE  LinkInv'
  <2>1. TypeOK'
    BY <1>1, ReturnsAreBytes DEF RefusedPanTilt, LinkInv, TypeOK
  <2> QED BY <1>1, <2>1 DEF RefusedPanTilt, LinkInv, Valid
<1>2. ASSUME GetPan \/ GetTilt PROVE LinkInv'
  <2>1. /\ pelco_get_pan_angle(received) \in Int
        /\ pelco_get_tilt_angle(received) \in Int
    BY AnglesAreIntegers DEF LinkInv, TypeOK
  <2>2. angle' \in Int
    BY <1>2, <2>1 DEF GetPan, GetTilt, GetAngle, LinkInv, TypeOK
  <2>3. /\ pc' \in { "pan read", "tilt read" }
        /\ rc' \in { SUCCESS, ERROR_CHECKSUM }
        /\ UNCHANGED << msg, buff, noisy, received, asked >>
        /\ pc = "checked"
    BY <1>2 DEF GetPan, GetTilt, GetAngle
  <2>4. TypeOK'
    BY <2>2, <2>3, ReturnsAreBytes DEF LinkInv, TypeOK
  <2> QED BY <2>3, <2>4 DEF LinkInv, Valid
<1>3. ASSUME Again PROVE LinkInv'
  <2>1. NoMessage \in Message
    <3>1. 0 \in Bytes
      BY DEF Bytes
    <3> QED BY <3>1, Created DEF NoMessage
  <2>2. << >> \in Seq(Bytes) /\ 0 \in Int
    OBVIOUS
  <2>3. TypeOK'
    BY <1>3, <2>1, <2>2, NothingIsWish DEF Again, LinkInv, TypeOK
  <2> QED BY <1>3, <2>3 DEF Again, LinkInv, Valid
<1>4. ASSUME UNCHANGED vars PROVE LinkInv'
  BY <1>4 DEF vars, LinkInv, TypeOK, Valid, Damaged, Bytewise
<1> QED BY <1>1, <1>2, <1>3, <1>4

\* LinkInv holds in every state of every behaviour.
LEMMA LinkInvHolds == Spec => []LinkInv
<1>1. ASSUME LinkInv, [Next]_vars PROVE LinkInv'
  BY <1>1, BuildKeeps, LineKeeps, ReceiverKeeps, OthersKeep DEF Next
<1> QED BY InitLinkInv, <1>1, PTL DEF Spec

\* Every variable has its type, and a message holds bytes.
THEOREM LinkTypes == Spec => []TypeOK
<1>1. LinkInv => TypeOK
  BY DEF LinkInv
<1> QED BY <1>1, LinkInvHolds, PTL

\* pelco_d_validate_message accepts no message that the line has changed in a byte or
\* cut short.
THEOREM OnlySentAccepted == Spec => []AcceptedIsSent
<1>1. LinkInv => AcceptedIsSent
  BY DEF LinkInv, AcceptedIsSent, Accepted
<1> QED BY <1>1, LinkInvHolds, PTL

\* It accepts each message that the line has left alone.
THEOREM SentAccepted == Spec => []UndisturbedIsAccepted
<1>1. LinkInv => UndisturbedIsAccepted
  BY DEF LinkInv, UndisturbedIsAccepted
<1> QED BY <1>1, LinkInvHolds, PTL

\* No speed above the maximum reaches the line.
THEOREM SpeedsBounded == Spec => []SpeedsInRange
<1>1. LinkInv => SpeedsInRange
  BY DEF LinkInv, SpeedsInRange
<1> QED BY <1>1, LinkInvHolds, PTL

-----------------------------------------------------------------------------
\* What a message means to the one who reads it

\* The bits of a command that moves the camera as was asked.
Moves(bits, pan, tilt, zoom) ==
  /\ ~ Bit(bits, 1) /\ ~ Bit(bits, 128)
  /\ Bit(bits, 2) <=> pan = "right"
  /\ Bit(bits, 4) <=> pan = "left"
  /\ Bit(bits, 8) <=> tilt = "up"
  /\ Bit(bits, 16) <=> tilt = "down"
  /\ Bit(bits, 32) <=> zoom = "tele"
  /\ Bit(bits, 64) <=> zoom = "wide"

\* Less than half a turn either way, in hundredths of a degree.
HalfTurn(at) == at \in Int /\ at < 18000 /\ - at < 18000

\* The message says what was wished: a move its directions, a reply the position, and
\* nothing else looks like a reply.
Tells(m, wish) ==
  /\ wish.what = "move" => /\ m.command1 = 0
                           /\ Moves(m.command2, wish.pan, wish.tilt, wish.zoom)
  /\ wish.what \in { "tilt", "pan" } => HalfTurn(wish.at)
  /\ wish.what = "tilt" => Hundredths(m) = OnTheWire(TILT_REPLY, wish.at)
  /\ wish.what = "pan"  => Hundredths(m) = OnTheWire(PAN_REPLY, wish.at)
  /\ m.command2 = TILT_REPLY => wish.what = "tilt"
  /\ m.command2 = PAN_REPLY  => wish.what = "pan"

\* The sender's message keeps its meaning until the next one is built.
Meaning == (pc # "idle" => Tells(msg, asked)) /\ AnglesAgree

\* A message with a meaning becomes the sender's, or stays it.
LEMMA TellsNext ==
  ASSUME NEW m, NEW wish, Tells(m, wish), msg' = m, asked' = wish
  PROVE  Tells(msg, asked)'
BY DEF Tells, HalfTurn, Hundredths, Moves, Bit, OnTheWire, TILT_REPLY, PAN_REPLY

\* Directions that are joined with a bit each do not disturb each other.
LEMMA PanTiltMoves ==
  ASSUME NEW pan \in Pans, NEW tilt \in Tilts
  PROVE  /\ Moves(PanBits(pan) + TiltBits(tilt), pan, tilt, "stop")
         /\ PanBits(pan) + TiltBits(tilt) \notin { PAN_REPLY, TILT_REPLY }
<1> DEFINE bits == PanBits(pan) + TiltBits(tilt)
<1>1. PanBits(pan) = IF pan = "left" THEN 4 ELSE IF pan = "right" THEN 2 ELSE 0
  BY DEF PanBits, Pans
<1>2. TiltBits(tilt) = IF tilt = "up" THEN 8 ELSE IF tilt = "down" THEN 16 ELSE 0
  BY DEF TiltBits, Tilts
<1>3. CASE pan = "left"
  BY <1>1, <1>2, <1>3 DEF Moves, Bit, Tilts, PAN_REPLY, TILT_REPLY
<1>4. CASE pan = "right"
  BY <1>1, <1>2, <1>4 DEF Moves, Bit, Tilts, PAN_REPLY, TILT_REPLY
<1>5. CASE pan = "stop"
  BY <1>1, <1>2, <1>5 DEF Moves, Bit, Tilts, PAN_REPLY, TILT_REPLY
<1> QED
  BY <1>3, <1>4, <1>5 DEF Pans

LEMMA ZoomMoves ==
  ASSUME NEW zoom \in Zooms
  PROVE  /\ Moves(ZoomBits(zoom), "stop", "stop", zoom)
         /\ ZoomBits(zoom) \notin { PAN_REPLY, TILT_REPLY }
<1>1. ZoomBits(zoom) = IF zoom = "wide" THEN 64 ELSE IF zoom = "tele" THEN 32 ELSE 0
  BY DEF ZoomBits, Zooms
<1> QED
  BY <1>1 DEF Moves, Bit, Zooms, PAN_REPLY, TILT_REPLY

\* The hundredths of a degree of one turn.
Turn == 0 .. 35999

\* A position on the wire is less than a turn.
LEMMA WireRange ==
  ASSUME NEW c, NEW i \in Int
  PROVE  OnTheWire(c, i) \in Turn
<1>1. CASE c = TILT_REPLY
  BY <1>1 DEF OnTheWire, Turn
<1>2. CASE c # TILT_REPLY
  BY <1>2 DEF OnTheWire, Turn
<1> QED BY <1>1, <1>2, Zenon

\* Two bytes of a position give it back.
LEMMA PositionBack ==
  ASSUME NEW h \in Turn, NEW d1, NEW d2, d1 = h \div 256, d2 = h % 256
  PROVE  d1 * 256 + d2 = h
BY SMT DEF Turn

\* The angle of a pan is the position in degrees.
LEMMA PanBack ==
  ASSUME NEW at \in Int, NEW m, Hundredths(m) = OnTheWire(PAN_REPLY, at)
  PROVE  pelco_get_pan_angle(m) = Degrees(at)
BY SMT DEF OnTheWire, PAN_REPLY, TILT_REPLY, Degrees, pelco_get_pan_angle

\* The angle of a tilt, above the horizon and below it, is the position in degrees.
LEMMA TiltBack ==
  ASSUME NEW at, HalfTurn(at), NEW m, Hundredths(m) = OnTheWire(TILT_REPLY, at)
  PROVE  pelco_get_tilt_angle(m) = Truncated(at, 100)
<1>1. at \in Int /\ at < 18000 /\ - at < 18000 /\ Hundredths(m) = (- at) % 36000
  BY DEF HalfTurn, OnTheWire
<1> DEFINE h == Hundredths(m)
<1>2. pelco_get_tilt_angle(m) = CASE h > 18000 -> Truncated(36000 - h, 100)
                                  [] h < 18000 -> Truncated(- h, 100)
                                  [] OTHER -> 0
  BY DEF pelco_get_tilt_angle
<1> HIDE DEF h
<1>3. CASE at > 0
  <2>1. h = 36000 - at
    BY <1>1, <1>3 DEF h
  <2>2. h > 18000 /\ 36000 - h = at
    BY <1>1, <1>3, <2>1
  <2>3. ~ (h < 18000)
    BY <1>1, <1>3, <2>1
  <2> QED
    BY <1>2, <2>2, <2>3
<1>4. CASE at =< 0
  <2>1. h = - at
    BY <1>1, <1>4 DEF h
  <2>2. h < 18000 /\ - h = at /\ ~ (h > 18000)
    BY <1>1, <1>4, <2>1
  <2> QED
    BY <1>2, <2>2
<1> QED
  BY <1>1, <1>3, <1>4

\* No angle has been read.
LEMMA MeansWhileUnread ==
  ASSUME pc' # "idle" => Tells(msg, asked)', pc' # "pan read", pc' # "tilt read"
  PROVE  Meaning'
<1>1. AnglesAgree'
  BY Zenon DEF AnglesAgree
<1> QED
  BY <1>1, Zenon DEF Meaning

\* The fields of a command, whose first byte is 0.
LEMMA CreatedCommand ==
  ASSUME NEW a \in Bytes, NEW c2 \in Bytes, NEW d1 \in Bytes, NEW d2 \in Bytes
  PROVE  LET m == pelco_d_create_message(a, 0, c2, d1, d2)
         IN  m.command1 = 0 /\ m.command2 = c2 /\ m.data1 = d1 /\ m.data2 = d2
<1> DEFINE m == [ sync |-> 255, address |-> a, command1 |-> 0, command2 |-> c2,
                  data1 |-> d1, data2 |-> d2, checksum |-> Sum5(a, 0, c2, d1, d2) ]
<1>1. pelco_d_create_message(a, 0, c2, d1, d2) = m
  <2>1. 0 \in Bytes
    BY DEF Bytes
  <2> QED
    BY <2>1, CreatedFields
<1>2. m.command1 = 0 /\ m.command2 = c2 /\ m.data1 = d1 /\ m.data2 = d2
  OBVIOUS
<1> HIDE DEF m
<1> QED
  BY <1>1, <1>2, Zenon

\* A function that stores a message with such a meaning keeps the invariant.
LEMMA StoredMeans ==
  ASSUME NEW a \in Bytes, NEW c2 \in Bytes, NEW d1 \in Bytes, NEW d2 \in Bytes,
         NEW wish,
         \A m : /\ m.command1 = 0 /\ m.command2 = c2 /\ m.data1 = d1 /\ m.data2 = d2
                => Tells(m, wish),
         Stored(pelco_d_create_message(a, 0, c2, d1, d2), wish)
  PROVE  Meaning'
<1> DEFINE m == pelco_d_create_message(a, 0, c2, d1, d2)
<1>1. m.command1 = 0 /\ m.command2 = c2 /\ m.data1 = d1 /\ m.data2 = d2
  <2>1. LET r == pelco_d_create_message(a, 0, c2, d1, d2)
        IN  r.command1 = 0 /\ r.command2 = c2 /\ r.data1 = d1 /\ r.data2 = d2
    BY CreatedCommand
  <2> QED
    BY <2>1, Zenon
<1>2. Tells(m, wish)
  BY <1>1, Zenon
<1>3. msg' = m /\ asked' = wish /\ pc' = "built"
  BY Zenon DEF Stored
<1> HIDE DEF m
<1>4. Tells(msg, asked)'
  BY <1>2, <1>3, TellsNext, Zenon
<1>5. "built" # "pan read" /\ "built" # "tilt read"
  OBVIOUS
<1> QED
  BY <1>3, <1>4, <1>5, MeansWhileUnread, Zenon

\* Every position that the program names is less than half a turn, either way.
LEMMA PositionTurns ==
  ASSUME NEW n \in Hundredth
  PROVE  HalfTurn(n) /\ HalfTurn(- n)
<1>1. n \in 0 .. 17999
  BY HundredthAssumption
<1>2. n \in Nat /\ n < 18000 /\ - n \in Int /\ - n < 18000 /\ - (- n) = n
  BY <1>1
<1> QED
  BY <1>2 DEF HalfTurn

\* Every function that builds a message gives it the meaning that was asked for.
LEMMA BuildMeans ==
  ASSUME NEW address \in Addresses,
         \/ \E pan \in Pans, tilt \in Tilts, pan_speed, tilt_speed \in Speeds :
              PanTilt(address, pan, pan_speed, tilt, tilt_speed)
         \/ \E zoom \in Zooms : Zoom(address, zoom)
         \/ \E query \in { "pan", "tilt", "zoom" } : Query(address, query)
         \/ \E command2 \in { PAN_REPLY, TILT_REPLY }, n \in Hundredth :
              Reply(address, command2, n) \/ Reply(address, command2, - n)
  PROVE  Meaning'
<1>1. address \in Bytes /\ 0 \in Bytes /\ PAN_REPLY # TILT_REPLY
  BY AddressesAssumption DEF Bytes, PAN_REPLY, TILT_REPLY
<1>2. ASSUME NEW pan \in Pans, NEW tilt \in Tilts, NEW pan_speed \in Speeds,
             NEW tilt_speed \in Speeds,
             PanTilt(address, pan, pan_speed, tilt, tilt_speed)
      PROVE  Meaning'
  <2> DEFINE bits == PanBits(pan) + TiltBits(tilt)
             wish == [ Nothing EXCEPT !.what = "move", !.pan = pan, !.tilt = tilt ]
  <2>1. bits \in Bytes
    BY DEF Pans, Tilts, PanBits, TiltBits, Bytes
  <2>2. pan_speed \in Bytes /\ tilt_speed \in Bytes
    BY SpeedsAssumption
  <2>3. /\ wish.what = "move" /\ wish.pan = pan /\ wish.tilt = tilt
        /\ wish.zoom = "stop"
    BY DEF Nothing
  <2>4. Stored(pelco_d_create_message(address, 0, bits, pan_speed, tilt_speed), wish)
    BY <1>2 DEF PanTilt, pelco_d_pan_tilt
  <2>5. Moves(bits, pan, tilt, "stop") /\ bits # PAN_REPLY /\ bits # TILT_REPLY
    BY PanTiltMoves
  <2> HIDE DEF wish, bits
  <2>6. \A m : m.command1 = 0 /\ m.command2 = bits => Tells(m, wish)
    BY <2>3, <2>5 DEF Tells
  <2> QED
    BY <1>1, <2>1, <2>2, <2>4, <2>6, StoredMeans
<1>3. ASSUME NEW zoom \in Zooms, Zoom(address, zoom)
      PROVE  Meaning'
  <2> DEFINE bits == ZoomBits(zoom)
             wish == [ Nothing EXCEPT !.what = "move", !.zoom = zoom ]
  <2>1. bits \in Bytes
    BY DEF Zooms, ZoomBits, Bytes
  <2>2. /\ wish.what = "move" /\ wish.pan = "stop" /\ wish.tilt = "stop"
        /\ wish.zoom = zoom
    BY DEF Nothing
  <2>3. Stored(pelco_d_create_message(address, 0, bits, 0, 0), wish)
    BY <1>3 DEF Zoom, pelco_d_zoom
  <2>4. Moves(bits, "stop", "stop", zoom) /\ bits # PAN_REPLY /\ bits # TILT_REPLY
    BY ZoomMoves
  <2> HIDE DEF wish, bits
  <2>5. \A m : m.command1 = 0 /\ m.command2 = bits => Tells(m, wish)
    BY <2>2, <2>4 DEF Tells
  <2> QED
    BY <1>1, <2>1, <2>3, <2>5, StoredMeans
<1>4. ASSUME NEW query \in { "pan", "tilt", "zoom" }, Query(address, query)
      PROVE  Meaning'
  <2> DEFINE bits == QueryBits(query)
             wish == [ Nothing EXCEPT !.what = "query" ]
  <2>1. bits \in Bytes /\ bits # PAN_REPLY /\ bits # TILT_REPLY
    BY DEF QueryBits, Bytes, PAN_REPLY, TILT_REPLY
  <2>2. wish.what = "query"
    BY DEF Nothing
  <2>3. Stored(pelco_d_create_message(address, 0, bits, 0, 0), wish)
    BY <1>4 DEF Query, pelco_d_query_position
  <2> HIDE DEF wish, bits
  <2>4. \A m : m.command2 = bits => Tells(m, wish)
    BY <2>1, <2>2 DEF Tells
  <2> QED
    BY <1>1, <2>1, <2>3, <2>4, StoredMeans
<1>5. ASSUME NEW command2 \in { PAN_REPLY, TILT_REPLY },
             NEW position, HalfTurn(position), Reply(address, command2, position)
      PROVE  Meaning'
  <2> DEFINE h == OnTheWire(command2, position)
             wish == [ Nothing EXCEPT
                         !.what = IF command2 = TILT_REPLY THEN "tilt" ELSE "pan",
                         !.at = position ]
  <2>1. position \in Int /\ h \div 256 \in Bytes /\ h % 256 \in Bytes
    BY <1>5, TwoBytes DEF HalfTurn
  <2>2. /\ wish.what = IF command2 = TILT_REPLY THEN "tilt" ELSE "pan"
        /\ wish.at = position
    BY DEF Nothing
  <2>3. Stored(pelco_d_create_message(address, 0, command2, h \div 256, h % 256), wish)
    BY <1>5 DEF Reply
  <2>4. command2 \in Bytes
    BY DEF PAN_REPLY, TILT_REPLY, Bytes
  <2>5. h \in Turn
    BY <2>1, WireRange, Zenon
  <2> HIDE DEF wish
  <2>6. \A m : m.command2 = command2 /\ Hundredths(m) = h => Tells(m, wish)
    BY <1>1, <1>5, <2>2 DEF Tells
  <2> HIDE DEF h
  <2> DEFINE high == h \div 256
             low  == h % 256
  <2>7. high * 256 + low = h
    BY <2>5, PositionBack
  <2>8. /\ Stored(pelco_d_create_message(address, 0, command2, high, low), wish)
        /\ high \in Bytes /\ low \in Bytes
    BY <2>1, <2>3, Zenon
  <2> HIDE DEF high, low
  <2>9. \A m : m.data1 = high /\ m.data2 = low => Hundredths(m) = h
    BY <2>7, Zenon DEF Hundredths
  <2>10. \A m : m.command2 = command2 /\ m.data1 = high /\ m.data2 = low
                 => Tells(m, wish)
    BY <2>6, <2>9, Zenon
  <2> QED
    BY <1>1, <2>4, <2>7, <2>8, <2>10, StoredMeans
<1>6. ASSUME NEW n \in Hundredth
      PROVE  HalfTurn(n) /\ HalfTurn(- n)
  BY PositionTurns
<1> QED
  BY <1>2, <1>3, <1>4, <1>5, <1>6

\* An angle is read of a message that was accepted, which is the sender's.
LEMMA ReadMeans ==
  ASSUME LinkInv, Meaning, GetPan \/ GetTilt
  PROVE  Meaning'
<1>1. /\ pc = "checked" /\ rc = SUCCESS /\ UNCHANGED << msg, asked >>
      /\ received = msg /\ Tells(msg, asked)
  BY DEF GetPan, GetTilt, GetAngle, LinkInv, Meaning
<1>2. Tells(msg, asked)'
  BY <1>1, TellsNext
<1>3. CASE GetTilt /\ received.command2 = TILT_REPLY
  <2>1. /\ asked.what = "tilt" /\ HalfTurn(asked.at)
        /\ Hundredths(msg) = OnTheWire(TILT_REPLY, asked.at)
    BY <1>1, <1>3 DEF Tells
  <2>2. angle' = Truncated(asked.at, 100)
    BY <1>1, <1>3, <2>1, TiltBack DEF GetTilt, GetAngle
  <2>3. pc' = "tilt read" /\ asked' = asked
    BY <1>1, <1>3 DEF GetTilt
  <2>4. "tilt read" # "pan read"
    OBVIOUS
  <2> QED
    BY <1>2, <2>1, <2>2, <2>3, <2>4, Zenon DEF Meaning, AnglesAgree
<1>4. CASE GetPan /\ received.command2 = PAN_REPLY
  <2>1. /\ asked.what = "pan" /\ HalfTurn(asked.at)
        /\ Hundredths(msg) = OnTheWire(PAN_REPLY, asked.at)
    BY <1>1, <1>4 DEF Tells
  <2>2. asked.at \in Int
    BY <2>1 DEF HalfTurn
  <2>3. angle' = Degrees(asked.at)
    BY <1>1, <1>4, <2>1, <2>2, PanBack DEF GetPan, GetAngle
  <2>4. pc' = "pan read" /\ asked' = asked
    BY <1>1, <1>4 DEF GetPan
  <2>5. "tilt read" # "pan read"
    OBVIOUS
  <2> QED
    BY <1>2, <2>1, <2>3, <2>4, <2>5, Zenon DEF Meaning, AnglesAgree
<1>5. CASE rc' = ERROR_CHECKSUM
  BY <1>2, <1>5, ReturnsAreBytes, Zenon DEF Meaning, AnglesAgree
<1> QED
  BY <1>3, <1>4, <1>5 DEF GetPan, GetTilt, GetAngle

LEMMA MeaningStep ==
  ASSUME LinkInv, Meaning, [Next]_vars
  PROVE  Meaning'
<1>1. ASSUME /\ pc # "idle" \/ pc' = "idle"
             /\ pc' \notin { "pan read", "tilt read" }
             /\ UNCHANGED << msg, asked >>
      PROVE  Meaning'
  <2>1. pc' # "idle" => Tells(msg, asked)'
    BY <1>1, TellsNext DEF Meaning
  <2>2. pc' # "pan read" /\ pc' # "tilt read"
    BY <1>1
  <2> QED
    BY <2>1, <2>2, MeansWhileUnread, Zenon
<1>2. CASE \E pan_speed, tilt_speed \in Speeds : RefusedPanTilt(pan_speed, tilt_speed)
  BY <1>1, <1>2 DEF RefusedPanTilt
<1>3. CASE \/ ToBytes \/ FromBytes \/ RefusedFromBytes \/ Validate
           \/ \E n \in 1 .. MESSAGE_SIZE, byte \in Noise : Disturb(n, byte)
           \/ \E n \in 0 .. MESSAGE_SIZE - 1 : Cut(n)
  BY <1>1, <1>3 DEF ToBytes, FromBytes, RefusedFromBytes, Validate, Disturb, Cut
<1>4. CASE Again
  <2>1. pc' = "idle" /\ pc' # "pan read" /\ pc' # "tilt read"
    BY <1>4 DEF Again
  <2> QED
    BY <2>1, MeansWhileUnread, Zenon
<1>5. CASE UNCHANGED vars
  <2>1. pc' # "idle" => Tells(msg, asked)'
    BY <1>5, TellsNext DEF vars, Meaning
  <2>2. AnglesAgree'
    BY <1>5, Zenon DEF vars, Meaning, AnglesAgree
  <2> QED
    BY <2>1, <2>2, Zenon DEF Meaning
<1> QED
  BY <1>2, <1>3, <1>4, <1>5, BuildMeans, ReadMeans DEF Next

LEMMA MeaningHolds == Spec => [](LinkInv /\ Meaning)
<1>1. Init => Meaning
  BY DEF Init, Meaning, AnglesAgree
<1> QED
  BY <1>1, LinkInvHolds, MeaningStep, PTL DEF Spec

\* A camera that accepts a command moves as was asked and no other way, for every
\* address and every speed: the directions have bits of their own, no move sets the bit
\* of an extended command, and what the line changed is not accepted.
THEOREM MovesObeyed == Spec => []Obeyed
<1>1. LinkInv /\ Meaning => Obeyed
  <2> SUFFICES ASSUME LinkInv, Meaning, Accepted, asked.what = "move"
               PROVE  /\ received.command1 = 0
                      /\ Moves(received.command2, asked.pan, asked.tilt, asked.zoom)
    BY DEF Obeyed, Moves
  <2>1. received = msg /\ Tells(msg, asked)
    BY DEF Accepted, LinkInv, Meaning
  <2> QED
    BY <2>1 DEF Tells
<1> QED
  BY <1>1, MeaningHolds, PTL

\* An angle is the camera's position in whole degrees, read from a reply of its kind,
\* for every position from just above straight down to just below straight up: the two
\* bytes, the wrap at 36000 and the truncating division are undone.
THEOREM AnglesRight == Spec => []AnglesAgree
<1>1. Meaning => AnglesAgree
  BY DEF Meaning
<1> QED
  BY <1>1, MeaningHolds, PTL
=============================================================================
