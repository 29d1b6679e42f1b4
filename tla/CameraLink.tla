----------------------------- MODULE CameraLink -----------------------------
(***************************************************************************)
(* A program that steers a camera with pelco_d.c: it builds a command,     *)
(* converts it to bytes and sends them over a line that may change one     *)
(* byte; what arrives is converted back and validated.  The camera answers *)
(* a query with its position, a message of the same form, over the same    *)
(* line, and its angle is read.  The line, which may also cut a message     *)
(* short, and the camera are the environment.                              *)
(***************************************************************************)
EXTENDS PelcoD

CONSTANTS Addresses,   \* of the cameras
          Speeds,      \* given to pelco_d_pan_tilt
          Hundredth,   \* of a degree that the camera is turned by, either way
          Noise        \* the bytes that the line may put in place of another

ASSUME AddressesAssumption == Addresses \subseteq Bytes
ASSUME SpeedsAssumption    == Speeds \subseteq Bytes
ASSUME HundredthAssumption == Hundredth \subseteq 0 .. 17999
ASSUME NoiseAssumption     == Noise \subseteq Bytes

VARIABLES pc,
          rc,        \* what the last function of pelco_d.c returned
          msg,       \* the sender's message
          buff,      \* its bytes, on the line
          noisy,     \* the line has changed or lost a byte
          received,  \* the receiver's message
          angle,     \* the receiver's angle
          asked      \* history: what the sender wants, or the camera's position

vars == << pc, rc, msg, buff, noisy, received, angle, asked >>

Pans  == { "stop", "left", "right" }
Tilts == { "stop", "up", "down" }
Zooms == { "stop", "wide", "tele" }

Wish == [ what : { "nothing", "move", "query", "pan", "tilt" }, pan : Pans,
          tilt : Tilts, zoom : Zooms, at : Int ]

Nothing == [ what |-> "nothing", pan |-> "stop", tilt |-> "stop", zoom |-> "stop",
             at |-> 0 ]

NoMessage == pelco_d_create_message(0, 0, 0, 0, 0)

Init ==
  /\ pc = "idle"
  /\ rc = SUCCESS
  /\ msg = NoMessage /\ received = NoMessage
  /\ buff = << >>
  /\ noisy = FALSE
  /\ angle = 0
  /\ asked = Nothing

\* A function of pelco_d.c stores a message and returns success.
Stored(message, wish) ==
  /\ pc = "idle"
  /\ pc' = "built"
  /\ rc' = SUCCESS
  /\ msg' = message
  /\ asked' = wish
  /\ UNCHANGED << buff, noisy, received, angle >>

PanTilt(address, pan, pan_speed, tilt, tilt_speed) ==
  /\ ~ SpeedsRefused(pan_speed, tilt_speed)
  /\ Stored(pelco_d_pan_tilt(address, pan, pan_speed, tilt, tilt_speed),
            [ Nothing EXCEPT !.what = "move", !.pan = pan, !.tilt = tilt ])

RefusedPanTilt(pan_speed, tilt_speed) ==
  /\ pc = "idle"
  /\ SpeedsRefused(pan_speed, tilt_speed)
  /\ rc' = ERROR_INVALID_SPEED
  /\ UNCHANGED << pc, msg, buff, noisy, received, angle, asked >>

Zoom(address, zoom) ==
  Stored(pelco_d_zoom(address, zoom),
         [ Nothing EXCEPT !.what = "move", !.zoom = zoom ])

Query(address, query) ==
  Stored(pelco_d_query_position(address, query), [ Nothing EXCEPT !.what = "query" ])

\* The camera reports its position: upwards from the horizon it counts down from
\* 36000, around the vertical axis it counts up.
OnTheWire(command2, position) ==
  IF command2 = TILT_REPLY THEN (- position) % 36000 ELSE position % 36000

Reply(address, command2, position) ==
  Stored(pelco_d_create_message(address, 0, command2,
                                OnTheWire(command2, position) \div 256,
                                OnTheWire(command2, position) % 256),
         [ Nothing EXCEPT !.what = IF command2 = TILT_REPLY THEN "tilt" ELSE "pan",
                          !.at = position ])

ToBytes ==
  /\ pc = "built"
  /\ pc' = "sent"
  /\ buff' = pelco_d_message_to_bytes(msg)
  /\ UNCHANGED << rc, msg, noisy, received, angle, asked >>

\* The line changes one byte, or delivers the first n bytes only.
Disturb(n, byte) ==
  /\ pc = "sent"
  /\ ~ noisy
  /\ byte # buff[n]
  /\ buff' = [ buff EXCEPT ![n] = byte ]
  /\ noisy' = TRUE
  /\ UNCHANGED << pc, rc, msg, received, angle, asked >>

Cut(n) ==
  /\ pc = "sent"
  /\ ~ noisy
  /\ buff' = SubSeq(buff, 1, n)
  /\ noisy' = TRUE
  /\ UNCHANGED << pc, rc, msg, received, angle, asked >>

\* What it returns is a checksum and means nothing to the receiver, who therefore
\* compares the size itself and validates what is stored.
FromBytes ==
  /\ pc = "sent"
  /\ ~ BufferRefused(buff)
  /\ pc' = "received"
  /\ received' = pelco_d_bytes_to_message(buff)
  /\ rc' = pelco_d_checksum(received')
  /\ UNCHANGED << msg, buff, noisy, angle, asked >>

RefusedFromBytes ==
  /\ pc = "sent"
  /\ BufferRefused(buff)
  /\ pc' = "checked"
  /\ rc' = ERROR_CHECKSUM
  /\ UNCHANGED << msg, buff, noisy, received, angle, asked >>

Validate ==
  /\ pc = "received"
  /\ pc' = "checked"
  /\ rc' = pelco_d_validate_message(received)
  /\ UNCHANGED << msg, buff, noisy, received, angle, asked >>

\* The receiver reads an angle of a message that it has accepted.
GetAngle(command2, result) ==
  /\ pc = "checked"
  /\ rc = SUCCESS
  /\ IF received.command2 = command2
     THEN rc' = SUCCESS /\ angle' = result
     ELSE rc' = ERROR_CHECKSUM /\ UNCHANGED angle
  /\ UNCHANGED << msg, buff, noisy, received, asked >>

GetPan ==
  /\ GetAngle(PAN_REPLY, pelco_get_pan_angle(received))
  /\ pc' = "pan read"

GetTilt ==
  /\ GetAngle(TILT_REPLY, pelco_get_tilt_angle(received))
  /\ pc' = "tilt read"

Again ==
  /\ pc \in { "checked", "pan read", "tilt read" }
  /\ pc' = "idle"
  /\ buff' = << >>
  /\ noisy' = FALSE
  /\ received' = NoMessage
  /\ angle' = 0
  /\ asked' = Nothing
  /\ UNCHANGED << rc, msg >>

Next ==
  \/ \E address \in Addresses :
       \/ \E pan \in Pans, tilt \in Tilts, pan_speed, tilt_speed \in Speeds :
            PanTilt(address, pan, pan_speed, tilt, tilt_speed)
       \/ \E zoom \in Zooms : Zoom(address, zoom)
       \/ \E query \in { "pan", "tilt", "zoom" } : Query(address, query)
       \/ \E command2 \in { PAN_REPLY, TILT_REPLY }, n \in Hundredth :
            Reply(address, command2, n) \/ Reply(address, command2, - n)
  \/ \E pan_speed, tilt_speed \in Speeds : RefusedPanTilt(pan_speed, tilt_speed)
  \/ ToBytes
  \/ \E n \in 1 .. MESSAGE_SIZE, byte \in Noise : Disturb(n, byte)
  \/ \E n \in 0 .. MESSAGE_SIZE - 1 : Cut(n)
  \/ FromBytes \/ RefusedFromBytes \/ Validate
  \/ GetPan \/ GetTilt \/ Again

Spec == Init /\ [][Next]_vars

-----------------------------------------------------------------------------
\* Properties

\* Every variable has its type; a message holds bytes.
TypeOK ==
  /\ pc \in { "idle", "built", "sent", "received", "checked", "pan read", "tilt read" }
  /\ rc \in Bytes
  /\ msg \in Message /\ received \in Message
  /\ buff \in Seq(Bytes)
  /\ noisy \in BOOLEAN
  /\ angle \in Int
  /\ asked \in Wish

Accepted == pc = "checked" /\ rc = SUCCESS

\* What the receiver accepts is what the sender built: no change of one byte of
\* the seven passes pelco_d_validate_message.
AcceptedIsSent == Accepted => received = msg

\* A message that the line did not touch is accepted.
UndisturbedIsAccepted == pc = "checked" /\ ~ noisy => rc = SUCCESS

\* No command with a speed above the protocol's maximum reaches the line.
SpeedsInRange ==
  pc = "sent" /\ asked.what = "move" => msg.data1 =< MAX_SPEED /\ msg.data2 =< MAX_SPEED

Bit(byte, value) == (byte \div value) % 2 = 1

\* A camera that reads the bits of the protocol moves as was asked, and nothing else
\* on it moves: an extended command has the lowest bit set, a move has not.
Obeyed ==
  Accepted /\ asked.what = "move" =>
    LET bits == received.command2
    IN  /\ received.command1 = 0
        /\ ~ Bit(bits, 1) /\ ~ Bit(bits, 128)
        /\ Bit(bits, 2) <=> asked.pan = "right"
        /\ Bit(bits, 4) <=> asked.pan = "left"
        /\ Bit(bits, 8) <=> asked.tilt = "up"
        /\ Bit(bits, 16) <=> asked.tilt = "down"
        /\ Bit(bits, 32) <=> asked.zoom = "tele"
        /\ Bit(bits, 64) <=> asked.zoom = "wide"

\* A position around the vertical axis, in whole degrees of one turn.
Degrees(position) == (position % 36000) \div 100

\* An angle is read from a reply of its own kind only, never from another message,
\* and is the camera's, in whole degrees.
AnglesAgree ==
  rc = SUCCESS =>
    /\ pc = "tilt read" => asked.what = "tilt" /\ angle = Truncated(asked.at, 100)
    /\ pc = "pan read" => asked.what = "pan" /\ angle = Degrees(asked.at)
=============================================================================
