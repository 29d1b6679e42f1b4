------------------------------- MODULE PelcoD -------------------------------
(***************************************************************************)
(* The messages of the Pelco-D camera protocol as pelco_d.c builds, checks *)
(* and converts them.  A uint8_t is a member of Bytes.  Every function     *)
(* that stores a message is the operator that gives the message; the tests *)
(* that can refuse it are operators of their own.  Bits are joined with +: *)
(* those of a command byte are distinct.                                   *)
(***************************************************************************)
EXTENDS Integers, Sequences

Bytes == 0 .. 255

PELCO_D_SYNC_BYTE == 255
MESSAGE_SIZE      == 7
MAX_SPEED         == 63

SUCCESS             == 0
ERROR_INVALID_SPEED == 2
ERROR_CHECKSUM      == 6

Message == [ sync : Bytes, address : Bytes, command1 : Bytes, command2 : Bytes,
             data1 : Bytes, data2 : Bytes, checksum : Bytes ]

-----------------------------------------------------------------------------
\* Variant with a bug: the sum is stored unreduced.
Checksum_Wide(msg) ==
  msg.address + msg.command1 + msg.command2 + msg.data1 + msg.data2

\* Variant with a bug: the last data byte is not summed.
Checksum_NoData2(msg) ==
  (msg.address + msg.command1 + msg.command2 + msg.data1) % 256

pelco_d_checksum(msg) ==
  (msg.address + msg.command1 + msg.command2 + msg.data1 + msg.data2) % 256

\* Variant with a bug: the checksum is taken before the data is stored.
Create_ChecksumFirst(address, command1, command2, data1, data2) ==
  LET msg == [ sync |-> PELCO_D_SYNC_BYTE, address |-> address,
               command1 |-> command1, command2 |-> command2,
               data1 |-> 0, data2 |-> 0, checksum |-> 0 ]
  IN  [ msg EXCEPT !.checksum = pelco_d_checksum(msg),
                   !.data1 = data1, !.data2 = data2 ]

\* No address is refused: a uint8_t is never above PELCO_D_MAX_ADDRESS.
pelco_d_create_message(address, command1, command2, data1, data2) ==
  LET msg == [ sync |-> PELCO_D_SYNC_BYTE, address |-> address,
               command1 |-> command1, command2 |-> command2,
               data1 |-> data1, data2 |-> data2, checksum |-> 0 ]
  IN  [ msg EXCEPT !.checksum = pelco_d_checksum(msg) ]

pelco_d_validate_message(msg) ==
  IF msg.sync = PELCO_D_SYNC_BYTE /\ pelco_d_checksum(msg) = msg.checksum
  THEN SUCCESS
  ELSE ERROR_CHECKSUM

-----------------------------------------------------------------------------
\* Commands

PanBits(pan) == CASE pan = "left" -> 4 [] pan = "right" -> 2 [] OTHER -> 0

\* Variant with a bug: up and down change places.
TiltBits_Swapped(tilt) == CASE tilt = "up" -> 16 [] tilt = "down" -> 8 [] OTHER -> 0

TiltBits(tilt) == CASE tilt = "up" -> 8 [] tilt = "down" -> 16 [] OTHER -> 0

ZoomBits(zoom) == CASE zoom = "wide" -> 64 [] zoom = "tele" -> 32 [] OTHER -> 0

QueryBits(query) == CASE query = "pan" -> 81 [] query = "tilt" -> 83 [] OTHER -> 0

\* Variant with a bug: one speed in range is enough.
SpeedsRefused_Both(pan_speed, tilt_speed) ==
  pan_speed > MAX_SPEED /\ tilt_speed > MAX_SPEED

\* pelco_d_pan_tilt returns an error and leaves the message as it was.
SpeedsRefused(pan_speed, tilt_speed) ==
  pan_speed > MAX_SPEED \/ tilt_speed > MAX_SPEED

pelco_d_pan_tilt(address, pan, pan_speed, tilt, tilt_speed) ==
  pelco_d_create_message(address, 0, PanBits(pan) + TiltBits(tilt), pan_speed,
                         tilt_speed)

pelco_d_zoom(address, zoom) ==
  pelco_d_create_message(address, 0, ZoomBits(zoom), 0, 0)

pelco_d_query_position(address, query) ==
  pelco_d_create_message(address, 0, QueryBits(query), 0, 0)

-----------------------------------------------------------------------------
\* Bytes

pelco_d_message_to_bytes(msg) ==
  << msg.sync, msg.address, msg.command1, msg.command2, msg.data1, msg.data2,
     msg.checksum >>

\* A buffer refused: too short for a message.
BufferRefused(buff) == Len(buff) < MESSAGE_SIZE

\* The message stored.  The function then returns its checksum, in the type of the
\* errors.
pelco_d_bytes_to_message(buff) ==
  [ sync |-> buff[1], address |-> buff[2], command1 |-> buff[3],
    command2 |-> buff[4], data1 |-> buff[5], data2 |-> buff[6],
    checksum |-> buff[7] ]

-----------------------------------------------------------------------------
\* Positions: hundredths of a degree on the wire, degrees for the program

PAN_REPLY  == 89
TILT_REPLY == 91

Hundredths(msg) == msg.data1 * 256 + msg.data2

\* The angle stored; a message with another command is refused and none is stored.
pelco_get_pan_angle(msg) == Hundredths(msg) \div 100

\* The division of C, which truncates towards zero.
Truncated(n, d) == IF n >= 0 THEN n \div d ELSE - ((- n) \div d)

\* Variant with a bug: below the horizon the sign is lost.
Tilt_Unsigned(msg) ==
  LET tilt_data == Hundredths(msg)
  IN  IF tilt_data > 18000 THEN Truncated(36000 - tilt_data, 100)
      ELSE tilt_data \div 100

pelco_get_tilt_angle(msg) ==
  LET tilt_data == Hundredths(msg)
  IN  CASE tilt_data > 18000 -> Truncated(36000 - tilt_data, 100)
        [] tilt_data < 18000 -> Truncated(- tilt_data, 100)
        [] OTHER -> 0
=============================================================================
