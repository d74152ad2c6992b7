----------------------------- MODULE MCDevices -----------------------------
(***************************************************************************)
(* The devices that share no state with another, for TLC.                  *)
(***************************************************************************)
EXTENDS Devices

CONSTANTS r1, r2, r3

(* Two packages fill the ring, the pointers go around it, and the larger   *)
(* package does not fit the second reader's buffer.                        *)
ThreeReaders == {r1, r2, r3}
ShortAndLong == {1, 5}
OneSmallBuf  == [r \in Readers |-> IF r = r2 THEN 2 ELSE 5]

(* Video with a length; MPEG-1 audio with stuffing before its header and a *)
(* payload; video without a length, two forms; bytes of none, one of them  *)
(* what a start code begins with.                                          *)
SixUnits ==
  {<<0, 0, 1, 224, 0, 5, 128, 0, 1, 0, 0>>,
   <<0, 0, 1, 192, 0, 9, 255, 33, 0, 0, 0, 0, 9, 7, 7>>,
   <<0, 0, 1, 224, 0, 0, 128, 0, 3, 9, 0>>, <<0, 0, 1, 224, 255, 255, 128, 0, 0, 0>>,
   <<0, 0>>, <<7>>}
=============================================================================
