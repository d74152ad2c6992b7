------------------------------ MODULE Captions ------------------------------
(***************************************************************************)
(* The two ways in which the captions of a stream come into display order: *)
(* by the type of the picture (MPEG-2) and by its order count (H.264).     *)
(***************************************************************************)
EXTENDS CcFields, CcPoc

(* The caption data of MPEG and of H.264 streams, which comes in coded     *)
(* order, goes to the device in display order, none twice and, as long as  *)
(* nothing is lost, all of it.                                             *)
CaptionsInOrder == DisplayOrder /\ PocOrder
=============================================================================
