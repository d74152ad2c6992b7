------------------------------ MODULE CcFields ------------------------------
(***************************************************************************)
(* The caption data of an MPEG stream comes in coded order and is written  *)
(* to the device in display order: aml_reorder_user_data keeps the data of *)
(* the last anchor picture (I or P), a frame or two fields, back until the *)
(* next anchor comes; the data of a B picture passes at once.              *)
(*                                                                         *)
(* The stream is a sequence of groups: an anchor, then the B pictures that *)
(* are displayed before it.  A picture is a frame or its two fields, the   *)
(* top one first.  A field of an anchor may be lost on the way.            *)
(***************************************************************************)
EXTENDS Integers, Sequences

CONSTANTS
  MaxB,           \* bound: B pictures of a group
  MaxPictures     \* bound: pictures of the stream

ASSUME CcFieldsAssumption == MaxB \in Nat /\ MaxPictures \in Nat

(* A piece of caption data: the display number of its picture and the part *)
(* of the picture it belongs to.                                           *)
Pieces == [pic : 0 .. MaxPictures, part : {"frame", "top", "bottom"}]

VARIABLES
  shown,          \* stream: pictures of the groups that are complete
  group,          \* stream: of the group, the anchor's number and the B's sent
  due,            \* stream: the pieces of the current picture still to come
  bits,           \* reorder_pictures: the parts the buffers hold
  buffer,         \* reorder_buffer
  out,            \* the pieces written to the device
  lost            \* history: a field did not arrive

ccVars == <<shown, group, due, bits, buffer, out, lost>>

NoPiece == [pic |-> 0, part |-> "frame"]

CcTypeOK ==
  /\ shown \in 0 .. MaxPictures
  /\ group \in [anchor : 0 .. MaxPictures, sent : 0 .. MaxPictures]
  /\ due \in Seq(Pieces)
  /\ bits \in (SUBSET {"top", "bottom"}) \cup {{"frame"}}
  /\ buffer \in [{"top", "bottom"} -> Pieces]
  /\ out \in Seq(Pieces)
  /\ lost \in BOOLEAN

CcInit ==
  /\ shown = 0 /\ group = [anchor |-> 0, sent |-> 0] /\ due = <<>>
  /\ bits = {} /\ buffer = [f \in {"top", "bottom"} |-> NoPiece]
  /\ out = <<>> /\ lost = FALSE

-----------------------------------------------------------------------------
(* The next picture of the stream: a B picture of the group, or, when they *)
(* have all come, the anchor of the next group.                            *)
Picture(n) == {<<[pic |-> n, part |-> "frame"]>>,
               <<[pic |-> n, part |-> "top"], [pic |-> n, part |-> "bottom"]>>}

NextPicture ==
  /\ due = <<>>
  /\ IF shown + group.sent + 1 < group.anchor
     THEN /\ due' \in Picture(shown + group.sent + 1)
          /\ group' = [group EXCEPT !.sent = @ + 1]
          /\ UNCHANGED shown
     ELSE \E n \in 0 .. MaxB :
            /\ group.anchor + n + 1 <= MaxPictures
            /\ due' \in Picture(group.anchor + n + 1)
            /\ group' = [anchor |-> group.anchor + n + 1, sent |-> 0]
            /\ shown' = group.anchor
  /\ UNCHANGED <<bits, buffer, out, lost>>

Anchor(p) == p.pic = group.anchor

(* One field of an anchor does not arrive: the top one, or the bottom one  *)
(* after the top one has.                                                  *)
LoseField ==
  /\ due # <<>> /\ Anchor(Head(due))
  /\ Len(due) = 2 \/ buffer["top"] = [Head(due) EXCEPT !.part = "top"]
  /\ due' = Tail(due) /\ lost' = TRUE
  /\ UNCHANGED <<shown, group, bits, buffer, out>>

(* The flags as numbers: a frame is 4, a bottom field 2, a top field 1.    *)
Both == bits = {"frame"} \/ bits = {"top", "bottom"}

Frame1 == IF bits \cap {"frame", "top"} # {} THEN <<buffer["top"]>> ELSE <<>>
Field2 == IF "bottom" \in bits THEN <<buffer["bottom"]>> ELSE <<>>

(* Mutant: the second field of the last anchor is forgotten.               *)
DecodeFrameOnly(p) ==
  /\ out' = out \o Frame1
  /\ buffer' = [buffer EXCEPT !["top"] = p]
  /\ bits' = {"frame"}

(* aml_reorder_decode_cc_data, FRAME_PICTURE: what is kept is written,  *)
(* the top field first; the frame takes the place of the top field.        *)
DecodeFrame(p) ==
  /\ out' = out \o Frame1 \o Field2
  /\ buffer' = [buffer EXCEPT !["top"] = p]
  /\ bits' = {"frame"}

(* TOP_FIELD: when both fields are kept the top one makes room.            *)
DecodeTop(p) ==
  /\ out' = IF Both THEN Append(out, buffer["top"]) ELSE out
  /\ buffer' = [buffer EXCEPT !["top"] = p]
  /\ bits' = (IF Both THEN bits \cap {"bottom"} ELSE bits) \cup {"top"}

(* BOTTOM_FIELD: a frame, kept as a top field, or the bottom field does.   *)
DecodeBottom(p) ==
  /\ out' = IF Both THEN Append(out, buffer[IF bits = {"frame"} THEN "top" ELSE "bottom"])
                ELSE out
  /\ buffer' = [buffer EXCEPT !["bottom"] = p]
  /\ bits' = (IF Both THEN bits \cap {"top"} ELSE bits) \cup {"bottom"}

(* A B picture is written when both fields are kept; otherwise it is       *)
(* dropped with what is kept.                                              *)
ReceiveB ==
  /\ due # <<>> /\ ~Anchor(Head(due))
  /\ due' = Tail(due)
  /\ IF Both THEN out' = Append(out, Head(due)) /\ UNCHANGED bits
             ELSE bits' = {} /\ UNCHANGED out
  /\ UNCHANGED <<shown, group, buffer, lost>>

ReceiveAnchor ==
  /\ due # <<>> /\ Anchor(Head(due))
  /\ due' = Tail(due)
  /\ \/ Head(due).part = "frame"  /\ DecodeFrame(Head(due))
     \/ Head(due).part = "top"    /\ DecodeTop(Head(due))
     \/ Head(due).part = "bottom" /\ DecodeBottom(Head(due))
  /\ UNCHANGED <<shown, group, lost>>

CcNext == NextPicture \/ LoseField \/ ReceiveB \/ ReceiveAnchor

CcSpec == CcInit /\ [][CcNext]_ccVars

-----------------------------------------------------------------------------
Before(p, q) == p.pic < q.pic \/ (p.pic = q.pic /\ p.part = "top" /\ q.part = "bottom")

(* The device gets no piece twice and, as long as no field is lost, gets   *)
(* the data in display order, whatever the lengths of the groups and the   *)
(* mixture of frames and fields, without leaving out a picture or a field  *)
(* ("to convert picture user data from coded order to display order").     *)
DisplayOrder ==
  /\ \A i, j \in 1 .. Len(out) : out[i] = out[j] => i = j
  /\ ~lost => \A i \in 1 .. Len(out) - 1 :
                /\ Before(out[i], out[i + 1]) /\ out[i + 1].pic <= out[i].pic + 1
                /\ out[i].part = "top" \/ out[i + 1].part = "bottom" => out[i + 1].pic = out[i].pic
  /\ ~lost /\ out # <<>> => out[1].pic = 1
=============================================================================
