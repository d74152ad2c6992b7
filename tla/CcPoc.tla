-------------------------------- MODULE CcPoc --------------------------------
(***************************************************************************)
(* The caption data of an H.264 stream comes in coded order, each piece    *)
(* with the picture order count (poc) of its frame, and is written in      *)
(* display order: aml_h264_reorder_user_data keeps the last pieces in a    *)
(* list and, when it holds more than MAX_POC_CACHE, writes the one with    *)
(* the least poc before it adds the next.  A poc of 0 begins a new         *)
(* sequence: everything kept is written first.                             *)
(***************************************************************************)
EXTENDS Integers, Sequences, SequencesExt, FiniteSets

CONSTANTS
  MaxPocCache,    \* MAX_POC_CACHE
  Depth,          \* stream: frames that may precede in coded order and follow
                  \* in display order
  MaxPoc,         \* bound: frames of a sequence, numbered from 0
  MaxSequences    \* bound: sequences

ASSUME CcPocAssumption ==
  /\ MaxPocCache \in Nat /\ MaxPoc \in Nat /\ MaxSequences \in Nat
  /\ Depth \in 0 .. MaxPocCache

Frames == [sq : 1 .. MaxSequences, poc : 0 .. MaxPoc]

VARIABLES
  sq,             \* stream: the current sequence
  coded,          \* stream: the pocs of it that were received
  cache,          \* the list
  written         \* the frames whose data was written to the device

pocVars == <<sq, coded, cache, written>>

PocTypeOK ==
  /\ sq \in 0 .. MaxSequences /\ coded \subseteq 0 .. MaxPoc
  /\ cache \in Seq(Frames) /\ written \in Seq(Frames)

PocInit == sq = 0 /\ coded = {} /\ cache = <<>> /\ written = <<>>

-----------------------------------------------------------------------------
(* aml_h264_get_min_poc and the search of aml_h264_userdata_push: the      *)
(* first node with the least poc.                                          *)
Sooner(list, i, j) ==
  list[i].poc < list[j].poc \/ (list[i].poc = list[j].poc /\ i < j)

MinPoc(list) ==
  CHOOSE i \in DOMAIN list : \A j \in DOMAIN list \ {i} : Sooner(list, i, j)

(* The orders in which the nodes are written until none is left: the       *)
(* soonest first.                                                          *)
Flushes(list) ==
  {p \in Bijection(DOMAIN list, DOMAIN list) :
     \A i, j \in DOMAIN list : i < j => Sooner(list, p[i], p[j])}

(* poc = 0: the first frame of a sequence.                                 *)
ReceiveIdr ==
  /\ sq < MaxSequences
  /\ sq' = sq + 1 /\ coded' = {0}
  /\ \E p \in Flushes(cache) :
       written' = written \o [i \in DOMAIN cache |-> cache[p[i]]]
  /\ cache' = <<[sq |-> sq', poc |-> 0]>>

Full == Len(cache) > MaxPocCache

(* A later frame: at most Depth frames came before it that follow it.      *)
ReceiveFrame ==
  /\ sq > 0
  /\ \E n \in (0 .. MaxPoc) \ coded :
       /\ Cardinality({c \in coded : c > n}) <= Depth
       /\ coded' = coded \cup {n}
       /\ IF Full
          THEN /\ written' = Append(written, cache[MinPoc(cache)])
               /\ cache' = Append(RemoveAt(cache, MinPoc(cache)), [sq |-> sq, poc |-> n])
          ELSE /\ cache' = Append(cache, [sq |-> sq, poc |-> n])
               /\ UNCHANGED written
  /\ UNCHANGED sq

PocNext == ReceiveIdr \/ ReceiveFrame

PocSpec == PocInit /\ [][PocNext]_pocVars

-----------------------------------------------------------------------------
Follows(g, f) == g.sq > f.sq \/ (g.sq = f.sq /\ g.poc > f.poc)

(* For a stream of at most MAX_POC_CACHE reordered frames the device gets  *)
(* the data in display order, also of the frames still kept, and every     *)
(* frame of a sequence that is over, once.                                 *)
PocOrder ==
  /\ \A i \in 1 .. Len(written) - 1 : Follows(written[i + 1], written[i])
  /\ written # <<>> => \A i \in DOMAIN cache : Follows(cache[i], written[Len(written)])
  /\ {f \in ToSet(written) \cup ToSet(cache) : f.sq = sq} = {[sq |-> sq, poc |-> n] : n \in coded}
=============================================================================
