----------------------------- MODULE SectionAsm -----------------------------
(***************************************************************************)
(* How the software filters of am_dmx/dvr/dvr.c put sections together from *)
(* the payloads of TS packets: parse_sec and check_sec, one channel, with  *)
(* a filter that takes every section.                                      *)
(*                                                                         *)
(* The stream is sections one after the other.  A packet in which a        *)
(* section begins is marked, and its first byte is the number of bytes of  *)
(* the section before; a packet may end with stuffing.  Packets may be     *)
(* lost: the continuity counter is looked at, and nothing is done.         *)
(*                                                                         *)
(* A byte is the section it belongs to, its offset and its value; the      *)
(* length of what follows the first three bytes is in the second and the   *)
(* third.                                                                  *)
(***************************************************************************)
EXTENDS Integers, Sequences, SequencesExt

CONSTANTS
  Payloads,       \* the sizes of payloads
  SecLengths,     \* the lengths of sections
  MaxBegun,       \* bound: sections of the stream
  MaxGaps         \* bound: packets lost and streams changed

ASSUME SectionAsmAssumption ==
  /\ Payloads \subseteq Nat \ {0} /\ SecLengths \subseteq 3 .. 258
  /\ MaxBegun \in Nat /\ MaxGaps \in Nat

VARIABLES
  begun,          \* stream: sections begun
  section, sent,  \* stream: the last of them, and how much of it was sent
  gaps,           \* stream: packets lost and streams changed
  secBuf,         \* ch->buf up to ch->size
  given,          \* the sections the last packet gave to the filter
  owed,           \* history: those it should have: the sections that ended in
                  \* it, none of whose packets was lost
  intact,         \* history: no packet of the current section was lost, and its
                  \* first three bytes came in one packet
  doubt           \* history: whether ch->buf may hold bytes of no one section,
                  \* before the last packet and after it

secVars == <<begun, section, sent, gaps, secBuf, given, owed, intact, doubt>>

Values == 0 .. 255
SecBytes == [no : Nat, off : Nat, val : Values]

SectionAsmTypeOK ==
  /\ begun \in 0 .. MaxBegun /\ section \in Seq(SecBytes) /\ sent \in 0 .. Len(section)
  /\ gaps \in 0 .. MaxGaps /\ secBuf \in Seq(SecBytes)
  /\ given \in Seq(Seq(SecBytes)) /\ owed \in Seq(Seq(SecBytes))
  /\ intact \in BOOLEAN /\ doubt \in [before : BOOLEAN, after : BOOLEAN]

Stuffing == [no |-> 0, off |-> 0, val |-> 255]

(* Section no: its table, its length, and bytes of one value, which would  *)
(* be a short length or a long one.                                        *)
Section(no, len) ==
  [k \in 1 .. len |->
     [no |-> no, off |-> k, val |-> IF k = 3 THEN len - 3 ELSE IF k < 3 THEN 0 ELSE no % 2]]

Sections(no) == {Section(no, len) : len \in SecLengths}

(* The channel is found for a stream that is in the middle of a section.   *)
SectionAsmInit ==
  /\ begun = 0 /\ gaps = 0 /\ secBuf = <<>> /\ given = <<>> /\ owed = <<>>
  /\ section \in Sections(0) /\ sent \in 1 .. Len(section)
  /\ intact = FALSE /\ doubt = [before |-> TRUE, after |-> TRUE]

-----------------------------------------------------------------------------
(* check_sec and parse_sec, on a channel as a record: the buffer, the      *)
(* sections given, the number of bytes taken.                              *)

Lesser(a, b) == IF a < b THEN a ELSE b

(* The length a header says.                                               *)
Slen(b) == ((b[2].val * 256 + b[3].val) % 4096) + 3

(* check_sec with three bytes of the section in the buffer.                *)
Fill(ch, bytes) ==
  LET cpy == Lesser(Slen(ch.buf) - Len(ch.buf), Len(bytes))
      buf == ch.buf \o SubSeq(bytes, 1, cpy)
      end == Slen(ch.buf) = Len(buf)
  IN [buf |-> IF end THEN <<>> ELSE buf,
      out |-> IF end THEN Append(ch.out, buf) ELSE ch.out,
      at  |-> ch.at + cpy]

(* Fewer than three bytes are copied, but ch->size is not moved.           *)
CheckSec(ch, bytes) ==
  LET cpy == IF Len(ch.buf) < 3 THEN 3 - Len(ch.buf) ELSE 0
  IN IF Len(ch.buf) + Len(bytes) < 3
     THEN [buf |-> ch.buf, out |-> ch.out, at |-> ch.at + Len(bytes)]
     ELSE Fill([buf |-> ch.buf \o SubSeq(bytes, 1, cpy), out |-> ch.out, at |-> ch.at + cpy],
               SubSeq(bytes, cpy + 1, Len(bytes)))

(* Mutant: what comes before the pointer is not looked at.                 *)
CheckTailNot(ch, tail) == [buf |-> <<>>, out |-> ch.out, at |-> 0]

(* The bytes before the first section that begins: one call, and whatever  *)
(* it leaves in the buffer is forgotten.                                   *)
CheckTail(ch, tail) == [buf |-> <<>>, out |-> CheckSec(ch, tail).out, at |-> 0]

(* A turn of the loop over the rest, until stuffing follows a section.     *)
ParseTurn(c, bytes, n) ==
  IF c.at = Len(bytes) \/ (n > 1 /\ bytes[c.at + 1].val = 255) THEN c
  ELSE CheckSec(c, SubSeq(bytes, c.at + 1, Len(bytes)))

Parsed(ch, bytes) ==
  LET loop[n \in 0 .. Len(bytes)] == IF n = 0 THEN ch ELSE ParseTurn(loop[n - 1], bytes, n)
  IN loop[Len(bytes)]

Channel == [buf |-> secBuf, out |-> <<>>, at |-> 0]

-----------------------------------------------------------------------------
(* The stream.                                                             *)
StillToCome == SubSeq(section, sent + 1, Len(section))

Padded(bytes, n) == SubSeq(bytes \o [k \in 1 .. n |-> Stuffing], 1, n)

(* The sections that begin in a packet: none, one or two.                  *)
Beginnings ==
  {<<>>} \cup {<<s>> : s \in Sections(begun + 1)}
    \cup {<<s, t>> : s \in Sections(begun + 1), t \in Sections(begun + 2)}

(* parse_ts_packet with a payload of n bytes, or its loss.  room is what   *)
(* there is for sections; those of list begin, the last one may go on.     *)
TsPacket(n, list, lost) ==
  LET rest == StillToCome
      room == IF list = <<>> THEN n ELSE n - 1
      all  == rest \o FlattenSeq(list)
      body == Padded(all, room)
      ch   == IF list = <<>> THEN Parsed(Channel, body)
              ELSE Parsed(CheckTail(Channel, rest), SubSeq(body, Len(rest) + 1, room))
      ends == Len(all) <= room
      done == (IF rest # <<>> /\ intact /\ (ends \/ list # <<>>) THEN <<section>> ELSE <<>>)
              \o (IF ends \/ list = <<>> THEN list ELSE Front(list))
  IN /\ all # <<>>
     /\ list # <<>> => Len(rest \o FlattenSeq(Front(list))) < room
     /\ begun + Len(list) <= MaxBegun
     /\ gaps' = (IF lost THEN gaps + 1 ELSE gaps) /\ gaps' <= MaxGaps
     /\ begun' = begun + Len(list)
     /\ section' = IF list = <<>> THEN section ELSE Last(list)
     /\ sent' = IF ends THEN Len(section') ELSE Len(section') - (Len(all) - room)
     /\ secBuf' = IF lost THEN secBuf ELSE ch.buf
     /\ given' = IF lost THEN <<>> ELSE ch.out
     /\ owed' = IF lost THEN <<>> ELSE done
     /\ intact' = (~lost /\ IF list = <<>> THEN intact ELSE sent' >= 3)
     /\ doubt' = [before |-> doubt.after,
                  after |-> lost \/ IF list = <<>> THEN doubt.after ELSE sent' < 3]

(* The channel is freed, and found again for another stream:               *)
(* dvr_find_channel does not reset ch->size.                               *)
ChannelReused ==
  /\ begun < MaxBegun /\ begun' = begun + 1
  /\ gaps < MaxGaps /\ gaps' = gaps + 1
  /\ section' \in Sections(begun') /\ sent' \in 1 .. Len(section')
  /\ given' = <<>> /\ owed' = <<>> /\ intact' = FALSE
  /\ doubt' = [before |-> TRUE, after |-> TRUE]
  /\ UNCHANGED secBuf

SectionAsmNext ==
  \/ \E n \in Payloads, list \in Beginnings, lost \in BOOLEAN : TsPacket(n, list, lost)
  \/ ChannelReused

SectionAsmSpec == SectionAsmInit /\ [][SectionAsmNext]_secVars

-----------------------------------------------------------------------------
(* The filter gets every section whose packets have arrived, once, whole   *)
(* and when it ends, whatever was lost before and whatever a former stream *)
(* has left in the channel, unless its first three bytes were divided by   *)
(* the end of a packet.  It gets nothing else once a packet with the       *)
(* beginning of a section has come after the loss; before, and after       *)
(* divided bytes, it may get bytes that are no section.                    *)
SectionsWhole ==
  /\ IsSuffix(owed, given)
  /\ ~doubt.before => given = owed
=============================================================================
