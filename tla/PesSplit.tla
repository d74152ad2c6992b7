------------------------------ MODULE PesSplit ------------------------------
(***************************************************************************)
(* The parser of am_pes.c: AM_PES_Decode takes bytes as they come, keeps   *)
(* those of a packet that is not complete, and gives complete packets to   *)
(* a callback, whole or the payload alone.                                 *)
(*                                                                         *)
(* The bytes are those of a stream of units: packets with a length,        *)
(* packets without, which end where the next begins, and bytes of none.    *)
(* A start code stands only where a packet begins or within one of a       *)
(* length, the headers are not longer than their packets, and a packet of  *)
(* the length 65535 is decoded for its payload only: the parser does not   *)
(* look.  parser->buf is the stream from an offset on.                     *)
(***************************************************************************)
EXTENDS Integers, Sequences, SequencesExt, FiniteSetsExt

CONSTANTS
  PesUnits,       \* units a stream is made of: sequences of bytes
  MaxUnits,       \* bound: units of a stream
  MaxChunk        \* bound: bytes of a call

(* Offsets count from 0.                                                   *)
StartsPes(bytes, i) == bytes[i + 1] = 0 /\ bytes[i + 2] = 0 /\ bytes[i + 3] = 1
PesLength(bytes, i) == bytes[i + 5] * 256 + bytes[i + 6]
AllOnes == 65535
NoLength(n) == n \in {0, AllOnes}

IsPacket(unit) == Len(unit) >= 9 /\ StartsPes(unit, 0)
Bounded(unit) == ~NoLength(PesLength(unit, 0))

ASSUME PesAssumption ==
  /\ PesUnits \subseteq Seq(0 .. 255) /\ MaxUnits \in Nat /\ MaxChunk \in Nat \ {0}
  /\ \A u \in PesUnits : IsPacket(u) /\ Bounded(u) => Len(u) = PesLength(u, 0) + 6

VARIABLES
  units,          \* the stream, as its units
  payloadOnly,    \* para.payload_only
  pesFed,         \* bytes given to the parser
  pesBase,        \* offset of parser->buf in the stream; len is the rest of pesFed
  packets         \* history: what the callback was given, as offset and length

pesVars == <<units, payloadOnly, pesFed, pesBase, packets>>

Stream == FlattenSeq(units)

PesTypeOK ==
  /\ units \in Seq(PesUnits) /\ payloadOnly \in BOOLEAN
  /\ pesFed \in 0 .. Len(Stream) /\ pesBase \in 0 .. pesFed
  /\ \A k \in DOMAIN packets : packets[k] \in [at : Nat, len : Nat]

-----------------------------------------------------------------------------
(* The parser, on a stream s of which the first end bytes have come.       *)

(* The start codes from offset i on with two bytes after them.             *)
Found(s, i, end) == {j \in i .. end - 5 : StartsPes(s, j)}

(* calc_mpeg1_pes_offset: stuffing, the buffer size, the time stamps.      *)
Mpeg1Header(s, i, plen) ==
  LET Byte(k) == s[i + k + 1]
      past == {k \in 6 .. plen - 1 : Byte(k) # 255}
      stuffed == IF past = {} THEN (IF plen > 6 THEN plen ELSE 6) ELSE Min(past)
      sized == IF Byte(stuffed) \div 64 = 1 THEN stuffed + 2 ELSE stuffed
  IN IF stuffed >= plen THEN stuffed
     ELSE sized + (CASE Byte(sized) \div 16 = 2 -> 5
                     [] Byte(sized) \div 16 = 3 -> 10
                     [] OTHER -> 1)

(* The payload of the packet at i with a length.                           *)
Payload(s, i, plen) ==
  LET hlen == IF s[i + 7] \div 64 = 2 THEN 9 + s[i + 9] ELSE Mpeg1Header(s, i, plen)
  IN [at |-> i + hlen, len |-> plen + 6 - hlen]

(* calc_invalid_pes_offset: the payload of one without, up to the start    *)
(* code at j; nothing when its header is not complete there.               *)
PayloadUpTo(s, i, j) ==
  LET hlen == 9 + s[i + 9]
  IN IF j - i < hlen THEN [at |-> j, len |-> 0] ELSE [at |-> i + hlen, len |-> j - i - hlen]

(* One turn of the loop of AM_PES_Decode, on a parser as a record: the     *)
(* position, the packets given, whether it has ended.                      *)
PesTurn(s, only, p, end) ==
  LET i == Min(Found(s, p.pos, end))
      plen == PesLength(s, i)
      nexts == Found(s, i + 6, end)
      Stop(pos) == [pos |-> pos, out |-> p.out, over |-> TRUE]
      Give(packet, pos) == [pos |-> pos, out |-> Append(p.out, packet), over |-> pos >= end]
  IN IF Found(s, p.pos, end) = {} THEN Stop(p.pos)
     ELSE IF end - i < 6 THEN Stop(i)
     ELSE IF ~NoLength(plen)
     THEN IF end - i < plen + 6 THEN Stop(i)
          ELSE Give(IF only THEN Payload(s, i, plen) ELSE [at |-> i, len |-> plen + 6], i + plen + 6)
     ELSE IF ~only THEN Give([at |-> i, len |-> plen + 6], i + plen + 6)
     ELSE IF nexts = {} THEN Stop(i)
     ELSE Give(PayloadUpTo(s, i, Min(nexts)), Min(nexts))

(* The loop of AM_PES_Decode from offset base on, until it ends.           *)
Decoded(s, only, base, end) ==
  LET loop[n \in 0 .. end + 1] ==
        IF n = 0 THEN [pos |-> base, out |-> <<>>, over |-> FALSE]
        ELSE LET p == loop[n - 1] IN IF p.over THEN p ELSE PesTurn(s, only, p, end)
  IN loop[end + 1]

(* AM_PES_Decode with the next bytes of the stream.                        *)
PesDecode ==
  /\ \E n \in 1 .. MaxChunk : pesFed + n <= Len(Stream) /\ pesFed' = pesFed + n
  /\ LET p == Decoded(Stream, payloadOnly, pesBase, pesFed')
     IN pesBase' = p.pos /\ packets' = packets \o p.out
  /\ UNCHANGED <<units, payloadOnly>>

PesNext == PesDecode

-----------------------------------------------------------------------------
(* The stream us, as its units.                                            *)

(* Where unit k begins.                                                    *)
UnitAt(us, k) == Len(FlattenSeq(SubSeq(us, 1, k - 1)))

PacketsOf(us) == {k \in DOMAIN us : IsPacket(us[k])}

(* Where the first packet after unit k begins, or the end of the stream.   *)
NextAt(us, k) ==
  LET after == {j \in PacketsOf(us) : j > k}
  IN IF after = {} THEN Len(FlattenSeq(us)) ELSE UnitAt(us, Min(after))

(* The bytes of a packet in which it does not matter what they are: all of *)
(* them when it has a length, or its first six.                            *)
Extent(unit) == IF Bounded(unit) THEN Len(unit) ELSE 6

(* Whether the first end bytes show where packet k ends: all of it when it *)
(* has a length; one without is known to end by the five first bytes of    *)
(* the next one, or is taken to be its six first bytes where packets are   *)
(* given whole.                                                            *)
Ended(us, only, k, end) ==
  IF only /\ ~Bounded(us[k])
  THEN NextAt(us, k) < Len(FlattenSeq(us)) /\ end >= NextAt(us, k) + 5
  ELSE end >= UnitAt(us, k) + Extent(us[k])

(* What the callback should be given of packet k.                          *)
Due(us, only, k) ==
  LET s == FlattenSeq(us)
      i == UnitAt(us, k)
  IN IF ~only THEN [at |-> i, len |-> PesLength(us[k], 0) + 6]
     ELSE IF Bounded(us[k]) THEN Payload(s, i, PesLength(us[k], 0))
     ELSE PayloadUpTo(s, i, NextAt(us, k))

(* The streams the parser is made for.                                     *)
CodesWithin(us) ==
  \A j \in 0 .. Len(FlattenSeq(us)) - 3 :
    StartsPes(FlattenSeq(us), j) =>
      \E k \in PacketsOf(us) : j - UnitAt(us, k) \in 0 .. Extent(us[k]) - 1

Fits(us, only, k) ==
  /\ only /\ Bounded(us[k]) => Due(us, only, k).len >= 0
  /\ ~only => PesLength(us[k], 0) # AllOnes

Decodable(us, only) == CodesWithin(us) /\ \A k \in PacketsOf(us) : Fits(us, only, k)

(* AM_PES_Create, and the stream to come.                                  *)
PesInit ==
  /\ units \in BoundedSeq(PesUnits, MaxUnits) /\ payloadOnly \in BOOLEAN
  /\ Decodable(units, payloadOnly)
  /\ pesFed = 0 /\ pesBase = 0 /\ packets = <<>>

PesSpec == PesInit /\ [][PesNext]_pesVars

(* However the stream is cut into calls, in the middle of a start code or  *)
(* of a length, the callback is given every packet whose end has come, in  *)
(* order, once, and nothing else.                                          *)
PacketsWhole ==
  packets =
    [n \in 1 .. Cardinality({k \in PacketsOf(units) : Ended(units, payloadOnly, k, pesFed)}) |->
       Due(units, payloadOnly,
           CHOOSE k \in PacketsOf(units) : n = Cardinality({j \in PacketsOf(units) : j <= k}))]
=============================================================================
