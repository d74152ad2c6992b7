------------------------------- MODULE TsFile -------------------------------
(***************************************************************************)
(* The time shift file of am_av/aml/aml.c in its loop mode: a ring of size *)
(* bytes, spread over sub files, that the recorder writes and the player   *)
(* thread reads and seeks in.                                              *)
(*                                                                         *)
(* tfile->lock protects the counters; the reader keeps it while it reads   *)
(* the sub files, the writer does not hold it while it writes them and     *)
(* moves the counters afterwards.  The ring begins with the size of a sub  *)
(* file; when the bit rate is known its final size is set.                 *)
(*                                                                         *)
(* A byte is its number in the recorded stream.                            *)
(***************************************************************************)
EXTENDS Integers, Sequences

CONSTANTS
  SubSize,        \* SUB_FILE_SIZE
  RingSize,       \* rate * duration
  WriteSizes,     \* the sizes of the recorder's writes
  ReadSizes,      \* the sizes the player asks for
  MaxStream,      \* bound: bytes recorded
  NoJob

(* A write in progress: its bytes up to the ring's end, the rest, the      *)
(* number of both, and what is to be done next.                            *)
Jobs == [first : Seq(1 .. MaxStream), rest : Seq(1 .. MaxStream), done : Nat,
         step : {"first", "rest", "adjust"}]

ASSUME TsFileAssumption ==
  /\ SubSize \in Nat \ {0} /\ RingSize \in Nat \ {0} /\ MaxStream \in Nat
  /\ WriteSizes \subseteq 1 .. RingSize /\ ReadSizes \subseteq Nat \ {0}
  /\ NoJob \notin Jobs

VARIABLES
  size, start, read, write, avail, total,   \* the counters
  subs,           \* the sub files
  wat, rat,       \* the sub files written and read and the offsets in them
  job,            \* the write in progress
  fed,            \* bytes of the stream that were handed to the writer
  next,           \* history: the stream byte the reader is to get next
  adrift          \* history: an offset has left the place its counter says

counters == <<size, start, read, write, avail, total>>
disk     == <<subs, wat, rat>>
tsVars   == <<counters, disk, job, fed, next, adrift>>

Offsets == [sub : Nat \ {0}, at : Nat]
Begin   == [sub |-> 1, at |-> 0]

TsFileTypeOK ==
  /\ size \in {SubSize, RingSize}
  /\ start \in Nat /\ read \in Nat /\ write \in Nat /\ avail \in Nat /\ total \in Nat
  /\ subs \in Seq(Seq(1 .. MaxStream))
  /\ wat \in Offsets /\ rat \in Offsets
  /\ job \in Jobs \cup {NoJob}
  /\ fed \in 0 .. MaxStream /\ next \in 1 .. MaxStream + 1 /\ adrift \in BOOLEAN

(* aml_timeshift_file_open, a time shift recording.                        *)
TsFileInit ==
  /\ size = SubSize /\ start = 0 /\ read = 0 /\ write = 0 /\ avail = 0 /\ total = 0
  /\ subs = << <<>> >> /\ wat = Begin /\ rat = Begin
  /\ job = NoJob /\ fed = 0
  /\ next = 1 /\ adrift = FALSE

-----------------------------------------------------------------------------
Least(a, b) == IF a < b THEN a ELSE b

(* aml_timeshift_subfile_seek: where a ring position is looked for; the    *)
(* offset stays where it was when the sub file is not there yet.           *)
Seek(pos, old) ==
  IF pos \div SubSize + 1 <= Len(subs)
  THEN [sub |-> pos \div SubSize + 1, at |-> pos % SubSize] ELSE old

(* aml_timeshift_subfile_read: the next sub file is begun at the end of    *)
(* one; a read ends at the end of a sub file.                              *)
ReadFrom(o) ==
  IF o.at >= Len(subs[o.sub]) /\ o.sub < Len(subs) THEN [sub |-> o.sub + 1, at |-> 0] ELSE o

SubRead(o, n) ==
  LET from == ReadFrom(o)
  IN SubSeq(subs[from.sub], from.at + 1, Least(from.at + n, Len(subs[from.sub])))

After(o, bytes) ==
  IF bytes = <<>> THEN ReadFrom(o) ELSE [ReadFrom(o) EXCEPT !.at = @ + Len(bytes)]

(* aml_timeshift_subfile_write: a sub file that has reached its size is    *)
(* left for the next one, made when there is none.                         *)
WriteTo(o) == IF o.at >= SubSize THEN [sub |-> o.sub + 1, at |-> 0] ELSE o

Overwritten(file, at, bytes) ==
  SubSeq(file, 1, at) \o bytes \o SubSeq(file, at + Len(bytes) + 1, Len(file))

SubWrite(bytes) ==
  LET to   == WriteTo(wat)
      more == IF to.sub > Len(subs) THEN Append(subs, <<>>) ELSE subs
  IN /\ subs' = [more EXCEPT ![to.sub] = Overwritten(@, to.at, bytes)]
     /\ wat' = [to EXCEPT !.at = @ + Len(bytes)]

(* A write that begins in a sub file and ends behind its size.             *)
Straddles(bytes) == WriteTo(wat).at + Len(bytes) > SubSize

-----------------------------------------------------------------------------
(* The recorder: aml_timeshift_fill_data and aml_timeshift_file_write.     *)

(* The bit rate is known: the ring gets its size.  The first three seconds *)
(* of the stream fit in a sub file, and in the ring.                       *)
GotRate ==
  /\ job = NoJob /\ size # RingSize
  /\ total < RingSize /\ total > 0
  /\ size' = RingSize
  /\ UNCHANGED <<start, read, write, avail, total, disk, job, fed, next, adrift>>

(* The counters are read, the piece up to the ring's end is split off.     *)
WriteBegin(n) ==
  /\ job = NoJob /\ fed + n <= MaxStream
  /\ size = RingSize \/ total + n < SubSize
  /\ LET bytes == [i \in 1 .. n |-> fed + i]
         split == IF write + n > size THEN size - write ELSE 0
     IN job' = [first |-> SubSeq(bytes, 1, split), rest |-> SubSeq(bytes, split + 1, n), done |-> n,
                step |-> IF split > 0 THEN "first" ELSE "rest"]
  /\ fed' = fed + n
  /\ UNCHANGED <<counters, disk, next, adrift>>

WriteFirst ==
  /\ job # NoJob /\ job.step = "first"
  /\ SubWrite(job.first)
  /\ adrift' = (adrift \/ Straddles(job.first))
  /\ job' = [job EXCEPT !.step = "rest"]
  /\ UNCHANGED <<counters, rat, fed, next>>

(* Mutant: the file is not rewound before the second piece.                *)
WriteRestOn ==
  /\ job # NoJob /\ job.step = "rest"
  /\ SubWrite(job.rest)
  /\ adrift' = (adrift \/ Straddles(job.rest))
  /\ job' = [job EXCEPT !.step = "adjust"]
  /\ UNCHANGED <<counters, rat, fed, next>>

(* The file is rewound when there was a first piece, but not when the last *)
(* write ended exactly at the ring's end.                                  *)
WriteRest ==
  /\ job # NoJob /\ job.step = "rest"
  /\ IF job.first = <<>>
     THEN SubWrite(job.rest) /\ adrift' = (adrift \/ Straddles(job.rest) \/ (write = 0 /\ wat # Begin))
     ELSE /\ subs' = [subs EXCEPT ![1] = Overwritten(@, 0, job.rest)]
          /\ wat' = [sub |-> 1, at |-> Len(job.rest)]
          /\ adrift' = (adrift \/ Len(job.rest) > SubSize)
  /\ job' = [job EXCEPT !.step = "adjust"]
  /\ UNCHANGED <<counters, rat, fed, next>>

(* The counters after a write.  When it has run over bytes not read, the   *)
(* oldest byte is the next to be read, but rfd is not moved there.         *)
Adjust ==
  /\ job # NoJob /\ job.step = "adjust"
  /\ write' = (write + job.done) % size
  /\ read' = IF job.done > size - avail THEN write' ELSE read
  /\ start' = IF job.done > size - total THEN write' ELSE start
  /\ avail' = Least(avail + job.done, size)
  /\ total' = Least(total + job.done, size)
  /\ adrift' = (adrift \/ job.done > size - avail)
  /\ job' = NoJob
  /\ UNCHANGED <<size, disk, fed, next>>

-----------------------------------------------------------------------------
(* The player: aml_timeshift_file_read and aml_timeshift_file_seek.        *)

Todo(n)  == Least(n, avail)
Split(n) == IF read + Todo(n) > size THEN size - read ELSE 0

(* What a read of n bytes returns, and where it leaves rfd.                *)
First(n) == IF Split(n) > 0 THEN SubRead(rat, Split(n)) ELSE <<>>
Short(n) == Len(First(n)) < Split(n)
Resumed(n) == IF Split(n) > 0 THEN Begin ELSE rat
Second(n)  == IF Short(n) THEN <<>> ELSE SubRead(Resumed(n), Todo(n) - Split(n))
Taken(n)   == First(n) \o Second(n)

(* With an empty ring the reader waits, 100 ms at most, and returns        *)
(* nothing.  The second piece alone counts when it is empty.               *)
Read(n) ==
  /\ avail > 0
  /\ rat' = IF Short(n) THEN After(rat, First(n)) ELSE After(Resumed(n), Second(n))
  /\ read' = IF Short(n) THEN read + Len(First(n))
             ELSE ((IF Split(n) > 0 THEN 0 ELSE read) + Len(Second(n))) % size
  /\ avail' = IF Short(n) \/ Second(n) # <<>> THEN avail - Len(Taken(n)) ELSE avail
  /\ next' = next + Len(Taken(n))
  /\ adrift' = (adrift \/ (read' = 0 /\ rat' # Begin))
  /\ UNCHANGED <<size, start, write, total, subs, wat, job, fed>>

(* The bytes of the stream the counters know of.                           *)
Kept == fed - (IF job = NoJob THEN 0 ELSE job.done)

(* To an offset from the oldest byte; one out of bounds is replaced by one *)
(* in bounds.  The caller seeks when the bit rate is known, so not in an   *)
(* empty file.                                                             *)
SeekTo(offset) ==
  /\ offset \in 0 .. total
  /\ read' = (start + offset) % size
  /\ avail' = total - offset
  /\ rat' = Seek(read', rat)
  /\ next' = Kept - total + offset + 1
  /\ adrift' = (adrift \/ read' \div SubSize + 1 > Len(subs))
  /\ UNCHANGED <<size, start, write, total, subs, wat, job, fed>>

TsFileNext ==
  \/ GotRate \/ (\E n \in WriteSizes : WriteBegin(n)) \/ WriteFirst \/ WriteRest \/ Adjust
  \/ (\E n \in ReadSizes : Read(n)) \/ (\E o \in 0 .. RingSize : SeekTo(o))

TsFileSpec == TsFileInit /\ [][TsFileNext]_tsVars

-----------------------------------------------------------------------------
(* The counters describe one ring at every moment, with the writer in the  *)
(* middle of a write, after it has run over the reader, after a seek and   *)
(* after the change of the size: from start total bytes are kept, from     *)
(* read avail of them are to be read, both end at write.                   *)
RingConsistent ==
  /\ size > 0 /\ start \in 0 .. size - 1 /\ read \in 0 .. size - 1 /\ write \in 0 .. size - 1
  /\ avail <= total /\ total <= size
  /\ (read + avail) % size = write
  /\ (start + total) % size = write

(* No byte still to be read is being overwritten.                          *)
Unharmed == job = NoJob \/ job.done <= size - avail

(* What the player would read is the stream, byte after byte, or from the  *)
(* byte it has sought: across sub files and the ring's end.  Unless rfd or *)
(* wfd has gone adrift: after an overrun, a write across the end of a sub  *)
(* file, a seek to a sub file that is not there yet, or a read or a write  *)
(* that has ended exactly at the ring's end.                               *)
ReadsInOrder ==
  ~adrift /\ Unharmed /\ avail > 0 =>
    \A n \in ReadSizes : /\ Taken(n) # <<>>
                         /\ Taken(n) = [i \in 1 .. Len(Taken(n)) |-> next + i - 1]

(* The ring of the time shift file, and what is read from it.              *)
ShiftKept == RingConsistent /\ ReadsInOrder
=============================================================================
