---------------------------- MODULE MediaProofs ----------------------------
(***************************************************************************)
(* Theorems about the data of a program on their way through the library,  *)
(* for every value of the constants of their modules: the captions, which  *)
(* come into display order and wait in a ring for their readers, and the   *)
(* file of a time shift.                                                   *)
(***************************************************************************)
EXTENDS
  UserData, Captions, TsFile, FiniteSetTheorems, SequenceTheorems, WellFoundedInduction, TLAPS

-----------------------------------------------------------------------------
(* UserData: how positions in the ring add up.                             *)
LEMMA AheadCell ==
  ASSUME NEW p \in Cells, NEW c \in Cells
  PROVE  /\ Ahead(p, c) \in 0 .. Size - 1 /\ Ahead(p, p) = 0
         /\ Wrap(p + Ahead(p, c)) = c
BY UserDataAssumption DEF Cells, Ahead, Wrap

LEMMA WrapAhead ==
  ASSUME NEW p \in Cells, NEW c \in Cells, NEW n \in Nat, Ahead(p, c) + n < Size
  PROVE  Wrap(c + n) \in Cells /\ Ahead(p, Wrap(c + n)) = Ahead(p, c) + n
BY UserDataAssumption DEF Cells, Ahead, Wrap

LEMMA WrapCell ==
  ASSUME NEW c \in Cells, NEW n \in 0 .. Size
  PROVE  Wrap(c + n) \in Cells
BY UserDataAssumption DEF Cells, Wrap

(* Seen from a cell further on what lies behind it comes nearer, and what  *)
(* lies before it is a turn away.                                          *)
LEMMA AheadFrom ==
  ASSUME NEW p \in Cells, NEW q \in Cells, NEW c \in Cells
  PROVE  /\ Ahead(p, q) <= Ahead(p, c) => Ahead(q, c) = Ahead(p, c) - Ahead(p, q)
         /\ Ahead(p, c) < Ahead(p, q) => Ahead(q, c) = Ahead(p, c) - Ahead(p, q) + Size
BY UserDataAssumption DEF Cells, Ahead

Queued == [no : Nat, len : Lengths, pos : Cells]

(* The inductive invariant: the packages in the ring, each behind the ones *)
(* before it and in front of pwrite.                                       *)
RingInv ==
  /\ data \in [Cells -> Bytes] /\ pread \in Cells /\ pwrite \in Cells
  /\ num \in Nat /\ queue \in Seq(Queued)
  /\ Framed
  /\ \A i \in 1 .. Len(queue) : End(queue[i]) <= Avail
  /\ \A i, j \in 1 .. Len(queue) : i < j => End(queue[i]) <= Ahead(pread, queue[j].pos)

LEMMA InitRingInv == UdInit => RingInv
<1>. SUFFICES ASSUME UdInit PROVE RingInv OBVIOUS
<1>1. Junk \in Bytes BY DEF Junk, Bytes
<1>2. 0 \in Cells BY UserDataAssumption DEF Cells
<1>. QED BY <1>1, <1>2 DEF UdInit, RingInv, Framed

(* A package is written behind the others, and over none of them.          *)
LEMMA StoredKeepsRingInv ==
  ASSUME RingInv, NEW len \in Lengths, Free >= len + Header, num' = num + 1,
         data' = Stored(pwrite, Frame(num', len)), pwrite' = Wrap(pwrite + Header + len),
         queue' = Append(queue, [no |-> num', len |-> len, pos |-> pwrite]), pread' = pread
  PROVE  RingInv'
<1>0. /\ len \in Nat /\ len > 0 /\ Header = 4 /\ Size \in Nat \ {0}
      /\ pread \in Cells /\ pwrite \in Cells /\ queue \in Seq(Queued) /\ num \in Nat
      /\ Framed
  BY UserDataAssumption DEF Header, RingInv
<1>1. Avail \in Nat /\ Avail + Header + len < Size
  BY <1>0 DEF Free, Avail, Ahead, Cells
<1>2. pwrite' \in Cells /\ Avail' = Avail + Header + len
  <2>1. pwrite + (Header + len) = pwrite + Header + len BY <1>0 DEF Cells
  <2>2. Header + len \in Nat /\ Ahead(pread, pwrite) + (Header + len) < Size
    BY <1>0, <1>1 DEF Avail
  <2>. QED BY <1>0, <1>1, <2>1, <2>2, WrapAhead DEF Avail
<1>3. PICK bytes : bytes = Frame(num', len) OBVIOUS
<1>4. /\ bytes \in [1 .. Header + len -> Bytes] /\ Len(bytes) = Header + len
      /\ \A k \in 1 .. Header + len : bytes[k] = [no |-> num', off |-> k, len |-> len]
  BY <1>0, <1>3 DEF Frame, Bytes
<1>5. data' \in [Cells -> Bytes]
  <2>1. \A c \in Cells : Ahead(pwrite, c) < Len(bytes) => Ahead(pwrite, c) + 1 \in 1 .. Header + len
    BY <1>0, <1>4, AheadCell
  <2>2. \A c \in Cells : data[c] \in Bytes BY DEF RingInv
  <2>3. data' = [c \in Cells |-> IF Ahead(pwrite, c) < Len(bytes)
                                 THEN bytes[Ahead(pwrite, c) + 1] ELSE data[c]]
    BY <1>3 DEF Stored
  <2>. QED BY <1>4, <2>1, <2>2, <2>3
<1>6. PICK new \in Queued : new = [no |-> num', len |-> len, pos |-> pwrite]
  BY <1>0 DEF Queued
<1>7. /\ queue' = Append(queue, new) /\ queue' \in Seq(Queued) /\ Len(queue') = Len(queue) + 1
      /\ Len(queue) \in Nat /\ queue'[Len(queue) + 1] = new
      /\ \A i \in 1 .. Len(queue) : queue'[i] = queue[i] /\ queue[i] \in Queued
  BY <1>0, <1>6
<1>8. \A i \in 1 .. Len(queue) : /\ Ahead(pread, queue[i].pos) \in Nat /\ queue[i].len \in Nat
                                 /\ queue[i].pos \in Cells
                                 /\ Ahead(pread, queue[i].pos) + Header + queue[i].len <= Avail
  <2>. SUFFICES ASSUME NEW i \in 1 .. Len(queue)
                PROVE  /\ Ahead(pread, queue[i].pos) \in Nat /\ queue[i].len \in Nat
                       /\ queue[i].pos \in Cells
                       /\ Ahead(pread, queue[i].pos) + Header + queue[i].len <= Avail
    OBVIOUS
  <2>1. queue[i].pos \in Cells /\ queue[i].len \in Nat
    BY <1>7, UserDataAssumption DEF Queued
  <2>2. Ahead(pread, queue[i].pos) \in Nat BY <1>0, <2>1, AheadCell
  <2>. QED BY <2>1, <2>2 DEF RingInv, End
<1>9. FrameAt(new)'
  <2>. SUFFICES ASSUME NEW k \in 1 .. Header + len
                PROVE  data'[Wrap(pwrite + k - 1)] = [no |-> num', off |-> k, len |-> len]
    BY <1>6 DEF FrameAt, Header
  <2>1. PICK m \in Nat : m = k - 1 /\ m < Header + len /\ m < Size BY <1>0, <1>1
  <2>2. pwrite + k - 1 = pwrite + m BY <1>0, <2>1 DEF Cells
  <2>3. Wrap(pwrite + m) \in Cells /\ Ahead(pwrite, Wrap(pwrite + m)) = m
    BY <1>0, <2>1, WrapAhead, AheadCell
  <2>. QED BY <1>3, <1>4, <2>1, <2>2, <2>3 DEF Stored
<1>10. ASSUME NEW i \in 1 .. Len(queue) PROVE FrameAt(queue[i])'
  <2>0. PICK q : q = queue[i] OBVIOUS
  <2>1. /\ q.pos \in Cells /\ q.len \in Nat /\ Ahead(pread, q.pos) \in Nat
        /\ Ahead(pread, q.pos) + Header + q.len <= Avail
    BY <1>8, <2>0
  <2>2. FrameAt(q) BY <1>0, <2>0 DEF Framed
  <2>. SUFFICES ASSUME NEW k \in 1 .. Header + queue'[i].len
                PROVE  data'[Wrap(queue'[i].pos + k - 1)]
                         = [no |-> queue'[i].no, off |-> k, len |-> queue'[i].len]
    BY <1>7 DEF FrameAt, Header
  <2>3. queue'[i] = q BY <1>7, <2>0
  <2>4. PICK m \in Nat : m = k - 1 /\ m < Header + q.len
    <3>1. k \in 1 .. Header + q.len BY <2>3
    <3>2. Header + q.len \in Nat BY <1>0, <2>1
    <3>. QED BY ONLY <3>1, <3>2
  <2>5. q.pos + k - 1 = q.pos + m BY <2>1, <2>4 DEF Cells
  <2>6. PICK c : c = Wrap(q.pos + m) OBVIOUS
  <2>7. c \in Cells /\ Ahead(pread, c) = Ahead(pread, q.pos) + m
    <3>1. Ahead(pread, q.pos) + m < Size BY <1>0, <1>1, <2>1, <2>4, SMTT(30)
    <3>. QED BY <1>0, <2>1, <2>4, <2>6, <3>1, WrapAhead
  <2>8. Ahead(pread, c) < Avail BY <1>0, <1>1, <2>1, <2>4, <2>7
  <2>9. Ahead(pwrite, c) = Ahead(pread, c) - Avail + Size
    BY <1>0, <2>7, <2>8, AheadFrom DEF Avail
  <2>10. ~(Ahead(pwrite, c) < Len(bytes)) BY <1>0, <1>1, <1>4, <2>1, <2>4, <2>7, <2>9
  <2>11. data'[c] = data[c] BY <1>3, <2>7, <2>10 DEF Stored
  <2>12. data[c] = [no |-> q.no, off |-> k, len |-> q.len]
    BY <2>2, <2>3, <2>5, <2>6 DEF FrameAt
  <2>. QED BY <2>3, <2>5, <2>6, <2>11, <2>12
<1>11. End(new)' = Avail' /\ new.pos = pwrite /\ Ahead(pread, new.pos) = Avail
  BY <1>0, <1>1, <1>2, <1>6 DEF End, Header, Avail
<1>12. PICK n \in Nat : n = Len(queue) BY <1>7
<1>13. \A i \in 1 .. n : End(queue[i])' = End(queue[i])
  <2>1. \A i \in 1 .. n : queue'[i].pos = queue[i].pos /\ queue'[i].len = queue[i].len
    BY <1>7, <1>12
  <2>. QED BY <2>1 DEF End, Header
<1>14. Framed'
  <2>1. queue' # <<>> BY <1>7, <1>12
  <2>2. queue'[1].pos = pread'
    <3>1. CASE queue = <<>>
      <4>1. pread = pwrite /\ Len(queue) = 0 BY <1>0, <3>1 DEF Framed
      <4>. QED BY <1>6, <1>7, <4>1
    <3>2. CASE queue # <<>>
      <4>1. queue[1].pos = pread /\ 1 \in 1 .. Len(queue) BY <1>0, <3>2 DEF Framed
      <4>. QED BY <1>7, <1>12, <4>1
    <3>. QED BY <3>1, <3>2
  <2>3. End(queue[Len(queue)])' = Avail' BY <1>7, <1>11, <1>12 DEF End, Header
  <2>4. \A i \in 1 .. Len(queue') : FrameAt(queue[i])'
    <3>1. \A i \in 1 .. n : FrameAt(queue[i])'
      BY <1>7, <1>10, <1>12
    <3>2. FrameAt(queue[n + 1])' BY <1>7, <1>9, <1>12 DEF FrameAt, Header
    <3>. QED BY <1>7, <1>12, <3>1, <3>2
  <2>5. ASSUME NEW i \in 1 .. Len(queue') - 1
        PROVE  Ahead(pread, queue'[i + 1].pos) = End(queue[i])'
    <3>1. CASE i = n
      <4>1. queue # <<>> /\ i \in 1 .. n BY <1>7, <1>12, <3>1
      <4>2. End(queue[n]) = Avail BY <1>0, <1>12, <4>1 DEF Framed
      <4>. QED BY <1>7, <1>11, <1>12, <1>13, <3>1, <4>1, <4>2
    <3>2. CASE i # n
      <4>1. i \in 1 .. n - 1 /\ i \in 1 .. n /\ i + 1 \in 1 .. n BY <1>7, <1>12, <3>2
      <4>2. Ahead(pread, queue[i + 1].pos) = End(queue[i]) BY <1>0, <1>12, <4>1 DEF Framed
      <4>. QED BY <1>7, <1>12, <1>13, <4>1, <4>2
    <3>. QED BY <3>1, <3>2
  <2>. QED BY <2>1, <2>2, <2>3, <2>4, <2>5 DEF Framed
<1>15. ASSUME NEW i \in 1 .. Len(queue') PROVE End(queue[i])' <= Avail'
  <2>1. CASE i = n + 1 BY <1>0, <1>1, <1>2, <1>7, <1>11, <1>12, <2>1
  <2>2. CASE i # n + 1
    <3>1. i \in 1 .. n BY <1>7, <1>12, <2>2
    <3>2. End(queue[i]) = Ahead(pread, queue[i].pos) + Header + queue[i].len BY DEF End
    <3>. QED BY <1>0, <1>1, <1>2, <1>8, <1>12, <1>13, <3>1, <3>2
  <2>. QED BY <2>1, <2>2
<1>16. ASSUME NEW i \in 1 .. Len(queue'), NEW j \in 1 .. Len(queue'), i < j
       PROVE  End(queue[i])' <= Ahead(pread', queue'[j].pos)
  <2>1. i \in 1 .. n BY <1>7, <1>12, <1>16
  <2>2. CASE j = n + 1
    BY <1>7, <1>11, <1>12, <1>13, <2>1, <2>2 DEF RingInv
  <2>3. CASE j # n + 1
    <3>1. j \in 1 .. n BY <1>7, <1>12, <2>3
    <3>. QED BY <1>7, <1>12, <1>13, <1>16, <2>1, <3>1 DEF RingInv
  <2>. QED BY <2>2, <2>3
<1>17. num' \in Nat BY <1>0
<1>. QED BY <1>0, <1>2, <1>5, <1>7, <1>14, <1>15, <1>16, <1>17 DEF RingInv

LEMMA WrapTwice ==
  ASSUME NEW p \in Cells, NEW m \in Nat, NEW n \in Nat, m + n < Size
  PROVE  Wrap(Wrap(p + m) + n) = Wrap(p + (m + n))
BY UserDataAssumption DEF Cells, Wrap

LEMMA QueuedFields ==
  ASSUME NEW q \in Queued
  PROVE  q.pos \in Cells /\ q.len \in Nat /\ q.len > 0
<1>1. q.pos \in Cells /\ q.len \in Lengths BY DEF Queued
<1>2. q.len \in Nat \ {0} BY <1>1, UserDataAssumption
<1>. QED BY <1>1, <1>2

(* The bytes of a package behind its length, as they are handed out.       *)
Content(q) == [k \in 1 .. q.len |-> [no |-> q.no, off |-> Header + k, len |-> q.len]]

(* A read takes the first package, all of it: its length is read right,    *)
(* and the bytes are there.                                                *)
LEMMA ReadTakesFirst ==
  ASSUME RingInv, NEW r \in Readers, Avail > 0, PackageRead(r)
  PROVE  /\ queue # <<>> /\ queue[1] \in Queued /\ queue[1].pos = pread
         /\ Header + queue[1].len \in Nat /\ Header + queue[1].len <= Avail
         /\ pread' = Wrap(pread + (Header + queue[1].len)) /\ queue' = Tail(queue)
         /\ got' = IF queue[1].len <= BufSize[r] THEN [by |-> r, bytes |-> Content(queue[1])] ELSE got
<1>0. /\ Size \in Nat \ {0} /\ Header = 4 /\ pread \in Cells /\ pwrite \in Cells
      /\ queue \in Seq(Queued) /\ Framed
  BY UserDataAssumption DEF Header, RingInv
<1>1. queue # <<>>
  <2>1. Ahead(pread, pread) = 0 BY <1>0, AheadCell
  <2>. QED BY <1>0, <2>1 DEF Framed, Avail
<1>2. PICK h \in Queued : h = queue[1] /\ 1 \in 1 .. Len(queue) BY <1>0, <1>1
<1>3. h.pos = pread /\ FrameAt(h) BY <1>0, <1>1, <1>2 DEF Framed
<1>4. h.len \in Nat /\ h.len > 0 BY QueuedFields
<1>5. Avail \in 0 .. Size - 1 BY <1>0, AheadCell DEF Avail
<1>6. Header + h.len <= Avail
  <2>1. End(h) <= Avail BY <1>2 DEF RingInv
  <2>2. Ahead(pread, h.pos) = 0 BY <1>0, <1>3, AheadCell
  <2>. QED BY <1>0, <1>4, <2>1, <2>2 DEF End
<1>7. \A m \in 0 .. Header + h.len - 1 :
         data[Wrap(pread + m)] = [no |-> h.no, off |-> m + 1, len |-> h.len]
  <2>. SUFFICES ASSUME NEW m \in 0 .. Header + h.len - 1
                PROVE  data[Wrap(pread + m)] = [no |-> h.no, off |-> m + 1, len |-> h.len]
    OBVIOUS
  <2>1. m + 1 \in 1 .. Header + h.len BY <1>0, <1>4
  <2>2. h.pos + (m + 1) - 1 = pread + m BY <1>0, <1>3, <2>1 DEF Cells
  <2>. QED BY <1>3, <2>1, <2>2 DEF FrameAt
<1>8. Counts(pread) = {h.len}
  <2>1. PICK b : b = data[pread] OBVIOUS
  <2>2. b = [no |-> h.no, off |-> 1, len |-> h.len]
    <3>1. 0 \in 0 .. Header + h.len - 1 BY <1>0, <1>4
    <3>2. Wrap(pread + 0) = pread BY <1>0 DEF Wrap, Cells
    <3>. QED BY <1>7, <2>1, <3>1, <3>2
  <2>3. \A k \in 1 .. Header : data[Wrap(pread + k - 1)] = [b EXCEPT !.off = k]
    <3>. SUFFICES ASSUME NEW k \in 1 .. Header
                  PROVE  data[Wrap(pread + k - 1)] = [b EXCEPT !.off = k]
      OBVIOUS
    <3>1. PICK m \in 0 .. Header + h.len - 1 : m = k - 1 BY <1>0, <1>4
    <3>2. pread + k - 1 = pread + m /\ m + 1 = k BY <1>0, <3>1 DEF Cells
    <3>3. data[Wrap(pread + m)] = [no |-> h.no, off |-> k, len |-> h.len] BY <1>7, <3>2
    <3>. QED BY <2>2, <3>2, <3>3
  <2>4. Loaded(pread, Header) = [k \in 1 .. Header |-> [b EXCEPT !.off = k]]
    BY <2>3 DEF Loaded
  <2>. QED BY <2>1, <2>2, <2>4 DEF Counts
<1>9. PICK body : body = Wrap(pread + Header) OBVIOUS
<1>10. /\ pread' = Wrap(pread + (Header + h.len)) /\ queue' = Tail(queue)
       /\ got' = IF h.len <= BufSize[r] THEN [by |-> r, bytes |-> Loaded(body, h.len)] ELSE got
  <2>1. Avail > Header /\ Avail - Header >= h.len /\ Header + h.len > 0
    BY <1>0, <1>4, <1>5, <1>6
  <2>. QED BY <1>1, <1>8, <1>9, <2>1 DEF PackageRead
<1>11. Loaded(body, h.len) = Content(h)
  <2>1. ASSUME NEW k \in 1 .. h.len
        PROVE  data[Wrap(body + k - 1)] = [no |-> h.no, off |-> Header + k, len |-> h.len]
    <3>1. PICK m \in Nat : m = k - 1 /\ m < h.len BY <1>4
    <3>2. body \in Cells /\ body + k - 1 = body + m
      <4>1. body \in Cells BY <1>0, <1>4, <1>5, <1>6, <1>9, WrapCell
      <4>. QED BY <3>1, <4>1 DEF Cells
    <3>3. Wrap(body + m) = Wrap(pread + (Header + m))
      BY <1>0, <1>4, <1>5, <1>6, <1>9, <3>1, WrapTwice
    <3>4. Header + m \in 0 .. Header + h.len - 1 /\ (Header + m) + 1 = Header + k
      BY <1>0, <1>4, <3>1
    <3>. QED BY <1>7, <3>2, <3>3, <3>4
  <2>. QED BY <2>1 DEF Loaded, Content
<1>. QED BY <1>0, <1>1, <1>2, <1>3, <1>4, <1>6, <1>10, <1>11

(* The others keep their places.                                           *)
LEMMA ReadKeepsRingInv ==
  ASSUME RingInv, NEW r \in Readers, Avail > 0, PackageRead(r), UNCHANGED <<data, pwrite, num>>
  PROVE  RingInv'
<1>0. /\ Size \in Nat \ {0} /\ Header = 4 /\ pread \in Cells /\ pwrite \in Cells
      /\ queue \in Seq(Queued) /\ Framed /\ Avail \in 0 .. Size - 1
  <2>1. pread \in Cells /\ pwrite \in Cells BY DEF RingInv
  <2>. QED BY <2>1, UserDataAssumption, AheadCell DEF Header, RingInv, Avail
<1>1. PICK used \in Nat : used = Header + queue[1].len BY ReadTakesFirst
<1>2. /\ queue # <<>> /\ queue[1].pos = pread /\ used <= Avail
      /\ pread' = Wrap(pread + used) /\ queue' = Tail(queue)
  BY <1>1, ReadTakesFirst
<1>3. PICK n \in Nat : n = Len(queue) BY <1>0
<1>4. n > 0 /\ 1 \in 1 .. n BY <1>0, <1>2, <1>3
<1>5. /\ queue' \in Seq(Queued) /\ Len(queue') = n - 1
      /\ \A i \in 1 .. n - 1 : queue'[i] = queue[i + 1] /\ i + 1 \in 1 .. n
  BY <1>0, <1>2, <1>3, <1>4
<1>6. Ahead(pread, pread) = 0 BY <1>0, AheadCell
<1>7. pread' \in Cells /\ Ahead(pread, pread') = used
  BY <1>0, <1>2, <1>6, WrapAhead
<1>8. Avail' = Avail - used
  BY <1>0, <1>2, <1>7, AheadFrom DEF Avail
<1>9. End(queue[1]) = used BY <1>0, <1>1, <1>2, <1>6 DEF End
<1>10. \A i \in 1 .. n : queue[i].pos \in Cells /\ queue[i].len \in Nat
  <2>1. \A i \in 1 .. n : queue[i] \in Queued BY <1>0, <1>3
  <2>. QED BY <2>1, QueuedFields
<1>11. \A i \in 2 .. n : /\ i \in 1 .. n /\ Ahead(pread, queue[i].pos) \in Nat
                         /\ Ahead(pread', queue[i].pos) = Ahead(pread, queue[i].pos) - used
                         /\ End(queue[i]) = Ahead(pread, queue[i].pos) + Header + queue[i].len
                         /\ End(queue[i]) \in Nat
  <2>. SUFFICES ASSUME NEW i \in 2 .. n
                PROVE  /\ i \in 1 .. n /\ Ahead(pread, queue[i].pos) \in Nat
                       /\ Ahead(pread', queue[i].pos) = Ahead(pread, queue[i].pos) - used
                       /\ End(queue[i]) = Ahead(pread, queue[i].pos) + Header + queue[i].len
                       /\ End(queue[i]) \in Nat
    OBVIOUS
  <2>1. i \in 1 .. n /\ 1 < i BY <1>3
  <2>2. used <= Ahead(pread, queue[i].pos)
    BY <1>3, <1>4, <1>9, <2>1 DEF RingInv
  <2>3. Ahead(pread, queue[i].pos) \in Nat BY <1>0, <1>10, <2>1, AheadCell
  <2>4. Ahead(pread', queue[i].pos) = Ahead(pread, queue[i].pos) - used
    BY <1>0, <1>7, <1>10, <2>1, <2>2, AheadFrom
  <2>5. End(queue[i]) = Ahead(pread, queue[i].pos) + Header + queue[i].len BY DEF End
  <2>6. queue[i].len \in Nat BY <1>10, <2>1
  <2>. QED BY <1>0, <2>1, <2>3, <2>4, <2>5, <2>6
<1>12. \A i \in 1 .. n - 1 : End(queue[i])' = End(queue[i + 1]) - used
  <2>. SUFFICES ASSUME NEW i \in 1 .. n - 1 PROVE End(queue[i])' = End(queue[i + 1]) - used
    OBVIOUS
  <2>1. End(queue[i])' = Ahead(pread', queue[i + 1].pos) + Header + queue[i + 1].len
    BY <1>5 DEF End, Header
  <2>2. i + 1 \in 2 .. n BY <1>3
  <2>3. PICK q : q = queue[i + 1] OBVIOUS
  <2>4. q.len \in Nat BY <1>10, <1>11, <2>2, <2>3
  <2>5. /\ Ahead(pread, q.pos) \in Nat /\ Ahead(pread', q.pos) = Ahead(pread, q.pos) - used
        /\ End(q) = Ahead(pread, q.pos) + Header + q.len
    BY <1>11, <2>2, <2>3
  <2>6. End(queue[i])' = Ahead(pread', q.pos) + Header + q.len BY <2>1, <2>3
  <2>7. End(queue[i])' = End(q) - used BY <1>0, <2>4, <2>5, <2>6
  <2>. QED BY <2>3, <2>7
<1>13. ASSUME NEW i \in 1 .. n - 1 PROVE FrameAt(queue[i])'
  <2>1. FrameAt(queue[i + 1]) BY <1>0, <1>3, <1>5 DEF Framed
  <2>2. queue'[i] = queue[i + 1] /\ data' = data BY <1>5
  <2>. QED BY <2>1, <2>2 DEF FrameAt, Header
<1>14. Framed'
  <2>1. ASSUME queue' = <<>> PROVE pread' = pwrite'
    <3>0. Len(queue') = 0 /\ Len(queue') = n - 1 BY <1>5, <2>1
    <3>1. n = 1 BY <3>0
    <3>2. End(queue[1]) = Avail BY <1>0, <1>2, <1>3, <3>1 DEF Framed
    <3>3. Ahead(pread, pwrite) = Ahead(pread, pread') BY <1>7, <1>9, <3>2 DEF Avail
    <3>. QED BY <1>0, <1>7, <3>3, AheadCell
  <2>2. ASSUME queue' # <<>> PROVE queue'[1].pos = pread' /\ End(queue[Len(queue)])' = Avail'
    <3>1. n > 1 /\ 1 \in 1 .. n - 1 /\ n - 1 \in 1 .. n - 1 /\ (n - 1) + 1 = n
      BY <1>0, <1>3, <1>4, <1>5, <2>2
    <3>2. Ahead(pread, queue[2].pos) = used
      <4>1. Ahead(pread, queue[1 + 1].pos) = End(queue[1]) BY <1>0, <1>3, <3>1 DEF Framed
      <4>. QED BY <1>9, <4>1
    <3>3. queue'[1] = queue[2] /\ queue[2].pos \in Cells BY <1>5, <1>10, <3>1
    <3>4. Wrap(pread + used) = queue[2].pos BY <1>0, <3>2, <3>3, AheadCell
    <3>5. End(queue[n]) = Avail BY <1>0, <1>2, <1>3 DEF Framed
    <3>6. PICK k \in 1 .. n - 1 : k = n - 1 BY <3>1
    <3>7. End(queue[k])' = Avail' BY <1>8, <1>12, <3>1, <3>5, <3>6
    <3>8. k = Len(queue)' BY <1>5, <3>6
    <3>9. End(queue[Len(queue)])' = Avail' BY <3>7, <3>8 DEF End, Header
    <3>. QED BY <1>2, <3>3, <3>4, <3>9
  <2>3. \A i \in 1 .. Len(queue') : FrameAt(queue[i])' BY <1>5, <1>13
  <2>4. ASSUME NEW i \in 1 .. Len(queue') - 1
        PROVE  Ahead(pread', queue'[i + 1].pos) = End(queue[i])'
    <3>1. /\ i \in 1 .. n - 1 /\ i + 1 \in 1 .. n - 1 /\ i + 1 \in 2 .. n
          /\ (i + 1) + 1 \in 2 .. n
      BY <1>3, <1>5
    <3>2. Ahead(pread, queue[(i + 1) + 1].pos) = End(queue[i + 1])
      BY <1>0, <1>3, <3>1 DEF Framed
    <3>3. queue'[i + 1] = queue[(i + 1) + 1] BY <1>5, <3>1
    <3>. QED BY <1>11, <1>12, <3>1, <3>2, <3>3
  <2>. QED BY <2>1, <2>2, <2>3, <2>4 DEF Framed
<1>15. ASSUME NEW i \in 1 .. Len(queue') PROVE End(queue[i])' <= Avail'
  <2>1. i \in 1 .. n - 1 /\ i + 1 \in 1 .. n /\ i + 1 \in 2 .. n BY <1>3, <1>5
  <2>2. End(queue[i + 1]) <= Avail BY <1>3, <2>1 DEF RingInv
  <2>3. End(queue[i + 1]) \in Nat BY <1>11, <2>1
  <2>. QED BY <1>0, <1>8, <1>12, <2>1, <2>2, <2>3
<1>16. ASSUME NEW i \in 1 .. Len(queue'), NEW j \in 1 .. Len(queue'), i < j
       PROVE  End(queue[i])' <= Ahead(pread', queue'[j].pos)
  <2>1. /\ i \in 1 .. n - 1 /\ i + 1 \in 1 .. n /\ i + 1 \in 2 .. n
        /\ j \in 1 .. n - 1 /\ j + 1 \in 1 .. n /\ j + 1 \in 2 .. n /\ i + 1 < j + 1
    BY <1>3, <1>5, <1>16
  <2>2. End(queue[i + 1]) <= Ahead(pread, queue[j + 1].pos) BY <1>3, <2>1 DEF RingInv
  <2>3. End(queue[i + 1]) \in Nat /\ Ahead(pread, queue[j + 1].pos) \in Nat
    BY <1>11, <2>1
  <2>4. End(queue[i])' = End(queue[i + 1]) - used BY <1>12, <2>1
  <2>5. Ahead(pread', queue'[j].pos) = Ahead(pread, queue[j + 1].pos) - used
    <3>1. queue'[j] = queue[j + 1] BY <1>5, <2>1
    <3>2. Ahead(pread', queue[j + 1].pos) = Ahead(pread, queue[j + 1].pos) - used BY <1>11, <2>1
    <3>. QED BY <3>1, <3>2
  <2>. QED BY <2>2, <2>3, <2>4, <2>5
<1>17. /\ data' \in [Cells -> Bytes] /\ pwrite' \in Cells /\ num' \in Nat
  BY DEF RingInv
<1>. QED BY <1>5, <1>7, <1>14, <1>15, <1>16, <1>17 DEF RingInv

(* What every step does to the ring.                                       *)
Writes ==
  \E len \in Lengths :
    /\ Free >= len + Header /\ num' = num + 1
    /\ data' = Stored(pwrite, Frame(num', len)) /\ pwrite' = Wrap(pwrite + Header + len)
    /\ queue' = Append(queue, [no |-> num', len |-> len, pos |-> pwrite])
    /\ pread' = pread /\ got' = got

Reads == \E r \in Readers : Avail > 0 /\ PackageRead(r) /\ UNCHANGED <<data, pwrite, num>>

Empties ==
  /\ data' = [i \in Cells |-> Junk] /\ pread' = 0 /\ pwrite' = 0 /\ queue' = <<>>
  /\ UNCHANGED <<got, num>>

Passes == num' \in {num, num + 1} /\ UNCHANGED <<data, pread, pwrite, queue, got>>

LEMMA RingSteps ==
  ASSUME RingInv, [UdNext]_udVars PROVE Writes \/ Reads \/ Empties \/ Passes
<1>1. CASE PackageWrite
  <2>1. PICK len \in Lengths :
          /\ num' = num + 1 /\ got' = got
          /\ \/ Free < len + Header /\ UNCHANGED <<ringVars, queue>>
             \/ /\ ~(Free < len + Header)
                /\ data' = Stored(pwrite, Frame(num', len)) /\ pwrite' = Wrap(pwrite + Header + len)
                /\ queue' = Append(queue, [no |-> num', len |-> len, pos |-> pwrite])
                /\ pread' = pread
    BY <1>1 DEF PackageWrite
  <2>2. CASE UNCHANGED <<ringVars, queue>> BY <2>1, <2>2 DEF Passes, ringVars
  <2>3. CASE ~(Free < len + Header)
    <3>1. Free \in Int /\ len + Header \in Int
      <4>1. len \in Nat /\ Size \in Nat /\ pread \in Int /\ pwrite \in Int
        BY UserDataAssumption DEF RingInv, Cells
      <4>. QED BY <4>1 DEF Free, Header
    <3>2. Free >= len + Header BY <2>3, <3>1
    <3>. QED BY <2>1, <2>3, <3>2 DEF Writes
  <2>. QED BY <2>1, <2>2, <2>3
<1>2. CASE ThreadEnds BY <1>2 DEF ThreadEnds, Passes, ringVars
<1>3. ASSUME NEW r \in Readers, ReaderStep(r) PROVE Writes \/ Reads \/ Empties \/ Passes
  <2>1. CASE ReadCall(r)
    <3>1. CASE Avail > 0 BY <2>1, <3>1 DEF ReadCall, Reads
    <3>2. CASE ~(Avail > 0) BY <2>1, <3>2 DEF ReadCall, Passes
    <3>. QED BY <3>1, <3>2
  <2>2. CASE ReadWoken(r)
    <3>1. CASE Avail > 0 BY <2>2, <3>1 DEF ReadWoken, Reads
    <3>2. CASE ~(Avail > 0) BY <2>2, <3>2 DEF ReadWoken, Passes
    <3>. QED BY <3>1, <3>2
  <2>3. CASE ReadTimeout(r) \/ SpuriousWake(r)
    BY <2>3 DEF ReadTimeout, SpuriousWake, Passes, ringVars
  <2>4. CASE Open(r) \/ Close(r) BY <2>4 DEF Open, Close, Passes, ringVars
  <2>5. CASE CloseJoined(r) BY <2>5 DEF CloseJoined, Empties
  <2>. QED BY <1>3, <2>1, <2>2, <2>3, <2>4, <2>5 DEF ReaderStep
<1>4. CASE UNCHANGED udVars BY <1>4 DEF udVars, ringVars, Passes
<1>. QED BY <1>1, <1>2, <1>3, <1>4 DEF UdNext

LEMMA NextKeepsRingInv == ASSUME RingInv, [UdNext]_udVars PROVE RingInv'
<1>1. CASE Writes BY <1>1, StoredKeepsRingInv DEF Writes
<1>2. CASE Reads BY <1>2, ReadKeepsRingInv DEF Reads
<1>3. CASE Empties
  <2>1. Junk \in Bytes BY DEF Junk, Bytes
  <2>2. 0 \in Cells BY UserDataAssumption DEF Cells
  <2>. QED BY <1>3, <2>1, <2>2 DEF Empties, RingInv, Framed
<1>4. CASE Passes
  <2>1. num' \in Nat BY <1>4 DEF Passes, RingInv
  <2>2. UNCHANGED <<data, pread, pwrite, queue>> BY <1>4 DEF Passes
  <2>3. Framed' BY <2>2 DEF RingInv, Framed, FrameAt, End, Avail
  <2>. QED BY <2>1, <2>2, <2>3 DEF RingInv, End, Avail
<1>. QED BY <1>1, <1>2, <1>3, <1>4, RingSteps

LEMMA RingInvariant == UdSpec => []RingInv
BY InitRingInv, NextKeepsRingInv, PTL DEF UdSpec

(* am_userdata.c: the ring holds the packages written and not read, whole, *)
(* one after the other, whatever has wrapped around its end and for every  *)
(* size of the ring, the packages and the buffers.                         *)
THEOREM RingIsFramed == UdSpec => []Framed
<1>1. RingInv => Framed BY DEF RingInv
<1>. QED BY <1>1, RingInvariant, PTL

(* The packages as UserDataContract sees them.                             *)
Packages(q) == [i \in DOMAIN q |-> [no |-> q[i].no, len |-> q[i].len]]

LEMMA PackagesAppend ==
  ASSUME NEW q \in Seq(Queued), NEW e \in Queued
  PROVE  Packages(Append(q, e)) = Append(Packages(q), [no |-> e.no, len |-> e.len])
<1>1. PICK x : x = [no |-> e.no, len |-> e.len] OBVIOUS
<1>2. /\ Append(q, e) \in Seq(Queued) /\ Len(Append(q, e)) = Len(q) + 1 /\ Len(q) \in Nat
      /\ DOMAIN Append(q, e) = 1 .. Len(q) + 1 /\ DOMAIN q = 1 .. Len(q)
      /\ Append(q, e)[Len(q) + 1] = e
      /\ \A i \in 1 .. Len(q) : Append(q, e)[i] = q[i]
  OBVIOUS
<1>3. Packages(q) \in Seq({Packages(q)[i] : i \in 1 .. Len(q)} \cup {x})
  BY <1>2 DEF Packages
<1>4. Len(Packages(q)) = Len(q) BY <1>2 DEF Packages
<1>5. /\ DOMAIN Append(Packages(q), x) = 1 .. Len(q) + 1
      /\ Append(Packages(q), x)[Len(q) + 1] = x
      /\ \A i \in 1 .. Len(q) : Append(Packages(q), x)[i] = Packages(q)[i]
  BY <1>2, <1>3, <1>4
<1>6. \A i \in 1 .. Len(q) + 1 : Packages(Append(q, e))[i] = Append(Packages(q), x)[i]
  BY <1>1, <1>2, <1>5 DEF Packages
<1>7. DOMAIN Packages(Append(q, e)) = 1 .. Len(q) + 1 BY <1>2 DEF Packages
<1>. QED BY <1>1, <1>5, <1>6, <1>7 DEF Packages

LEMMA PackagesTail ==
  ASSUME NEW q \in Seq(Queued), q # <<>>
  PROVE  /\ Packages(Tail(q)) = Tail(Packages(q)) /\ Packages(q) # <<>>
         /\ Head(Packages(q)) = [no |-> q[1].no, len |-> q[1].len]
<1>1. /\ Len(q) \in Nat /\ Len(q) > 0 /\ DOMAIN q = 1 .. Len(q) /\ Tail(q) \in Seq(Queued)
      /\ Len(Tail(q)) = Len(q) - 1 /\ DOMAIN Tail(q) = 1 .. Len(q) - 1
      /\ \A i \in 1 .. Len(q) - 1 : Tail(q)[i] = q[i + 1] /\ i + 1 \in 1 .. Len(q)
  OBVIOUS
<1>2. Packages(q) \in Seq({Packages(q)[i] : i \in 1 .. Len(q)}) /\ Len(Packages(q)) = Len(q)
  BY <1>1 DEF Packages
<1>3. Packages(q) # <<>> BY <1>1, <1>2
<1>4. /\ DOMAIN Tail(Packages(q)) = 1 .. Len(q) - 1
      /\ \A i \in 1 .. Len(q) - 1 : Tail(Packages(q))[i] = Packages(q)[i + 1]
  BY <1>1, <1>2, <1>3
<1>5. \A i \in 1 .. Len(q) - 1 : Packages(Tail(q))[i] = Tail(Packages(q))[i]
  BY <1>1, <1>4 DEF Packages
<1>6. Head(Packages(q)) = Packages(q)[1] /\ 1 \in 1 .. Len(q) BY <1>1, <1>2, <1>3
<1>7. Packages(Tail(q)) = [i \in 1 .. Len(q) - 1 |-> Packages(Tail(q))[i]]
  BY <1>1 DEF Packages
<1>. QED BY <1>1, <1>3, <1>4, <1>5, <1>6, <1>7 DEF Packages

LEMMA NextContract ==
  ASSUME RingInv, [UdNext]_udVars
  PROVE  [Contract!Next]_<<Packages(queue), got, num>>
<1>0. queue \in Seq(Queued) /\ num \in Nat BY DEF RingInv
<1>1. CASE Writes
  <2>1. PICK len \in Lengths :
          /\ num' = num + 1 /\ got' = got
          /\ queue' = Append(queue, [no |-> num', len |-> len, pos |-> pwrite])
    BY <1>1 DEF Writes
  <2>2. PICK e \in Queued : e = [no |-> num', len |-> len, pos |-> pwrite]
    BY <1>0, <2>1 DEF Queued, RingInv
  <2>3. queue' = Append(queue, e) BY <2>1, <2>2
  <2>4. Packages(queue') = Append(Packages(queue), [no |-> num', len |-> len])
    BY <1>0, <2>2, <2>3, PackagesAppend
  <2>5. Contract!Put BY <2>1, <2>4 DEF Contract!Put, Packages
  <2>. QED BY <2>5 DEF Contract!Next
<1>2. CASE Reads
  <2>1. PICK r \in Readers : Avail > 0 /\ PackageRead(r) /\ UNCHANGED <<data, pwrite, num>>
    BY <1>2 DEF Reads
  <2>2. /\ queue # <<>> /\ queue' = Tail(queue)
        /\ got' = IF queue[1].len <= BufSize[r] THEN [by |-> r, bytes |-> Content(queue[1])] ELSE got
    BY <2>1, ReadTakesFirst
  <2>3. PICK h : h = [no |-> queue[1].no, len |-> queue[1].len] OBVIOUS
  <2>4. /\ Packages(queue)' = Tail(Packages(queue)) /\ Packages(queue) # <<>>
        /\ Head(Packages(queue)) = h
    <3>1. Packages(queue)' = Packages(Tail(queue)) BY <2>2 DEF Packages
    <3>. QED BY <1>0, <2>2, <2>3, <3>1, PackagesTail
  <2>5. h.len = queue[1].len /\ Contract!Bytes(h) = Content(queue[1])
    BY <2>3 DEF Contract!Bytes, Content
  <2>6. Contract!Take(r)
    BY <2>1, <2>2, <2>4, <2>5 DEF Contract!Take, Packages
  <2>. QED BY <2>6 DEF Contract!Next
<1>3. CASE Empties
  <2>1. Packages(queue)' = <<>> BY <1>3 DEF Empties, Packages
  <2>2. Contract!Empty BY <1>3, <2>1 DEF Empties, Contract!Empty, Packages
  <2>. QED BY <2>2 DEF Contract!Next
<1>4. CASE Passes
  <2>1. Packages(queue)' = Packages(queue) /\ got' = got BY <1>4 DEF Passes, Packages
  <2>2. CASE num' = num BY <2>1, <2>2
  <2>3. CASE num' = num + 1
    <3>1. Contract!Drop BY <2>1, <2>3 DEF Contract!Drop, Packages
    <3>. QED BY <3>1 DEF Contract!Next
  <2>. QED BY <1>4, <2>2, <2>3 DEF Passes
<1>. QED BY <1>1, <1>2, <1>3, <1>4, RingSteps

(* am_userdata.c implements UserDataContract, whatever the sizes: packages *)
(* are taken in the order in which they were written, each once and        *)
(* complete, or lost as a whole.                                           *)
THEOREM PackagesInOrder == UdSpec => ImplementsContract
<1>1. UdInit => Contract!Init
  BY DEF UdInit, Contract!Init
<1>2. RingInv /\ [UdNext]_udVars => [Contract!Next]_Contract!contractVars
  BY NextContract DEF Contract!contractVars, Packages
<1>. QED BY <1>1, <1>2, RingInvariant, PTL DEF UdSpec, ImplementsContract, Contract!Spec

-----------------------------------------------------------------------------
(* The clients.  The device is referenced once for each that has it open;  *)
(* the last close holds am_gAdpLock, alone in the device, up to its join.  *)
Inside == {r \in Readers : pc[r] # "out"}

UdClients ==
  /\ running \in BOOLEAN /\ thread \in {"none", "run"} /\ adp \in Readers \cup {Nil}
  /\ pc \in [Readers -> {"out", "in", "wait", "woken", "join"}]
  /\ openCnt = Cardinality(Inside)
  /\ \A r \in Readers : pc[r] = "join" <=> adp = r
  /\ adp # Nil => Inside = {adp} /\ ~running
  /\ adp = Nil => (running <=> Inside # {})
  /\ running => thread = "run"
  /\ Inside = {} => thread = "none"

Gotten == got \in [by : Readers \cup {Nil}, bytes : Seq(Bytes)]

(* The inductive invariant of the whole device.                            *)
UdInv == RingInv /\ UdClients /\ Gotten

LEMMA InsideCounts ==
  ASSUME NEW r \in Readers
  PROVE  /\ IsFiniteSet(Inside) /\ Cardinality(Inside) \in Nat
         /\ Cardinality(Inside) <= Cardinality(Readers)
         /\ Cardinality(Inside \cup {r}) = IF r \in Inside THEN Cardinality(Inside)
                                           ELSE Cardinality(Inside) + 1
         /\ Cardinality(Inside \ {r}) = IF r \in Inside THEN Cardinality(Inside) - 1
                                        ELSE Cardinality(Inside)
         /\ r \in Inside /\ Cardinality(Inside) <= 1 => Inside = {r}
         /\ Cardinality({r}) = 1
<1>1. Inside \in SUBSET Readers BY DEF Inside
<1>2. /\ IsFiniteSet(Inside) /\ Cardinality(Inside) <= Cardinality(Readers)
  BY <1>1, UserDataAssumption, FS_Subset
<1>3. Cardinality(Inside) \in Nat BY <1>2, FS_CardinalityType
<1>4. r \in Inside /\ Cardinality(Inside) <= 1 => Inside = {r}
  <2>. SUFFICES ASSUME r \in Inside, Cardinality(Inside) <= 1 PROVE Inside = {r} OBVIOUS
  <2>1. Cardinality(Inside) # 0 BY <1>2, FS_EmptySet
  <2>2. Cardinality(Inside) = 1 BY <1>3, <2>1
  <2>. QED BY <1>2, <2>2, FS_Singleton
<1>. QED BY <1>2, <1>3, <1>4, FS_AddElement, FS_RemoveElement, FS_Singleton

LEMMA InitUdInv == UdInit => UdInv
<1>. SUFFICES ASSUME UdInit PROVE UdClients /\ Gotten BY InitRingInv DEF UdInv
<1>1. Inside = {} BY DEF UdInit, Inside
<1>2. <<>> \in Seq(Bytes) OBVIOUS
<1>. QED BY <1>1, <1>2, FS_EmptySet, UserDataAssumption DEF UdInit, UdClients, Gotten

(* A step that moves clients about inside.                                 *)
LEMMA StaysInside ==
  ASSUME UdClients, UNCHANGED <<openCnt, running, thread, adp>>,
         pc' \in [Readers -> {"out", "in", "wait", "woken", "join"}],
         \A r \in Readers : (pc'[r] = "out" <=> pc[r] = "out") /\ (pc'[r] = "join" <=> pc[r] = "join")
  PROVE  UdClients'
<1>1. Inside' = Inside BY DEF Inside
<1>. QED BY <1>1 DEF UdClients

LEMMA CallsKeepUdClients ==
  ASSUME UdClients, NEW r \in Readers,
         ReadCall(r) \/ ReadWoken(r) \/ ReadTimeout(r) \/ SpuriousWake(r)
  PROVE  UdClients'
<1>1. PICK v \in {"in", "wait", "woken"} :
        /\ pc' = pc \/ pc' = [pc EXCEPT ![r] = v]
        /\ pc[r] \in {"in", "wait", "woken"} /\ UNCHANGED <<openCnt, running, thread, adp>>
  BY DEF ReadCall, ReadWoken, ReadTimeout, SpuriousWake, devVars
<1>2. pc \in [Readers -> {"out", "in", "wait", "woken", "join"}] BY DEF UdClients
<1>. QED BY <1>1, <1>2, StaysInside

LEMMA OpenKeepsUdClients == ASSUME UdClients, NEW r \in Readers, Open(r) PROVE UdClients'
<1>1. /\ pc[r] = "out" /\ adp = Nil /\ pc' = [pc EXCEPT ![r] = "in"] /\ openCnt' = openCnt + 1
      /\ adp' = adp /\ pc \in [Readers -> {"out", "in", "wait", "woken", "join"}]
  BY DEF Open, UdClients
<1>2. Inside' = Inside \cup {r} /\ r \notin Inside BY <1>1 DEF Inside
<1>3. openCnt' = Cardinality(Inside') BY <1>1, <1>2, InsideCounts DEF UdClients
<1>4. openCnt = 0 <=> Inside = {} BY InsideCounts, FS_EmptySet DEF UdClients
<1>5. running' /\ thread' = "run" BY <1>1, <1>4 DEF Open, UdClients
<1>. QED BY <1>1, <1>2, <1>3, <1>5 DEF UdClients

LEMMA CloseKeepsUdClients == ASSUME UdClients, NEW r \in Readers, Close(r) PROVE UdClients'
<1>1. /\ pc[r] = "in" /\ adp = Nil /\ thread' = thread
      /\ pc \in [Readers -> {"out", "in", "wait", "woken", "join"}] /\ r \in Inside /\ r # Nil
      /\ openCnt = Cardinality(Inside) /\ openCnt \in Nat /\ running /\ thread = "run"
  <2>1. pc[r] = "in" /\ adp = Nil /\ thread' = thread BY DEF Close
  <2>2. r \in Inside BY <2>1 DEF Inside
  <2>. QED BY <2>1, <2>2, InsideCounts, UserDataAssumption DEF UdClients
<1>2. CASE openCnt > 1
  <2>1. pc' = [pc EXCEPT ![r] = "out"] /\ openCnt' = openCnt - 1 /\ UNCHANGED <<running, adp>>
    BY <1>2 DEF Close
  <2>2. Inside' = Inside \ {r} BY <1>1, <2>1 DEF Inside
  <2>3. openCnt' = Cardinality(Inside') /\ openCnt' # 0
    <3>1. Cardinality(Inside \ {r}) = Cardinality(Inside) - 1 BY <1>1, InsideCounts
    <3>2. Cardinality(Inside') = openCnt - 1 BY <1>1, <2>2, <3>1
    <3>. QED BY <1>1, <1>2, <2>1, <3>2
  <2>4. Inside' # {} BY <2>3, FS_EmptySet
  <2>5. \A q \in Readers : pc'[q] # "join" BY <1>1, <2>1, UserDataAssumption DEF UdClients
  <2>. QED BY <1>1, <2>1, <2>3, <2>4, <2>5, UserDataAssumption DEF UdClients
<1>3. CASE ~(openCnt > 1)
  <2>1. pc' = [pc EXCEPT ![r] = "join"] /\ running' = FALSE /\ adp' = r /\ openCnt' = openCnt
    BY <1>3 DEF Close
  <2>2. Inside' = Inside BY <1>1, <2>1 DEF Inside
  <2>3. openCnt <= 1 BY <1>1, <1>3
  <2>4. Inside = {r} BY <1>1, <2>3, InsideCounts
  <2>. QED BY <1>1, <2>1, <2>2, <2>4, UserDataAssumption DEF UdClients
<1>. QED BY <1>2, <1>3

LEMMA JoinKeepsUdClients == ASSUME UdClients, NEW r \in Readers, CloseJoined(r) PROVE UdClients'
<1>1. /\ pc[r] = "join" /\ adp = r /\ r # Nil /\ thread = "none" /\ Inside = {r}
      /\ pc' = [pc EXCEPT ![r] = "out"] /\ openCnt' = openCnt - 1 /\ adp' = Nil
      /\ UNCHANGED <<running, thread>> /\ ~running
      /\ pc \in [Readers -> {"out", "in", "wait", "woken", "join"}]
  BY UserDataAssumption DEF CloseJoined, UdClients
<1>2. Inside' = {} BY <1>1 DEF Inside
<1>3. openCnt' = 0
  <2>1. openCnt = Cardinality({r}) BY <1>1 DEF UdClients
  <2>2. Cardinality({r}) = 1 BY FS_Singleton
  <2>. QED BY <1>1, <2>1, <2>2
<1>4. \A q \in Readers : pc'[q] = "out" BY <1>1, <1>2 DEF Inside
<1>. QED BY <1>1, <1>2, <1>3, <1>4, FS_EmptySet, UserDataAssumption DEF UdClients

LEMMA StepKeepsUdClients == ASSUME UdClients, [UdNext]_udVars PROVE UdClients'
<1>0. pc \in [Readers -> {"out", "in", "wait", "woken", "join"}] BY DEF UdClients
<1>1. CASE PackageWrite
  <2>1. UNCHANGED <<openCnt, running, thread, adp>> BY <1>1 DEF PackageWrite, devVars
  <2>2. pc' = pc \/ \E W \in Woken : Wake(W) BY <1>1 DEF PackageWrite
  <2>3. CASE pc' = pc BY <1>0, <2>1, <2>3, StaysInside
  <2>4. ASSUME NEW W \in Woken, Wake(W) PROVE UdClients'
    <3>1. \A r \in W : r \in Readers /\ pc[r] = "wait" BY <2>4 DEF Woken, Waiting
    <3>2. pc' = [r \in Readers |-> IF r \in W THEN "woken" ELSE pc[r]] BY <2>4 DEF Wake
    <3>. QED BY <1>0, <2>1, <3>1, <3>2, StaysInside
  <2>. QED BY <2>2, <2>3, <2>4
<1>2. CASE ThreadEnds
  <2>1. Inside' = Inside BY <1>2 DEF ThreadEnds, Inside
  <2>. QED BY <1>2, <2>1 DEF ThreadEnds, UdClients
<1>3. ASSUME NEW r \in Readers, ReaderStep(r) PROVE UdClients'
  BY <1>3, CallsKeepUdClients, OpenKeepsUdClients, CloseKeepsUdClients, JoinKeepsUdClients
     DEF ReaderStep
<1>4. CASE UNCHANGED udVars BY <1>0, <1>4, StaysInside DEF udVars, devVars
<1>. QED BY <1>1, <1>2, <1>3, <1>4 DEF UdNext

LEMMA StepKeepsGotten == ASSUME RingInv, Gotten, [UdNext]_udVars PROVE Gotten'
<1>1. CASE Writes BY <1>1 DEF Writes, Gotten
<1>2. CASE Reads
  <2>1. PICK r \in Readers : Avail > 0 /\ PackageRead(r) /\ UNCHANGED <<data, pwrite, num>>
    BY <1>2 DEF Reads
  <2>2. PICK h \in Queued :
          got' = IF h.len <= BufSize[r] THEN [by |-> r, bytes |-> Content(h)] ELSE got
    BY <2>1, ReadTakesFirst
  <2>3. h.no \in Nat /\ h.len \in Nat BY QueuedFields DEF Queued
  <2>4. Content(h) \in Seq(Bytes)
    <3>1. ASSUME NEW k \in 1 .. h.len
          PROVE  [no |-> h.no, off |-> Header + k, len |-> h.len] \in Bytes
      BY <2>3 DEF Bytes, Header
    <3>. QED BY <2>3, <3>1 DEF Content
  <2>. QED BY <2>2, <2>4 DEF Gotten
<1>3. CASE Empties BY <1>3 DEF Empties, Gotten
<1>4. CASE Passes BY <1>4 DEF Passes, Gotten
<1>. QED BY <1>1, <1>2, <1>3, <1>4, RingSteps

LEMMA UdInvariant == UdSpec => []UdInv
<1>1. UdInv /\ [UdNext]_udVars => UdInv'
  BY NextKeepsRingInv, StepKeepsUdClients, StepKeepsGotten DEF UdInv
<1>. QED BY <1>1, InitUdInv, PTL DEF UdSpec

LEMMA UdInvTypes == UdInv => UdTypeOK
<1>. SUFFICES ASSUME UdInv PROVE UdTypeOK OBVIOUS
<1>1. openCnt \in 0 .. Cardinality(Readers)
  <2>1. Inside \in SUBSET Readers BY DEF Inside
  <2>2. Cardinality(Inside) <= Cardinality(Readers) /\ IsFiniteSet(Inside)
    BY <2>1, UserDataAssumption, FS_Subset
  <2>3. Cardinality(Inside) \in Nat /\ Cardinality(Readers) \in Nat
    BY <2>2, UserDataAssumption, FS_CardinalityType
  <2>. QED BY <2>2, <2>3 DEF UdInv, UdClients
<1>. QED BY <1>1 DEF UdInv, UdClients, Gotten, RingInv, Queued, UdTypeOK

(* AM_USERDATA_Open and AM_USERDATA_Close: whichever clients open, close   *)
(* and wait at the same time, the ring is filled for every one that has    *)
(* the device open, and when none has, no thread is left.                  *)
Served ==
  /\ \A r \in Readers : pc[r] \in {"in", "wait", "woken"} => running /\ thread = "run"
  /\ (\A r \in Readers : pc[r] = "out") => openCnt = 0 /\ thread = "none"

THEOREM ClientsAreServed == UdSpec => [](UdTypeOK /\ Served)
<1>1. UdInv => Served
  <2>. SUFFICES ASSUME UdInv PROVE Served OBVIOUS
  <2>1. ASSUME NEW r \in Readers, pc[r] \in {"in", "wait", "woken"} PROVE running /\ thread = "run"
    <3>1. r \in Inside BY <2>1 DEF Inside
    <3>2. adp = Nil BY <2>1, <3>1 DEF UdInv, UdClients
    <3>. QED BY <3>1, <3>2 DEF UdInv, UdClients
  <2>2. ASSUME \A r \in Readers : pc[r] = "out" PROVE openCnt = 0 /\ thread = "none"
    <3>1. Inside = {} BY <2>2 DEF Inside
    <3>. QED BY <3>1, FS_EmptySet DEF UdInv, UdClients
  <2>. QED BY <2>1, <2>2 DEF Served
<1>. QED BY <1>1, UdInvTypes, UdInvariant, PTL

-----------------------------------------------------------------------------
(* CcPoc.  The list holds frames of the current sequence, no count twice;  *)
(* none of it was written before the list was full once, which it remains. *)
PocInv ==
  /\ PocTypeOK
  /\ PocOrder
  /\ sq = 0 => cache = <<>> /\ written = <<>>
  /\ Len(cache) <= MaxPocCache + 1
  /\ \A i \in DOMAIN cache : cache[i].sq = sq
  /\ \A i, j \in DOMAIN cache : cache[i].poc = cache[j].poc => i = j
  /\ \A i \in DOMAIN written : written[i].sq <= sq
  /\ ~Full => \A i \in DOMAIN written : written[i].sq # sq

LEMMA InitPocInv == PocInit => PocInv
<1>. SUFFICES ASSUME PocInit PROVE PocInv OBVIOUS
<1>1. ToSet(written) = {} /\ ToSet(cache) = {} BY DEF PocInit, ToSet
<1>2. 0 \in 0 .. MaxSequences /\ MaxPocCache \in Nat BY CcPocAssumption
<1>3. PocTypeOK BY <1>2 DEF PocInit, PocTypeOK
<1>4. PocOrder BY <1>1 DEF PocInit, PocOrder
<1>. QED BY <1>2, <1>3, <1>4 DEF PocInit, PocInv

LEMMA PocTypes ==
  ASSUME PocInv
  PROVE  /\ sq \in Nat /\ Len(cache) \in Nat /\ Len(written) \in Nat
         /\ cache \in Seq(Frames) /\ written \in Seq(Frames)
         /\ DOMAIN cache = 1 .. Len(cache) /\ DOMAIN written = 1 .. Len(written)
         /\ \A i \in DOMAIN cache : cache[i] \in Frames /\ cache[i].poc \in Nat
         /\ \A i \in DOMAIN written : written[i] \in Frames
<1>1. /\ sq \in 0 .. MaxSequences /\ cache \in Seq(Frames) /\ written \in Seq(Frames)
      /\ MaxSequences \in Nat
  BY CcPocAssumption DEF PocInv, PocTypeOK
<1>2. DOMAIN cache = 1 .. Len(cache) /\ DOMAIN written = 1 .. Len(written) BY <1>1
<1>3. \A i \in DOMAIN cache : cache[i] \in Frames BY <1>1, <1>2
<1>4. \A i \in DOMAIN written : written[i] \in Frames BY <1>1, <1>2
<1>5. \A f \in Frames : f.poc \in Nat BY DEF Frames
<1>. QED BY <1>1, <1>2, <1>3, <1>4, <1>5

LEMMA FrameIs ==
  ASSUME NEW f \in Frames
  PROVE  /\ f = [sq |-> f.sq, poc |-> f.poc] /\ f.sq \in Nat /\ f.poc \in Nat
         /\ f.sq \in 1 .. MaxSequences /\ f.poc \in 0 .. MaxPoc
BY DEF Frames

(* The node with the least count.                                          *)
LEMMA LeastPoc ==
  ASSUME PocInv, cache # <<>>
  PROVE  /\ MinPoc(cache) \in DOMAIN cache
         /\ \A j \in DOMAIN cache \ {MinPoc(cache)} : cache[MinPoc(cache)].poc < cache[j].poc
<1>0. DOMAIN cache # {} BY PocTypes
<1>1. PICK S : S = {cache[i].poc : i \in DOMAIN cache} OBVIOUS
<1>2. S \subseteq Nat /\ S # {} BY <1>0, <1>1, PocTypes
<1>3. PICK R : R = OpToRel(<, Nat) OBVIOUS
<1>4. \A m, n \in Nat : <<m, n>> \in R <=> m < n BY <1>3 DEF OpToRel
<1>5. IsWellFoundedOn(R, Nat) BY <1>3, NatLessThanWellFounded
<1>6. PICK n \in S : \A m \in S : <<m, n>> \notin R BY <1>2, <1>5, WFMin
<1>7. PICK i \in DOMAIN cache : cache[i].poc = n BY <1>1, <1>6
<1>8. ASSUME NEW j \in DOMAIN cache \ {i} PROVE cache[i].poc < cache[j].poc
  <2>1. cache[j].poc \in S BY <1>1
  <2>2. ~(cache[j].poc < n) BY <1>2, <1>4, <1>6, <2>1
  <2>3. cache[j].poc # n BY <1>7 DEF PocInv
  <2>4. cache[j].poc \in Nat /\ cache[i].poc \in Nat BY PocTypes
  <2>. QED BY <1>7, <2>2, <2>3, <2>4
<1>9. PICK k : k = MinPoc(cache) OBVIOUS
<1>10. k \in DOMAIN cache /\ \A j \in DOMAIN cache \ {k} : Sooner(cache, k, j)
  <2>1. \A j \in DOMAIN cache \ {i} : Sooner(cache, i, j) BY <1>8 DEF Sooner
  <2>. QED BY <1>9, <2>1 DEF MinPoc
<1>11. ASSUME NEW j \in DOMAIN cache \ {k} PROVE cache[k].poc < cache[j].poc
  <2>1. cache[k].poc # cache[j].poc BY <1>10 DEF PocInv
  <2>. QED BY <1>10, <2>1 DEF Sooner
<1>. QED BY <1>9, <1>10, <1>11

(* A full list holds a frame before every frame that may come.             *)
LEMMA FullKeepsUp ==
  ASSUME PocInv, Full, NEW n \in 0 .. MaxPoc, n \notin coded,
         Cardinality({c \in coded : c > n}) <= Depth
  PROVE  cache[MinPoc(cache)].poc < n
<1>0. MaxPocCache \in Nat /\ Depth \in Nat /\ Depth <= MaxPocCache /\ MaxPoc \in Nat
  BY CcPocAssumption
<1>1. cache # <<>> BY <1>0, PocTypes DEF Full
<1>2. PICK k : k = MinPoc(cache) OBVIOUS
<1>3. k \in DOMAIN cache /\ \A j \in DOMAIN cache \ {k} : cache[k].poc < cache[j].poc
  BY <1>1, <1>2, LeastPoc
<1>4. \A i \in DOMAIN cache : cache[i].poc \in coded
  <2>1. ASSUME NEW i \in DOMAIN cache PROVE cache[i].poc \in coded
    <3>1. cache[i] \in {f \in ToSet(written) \cup ToSet(cache) : f.sq = sq}
      BY DEF PocInv, ToSet
    <3>2. cache[i] \in {[sq |-> sq, poc |-> c] : c \in coded} BY <3>1 DEF PocInv, PocOrder
    <3>. QED BY <3>2
  <2>. QED BY <2>1
<1>5. SUFFICES ASSUME ~(cache[k].poc < n) PROVE FALSE BY <1>2
<1>6. PICK T : T = {c \in coded : c > n} OBVIOUS
<1>7. PICK S : S = 1 .. Len(cache) OBVIOUS
<1>8. IsFiniteSet(T)
  <2>1. IsFiniteSet(0 .. MaxPoc) BY <1>0, FS_Interval
  <2>2. T \subseteq 0 .. MaxPoc BY <1>6 DEF PocInv, PocTypeOK
  <2>. QED BY <2>1, <2>2, FS_Subset
<1>9. IsFiniteSet(S) /\ Cardinality(S) = Len(cache)
  <2>1. PICK m \in Nat : m = Len(cache) BY PocTypes
  <2>2. m > 0 BY <1>0, <2>1 DEF Full
  <2>3. IsFiniteSet(1 .. m) /\ Cardinality(1 .. m) = IF 1 > m THEN 0 ELSE m - 1 + 1
    BY FS_Interval
  <2>4. Cardinality(1 .. m) = m BY <2>2, <2>3
  <2>. QED BY <1>7, <2>1, <2>3, <2>4
<1>10. Cardinality(T) \in Nat BY <1>8, FS_CardinalityType
<1>11. Cardinality(T) < Cardinality(S) BY <1>0, <1>6, <1>9, <1>10, PocTypes DEF Full
<1>12. PICK g : g = [i \in S |-> cache[i].poc] OBVIOUS
<1>13. ASSUME NEW i \in S PROVE cache[i].poc \in T
  <2>1. i \in DOMAIN cache /\ cache[i].poc \in Nat /\ cache[k].poc \in Nat BY <1>3, <1>7, PocTypes
  <2>2. cache[i].poc \in coded /\ cache[i].poc # n BY <1>4, <2>1
  <2>3. cache[k].poc <= cache[i].poc BY <1>3, <2>1
  <2>. QED BY <1>5, <1>6, <2>1, <2>2, <2>3
<1>14. g \in [S -> T] BY <1>12, <1>13
<1>15. PICK x, y \in S : x # y /\ g[x] = g[y] BY <1>8, <1>9, <1>11, <1>14, FS_PigeonHole
<1>16. x \in DOMAIN cache /\ y \in DOMAIN cache /\ cache[x].poc = cache[y].poc
  BY <1>7, <1>12, <1>15, PocTypes
<1>. QED BY <1>15, <1>16 DEF PocInv

(* A sequence begins.                                                      *)
LEMMA IdrKeepsPocInv == ASSUME PocInv, ReceiveIdr PROVE PocInv'
<1>0. /\ sq < MaxSequences /\ sq' = sq + 1 /\ coded' = {0} /\ cache' = <<[sq |-> sq', poc |-> 0]>>
      /\ sq \in Nat /\ MaxSequences \in Nat /\ MaxPoc \in Nat /\ MaxPocCache \in Nat
  BY CcPocAssumption, PocTypes DEF ReceiveIdr
<1>1. PICK p \in Flushes(cache) : written' = written \o [i \in DOMAIN cache |-> cache[p[i]]]
  BY DEF ReceiveIdr
<1>2. p \in [DOMAIN cache -> DOMAIN cache] /\ \A i, j \in DOMAIN cache : i < j => Sooner(cache, p[i], p[j])
  BY <1>1 DEF Flushes, Bijection, Injection
<1>3. PICK t : t = [i \in DOMAIN cache |-> cache[p[i]]] OBVIOUS
<1>4. PICK n \in Nat : n = Len(cache) BY PocTypes
<1>5. t = [i \in 1 .. n |-> cache[p[i]]] /\ \A i \in 1 .. n : p[i] \in 1 .. n /\ cache[p[i]] \in Frames
  BY <1>2, <1>3, <1>4, PocTypes
<1>6. t \in Seq(Frames) /\ Len(t) = n /\ \A i \in 1 .. n : t[i] = cache[p[i]] BY <1>5
<1>7. PICK w \in Seq(Frames) : w = written BY PocTypes
<1>8. PICK v : v = w \o t OBVIOUS
<1>9. /\ v \in Seq(Frames) /\ Len(v) = Len(w) + n
      /\ \A i \in 1 .. Len(w) : v[i] = w[i]
      /\ \A i \in 1 .. n : v[Len(w) + i] = t[i]
  <2>1. w \in Seq(Frames) /\ t \in Seq(Frames) BY <1>6
  <2>2. /\ v \in Seq(Frames) /\ Len(v) = Len(w) + Len(t)
        /\ \A i \in 1 .. Len(w) + Len(t) : v[i] = IF i <= Len(w) THEN w[i] ELSE t[i - Len(w)]
    BY <1>8, <2>1, ConcatProperties, Zenon
  <2>3. \A i \in 1 .. n : Len(w) + i \in 1 .. Len(w) + n /\ ~(Len(w) + i <= Len(w)) /\ (Len(w) + i) - Len(w) = i
    OBVIOUS
  <2>4. ASSUME NEW i \in 1 .. n PROVE v[Len(w) + i] = t[i] BY <1>6, <2>2, <2>3
  <2>5. ASSUME NEW i \in 1 .. Len(w) PROVE v[i] = w[i]
    <3>1. i \in 1 .. Len(w) + Len(t) BY <1>6
    <3>. QED BY <2>2, <3>1
  <2>. QED BY <1>6, <2>2, <2>4, <2>5
<1>10. written' = v BY <1>1, <1>3, <1>7, <1>8
<1>11. \A i \in 1 .. Len(v) : v[i].sq <= sq /\ v[i].sq \in Nat
  <2>1. \A i \in 1 .. Len(w) : w[i].sq <= sq BY <1>7, PocTypes DEF PocInv
  <2>2. \A i \in 1 .. n : t[i].sq = sq BY <1>4, <1>5, <1>6, PocTypes DEF PocInv
  <2>3. ASSUME NEW i \in 1 .. Len(v) PROVE v[i].sq <= sq
    <3>1. CASE i <= Len(w) BY <1>9, <2>1, <3>1
    <3>2. CASE ~(i <= Len(w))
      <4>1. PICK k \in 1 .. n : i = Len(w) + k
        <5>1. i - Len(w) \in 1 .. n /\ i = Len(w) + (i - Len(w)) BY <1>9, <3>2
        <5>. QED BY <5>1
      <4>2. v[i].sq = sq BY <1>9, <2>2, <4>1
      <4>. QED BY <1>0, <4>2
    <3>. QED BY <3>1, <3>2
  <2>4. \A i \in 1 .. Len(v) : v[i] \in Frames BY <1>9
  <2>. QED BY <2>3, <2>4, FrameIs
<1>12. ASSUME NEW i \in 1 .. Len(v) - 1 PROVE Follows(v[i + 1], v[i])
  <2>1. CASE i < Len(w)
    <3>1. i \in 1 .. Len(w) - 1 /\ i + 1 \in 1 .. Len(w) /\ i \in 1 .. Len(w) BY <1>9, <2>1
    <3>2. Follows(w[i + 1], w[i]) BY <1>7, <3>1 DEF PocInv, PocOrder
    <3>. QED BY <1>9, <3>1, <3>2
  <2>2. CASE i = Len(w)
    <3>1. n > 0 /\ 1 \in 1 .. n /\ Len(w) \in 1 .. Len(w) /\ w # <<>> BY <1>9, <2>2
    <3>2. v[i + 1] = t[1] /\ v[i] = w[Len(w)] BY <1>9, <2>2, <3>1
    <3>3. t[1] = cache[p[1]] /\ p[1] \in DOMAIN cache BY <1>4, <1>5, <1>6, <3>1, PocTypes
    <3>. QED BY <1>7, <3>1, <3>2, <3>3 DEF PocInv, PocOrder
  <2>3. CASE i > Len(w)
    <3>1. PICK k \in 1 .. n - 1 : i = Len(w) + k
      <4>1. i - Len(w) \in 1 .. n - 1 /\ i = Len(w) + (i - Len(w)) BY <1>9, <2>3
      <4>. QED BY <4>1
    <3>2. k \in 1 .. n /\ k + 1 \in 1 .. n /\ k < k + 1 /\ i + 1 = Len(w) + (k + 1) BY <1>9, <3>1
    <3>3. v[i] = cache[p[k]] /\ v[i + 1] = cache[p[k + 1]] BY <1>6, <1>9, <3>1, <3>2
    <3>4. p[k] \in DOMAIN cache /\ p[k + 1] \in DOMAIN cache /\ k \in DOMAIN cache /\ k + 1 \in DOMAIN cache
      BY <1>4, <1>5, <3>2, PocTypes
    <3>5. Sooner(cache, p[k], p[k + 1]) BY <1>2, <3>2, <3>4
    <3>6. p[k] \in Nat /\ p[k + 1] \in Nat BY <1>4, <1>5, <3>2
    <3>7. cache[p[k]].poc < cache[p[k + 1]].poc
      <4>1. cache[p[k]].poc = cache[p[k + 1]].poc => p[k] = p[k + 1] BY <3>4 DEF PocInv
      <4>. QED BY <3>5, <3>6, <4>1 DEF Sooner
    <3>8. cache[p[k]].sq = cache[p[k + 1]].sq BY <3>4 DEF PocInv
    <3>. QED BY <3>3, <3>4, <3>7, <3>8, PocTypes DEF Follows
  <2>. QED BY <1>9, <2>1, <2>2, <2>3
<1>13. PICK f : f = [sq |-> sq', poc |-> 0] OBVIOUS
<1>14. f \in Frames /\ f.sq = sq + 1 /\ f.poc = 0 BY <1>0, <1>13 DEF Frames
<1>15. cache' = <<f>> /\ cache' \in Seq(Frames) /\ Len(cache') = 1 /\ DOMAIN cache' = {1} /\ cache'[1] = f
  BY <1>0, <1>13, <1>14
<1>16. PocTypeOK'
  BY <1>0, <1>9, <1>10, <1>15 DEF PocTypeOK
<1>17. written' # <<>> => \A i \in DOMAIN cache' : Follows(cache'[i], written'[Len(written')])
  <2>. SUFFICES ASSUME v # <<>> PROVE Follows(f, v[Len(v)]) BY <1>10, <1>15
  <2>1. Len(v) \in 1 .. Len(v) BY <1>9
  <2>2. v[Len(v)].sq <= sq /\ v[Len(v)].sq \in Nat BY <1>11, <2>1
  <2>. QED BY <1>0, <1>14, <2>2 DEF Follows
<1>18. {g \in ToSet(written') \cup ToSet(cache') : g.sq = sq'} = {[sq |-> sq', poc |-> c] : c \in coded'}
  <2>1. ToSet(cache') = {f} BY <1>15 DEF ToSet
  <2>2. ASSUME NEW g \in ToSet(written') PROVE g.sq # sq'
    <3>1. PICK i \in 1 .. Len(v) : g = v[i] BY <1>9, <1>10, <2>2 DEF ToSet
    <3>. QED BY <1>0, <1>11, <3>1
  <2>3. {[sq |-> sq', poc |-> c] : c \in coded'} = {f} BY <1>0, <1>13
  <2>. QED BY <1>0, <1>14, <2>1, <2>2, <2>3
<1>19. PocOrder'
  <2>1. \A i \in 1 .. Len(written') - 1 : Follows(written'[i + 1], written'[i]) BY <1>10, <1>12
  <2>. QED BY <1>17, <1>18, <2>1 DEF PocOrder, Follows
<1>20. \A i \in DOMAIN written' : written'[i].sq <= sq' /\ written'[i].sq # sq'
  BY <1>0, <1>9, <1>10, <1>11
<1>21. \A i \in DOMAIN cache' : cache'[i].sq = sq' BY <1>0, <1>14, <1>15
<1>. QED BY <1>0, <1>15, <1>16, <1>19, <1>20, <1>21 DEF PocInv, Full

(* RemoveAt leaves out the element at position k.                          *)
LEMMA Removed ==
  ASSUME NEW S, NEW s \in Seq(S), NEW k \in 1 .. Len(s)
  PROVE  /\ RemoveAt(s, k) \in Seq(S) /\ Len(RemoveAt(s, k)) = Len(s) - 1
         /\ \A i \in 1 .. Len(s) - 1 : RemoveAt(s, k)[i] = s[IF i < k THEN i ELSE i + 1]
<1>1. PICK a, b : a = SubSeq(s, 1, k - 1) /\ b = SubSeq(s, k + 1, Len(s)) OBVIOUS
<1>2. RemoveAt(s, k) = a \o b BY <1>1 DEF RemoveAt
<1>3. a \in Seq(S) /\ Len(a) = k - 1 /\ \A i \in 1 .. k - 1 : a[i] = s[i]
  BY <1>1, SubSeqProperties
<1>4. b \in Seq(S) /\ Len(b) = Len(s) - k /\ \A i \in 1 .. Len(s) - k : b[i] = s[k + i]
  BY <1>1, SubSeqProperties
<1>5. /\ a \o b \in Seq(S) /\ Len(a \o b) = Len(a) + Len(b)
      /\ \A i \in 1 .. Len(a) + Len(b) : (a \o b)[i] = IF i <= Len(a) THEN a[i] ELSE b[i - Len(a)]
  <2>1. a \in Seq(S) /\ b \in Seq(S) BY <1>3, <1>4
  <2>. QED BY <2>1, ConcatProperties, Zenon
<1>6. Len(a) + Len(b) = Len(s) - 1 BY <1>3, <1>4
<1>7. ASSUME NEW i \in 1 .. Len(s) - 1
      PROVE  (a \o b)[i] = s[IF i < k THEN i ELSE i + 1]
  <2>1. CASE i < k BY <1>3, <1>5, <1>6, <2>1
  <2>2. CASE ~(i < k)
    <3>1. i - (k - 1) \in 1 .. Len(s) - k /\ k + (i - (k - 1)) = i + 1 BY <2>2
    <3>2. (a \o b)[i] = b[i - (k - 1)] BY <1>3, <1>5, <1>6, <2>2
    <3>. QED BY <1>4, <2>2, <3>1, <3>2
  <2>. QED BY <2>1, <2>2
<1>. QED BY <1>2, <1>5, <1>6, <1>7

(* A frame is added to the list before it is full.                         *)
LEMMA FrameKeptKeepsPocInv ==
  ASSUME PocInv, sq > 0, ~Full, NEW n \in 0 .. MaxPoc, n \notin coded,
         coded' = coded \cup {n}, cache' = Append(cache, [sq |-> sq, poc |-> n]),
         written' = written, sq' = sq
  PROVE  PocInv'
<1>0. /\ sq \in 1 .. MaxSequences /\ MaxPocCache \in Nat /\ MaxPoc \in Nat /\ n \in Nat
      /\ sq \in Nat
  BY CcPocAssumption, PocTypes DEF PocInv, PocTypeOK
<1>1. PICK f : f = [sq |-> sq, poc |-> n] OBVIOUS
<1>2. f \in Frames /\ f.sq = sq /\ f.poc = n
  <2>1. f.sq = sq /\ f.poc = n BY ONLY <1>1
  <2>2. sq \in 1 .. MaxSequences /\ n \in 0 .. MaxPoc BY <1>0
  <2>3. f \in Frames BY ONLY <1>1, <2>2, Zenon DEF Frames
  <2>. QED BY ONLY <2>1, <2>3
<1>3. PICK m \in Nat : m = Len(cache) BY PocTypes
<1>4. /\ cache' \in Seq(Frames) /\ Len(cache') = m + 1 /\ DOMAIN cache' = 1 .. m + 1
      /\ DOMAIN cache = 1 .. m
      /\ \A i \in 1 .. m : cache'[i] = cache[i]
      /\ cache'[m + 1] = f
  <2>1. cache' = Append(cache, f) /\ cache \in Seq(Frames) BY <1>1, PocTypes
  <2>. QED BY <1>2, <1>3, <2>1
<1>5. \A i \in DOMAIN cache : cache[i].poc # n
  <2>1. ASSUME NEW i \in DOMAIN cache PROVE cache[i].poc \in coded
    <3>1. cache[i] \in {g \in ToSet(written) \cup ToSet(cache) : g.sq = sq} BY DEF PocInv, ToSet
    <3>2. cache[i] \in {[sq |-> sq, poc |-> c] : c \in coded} BY <3>1 DEF PocInv, PocOrder
    <3>. QED BY <3>2
  <2>. QED BY <2>1
<1>6. ToSet(cache') = ToSet(cache) \cup {f}
  <2>1. ASSUME NEW g \in ToSet(cache') PROVE g \in ToSet(cache) \cup {f}
    <3>1. PICK i \in 1 .. m + 1 : g = cache'[i] BY <1>4, <2>1 DEF ToSet
    <3>2. CASE i = m + 1 BY <1>4, <3>1, <3>2
    <3>3. CASE i # m + 1
      <4>1. i \in 1 .. m BY <3>3
      <4>. QED BY <1>4, <3>1, <4>1 DEF ToSet
    <3>. QED BY <3>2, <3>3
  <2>2. ASSUME NEW g \in ToSet(cache) PROVE g \in ToSet(cache')
    <3>1. PICK i \in 1 .. m : g = cache[i] BY <1>4, <2>2 DEF ToSet
    <3>2. i \in 1 .. m + 1 OBVIOUS
    <3>. QED BY <1>4, <3>1, <3>2 DEF ToSet
  <2>3. f \in ToSet(cache')
    <3>1. m + 1 \in 1 .. m + 1 OBVIOUS
    <3>. QED BY <1>4, <3>1 DEF ToSet
  <2>. QED BY <2>1, <2>2, <2>3
<1>7. {g \in ToSet(written') \cup ToSet(cache') : g.sq = sq'} = {[sq |-> sq', poc |-> c] : c \in coded'}
  <2>1. {g \in ToSet(written) \cup ToSet(cache) : g.sq = sq} = {[sq |-> sq, poc |-> c] : c \in coded}
    BY DEF PocInv, PocOrder
  <2>2. {[sq |-> sq', poc |-> c] : c \in coded'} = {[sq |-> sq, poc |-> c] : c \in coded} \cup {f}
    BY <1>1
  <2>3. {g \in ToSet(written') \cup ToSet(cache') : g.sq = sq'}
          = {g \in ToSet(written) \cup ToSet(cache) : g.sq = sq} \cup {f}
    BY <1>2, <1>6
  <2>. QED BY <2>1, <2>2, <2>3
<1>8. ASSUME written' # <<>>, NEW i \in DOMAIN cache' PROVE Follows(cache'[i], written'[Len(written')])
  <2>1. CASE i \in 1 .. m BY <1>4, <1>8, <2>1 DEF PocInv, PocOrder
  <2>2. CASE i \notin 1 .. m
    <3>1. i = m + 1 BY <1>4, <2>2
    <3>2. Len(written) \in DOMAIN written BY <1>8, PocTypes
    <3>3. written[Len(written)].sq < sq
      <4>1. written[Len(written)].sq \in Nat BY <3>2, PocTypes, FrameIs
      <4>. QED BY <1>0, <3>2, <4>1 DEF PocInv
    <3>. QED BY <1>2, <1>4, <3>1, <3>3 DEF Follows
  <2>. QED BY <2>1, <2>2
<1>9. PocOrder'
  <2>1. \A i \in 1 .. Len(written') - 1 : Follows(written'[i + 1], written'[i]) BY DEF PocInv, PocOrder
  <2>. QED BY <1>7, <1>8, <2>1 DEF PocOrder, Follows
<1>10. PocTypeOK' BY <1>0, <1>4, PocTypes DEF PocTypeOK, PocInv
<1>11. \A i \in DOMAIN cache' : cache'[i].sq = sq'
  BY <1>2, <1>4 DEF PocInv
<1>12. ASSUME NEW i \in DOMAIN cache', NEW j \in DOMAIN cache', cache'[i].poc = cache'[j].poc PROVE i = j
  <2>1. i = m + 1 \/ i \in DOMAIN cache BY <1>4
  <2>2. j = m + 1 \/ j \in DOMAIN cache BY <1>4
  <2>. QED BY <1>2, <1>4, <1>5, <1>12, <2>1, <2>2 DEF PocInv
<1>13. Len(cache') <= MaxPocCache + 1 BY <1>0, <1>3, <1>4 DEF Full
<1>14. \A i \in DOMAIN written' : written'[i].sq <= sq' /\ written'[i].sq # sq' BY DEF PocInv
<1>. QED BY <1>0, <1>9, <1>10, <1>11, <1>12, <1>13, <1>14 DEF PocInv, Full

(* A full list gives up its first frame for another.                       *)
LEMMA FrameWrittenKeepsPocInv ==
  ASSUME PocInv, sq > 0, Full, NEW n \in 0 .. MaxPoc, n \notin coded,
         Cardinality({c \in coded : c > n}) <= Depth, coded' = coded \cup {n},
         written' = Append(written, cache[MinPoc(cache)]),
         cache' = Append(RemoveAt(cache, MinPoc(cache)), [sq |-> sq, poc |-> n]),
         sq' = sq
  PROVE  PocInv'
<1>0. /\ sq \in 1 .. MaxSequences /\ MaxPocCache \in Nat /\ MaxPoc \in Nat /\ n \in Nat
      /\ sq \in Nat
  BY CcPocAssumption, PocTypes DEF PocInv, PocTypeOK
<1>1. PICK f : f = [sq |-> sq, poc |-> n] OBVIOUS
<1>2. f \in Frames /\ f.sq = sq /\ f.poc = n
  <2>1. f.sq = sq /\ f.poc = n BY ONLY <1>1
  <2>2. sq \in 1 .. MaxSequences /\ n \in 0 .. MaxPoc BY <1>0
  <2>3. f \in Frames BY ONLY <1>1, <2>2, Zenon DEF Frames
  <2>. QED BY ONLY <2>1, <2>3
<1>3. PICK m \in Nat : m = Len(cache) BY PocTypes
<1>4. m > 0 /\ DOMAIN cache = 1 .. m /\ cache \in Seq(Frames) BY <1>0, <1>3, PocTypes DEF Full
<1>5. PICK k : k = MinPoc(cache) OBVIOUS
<1>6. k \in 1 .. m /\ \A j \in 1 .. m \ {k} : cache[k].poc < cache[j].poc
  <2>1. cache # <<>> BY <1>3, <1>4
  <2>. QED BY <1>4, <1>5, <2>1, LeastPoc
<1>7. cache[k].poc < n BY <1>5, FullKeepsUp
<1>8. PICK c0 : c0 = RemoveAt(cache, k) OBVIOUS
<1>9. /\ c0 \in Seq(Frames) /\ Len(c0) = m - 1
      /\ \A i \in 1 .. m - 1 : c0[i] = cache[IF i < k THEN i ELSE i + 1]
  <2>1. k \in 1 .. Len(cache) BY <1>3, <1>6
  <2>. QED BY <1>3, <1>4, <1>8, <2>1, Removed
<1>10. /\ cache' \in Seq(Frames) /\ Len(cache') = m /\ DOMAIN cache' = 1 .. m
       /\ \A i \in 1 .. m - 1 : cache'[i] = cache[IF i < k THEN i ELSE i + 1]
       /\ cache'[m] = f
  <2>1. cache' = Append(c0, f) BY <1>1, <1>5, <1>8
  <2>2. /\ cache' \in Seq(Frames) /\ Len(cache') = (m - 1) + 1
        /\ \A i \in 1 .. m - 1 : cache'[i] = c0[i]
        /\ cache'[(m - 1) + 1] = f
    <3>1. PICK l \in Nat : l = m - 1 BY <1>4
    <3>2. c0 \in Seq(Frames) /\ Len(c0) = l BY <1>9, <3>1
    <3>3. /\ Append(c0, f) \in Seq(Frames) /\ Len(Append(c0, f)) = l + 1
          /\ \A i \in 1 .. l : Append(c0, f)[i] = c0[i]
          /\ Append(c0, f)[l + 1] = f
      BY <1>2, <3>2
    <3>. QED BY <2>1, <3>1, <3>3
  <2>3. (m - 1) + 1 = m BY <1>4
  <2>4. DOMAIN cache' = 1 .. m BY <2>2, <2>3
  <2>. QED BY <1>9, <2>2, <2>3, <2>4
(* A place of the new list but the last is one of the old, not k.          *)
<1>11. ASSUME NEW i \in 1 .. m, i # m
       PROVE  \E j \in 1 .. m \ {k} : cache'[i] = cache[j] /\ j = IF i < k THEN i ELSE i + 1
  <2>1. i \in 1 .. m - 1 BY <1>11
  <2>2. PICK j : j = IF i < k THEN i ELSE i + 1 OBVIOUS
  <2>3. j \in 1 .. m \ {k} BY <1>6, <2>1, <2>2
  <2>. QED BY <1>10, <2>1, <2>2, <2>3
<1>12. PICK g : g = cache[k] OBVIOUS
<1>13. g \in Frames /\ g.sq = sq /\ g.poc \in Nat /\ g.poc < n
  <2>1. k \in DOMAIN cache BY <1>4, <1>6
  <2>2. g \in Frames /\ g.poc \in Nat BY <1>12, <2>1, PocTypes
  <2>3. g.sq = sq
    <3>1. \A i \in DOMAIN cache : cache[i].sq = sq BY Zenon DEF PocInv
    <3>. QED BY ONLY <1>12, <2>1, <3>1
  <2>. QED BY <1>7, <1>12, <2>2, <2>3
<1>14. PICK w \in Nat : w = Len(written) BY PocTypes
<1>15. /\ written' \in Seq(Frames) /\ Len(written') = w + 1 /\ DOMAIN written' = 1 .. w + 1
       /\ DOMAIN written = 1 .. w
       /\ \A i \in 1 .. w : written'[i] = written[i]
       /\ written'[w + 1] = g
  <2>1. written' = Append(written, g) /\ written \in Seq(Frames) BY <1>5, <1>12, PocTypes
  <2>. QED BY <1>13, <1>14, <2>1
<1>16. ASSUME NEW i \in 1 .. m PROVE cache'[i].sq = sq /\ cache'[i].poc \in Nat /\ cache'[i].poc > g.poc
  <2>1. CASE i = m BY <1>0, <1>2, <1>10, <1>13, <2>1
  <2>2. CASE i # m
    <3>1. PICK j \in 1 .. m \ {k} : cache'[i] = cache[j] BY <1>11, <2>2
    <3>. QED BY <1>4, <1>6, <1>12, <1>13, <3>1, PocTypes DEF PocInv
  <2>. QED BY <2>1, <2>2
<1>17. \A i \in 1 .. m : cache[i].poc # n
  <2>1. ASSUME NEW i \in DOMAIN cache PROVE cache[i].poc \in coded
    <3>1. cache[i] \in {h \in ToSet(written) \cup ToSet(cache) : h.sq = sq} BY DEF PocInv, ToSet
    <3>2. cache[i] \in {[sq |-> sq, poc |-> c] : c \in coded} BY <3>1 DEF PocInv, PocOrder
    <3>. QED BY <3>2
  <2>. QED BY <1>4, <2>1
<1>18. ASSUME NEW i \in 1 .. m, NEW j \in 1 .. m, cache'[i].poc = cache'[j].poc PROVE i = j
  <2>1. CASE i = m /\ j = m BY <2>1
  <2>2. CASE i = m /\ j # m
    <3>1. PICK l \in 1 .. m \ {k} : cache'[j] = cache[l] BY <1>11, <2>2
    <3>. QED BY <1>2, <1>10, <1>17, <1>18, <2>2, <3>1
  <2>3. CASE i # m /\ j = m
    <3>1. PICK l \in 1 .. m \ {k} : cache'[i] = cache[l] BY <1>11, <2>3
    <3>. QED BY <1>2, <1>10, <1>17, <1>18, <2>3, <3>1
  <2>4. CASE i # m /\ j # m
    <3>1. PICK a \in 1 .. m \ {k} : cache'[i] = cache[a] /\ a = IF i < k THEN i ELSE i + 1 BY <1>11, <2>4
    <3>2. PICK b \in 1 .. m \ {k} : cache'[j] = cache[b] /\ b = IF j < k THEN j ELSE j + 1 BY <1>11, <2>4
    <3>3. a = b BY <1>4, <1>18, <3>1, <3>2 DEF PocInv
    <3>4. k \in Nat /\ i \in Nat /\ j \in Nat BY <1>6
    <3>. QED BY ONLY <3>1, <3>2, <3>3, <3>4
  <2>. QED BY <2>1, <2>2, <2>3, <2>4
<1>19. ToSet(written') = ToSet(written) \cup {g}
  <2>1. ASSUME NEW h \in ToSet(written') PROVE h \in ToSet(written) \cup {g}
    <3>1. PICK i \in 1 .. w + 1 : h = written'[i] BY <1>15, <2>1 DEF ToSet
    <3>2. i = w + 1 \/ i \in 1 .. w OBVIOUS
    <3>. QED BY <1>15, <3>1, <3>2 DEF ToSet
  <2>2. ASSUME NEW h \in ToSet(written) PROVE h \in ToSet(written')
    <3>1. PICK i \in 1 .. w : h = written[i] BY <1>15, <2>2 DEF ToSet
    <3>2. i \in 1 .. w + 1 OBVIOUS
    <3>. QED BY <1>15, <3>1, <3>2 DEF ToSet
  <2>3. g \in ToSet(written')
    <3>1. w + 1 \in 1 .. w + 1 OBVIOUS
    <3>. QED BY <1>15, <3>1 DEF ToSet
  <2>. QED BY <2>1, <2>2, <2>3
<1>20. ToSet(cache') \cup {g} = ToSet(cache) \cup {f}
  <2>1. ASSUME NEW h \in ToSet(cache') PROVE h \in ToSet(cache) \cup {f}
    <3>1. PICK i \in 1 .. m : h = cache'[i] BY <1>10, <2>1 DEF ToSet
    <3>2. CASE i = m BY <1>10, <3>1, <3>2
    <3>3. CASE i # m
      <4>1. PICK j \in 1 .. m \ {k} : cache'[i] = cache[j] BY <1>11, <3>3
      <4>. QED BY <1>4, <3>1, <4>1 DEF ToSet
    <3>. QED BY <3>2, <3>3
  <2>2. ASSUME NEW h \in ToSet(cache), h # g PROVE h \in ToSet(cache')
    <3>1. PICK j \in 1 .. m : h = cache[j] BY <1>4, <2>2 DEF ToSet
    <3>2. j # k BY <1>12, <2>2, <3>1
    <3>3. PICK i : i = IF j < k THEN j ELSE j - 1 OBVIOUS
    <3>4. i \in 1 .. m - 1 /\ j = IF i < k THEN i ELSE i + 1 BY <1>6, <3>1, <3>2, <3>3
    <3>5. i \in 1 .. m /\ cache'[i] = cache[j] BY <1>10, <3>4
    <3>. QED BY <1>10, <3>1, <3>5 DEF ToSet
  <2>3. f \in ToSet(cache')
    <3>1. m \in 1 .. m BY <1>4
    <3>. QED BY <1>10, <3>1 DEF ToSet
  <2>4. g \in ToSet(cache) BY <1>4, <1>6, <1>12 DEF ToSet
  <2>. QED BY <2>1, <2>2, <2>3, <2>4
<1>21. {h \in ToSet(written') \cup ToSet(cache') : h.sq = sq'} = {[sq |-> sq', poc |-> c] : c \in coded'}
  <2>1. {h \in ToSet(written) \cup ToSet(cache) : h.sq = sq} = {[sq |-> sq, poc |-> c] : c \in coded}
    BY DEF PocInv, PocOrder
  <2>2. {[sq |-> sq', poc |-> c] : c \in coded'} = {[sq |-> sq, poc |-> c] : c \in coded} \cup {f}
    BY <1>1
  <2>3. ToSet(written') \cup ToSet(cache') = (ToSet(written) \cup ToSet(cache)) \cup {f}
    BY <1>19, <1>20
  <2>4. {h \in ToSet(written') \cup ToSet(cache') : h.sq = sq'}
          = {h \in ToSet(written) \cup ToSet(cache) : h.sq = sq} \cup {f}
    BY <1>2, <2>3
  <2>. QED BY <2>1, <2>2, <2>4
<1>22. ASSUME NEW i \in 1 .. w PROVE Follows(written'[i + 1], written'[i])
  <2>1. CASE i = w
    <3>1. written # <<>> /\ written'[i + 1] = g /\ written'[i] = written[Len(written)]
      BY <1>14, <1>15, <1>22, <2>1
    <3>. QED BY <1>4, <1>6, <1>12, <3>1 DEF PocInv, PocOrder
  <2>2. CASE i # w
    <3>1. i \in 1 .. w - 1 /\ i + 1 \in 1 .. w BY <1>22, <2>2
    <3>. QED BY <1>14, <1>15, <1>22, <3>1 DEF PocInv, PocOrder
  <2>. QED BY <2>1, <2>2
<1>23. PocOrder'
  <2>1. \A i \in 1 .. Len(written') - 1 : Follows(written'[i + 1], written'[i]) BY <1>15, <1>22
  <2>2. \A i \in DOMAIN cache' : Follows(cache'[i], written'[Len(written')])
    BY <1>10, <1>13, <1>15, <1>16 DEF Follows
  <2>. QED BY <1>21, <2>1, <2>2 DEF PocOrder, Follows
<1>24. PocTypeOK' BY <1>0, <1>10, <1>15 DEF PocTypeOK, PocInv
<1>25. \A i \in DOMAIN written' : written'[i].sq <= sq'
  <2>1. ASSUME NEW i \in 1 .. w + 1 PROVE written'[i].sq <= sq
    <3>1. CASE i = w + 1 BY <1>0, <1>13, <1>15, <3>1
    <3>2. CASE i # w + 1
      <4>1. i \in 1 .. w BY <3>2
      <4>. QED BY <1>15, <4>1 DEF PocInv
    <3>. QED BY <3>1, <3>2
  <2>. QED BY <1>15, <2>1
<1>26. Full' /\ Len(cache') <= MaxPocCache + 1 BY <1>3, <1>10 DEF Full, PocInv
<1>27. \A i \in DOMAIN cache' : cache'[i].sq = sq' BY <1>0, <1>10, <1>16
<1>28. \A i, j \in DOMAIN cache' : cache'[i].poc = cache'[j].poc => i = j BY <1>10, <1>18
<1>29. sq' # 0 BY <1>0
<1>. QED BY <1>23, <1>24, <1>25, <1>26, <1>27, <1>28, <1>29 DEF PocInv

(* The list, full or not, keeps the order.                                 *)
LEMMA PocInvariant == PocSpec => []PocInv
<1>1. PocInv /\ [PocNext]_pocVars => PocInv'
  <2>1. ASSUME PocInv, ReceiveIdr PROVE PocInv' BY <2>1, IdrKeepsPocInv
  <2>2. ASSUME PocInv, ReceiveFrame PROVE PocInv'
    <3>1. CASE Full BY <2>2, <3>1, FrameWrittenKeepsPocInv DEF ReceiveFrame
    <3>2. CASE ~Full BY <2>2, <3>2, FrameKeptKeepsPocInv DEF ReceiveFrame
    <3>. QED BY <3>1, <3>2
  <2>3. ASSUME PocInv, UNCHANGED pocVars PROVE PocInv'
    BY <2>3 DEF pocVars, PocInv, PocTypeOK, PocOrder, Follows, Full
  <2>. QED BY <2>1, <2>2, <2>3 DEF PocNext
<1>. QED BY <1>1, InitPocInv, PTL DEF PocSpec

-----------------------------------------------------------------------------
(* CcFields.  What is still to come, and what the buffers keep.            *)
ToCome(d, s, g, p) ==
  \/ \E i \in DOMAIN d : d[i] = p
  \/ p.pic > g.anchor
  \/ s + g.sent < p.pic /\ p.pic < g.anchor

Keeps(b, f) == f \in b \/ (f = "top" /\ "frame" \in b)

(* A piece is to come, kept or written.                                    *)
PiecesOnce ==
  /\ \A i, j \in DOMAIN due : due[i] = due[j] => i = j
  /\ \A i \in DOMAIN due : due[i].pic = group.anchor \/ due[i].pic = shown + group.sent
  /\ \A i, j \in DOMAIN out : out[i] = out[j] => i = j
  /\ \A i \in DOMAIN out : ~ToCome(due, shown, group, out[i])
  /\ \A f \in {"top", "bottom"} : Keeps(bits, f) =>
       /\ ~ToCome(due, shown, group, buffer[f])
       /\ \A i \in DOMAIN out : out[i] # buffer[f]
  /\ Keeps(bits, "top") /\ Keeps(bits, "bottom") => buffer["top"] # buffer["bottom"]

Chain(s) ==
  /\ \A i \in 1 .. Len(s) - 1 :
       /\ Before(s[i], s[i + 1]) /\ s[i + 1].pic <= s[i].pic + 1
       /\ s[i].part = "top" \/ s[i + 1].part = "bottom" => s[i + 1].pic = s[i].pic
  /\ s # <<>> => s[1].pic = 1

Part(n, f) == [pic |-> n, part |-> f]

(* What was written ends with picture n, or between its fields.            *)
EndsWith(s, n) ==
  IF s = <<>> THEN n = 0 ELSE s[Len(s)].pic = n /\ s[Len(s)].part # "top"
EndsWithin(s, n) == s # <<>> /\ s[Len(s)] = Part(n, "top")

(* The buffers keep picture n, none if n is 0.                             *)
KeepsPicture(b, kept, n) ==
  IF n = 0 THEN b = {}
  ELSE \/ b = {"frame"} /\ kept["top"] = Part(n, "frame")
       \/ /\ b = {"top", "bottom"}
          /\ kept["top"] = Part(n, "top") /\ kept["bottom"] = Part(n, "bottom")

(* The places in a stream of which nothing was lost.                       *)
BetweenPictures ==
  due = <<>> /\ KeepsPicture(bits, buffer, group.anchor) /\ EndsWith(out, shown + group.sent)
InB ==
  /\ group.sent > 0 /\ KeepsPicture(bits, buffer, group.anchor)
  /\ \/ due \in Picture(shown + group.sent) /\ EndsWith(out, shown + group.sent - 1)
     \/ due = <<Part(shown + group.sent, "bottom")>> /\ EndsWithin(out, shown + group.sent)
AnchorComes ==
  /\ due \in Picture(group.anchor) /\ group.anchor > 0 /\ group.sent = 0
  /\ KeepsPicture(bits, buffer, shown) /\ EndsWith(out, IF shown = 0 THEN 0 ELSE shown - 1)
AnchorHalf ==
  /\ due = <<Part(group.anchor, "bottom")>> /\ group.anchor > 0 /\ group.sent = 0
  /\ buffer["top"] = Part(group.anchor, "top")
  /\ \/ bits = {"top"} /\ EndsWith(out, shown)
     \/ /\ bits = {"top", "bottom"} /\ buffer["bottom"] = Part(shown, "bottom")
        /\ shown > 0 /\ EndsWithin(out, shown)

CcInv ==
  /\ CcTypeOK
  /\ shown + group.sent < group.anchor \/ (group.anchor = 0 /\ shown = 0 /\ group.sent = 0)
  /\ PiecesOnce
  /\ ~lost => /\ Chain(out)
              /\ BetweenPictures \/ InB \/ AnchorComes \/ AnchorHalf

LEMMA InitCcInv == CcInit => CcInv
<1>. SUFFICES ASSUME CcInit PROVE CcInv OBVIOUS
<1>1. 0 \in 0 .. MaxPictures BY CcFieldsAssumption
<1>2. NoPiece \in Pieces BY <1>1 DEF NoPiece, Pieces
<1>3. CcTypeOK
  <2>1. buffer \in [{"top", "bottom"} -> Pieces] BY <1>2 DEF CcInit
  <2>2. bits \in (SUBSET {"top", "bottom"}) \cup {{"frame"}} BY DEF CcInit
  <2>3. group \in [anchor : 0 .. MaxPictures, sent : 0 .. MaxPictures] BY <1>1 DEF CcInit
  <2>4. shown \in 0 .. MaxPictures /\ lost \in BOOLEAN BY <1>1 DEF CcInit
  <2>5. <<>> \in Seq(Pieces) OBVIOUS
  <2>. QED BY <2>1, <2>2, <2>3, <2>4, <2>5 DEF CcTypeOK, CcInit
<1>4. PiecesOnce BY DEF CcInit, PiecesOnce, Keeps
<1>5. Chain(out) /\ BetweenPictures
  BY DEF CcInit, Chain, BetweenPictures, KeepsPicture, EndsWith
<1>. QED BY <1>3, <1>4, <1>5 DEF CcInv, CcInit

LEMMA CcTypes ==
  ASSUME CcInv
  PROVE  /\ shown \in Nat /\ group.anchor \in Nat /\ group.sent \in Nat
         /\ group = [anchor |-> group.anchor, sent |-> group.sent]
         /\ shown \in 0 .. MaxPictures /\ group.anchor \in 0 .. MaxPictures
         /\ group.sent \in 0 .. MaxPictures /\ MaxPictures \in Nat /\ MaxB \in Nat
         /\ due \in Seq(Pieces) /\ out \in Seq(Pieces)
         /\ buffer \in [{"top", "bottom"} -> Pieces]
         /\ bits \in (SUBSET {"top", "bottom"}) \cup {{"frame"}}
BY CcFieldsAssumption DEF CcInv, CcTypeOK

LEMMA Parts ==
  /\ \A p \in Pieces : /\ p.pic \in Nat /\ p.part \in {"frame", "top", "bottom"}
                       /\ p = Part(p.pic, p.part)
  /\ \A n, f : Part(n, f).pic = n /\ Part(n, f).part = f
  /\ \A n \in 0 .. MaxPictures, f \in {"frame", "top", "bottom"} : Part(n, f) \in Pieces
BY CcFieldsAssumption DEF Pieces, Part

LEMMA DuePictures ==
  ASSUME NEW n \in 0 .. MaxPictures, NEW d \in Picture(n)
  PROVE  /\ d \in Seq(Pieces) /\ d # <<>>
         /\ d = <<Part(n, "frame")>> \/ d = <<Part(n, "top"), Part(n, "bottom")>>
         /\ \A i \in DOMAIN d : d[i].pic = n
         /\ \A i, j \in DOMAIN d : d[i] = d[j] => i = j
<1>1. d = <<Part(n, "frame")>> \/ d = <<Part(n, "top"), Part(n, "bottom")>> BY DEF Picture, Part
<1>2. \A f \in {"frame", "top", "bottom"} : Part(n, f) \in Pieces /\ Part(n, f).pic = n BY Parts
<1>3. Part(n, "top") # Part(n, "bottom") BY DEF Part
<1>4. CASE d = <<Part(n, "frame")>> BY <1>2, <1>4
<1>5. CASE d = <<Part(n, "top"), Part(n, "bottom")>> BY <1>2, <1>3, <1>5
<1>. QED BY <1>1, <1>4, <1>5

LEMMA FirstDue ==
  ASSUME CcInv, due # <<>>
  PROVE  /\ Head(due) \in Pieces /\ Tail(due) \in Seq(Pieces)
         /\ Head(due) = due[1] /\ 1 \in DOMAIN due
         /\ \A i \in DOMAIN Tail(due) : i + 1 \in DOMAIN due /\ i + 1 # 1 /\ Tail(due)[i] = due[i + 1]
<1>1. due \in Seq(Pieces) BY CcTypes
<1>2. /\ Head(due) = due[1] /\ Tail(due) \in Seq(Pieces) /\ Len(Tail(due)) = Len(due) - 1
      /\ \A i \in 1 .. Len(due) - 1 : Tail(due)[i] = due[i + 1]
      /\ Len(due) \in Nat /\ Len(due) > 0 /\ DOMAIN due = 1 .. Len(due)
  BY <1>1, HeadTailProperties
<1>3. DOMAIN Tail(due) = 1 .. Len(due) - 1 BY <1>2
<1>. QED BY <1>1, <1>2, <1>3

-----------------------------------------------------------------------------
(* The pieces of a picture that begins were to come.                       *)
LEMMA NextPictureOnce == ASSUME CcInv, NextPicture PROVE PiecesOnce'
<1>0. /\ shown \in Nat /\ group.anchor \in Nat /\ group.sent \in Nat
      /\ shown + group.sent < group.anchor \/ (group.anchor = 0 /\ shown = 0 /\ group.sent = 0)
      /\ UNCHANGED <<bits, buffer, out>> /\ due = <<>>
  BY CcTypes DEF CcInv, NextPicture
<1>1. PICK n :
        /\ n \in 0 .. MaxPictures /\ due' \in Picture(n)
        /\ n = group'.anchor \/ n = shown' + group'.sent
        /\ n > shown + group.sent /\ (n < group.anchor \/ n > group.anchor)
        /\ shown' + group'.sent > shown + group.sent \/ shown' + group'.sent = group.anchor
        /\ \/ group'.anchor = group.anchor /\ shown' + group'.sent > shown + group.sent
           \/ group'.anchor > group.anchor /\ shown' + group'.sent = group.anchor
        /\ shown' + group'.sent \in Nat /\ group'.anchor \in Nat
  <2>1. CASE shown + group.sent + 1 < group.anchor
    <3>1. /\ due' \in Picture(shown + group.sent + 1) /\ shown' = shown
          /\ group' = [group EXCEPT !.sent = @ + 1]
      BY <2>1 DEF NextPicture
    <3>2. group'.anchor = group.anchor /\ group'.sent = group.sent + 1 BY <3>1, CcTypes
    <3>3. shown + group.sent + 1 \in 0 .. MaxPictures BY <1>0, <2>1, CcTypes
    <3>4. PICK k : k = shown + group.sent + 1 OBVIOUS
    <3>5. k \in 0 .. MaxPictures /\ due' \in Picture(k) BY <3>1, <3>3, <3>4
    <3>6. shown' + group'.sent = k /\ k \in Nat /\ k > shown + group.sent /\ k < group.anchor
      BY <1>0, <2>1, <3>1, <3>2, <3>4
    <3>. QED BY <1>0, <3>2, <3>5, <3>6
  <2>2. CASE ~(shown + group.sent + 1 < group.anchor)
    <3>1. PICK m \in 0 .. MaxB :
            /\ group.anchor + m + 1 <= MaxPictures /\ due' \in Picture(group.anchor + m + 1)
            /\ group' = [anchor |-> group.anchor + m + 1, sent |-> 0] /\ shown' = group.anchor
      BY <2>2 DEF NextPicture
    <3>2. m \in Nat BY CcTypes
    <3>3. group'.anchor = group.anchor + m + 1 /\ group'.sent = 0 BY <3>1
    <3>4. PICK k : k = group.anchor + m + 1 OBVIOUS
    <3>5. k \in 0 .. MaxPictures /\ due' \in Picture(k) BY <1>0, <3>1, <3>2, <3>4, CcTypes
    <3>6. k \in Nat /\ k > group.anchor /\ k > shown + group.sent
      <4>1. k \in Nat /\ k > group.anchor BY <1>0, <3>2, <3>4
      <4>2. shown + group.sent <= group.anchor BY <1>0
      <4>. QED BY <1>0, <4>1, <4>2
    <3>7. group'.anchor = k /\ shown' + group'.sent = group.anchor
      <4>1. shown' = group.anchor BY <3>1
      <4>. QED BY <1>0, <3>3, <3>4, <4>1
    <3>. QED BY <1>0, <3>5, <3>6, <3>7
  <2>. QED BY <2>1, <2>2
<1>2. /\ \A i \in DOMAIN due' : due'[i].pic = n
      /\ \A i, j \in DOMAIN due' : due'[i] = due'[j] => i = j
  BY <1>1, DuePictures
<1>3. ASSUME NEW p \in Pieces, ToCome(due', shown', group', p) PROVE ToCome(due, shown, group, p)
  <2>0. p.pic \in Nat BY Parts
  <2>1. CASE \E i \in DOMAIN due' : due'[i] = p BY <1>0, <1>1, <1>2, <2>0, <2>1 DEF ToCome
  <2>2. CASE p.pic > group'.anchor BY <1>0, <1>1, <2>0, <2>2 DEF ToCome
  <2>3. CASE shown' + group'.sent < p.pic /\ p.pic < group'.anchor
    BY <1>0, <1>1, <2>0, <2>3 DEF ToCome
  <2>. QED BY <1>3, <2>1, <2>2, <2>3 DEF ToCome
<1>4. /\ \A i \in DOMAIN out : out[i] \in Pieces
      /\ \A f \in {"top", "bottom"} : buffer[f] \in Pieces
  BY CcTypes
<1>5. PiecesOnce BY DEF CcInv
<1>6. \A i \in DOMAIN out' : ~ToCome(due', shown', group', out'[i]) BY <1>0, <1>3, <1>4, <1>5 DEF PiecesOnce
<1>7. ASSUME NEW f \in {"top", "bottom"}, Keeps(bits', f)
      PROVE  ~ToCome(due', shown', group', buffer'[f]) /\ \A i \in DOMAIN out : out[i] # buffer[f]
  <2>1. Keeps(bits, f) BY <1>0, <1>7 DEF Keeps
  <2>. QED BY <1>0, <1>3, <1>4, <1>5, <2>1 DEF PiecesOnce
<1>. QED BY <1>0, <1>1, <1>2, <1>5, <1>6, <1>7 DEF PiecesOnce, Keeps

(* The first piece due is nowhere else, and once received is not to come.  *)
LEMMA FirstDueOnce ==
  ASSUME CcInv, due # <<>>, due' = Tail(due), UNCHANGED <<shown, group>>
  PROVE  /\ \A i \in DOMAIN out : out[i] # Head(due)
         /\ \A f \in {"top", "bottom"} : Keeps(bits, f) => buffer[f] # Head(due)
         /\ ~ToCome(due', shown', group', Head(due))
         /\ \A p : ToCome(due', shown', group', p) => ToCome(due, shown, group, p)
         /\ \A i, j \in DOMAIN due' : due'[i] = due'[j] => i = j
         /\ \A i \in DOMAIN due' : due'[i].pic = group'.anchor \/ due'[i].pic = shown' + group'.sent
<1>1. PICK p : p = Head(due) OBVIOUS
<1>2. /\ p \in Pieces /\ p = due[1] /\ 1 \in DOMAIN due
      /\ \A i \in DOMAIN due' : i + 1 \in DOMAIN due /\ i + 1 # 1 /\ due'[i] = due[i + 1]
  BY <1>1, FirstDue
<1>3. /\ ToCome(due, shown, group, p)
      /\ p.pic = group.anchor \/ p.pic = shown + group.sent
      /\ \A i, j \in DOMAIN due : due[i] = due[j] => i = j
      /\ \A i \in DOMAIN due : due[i].pic = group.anchor \/ due[i].pic = shown + group.sent
  BY <1>2 DEF ToCome, CcInv, PiecesOnce
<1>4. /\ \A i \in DOMAIN out : out[i] # p
      /\ \A f \in {"top", "bottom"} : Keeps(bits, f) => buffer[f] # p
  BY <1>3 DEF CcInv, PiecesOnce
<1>5. \A i \in DOMAIN due' : due'[i] # p BY <1>2, <1>3
<1>6. /\ p.pic \in Nat /\ shown \in Nat /\ group.anchor \in Nat /\ group.sent \in Nat
      /\ shown + group.sent <= group.anchor
  BY <1>2, CcTypes, Parts DEF CcInv
<1>7. ~ToCome(due', shown', group', p) BY <1>3, <1>5, <1>6 DEF ToCome
<1>8. ASSUME NEW q, ToCome(due', shown', group', q) PROVE ToCome(due, shown, group, q)
  <2>1. CASE \E i \in DOMAIN due' : due'[i] = q BY <1>2, <2>1 DEF ToCome
  <2>2. CASE ~\E i \in DOMAIN due' : due'[i] = q BY <1>8, <2>2 DEF ToCome
  <2>. QED BY <2>1, <2>2
<1>9. \A i \in DOMAIN due' : i \in Nat BY <1>1, FirstDue, CcTypes
<1>10. \A i, j \in DOMAIN due' : due'[i] = due'[j] => i = j BY <1>2, <1>3, <1>9
<1>11. \A i \in DOMAIN due' : due'[i].pic = group'.anchor \/ due'[i].pic = shown' + group'.sent
  BY <1>2, <1>3
<1>. QED BY <1>1, <1>4, <1>7, <1>8, <1>10, <1>11

LEMMA LoseFieldOnce == ASSUME CcInv, LoseField PROVE PiecesOnce'
<1>1. due # <<>> /\ due' = Tail(due) /\ UNCHANGED <<shown, group, bits, buffer, out>> BY DEF LoseField
<1>2. /\ \A p : ToCome(due', shown', group', p) => ToCome(due, shown, group, p)
      /\ \A i, j \in DOMAIN due' : due'[i] = due'[j] => i = j
      /\ \A i \in DOMAIN due' : due'[i].pic = group'.anchor \/ due'[i].pic = shown' + group'.sent
  BY <1>1, FirstDueOnce
<1>3. PiecesOnce BY DEF CcInv
<1>4. \A i \in DOMAIN out' : ~ToCome(due', shown', group', out'[i]) BY <1>1, <1>2, <1>3 DEF PiecesOnce
<1>5. ASSUME NEW f \in {"top", "bottom"}, Keeps(bits', f)
      PROVE  ~ToCome(due', shown', group', buffer'[f]) /\ \A i \in DOMAIN out : out[i] # buffer[f]
  <2>1. Keeps(bits, f) /\ buffer'[f] = buffer[f] BY <1>1, <1>5 DEF Keeps
  <2>2. ~ToCome(due, shown, group, buffer[f]) /\ \A i \in DOMAIN out : out[i] # buffer[f]
    BY <1>3, <2>1 DEF PiecesOnce
  <2>. QED BY <1>2, <2>1, <2>2
<1>. QED BY <1>1, <1>2, <1>3, <1>4, <1>5 DEF PiecesOnce, Keeps

(* A piece that was not written yet is written.                            *)
LEMMA WrittenOnce ==
  ASSUME NEW s \in Seq(Pieces), NEW x \in Pieces,
         \A i, j \in DOMAIN s : s[i] = s[j] => i = j, \A i \in DOMAIN s : s[i] # x
  PROVE  /\ Append(s, x) \in Seq(Pieces)
         /\ \A i, j \in DOMAIN Append(s, x) : Append(s, x)[i] = Append(s, x)[j] => i = j
         /\ \A i \in DOMAIN Append(s, x) :
              Append(s, x)[i] = x \/ (i \in DOMAIN s /\ Append(s, x)[i] = s[i])
<1>1. PICK n \in Nat : n = Len(s) OBVIOUS
<1>2. PICK t : t = Append(s, x) OBVIOUS
<1>3. /\ t \in Seq(Pieces) /\ DOMAIN t = 1 .. n + 1 /\ DOMAIN s = 1 .. n
      /\ \A i \in 1 .. n : t[i] = s[i]
      /\ t[n + 1] = x
  BY <1>1, <1>2
<1>4. \A i \in 1 .. n + 1 : i = n + 1 \/ i \in 1 .. n OBVIOUS
<1>5. ASSUME NEW i \in DOMAIN t, NEW j \in DOMAIN t, t[i] = t[j] PROVE i = j
  BY <1>3, <1>4, <1>5
<1>6. \A i \in DOMAIN t : t[i] = x \/ (i \in DOMAIN s /\ t[i] = s[i]) BY <1>3, <1>4
<1>. QED BY <1>2, <1>3, <1>5, <1>6

LEMMA ReceiveBOnce == ASSUME CcInv, ReceiveB PROVE PiecesOnce'
<1>1. /\ due # <<>> /\ due' = Tail(due) /\ UNCHANGED <<shown, group, buffer>>
      /\ \/ out' = Append(out, Head(due)) /\ bits' = bits
         \/ out' = out /\ bits' = {}
  BY DEF ReceiveB
<1>2. PICK p \in Pieces : p = Head(due) BY <1>1, FirstDue
<1>3. /\ \A i \in DOMAIN out : out[i] # p
      /\ \A f \in {"top", "bottom"} : Keeps(bits, f) => buffer[f] # p
      /\ ~ToCome(due', shown', group', p)
      /\ \A q : ToCome(due', shown', group', q) => ToCome(due, shown, group, q)
      /\ \A i, j \in DOMAIN due' : due'[i] = due'[j] => i = j
      /\ \A i \in DOMAIN due' : due'[i].pic = group'.anchor \/ due'[i].pic = shown' + group'.sent
  BY <1>1, <1>2, FirstDueOnce
<1>4. PiecesOnce /\ out \in Seq(Pieces) BY CcTypes DEF CcInv
<1>5. CASE out' = out /\ bits' = {}
  <2>1. \A i \in DOMAIN out' : ~ToCome(due', shown', group', out'[i]) BY <1>3, <1>4, <1>5 DEF PiecesOnce
  <2>2. \A f : ~Keeps(bits', f) BY <1>5 DEF Keeps
  <2>. QED BY <1>3, <1>4, <1>5, <2>1, <2>2 DEF PiecesOnce
<1>6. CASE out' = Append(out, p) /\ bits' = bits
  <2>1. /\ \A i, j \in DOMAIN out' : out'[i] = out'[j] => i = j
        /\ \A i \in DOMAIN out' : out'[i] = p \/ (i \in DOMAIN out /\ out'[i] = out[i])
    BY <1>3, <1>4, <1>6, WrittenOnce DEF PiecesOnce
  <2>2. ASSUME NEW i \in DOMAIN out' PROVE ~ToCome(due', shown', group', out'[i])
    BY <1>3, <1>4, <2>1, <2>2 DEF PiecesOnce
  <2>3. ASSUME NEW f \in {"top", "bottom"}, Keeps(bits', f)
        PROVE  ~ToCome(due', shown', group', buffer[f]) /\ \A i \in DOMAIN out' : out'[i] # buffer[f]
    <3>1. Keeps(bits, f) BY <1>6, <2>3
    <3>2. ~ToCome(due, shown, group, buffer[f]) /\ \A i \in DOMAIN out : out[i] # buffer[f]
      BY <1>4, <3>1 DEF PiecesOnce
    <3>. QED BY <1>3, <2>1, <3>1, <3>2
  <2>4. Keeps(bits', "top") /\ Keeps(bits', "bottom") => buffer["top"] # buffer["bottom"]
    BY <1>4, <1>6 DEF PiecesOnce
  <2>. QED BY <1>1, <1>3, <2>1, <2>2, <2>3, <2>4 DEF PiecesOnce
<1>. QED BY <1>1, <1>2, <1>5, <1>6

(* A piece comes into slot n, and what was kept in the slots w is written. *)
LEMMA ReceivedOnce ==
  ASSUME CcInv, due # <<>>, due' = Tail(due), UNCHANGED <<shown, group>>,
         NEW n \in {"top", "bottom"}, NEW w \in SUBSET {"top", "bottom"},
         \A f \in w : Keeps(bits, f),
         \A i, j \in DOMAIN out' : out'[i] = out'[j] => i = j,
         \A i \in DOMAIN out' : \/ \E j \in DOMAIN out : out'[i] = out[j]
                                \/ \E f \in w : out'[i] = buffer[f],
         buffer' = [buffer EXCEPT ![n] = Head(due)],
         \A f \in {"top", "bottom"} : Keeps(bits', f) => f = n \/ (f \notin w /\ Keeps(bits, f))
  PROVE  PiecesOnce'
<1>1. PICK p \in Pieces : p = Head(due) BY FirstDue
<1>2. /\ \A i \in DOMAIN out : out[i] # p
      /\ \A f \in {"top", "bottom"} : Keeps(bits, f) => buffer[f] # p
      /\ ~ToCome(due', shown', group', p)
      /\ \A q : ToCome(due', shown', group', q) => ToCome(due, shown, group, q)
      /\ \A i, j \in DOMAIN due' : due'[i] = due'[j] => i = j
      /\ \A i \in DOMAIN due' : due'[i].pic = group'.anchor \/ due'[i].pic = shown' + group'.sent
  BY <1>1, FirstDueOnce
<1>3. /\ \A i \in DOMAIN out : ~ToCome(due, shown, group, out[i])
      /\ \A f \in {"top", "bottom"} : Keeps(bits, f) =>
           ~ToCome(due, shown, group, buffer[f]) /\ \A i \in DOMAIN out : out[i] # buffer[f]
      /\ \A f, g \in {"top", "bottom"} : Keeps(bits, f) /\ Keeps(bits, g) /\ f # g => buffer[f] # buffer[g]
  BY DEF CcInv, PiecesOnce
<1>4. buffer'[n] = p /\ \A f \in {"top", "bottom"} \ {n} : buffer'[f] = buffer[f] BY <1>1, CcTypes
<1>5. ASSUME NEW i \in DOMAIN out' PROVE ~ToCome(due', shown', group', out'[i])
  BY <1>2, <1>3, <1>5
<1>6. ASSUME NEW f \in {"top", "bottom"}, Keeps(bits', f)
      PROVE  ~ToCome(due', shown', group', buffer'[f]) /\ \A i \in DOMAIN out' : out'[i] # buffer'[f]
  <2>1. CASE f = n BY <1>2, <1>4, <2>1
  <2>2. CASE f # n
    <3>1. f \notin w /\ Keeps(bits, f) /\ buffer'[f] = buffer[f] BY <1>4, <1>6, <2>2
    <3>2. ~ToCome(due', shown', group', buffer[f]) BY <1>2, <1>3, <3>1
    <3>3. \A i \in DOMAIN out : out[i] # buffer[f] BY <1>3, <3>1
    <3>4. \A g \in w : buffer[g] # buffer[f] BY <1>3, <3>1
    <3>. QED BY <3>1, <3>2, <3>3, <3>4
  <2>. QED BY <2>1, <2>2
<1>7. ASSUME Keeps(bits', "top"), Keeps(bits', "bottom") PROVE buffer'["top"] # buffer'["bottom"]
  <2>1. CASE n = "top" BY <1>2, <1>4, <1>7, <2>1
  <2>2. CASE n = "bottom" BY <1>2, <1>4, <1>7, <2>2
  <2>. QED BY <2>1, <2>2
<1>. QED BY <1>2, <1>5, <1>6, <1>7 DEF PiecesOnce, Keeps

(* What a slot keeps is in no sequence that holds what was written.        *)
LEMMA KeptNew ==
  ASSUME CcInv
  PROVE  /\ \A i, j \in DOMAIN out : out[i] = out[j] => i = j
         /\ \A f \in {"top", "bottom"} : buffer[f] \in Pieces
         /\ \A f \in {"top", "bottom"} : Keeps(bits, f) => \A i \in DOMAIN out : out[i] # buffer[f]
         /\ Keeps(bits, "top") /\ Keeps(bits, "bottom") => buffer["top"] # buffer["bottom"]
         /\ out \in Seq(Pieces)
<1>1. PiecesOnce BY DEF CcInv
<1>2. out \in Seq(Pieces) /\ \A f \in {"top", "bottom"} : buffer[f] \in Pieces BY CcTypes
<1>. QED BY <1>1, <1>2 DEF PiecesOnce

LEMMA FrameOnce ==
  ASSUME CcInv, due # <<>>, due' = Tail(due), UNCHANGED <<shown, group>>, DecodeFrame(Head(due))
  PROVE  PiecesOnce' /\ out' \in Seq(Pieces)
<1>1. PICK w : w = {f \in {"top", "bottom"} : Keeps(bits, f)} OBVIOUS
<1>2. PICK o : o = out \o Frame1 OBVIOUS
<1>3. /\ o \in Seq(Pieces)
      /\ \A i, j \in DOMAIN o : o[i] = o[j] => i = j
      /\ \A i \in DOMAIN o : \/ \E j \in DOMAIN out : o[i] = out[j]
                             \/ Keeps(bits, "top") /\ o[i] = buffer["top"]
  <2>1. CASE Keeps(bits, "top")
    <3>1. o = Append(out, buffer["top"])
      <4>1. Frame1 = <<buffer["top"]>> BY <2>1 DEF Frame1, Keeps
      <4>. QED BY <1>2, <4>1, KeptNew, AppendIsConcat
    <3>. QED BY <2>1, <3>1, KeptNew, WrittenOnce
  <2>2. CASE ~Keeps(bits, "top")
    <3>1. Frame1 = <<>> BY <2>2 DEF Frame1, Keeps
    <3>2. o = out BY <1>2, <3>1, KeptNew
    <3>. QED BY <3>2, KeptNew
  <2>. QED BY <2>1, <2>2
<1>4. /\ out' \in Seq(Pieces)
      /\ \A i, j \in DOMAIN out' : out'[i] = out'[j] => i = j
      /\ \A i \in DOMAIN out' : \/ \E j \in DOMAIN o : out'[i] = o[j]
                                \/ Keeps(bits, "bottom") /\ out'[i] = buffer["bottom"]
  <2>1. out' = o \o Field2 BY <1>2 DEF DecodeFrame
  <2>2. CASE Keeps(bits, "bottom")
    <3>1. Field2 = <<buffer["bottom"]>> BY <2>2 DEF Field2, Keeps
    <3>2. out' = Append(o, buffer["bottom"]) BY <1>3, <2>1, <3>1, KeptNew, AppendIsConcat
    <3>3. \A i \in DOMAIN o : o[i] # buffer["bottom"] BY <1>3, <2>2, KeptNew
    <3>. QED BY <1>3, <2>2, <3>2, <3>3, KeptNew, WrittenOnce
  <2>3. CASE ~Keeps(bits, "bottom")
    <3>1. Field2 = <<>> BY <2>3 DEF Field2, Keeps
    <3>2. out' = o BY <1>3, <2>1, <3>1
    <3>. QED BY <1>3, <3>2
  <2>. QED BY <2>2, <2>3
<1>5. \A i \in DOMAIN out' : \/ \E j \in DOMAIN out : out'[i] = out[j]
                             \/ \E f \in w : out'[i] = buffer[f]
  <2>1. Keeps(bits, "top") => "top" \in w BY <1>1
  <2>2. Keeps(bits, "bottom") => "bottom" \in w BY <1>1
  <2>. QED BY <1>3, <1>4, <2>1, <2>2
<1>6. buffer' = [buffer EXCEPT !["top"] = Head(due)] /\ bits' = {"frame"} BY DEF DecodeFrame
<1>7. \A f \in {"top", "bottom"} : Keeps(bits', f) => f = "top" BY <1>6 DEF Keeps
<1>8. w \in SUBSET {"top", "bottom"} /\ \A f \in w : Keeps(bits, f) BY <1>1
<1>. QED BY <1>4, <1>5, <1>6, <1>7, <1>8, ReceivedOnce

(* A field comes: what it takes the place of, if anything, is written.     *)
LEMMA FieldKept ==
  ASSUME CcInv, due # <<>>, due' = Tail(due), UNCHANGED <<shown, group, out>>,
         NEW n \in {"top", "bottom"}, buffer' = [buffer EXCEPT ![n] = Head(due)],
         \A f \in {"top", "bottom"} : Keeps(bits', f) => f = n \/ Keeps(bits, f)
  PROVE  PiecesOnce' /\ out' \in Seq(Pieces)
<1>1. PICK w : w = {} OBVIOUS
<1>2. w \in SUBSET {"top", "bottom"} /\ \A f : f \notin w BY <1>1
<1>3. /\ \A i, j \in DOMAIN out' : out'[i] = out'[j] => i = j
      /\ \A i \in DOMAIN out' : \/ \E j \in DOMAIN out : out'[i] = out[j]
                                \/ \E f \in w : out'[i] = buffer[f]
  BY KeptNew
<1>4. \A f \in {"top", "bottom"} : Keeps(bits', f) => f = n \/ (f \notin w /\ Keeps(bits, f)) BY <1>2
<1>. QED BY <1>2, <1>3, <1>4, KeptNew, ReceivedOnce

LEMMA FieldWritten ==
  ASSUME CcInv, due # <<>>, due' = Tail(due), UNCHANGED <<shown, group>>,
         NEW n \in {"top", "bottom"}, buffer' = [buffer EXCEPT ![n] = Head(due)],
         NEW k \in {"top", "bottom"}, Keeps(bits, k), out' = Append(out, buffer[k]),
         \A f \in {"top", "bottom"} : Keeps(bits', f) => f = n \/ (f # k /\ Keeps(bits, f))
  PROVE  PiecesOnce' /\ out' \in Seq(Pieces)
<1>1. PICK w : w = {k} OBVIOUS
<1>2. w \in SUBSET {"top", "bottom"} /\ \A f : f \in w <=> f = k BY <1>1
<1>3. /\ out' \in Seq(Pieces)
      /\ \A i, j \in DOMAIN out' : out'[i] = out'[j] => i = j
      /\ \A i \in DOMAIN out' : out'[i] = buffer[k] \/ (i \in DOMAIN out /\ out'[i] = out[i])
  BY KeptNew, WrittenOnce
<1>4. \A i \in DOMAIN out' : \/ \E j \in DOMAIN out : out'[i] = out[j]
                             \/ \E f \in w : out'[i] = buffer[f]
  BY <1>2, <1>3
<1>5. \A f \in {"top", "bottom"} : Keeps(bits', f) => f = n \/ (f \notin w /\ Keeps(bits, f)) BY <1>2
<1>6. \A f \in w : Keeps(bits, f) BY <1>2
<1>. QED BY <1>2, <1>3, <1>4, <1>5, <1>6, ReceivedOnce

LEMMA TopOnce ==
  ASSUME CcInv, due # <<>>, due' = Tail(due), UNCHANGED <<shown, group>>, DecodeTop(Head(due))
  PROVE  PiecesOnce' /\ out' \in Seq(Pieces)
<1>1. buffer' = [buffer EXCEPT !["top"] = Head(due)] BY DEF DecodeTop
<1>2. CASE Both
  <2>1. out' = Append(out, buffer["top"]) /\ bits' = (bits \cap {"bottom"}) \cup {"top"}
    BY <1>2 DEF DecodeTop
  <2>2. Keeps(bits, "top") BY <1>2 DEF Both, Keeps
  <2>3. \A f \in {"top", "bottom"} : Keeps(bits', f) => f = "top" \/ (f # "top" /\ Keeps(bits, f))
    BY <2>1 DEF Keeps
  <2>. QED BY <1>1, <2>1, <2>2, <2>3, FieldWritten
<1>3. CASE ~Both
  <2>1. out' = out /\ bits' = bits \cup {"top"} BY <1>3 DEF DecodeTop
  <2>2. \A f \in {"top", "bottom"} : Keeps(bits', f) => f = "top" \/ Keeps(bits, f) BY <2>1 DEF Keeps
  <2>. QED BY <1>1, <2>1, <2>2, FieldKept
<1>. QED BY <1>2, <1>3

LEMMA BottomOnce ==
  ASSUME CcInv, due # <<>>, due' = Tail(due), UNCHANGED <<shown, group>>, DecodeBottom(Head(due))
  PROVE  PiecesOnce' /\ out' \in Seq(Pieces)
<1>1. buffer' = [buffer EXCEPT !["bottom"] = Head(due)] BY DEF DecodeBottom
<1>2. CASE bits = {"frame"}
  <2>1. out' = Append(out, buffer["top"]) /\ bits' = {"bottom"} BY <1>2 DEF DecodeBottom, Both
  <2>2. Keeps(bits, "top") BY <1>2 DEF Keeps
  <2>3. \A f \in {"top", "bottom"} : Keeps(bits', f) => f = "bottom" \/ (f # "top" /\ Keeps(bits, f))
    BY <2>1 DEF Keeps
  <2>. QED BY <1>1, <2>1, <2>2, <2>3, FieldWritten
<1>3. CASE bits = {"top", "bottom"}
  <2>0. bits # {"frame"} BY <1>3
  <2>1. out' = Append(out, buffer["bottom"]) /\ bits' = {"top", "bottom"}
    BY <1>3, <2>0 DEF DecodeBottom, Both
  <2>2. Keeps(bits, "bottom") /\ Keeps(bits, "top") BY <1>3 DEF Keeps
  <2>3. \A f \in {"top", "bottom"} : Keeps(bits', f) => f = "bottom" \/ (f # "bottom" /\ Keeps(bits, f))
    BY <2>2
  <2>. QED BY <1>1, <2>1, <2>2, <2>3, FieldWritten
<1>4. CASE ~Both
  <2>1. out' = out /\ bits' = bits \cup {"bottom"} BY <1>4 DEF DecodeBottom
  <2>2. \A f \in {"top", "bottom"} : Keeps(bits', f) => f = "bottom" \/ Keeps(bits, f) BY <2>1 DEF Keeps
  <2>. QED BY <1>1, <2>1, <2>2, FieldKept
<1>. QED BY <1>2, <1>3, <1>4 DEF Both

LEMMA ReceiveAnchorOnce == ASSUME CcInv, ReceiveAnchor PROVE PiecesOnce' /\ out' \in Seq(Pieces)
BY FrameOnce, TopOnce, BottomOnce DEF ReceiveAnchor

-----------------------------------------------------------------------------
LEMMA NextPictureTypes == ASSUME CcInv, NextPicture PROVE CcTypeOK'
<1>1. /\ UNCHANGED <<bits, buffer, out, lost>> /\ lost \in BOOLEAN
      /\ shown \in Nat /\ group.anchor \in Nat /\ group.sent \in Nat
  BY CcTypes DEF NextPicture, CcInv, CcTypeOK
<1>2. shown' \in 0 .. MaxPictures /\ due' \in Seq(Pieces)
      /\ group' \in [anchor : 0 .. MaxPictures, sent : 0 .. MaxPictures]
  <2>1. CASE shown + group.sent + 1 < group.anchor
    <3>1. /\ due' \in Picture(shown + group.sent + 1) /\ shown' = shown
          /\ group' = [group EXCEPT !.sent = @ + 1]
      BY <2>1 DEF NextPicture
    <3>2. group.sent + 1 \in 0 .. MaxPictures /\ shown + group.sent + 1 \in 0 .. MaxPictures
      BY <1>1, <2>1, CcTypes
    <3>3. group' = [anchor |-> group.anchor, sent |-> group.sent + 1] BY <3>1, CcTypes
    <3>4. group' \in [anchor : 0 .. MaxPictures, sent : 0 .. MaxPictures] BY <3>2, <3>3, CcTypes
    <3>5. due' \in Seq(Pieces) BY <3>1, <3>2, DuePictures
    <3>. QED BY <3>1, <3>4, <3>5, CcTypes
  <2>2. CASE ~(shown + group.sent + 1 < group.anchor)
    <3>1. PICK m \in 0 .. MaxB :
            /\ group.anchor + m + 1 <= MaxPictures /\ due' \in Picture(group.anchor + m + 1)
            /\ group' = [anchor |-> group.anchor + m + 1, sent |-> 0] /\ shown' = group.anchor
      BY <2>2 DEF NextPicture
    <3>2. group.anchor + m + 1 \in 0 .. MaxPictures /\ 0 \in 0 .. MaxPictures
      BY <1>1, <3>1, CcTypes
    <3>3. group' \in [anchor : 0 .. MaxPictures, sent : 0 .. MaxPictures] BY <3>1, <3>2
    <3>4. due' \in Seq(Pieces) BY <3>1, <3>2, DuePictures
    <3>. QED BY <3>1, <3>3, <3>4, CcTypes
  <2>. QED BY <2>1, <2>2
<1>. QED BY <1>1, <1>2, CcTypes DEF CcTypeOK

LEMMA NextPicturePlace ==
  ASSUME CcInv, NextPicture
  PROVE  \/ shown' + group'.sent < group'.anchor
         \/ group'.anchor = 0 /\ shown' = 0 /\ group'.sent = 0
<1>1. shown \in Nat /\ group.anchor \in Nat /\ group.sent \in Nat BY CcTypes
<1>2. CASE shown + group.sent + 1 < group.anchor
  <2>1. shown' = shown /\ group' = [group EXCEPT !.sent = @ + 1] BY <1>2 DEF NextPicture
  <2>2. group'.anchor = group.anchor /\ group'.sent = group.sent + 1 BY <2>1, CcTypes
  <2>. QED BY <1>1, <1>2, <2>1, <2>2
<1>3. CASE ~(shown + group.sent + 1 < group.anchor)
  <2>1. PICK m \in 0 .. MaxB :
          group' = [anchor |-> group.anchor + m + 1, sent |-> 0] /\ shown' = group.anchor
    BY <1>3 DEF NextPicture
  <2>2. m \in Nat BY CcTypes
  <2>3. group'.anchor = group.anchor + m + 1 /\ group'.sent = 0 BY <2>1
  <2>. QED BY <1>1, <2>1, <2>2, <2>3
<1>. QED BY <1>2, <1>3

LEMMA ReceiveBTypes == ASSUME CcInv, ReceiveB PROVE CcTypeOK'
<1>1. PICK p \in Pieces : p = Head(due) BY FirstDue DEF ReceiveB
<1>2. /\ due # <<>> /\ due' = Tail(due) /\ UNCHANGED <<shown, group, buffer, lost>>
      /\ \/ out' = Append(out, p) /\ bits' = bits
         \/ out' = out /\ bits' = {}
  BY <1>1 DEF ReceiveB
<1>3. due' \in Seq(Pieces) BY <1>2, FirstDue
<1>4. out \in Seq(Pieces) /\ Append(out, p) \in Seq(Pieces) BY CcTypes
<1>5. out' \in Seq(Pieces) BY <1>2, <1>4
<1>6. bits' \in (SUBSET {"top", "bottom"}) \cup {{"frame"}} BY <1>2, CcTypes
<1>. QED BY <1>2, <1>3, <1>5, <1>6 DEF CcInv, CcTypeOK

LEMMA ReceiveAnchorTypes == ASSUME CcInv, ReceiveAnchor PROVE CcTypeOK'
<1>1. PICK p \in Pieces : p = Head(due) BY FirstDue DEF ReceiveAnchor
<1>2. /\ due # <<>> /\ due' = Tail(due) /\ UNCHANGED <<shown, group, lost>>
      /\ DecodeFrame(p) \/ DecodeTop(p) \/ DecodeBottom(p)
  BY <1>1 DEF ReceiveAnchor
<1>3. due' \in Seq(Pieces) BY <1>2, FirstDue
<1>4. out' \in Seq(Pieces) BY ReceiveAnchorOnce
<1>5. \E n \in {"top", "bottom"} : buffer' = [buffer EXCEPT ![n] = p]
  BY <1>2 DEF DecodeFrame, DecodeTop, DecodeBottom
<1>6. buffer' \in [{"top", "bottom"} -> Pieces] BY <1>5, CcTypes
<1>7. bits' \in (SUBSET {"top", "bottom"}) \cup {{"frame"}}
  <2>1. bits \in (SUBSET {"top", "bottom"}) \cup {{"frame"}} BY CcTypes
  <2>2. CASE DecodeFrame(p) BY <2>2 DEF DecodeFrame
  <2>3. CASE DecodeTop(p)
    <3>1. bits' = (bits \cap {"bottom"}) \cup {"top"} \/ (~Both /\ bits' = bits \cup {"top"})
      BY <2>3 DEF DecodeTop
    <3>. QED BY <2>1, <3>1 DEF Both
  <2>4. CASE DecodeBottom(p)
    <3>1. bits' = (bits \cap {"top"}) \cup {"bottom"} \/ (~Both /\ bits' = bits \cup {"bottom"})
      BY <2>4 DEF DecodeBottom
    <3>. QED BY <2>1, <3>1 DEF Both
  <2>. QED BY <1>2, <2>2, <2>3, <2>4
<1>. QED BY <1>2, <1>3, <1>4, <1>6, <1>7 DEF CcInv, CcTypeOK

-----------------------------------------------------------------------------
(* Picture n, or the first field of it, follows picture n - 1.             *)
LEMMA PictureFollows ==
  ASSUME NEW s \in Seq(Pieces), Chain(s), NEW n \in 1 .. MaxPictures, EndsWith(s, n - 1),
         NEW f \in {"frame", "top"}
  PROVE  /\ Append(s, Part(n, f)) \in Seq(Pieces) /\ Chain(Append(s, Part(n, f)))
         /\ f = "frame" => EndsWith(Append(s, Part(n, f)), n)
         /\ f = "top"   => EndsWithin(Append(s, Part(n, f)), n)
<1>1. PICK p \in Pieces : p = Part(n, f) BY Parts
<1>2. p.pic = n /\ p.part = f /\ n \in Nat BY <1>1, CcFieldsAssumption DEF Part
<1>3. PICK k \in Nat : k = Len(s) OBVIOUS
<1>4. PICK t : t = Append(s, p) OBVIOUS
<1>5. /\ t \in Seq(Pieces) /\ Len(t) = k + 1 /\ t # <<>> /\ t[k + 1] = p
      /\ \A i \in 1 .. k : t[i] = s[i]
      /\ s = <<>> <=> k = 0
  BY <1>3, <1>4
<1>6. ASSUME NEW i \in 1 .. Len(t) - 1
      PROVE  /\ Before(t[i], t[i + 1]) /\ t[i + 1].pic <= t[i].pic + 1
             /\ t[i].part = "top" \/ t[i + 1].part = "bottom" => t[i + 1].pic = t[i].pic
  <2>1. CASE i \in 1 .. k - 1
    <3>1. t[i] = s[i] /\ t[i + 1] = s[i + 1] BY <1>5, <2>1
    <3>. QED BY <1>3, <2>1, <3>1 DEF Chain
  <2>2. CASE i = k
    <3>1. t[i] = s[k] /\ t[i + 1] = p /\ k # 0 BY <1>5, <2>2
    <3>2. s[k].pic = n - 1 /\ s[k].part # "top" BY <1>3, <1>5, <3>1 DEF EndsWith
    <3>. QED BY <1>2, <3>1, <3>2 DEF Before
  <2>. QED BY <1>5, <1>6, <2>1, <2>2
<1>7. t[1].pic = 1
  <2>1. CASE k = 0 BY <1>2, <1>5, <2>1 DEF EndsWith
  <2>2. CASE k # 0 BY <1>5, <2>2 DEF Chain
  <2>. QED BY <2>1, <2>2
<1>8. Chain(t) BY <1>6, <1>7 DEF Chain
<1>9. f = "frame" => EndsWith(t, n) BY <1>2, <1>5 DEF EndsWith
<1>10. f = "top" => EndsWithin(t, n) BY <1>1, <1>5 DEF EndsWithin
<1>. QED BY <1>1, <1>4, <1>5, <1>8, <1>9, <1>10

(* The second field of picture n follows the first one.                    *)
LEMMA FieldFollows ==
  ASSUME NEW s \in Seq(Pieces), Chain(s), NEW n \in 1 .. MaxPictures, EndsWithin(s, n)
  PROVE  /\ Append(s, Part(n, "bottom")) \in Seq(Pieces)
         /\ Chain(Append(s, Part(n, "bottom"))) /\ EndsWith(Append(s, Part(n, "bottom")), n)
<1>1. PICK p \in Pieces : p = Part(n, "bottom") BY Parts
<1>2. p.pic = n /\ p.part = "bottom" /\ n \in Nat BY <1>1, CcFieldsAssumption DEF Part
<1>3. PICK k \in Nat : k = Len(s) OBVIOUS
<1>4. PICK t : t = Append(s, p) OBVIOUS
<1>5. /\ t \in Seq(Pieces) /\ Len(t) = k + 1 /\ t # <<>> /\ t[k + 1] = p
      /\ \A i \in 1 .. k : t[i] = s[i]
      /\ s = <<>> <=> k = 0
  BY <1>3, <1>4
<1>6. k # 0 /\ s[k].pic = n /\ s[k].part = "top" BY <1>3, <1>5 DEF EndsWithin, Part
<1>7. ASSUME NEW i \in 1 .. Len(t) - 1
      PROVE  /\ Before(t[i], t[i + 1]) /\ t[i + 1].pic <= t[i].pic + 1
             /\ t[i].part = "top" \/ t[i + 1].part = "bottom" => t[i + 1].pic = t[i].pic
  <2>1. CASE i \in 1 .. k - 1
    <3>1. t[i] = s[i] /\ t[i + 1] = s[i + 1] BY <1>5, <2>1
    <3>. QED BY <1>3, <2>1, <3>1 DEF Chain
  <2>2. CASE i = k
    <3>1. t[i] = s[k] /\ t[i + 1] = p BY <1>5, <1>6, <2>2
    <3>. QED BY <1>2, <1>6, <3>1 DEF Before
  <2>. QED BY <1>5, <1>7, <2>1, <2>2
<1>8. t[1].pic = 1 BY <1>5, <1>6 DEF Chain
<1>9. Chain(t) BY <1>7, <1>8 DEF Chain
<1>10. EndsWith(t, n) BY <1>2, <1>5 DEF EndsWith
<1>. QED BY <1>1, <1>4, <1>5, <1>9, <1>10

-----------------------------------------------------------------------------
(* What is true of a stream of which nothing was lost.                     *)
Place == Chain(out) /\ (BetweenPictures \/ InB \/ AnchorComes \/ AnchorHalf)

LEMMA FirstDueAt ==
  ASSUME NEW n \in 0 .. MaxPictures
  PROVE  /\ \A d : d = <<Part(n, "frame")>> => Head(d) = Part(n, "frame") /\ Tail(d) = <<>>
         /\ \A d : d = <<Part(n, "top"), Part(n, "bottom")>> =>
                     Head(d) = Part(n, "top") /\ Tail(d) = <<Part(n, "bottom")>>
         /\ \A d : d = <<Part(n, "bottom")>> => Head(d) = Part(n, "bottom") /\ Tail(d) = <<>>
<1>1. ASSUME NEW x PROVE Head(<<x>>) = x /\ Tail(<<x>>) = <<>>
  <2>1. <<x>> \in Seq({x}) OBVIOUS
  <2>. QED BY <2>1, HeadTailProperties, EmptySeq
<1>2. ASSUME NEW x, NEW y PROVE Head(<<x, y>>) = x /\ Tail(<<x, y>>) = <<y>>
  <2>1. <<x, y>> \in Seq({x, y}) OBVIOUS
  <2>. QED BY <2>1
<1>. QED BY <1>1, <1>2

LEMMA NextPicturePlaces == ASSUME CcInv, NextPicture, Place PROVE Place'
<1>1. /\ due = <<>> /\ UNCHANGED <<bits, buffer, out>>
      /\ shown \in Nat /\ group.anchor \in Nat /\ group.sent \in Nat
  BY CcTypes DEF NextPicture
<1>2. BetweenPictures
  <2>1. ~InB
    <3>1. due \notin Picture(shown + group.sent) BY <1>1 DEF Picture
    <3>. QED BY <1>1, <3>1 DEF InB
  <2>2. ~AnchorComes BY <1>1 DEF AnchorComes, Picture
  <2>3. ~AnchorHalf BY <1>1 DEF AnchorHalf
  <2>. QED BY <2>1, <2>2, <2>3 DEF Place
<1>3. Chain(out)' BY <1>1 DEF Place, Chain
<1>4. CASE shown + group.sent + 1 < group.anchor
  <2>1. /\ due' \in Picture(shown + group.sent + 1) /\ shown' = shown
        /\ group' = [group EXCEPT !.sent = @ + 1]
    BY <1>4 DEF NextPicture
  <2>2. group'.anchor = group.anchor /\ group'.sent = group.sent + 1 BY <2>1, CcTypes
  <2>3. /\ shown' + group'.sent = shown + group.sent + 1 /\ shown' + group'.sent - 1 = shown + group.sent
        /\ group'.sent > 0
    BY <1>1, <2>1, <2>2
  <2>4. InB' BY <1>1, <1>2, <2>1, <2>2, <2>3 DEF InB, BetweenPictures
  <2>. QED BY <1>3, <2>4 DEF Place
<1>5. CASE ~(shown + group.sent + 1 < group.anchor)
  <2>1. PICK m \in 0 .. MaxB :
          /\ due' \in Picture(group.anchor + m + 1)
          /\ group' = [anchor |-> group.anchor + m + 1, sent |-> 0] /\ shown' = group.anchor
    BY <1>5 DEF NextPicture
  <2>2. m \in Nat BY CcTypes
  <2>3. group'.anchor = group.anchor + m + 1 /\ group'.sent = 0 /\ group'.anchor > 0
    BY <1>1, <2>1, <2>2
  <2>4. shown + group.sent = IF shown' = 0 THEN 0 ELSE shown' - 1
    BY <1>1, <1>5, <2>1 DEF CcInv
  <2>5. AnchorComes' BY <1>1, <1>2, <2>1, <2>3, <2>4 DEF AnchorComes, BetweenPictures
  <2>. QED BY <1>3, <2>5 DEF Place
<1>. QED BY <1>4, <1>5

LEMMA ReceiveBPlaces == ASSUME CcInv, ReceiveB, Place PROVE Place'
<1>1. PICK n : n = shown + group.sent OBVIOUS
<1>2. /\ shown \in Nat /\ group.anchor \in Nat /\ group.sent \in Nat /\ n \in Nat
      /\ group.anchor \in 0 .. MaxPictures /\ out \in Seq(Pieces)
      /\ n < group.anchor \/ (group.anchor = 0 /\ n = 0 /\ group.sent = 0)
  BY <1>1, CcTypes DEF CcInv
<1>3. /\ due # <<>> /\ Head(due).pic # group.anchor /\ due' = Tail(due)
      /\ UNCHANGED <<shown, group, buffer>>
  BY DEF ReceiveB, Anchor
<1>4. InB
  <2>1. ~BetweenPictures BY <1>3 DEF BetweenPictures
  <2>2. \A d \in Picture(group.anchor) : Head(d).pic = group.anchor
    BY <1>2, DuePictures, FirstDueAt, Parts
  <2>3. ~AnchorComes BY <1>3, <2>2 DEF AnchorComes
  <2>4. ~AnchorHalf BY <1>2, <1>3, FirstDueAt, Parts DEF AnchorHalf
  <2>. QED BY <2>1, <2>3, <2>4 DEF Place
<1>5. group.sent > 0 /\ KeepsPicture(bits, buffer, group.anchor) /\ group.anchor > 0
      /\ n \in 1 .. MaxPictures /\ n \in 0 .. MaxPictures
  <2>1. group.sent > 0 /\ KeepsPicture(bits, buffer, group.anchor) BY <1>4 DEF InB
  <2>2. n > 0 BY <1>1, <1>2, <2>1
  <2>. QED BY <1>2, <2>1, <2>2, CcFieldsAssumption
<1>6. Both BY <1>5 DEF KeepsPicture, Both
<1>7. out' = Append(out, Head(due)) /\ bits' = bits BY <1>6 DEF ReceiveB
<1>8. KeepsPicture(bits, buffer, group.anchor)' BY <1>3, <1>5, <1>7 DEF KeepsPicture
<1>9. Chain(out) BY DEF Place
<1>10. CASE due = <<Part(n, "frame")>> /\ EndsWith(out, n - 1)
  <2>1. Head(due) = Part(n, "frame") /\ due' = <<>> BY <1>3, <1>5, <1>10, FirstDueAt
  <2>2. Chain(out') /\ EndsWith(out', n) BY <1>2, <1>5, <1>7, <1>9, <1>10, <2>1, PictureFollows
  <2>3. BetweenPictures' BY <1>1, <1>3, <1>8, <2>1, <2>2 DEF BetweenPictures
  <2>. QED BY <2>2, <2>3 DEF Place
<1>11. CASE due = <<Part(n, "top"), Part(n, "bottom")>> /\ EndsWith(out, n - 1)
  <2>1. Head(due) = Part(n, "top") /\ due' = <<Part(n, "bottom")>> BY <1>3, <1>5, <1>11, FirstDueAt
  <2>2. Chain(out') /\ EndsWithin(out', n) BY <1>2, <1>5, <1>7, <1>9, <1>11, <2>1, PictureFollows
  <2>3. InB' BY <1>1, <1>3, <1>5, <1>8, <2>1, <2>2 DEF InB
  <2>. QED BY <2>2, <2>3 DEF Place
<1>12. CASE due = <<Part(n, "bottom")>> /\ EndsWithin(out, n)
  <2>1. Head(due) = Part(n, "bottom") /\ due' = <<>> BY <1>3, <1>5, <1>12, FirstDueAt
  <2>2. Chain(out') /\ EndsWith(out', n) BY <1>2, <1>5, <1>7, <1>9, <1>12, <2>1, FieldFollows
  <2>3. BetweenPictures' BY <1>1, <1>3, <1>8, <2>1, <2>2 DEF BetweenPictures
  <2>. QED BY <2>2, <2>3 DEF Place
<1>13. \/ due \in Picture(n) /\ EndsWith(out, n - 1)
       \/ due = <<Part(n, "bottom")>> /\ EndsWithin(out, n)
  <2>1. CASE due \in Picture(shown + group.sent) /\ EndsWith(out, shown + group.sent - 1)
    <3>1. n - 1 = shown + group.sent - 1 BY <1>1, <1>2
    <3>. QED BY <1>1, <2>1, <3>1, Zenon
  <2>2. CASE due = <<Part(shown + group.sent, "bottom")>> /\ EndsWithin(out, shown + group.sent)
    BY <1>1, <2>2, Zenon
  <2>. QED BY <1>4, <2>1, <2>2 DEF InB
<1>. QED BY <1>5, <1>10, <1>11, <1>12, <1>13, DuePictures

(* An anchor picture begins: the one kept is written, all of it when the   *)
(* new one is a frame, up to the second field when it is a top field.      *)
LEMMA AnchorBegins ==
  ASSUME CcInv, ReceiveAnchor, Place, AnchorComes PROVE Place'
<1>1. PICK n : n = group.anchor OBVIOUS
<1>2. PICK m : m = shown OBVIOUS
<1>3. /\ m \in Nat /\ n \in 1 .. MaxPictures /\ n \in 0 .. MaxPictures /\ n # 0
      /\ m \in 0 .. MaxPictures /\ (m # 0 => m \in 1 .. MaxPictures)
      /\ out \in Seq(Pieces)
  BY <1>1, <1>2, CcTypes DEF AnchorComes
<1>4. /\ due \in Picture(n) /\ group.sent = 0 /\ group'.sent = 0 /\ group'.anchor = n /\ shown' = m
      /\ KeepsPicture(bits, buffer, m) /\ EndsWith(out, IF m = 0 THEN 0 ELSE m - 1)
      /\ shown' + group'.sent = m
  BY <1>1, <1>2, <1>3 DEF AnchorComes, ReceiveAnchor
<1>5. Chain(out) BY DEF Place
<1>6. due' = Tail(due) BY DEF ReceiveAnchor
<1>7. \/ m = 0 /\ bits = {} /\ EndsWith(out, 0)
      \/ m # 0 /\ bits = {"frame"} /\ buffer["top"] = Part(m, "frame") /\ EndsWith(out, m - 1)
      \/ /\ m # 0 /\ bits = {"top", "bottom"} /\ EndsWith(out, m - 1)
         /\ buffer["top"] = Part(m, "top") /\ buffer["bottom"] = Part(m, "bottom")
  BY <1>4 DEF KeepsPicture
<1>8. CASE due = <<Part(n, "frame")>>
  <2>1. Head(due) = Part(n, "frame") /\ due' = <<>> BY <1>3, <1>6, <1>8, FirstDueAt
  <2>2. DecodeFrame(Part(n, "frame")) BY <2>1, Parts DEF ReceiveAnchor
  <2>3. KeepsPicture(bits', buffer', n)
    <3>1. bits' = {"frame"} /\ buffer' = [buffer EXCEPT !["top"] = Part(n, "frame")]
      BY <2>2 DEF DecodeFrame
    <3>2. buffer'["top"] = Part(n, "frame") BY <3>1, CcTypes
    <3>. QED BY <1>3, <3>1, <3>2 DEF KeepsPicture
  <2>4. out' = out \o Frame1 \o Field2 BY <2>2 DEF DecodeFrame
  <2>5. Chain(out') /\ EndsWith(out', m)
    <3>1. CASE m = 0 /\ bits = {} /\ EndsWith(out, 0)
      <4>1. Frame1 = <<>> /\ Field2 = <<>> BY <3>1 DEF Frame1, Field2
      <4>2. out' = out BY <1>3, <2>4, <4>1
      <4>. QED BY <1>5, <3>1, <4>2
    <3>2. CASE m # 0 /\ bits = {"frame"} /\ buffer["top"] = Part(m, "frame") /\ EndsWith(out, m - 1)
      <4>1. Frame1 = <<Part(m, "frame")>> /\ Field2 = <<>> BY <3>2 DEF Frame1, Field2
      <4>2. Part(m, "frame") \in Pieces BY <1>3, Parts
      <4>3. out' = Append(out, Part(m, "frame")) BY <1>3, <2>4, <4>1, <4>2
      <4>. QED BY <1>3, <1>5, <3>2, <4>3, PictureFollows
    <3>3. CASE /\ m # 0 /\ bits = {"top", "bottom"} /\ EndsWith(out, m - 1)
               /\ buffer["top"] = Part(m, "top") /\ buffer["bottom"] = Part(m, "bottom")
      <4>1. Frame1 = <<Part(m, "top")>> /\ Field2 = <<Part(m, "bottom")>> BY <3>3 DEF Frame1, Field2
      <4>2. Part(m, "top") \in Pieces /\ Part(m, "bottom") \in Pieces BY <1>3, Parts
      <4>3. PICK o : o = Append(out, Part(m, "top")) OBVIOUS
      <4>4. o \in Seq(Pieces) /\ Chain(o) /\ EndsWithin(o, m) BY <1>3, <1>5, <3>3, <4>3, PictureFollows
      <4>5. out \o Frame1 = o BY <1>3, <4>1, <4>2, <4>3, AppendIsConcat
      <4>6. out' = Append(o, Part(m, "bottom")) BY <2>4, <4>1, <4>2, <4>4, <4>5, AppendIsConcat
      <4>. QED BY <1>3, <3>3, <4>4, <4>6, FieldFollows
    <3>. QED BY <1>7, <3>1, <3>2, <3>3
  <2>6. BetweenPictures' BY <1>4, <2>1, <2>3, <2>5 DEF BetweenPictures
  <2>. QED BY <2>5, <2>6 DEF Place
<1>9. CASE due = <<Part(n, "top"), Part(n, "bottom")>>
  <2>1. Head(due) = Part(n, "top") /\ due' = <<Part(n, "bottom")>> BY <1>3, <1>6, <1>9, FirstDueAt
  <2>2. DecodeTop(Part(n, "top")) BY <2>1, Parts DEF ReceiveAnchor
  <2>3. buffer'["top"] = Part(n, "top") /\ buffer'["bottom"] = buffer["bottom"]
    <3>1. buffer' = [buffer EXCEPT !["top"] = Part(n, "top")] BY <2>2 DEF DecodeTop
    <3>. QED BY <3>1, CcTypes
  <2>4. /\ Chain(out')
        /\ \/ bits' = {"top"} /\ EndsWith(out', m)
           \/ /\ bits' = {"top", "bottom"} /\ buffer'["bottom"] = Part(m, "bottom")
              /\ m # 0 /\ EndsWithin(out', m)
    <3>1. CASE m = 0 /\ bits = {} /\ EndsWith(out, 0)
      <4>1. ~Both BY <3>1 DEF Both
      <4>2. out' = out /\ bits' = {"top"} BY <2>2, <3>1, <4>1 DEF DecodeTop
      <4>. QED BY <1>5, <3>1, <4>2
    <3>2. CASE m # 0 /\ bits = {"frame"} /\ buffer["top"] = Part(m, "frame") /\ EndsWith(out, m - 1)
      <4>1. Both BY <3>2 DEF Both
      <4>2. out' = Append(out, Part(m, "frame")) /\ bits' = {"top"} BY <2>2, <3>2, <4>1 DEF DecodeTop
      <4>. QED BY <1>3, <1>5, <3>2, <4>2, PictureFollows
    <3>3. CASE /\ m # 0 /\ bits = {"top", "bottom"} /\ EndsWith(out, m - 1)
               /\ buffer["top"] = Part(m, "top") /\ buffer["bottom"] = Part(m, "bottom")
      <4>1. Both BY <3>3 DEF Both
      <4>2. out' = Append(out, Part(m, "top")) BY <2>2, <3>3, <4>1 DEF DecodeTop
      <4>3. bits' = {"top", "bottom"} BY <2>2, <3>3, <4>1 DEF DecodeTop
      <4>4. Chain(out') /\ EndsWithin(out', m) BY <1>3, <1>5, <3>3, <4>2, PictureFollows
      <4>. QED BY <2>3, <3>3, <4>3, <4>4
    <3>. QED BY <1>7, <3>1, <3>2, <3>3
  <2>5. AnchorHalf' BY <1>3, <1>4, <2>1, <2>3, <2>4 DEF AnchorHalf
  <2>. QED BY <2>4, <2>5 DEF Place
<1>. QED BY <1>3, <1>4, <1>8, <1>9, DuePictures

(* Its bottom field comes: the second field of the one before is written.  *)
LEMMA AnchorEnds ==
  ASSUME CcInv, ReceiveAnchor, Place, AnchorHalf PROVE Place'
<1>1. PICK n : n = group.anchor OBVIOUS
<1>2. PICK m : m = shown OBVIOUS
<1>3. /\ m \in Nat /\ n \in 0 .. MaxPictures /\ n # 0
      /\ m \in 0 .. MaxPictures /\ (m # 0 => m \in 1 .. MaxPictures)
      /\ out \in Seq(Pieces)
  BY <1>1, <1>2, CcTypes DEF AnchorHalf
<1>4. /\ due = <<Part(n, "bottom")>> /\ group'.sent = 0 /\ group'.anchor = n /\ shown' = m
      /\ shown' + group'.sent = m /\ buffer["top"] = Part(n, "top")
      /\ \/ bits = {"top"} /\ EndsWith(out, m)
         \/ /\ bits = {"top", "bottom"} /\ buffer["bottom"] = Part(m, "bottom")
            /\ m # 0 /\ EndsWithin(out, m)
  BY <1>1, <1>2, <1>3 DEF AnchorHalf, ReceiveAnchor
<1>5. Chain(out) BY DEF Place
<1>6. Head(due) = Part(n, "bottom") /\ due' = <<>> BY <1>3, <1>4, FirstDueAt DEF ReceiveAnchor
<1>7. DecodeBottom(Part(n, "bottom")) BY <1>6, Parts DEF ReceiveAnchor
<1>8. buffer'["bottom"] = Part(n, "bottom") /\ buffer'["top"] = Part(n, "top")
  <2>1. buffer' = [buffer EXCEPT !["bottom"] = Part(n, "bottom")] BY <1>7 DEF DecodeBottom
  <2>. QED BY <1>4, <2>1, CcTypes
<1>9. bits' = {"top", "bottom"} /\ Chain(out') /\ EndsWith(out', m)
  <2>1. CASE bits = {"top"} /\ EndsWith(out, m)
    <3>1. ~Both BY <2>1 DEF Both
    <3>2. out' = out /\ bits' = {"top", "bottom"} BY <1>7, <2>1, <3>1 DEF DecodeBottom
    <3>. QED BY <1>5, <2>1, <3>2
  <2>2. CASE /\ bits = {"top", "bottom"} /\ buffer["bottom"] = Part(m, "bottom")
             /\ m # 0 /\ EndsWithin(out, m)
    <3>1. Both /\ bits # {"frame"} BY <2>2 DEF Both
    <3>2. out' = Append(out, Part(m, "bottom")) BY <1>7, <2>2, <3>1 DEF DecodeBottom
    <3>3. bits' = {"top", "bottom"} BY <1>7, <2>2, <3>1 DEF DecodeBottom
    <3>. QED BY <1>3, <1>5, <2>2, <3>2, <3>3, FieldFollows
  <2>. QED BY <1>4, <2>1, <2>2
<1>10. KeepsPicture(bits', buffer', n) BY <1>8, <1>9, <1>3 DEF KeepsPicture
<1>11. BetweenPictures' BY <1>4, <1>6, <1>9, <1>10 DEF BetweenPictures
<1>. QED BY <1>9, <1>11 DEF Place

LEMMA ReceiveAnchorPlaces == ASSUME CcInv, ReceiveAnchor, Place PROVE Place'
<1>1. due # <<>> /\ Head(due).pic = group.anchor BY DEF ReceiveAnchor, Anchor
<1>2. PICK n : n = shown + group.sent OBVIOUS
<1>3. ~BetweenPictures BY <1>1 DEF BetweenPictures
<1>4. ~InB
  <2>1. SUFFICES ASSUME InB PROVE FALSE OBVIOUS
  <2>2. group.sent > 0 BY <2>1 DEF InB
  <2>3. n \in 0 .. MaxPictures /\ n # group.anchor
    BY <1>2, <2>2, CcTypes DEF CcInv
  <2>4. due \in Picture(n) \/ due = <<Part(n, "bottom")>> BY <1>2, <2>1, Zenon DEF InB
  <2>5. Head(due).pic = n BY <2>3, <2>4, DuePictures, FirstDueAt, Parts
  <2>. QED BY <1>1, <2>3, <2>5
<1>. QED BY <1>3, <1>4, AnchorBegins, AnchorEnds DEF Place

-----------------------------------------------------------------------------
LEMMA CcStep == ASSUME CcInv, [CcNext]_ccVars PROVE CcInv'
<1>1. CASE NextPicture
  <2>1. ~lost => Place BY DEF CcInv, Place
  <2>2. lost' = lost BY <1>1 DEF NextPicture
  <2>3. ~lost' => Place' BY <1>1, <2>1, <2>2, NextPicturePlaces
  <2>. QED BY <1>1, <2>3, NextPictureTypes, NextPicturePlace, NextPictureOnce DEF CcInv, Place
<1>2. CASE LoseField
  <2>1. /\ lost' = TRUE /\ due # <<>> /\ due' = Tail(due)
        /\ UNCHANGED <<shown, group, bits, buffer, out>>
    BY <1>2 DEF LoseField
  <2>2. due' \in Seq(Pieces) BY <2>1, FirstDue
  <2>3. CcTypeOK' BY <2>1, <2>2 DEF CcInv, CcTypeOK
  <2>. QED BY <1>2, <2>1, <2>3, LoseFieldOnce DEF CcInv
<1>3. CASE ReceiveB
  <2>1. ~lost => Place BY DEF CcInv, Place
  <2>2. UNCHANGED <<shown, group, lost>> BY <1>3 DEF ReceiveB
  <2>3. ~lost' => Place' BY <1>3, <2>1, <2>2, ReceiveBPlaces
  <2>. QED BY <1>3, <2>2, <2>3, ReceiveBTypes, ReceiveBOnce DEF CcInv, Place
<1>4. CASE ReceiveAnchor
  <2>1. ~lost => Place BY DEF CcInv, Place
  <2>2. UNCHANGED <<shown, group, lost>> BY <1>4 DEF ReceiveAnchor
  <2>3. ~lost' => Place' BY <1>4, <2>1, <2>2, ReceiveAnchorPlaces
  <2>. QED BY <1>4, <2>2, <2>3, ReceiveAnchorTypes, ReceiveAnchorOnce DEF CcInv, Place
<1>5. CASE UNCHANGED ccVars
  BY <1>5 DEF ccVars, CcInv, CcTypeOK, PiecesOnce, Chain, BetweenPictures, InB, AnchorComes, AnchorHalf
<1>. QED BY <1>1, <1>2, <1>3, <1>4, <1>5 DEF CcNext

LEMMA CcInvariant == CcSpec => []CcInv
<1>1. CcInv /\ [CcNext]_ccVars => CcInv' BY CcStep
<1>. QED BY <1>1, InitCcInv, PTL DEF CcSpec

LEMMA CcInOrder == ASSUME CcInv PROVE DisplayOrder
<1>1. DOMAIN out = 1 .. Len(out) BY CcTypes
<1>2. \A i, j \in 1 .. Len(out) : out[i] = out[j] => i = j BY <1>1 DEF CcInv, PiecesOnce
<1>. QED BY <1>2 DEF CcInv, Chain, DisplayOrder
-----------------------------------------------------------------------------
(* The caption data of MPEG and of H.264 streams goes to the device in     *)
(* display order, no piece twice and, when no field is lost, none left     *)
(* out, for every number of pictures and frames and every depth of         *)
(* reordering up to MAX_POC_CACHE.                                         *)
THEOREM CaptionsAreInOrder == CcSpec /\ PocSpec => []CaptionsInOrder
<1>1. CcInv => DisplayOrder BY CcInOrder
<1>2. PocInv => PocOrder BY DEF PocInv
<1>. QED BY <1>1, <1>2, CcInvariant, PocInvariant, PTL DEF CaptionsInOrder

-----------------------------------------------------------------------------
(* TsFile.                                                                 *)
TsBytes == 1 .. MaxStream

(* The bytes of the write in progress.                                     *)
Pending == IF job = NoJob THEN 0 ELSE job.done

TsCounts == /\ size \in {SubSize, RingSize}
          /\ start \in Nat /\ read \in Nat /\ write \in Nat /\ avail \in Nat /\ total \in Nat
          /\ fed \in 0 .. MaxStream /\ next \in Nat \ {0} /\ adrift \in BOOLEAN

Files == /\ subs \in Seq(Seq(TsBytes)) /\ Len(subs) > 0
         /\ wat \in Offsets /\ wat.sub <= Len(subs) /\ wat.at <= Len(subs[wat.sub])
         /\ rat \in Offsets /\ rat.sub <= Len(subs)

(* Before the ring is full the counters have not gone around it; before    *)
(* the bit rate is known they stay in the first sub file.                  *)
Filling ==
  /\ Pending <= size /\ total <= Kept /\ next <= Kept - avail + 1
  /\ total < size => start = 0 /\ write = total /\ read + avail = total
  /\ size # RingSize => total + Pending < SubSize

(* The pieces of a write, the bytes after those the counters know of.      *)
JobCut ==
  job # NoJob =>
    /\ Len(job.first) = IF write + job.done > size THEN size - write ELSE 0
    /\ Len(job.first) + Len(job.rest) = job.done /\ job.rest # <<>>
    /\ job.step = "first" => job.first # <<>>
    /\ \A i \in 1 .. Len(job.first) : job.first[i] = Kept + i
    /\ \A i \in 1 .. Len(job.rest) : job.rest[i] = Kept + Len(job.first) + i

(* The first sub file holds bytes when the counters know of some.          *)
FirstFilled ==
  subs[1] = <<>> => total = 0 /\ wat = Begin /\ (job # NoJob => job.step # "adjust")

(* The inductive invariant of RingConsistent.                              *)
TsRing ==
  /\ TsCounts /\ Files /\ job \in Jobs \cup {NoJob}
  /\ RingConsistent /\ Filling /\ JobCut /\ FirstFilled

-----------------------------------------------------------------------------
LEMMA Remainders ==
  ASSUME NEW m \in Nat \ {0}
  PROVE  /\ \A a \in 0 .. m - 1 : a % m = a
         /\ \A a \in m .. 2 * m - 1 : a % m = a - m
<1>1. ASSUME NEW a \in 0 .. m - 1 PROVE a % m = a /\ (a + m) % m = a OBVIOUS
<1>2. ASSUME NEW a \in m .. 2 * m - 1 PROVE a % m = a - m
  <2>1. a - m \in 0 .. m - 1 /\ (a - m) + m = a OBVIOUS
  <2>. QED BY <1>1, <2>1
<1>. QED BY <1>1, <1>2

LEMMA Sizes ==
  ASSUME TsCounts PROVE size \in Nat \ {0} /\ SubSize \in Nat \ {0} /\ RingSize \in Nat \ {0} /\ MaxStream \in Nat
BY TsFileAssumption DEF TsCounts

LEMMA InitTsRing == TsFileInit => TsRing
<1>. SUFFICES ASSUME TsFileInit PROVE TsRing OBVIOUS
<1>. USE TsFileAssumption DEF TsFileInit
<1>1. TsCounts
  <2>1. 0 \in 0 .. MaxStream /\ 0 \in Nat /\ 1 \in Nat \ {0} OBVIOUS
  <2>2. adrift \in BOOLEAN OBVIOUS
  <2>. QED BY <2>1, <2>2 DEF TsCounts
<1>2. Files
  <2>1. <<>> \in Seq(TsBytes) /\ << <<>> >> \in Seq(Seq(TsBytes)) /\ Len(<< <<>> >>) = 1
    OBVIOUS
  <2>2. subs[1] = <<>> OBVIOUS
  <2>. QED BY <2>1, <2>2 DEF Files, Offsets, Begin
<1>3. RingConsistent
  <2>1. size \in Nat \ {0} /\ 0 \in 0 .. size - 1 OBVIOUS
  <2>2. 0 % size = 0 BY <2>1, Remainders
  <2>. QED BY <2>1, <2>2 DEF RingConsistent
<1>4. Filling BY DEF Filling, Pending, Kept
<1>5. JobCut /\ FirstFilled BY DEF JobCut, FirstFilled
<1>. QED BY <1>1, <1>2, <1>3, <1>4, <1>5 DEF TsRing

(* What Overwritten returns.                                               *)
LEMMA OverwrittenBytes ==
  ASSUME NEW S, NEW file \in Seq(S), NEW bytes \in Seq(S), NEW at \in 0 .. Len(file)
  PROVE  /\ Overwritten(file, at, bytes) \in Seq(S)
         /\ Len(Overwritten(file, at, bytes)) =
              IF at + Len(bytes) > Len(file) THEN at + Len(bytes) ELSE Len(file)
         /\ \A a \in 1 .. Len(Overwritten(file, at, bytes)) :
              Overwritten(file, at, bytes)[a] =
                IF at < a /\ a <= at + Len(bytes) THEN bytes[a - at] ELSE file[a]
<1>0. Len(file) \in Nat /\ Len(bytes) \in Nat /\ at \in Nat /\ at <= Len(file) OBVIOUS
<1>1. PICK x : x = SubSeq(file, 1, at) OBVIOUS
<1>2. PICK z : z = SubSeq(file, at + Len(bytes) + 1, Len(file)) OBVIOUS
<1>3. x \in Seq(S) /\ Len(x) = at /\ \A a \in 1 .. at : x[a] = file[a] BY <1>0, <1>1
<1>4. /\ z \in Seq(S)
      /\ Len(z) = IF at + Len(bytes) > Len(file) THEN 0 ELSE Len(file) - (at + Len(bytes))
      /\ \A a \in 1 .. Len(z) : z[a] = file[a + (at + Len(bytes))]
  <2>1. CASE at + Len(bytes) >= Len(file)
    <3>1. at + Len(bytes) + 1 > Len(file) BY <1>0, <2>1
    <3>2. z = <<>> BY <1>0, <1>2, <3>1
    <3>3. <<>> \in Seq(S) /\ Len(<<>>) = 0 OBVIOUS
    <3>. QED BY <1>0, <2>1, <3>2, <3>3
  <2>2. CASE at + Len(bytes) < Len(file)
    <3>1. PICK k \in Nat : k = at + Len(bytes) BY <1>0
    <3>2. k + 1 \in 1 .. Len(file) /\ z = SubSeq(file, k + 1, Len(file)) BY <1>0, <1>2, <2>2, <3>1
    <3>3. z \in Seq(S) /\ Len(z) = Len(file) - k BY <1>0, <3>2
    <3>4. \A a \in 1 .. Len(file) - k : z[a] = file[a + k] BY <1>0, <3>2, <3>3, SMTT(30)
    <3>. QED BY <1>0, <2>2, <3>1, <3>3, <3>4
  <2>. QED BY <1>0, <2>1, <2>2
<1>5. PICK y : y = x \o bytes OBVIOUS
<1>a. x \in Seq(S) /\ Len(x) = at /\ z \in Seq(S) /\ Len(z) \in Nat BY <1>0, <1>3, <1>4
<1>b. y \in Seq(S) /\ Len(y) = at + Len(bytes)
  <2>0. x \in Seq(S) BY <1>a
  <2>1. y \in Seq(S) BY <1>5, <2>0
  <2>2. Len(y) = Len(x) + Len(bytes) BY <1>5, <2>0
  <2>. QED BY <1>a, <2>1, <2>2
<1>6. /\ y \in Seq(S) /\ Len(y) = at + Len(bytes) /\ Len(y) \in Nat
      /\ \A a \in 1 .. at : y[a] = file[a]
      /\ \A a \in at + 1 .. at + Len(bytes) : y[a] = bytes[a - at]
  <2>2. \A a \in 1 .. at : y[a] = x[a] BY <1>5, <1>a
  <2>3. \A a \in at + 1 .. at + Len(bytes) : y[a] = bytes[a - at] BY <1>0, <1>5, <1>a
  <2>. QED BY <1>0, <1>3, <1>b, <2>2, <2>3
<1>7. PICK o : o = y \o z OBVIOUS
<1>c. o \in Seq(S) /\ Len(o) = Len(y) + Len(z)
  <2>1. y \in Seq(S) /\ z \in Seq(S) BY <1>a, <1>b
  <2>2. o \in Seq(S) BY <1>7, <2>1
  <2>3. Len(o) = Len(y) + Len(z) BY <1>7, <2>1
  <2>. QED BY <2>2, <2>3
<1>8. /\ o \in Seq(S) /\ Len(o) = Len(y) + Len(z)
      /\ \A a \in 1 .. Len(y) : o[a] = y[a]
      /\ \A a \in Len(y) + 1 .. Len(y) + Len(z) : o[a] = z[a - Len(y)]
  <2>1. \A a \in 1 .. Len(y) : o[a] = y[a] BY <1>7, <1>a, <1>b
  <2>2. \A a \in Len(y) + 1 .. Len(y) + Len(z) : o[a] = z[a - Len(y)] BY <1>7, <1>a, <1>b
  <2>. QED BY <1>c, <2>1, <2>2
<1>9. o = Overwritten(file, at, bytes) BY <1>1, <1>2, <1>5, <1>7 DEF Overwritten
<1>10. Len(o) = IF at + Len(bytes) > Len(file) THEN at + Len(bytes) ELSE Len(file)
  <2>1. Len(z) = IF at + Len(bytes) > Len(file) THEN 0 ELSE Len(file) - (at + Len(bytes))
    BY <1>4
  <2>2. Len(o) = at + Len(bytes) + Len(z) BY <1>b, <1>c
  <2>3. CASE at + Len(bytes) > Len(file) BY <1>0, <2>1, <2>2, <2>3
  <2>4. CASE ~(at + Len(bytes) > Len(file)) BY <1>0, <2>1, <2>2, <2>4
  <2>. QED BY <2>3, <2>4
<1>11. ASSUME NEW a \in 1 .. Len(o)
       PROVE  o[a] = IF at < a /\ a <= at + Len(bytes) THEN bytes[a - at] ELSE file[a]
  <2>1. CASE a <= at
    <3>1. a \in 1 .. at /\ a \in 1 .. Len(y) /\ ~(at < a) BY <1>0, <1>6, <2>1
    <3>. QED BY <1>6, <1>8, <3>1
  <2>2. CASE at < a /\ a <= at + Len(bytes)
    <3>1. a \in at + 1 .. at + Len(bytes) /\ a \in 1 .. Len(y) BY <1>0, <1>6, <2>2
    <3>. QED BY <1>6, <1>8, <2>2, <3>1
  <2>3. CASE at + Len(bytes) < a
    <3>1. PICK k \in Nat : k = at + Len(bytes) BY <1>0
    <3>2. Len(y) = k /\ a \in k + 1 .. k + Len(z) /\ a - k \in 1 .. Len(z) /\ (a - k) + k = a
      BY <1>a, <1>b, <1>c, <2>3, <3>1
    <3>3. o[a] = z[a - k] BY <1>8, <3>2
    <3>4. z[a - k] = file[(a - k) + k] BY <1>4, <3>1, <3>2
    <3>. QED BY <2>3, <3>2, <3>3, <3>4
  <2>. QED BY <1>0, <1>8, <2>1, <2>2, <2>3
<1>. QED BY <1>8, <1>9, <1>10, <1>11


-----------------------------------------------------------------------------
(* What a read of a sub file returns: the bytes from an offset on, n at    *)
(* most, and some unless there are none.                                   *)
LEMMA ReadFromOffset ==
  ASSUME Files, NEW o \in Offsets, o.sub <= Len(subs)
  PROVE  /\ ReadFrom(o) \in Offsets /\ ReadFrom(o).sub <= Len(subs)
         /\ subs[ReadFrom(o).sub] \in Seq(TsBytes)
<1>1. o.sub \in Nat \ {0} /\ o.at \in Nat BY DEF Offsets
<1>2. Len(subs) \in Nat /\ subs \in Seq(Seq(TsBytes)) BY DEF Files
<1>3. ReadFrom(o) = o \/ (ReadFrom(o) = [sub |-> o.sub + 1, at |-> 0] /\ o.sub < Len(subs))
  BY DEF ReadFrom
<1>4. CASE ReadFrom(o) = o
  <2>1. ReadFrom(o).sub \in 1 .. Len(subs) BY <1>1, <1>2, <1>4
  <2>. QED BY <1>2, <1>4, <2>1
<1>5. CASE ReadFrom(o) = [sub |-> o.sub + 1, at |-> 0] /\ o.sub < Len(subs)
  <2>1. ReadFrom(o) \in Offsets BY <1>1, <1>5 DEF Offsets
  <2>2. ReadFrom(o).sub = o.sub + 1 BY <1>5
  <2>3. ReadFrom(o).sub \in 1 .. Len(subs) BY <1>1, <1>2, <1>5, <2>2
  <2>. QED BY <1>2, <2>1, <2>3
<1>. QED BY <1>3, <1>4, <1>5

LEMMA SubReadBytes ==
  ASSUME Files, NEW o \in Offsets, o.sub <= Len(subs), NEW n \in Nat,
         NEW from, from = ReadFrom(o), NEW b, b = SubRead(o, n)
  PROVE  /\ b \in Seq(TsBytes) /\ Len(b) \in Nat
         /\ Len(b) = IF from.at >= Len(subs[from.sub]) THEN 0
                     ELSE Least(from.at + n, Len(subs[from.sub])) - from.at
         /\ \A i \in 1 .. Len(b) : b[i] = subs[from.sub][from.at + i]
<1>1. from \in Offsets /\ subs[from.sub] \in Seq(TsBytes) BY ReadFromOffset
<1>2. PICK f \in Seq(TsBytes) : f = subs[from.sub] BY <1>1
<1>3. PICK k \in Nat : k = from.at BY <1>1 DEF Offsets
<1>4. PICK l \in Nat : l = Len(f) BY <1>2
<1>5. PICK e \in Nat : e = Least(k + n, l) /\ e <= l /\ (e = k + n \/ e = l) BY <1>3, <1>4 DEF Least
<1>6. b = SubSeq(f, k + 1, e) BY <1>2, <1>3, <1>4, <1>5 DEF SubRead
<1>7. CASE e <= k
  <2>1. b = <<>> BY <1>3, <1>5, <1>6, <1>7
  <2>2. b \in Seq(TsBytes) /\ Len(b) = 0 BY <2>1
  <2>3. k >= l \/ n = 0 BY <1>3, <1>4, <1>5, <1>7
  <2>4. Len(b) = IF k >= l THEN 0 ELSE e - k BY <1>5, <1>7, <2>2, <2>3
  <2>. QED BY <1>2, <1>3, <1>4, <1>5, <2>2, <2>4, SMTT(30)
<1>8. CASE e > k
  <2>1. k + 1 \in 1 .. Len(f) /\ e \in 1 .. Len(f) /\ k + 1 <= e BY <1>3, <1>4, <1>5, <1>8
  <2>2. b \in Seq(TsBytes) /\ Len(b) = e - k
    <3>1. b \in Seq(TsBytes) BY <1>6, <2>1
    <3>2. Len(b) = e - (k + 1) + 1 BY <1>6, <2>1
    <3>. QED BY <1>3, <1>5, <3>1, <3>2
  <2>3. ASSUME NEW i \in 1 .. Len(b) PROVE b[i] = f[k + i]
    <3>1. i \in 1 .. e - (k + 1) + 1 BY <1>3, <1>5, <2>2
    <3>2. b[i] = f[(k + 1) + i - 1] BY <1>6, <2>1, <3>1
    <3>3. (k + 1) + i - 1 = k + i BY <1>3
    <3>. QED BY <3>2, <3>3
  <2>4. k < l BY <1>3, <1>4, <1>5, <1>8
  <2>5. Len(b) = IF k >= l THEN 0 ELSE e - k BY <2>2, <2>4, <1>3, <1>4
  <2>6. Len(b) \in Nat BY <2>2
  <2>. QED BY <1>2, <1>3, <1>4, <1>5, <2>2, <2>3, <2>5, <2>6
<1>. QED BY <1>3, <1>5, <1>7, <1>8

LEMMA AfterRead ==
  ASSUME Files, NEW o \in Offsets, o.sub <= Len(subs), NEW b \in Seq(TsBytes)
  PROVE  /\ After(o, b) \in Offsets /\ After(o, b).sub = ReadFrom(o).sub
         /\ After(o, b).at = ReadFrom(o).at + Len(b)
<1>1. PICK from : from = ReadFrom(o) OBVIOUS
<1>2. from \in Offsets BY <1>1, ReadFromOffset
<1>3. from.sub \in Nat \ {0} /\ from.at \in Nat BY <1>2 DEF Offsets
<1>4. PICK l \in Nat : l = Len(b) OBVIOUS
<1>5. CASE b = <<>>
  <2>1. After(o, b) = from BY <1>1, <1>5 DEF After
  <2>2. Len(b) = 0 BY <1>5
  <2>. QED BY <1>1, <1>2, <1>3, <2>1, <2>2
<1>6. CASE b # <<>>
  <2>1. After(o, b) = [from EXCEPT !.at = @ + Len(b)] BY <1>1, <1>6 DEF After
  <2>2. After(o, b) = [sub |-> from.sub, at |-> from.at + l] BY <1>2, <1>4, <2>1 DEF Offsets
  <2>3. from.at + l \in Nat BY <1>3, <1>4
  <2>4. [sub |-> from.sub, at |-> from.at + l] \in Offsets BY <1>3, <2>3 DEF Offsets
  <2>5. After(o, b).sub = from.sub /\ After(o, b).at = from.at + l BY <2>2
  <2>. QED BY <1>1, <1>4, <2>2, <2>4, <2>5
<1>. QED BY <1>5, <1>6


-----------------------------------------------------------------------------
(* Going around the ring.                                                  *)
LEMMA Around ==
  ASSUME NEW m \in Nat \ {0}, NEW a \in 0 .. m - 1, NEW b \in 0 .. m
  PROVE  /\ (a + b) % m = IF a + b < m THEN a + b ELSE a + b - m
         /\ (a + b) % m \in 0 .. m - 1
<1>1. CASE a + b < m
  <2>1. a + b \in 0 .. m - 1 BY <1>1
  <2>. QED BY <1>1, <2>1, Remainders
<1>2. CASE a + b >= m
  <2>1. a + b \in m .. 2 * m - 1 BY <1>2
  <2>2. (a + b) % m = a + b - m BY <2>1, Remainders
  <2>. QED BY <1>2, <2>2
<1>. QED BY <1>1, <1>2

(* The counters in a form without remainders.                              *)
Ring(sz, st, rd, wr, av, tt) ==
  /\ sz \in Nat \ {0} /\ st \in 0 .. sz - 1 /\ rd \in 0 .. sz - 1 /\ wr \in 0 .. sz - 1
  /\ av \in 0 .. tt /\ tt \in 0 .. sz
  /\ rd + av = wr \/ rd + av = wr + sz
  /\ st + tt = wr \/ st + tt = wr + sz

LEMMA RingForm ==
  ASSUME NEW sz \in Nat, NEW st \in Nat, NEW rd \in Nat, NEW wr \in Nat, NEW av \in Nat, NEW tt \in Nat
  PROVE  Ring(sz, st, rd, wr, av, tt) <=>
           /\ sz > 0 /\ st \in 0 .. sz - 1 /\ rd \in 0 .. sz - 1 /\ wr \in 0 .. sz - 1
           /\ av <= tt /\ tt <= sz
           /\ (rd + av) % sz = wr /\ (st + tt) % sz = wr
<1>1. ASSUME sz > 0, st \in 0 .. sz - 1, rd \in 0 .. sz - 1, wr \in 0 .. sz - 1, av <= tt, tt <= sz
      PROVE  /\ (rd + av) % sz = wr <=> rd + av = wr \/ rd + av = wr + sz
             /\ (st + tt) % sz = wr <=> st + tt = wr \/ st + tt = wr + sz
  <2>1. sz \in Nat \ {0} /\ av \in 0 .. sz /\ tt \in 0 .. sz BY <1>1
  <2>2. (rd + av) % sz = IF rd + av < sz THEN rd + av ELSE rd + av - sz BY <1>1, <2>1, Around
  <2>3. (st + tt) % sz = IF st + tt < sz THEN st + tt ELSE st + tt - sz BY <1>1, <2>1, Around
  <2>4. rd + av < 2 * sz /\ st + tt < 2 * sz BY <1>1
  <2>. QED BY <1>1, <2>2, <2>3, <2>4
<1>2. CASE sz > 0 /\ st \in 0 .. sz - 1 /\ rd \in 0 .. sz - 1 /\ wr \in 0 .. sz - 1 /\ av <= tt /\ tt <= sz
  <2>1. sz \in Nat \ {0} /\ av \in 0 .. tt /\ tt \in 0 .. sz BY <1>2
  <2>. QED BY <1>1, <1>2, <2>1 DEF Ring
<1>3. CASE ~(sz > 0 /\ st \in 0 .. sz - 1 /\ rd \in 0 .. sz - 1 /\ wr \in 0 .. sz - 1 /\ av <= tt /\ tt <= sz)
  BY <1>3 DEF Ring
<1>. QED BY <1>2, <1>3

LEMMA RingNow ==
  ASSUME TsCounts
  PROVE  Ring(size, start, read, write, avail, total) <=> RingConsistent
<1>1. size \in Nat /\ start \in Nat /\ read \in Nat /\ write \in Nat /\ avail \in Nat /\ total \in Nat
  BY Sizes DEF TsCounts
<1>. QED BY <1>1, RingForm, SMTT(30) DEF RingConsistent

LEMMA RingNext ==
  ASSUME TsCounts'
  PROVE  Ring(size', start', read', write', avail', total') => RingConsistent'
<1>0. size' \in {SubSize, RingSize} BY DEF TsCounts
<1>1. size' \in Nat BY <1>0, TsFileAssumption
<1>2. start' \in Nat /\ read' \in Nat /\ write' \in Nat /\ avail' \in Nat /\ total' \in Nat
  BY DEF TsCounts
<1>3. PICK a, b, c, d, e, f : a = size' /\ b = start' /\ c = read' /\ d = write' /\ e = avail' /\ f = total'
  OBVIOUS
<1>4. Ring(a, b, c, d, e, f) =>
           /\ a > 0 /\ b \in 0 .. a - 1 /\ c \in 0 .. a - 1 /\ d \in 0 .. a - 1
           /\ e <= f /\ f <= a
           /\ (c + e) % a = d /\ (b + f) % a = d
  <2>1. a \in Nat /\ b \in Nat /\ c \in Nat /\ d \in Nat /\ e \in Nat /\ f \in Nat BY <1>1, <1>2, <1>3
  <2>. QED BY ONLY <2>1, RingForm
<1>. QED BY <1>3, <1>4 DEF RingConsistent


-----------------------------------------------------------------------------
(* A write of bytes at an offset, in a sub file or behind the last one.    *)
Old(to) == IF to.sub > Len(subs) THEN <<>> ELSE subs[to.sub]

Room(to) == /\ to \in Offsets /\ to.sub <= Len(subs) + 1
            /\ Old(to) \in Seq(TsBytes) /\ to.at <= Len(Old(to))

Put(to, bytes) ==
  /\ subs' \in Seq(Seq(TsBytes))
  /\ Len(subs') = IF to.sub > Len(subs) THEN Len(subs) + 1 ELSE Len(subs)
  /\ subs'[to.sub] = Overwritten(Old(to), to.at, bytes)
  /\ \A i \in 1 .. Len(subs) : i # to.sub => subs'[i] = subs[i]
  /\ wat' = [sub |-> to.sub, at |-> to.at + Len(bytes)]

LEMMA RoomToWrite ==
  ASSUME Files PROVE Room(WriteTo(wat)) /\ Room(Begin)
<1>1. wat.sub \in Nat \ {0} /\ wat.at \in Nat /\ wat \in Offsets BY DEF Files, Offsets
<1>2. Len(subs) \in Nat /\ Len(subs) > 0 /\ wat.sub <= Len(subs) BY DEF Files
<1>3. ASSUME NEW i \in 1 .. Len(subs) PROVE subs[i] \in Seq(TsBytes) /\ Len(subs[i]) \in Nat
  <2>1. subs[i] \in Seq(TsBytes) BY DEF Files
  <2>. QED BY <2>1
<1>4. ASSUME NEW i \in 1 .. Len(subs) + 1
      PROVE  Room([sub |-> i, at |-> 0])
  <2>0. i \in Nat \ {0} BY <1>2
  <2>1. [sub |-> i, at |-> 0] \in Offsets BY <2>0 DEF Offsets
  <2>2. CASE i > Len(subs)
    <3>1. Old([sub |-> i, at |-> 0]) = <<>> BY <2>2 DEF Old
    <3>2. <<>> \in Seq(TsBytes) /\ Len(<<>>) = 0 OBVIOUS
    <3>. QED BY <2>1, <3>1, <3>2 DEF Room
  <2>3. CASE ~(i > Len(subs))
    <3>1. Old([sub |-> i, at |-> 0]) = subs[i] /\ i \in 1 .. Len(subs) BY <1>2, <2>3 DEF Old
    <3>2. subs[i] \in Seq(TsBytes) /\ 0 <= Len(subs[i]) BY <1>3, <3>1
    <3>. QED BY <2>1, <3>1, <3>2 DEF Room
  <2>. QED BY <2>2, <2>3
<1>5. Room(Begin)
  <2>1. 1 \in 1 .. Len(subs) + 1 BY <1>2
  <2>. QED BY <1>4, <2>1 DEF Begin
<1>6. CASE wat.at >= SubSize
  <2>1. WriteTo(wat) = [sub |-> wat.sub + 1, at |-> 0] BY <1>6 DEF WriteTo
  <2>2. wat.sub + 1 \in 1 .. Len(subs) + 1 BY <1>1, <1>2
  <2>. QED BY <1>4, <1>5, <2>1, <2>2
<1>7. CASE ~(wat.at >= SubSize)
  <2>1. WriteTo(wat) = wat BY <1>7 DEF WriteTo
  <2>2. wat.sub \in 1 .. Len(subs) /\ ~(wat.sub > Len(subs)) BY <1>1, <1>2
  <2>3. Old(wat) = subs[wat.sub] BY <2>2 DEF Old
  <2>4. wat.at <= Len(subs[wat.sub]) BY DEF Files
  <2>. QED BY <1>1, <1>2, <1>3, <1>5, <2>1, <2>2, <2>3, <2>4 DEF Room
<1>. QED BY <1>6, <1>7

LEMMA SubWritePuts ==
  ASSUME Files, NEW bytes \in Seq(TsBytes), SubWrite(bytes)
  PROVE  Put(WriteTo(wat), bytes)
<1>1. PICK to : to = WriteTo(wat) OBVIOUS
<1>2. Room(to) BY <1>1, RoomToWrite
<1>3. to \in Offsets /\ to.sub \in Nat \ {0} /\ to.at \in Nat /\ to.sub <= Len(subs) + 1
      /\ Old(to) \in Seq(TsBytes) /\ to.at <= Len(Old(to))
  BY <1>2 DEF Room, Offsets
<1>4. subs \in Seq(Seq(TsBytes)) /\ Len(subs) \in Nat BY DEF Files
<1>5. PICK more : more = IF to.sub > Len(subs) THEN Append(subs, <<>>) ELSE subs OBVIOUS
<1>6. /\ more \in Seq(Seq(TsBytes)) /\ Len(more) = IF to.sub > Len(subs) THEN Len(subs) + 1 ELSE Len(subs)
      /\ more[to.sub] = Old(to) /\ to.sub \in 1 .. Len(more)
      /\ \A i \in 1 .. Len(subs) : more[i] = subs[i]
  <2>1. CASE to.sub > Len(subs)
    <3>1. more = Append(subs, <<>>) /\ Old(to) = <<>> /\ to.sub = Len(subs) + 1
      BY <1>3, <1>4, <1>5, <2>1 DEF Old
    <3>2. <<>> \in Seq(TsBytes) OBVIOUS
    <3>3. more \in Seq(Seq(TsBytes)) /\ Len(more) = Len(subs) + 1 BY <1>4, <3>1, <3>2
    <3>4. more[Len(subs) + 1] = <<>> /\ \A i \in 1 .. Len(subs) : more[i] = subs[i] BY <1>4, <3>1
    <3>. QED BY <1>3, <1>4, <2>1, <3>1, <3>3, <3>4
  <2>2. CASE ~(to.sub > Len(subs))
    <3>1. more = subs /\ Old(to) = subs[to.sub] /\ to.sub \in 1 .. Len(subs)
      BY <1>3, <1>4, <1>5, <2>2 DEF Old
    <3>. QED BY <1>4, <2>2, <3>1
  <2>. QED BY <2>1, <2>2
<1>7. subs' = [more EXCEPT ![to.sub] = Overwritten(more[to.sub], to.at, bytes)]
  BY <1>1, <1>5 DEF SubWrite
<1>8. PICK new : new = Overwritten(Old(to), to.at, bytes) OBVIOUS
<1>9. new \in Seq(TsBytes)
  <2>1. to.at \in 0 .. Len(Old(to)) BY <1>3
  <2>. QED BY <1>3, <1>8, <2>1, OverwrittenBytes
<1>10. subs' = [more EXCEPT ![to.sub] = new] BY <1>6, <1>7, <1>8
<1>11. subs' \in Seq(Seq(TsBytes)) /\ Len(subs') = Len(more) /\ subs'[to.sub] = new
  BY <1>6, <1>9, <1>10
<1>12. ASSUME NEW i \in 1 .. Len(subs), i # to.sub PROVE subs'[i] = subs[i]
  <2>1. i \in 1 .. Len(more) BY <1>4, <1>6
  <2>2. subs'[i] = more[i] BY <1>6, <1>10, <1>12, <2>1
  <2>. QED BY <1>6, <2>2
<1>13. wat' = [sub |-> to.sub, at |-> to.at + Len(bytes)]
  <2>1. wat' = [to EXCEPT !.at = @ + Len(bytes)] BY <1>1 DEF SubWrite
  <2>. QED BY <1>3, <2>1 DEF Offsets
<1>. QED BY <1>1, <1>6, <1>8, <1>11, <1>12, <1>13 DEF Put

LEMMA RewoundPuts ==
  ASSUME Files, NEW bytes \in Seq(TsBytes),
         subs' = [subs EXCEPT ![1] = Overwritten(@, 0, bytes)],
         wat' = [sub |-> 1, at |-> Len(bytes)]
  PROVE  Put(Begin, bytes)
<1>1. Begin.sub = 1 /\ Begin.at = 0 BY DEF Begin
<1>2. subs \in Seq(Seq(TsBytes)) /\ Len(subs) \in Nat /\ Len(subs) > 0 BY DEF Files
<1>3. 1 \in 1 .. Len(subs) /\ ~(1 > Len(subs)) BY <1>2
<1>4. Old(Begin) = subs[1] BY <1>1, <1>3 DEF Old
<1>5. PICK new : new = Overwritten(subs[1], 0, bytes) OBVIOUS
<1>6. subs[1] \in Seq(TsBytes) BY <1>2, <1>3
<1>7. new \in Seq(TsBytes)
  <2>1. 0 \in 0 .. Len(subs[1]) BY <1>6
  <2>. QED BY <1>5, <1>6, <2>1, OverwrittenBytes
<1>8. subs' = [subs EXCEPT ![1] = new] BY <1>5
<1>9. subs' \in Seq(Seq(TsBytes)) /\ Len(subs') = Len(subs) /\ subs'[1] = new BY <1>2, <1>3, <1>7, <1>8
<1>10. \A i \in 1 .. Len(subs) : i # 1 => subs'[i] = subs[i] BY <1>2, <1>8
<1>11. PICK n \in Nat : n = Len(bytes) OBVIOUS
<1>12. wat' = [sub |-> 1, at |-> 0 + n] BY <1>11
<1>. QED BY <1>1, <1>3, <1>4, <1>5, <1>9, <1>10, <1>11, <1>12 DEF Put

LEMMA PutFiles ==
  ASSUME Files, NEW to, Room(to), NEW bytes \in Seq(TsBytes), Put(to, bytes), rat' = rat
  PROVE  /\ Files'
         /\ Len(subs') \in Nat /\ Len(subs') >= Len(subs)
         /\ subs[1] # <<>> \/ (to = Begin /\ bytes # <<>>) => subs'[1] # <<>>
<1>1. to \in Offsets /\ to.sub \in Nat \ {0} /\ to.at \in Nat /\ to.sub <= Len(subs) + 1
      /\ Old(to) \in Seq(TsBytes) /\ to.at <= Len(Old(to))
  BY DEF Room, Offsets
<1>2. subs \in Seq(Seq(TsBytes)) /\ Len(subs) \in Nat /\ Len(subs) > 0 BY DEF Files
<1>3. /\ subs' \in Seq(Seq(TsBytes)) /\ wat' = [sub |-> to.sub, at |-> to.at + Len(bytes)]
      /\ Len(subs') = IF to.sub > Len(subs) THEN Len(subs) + 1 ELSE Len(subs)
      /\ subs'[to.sub] = Overwritten(Old(to), to.at, bytes)
  BY DEF Put
<1>4. Len(subs') \in Nat /\ Len(subs') >= Len(subs) /\ to.sub <= Len(subs') BY <1>1, <1>2, <1>3
<1>5. PICK n \in Nat : n = Len(bytes) OBVIOUS
<1>6. PICK l \in Nat : l = Len(Old(to)) BY <1>1
<1>7. PICK new : new = Overwritten(Old(to), to.at, bytes) OBVIOUS
<1>8. new \in Seq(TsBytes) /\ Len(new) = IF to.at + n > l THEN to.at + n ELSE l
  <2>1. to.at \in 0 .. Len(Old(to)) BY <1>1
  <2>. QED BY <1>1, <1>5, <1>6, <1>7, <2>1, OverwrittenBytes
<1>9. to.at + n \in Nat /\ to.at + n <= Len(new) BY <1>1, <1>5, <1>6, <1>8
<1>10. wat' \in Offsets /\ wat'.sub = to.sub /\ wat'.at = to.at + n
  <2>1. wat' = [sub |-> to.sub, at |-> to.at + n] BY <1>3, <1>5
  <2>. QED BY <1>1, <1>9, <2>1 DEF Offsets
<1>11. wat'.at <= Len(subs'[wat'.sub]) BY <1>3, <1>7, <1>9, <1>10
<1>12. rat' \in Offsets /\ rat'.sub <= Len(subs')
  <2>1. rat \in Offsets /\ rat.sub <= Len(subs) /\ rat.sub \in Nat BY DEF Files, Offsets
  <2>. QED BY <1>2, <1>4, <2>1
<1>13. Files'
  <2>1. Len(subs') > 0 /\ wat'.sub <= Len(subs') BY <1>2, <1>4, <1>10
  <2>. QED BY <1>3, <1>10, <1>11, <1>12, <2>1 DEF Files
<1>14. ASSUME subs[1] # <<>> \/ (to = Begin /\ bytes # <<>>) PROVE subs'[1] # <<>>
  <2>1. CASE to.sub = 1
    <3>1. subs'[1] = new BY <1>3, <1>7, <2>1
    <3>2. CASE subs[1] # <<>>
      <4>1. ~(to.sub > Len(subs)) BY <1>2, <2>1
      <4>2. Old(to) = subs[1] BY <2>1, <4>1 DEF Old
      <4>3. l > 0 BY <1>1, <1>6, <3>2, <4>2
      <4>4. Len(new) > 0 BY <1>1, <1>5, <1>8, <4>3
      <4>. QED BY <3>1, <4>4
    <3>3. CASE to = Begin /\ bytes # <<>>
      <4>1. n > 0 BY <1>5, <3>3
      <4>2. Len(new) > 0 BY <1>1, <1>8, <1>9, <4>1
      <4>. QED BY <3>1, <4>2
    <3>. QED BY <1>14, <3>2, <3>3
  <2>2. CASE to.sub # 1
    <3>1. to # Begin BY <2>2 DEF Begin
    <3>2. 1 \in 1 .. Len(subs) BY <1>2
    <3>3. subs'[1] = subs[1] BY <2>2, <3>2 DEF Put
    <3>. QED BY <1>14, <3>1, <3>3
  <2>. QED BY <2>1, <2>2
<1>. QED BY <1>4, <1>13, <1>14


-----------------------------------------------------------------------------
(* The steps.                                                              *)
LEMMA KeptFiles ==
  ASSUME Files, UNCHANGED <<subs, wat, rat>> PROVE Files'
BY DEF Files

LEMMA RateTsRing ==
  ASSUME TsRing, GotRate PROVE TsRing'
<1>1. job = NoJob /\ size # RingSize /\ total < RingSize /\ total > 0 /\ size' = RingSize BY DEF GotRate
<1>2. UNCHANGED <<start, read, write, avail, total, subs, wat, rat, job, fed, next, adrift>>
  BY DEF GotRate, disk
<1>3. TsCounts /\ Files /\ job \in Jobs \cup {NoJob} BY DEF TsRing
<1>4. size \in Nat /\ size = SubSize /\ SubSize \in Nat \ {0} /\ RingSize \in Nat \ {0}
  BY <1>1, <1>3, Sizes DEF TsCounts
<1>5. read \in Nat /\ start \in Nat /\ write \in Nat /\ avail \in Nat /\ total \in Nat BY <1>3 DEF TsCounts
<1>6. Pending = 0 /\ Pending' = 0 /\ Kept' = Kept BY <1>1, <1>2 DEF Pending, Kept
<1>7. /\ total <= Kept /\ next <= Kept - avail + 1
      /\ total < size => start = 0 /\ write = total /\ read + avail = total
      /\ size # RingSize => total + Pending < SubSize
  BY DEF TsRing, Filling
<1>8. start = 0 /\ write = total /\ read + avail = total BY <1>1, <1>4, <1>5, <1>6, <1>7
<1>9. TsCounts' BY <1>1, <1>2, <1>3 DEF TsCounts
<1>10. Ring(size', start', read', write', avail', total')
  <2>1. Ring(RingSize, start, read, write, avail, total) BY <1>1, <1>4, <1>5, <1>8 DEF Ring
  <2>. QED BY <1>1, <1>2, <2>1
<1>11. RingConsistent' BY <1>9, <1>10, RingNext
<1>12. Filling'
  <2>1. Pending' <= size' BY <1>1, <1>4, <1>6
  <2>2. total' <= Kept' /\ next' <= Kept' - avail' + 1 BY <1>2, <1>6, <1>7
  <2>3. start' = 0 /\ write' = total' /\ read' + avail' = total' BY <1>2, <1>8
  <2>. QED BY <1>1, <2>1, <2>2, <2>3 DEF Filling
<1>13. JobCut' BY <1>1, <1>2 DEF JobCut
<1>14. FirstFilled' BY <1>2 DEF TsRing, FirstFilled
<1>15. Files' BY <1>2, <1>3, KeptFiles
<1>. QED BY <1>2, <1>3, <1>9, <1>11, <1>12, <1>13, <1>14, <1>15 DEF TsRing

(* The pieces a write is cut into.                                         *)
LEMMA Cut ==
  ASSUME NEW S, NEW bytes \in Seq(S), NEW n \in Nat, n = Len(bytes), NEW k \in 0 .. n - 1
  PROVE  /\ SubSeq(bytes, 1, k) \in Seq(S) /\ Len(SubSeq(bytes, 1, k)) = k
         /\ \A i \in 1 .. k : SubSeq(bytes, 1, k)[i] = bytes[i]
         /\ SubSeq(bytes, k + 1, n) \in Seq(S) /\ Len(SubSeq(bytes, k + 1, n)) = n - k
         /\ \A i \in 1 .. n - k : SubSeq(bytes, k + 1, n)[i] = bytes[k + i]
<1>1. PICK x : x = SubSeq(bytes, 1, k) OBVIOUS
<1>2. PICK z : z = SubSeq(bytes, k + 1, n) OBVIOUS
<1>3. x \in Seq(S) /\ Len(x) = k /\ \A i \in 1 .. k : x[i] = bytes[i] BY <1>1
<1>4. k + 1 \in 1 .. Len(bytes) /\ n \in 1 .. Len(bytes) /\ k + 1 <= n OBVIOUS
<1>5. z \in Seq(S) BY <1>2, <1>4
<1>6. Len(z) = n - k
  <2>1. Len(z) = n - (k + 1) + 1 BY <1>2, <1>4
  <2>. QED BY <2>1
<1>7. ASSUME NEW i \in 1 .. n - k PROVE z[i] = bytes[k + i]
  <2>1. i \in 1 .. n - (k + 1) + 1 OBVIOUS
  <2>2. z[i] = bytes[(k + 1) + i - 1] BY <1>2, <1>4, <2>1, SMTT(30)
  <2>3. (k + 1) + i - 1 = k + i OBVIOUS
  <2>. QED BY <2>2, <2>3
<1>. QED BY <1>1, <1>2, <1>3, <1>5, <1>6, <1>7

LEMMA BeginTsRing ==
  ASSUME TsRing, NEW n \in WriteSizes, WriteBegin(n) PROVE TsRing' /\ job' # NoJob
<1>0. n \in 1 .. RingSize /\ SubSize \in Nat \ {0} /\ RingSize \in Nat \ {0} /\ MaxStream \in Nat
  BY TsFileAssumption
<1>1. UNCHANGED <<size, start, read, write, avail, total, subs, wat, rat, next, adrift>>
  BY DEF WriteBegin, counters, disk
<1>2. /\ job = NoJob /\ fed + n <= MaxStream /\ fed' = fed + n
      /\ size = RingSize \/ total + n < SubSize
  BY DEF WriteBegin
<1>3. TsCounts /\ Files BY DEF TsRing
<1>4. size \in Nat \ {0} /\ size \in {SubSize, RingSize} /\ fed \in 0 .. MaxStream /\ write \in Nat
      /\ total \in Nat /\ avail \in Nat
  BY <1>3, Sizes DEF TsCounts
<1>5. PICK bytes : bytes = [i \in 1 .. n |-> fed + i] OBVIOUS
<1>6. bytes \in Seq(TsBytes) /\ Len(bytes) = n /\ \A i \in 1 .. n : bytes[i] = fed + i
  <2>1. ASSUME NEW i \in 1 .. n PROVE fed + i \in TsBytes BY <1>0, <1>2, <1>4 DEF TsBytes
  <2>2. n \in Nat BY <1>0
  <2>. QED BY <1>5, <2>1, <2>2
<1>7. PICK k : k = IF write + n > size THEN size - write ELSE 0 OBVIOUS
<1>8. write \in 0 .. size - 1 BY DEF TsRing, RingConsistent
<1>9. k \in 0 .. n - 1 BY <1>0, <1>4, <1>7, <1>8
<1>10. PICK x, z : x = SubSeq(bytes, 1, k) /\ z = SubSeq(bytes, k + 1, n) OBVIOUS
<1>11. /\ x \in Seq(TsBytes) /\ Len(x) = k /\ z \in Seq(TsBytes) /\ Len(z) = n - k
       /\ \A i \in 1 .. k : x[i] = bytes[i]
       /\ \A i \in 1 .. n - k : z[i] = bytes[k + i]
  <2>1. n \in Nat BY <1>0
  <2>. QED BY <1>6, <1>9, <1>10, <2>1, Cut
<1>12. job' = [first |-> x, rest |-> z, done |-> n, step |-> IF k > 0 THEN "first" ELSE "rest"]
  BY <1>5, <1>7, <1>10 DEF WriteBegin
<1>13. job' \in Jobs /\ job' # NoJob
  <2>1. n \in Nat /\ (IF k > 0 THEN "first" ELSE "rest") \in {"first", "rest", "adjust"} BY <1>0
  <2>2. job' \in Jobs BY <1>11, <1>12, <2>1 DEF Jobs, TsBytes
  <2>. QED BY <2>2, TsFileAssumption
<1>14. Pending' = n /\ Kept = fed /\ Kept' = fed
  <2>1. job'.done = n BY <1>12
  <2>2. Kept' = fed' - n BY <1>13, <2>1 DEF Kept
  <2>3. Kept = fed - 0 BY <1>2 DEF Kept
  <2>. QED BY <1>0, <1>2, <1>4, <1>13, <2>1, <2>2, <2>3 DEF Pending
<1>15. TsCounts'
  <2>1. fed' \in 0 .. MaxStream BY <1>0, <1>2, <1>4
  <2>. QED BY <1>1, <1>3, <2>1 DEF TsCounts
<1>16. RingConsistent' BY <1>1 DEF TsRing, RingConsistent
<1>17. Filling'
  <2>1. /\ total <= Kept /\ next <= Kept - avail + 1
        /\ total < size => start = 0 /\ write = total /\ read + avail = total
    BY DEF TsRing, Filling
  <2>2. Pending' <= size' BY <1>0, <1>1, <1>2, <1>4, <1>14
  <2>3. size' # RingSize => total' + Pending' < SubSize BY <1>1, <1>2, <1>14
  <2>. QED BY <1>1, <1>14, <2>1, <2>2, <2>3 DEF Filling
<1>18. JobCut'
  <2>1. Len(job'.first) = IF write' + job'.done > size' THEN size' - write' ELSE 0
    <3>1. job'.first = x /\ job'.done = n BY <1>12
    <3>. QED BY <1>1, <1>7, <1>11, <3>1
  <2>2. Len(job'.first) + Len(job'.rest) = job'.done /\ job'.rest # <<>>
    <3>1. job'.first = x /\ job'.rest = z /\ job'.done = n BY <1>12
    <3>2. Len(z) > 0 /\ k + (n - k) = n BY <1>0, <1>9, <1>11
    <3>. QED BY <1>11, <3>1, <3>2
  <2>3. job'.step = "first" => job'.first # <<>>
    <3>1. job'.first = x /\ job'.step = IF k > 0 THEN "first" ELSE "rest" BY <1>12
    <3>2. k > 0 => x # <<>> BY <1>11
    <3>. QED BY <3>1, <3>2
  <2>4. \A i \in 1 .. Len(job'.first) : job'.first[i] = Kept' + i
    <3>1. job'.first = x BY <1>12
    <3>2. ASSUME NEW i \in 1 .. k PROVE x[i] = fed + i
      <4>1. i \in 1 .. n BY <1>0, <1>9
      <4>. QED BY <1>6, <1>11, <4>1
    <3>. QED BY <1>11, <1>14, <3>1, <3>2
  <2>5. \A i \in 1 .. Len(job'.rest) : job'.rest[i] = Kept' + Len(job'.first) + i
    <3>1. job'.first = x /\ job'.rest = z BY <1>12
    <3>2. ASSUME NEW i \in 1 .. n - k PROVE z[i] = fed + k + i
      <4>1. k + i \in 1 .. n BY <1>0, <1>9
      <4>2. z[i] = fed + (k + i) BY <1>6, <1>11, <4>1
      <4>3. fed + (k + i) = fed + k + i BY <1>0, <1>4, <1>9
      <4>. QED BY <4>2, <4>3
    <3>. QED BY <1>11, <1>14, <3>1, <3>2
  <2>. QED BY <2>1, <2>2, <2>3, <2>4, <2>5 DEF JobCut
<1>19. FirstFilled'
  <2>1. job'.step # "adjust" BY <1>12
  <2>. QED BY <1>1, <2>1 DEF TsRing, FirstFilled
<1>20. Files' BY <1>1, <1>3, KeptFiles
<1>. QED BY <1>13, <1>15, <1>16, <1>17, <1>18, <1>19, <1>20 DEF TsRing


(* A piece written, at whatever place, moves no counter.                   *)
LEMMA PieceTsRing ==
  ASSUME TsRing, job # NoJob, NEW s \in {"rest", "adjust"}, job' = [job EXCEPT !.step = s],
         NEW to, Room(to), NEW piece \in Seq(TsBytes), piece # <<>>, Put(to, piece),
         subs[1] = <<>> => to = Begin,
         UNCHANGED <<size, start, read, write, avail, total, rat, fed, next>>, adrift' \in BOOLEAN
  PROVE  TsRing'
<1>1. TsCounts /\ Files /\ job \in Jobs BY DEF TsRing
<1>2. /\ job' \in Jobs /\ job' # NoJob /\ job'.first = job.first /\ job'.rest = job.rest
      /\ job'.done = job.done /\ job'.step = s
  <2>1. s \in {"first", "rest", "adjust"} OBVIOUS
  <2>2. job' = [first |-> job.first, rest |-> job.rest, done |-> job.done, step |-> s]
    BY <1>1 DEF Jobs
  <2>3. job' \in Jobs BY <1>1, <2>1, <2>2 DEF Jobs
  <2>. QED BY <2>2, <2>3, TsFileAssumption
<1>3. Pending' = Pending /\ Kept' = Kept BY <1>2 DEF Pending, Kept
<1>4. TsCounts' BY <1>1 DEF TsCounts
<1>5. Files' /\ subs'[1] # <<>> BY <1>1, PutFiles
<1>6. RingConsistent' BY DEF TsRing, RingConsistent
<1>7. Filling' BY <1>3 DEF TsRing, Filling
<1>8. JobCut'
  <2>1. /\ Len(job.first) = IF write + job.done > size THEN size - write ELSE 0
        /\ Len(job.first) + Len(job.rest) = job.done /\ job.rest # <<>>
        /\ \A i \in 1 .. Len(job.first) : job.first[i] = Kept + i
        /\ \A i \in 1 .. Len(job.rest) : job.rest[i] = Kept + Len(job.first) + i
    BY DEF TsRing, JobCut
  <2>2. job'.step # "first" BY <1>2
  <2>. QED BY <1>2, <1>3, <2>1, <2>2 DEF JobCut
<1>9. FirstFilled' BY <1>5 DEF FirstFilled
<1>. QED BY <1>2, <1>4, <1>5, <1>6, <1>7, <1>8, <1>9 DEF TsRing

LEMMA WriteToBegin ==
  ASSUME TsRing, subs[1] = <<>> PROVE WriteTo(wat) = Begin
<1>1. wat = Begin BY DEF TsRing, FirstFilled
<1>2. ~(wat.at >= SubSize) BY <1>1, TsFileAssumption DEF Begin
<1>. QED BY <1>1, <1>2 DEF WriteTo

LEMMA DriftIsBoolean ==
  ASSUME NEW b, NEW c PROVE (b \/ c) \in BOOLEAN
OBVIOUS

LEMMA WriteFirstTsRing ==
  ASSUME TsRing, WriteFirst PROVE TsRing'
<1>1. /\ job # NoJob /\ job.step = "first" /\ SubWrite(job.first) /\ job' = [job EXCEPT !.step = "rest"]
      /\ UNCHANGED <<size, start, read, write, avail, total, rat, fed, next>>
  BY DEF WriteFirst, counters
<1>2. Files /\ job \in Jobs BY <1>1 DEF TsRing
<1>3. job.first \in Seq(TsBytes) /\ job.first # <<>>
  <2>1. job.first \in Seq(TsBytes) BY <1>2 DEF Jobs, TsBytes
  <2>. QED BY <1>1, <2>1 DEF TsRing, JobCut
<1>4. Put(WriteTo(wat), job.first) BY <1>1, <1>2, <1>3, SubWritePuts
<1>5. Room(WriteTo(wat)) BY <1>2, RoomToWrite
<1>6. subs[1] = <<>> => WriteTo(wat) = Begin BY WriteToBegin
<1>7. adrift' \in BOOLEAN BY DriftIsBoolean DEF WriteFirst
<1>8. "rest" \in {"rest", "adjust"} OBVIOUS
<1>. QED BY <1>1, <1>3, <1>4, <1>5, <1>6, <1>7, <1>8, PieceTsRing

LEMMA WriteRestTsRing ==
  ASSUME TsRing, WriteRest PROVE TsRing'
<1>1. /\ job # NoJob /\ job.step = "rest" /\ job' = [job EXCEPT !.step = "adjust"]
      /\ UNCHANGED <<size, start, read, write, avail, total, rat, fed, next>>
  BY DEF WriteRest, counters
<1>2. Files /\ job \in Jobs BY <1>1 DEF TsRing
<1>3. job.rest \in Seq(TsBytes) /\ job.rest # <<>>
  <2>1. job.rest \in Seq(TsBytes) BY <1>2 DEF Jobs, TsBytes
  <2>. QED BY <1>1, <2>1 DEF TsRing, JobCut
<1>4. "adjust" \in {"rest", "adjust"} OBVIOUS
<1>5. CASE job.first = <<>>
  <2>1. SubWrite(job.rest) /\ adrift' = (adrift \/ Straddles(job.rest) \/ (write = 0 /\ wat # Begin))
    BY <1>5 DEF WriteRest
  <2>2. Put(WriteTo(wat), job.rest) BY <1>2, <1>3, <2>1, SubWritePuts
  <2>3. Room(WriteTo(wat)) BY <1>2, RoomToWrite
  <2>4. subs[1] = <<>> => WriteTo(wat) = Begin BY WriteToBegin
  <2>5. adrift' \in BOOLEAN BY <2>1, DriftIsBoolean
  <2>. QED BY <1>1, <1>3, <1>4, <2>2, <2>3, <2>4, <2>5, PieceTsRing
<1>6. CASE job.first # <<>>
  <2>1. /\ subs' = [subs EXCEPT ![1] = Overwritten(@, 0, job.rest)]
        /\ wat' = [sub |-> 1, at |-> Len(job.rest)]
        /\ adrift' = (adrift \/ Len(job.rest) > SubSize)
    BY <1>6 DEF WriteRest
  <2>2. Put(Begin, job.rest) BY <1>2, <1>3, <2>1, RewoundPuts
  <2>3. Room(Begin) BY <1>2, RoomToWrite
  <2>4. adrift' \in BOOLEAN BY <2>1, DriftIsBoolean
  <2>. QED BY <1>1, <1>3, <1>4, <2>2, <2>3, <2>4, PieceTsRing
<1>. QED BY <1>5, <1>6

LEMMA AdjustTsRing ==
  ASSUME TsRing, Adjust PROVE TsRing'
<1>0. TsCounts /\ Files /\ JobCut /\ Filling BY DEF TsRing
<1>1. job # NoJob /\ job.step = "adjust" /\ job' = NoJob /\ UNCHANGED <<size, subs, wat, rat, fed, next>>
  BY DEF Adjust, disk
<1>2. PICK d : d = job.done OBVIOUS
<1>3. d \in Nat /\ d > 0
  <2>1. job \in Jobs BY <1>1 DEF TsRing
  <2>2. d \in Nat /\ job.first \in Seq(TsBytes) /\ job.rest \in Seq(TsBytes) BY <1>2, <2>1 DEF Jobs, TsBytes
  <2>3. Len(job.first) + Len(job.rest) = d /\ job.rest # <<>> BY <1>0, <1>1, <1>2 DEF JobCut
  <2>4. Len(job.first) \in Nat /\ Len(job.rest) \in Nat /\ Len(job.rest) > 0 BY <2>2, <2>3
  <2>5. PICK a, b : a = Len(job.first) /\ b = Len(job.rest) OBVIOUS
  <2>6. a \in Nat /\ b \in Nat /\ b > 0 /\ a + b = d BY <2>3, <2>4, <2>5
  <2>. QED BY ONLY <2>6
<1>4. Pending = d /\ Pending' = 0 /\ Kept = fed - d /\ Kept' = fed - 0
  BY <1>1, <1>2 DEF Pending, Kept
<1>5. /\ size \in Nat \ {0} /\ start \in Nat /\ read \in Nat /\ write \in Nat /\ avail \in Nat
      /\ total \in Nat /\ fed \in Nat /\ next \in Nat
  <2>1. fed \in 0 .. MaxStream /\ MaxStream \in Nat BY <1>0, Sizes DEF TsCounts
  <2>. QED BY <1>0, <2>1, Sizes DEF TsCounts
<1>6. Ring(size, start, read, write, avail, total) BY <1>0, RingNow DEF TsRing
<1>7. /\ d <= size /\ total <= fed - d /\ next <= fed - d - avail + 1
      /\ total < size => start = 0 /\ write = total /\ read + avail = total
      /\ size # RingSize => total + d < SubSize
  BY <1>0, <1>4 DEF Filling
<1>8. /\ avail' = Least(avail + d, size) /\ total' = Least(total + d, size)
      /\ read' = IF d > size - avail THEN write' ELSE read
      /\ start' = IF d > size - total THEN write' ELSE start
  BY <1>2 DEF Adjust
<1>9. write' = IF write + d < size THEN write + d ELSE write + d - size
  <2>1. write' = (write + d) % size BY <1>2 DEF Adjust
  <2>2. d \in 0 .. size /\ write \in 0 .. size - 1 BY <1>3, <1>5, <1>6, <1>7 DEF Ring
  <2>. QED BY <1>5, <2>1, <2>2, Around
<1>10. /\ avail' = IF d > size - avail THEN size ELSE avail + d
       /\ total' = IF d > size - total THEN size ELSE total + d
  BY <1>3, <1>5, <1>8 DEF Least
<1>11. Ring(size', start', read', write', avail', total')
  <2>1. /\ start \in 0 .. size - 1 /\ read \in 0 .. size - 1 /\ write \in 0 .. size - 1
        /\ avail \in 0 .. total /\ total \in 0 .. size
        /\ read + avail = write \/ read + avail = write + size
        /\ start + total = write \/ start + total = write + size
    BY <1>6 DEF Ring
  <2>2. write' \in 0 .. size - 1 BY <1>3, <1>5, <1>7, <1>9, <2>1
  <2>3. read' \in 0 .. size - 1 /\ start' \in 0 .. size - 1 BY <1>8, <2>1, <2>2
  <2>4. total' \in 0 .. size /\ avail' \in 0 .. total' BY <1>3, <1>5, <1>10, <2>1
  <2>5. read' + avail' = write' \/ read' + avail' = write' + size
    <3>1. CASE d > size - avail BY <1>5, <1>8, <1>10, <2>2, <3>1
    <3>2. CASE ~(d > size - avail)
      <4>1. read' = read /\ avail' = avail + d BY <1>8, <1>10, <3>2
      <4>2. read + avail + d < 2 * size BY <1>3, <1>5, <2>1, <3>2
      <4>. QED BY <1>3, <1>5, <1>7, <1>9, <2>1, <4>1, <4>2
    <3>. QED BY <3>1, <3>2
  <2>6. start' + total' = write' \/ start' + total' = write' + size
    <3>1. CASE d > size - total BY <1>5, <1>8, <1>10, <2>2, <3>1
    <3>2. CASE ~(d > size - total)
      <4>1. start' = start /\ total' = total + d BY <1>8, <1>10, <3>2
      <4>2. start + total + d < 2 * size BY <1>3, <1>5, <2>1, <3>2
      <4>. QED BY <1>3, <1>5, <1>7, <1>9, <2>1, <4>1, <4>2
    <3>. QED BY <3>1, <3>2
  <2>. QED BY <1>1, <1>5, <2>2, <2>3, <2>4, <2>5, <2>6 DEF Ring
<1>12. TsCounts'
  <2>1. start' \in Nat /\ read' \in Nat /\ write' \in Nat /\ avail' \in Nat /\ total' \in Nat
    BY <1>1, <1>5, <1>11 DEF Ring
  <2>2. adrift' \in BOOLEAN BY DriftIsBoolean DEF Adjust
  <2>3. size' \in {SubSize, RingSize} /\ fed' \in 0 .. MaxStream /\ next' \in Nat \ {0}
    BY <1>0, <1>1 DEF TsCounts
  <2>. QED BY <2>1, <2>2, <2>3 DEF TsCounts
<1>13. RingConsistent' BY <1>11, <1>12, RingNext
<1>14. Filling'
  <2>1. Pending' <= size' BY <1>1, <1>4, <1>5
  <2>2. total' <= Kept' BY <1>3, <1>4, <1>5, <1>7, <1>10
  <2>3. next' <= Kept' - avail' + 1 BY <1>1, <1>3, <1>4, <1>5, <1>7, <1>10
  <2>4. total' < size' => start' = 0 /\ write' = total' /\ read' + avail' = total'
    <3>1. SUFFICES ASSUME total' < size PROVE start' = 0 /\ write' = total' /\ read' + avail' = total'
      BY <1>1
    <3>2. ~(d > size - total) /\ total' = total + d BY <1>5, <1>10, <3>1
    <3>3. total + d < size /\ total < size BY <1>3, <1>5, <3>1, <3>2
    <3>4. start = 0 /\ write = total /\ read + avail = total BY <1>7, <3>3
    <3>5. ~(d > size - avail) BY <1>3, <1>5, <3>3, <3>4
    <3>. QED BY <1>3, <1>5, <1>8, <1>9, <1>10, <3>2, <3>3, <3>4, <3>5
  <2>5. size' # RingSize => total' + Pending' < SubSize
    <3>1. total' <= total + d /\ total' \in Nat BY <1>3, <1>5, <1>10
    <3>2. SubSize \in Nat BY TsFileAssumption
    <3>3. total + d < SubSize => total' + 0 < SubSize
      <4>1. PICK a, b : a = total' /\ b = total + d OBVIOUS
      <4>2. a \in Nat /\ b \in Nat /\ a <= b BY <1>3, <1>5, <3>1, <4>1
      <4>3. b < SubSize => a + 0 < SubSize BY ONLY <3>2, <4>2
      <4>. QED BY <4>1, <4>3
    <3>. QED BY <1>1, <1>4, <1>7, <3>3
  <2>. QED BY <2>1, <2>2, <2>3, <2>4, <2>5 DEF Filling
<1>15. JobCut' BY <1>1 DEF JobCut
<1>16. FirstFilled' BY <1>1 DEF TsRing, FirstFilled
<1>17. Files' BY <1>0, <1>1, KeptFiles
<1>. QED BY <1>1, <1>12, <1>13, <1>14, <1>15, <1>16, <1>17 DEF TsRing


(* What a read takes, in numbers.                                          *)
LEMMA ReadLengths ==
  ASSUME TsRing, avail > 0, NEW n \in ReadSizes,
         NEW td, td = Todo(n), NEW sp, sp = Split(n)
  PROVE  /\ td \in Nat /\ td > 0 /\ td <= n /\ td <= avail /\ sp \in Nat /\ sp < td
         /\ sp = IF read + td > size THEN size - read ELSE 0
         /\ First(n) \in Seq(TsBytes) /\ Second(n) \in Seq(TsBytes)
         /\ Len(First(n)) <= sp /\ Len(Second(n)) <= td - sp
         /\ Short(n) <=> Len(First(n)) # sp
         /\ Short(n) => Second(n) = <<>>
         /\ sp > 0 /\ ~Short(n) => Second(n) # <<>>
         /\ Taken(n) \in Seq(TsBytes) /\ Len(Taken(n)) = Len(First(n)) + Len(Second(n))
<1>0. TsCounts /\ Files BY DEF TsRing
<1>1. n \in Nat \ {0} /\ size \in Nat \ {0} /\ avail \in Nat /\ read \in Nat /\ total \in Nat
  <2>1. n \in Nat \ {0} BY TsFileAssumption
  <2>. QED BY <1>0, <2>1, Sizes DEF TsCounts
<1>2. Ring(size, start, read, write, avail, total) BY <1>0, RingNow DEF TsRing
<1>3. read < size /\ avail <= total /\ total <= size BY <1>1, <1>2 DEF Ring
<1>4. td \in Nat /\ td > 0 /\ td <= n /\ td <= avail BY <1>1 DEF Todo, Least
<1>5. sp = IF read + td > size THEN size - read ELSE 0 BY DEF Split
<1>6. sp \in Nat /\ sp < td BY <1>1, <1>3, <1>4, <1>5
<1>7. rat \in Offsets /\ rat.sub <= Len(subs) /\ Begin \in Offsets /\ Begin.sub <= Len(subs)
      /\ Len(subs) \in Nat /\ Len(subs) > 0
  BY <1>0 DEF Files, Begin, Offsets
<1>8. First(n) \in Seq(TsBytes) /\ Len(First(n)) <= sp /\ Len(First(n)) \in Nat
  <2>1. CASE sp > 0
    <3>1. First(n) = SubRead(rat, sp) BY <2>1 DEF First
    <3>2. PICK from : from = ReadFrom(rat) OBVIOUS
    <3>3. from \in Offsets /\ subs[from.sub] \in Seq(TsBytes) BY <1>0, <1>7, <3>2, ReadFromOffset
    <3>4. from.at \in Nat /\ Len(subs[from.sub]) \in Nat BY <3>3 DEF Offsets
    <3>5. PICK k, l : k = from.at /\ l = Len(subs[from.sub]) OBVIOUS
    <3>6. PICK b : b = SubRead(rat, sp) OBVIOUS
    <3>7. /\ b \in Seq(TsBytes) /\ Len(b) \in Nat
          /\ Len(b) = IF k >= l THEN 0 ELSE Least(k + sp, l) - k
      BY <1>0, <1>6, <1>7, <3>2, <3>5, <3>6, SubReadBytes
    <3>8. k \in Nat /\ l \in Nat BY <3>4, <3>5
    <3>9. Len(b) <= sp BY <1>6, <3>7, <3>8 DEF Least
    <3>. QED BY <3>1, <3>6, <3>7, <3>9
  <2>2. CASE ~(sp > 0)
    <3>1. First(n) = <<>> BY <2>2 DEF First
    <3>2. <<>> \in Seq(TsBytes) /\ Len(<<>>) = 0 OBVIOUS
    <3>. QED BY <1>6, <3>1, <3>2
  <2>. QED BY <2>1, <2>2
<1>9. Short(n) <=> Len(First(n)) # sp
  <2>1. Short(n) <=> Len(First(n)) < sp BY DEF Short
  <2>. QED BY <1>6, <1>8, <2>1
<1>10. /\ Second(n) \in Seq(TsBytes) /\ Len(Second(n)) <= td - sp /\ Len(Second(n)) \in Nat
       /\ Short(n) => Second(n) = <<>>
       /\ sp > 0 /\ ~Short(n) => Second(n) # <<>>
  <2>1. CASE Short(n)
    <3>1. Second(n) = <<>> BY <2>1 DEF Second
    <3>2. <<>> \in Seq(TsBytes) /\ Len(<<>>) = 0 OBVIOUS
    <3>. QED BY <1>4, <1>6, <2>1, <3>1, <3>2
  <2>2. CASE ~Short(n)
    <3>0. PICK o : o = Resumed(n) OBVIOUS
    <3>1. PICK m : m = td - sp OBVIOUS
    <3>2. Second(n) = SubRead(o, m) BY <2>2, <3>0, <3>1 DEF Second
    <3>3. m \in Nat /\ m > 0 BY <1>4, <1>6, <3>1
    <3>4. o = (IF sp > 0 THEN Begin ELSE rat) BY <3>0 DEF Resumed
    <3>5. o \in Offsets /\ o.sub <= Len(subs) BY <1>7, <3>4
    <3>6. PICK from : from = ReadFrom(o) OBVIOUS
    <3>7. from \in Offsets /\ subs[from.sub] \in Seq(TsBytes) BY <1>0, <3>5, <3>6, ReadFromOffset
    <3>8. from.at \in Nat /\ Len(subs[from.sub]) \in Nat BY <3>7 DEF Offsets
    <3>9. PICK k, l : k = from.at /\ l = Len(subs[from.sub]) OBVIOUS
    <3>10. PICK b : b = SubRead(o, m) OBVIOUS
    <3>11. /\ b \in Seq(TsBytes) /\ Len(b) \in Nat
           /\ Len(b) = IF k >= l THEN 0 ELSE Least(k + m, l) - k
      BY <1>0, <3>3, <3>5, <3>6, <3>9, <3>10, SubReadBytes
    <3>12. k \in Nat /\ l \in Nat BY <3>8, <3>9
    <3>13. Len(b) <= m BY <3>3, <3>11, <3>12 DEF Least
    <3>14. ASSUME sp > 0 PROVE b # <<>>
      <4>1. o = Begin BY <3>4, <3>14
      <4>2. total > 0 BY <1>1, <1>3
      <4>3. subs[1] # <<>> BY <1>1, <4>2 DEF TsRing, FirstFilled
      <4>4. subs[1] \in Seq(TsBytes) BY <1>0, <1>7 DEF Files
      <4>5. Len(subs[1]) \in Nat /\ Len(subs[1]) > 0 BY <4>3, <4>4
      <4>6. from = Begin BY <3>6, <4>1, <4>5 DEF ReadFrom, Begin
      <4>7. k = 0 /\ l > 0 BY <3>9, <4>5, <4>6 DEF Begin
      <4>8. Len(b) > 0 BY <3>3, <3>11, <3>12, <4>7 DEF Least
      <4>. QED BY <4>8
    <3>. QED BY <2>2, <3>1, <3>2, <3>10, <3>11, <3>13, <3>14
  <2>. QED BY <2>1, <2>2
<1>11. Taken(n) \in Seq(TsBytes) /\ Len(Taken(n)) = Len(First(n)) + Len(Second(n))
  <2>1. First(n) \in Seq(TsBytes) /\ Second(n) \in Seq(TsBytes) BY <1>8, <1>10
  <2>2. PICK x, y : x = First(n) /\ y = Second(n) OBVIOUS
  <2>3. x \in Seq(TsBytes) /\ y \in Seq(TsBytes) BY <2>1, <2>2
  <2>4. x \o y \in Seq(TsBytes) BY <2>3
  <2>5. Len(x \o y) = Len(x) + Len(y) BY <2>3
  <2>. QED BY <2>2, <2>4, <2>5 DEF Taken
<1>. QED BY <1>4, <1>5, <1>6, <1>8, <1>9, <1>10, <1>11

LEMMA ReadTsRing ==
  ASSUME TsRing, NEW n \in ReadSizes, Read(n) PROVE TsRing'
<1>0. TsCounts /\ Files /\ Filling BY DEF TsRing
<1>1. avail > 0 /\ UNCHANGED <<size, start, write, total, subs, wat, job, fed>> BY DEF Read
<1>2. PICK td, sp, f, s : td = Todo(n) /\ sp = Split(n) /\ f = Len(First(n)) /\ s = Len(Second(n))
  OBVIOUS
<1>3. /\ td \in Nat /\ td > 0 /\ td <= avail /\ sp \in Nat /\ sp < td
      /\ sp = IF read + td > size THEN size - read ELSE 0
      /\ First(n) \in Seq(TsBytes) /\ Second(n) \in Seq(TsBytes)
      /\ f \in Nat /\ s \in Nat /\ f <= sp /\ s <= td - sp
      /\ Short(n) <=> f # sp
      /\ Short(n) => s = 0
      /\ sp > 0 /\ ~Short(n) => s > 0
      /\ Second(n) # <<>> <=> s > 0
      /\ Len(Taken(n)) = f + s
  <2>1. /\ td \in Nat /\ td > 0 /\ td <= avail /\ sp \in Nat /\ sp < td
        /\ sp = IF read + td > size THEN size - read ELSE 0
        /\ First(n) \in Seq(TsBytes) /\ Second(n) \in Seq(TsBytes)
        /\ f <= sp /\ s <= td - sp
        /\ Short(n) <=> f # sp
        /\ Short(n) => Second(n) = <<>>
        /\ sp > 0 /\ ~Short(n) => Second(n) # <<>>
        /\ Len(Taken(n)) = f + s
    BY <1>1, <1>2, ReadLengths
  <2>2. f \in Nat /\ s \in Nat BY <1>2, <2>1
  <2>3. Second(n) # <<>> <=> s > 0 BY <1>2, <2>1
  <2>4. Second(n) = <<>> => s = 0 BY <1>2, <2>1
  <2>. QED BY <2>1, <2>2, <2>3, <2>4
<1>4. /\ size \in Nat \ {0} /\ start \in Nat /\ read \in Nat /\ write \in Nat /\ avail \in Nat
      /\ total \in Nat /\ fed \in Nat /\ next \in Nat \ {0}
  <2>1. fed \in 0 .. MaxStream /\ MaxStream \in Nat BY <1>0, Sizes DEF TsCounts
  <2>. QED BY <1>0, <2>1, Sizes DEF TsCounts
<1>5. Ring(size, start, read, write, avail, total) BY <1>0, RingNow DEF TsRing
<1>6. avail' = avail - (f + s) /\ next' = next + (f + s)
  <2>1. next' = next + (f + s) BY <1>3 DEF Read
  <2>2. avail' = IF Short(n) \/ Second(n) # <<>> THEN avail - (f + s) ELSE avail BY <1>3 DEF Read
  <2>3. ~(Short(n) \/ Second(n) # <<>>) => f + s = 0
    <3>1. SUFFICES ASSUME ~Short(n), ~(s > 0) PROVE f + s = 0 BY <1>3
    <3>2. s = 0 /\ f = sp /\ ~(sp > 0) BY <1>3, <3>1
    <3>. QED BY <1>3, <3>2
  <2>4. f + s = 0 => avail - (f + s) = avail BY <1>3, <1>4
  <2>. QED BY <2>1, <2>2, <2>3, <2>4
<1>7. PICK b : b = (IF sp > 0 THEN 0 ELSE read) OBVIOUS
<1>8. read' = IF Short(n) THEN read + f ELSE (b + s) % size BY <1>2, <1>7 DEF Read
<1>9. /\ read \in 0 .. size - 1 /\ write \in 0 .. size - 1 /\ start \in 0 .. size - 1
      /\ avail \in 0 .. total /\ total \in 0 .. size
      /\ read + avail = write \/ read + avail = write + size
      /\ start + total = write \/ start + total = write + size
  BY <1>5 DEF Ring
<1>10. b \in 0 .. size - 1 /\ s \in 0 .. size
  <2>1. td <= size BY <1>3, <1>4, <1>9
  <2>2. s <= td BY <1>3
  <2>3. s \in 0 .. size BY <1>3, <1>4, <2>1, <2>2
  <2>. QED BY <1>4, <1>7, <1>9, <2>3
<1>11. (b + s) % size = IF b + s < size THEN b + s ELSE b + s - size BY <1>4, <1>10, Around
<1>12. Ring(size', start', read', write', avail', total')
  <2>1. avail' \in 0 .. total
    <3>1. f + s <= td /\ f + s \in Nat BY <1>3
    <3>. QED BY <1>3, <1>4, <1>6, <1>9, <3>1
  <2>2. /\ read' \in 0 .. size - 1
        /\ read' + avail' = write \/ read' + avail' = write + size
    <3>1. CASE Short(n)
      <4>1. f < sp /\ s = 0 /\ read' = read + f BY <1>3, <1>8, <3>1
      <4>2. sp = size - read BY <1>3, <4>1
      <4>. QED BY <1>3, <1>4, <1>6, <1>9, <4>1, <4>2
    <3>2. CASE ~Short(n) /\ sp > 0
      <4>1. f = sp /\ b = 0 /\ sp = size - read BY <1>3, <1>7, <3>2
      <4>2. read' = IF b + s < size THEN b + s ELSE b + s - size BY <1>8, <1>11, <3>2
      <4>3. s < size BY <1>3, <1>4, <1>9, <3>2
      <4>4. read' = s BY <1>3, <1>4, <4>1, <4>2, <4>3
      <4>5. s <= avail - sp BY <1>3, <1>4
      <4>. QED BY <1>3, <1>4, <1>6, <1>9, <4>1, <4>3, <4>4, <4>5
    <3>3. CASE ~Short(n) /\ ~(sp > 0)
      <4>1. f = 0 /\ b = read /\ sp = 0 BY <1>3, <1>7, <3>3
      <4>2. read' = IF b + s < size THEN b + s ELSE b + s - size BY <1>8, <1>11, <3>3
      <4>3. read + td <= size BY <1>3, <1>4, <3>3, <1>9
      <4>4. read + s <= size /\ s <= avail BY <1>3, <1>4, <4>1, <4>3
      <4>. QED BY <1>3, <1>4, <1>6, <1>9, <4>1, <4>2, <4>4
    <3>. QED BY <3>1, <3>2, <3>3
  <2>. QED BY <1>1, <1>4, <1>9, <2>1, <2>2 DEF Ring
<1>13. TsCounts'
  <2>1. read' \in Nat /\ avail' \in Nat BY <1>1, <1>4, <1>12 DEF Ring
  <2>2. next' \in Nat \ {0} BY <1>3, <1>4, <1>6
  <2>3. adrift' \in BOOLEAN BY DriftIsBoolean DEF Read
  <2>. QED BY <1>0, <1>1, <2>1, <2>2, <2>3 DEF TsCounts
<1>14. RingConsistent' BY <1>12, <1>13, RingNext
<1>15. Filling'
  <2>0. Pending' = Pending /\ Kept' = Kept BY <1>1 DEF Pending, Kept
  <2>1. /\ Pending <= size /\ total <= Kept /\ next <= Kept - avail + 1
        /\ total < size => start = 0 /\ write = total /\ read + avail = total
        /\ size # RingSize => total + Pending < SubSize
    BY <1>0 DEF Filling
  <2>2. PICK K : K = Kept OBVIOUS
  <2>3. K \in Int
    <3>1. job \in Jobs \cup {NoJob} BY DEF TsRing
    <3>2. job # NoJob => job.done \in Nat BY <3>1 DEF Jobs
    <3>. QED BY <1>4, <2>2, <3>2 DEF Kept
  <2>4. next' <= K - avail' + 1 BY <1>3, <1>4, <1>6, <2>1, <2>2, <2>3
  <2>5. total < size => read' + avail' = total
    <3>1. SUFFICES ASSUME total < size PROVE read' + avail' = total OBVIOUS
    <3>2. read + avail = total BY <2>1, <3>1
    <3>3. sp = 0 /\ f = 0 BY <1>3, <1>4, <3>1, <3>2
    <3>4. ~Short(n) /\ b = read BY <1>3, <1>7, <3>3
    <3>5. read' = (b + s) % size BY <1>8, <3>4
    <3>6. b + s < size BY <1>3, <1>4, <3>1, <3>2, <3>3, <3>4
    <3>7. read' = read + s BY <1>11, <3>4, <3>5, <3>6
    <3>. QED BY <1>3, <1>4, <1>6, <3>2, <3>3, <3>7
  <2>6. next' <= Kept' - avail' + 1 BY <2>0, <2>2, <2>4
  <2>. QED BY <1>1, <2>0, <2>1, <2>5, <2>6 DEF Filling
<1>16. JobCut' /\ FirstFilled' /\ job' \in Jobs \cup {NoJob}
  <2>1. Kept' = Kept BY <1>1 DEF Kept
  <2>2. JobCut' BY <1>1, <2>1 DEF TsRing, JobCut
  <2>. QED BY <1>1, <2>2 DEF TsRing, FirstFilled
<1>17. Files'
  <2>0. rat \in Offsets /\ rat.sub <= Len(subs) /\ Begin \in Offsets /\ Begin.sub <= Len(subs)
    BY <1>0 DEF Files, Begin, Offsets
  <2>1. Resumed(n) \in Offsets /\ Resumed(n).sub <= Len(subs) BY <2>0 DEF Resumed
  <2>2. rat' \in Offsets /\ rat'.sub <= Len(subs)
    <3>1. CASE Short(n)
      <4>1. rat' = After(rat, First(n)) BY <3>1 DEF Read
      <4>. QED BY <1>0, <1>3, <2>0, <4>1, AfterRead, ReadFromOffset
    <3>2. CASE ~Short(n)
      <4>1. rat' = After(Resumed(n), Second(n)) BY <3>2 DEF Read
      <4>. QED BY <1>0, <1>3, <2>1, <4>1, AfterRead, ReadFromOffset
    <3>. QED BY <3>1, <3>2
  <2>. QED BY <1>0, <1>1, <2>2 DEF Files
<1>. QED BY <1>13, <1>14, <1>15, <1>16, <1>17 DEF TsRing

LEMMA SeekOffset ==
  ASSUME Files, NEW pos \in Nat PROVE Seek(pos, rat) \in Offsets /\ Seek(pos, rat).sub <= Len(subs)
<1>1. rat \in Offsets /\ rat.sub <= Len(subs) /\ Len(subs) \in Nat BY DEF Files
<1>2. SubSize \in Nat \ {0} BY TsFileAssumption
<1>3. PICK q, r : q = pos \div SubSize /\ r = pos % SubSize OBVIOUS
<1>4. q \in Nat /\ r \in Nat BY <1>2, <1>3
<1>5. Seek(pos, rat) = IF q + 1 <= Len(subs) THEN [sub |-> q + 1, at |-> r] ELSE rat BY <1>3 DEF Seek
<1>6. q + 1 \in Nat \ {0} BY <1>4
<1>7. [sub |-> q + 1, at |-> r] \in Offsets BY <1>4, <1>6 DEF Offsets
<1>8. [sub |-> q + 1, at |-> r].sub = q + 1 OBVIOUS
<1>. QED BY <1>1, <1>5, <1>7, <1>8

LEMMA SeekTsRing ==
  ASSUME TsRing, NEW o \in 0 .. RingSize, SeekTo(o) PROVE TsRing'
<1>0. TsCounts /\ Files /\ Filling BY DEF TsRing
<1>1. /\ o \in 0 .. total /\ read' = (start + o) % size /\ avail' = total - o
      /\ rat' = Seek(read', rat)
      /\ UNCHANGED <<size, start, write, total, subs, wat, job, fed>>
  BY DEF SeekTo
<1>2. /\ size \in Nat \ {0} /\ start \in Nat /\ read \in Nat /\ write \in Nat /\ avail \in Nat
      /\ total \in Nat /\ fed \in Nat /\ next \in Nat \ {0}
  <2>1. fed \in 0 .. MaxStream /\ MaxStream \in Nat BY <1>0, Sizes DEF TsCounts
  <2>. QED BY <1>0, <2>1, Sizes DEF TsCounts
<1>3. Ring(size, start, read, write, avail, total) BY <1>0, RingNow DEF TsRing
<1>4. /\ write \in 0 .. size - 1 /\ start \in 0 .. size - 1
      /\ avail \in 0 .. total /\ total \in 0 .. size
      /\ start + total = write \/ start + total = write + size
  BY <1>3 DEF Ring
<1>5. /\ read' = IF start + o < size THEN start + o ELSE start + o - size
      /\ read' \in 0 .. size - 1
  <2>1. o \in 0 .. size BY <1>1, <1>2, <1>4
  <2>. QED BY <1>1, <1>2, <1>4, <2>1, Around
<1>6. Ring(size', start', read', write', avail', total')
  <2>1. avail' \in 0 .. total BY <1>1, <1>2
  <2>2. read' + avail' = write \/ read' + avail' = write + size BY <1>1, <1>2, <1>4, <1>5
  <2>. QED BY <1>1, <1>2, <1>4, <1>5, <2>1, <2>2 DEF Ring
<1>7. Kept' = Kept /\ Pending' = Pending /\ Kept \in Int
  <2>1. job \in Jobs \cup {NoJob} BY DEF TsRing
  <2>2. job # NoJob => job.done \in Nat BY <2>1 DEF Jobs
  <2>. QED BY <1>1, <1>2, <2>2 DEF Kept, Pending
<1>8. /\ Pending <= size /\ total <= Kept
      /\ total < size => start = 0 /\ write = total /\ read + avail = total
      /\ size # RingSize => total + Pending < SubSize
  BY <1>0 DEF Filling
<1>9. next' = Kept - total + o + 1 BY DEF SeekTo
<1>10. TsCounts'
  <2>1. read' \in Nat /\ avail' \in Nat BY <1>1, <1>2, <1>6 DEF Ring
  <2>2. next' \in Nat \ {0} BY <1>1, <1>2, <1>7, <1>8, <1>9
  <2>3. adrift' \in BOOLEAN BY DriftIsBoolean DEF SeekTo
  <2>. QED BY <1>0, <1>1, <2>1, <2>2, <2>3 DEF TsCounts
<1>11. RingConsistent' BY <1>6, <1>10, RingNext
<1>12. Filling'
  <2>1. next' <= Kept - avail' + 1 BY <1>1, <1>2, <1>7, <1>9
  <2>2. total < size => start = 0 /\ write = total /\ read' + avail' = total
    <3>1. SUFFICES ASSUME total < size PROVE start = 0 /\ write = total /\ read' + avail' = total
      OBVIOUS
    <3>2. start = 0 /\ write = total BY <1>8, <3>1
    <3>3. read' = o BY <1>1, <1>2, <1>5, <3>1, <3>2
    <3>4. o + (total - o) = total BY <1>2
    <3>5. read' + avail' = total BY <1>1, <3>3, <3>4
    <3>. QED BY <3>2, <3>5
  <2>. QED BY <1>1, <1>7, <1>8, <2>1, <2>2 DEF Filling
<1>13. JobCut' /\ FirstFilled' /\ job' \in Jobs \cup {NoJob}
  <2>1. JobCut' BY <1>1, <1>7 DEF TsRing, JobCut
  <2>. QED BY <1>1, <2>1 DEF TsRing, FirstFilled
<1>14. Files'
  <2>1. read' \in Nat BY <1>2, <1>5
  <2>2. rat' \in Offsets /\ rat'.sub <= Len(subs) BY <1>0, <1>1, <2>1, SeekOffset
  <2>. QED BY <1>0, <1>1, <2>2 DEF Files
<1>. QED BY <1>10, <1>11, <1>12, <1>13, <1>14 DEF TsRing

LEMMA TsRingStep == TsRing /\ [TsFileNext]_tsVars => TsRing'
<1>. SUFFICES ASSUME TsRing, [TsFileNext]_tsVars PROVE TsRing' OBVIOUS
<1>1. CASE GotRate BY <1>1, RateTsRing
<1>2. CASE \E n \in WriteSizes : WriteBegin(n) BY <1>2, BeginTsRing
<1>3. CASE WriteFirst BY <1>3, WriteFirstTsRing
<1>4. CASE WriteRest BY <1>4, WriteRestTsRing
<1>5. CASE Adjust BY <1>5, AdjustTsRing
<1>6. CASE \E n \in ReadSizes : Read(n) BY <1>6, ReadTsRing
<1>7. CASE \E o \in 0 .. RingSize : SeekTo(o) BY <1>7, SeekTsRing
<1>8. CASE UNCHANGED tsVars
  <2>1. UNCHANGED <<size, start, read, write, avail, total, subs, wat, rat, job, fed, next, adrift>>
    BY <1>8 DEF tsVars, counters, disk
  <2>2. TsCounts' BY <2>1 DEF TsRing, TsCounts
  <2>3. RingConsistent' BY <2>1 DEF TsRing, RingConsistent
  <2>4. Kept' = Kept /\ Pending' = Pending BY <2>1 DEF Kept, Pending
  <2>5. Filling' BY <2>1, <2>4 DEF TsRing, Filling
  <2>6. JobCut' BY <2>1, <2>4 DEF TsRing, JobCut
  <2>7. FirstFilled' BY <2>1 DEF TsRing, FirstFilled
  <2>8. Files' BY <2>1, KeptFiles DEF TsRing
  <2>. QED BY <2>1, <2>2, <2>3, <2>5, <2>6, <2>7, <2>8 DEF TsRing
<1>. QED BY <1>1, <1>2, <1>3, <1>4, <1>5, <1>6, <1>7, <1>8 DEF TsFileNext

LEMMA TsRingTypes == TsRing => TsFileTypeOK
<1>. SUFFICES ASSUME TsRing PROVE TsFileTypeOK OBVIOUS
<1>1. TsCounts /\ Files /\ job \in Jobs \cup {NoJob} BY DEF TsRing
<1>2. next \in 1 .. MaxStream + 1
  <2>1. next <= Kept - avail + 1 BY DEF TsRing, Filling
  <2>2. Kept \in Int /\ Kept <= fed
    <3>1. job # NoJob => job.done \in Nat BY <1>1 DEF Jobs
    <3>. QED BY <1>1, <3>1 DEF Kept, TsCounts
  <2>. QED BY <1>1, <2>1, <2>2, TsFileAssumption DEF TsCounts
<1>. QED BY <1>1, <1>2 DEF TsCounts, Files, TsBytes, TsFileTypeOK

LEMMA TsRingInvariant == TsFileSpec => []TsRing
BY InitTsRing, TsRingStep, PTL DEF TsFileSpec

(* The recorder and the player keep the counters of the time shift ring in *)
(* step (aml_timeshift_file_write, aml_timeshift_file_read and             *)
(* aml_timeshift_file_seek): at every moment, with the recorder in the     *)
(* middle of a write, both the bytes kept and the bytes to be read end     *)
(* where the next write begins.                                            *)
THEOREM RingIsConsistent == TsFileSpec => []RingConsistent
<1>1. TsRing => RingConsistent BY DEF TsRing
<1>. QED BY <1>1, TsRingInvariant, PTL


-----------------------------------------------------------------------------
(* What is read.  The place of an offset in the whole of the sub files.    *)
Base(s)  == (s - 1) * SubSize
Where(o) == Base(o.sub) + o.at

(* All sub files but the last are full.                                    *)
SubFiles ==
  /\ \A i \in 1 .. Len(subs) : Len(subs[i]) <= SubSize
  /\ \A i \in 1 .. Len(subs) : i < Len(subs) => Len(subs[i]) = SubSize
  /\ \A i \in 1 .. Len(subs) : i > 1 => subs[i] # <<>>

RingEnd == Base(Len(subs)) + Len(subs[Len(subs)])

(* The sub files hold as much as the counters know of.                     *)
Reached ==
  /\ RingEnd >= total /\ RingEnd >= Where(wat)
  /\ job # NoJob => job.first = <<>> \/ job.step = "first" \/ RingEnd >= size

(* wfd is where the next piece is to go.                                   *)
Writer ==
  /\ wat.at <= SubSize
  /\ job = NoJob \/ job.step = "first" \/ (job.step = "rest" /\ job.first = <<>>) =>
       Where(wat) = write \/ (write = 0 /\ Where(wat) = size)
  /\ job # NoJob =>
       (job.step = "adjust" =>
          Where(wat) = IF job.first = <<>> THEN write + job.done ELSE Len(job.rest))

(* rfd is where the next byte is to be read.                               *)
Reader == rat.at <= Len(subs[rat.sub]) /\ Where(rat) = read

(* The places a write in progress goes to.                                 *)
Zone(p) == job # NoJob /\ ((write <= p /\ p < write + job.done) \/ p < write + job.done - size)

(* The byte b at a place p: one before the writer, one from the last time  *)
(* around the ring, or one of the pieces that are written already.         *)
Right(p, b) ==
  /\ ~Zone(p) /\ p < write => b = Kept - write + p + 1
  /\ ~Zone(p) /\ write <= p /\ p < size /\ total = size => b = Kept - write - size + p + 1
  /\ job # NoJob =>
       /\ job.step # "first" /\ write <= p /\ p < write + Len(job.first) => b = Kept - write + p + 1
       /\ job.step = "adjust" /\ job.first = <<>> /\ write <= p /\ p < write + job.done =>
            b = Kept - write + p + 1
       /\ job.step = "adjust" /\ job.first # <<>> /\ p < Len(job.rest) =>
            b = Kept + Len(job.first) + p + 1

FileCells == \A s \in 1 .. Len(subs) : \A a \in 1 .. Len(subs[s]) : Right(Base(s) + a - 1, subs[s][a])

(* The inductive invariant of ReadsInOrder.                                *)
InOrder == next = Kept - avail + 1 /\ SubFiles /\ Reached /\ Writer /\ Reader /\ FileCells

TsShift == TsRing /\ (~adrift => InOrder)

-----------------------------------------------------------------------------
LEMMA Bases ==
  /\ Base(1) = 0
  /\ \A s \in Nat \ {0} : Base(s) \in Nat /\ Base(s + 1) = Base(s) + SubSize
  /\ \A s, t \in Nat \ {0} : s < t => Base(s) + SubSize <= Base(t)
<1>0. SubSize \in Nat \ {0} BY TsFileAssumption
<1>1. Base(1) = 0 BY <1>0 DEF Base
<1>2. ASSUME NEW s \in Nat \ {0} PROVE Base(s) \in Nat /\ Base(s + 1) = Base(s) + SubSize
  <2>1. PICK k \in Nat : s = k + 1 OBVIOUS
  <2>2. Base(s) = k * SubSize /\ Base(s + 1) = (k + 1) * SubSize BY <2>1 DEF Base
  <2>3. k * SubSize \in Nat /\ (k + 1) * SubSize = k * SubSize + SubSize BY <1>0
  <2>. QED BY <2>2, <2>3
<1>3. ASSUME NEW s \in Nat \ {0}, NEW t \in Nat \ {0}, s < t PROVE Base(s) + SubSize <= Base(t)
  <2>1. PICK k \in Nat : t = (s + k) + 1 BY <1>3
  <2>2. Base(s) + SubSize = s * SubSize BY <1>0 DEF Base
  <2>3. Base(t) = (s + k) * SubSize BY <2>1 DEF Base
  <2>4. (s + k) * SubSize = s * SubSize + k * SubSize /\ k * SubSize \in Nat /\ s * SubSize \in Nat BY <1>0
  <2>. QED BY <2>2, <2>3, <2>4
<1>. QED BY <1>1, <1>2, <1>3

LEMMA SubTypes ==
  ASSUME Files
  PROVE  /\ Len(subs) \in Nat \ {0}
         /\ \A s \in 1 .. Len(subs) : subs[s] \in Seq(TsBytes) /\ Len(subs[s]) \in Nat /\ s \in Nat \ {0}
         /\ \A s \in 1 .. Len(subs) : \A a \in 1 .. Len(subs[s]) : a \in Nat \ {0} /\ subs[s][a] \in TsBytes
<1>1. subs \in Seq(Seq(TsBytes)) /\ Len(subs) > 0 BY DEF Files
<1>2. Len(subs) \in Nat \ {0} BY <1>1
<1>3. ASSUME NEW s \in 1 .. Len(subs) PROVE subs[s] \in Seq(TsBytes) /\ Len(subs[s]) \in Nat /\ s \in Nat \ {0}
  <2>1. subs[s] \in Seq(TsBytes) BY <1>1
  <2>. QED BY <1>2, <2>1
<1>4. ASSUME NEW s \in 1 .. Len(subs), NEW a \in 1 .. Len(subs[s]) PROVE a \in Nat \ {0} /\ subs[s][a] \in TsBytes
  <2>1. subs[s] \in Seq(TsBytes) BY <1>3
  <2>2. a \in Nat \ {0} BY <1>3
  <2>. QED BY <2>1, <2>2
<1>. QED BY <1>2, <1>3, <1>4

(* A write to one sub file changes the cells it goes to and no others.     *)
LEMMA PieceCells ==
  ASSUME Files, SubFiles, NEW to, Room(to), NEW piece \in Seq(TsBytes), Put(to, piece),
         NEW m, m = Len(piece), to.at + m <= SubSize,
         NEW s \in 1 .. Len(subs'), NEW a \in 1 .. Len(subs'[s]), NEW p, p = Base(s) + a - 1,
         NEW c, c = Where(to)
  PROVE  \/ /\ c <= p /\ p < c + m /\ p - c + 1 \in 1 .. m /\ subs'[s][a] = piece[p - c + 1]
         \/ /\ ~(c <= p /\ p < c + m) /\ s \in 1 .. Len(subs) /\ a \in 1 .. Len(subs[s])
            /\ subs'[s][a] = subs[s][a]
<1>1. to \in Offsets /\ to.sub \in Nat \ {0} /\ to.at \in Nat /\ to.sub <= Len(subs) + 1
      /\ Old(to) \in Seq(TsBytes) /\ to.at <= Len(Old(to))
  BY DEF Room, Offsets
<1>2. Len(subs) \in Nat \ {0} BY SubTypes
<1>3. /\ Len(subs') = IF to.sub > Len(subs) THEN Len(subs) + 1 ELSE Len(subs)
      /\ subs'[to.sub] = Overwritten(Old(to), to.at, piece)
      /\ \A i \in 1 .. Len(subs) : i # to.sub => subs'[i] = subs[i]
  BY DEF Put
<1>4. m \in Nat /\ s \in Nat \ {0} /\ SubSize \in Nat BY <1>2, <1>3, TsFileAssumption
<1>5. PICK k : k = to.at OBVIOUS
<1>6. PICK B, C : B = Base(s) /\ C = Base(to.sub) OBVIOUS
<1>7. B \in Nat /\ C \in Nat /\ k \in Nat /\ c = C + k /\ p = B + a - 1 BY <1>1, <1>4, <1>5, <1>6, Bases DEF Where
<1>8. CASE s = to.sub
  <2>1. PICK old, new : old = Old(to) /\ new = Overwritten(Old(to), to.at, piece) OBVIOUS
  <2>2. old \in Seq(TsBytes) /\ k \in 0 .. Len(old) /\ Len(old) \in Nat BY <1>1, <1>5, <2>1
  <2>3. /\ Len(new) = IF k + m > Len(old) THEN k + m ELSE Len(old)
        /\ \A x \in 1 .. Len(new) : new[x] = IF k < x /\ x <= k + m THEN piece[x - k] ELSE old[x]
    <3>1. new = Overwritten(old, k, piece) BY <1>5, <2>1
    <3>2. /\ Len(Overwritten(old, k, piece)) = IF k + m > Len(old) THEN k + m ELSE Len(old)
          /\ \A x \in 1 .. Len(Overwritten(old, k, piece)) :
               Overwritten(old, k, piece)[x] = IF k < x /\ x <= k + m THEN piece[x - k] ELSE old[x]
      BY <2>2, OverwrittenBytes
    <3>. QED BY <3>1, <3>2
  <2>4. subs'[s] = new BY <1>3, <1>8, <2>1
  <2>5. a \in 1 .. Len(new) BY <2>4
  <2>6. a \in Nat \ {0} BY <1>4, <1>7, <2>2, <2>3, <2>5
  <2>7. B = C BY <1>6, <1>8
  <2>8. CASE k < a /\ a <= k + m
    <3>1. new[a] = piece[a - k] BY <2>3, <2>5, <2>8
    <3>2. p - c + 1 = a - k /\ c <= p /\ p < c + m /\ a - k \in 1 .. m BY <1>4, <1>7, <2>6, <2>7, <2>8, SMTT(30)
    <3>. QED BY <2>4, <3>1, <3>2
  <2>9. CASE ~(k < a /\ a <= k + m)
    <3>1. new[a] = old[a] BY <2>3, <2>5, <2>9
    <3>2. ~(c <= p /\ p < c + m) BY <1>4, <1>7, <2>6, <2>7, <2>9
    <3>3. a \in 1 .. Len(old) BY <1>4, <1>7, <2>2, <2>3, <2>5, <2>6, <2>9
    <3>4. ~(to.sub > Len(subs))
      <4>1. to.sub > Len(subs) => old = <<>> BY <2>1 DEF Old
      <4>2. Len(old) > 0 BY <2>2, <3>3
      <4>. QED BY <4>1, <4>2
    <3>5. old = subs[s] /\ s \in 1 .. Len(subs) BY <1>1, <1>2, <1>8, <2>1, <3>4 DEF Old
    <3>. QED BY <2>4, <3>1, <3>2, <3>3, <3>5
  <2>. QED BY <2>8, <2>9
<1>9. CASE s # to.sub
  <2>1. s \in 1 .. Len(subs) BY <1>1, <1>2, <1>3, <1>4, <1>9
  <2>2. subs'[s] = subs[s] BY <1>3, <1>9, <2>1
  <2>3. Len(subs[s]) \in Nat /\ Len(subs[s]) <= SubSize BY <2>1, SubTypes DEF SubFiles
  <2>4. a \in 1 .. Len(subs[s]) BY <2>2
  <2>5. a \in Nat \ {0} /\ a <= SubSize BY <1>4, <2>3, <2>4
  <2>6. B + SubSize <= C \/ C + SubSize <= B
    <3>1. s < to.sub \/ to.sub < s BY <1>1, <1>4, <1>9
    <3>. QED BY <1>1, <1>4, <1>6, <3>1, Bases
  <2>7. ~(c <= p /\ p < c + m) BY <1>4, <1>5, <1>7, <2>5, <2>6, SMTT(30)
  <2>. QED BY <2>1, <2>2, <2>4, <2>7
<1>. QED BY <1>8, <1>9

LEMMA PieceSubFiles ==
  ASSUME Files, SubFiles, NEW to, Room(to), NEW piece \in Seq(TsBytes), Put(to, piece),
         NEW m, m = Len(piece), to.at + m <= SubSize, m > 0,
         to.sub > Len(subs) => Len(subs[Len(subs)]) = SubSize
  PROVE  /\ SubFiles'
         /\ \A s \in 1 .. Len(subs) : s \in 1 .. Len(subs') /\ Len(subs'[s]) >= Len(subs[s])
<1>1. to \in Offsets /\ to.sub \in Nat \ {0} /\ to.at \in Nat /\ to.sub <= Len(subs) + 1
      /\ Old(to) \in Seq(TsBytes) /\ to.at <= Len(Old(to))
  BY DEF Room, Offsets
<1>2. Len(subs) \in Nat \ {0} BY SubTypes
<1>3. /\ Len(subs') = IF to.sub > Len(subs) THEN Len(subs) + 1 ELSE Len(subs)
      /\ subs'[to.sub] = Overwritten(Old(to), to.at, piece)
      /\ \A i \in 1 .. Len(subs) : i # to.sub => subs'[i] = subs[i]
  BY DEF Put
<1>4. m \in Nat /\ SubSize \in Nat BY TsFileAssumption
<1>5. PICK k, old, new : k = to.at /\ old = Old(to) /\ new = Overwritten(Old(to), to.at, piece) OBVIOUS
<1>6. old \in Seq(TsBytes) /\ k \in 0 .. Len(old) /\ Len(old) \in Nat /\ k \in Nat BY <1>1, <1>5
<1>7. Len(new) = IF k + m > Len(old) THEN k + m ELSE Len(old) BY <1>5, <1>6, OverwrittenBytes
<1>8. ~(to.sub > Len(subs)) => to.sub \in 1 .. Len(subs) /\ old = subs[to.sub] BY <1>1, <1>2, <1>5 DEF Old
<1>9. to.sub > Len(subs) => to.sub = Len(subs) + 1 /\ Len(old) = 0
  <2>1. to.sub > Len(subs) => old = <<>> BY <1>5 DEF Old
  <2>2. Len(<<>>) = 0 OBVIOUS
  <2>. QED BY <1>1, <1>2, <2>1, <2>2
<1>10. \A i \in 1 .. Len(subs) : /\ Len(subs[i]) \in Nat /\ Len(subs[i]) <= SubSize
                                 /\ i < Len(subs) => Len(subs[i]) = SubSize
                                 /\ i > 1 => subs[i] # <<>>
  BY SubTypes DEF SubFiles
<1>11. Len(new) \in Nat /\ Len(new) <= SubSize /\ Len(new) > 0 /\ Len(new) >= Len(old)
  <2>1. Len(old) <= SubSize BY <1>4, <1>8, <1>9, <1>10
  <2>. QED BY <1>4, <1>5, <1>6, <1>7, <2>1
<1>12. ASSUME NEW i \in 1 .. Len(subs')
       PROVE  /\ Len(subs'[i]) <= SubSize
              /\ i < Len(subs') => Len(subs'[i]) = SubSize
              /\ i > 1 => subs'[i] # <<>>
  <2>1. CASE i = to.sub
    <3>1. subs'[i] = new BY <1>3, <1>5, <2>1
    <3>2. new # <<>>
      <4>1. Len(<<>>) = 0 OBVIOUS
      <4>. QED BY <1>11, <4>1
    <3>3. ASSUME i < Len(subs') PROVE Len(new) = SubSize
      <4>1. ~(to.sub > Len(subs)) BY <1>1, <1>2, <1>3, <1>9, <2>1, <3>3
      <4>2. to.sub \in 1 .. Len(subs) /\ to.sub < Len(subs) BY <1>2, <1>3, <1>8, <2>1, <3>3, <4>1
      <4>3. Len(old) = SubSize BY <1>8, <1>10, <4>1, <4>2
      <4>. QED BY <1>4, <1>11, <4>3
    <3>. QED BY <1>11, <3>1, <3>2, <3>3
  <2>2. CASE i # to.sub
    <3>1. i \in 1 .. Len(subs) BY <1>1, <1>2, <1>3, <2>2
    <3>2. subs'[i] = subs[i] BY <1>3, <2>2, <3>1
    <3>3. ASSUME i < Len(subs') PROVE Len(subs[i]) = SubSize
      <4>1. CASE i < Len(subs) BY <1>10, <3>1, <4>1
      <4>2. CASE ~(i < Len(subs))
        <5>1. i = Len(subs) /\ to.sub > Len(subs) BY <1>2, <1>3, <3>1, <3>3, <4>2
        <5>. QED BY <5>1
      <4>. QED BY <4>1, <4>2
    <3>. QED BY <1>10, <3>1, <3>2, <3>3
  <2>. QED BY <2>1, <2>2
<1>13. ASSUME NEW s \in 1 .. Len(subs) PROVE s \in 1 .. Len(subs') /\ Len(subs'[s]) >= Len(subs[s])
  <2>1. s \in 1 .. Len(subs') BY <1>2, <1>3
  <2>2. Len(subs[s]) \in Nat BY <1>10
  <2>3. CASE s = to.sub
    <3>1. ~(to.sub > Len(subs)) BY <1>2, <2>3
    <3>. QED BY <1>3, <1>5, <1>8, <1>11, <2>1, <2>3, <3>1
  <2>4. CASE s # to.sub BY <1>3, <2>1, <2>2, <2>4
  <2>. QED BY <2>3, <2>4
<1>14. SubFiles' BY <1>12 DEF SubFiles
<1>. QED BY <1>13, <1>14


-----------------------------------------------------------------------------
LEMMA Numbers ==
  ASSUME TsRing
  PROVE  /\ size \in Nat \ {0} /\ start \in Nat /\ read \in Nat /\ write \in Nat /\ avail \in Nat
         /\ total \in Nat /\ fed \in Nat /\ next \in Nat /\ Kept \in Int /\ SubSize \in Nat \ {0}
         /\ read < size /\ write < size /\ avail <= total /\ total <= size
         /\ read + avail = write \/ read + avail = write + size
         /\ total < size => write = total /\ read + avail = total
<1>0. TsCounts /\ job \in Jobs \cup {NoJob} BY DEF TsRing
<1>1. /\ size \in Nat \ {0} /\ start \in Nat /\ read \in Nat /\ write \in Nat /\ avail \in Nat
      /\ total \in Nat /\ fed \in Nat /\ next \in Nat /\ SubSize \in Nat \ {0}
  <2>1. fed \in 0 .. MaxStream /\ MaxStream \in Nat BY <1>0, Sizes DEF TsCounts
  <2>. QED BY <1>0, <2>1, Sizes DEF TsCounts
<1>2. Kept \in Int
  <2>1. job # NoJob => job.done \in Nat BY <1>0 DEF Jobs
  <2>. QED BY <1>1, <2>1 DEF Kept
<1>3. Ring(size, start, read, write, avail, total) BY <1>0, RingNow DEF TsRing
<1>4. /\ read < size /\ write < size /\ avail <= total /\ total <= size
      /\ read + avail = write \/ read + avail = write + size
  BY <1>1, <1>3 DEF Ring
<1>5. total < size => write = total /\ read + avail = total BY DEF TsRing, Filling
<1>. QED BY <1>1, <1>2, <1>4, <1>5

LEMMA JobNumbers ==
  ASSUME TsRing, job # NoJob, NEW d, d = job.done, NEW f, f = Len(job.first), NEW r, r = Len(job.rest)
  PROVE  /\ job.first \in Seq(TsBytes) /\ job.rest \in Seq(TsBytes)
         /\ d \in Nat /\ f \in Nat /\ r \in Nat /\ d <= size /\ f + r = d /\ r > 0 /\ d > 0
         /\ job.first = <<>> <=> f = 0
         /\ f = IF write + d > size THEN size - write ELSE 0
         /\ Kept = fed - d
<1>1. job \in Jobs BY DEF TsRing
<1>2. job.first \in Seq(TsBytes) /\ job.rest \in Seq(TsBytes) /\ d \in Nat BY <1>1 DEF Jobs, TsBytes
<1>3. f \in Nat /\ r \in Nat BY <1>2
<1>4. /\ f = IF write + d > size THEN size - write ELSE 0
      /\ f + r = d /\ job.rest # <<>>
  BY DEF TsRing, JobCut
<1>5. (job.first = <<>> <=> f = 0) /\ r > 0
  <2>1. \A x \in Seq(TsBytes) : x = <<>> <=> Len(x) = 0 OBVIOUS
  <2>2. job.first = <<>> <=> Len(job.first) = 0 BY ONLY <1>2, <2>1
  <2>3. job.rest = <<>> <=> Len(job.rest) = 0 BY ONLY <1>2, <2>1
  <2>4. r # 0 BY <1>4, <2>3
  <2>. QED BY <1>3, <2>2, <2>4
<1>6. d > 0 BY <1>2, <1>3, <1>4, <1>5
<1>7. d <= size BY DEF TsRing, Filling, Pending
<1>. QED BY <1>2, <1>3, <1>4, <1>5, <1>6, <1>7 DEF Kept

LEMMA CellsStay ==
  ASSUME Files, FileCells, subs' = subs,
         \A p \in Nat, b \in TsBytes : Right(p, b) => Right(p, b)'
  PROVE  FileCells'
<1>1. ASSUME NEW s \in 1 .. Len(subs), NEW a \in 1 .. Len(subs[s]), NEW p, p = Base(s) + a - 1,
             NEW b, b = subs[s][a]
      PROVE  Right(p, b)'
  <2>1. s \in Nat \ {0} /\ a \in Nat \ {0} /\ b \in TsBytes BY <1>1, SubTypes
  <2>2. Base(s) \in Nat BY <2>1, Bases
  <2>3. p \in Nat BY <1>1, <2>1, <2>2
  <2>4. Right(p, b) BY <1>1 DEF FileCells
  <2>. QED BY <2>1, <2>3, <2>4
<1>2. ASSUME NEW s \in 1 .. Len(subs'), NEW a \in 1 .. Len(subs'[s]) PROVE Right(Base(s) + a - 1, subs[s][a])'
  <2>1. s \in 1 .. Len(subs) /\ a \in 1 .. Len(subs[s]) OBVIOUS
  <2>2. PICK p, b : p = Base(s) + a - 1 /\ b = subs[s][a] OBVIOUS
  <2>3. p = (Base(s) + a - 1)' /\ b = subs'[s][a] BY <2>2 DEF Base
  <2>4. Right(p, b)' BY <1>1, <2>1, <2>2
  <2>. QED BY <2>3, <2>4
<1>. QED BY <1>2 DEF FileCells

LEMMA RateInOrder ==
  ASSUME TsRing, GotRate, InOrder PROVE InOrder'
<1>1. job = NoJob /\ size # RingSize /\ total < RingSize /\ total > 0 /\ size' = RingSize BY DEF GotRate
<1>2. UNCHANGED <<start, read, write, avail, total, subs, wat, rat, job, fed, next, adrift>>
  BY DEF GotRate, disk
<1>3. size = SubSize /\ total < SubSize
  <2>1. size \in {SubSize, RingSize} BY DEF TsRing, TsCounts
  <2>2. size = SubSize BY <1>1, <2>1
  <2>3. total + 0 < SubSize BY <1>1 DEF TsRing, Filling, Pending
  <2>. QED BY <2>2, <2>3, Numbers
<1>4. write = total /\ write \in Nat \ {0} BY <1>1, <1>3, Numbers
<1>5. Kept' = Kept BY <1>2 DEF Kept
<1>6. next' = Kept' - avail' + 1 BY <1>2, <1>5 DEF InOrder
<1>7. SubFiles' BY <1>2 DEF InOrder, SubFiles
<1>8. Reached'
  <2>1. RingEnd' = RingEnd /\ Where(wat)' = Where(wat) BY <1>2 DEF RingEnd, Where, Base
  <2>. QED BY <1>1, <1>2, <2>1 DEF InOrder, Reached
<1>9. Writer'
  <2>1. Where(wat)' = Where(wat) BY <1>2 DEF Where, Base
  <2>2. wat.at <= SubSize /\ Where(wat) = write BY <1>1, <1>4 DEF InOrder, Writer
  <2>. QED BY <1>1, <1>2, <2>1, <2>2 DEF Writer
<1>10. Reader'
  <2>1. Where(rat)' = Where(rat) BY <1>2 DEF Where, Base
  <2>. QED BY <1>2, <2>1 DEF InOrder, Reader
<1>11. FileCells'
  <2>1. ASSUME NEW p \in Nat, NEW b \in TsBytes, Right(p, b) PROVE Right(p, b)'
    <3>1. ~Zone(p) BY <1>1 DEF Zone
    <3>2. p < write => b = Kept - write + p + 1 BY <2>1, <3>1 DEF Right
    <3>3. total' # size' BY <1>1, <1>2, Numbers
    <3>. QED BY <1>1, <1>2, <1>5, <3>2, <3>3 DEF Right
  <2>. QED BY <1>2, <2>1, CellsStay DEF TsRing, InOrder
<1>. QED BY <1>6, <1>7, <1>8, <1>9, <1>10, <1>11 DEF InOrder

LEMMA BeginInOrder ==
  ASSUME TsRing, NEW n \in WriteSizes, WriteBegin(n), InOrder PROVE InOrder'
<1>0. job = NoJob BY DEF WriteBegin
<1>1. UNCHANGED <<size, start, read, write, avail, total, subs, wat, rat, next, adrift>>
  BY DEF WriteBegin, counters, disk
<1>2. PICK bytes, k : /\ bytes = [i \in 1 .. n |-> fed + i]
                      /\ k = IF write + n > size THEN size - write ELSE 0
  OBVIOUS
<1>3. job' = [first |-> SubSeq(bytes, 1, k), rest |-> SubSeq(bytes, k + 1, n), done |-> n,
              step |-> IF k > 0 THEN "first" ELSE "rest"]
  BY <1>2 DEF WriteBegin
<1>4. job'.done = n /\ job'.first = SubSeq(bytes, 1, k) /\ job'.step = (IF k > 0 THEN "first" ELSE "rest")
  BY <1>3
<1>5. k \in Nat /\ n \in Nat \ {0}
  <2>1. n \in Nat \ {0} BY TsFileAssumption
  <2>. QED BY <1>2, <2>1, Numbers, SMTT(30)
<1>6. job'.step = "first" \/ (job'.step = "rest" /\ job'.first = <<>>)
  <2>1. ASSUME ~(k > 0) PROVE job'.first = <<>>
    <3>1. k = 0 BY <1>5, <2>1
    <3>. QED BY <1>4, <3>1
  <2>. QED BY <1>4, <2>1
<1>7. Kept' = Kept
  <2>1. fed' = fed + n BY DEF WriteBegin
  <2>2. job' # NoJob => Kept' = fed' - n BY <1>4 DEF Kept
  <2>3. Kept = fed - 0 BY <1>0 DEF Kept
  <2>4. job' # NoJob BY BeginTsRing
  <2>. QED BY <1>5, <2>1, <2>2, <2>3, <2>4, Numbers
<1>8. next' = Kept' - avail' + 1 BY <1>1, <1>7 DEF InOrder
<1>9. SubFiles' BY <1>1 DEF InOrder, SubFiles
<1>10. Reached'
  <2>1. RingEnd' = RingEnd /\ Where(wat)' = Where(wat) BY <1>1 DEF RingEnd, Where, Base
  <2>. QED BY <1>1, <1>6, <2>1 DEF InOrder, Reached
<1>11. Writer'
  <2>1. Where(wat)' = Where(wat) BY <1>1 DEF Where, Base
  <2>2. wat.at <= SubSize /\ (Where(wat) = write \/ (write = 0 /\ Where(wat) = size))
    BY <1>0 DEF InOrder, Writer
  <2>. QED BY <1>1, <1>6, <2>1, <2>2 DEF Writer
<1>12. Reader'
  <2>1. Where(rat)' = Where(rat) BY <1>1 DEF Where, Base
  <2>. QED BY <1>1, <2>1 DEF InOrder, Reader
<1>13. FileCells'
  <2>1. ASSUME NEW p \in Nat, NEW b \in TsBytes, Right(p, b) PROVE Right(p, b)'
    <3>1. ~Zone(p) BY <1>0 DEF Zone
    <3>2. /\ p < write => b = Kept - write + p + 1
          /\ write <= p /\ p < size /\ total = size => b = Kept - write - size + p + 1
      BY <2>1, <3>1 DEF Right
    <3>3. job'.step # "adjust" BY <1>6
    <3>4. ~(job'.step # "first" /\ write <= p /\ p < write + Len(job'.first))
      <4>1. SUFFICES ASSUME job'.step # "first" PROVE ~(write <= p /\ p < write + Len(job'.first))
        OBVIOUS
      <4>2. Len(job'.first) = 0 BY <1>6, <4>1
      <4>. QED BY <4>2, Numbers
    <3>. QED BY <1>1, <1>7, <3>2, <3>3, <3>4 DEF Right
  <2>. QED BY <1>1, <2>1, CellsStay DEF TsRing, InOrder
<1>. QED BY <1>8, <1>9, <1>10, <1>11, <1>12, <1>13 DEF InOrder


LEMMA AdjustInOrder ==
  ASSUME TsRing, Adjust, InOrder, ~adrift' PROVE InOrder'
<1>1. job # NoJob /\ job.step = "adjust" /\ job' = NoJob /\ UNCHANGED <<size, subs, wat, rat, fed, next>>
  BY DEF Adjust, disk
<1>2. PICK d, f, r : d = job.done /\ f = Len(job.first) /\ r = Len(job.rest) OBVIOUS
<1>3. /\ d \in Nat /\ f \in Nat /\ r \in Nat /\ d <= size /\ f + r = d /\ r > 0 /\ d > 0
      /\ job.first = <<>> <=> f = 0
      /\ f = IF write + d > size THEN size - write ELSE 0
      /\ Kept = fed - d
  BY <1>1, <1>2, JobNumbers, ZenonT(30)
<1>4. /\ size \in Nat \ {0} /\ read \in Nat /\ write \in Nat /\ avail \in Nat
      /\ total \in Nat /\ fed \in Nat /\ Kept \in Int /\ SubSize \in Nat \ {0}
      /\ read < size /\ write < size /\ avail <= total /\ total <= size
      /\ total < size => write = total
  BY Numbers
<1>5. d <= size - avail
  <2>1. ~(job.done > size - avail) BY DEF Adjust
  <2>. QED BY <1>2, <1>3, <1>4, <2>1
<1>6. read' = read /\ avail' = avail + d
  <2>1. ~(d > size - avail) BY <1>3, <1>4, <1>5
  <2>2. read' = read BY <1>2, <2>1 DEF Adjust
  <2>3. avail' = Least(avail + d, size) BY <1>2 DEF Adjust
  <2>. QED BY <1>3, <1>4, <1>5, <2>2, <2>3 DEF Least
<1>7. write' = IF write + d < size THEN write + d ELSE write + d - size
  <2>1. write' = (write + d) % size BY <1>2 DEF Adjust
  <2>2. d \in 0 .. size /\ write \in 0 .. size - 1 BY <1>3, <1>4
  <2>. QED BY <1>4, <2>1, <2>2, Around
<1>8. total' = IF total + d < size THEN total + d ELSE size
  <2>1. total' = Least(total + d, size) BY <1>2 DEF Adjust
  <2>. QED BY <2>1 DEF Least
<1>9. Kept' = Kept + d
  <2>1. Kept' = fed - 0 BY <1>1 DEF Kept
  <2>. QED BY <1>3, <1>4, <2>1
<1>10. next' = Kept' - avail' + 1
  <2>1. next' = Kept - avail + 1 BY <1>1 DEF InOrder
  <2>. QED BY <1>3, <1>4, <1>6, <1>9, <2>1
<1>11. SubFiles' BY <1>1 DEF InOrder, SubFiles
<1>12. PICK W, E : W = Where(wat) /\ E = RingEnd OBVIOUS
<1>13. /\ Where(wat)' = W /\ RingEnd' = E
       /\ W = IF f = 0 THEN write + d ELSE r
       /\ E >= total /\ E >= W /\ (f = 0 \/ E >= size)
  <2>1. Where(wat)' = W /\ RingEnd' = E BY <1>1, <1>12 DEF Where, Base, RingEnd
  <2>2. W = IF job.first = <<>> THEN write + job.done ELSE Len(job.rest)
    BY <1>1, <1>12 DEF InOrder, Writer
  <2>3. W = IF f = 0 THEN write + d ELSE r BY <1>2, <1>3, <2>2
  <2>4. E >= total /\ E >= W /\ (job.first = <<>> \/ E >= size)
    BY <1>1, <1>12 DEF InOrder, Reached
  <2>. QED BY <1>3, <2>1, <2>3, <2>4
<1>14. E \in Nat
  <2>1. Len(subs) \in 1 .. Len(subs) /\ Len(subs) \in Nat \ {0}
    <3>1. Len(subs) \in Nat \ {0} BY SubTypes DEF TsRing
    <3>. QED BY <3>1
  <2>2. Len(subs[Len(subs)]) \in Nat BY <2>1, SubTypes DEF TsRing
  <2>3. Base(Len(subs)) \in Nat BY <2>1, Bases
  <2>. QED BY <1>12, <2>2, <2>3 DEF RingEnd
<1>15. Reached'
  <2>1. E >= total' BY <1>3, <1>4, <1>8, <1>13, <1>14
  <2>. QED BY <1>1, <1>13, <2>1 DEF Reached
<1>16. Writer'
  <2>1. W = write' \/ (write' = 0 /\ W = size) BY <1>3, <1>4, <1>7, <1>13
  <2>2. wat'.at <= SubSize BY <1>1 DEF InOrder, Writer
  <2>. QED BY <1>1, <1>13, <2>1, <2>2 DEF Writer
<1>17. Reader'
  <2>1. Where(rat)' = Where(rat) BY <1>1 DEF Where, Base
  <2>. QED BY <1>1, <1>6, <2>1 DEF InOrder, Reader
<1>18. FileCells'
  <2>1. ASSUME NEW p \in Nat, NEW b \in TsBytes, Right(p, b) PROVE Right(p, b)'
    <3>1. Zone(p) <=> (write <= p /\ p < write + d) \/ p < write + d - size BY <1>1, <1>2 DEF Zone
    <3>2. /\ ~Zone(p) /\ p < write => b = Kept - write + p + 1
          /\ ~Zone(p) /\ write <= p /\ p < size /\ total = size => b = Kept - write - size + p + 1
          /\ write <= p /\ p < write + f => b = Kept - write + p + 1
          /\ f = 0 /\ write <= p /\ p < write + d => b = Kept - write + p + 1
          /\ f # 0 /\ p < r => b = Kept + f + p + 1
      BY <1>1, <1>2, <1>3, <2>1 DEF Right
    <3>3. PICK K, w, t : K = Kept + d /\ w = write' /\ t = total' OBVIOUS
    <3>4. /\ p < w => b = K - w + p + 1
          /\ w <= p /\ p < size /\ t = size => b = K - w - size + p + 1
      <4>1. CASE f = 0 /\ write + d < size
        <5>1. w = write + d /\ (t = size => total = size) BY <1>3, <1>4, <1>7, <1>8, <3>3, <4>1
        <5>2. K - w = Kept - write BY <1>3, <1>4, <3>3, <5>1
        <5>3. p < w => b = Kept - write + p + 1
          <6>1. CASE p < write
            <7>1. ~Zone(p) BY <1>3, <1>4, <3>1, <4>1, <6>1
            <7>. QED BY <3>2, <6>1, <7>1
          <6>2. CASE write <= p /\ p < write + d BY <3>2, <4>1, <6>2
          <6>. QED BY <1>3, <1>4, <5>1, <6>1, <6>2
        <5>4. w <= p /\ p < size /\ t = size => b = Kept - write - size + p + 1
          <6>1. SUFFICES ASSUME w <= p, p < size, t = size PROVE b = Kept - write - size + p + 1
            OBVIOUS
          <6>2. ~Zone(p) /\ write <= p BY <1>3, <1>4, <3>1, <4>1, <5>1, <6>1
          <6>. QED BY <3>2, <5>1, <6>1, <6>2
        <5>5. K - w - size = Kept - write - size BY <5>2
        <5>. QED BY <5>2, <5>3, <5>4, <5>5
      <4>2. CASE f = 0 /\ write + d = size
        <5>1. w = 0 BY <1>3, <1>4, <1>7, <3>3, <4>2
        <5>. QED BY <1>3, <1>4, <3>1, <3>2, <3>3, <4>2, <5>1
      <4>3. CASE f # 0
        <5>1. f = size - write /\ w = r /\ write + d > size BY <1>3, <1>4, <1>7, <3>3, <4>3
        <5>. QED BY <1>3, <1>4, <3>1, <3>2, <3>3, <4>3, <5>1
      <4>4. f = 0 => write + d <= size BY <1>3, <1>4
      <4>. QED BY <1>3, <1>4, <4>1, <4>2, <4>3, <4>4
    <3>. QED BY <1>1, <1>9, <3>3, <3>4 DEF Right
  <2>. QED BY <1>1, <2>1, CellsStay DEF TsRing, InOrder
<1>. QED BY <1>10, <1>11, <1>15, <1>16, <1>17, <1>18 DEF InOrder

(* A piece written in its place.                                           *)
LEMMA PieceInOrder ==
  ASSUME TsRing, InOrder, job # NoJob, NEW st \in {"rest", "adjust"}, job' = [job EXCEPT !.step = st],
         NEW to, Room(to), NEW piece \in Seq(TsBytes), piece # <<>>, Put(to, piece),
         UNCHANGED <<size, start, read, write, avail, total, rat, fed, next>>,
         NEW m, m = Len(piece), to.at + m <= SubSize,
         to.sub > Len(subs) => Len(subs[Len(subs)]) = SubSize,
         NEW c, c = Where(to),
         st = "rest" => job.first # <<>> /\ c + m >= size,
         st = "adjust" => job.step = "rest"
                          /\ c + m = IF job.first = <<>> THEN write + job.done ELSE Len(job.rest),
         \A p \in Nat, b \in TsBytes : Right(p, b) /\ ~(c <= p /\ p < c + m) => Right(p, b)',
         \A p \in Nat : c <= p /\ p < c + m /\ p - c + 1 \in 1 .. m => Right(p, piece[p - c + 1])'
  PROVE  InOrder'
<1>0. Files /\ SubFiles BY DEF TsRing, InOrder
<1>1. job \in Jobs BY DEF TsRing
<1>2. /\ job' # NoJob /\ job'.first = job.first /\ job'.rest = job.rest
      /\ job'.done = job.done /\ job'.step = st
  <2>1. st \in {"first", "rest", "adjust"} OBVIOUS
  <2>2. job' = [first |-> job.first, rest |-> job.rest, done |-> job.done, step |-> st]
    BY <1>1 DEF Jobs
  <2>3. job' \in Jobs BY <1>1, <2>1, <2>2 DEF Jobs
  <2>. QED BY <2>2, <2>3, TsFileAssumption
<1>3. Kept' = Kept BY <1>2 DEF Kept
<1>4. next' = Kept' - avail' + 1 BY <1>3 DEF InOrder
<1>5. m \in Nat /\ m > 0
  <2>1. \A x \in Seq(TsBytes) : x = <<>> <=> Len(x) = 0 OBVIOUS
  <2>. QED BY <2>1
<1>6. /\ SubFiles'
      /\ \A s \in 1 .. Len(subs) : s \in 1 .. Len(subs') /\ Len(subs'[s]) >= Len(subs[s])
  BY <1>0, <1>5, PieceSubFiles
<1>7. Files' /\ Len(subs') \in Nat /\ Len(subs') >= Len(subs) BY <1>0, PutFiles
<1>8. wat'.sub = to.sub /\ wat'.at = to.at + m /\ to.sub \in Nat \ {0} /\ to.at \in Nat
  <2>1. wat' = [sub |-> to.sub, at |-> to.at + m] BY DEF Put
  <2>2. to.sub \in Nat \ {0} /\ to.at \in Nat BY DEF Room, Offsets
  <2>. QED BY <2>1, <2>2
<1>9. Where(wat)' = c + m
  <2>1. Where(wat)' = Base(wat'.sub) + wat'.at BY DEF Where, Base
  <2>2. c = Base(to.sub) + to.at /\ Base(to.sub) \in Nat BY <1>8, Bases DEF Where
  <2>. QED BY <1>5, <1>8, <2>1, <2>2
<1>10. PICK l, k, L, x, y : /\ l = Len(subs) /\ k = Len(subs') /\ L = Len(subs'[Len(subs')])
                            /\ x = Len(subs[Len(subs)]) /\ y = Len(subs'[Len(subs)])
  OBVIOUS
<1>11. l \in Nat \ {0} /\ k \in Nat \ {0} /\ k >= l BY <1>0, <1>7, <1>10, SubTypes
<1>12. RingEnd = Base(l) + x /\ RingEnd' = Base(k) + L /\ Base(l) \in Nat /\ Base(k) \in Nat
  BY <1>10, <1>11, Bases DEF RingEnd, Base
<1>13. \A s \in 1 .. k : Len(subs'[s]) \in Nat
  <2>1. subs' \in Seq(Seq(TsBytes)) BY <1>7 DEF Files
  <2>2. \A s \in 1 .. k : subs'[s] \in Seq(TsBytes) BY <1>10, <2>1
  <2>. QED BY <2>2
<1>14. x \in Nat /\ y \in Nat /\ L \in Nat /\ y >= x /\ x <= SubSize /\ SubSize \in Nat
  <2>1. l \in 1 .. Len(subs) /\ k \in 1 .. k /\ l \in 1 .. k BY <1>10, <1>11
  <2>2. x \in Nat /\ x <= SubSize BY <1>0, <1>10, <2>1, SubTypes DEF SubFiles
  <2>. QED BY <1>6, <1>10, <1>13, <2>1, <2>2, TsFileAssumption
<1>15. RingEnd' >= RingEnd /\ RingEnd \in Nat /\ RingEnd' \in Nat
  <2>1. CASE l = k
    <3>1. L = y BY <1>10, <2>1
    <3>. QED BY <1>12, <1>14, <2>1, <3>1
  <2>2. CASE l < k
    <3>1. Base(l) + SubSize <= Base(k) BY <1>11, <2>2, Bases
    <3>. QED BY <1>12, <1>14, <3>1
  <2>. QED BY <1>11, <2>1, <2>2
<1>16. RingEnd' >= c + m
  <2>1. wat'.sub <= k /\ wat'.at <= Len(subs'[wat'.sub]) BY <1>7, <1>10 DEF Files
  <2>2. PICK a, z, B : a = wat'.at /\ z = wat'.sub /\ B = Len(subs'[wat'.sub]) OBVIOUS
  <2>3. z \in 1 .. k /\ z \in Nat \ {0} /\ a \in Nat BY <1>5, <1>8, <1>11, <2>1, <2>2
  <2>4. B \in Nat /\ a <= B BY <1>13, <2>1, <2>2, <2>3
  <2>5. c + m = Base(z) + a /\ Base(z) \in Nat
    <3>1. c = Base(to.sub) + to.at BY DEF Where
    <3>. QED BY <1>5, <1>8, <2>2, <2>3, <3>1, Bases
  <2>6. a <= SubSize BY <1>8, <2>2
  <2>7. CASE z = k
    <3>1. B = L BY <1>10, <2>2, <2>7
    <3>. QED BY <1>12, <1>14, <2>3, <2>4, <2>5, <2>7, <3>1
  <2>8. CASE z < k
    <3>1. Base(z) + SubSize <= Base(k) BY <1>11, <2>3, <2>8, Bases
    <3>. QED BY <1>12, <1>14, <2>3, <2>5, <2>6, <3>1
  <2>. QED BY <1>11, <2>3, <2>7, <2>8
<1>17. Reached'
  <2>1. RingEnd' >= total'
    <3>1. RingEnd >= total BY DEF InOrder, Reached
    <3>. QED BY <1>15, <3>1, Numbers
  <2>2. job'.first = <<>> \/ job'.step = "first" \/ RingEnd' >= size'
    <3>1. CASE st = "rest"
      <4>1. c + m >= size BY <3>1
      <4>2. size \in Nat BY Numbers
      <4>3. c \in Nat
        <5>1. c = Base(to.sub) + to.at BY DEF Where
        <5>. QED BY <1>8, <5>1, Bases
      <4>. QED BY <1>5, <1>15, <1>16, <4>1, <4>2, <4>3
    <3>2. CASE st = "adjust"
      <4>1. job.step = "rest" BY <3>2
      <4>2. job.first = <<>> \/ RingEnd >= size BY <4>1 DEF InOrder, Reached
      <4>. QED BY <1>2, <1>15, <4>2, Numbers
    <3>. QED BY <3>1, <3>2
  <2>. QED BY <1>9, <1>16, <2>1, <2>2 DEF Reached
<1>18. Writer'
  <2>1. wat'.at <= SubSize BY <1>8
  <2>2. ~(job' = NoJob \/ job'.step = "first" \/ (job'.step = "rest" /\ job'.first = <<>>)) BY <1>2
  <2>3. job'.step = "adjust" =>
          Where(wat)' = IF job'.first = <<>> THEN write' + job'.done ELSE Len(job'.rest)
    BY <1>2, <1>9
  <2>. QED BY <2>1, <2>2, <2>3 DEF Writer
<1>19. Reader'
  <2>1. rat.sub \in 1 .. Len(subs) /\ rat.at \in Nat
    <3>1. rat.sub \in Nat \ {0} /\ rat.at \in Nat /\ rat.sub <= Len(subs) BY <1>0 DEF Files, Offsets
    <3>. QED BY <1>10, <1>11, <3>1
  <2>2. rat.at <= Len(subs[rat.sub]) /\ Len(subs[rat.sub]) \in Nat
    BY <1>0, <2>1, SubTypes DEF InOrder, Reader
  <2>3. Len(subs'[rat.sub]) >= Len(subs[rat.sub]) /\ Len(subs'[rat.sub]) \in Nat
    BY <1>6, <1>10, <1>13, <2>1
  <2>4. rat.at <= Len(subs'[rat.sub]) BY <2>1, <2>2, <2>3
  <2>5. Where(rat)' = Where(rat) BY DEF Where, Base
  <2>. QED BY <2>4, <2>5 DEF InOrder, Reader
<1>20. FileCells'
  <2>1. ASSUME NEW s \in 1 .. Len(subs'), NEW a \in 1 .. Len(subs'[s]), NEW p, p = Base(s) + a - 1,
               NEW b, b = subs'[s][a]
        PROVE  Right(p, b)'
    <3>1. \/ /\ c <= p /\ p < c + m /\ p - c + 1 \in 1 .. m /\ subs'[s][a] = piece[p - c + 1]
          \/ /\ ~(c <= p /\ p < c + m) /\ s \in 1 .. Len(subs) /\ a \in 1 .. Len(subs[s])
             /\ subs'[s][a] = subs[s][a]
      BY <1>0, <2>1, PieceCells
    <3>2. p \in Nat
      <4>1. s \in 1 .. k /\ s \in Nat \ {0} /\ Len(subs'[s]) \in Nat BY <1>10, <1>11, <1>13
      <4>2. Base(s) \in Nat /\ a \in Nat \ {0} BY <4>1, Bases
      <4>. QED BY <2>1, <4>2
    <3>3. CASE c <= p /\ p < c + m /\ p - c + 1 \in 1 .. m /\ subs'[s][a] = piece[p - c + 1]
      <4>1. b = piece[p - c + 1] BY <2>1, <3>3
      <4>. QED BY <3>2, <3>3, <4>1
    <3>4. CASE /\ ~(c <= p /\ p < c + m) /\ s \in 1 .. Len(subs) /\ a \in 1 .. Len(subs[s])
               /\ subs'[s][a] = subs[s][a]
      <4>1. b = subs[s][a] BY <2>1, <3>4
      <4>2. b \in TsBytes BY <1>0, <3>4, <4>1, SubTypes
      <4>3. Right(p, b) BY <2>1, <3>4, <4>1 DEF InOrder, FileCells
      <4>. QED BY <3>2, <3>4, <4>2, <4>3
    <3>. QED BY <3>1, <3>3, <3>4
  <2>2. ASSUME NEW s \in 1 .. Len(subs'), NEW a \in 1 .. Len(subs'[s])
        PROVE  Right(Base(s) + a - 1, subs[s][a])'
    <3>1. PICK p, b : p = Base(s) + a - 1 /\ b = subs'[s][a] OBVIOUS
    <3>2. Right(p, b)' BY <2>1, <3>1
    <3>3. p = (Base(s) + a - 1)' /\ b = subs'[s][a] BY <3>1 DEF Base
    <3>. QED BY <3>2, <3>3
  <2>. QED BY <2>2 DEF FileCells
<1>. QED BY <1>4, <1>6, <1>17, <1>18, <1>19, <1>20 DEF InOrder


LEMMA WriteToPlace ==
  ASSUME Files, SubFiles, wat.at <= SubSize, NEW to, to = WriteTo(wat)
  PROVE  /\ Where(to) = Where(wat) /\ Where(wat) \in Nat
         /\ to.sub > Len(subs) => Len(subs[Len(subs)]) = SubSize
<1>1. wat.sub \in Nat \ {0} /\ wat.at \in Nat /\ wat.sub <= Len(subs) /\ wat.at <= Len(subs[wat.sub])
  BY DEF Files, Offsets
<1>2. Len(subs) \in Nat \ {0} /\ SubSize \in Nat BY SubTypes, TsFileAssumption
<1>3. Base(wat.sub) \in Nat /\ Base(wat.sub + 1) = Base(wat.sub) + SubSize BY <1>1, Bases
<1>4. Where(wat) = Base(wat.sub) + wat.at /\ Where(wat) \in Nat BY <1>1, <1>3 DEF Where
<1>5. CASE wat.at >= SubSize
  <2>1. to = [sub |-> wat.sub + 1, at |-> 0] BY <1>5 DEF WriteTo
  <2>2. Where(to) = Base(wat.sub + 1) + 0 BY <2>1 DEF Where
  <2>3. wat.at = SubSize BY <1>1, <1>2, <1>5
  <2>4. Where(to) = Where(wat) BY <1>2, <1>3, <1>4, <2>2, <2>3
  <2>5. ASSUME to.sub > Len(subs) PROVE Len(subs[Len(subs)]) = SubSize
    <3>1. to.sub = wat.sub + 1 BY <2>1
    <3>2. wat.sub = Len(subs) BY <1>1, <1>2, <2>5, <3>1
    <3>3. Len(subs) \in 1 .. Len(subs) BY <1>2
    <3>4. Len(subs[Len(subs)]) \in Nat /\ Len(subs[Len(subs)]) <= SubSize
      BY <3>3, SubTypes DEF SubFiles
    <3>5. SubSize <= Len(subs[Len(subs)]) BY <1>1, <2>3, <3>2
    <3>. QED BY <1>2, <3>4, <3>5
  <2>. QED BY <1>4, <2>4, <2>5
<1>6. CASE ~(wat.at >= SubSize)
  <2>1. to = wat BY <1>6 DEF WriteTo
  <2>2. ~(to.sub > Len(subs)) BY <1>1, <1>2, <2>1
  <2>. QED BY <1>4, <2>1, <2>2
<1>. QED BY <1>5, <1>6

LEMMA NextStep ==
  ASSUME TsRing, job # NoJob, NEW st \in {"rest", "adjust"}, job' = [job EXCEPT !.step = st],
         UNCHANGED <<size, write, total, fed>>
  PROVE  /\ job' # NoJob /\ job'.first = job.first /\ job'.rest = job.rest
         /\ job'.done = job.done /\ job'.step = st /\ Kept' = Kept
         /\ \A p : Zone(p)' <=> Zone(p)
<1>1. job \in Jobs BY DEF TsRing
<1>2. st \in {"first", "rest", "adjust"} OBVIOUS
<1>3. job' = [first |-> job.first, rest |-> job.rest, done |-> job.done, step |-> st]
  BY <1>1 DEF Jobs
<1>4. job' \in Jobs BY <1>1, <1>2, <1>3 DEF Jobs
<1>5. /\ job' # NoJob /\ job'.first = job.first /\ job'.rest = job.rest
      /\ job'.done = job.done /\ job'.step = st
  BY <1>3, <1>4, TsFileAssumption
<1>6. Kept' = Kept BY <1>5 DEF Kept
<1>7. \A p : Zone(p)' <=> Zone(p) BY <1>5 DEF Zone
<1>. QED BY <1>5, <1>6, <1>7

LEMMA WriteFirstInOrder ==
  ASSUME TsRing, WriteFirst, InOrder, ~adrift' PROVE InOrder'
<1>1. /\ job # NoJob /\ job.step = "first" /\ SubWrite(job.first) /\ job' = [job EXCEPT !.step = "rest"]
      /\ UNCHANGED <<size, start, read, write, avail, total, rat, fed, next>>
  BY DEF WriteFirst, counters
<1>2. PICK d, f, r : d = job.done /\ f = Len(job.first) /\ r = Len(job.rest) OBVIOUS
<1>3. /\ job.first \in Seq(TsBytes) /\ job.rest \in Seq(TsBytes)
      /\ d \in Nat /\ f \in Nat /\ r \in Nat /\ d <= size /\ f + r = d /\ r > 0 /\ d > 0
      /\ job.first = <<>> <=> f = 0
      /\ f = IF write + d > size THEN size - write ELSE 0
  BY <1>1, <1>2, JobNumbers, ZenonT(30)
<1>4. size \in Nat \ {0} /\ write \in Nat /\ write < size /\ Kept \in Int /\ SubSize \in Nat BY Numbers
<1>5. job.first # <<>> BY <1>1 DEF TsRing, JobCut
<1>6. f > 0 /\ f = size - write /\ write > 0 BY <1>3, <1>4, <1>5
<1>7. PICK to : to = WriteTo(wat) OBVIOUS
<1>8. Room(to) /\ Put(to, job.first) BY <1>1, <1>3, <1>7, RoomToWrite, SubWritePuts DEF TsRing
<1>9. wat.at <= SubSize /\ Where(wat) = write BY <1>1, <1>6 DEF InOrder, Writer
<1>10. Where(to) = write /\ (to.sub > Len(subs) => Len(subs[Len(subs)]) = SubSize)
  BY <1>7, <1>9, WriteToPlace DEF TsRing, InOrder
<1>11. to.at + f <= SubSize
  <2>1. ~Straddles(job.first) BY DEF WriteFirst
  <2>2. ~(to.at + f > SubSize) BY <1>2, <1>7, <2>1 DEF Straddles
  <2>3. to.at \in Nat BY <1>8 DEF Room, Offsets
  <2>. QED BY <1>3, <1>4, <2>2, <2>3
<1>12. "rest" \in {"rest", "adjust"} /\ "rest" # "adjust" /\ "rest" # "first" OBVIOUS
<1>13. /\ job' # NoJob /\ job'.first = job.first /\ job'.rest = job.rest
       /\ job'.done = job.done /\ job'.step = "rest" /\ Kept' = Kept
       /\ \A p : Zone(p)' <=> Zone(p)
  BY <1>1, <1>12, NextStep
<1>14. write + f >= size BY <1>4, <1>6
<1>15. ASSUME NEW p \in Nat, NEW b \in TsBytes, Right(p, b), ~(write <= p /\ p < write + f) PROVE Right(p, b)'
  <2>1. /\ ~Zone(p) /\ p < write => b = Kept - write + p + 1
        /\ ~Zone(p) /\ write <= p /\ p < size /\ total = size => b = Kept - write - size + p + 1
    BY <1>15 DEF Right
  <2>. QED BY <1>1, <1>2, <1>12, <1>13, <1>15, <2>1 DEF Right
<1>16. ASSUME NEW p \in Nat, write <= p, p < write + f, p - write + 1 \in 1 .. f,
              NEW b, b = job.first[p - write + 1]
       PROVE Right(p, b)'
  <2>1. b = Kept + (p - write + 1)
    <3>1. \A i \in 1 .. Len(job.first) : job.first[i] = Kept + i BY <1>1 DEF TsRing, JobCut
    <3>. QED BY <1>2, <1>16, <3>1
  <2>2. b = Kept - write + p + 1 BY <1>4, <2>1
  <2>3. Zone(p) BY <1>1, <1>2, <1>3, <1>4, <1>16, SMTT(30) DEF Zone
  <2>. QED BY <1>1, <1>2, <1>12, <1>13, <2>2, <2>3 DEF Right
<1>17. PICK c : c = Where(to) OBVIOUS
<1>18. c = write BY <1>10, <1>17
<1>19. \A p \in Nat, b \in TsBytes : Right(p, b) /\ ~(c <= p /\ p < c + f) => Right(p, b)' BY <1>15, <1>18
<1>20. PICK piece : piece = job.first OBVIOUS
<1>21. \A p \in Nat : c <= p /\ p < c + f /\ p - c + 1 \in 1 .. f => Right(p, piece[p - c + 1])'
  <2>1. ASSUME NEW p \in Nat, c <= p, p < c + f, p - c + 1 \in 1 .. f, NEW b, b = piece[p - c + 1]
        PROVE Right(p, b)'
    BY <1>16, <1>18, <1>20, <2>1
  <2>. QED BY <2>1
<1>22. /\ piece \in Seq(TsBytes) /\ piece # <<>> /\ f = Len(piece) /\ Put(to, piece)
       /\ job.first # <<>> /\ c + f >= size
  BY <1>2, <1>3, <1>5, <1>8, <1>14, <1>18, <1>20
<1>. QED BY <1>1, <1>8, <1>10, <1>11, <1>12, <1>17, <1>19, <1>21, <1>22, PieceInOrder


LEMMA WriteRestInOrder ==
  ASSUME TsRing, WriteRest, InOrder, ~adrift' PROVE InOrder'
<1>1. /\ job # NoJob /\ job.step = "rest" /\ job' = [job EXCEPT !.step = "adjust"]
      /\ UNCHANGED <<size, start, read, write, avail, total, rat, fed, next>>
  BY DEF WriteRest, counters
<1>2. PICK d, f, r, piece : d = job.done /\ f = Len(job.first) /\ r = Len(job.rest) /\ piece = job.rest
  OBVIOUS
<1>3. /\ piece \in Seq(TsBytes) /\ r = Len(piece)
      /\ d \in Nat /\ f \in Nat /\ r \in Nat /\ d <= size /\ f + r = d /\ r > 0 /\ d > 0
      /\ job.first = <<>> <=> f = 0
      /\ f = IF write + d > size THEN size - write ELSE 0
  BY <1>1, <1>2, JobNumbers, ZenonT(30)
<1>4. size \in Nat \ {0} /\ write \in Nat /\ write < size /\ Kept \in Int /\ SubSize \in Nat BY Numbers
<1>5. piece # <<>> BY <1>1, <1>2 DEF TsRing, JobCut
<1>6. "adjust" \in {"rest", "adjust"} /\ "rest" # "adjust" /\ "adjust" # "first" /\ "rest" # "first"
  OBVIOUS
<1>7. /\ job' # NoJob /\ job'.first = job.first /\ job'.rest = job.rest
      /\ job'.done = job.done /\ job'.step = "adjust" /\ Kept' = Kept
      /\ \A p : Zone(p)' <=> Zone(p)
  BY <1>1, <1>6, NextStep
<1>8. ASSUME NEW i \in 1 .. r PROVE piece[i] = Kept + f + i
  <2>1. \A j \in 1 .. Len(job.rest) : job.rest[j] = Kept + Len(job.first) + j BY <1>1 DEF TsRing, JobCut
  <2>. QED BY <1>2, <2>1
<1>9. CASE f = 0
  <2>0. job.first = <<>> BY <1>3, <1>9
  <2>1. SubWrite(piece) /\ ~Straddles(piece) /\ ~(write = 0 /\ wat # Begin)
    BY <1>2, <2>0 DEF WriteRest
  <2>2. PICK to : to = WriteTo(wat) OBVIOUS
  <2>3. Room(to) /\ Put(to, piece) BY <1>3, <2>1, <2>2, RoomToWrite, SubWritePuts DEF TsRing
  <2>4. wat.at <= SubSize /\ Where(wat) = write
    <3>1. wat.at <= SubSize /\ (Where(wat) = write \/ write = 0) BY <1>1, <2>0 DEF InOrder, Writer
    <3>2. ASSUME write = 0 PROVE Where(wat) = write
      <4>1. wat = Begin BY <2>1, <3>2
      <4>2. Where(wat) = Base(1) + 0 BY <4>1 DEF Where, Begin
      <4>. QED BY <3>2, <4>2, Bases
    <3>. QED BY <3>1, <3>2
  <2>5. Where(to) = write /\ (to.sub > Len(subs) => Len(subs[Len(subs)]) = SubSize)
    BY <2>2, <2>4, WriteToPlace DEF TsRing, InOrder
  <2>6. to.at + r <= SubSize
    <3>1. ~(to.at + r > SubSize) BY <1>3, <2>1, <2>2 DEF Straddles
    <3>2. to.at \in Nat BY <2>3 DEF Room, Offsets
    <3>. QED BY <1>3, <1>4, <3>1, <3>2
  <2>7. PICK c : c = Where(to) OBVIOUS
  <2>8. c = write /\ r = d BY <1>3, <1>9, <2>5, <2>7
  <2>9. ASSUME NEW p \in Nat, NEW b \in TsBytes, Right(p, b), ~(write <= p /\ p < write + d) PROVE Right(p, b)'
    <3>1. /\ ~Zone(p) /\ p < write => b = Kept - write + p + 1
          /\ ~Zone(p) /\ write <= p /\ p < size /\ total = size => b = Kept - write - size + p + 1
      BY <2>9 DEF Right
    <3>2. ~(write <= p /\ p < write + f) BY <1>4, <1>9
    <3>. QED BY <1>1, <1>2, <1>7, <2>0, <2>9, <3>1, <3>2 DEF Right
  <2>10. ASSUME NEW p \in Nat, write <= p, p < write + d, p - write + 1 \in 1 .. r,
                NEW b, b = piece[p - write + 1]
         PROVE Right(p, b)'
    <3>1. b = Kept + f + (p - write + 1) BY <1>8, <2>10
    <3>2. b = Kept - write + p + 1 BY <1>4, <1>9, <3>1
    <3>3. Zone(p) BY <1>1, <1>2, <2>10 DEF Zone
    <3>. QED BY <1>1, <1>7, <2>0, <3>2, <3>3 DEF Right
  <2>11. \A p \in Nat, b \in TsBytes : Right(p, b) /\ ~(c <= p /\ p < c + r) => Right(p, b)' BY <2>8, <2>9
  <2>12. \A p \in Nat : c <= p /\ p < c + r /\ p - c + 1 \in 1 .. r => Right(p, piece[p - c + 1])'
    <3>1. ASSUME NEW p \in Nat, c <= p, p < c + r, p - c + 1 \in 1 .. r, NEW b, b = piece[p - c + 1]
          PROVE Right(p, b)'
      BY <2>8, <2>10, <3>1
    <3>. QED BY <3>1
  <2>13. c + r = IF job.first = <<>> THEN write + job.done ELSE Len(job.rest) BY <1>2, <2>0, <2>8
  <2>. QED BY <1>1, <1>3, <1>5, <1>6, <2>3, <2>5, <2>6, <2>7, <2>11, <2>12, <2>13, PieceInOrder
<1>10. CASE f # 0
  <2>0. job.first # <<>> BY <1>3, <1>10
  <2>1. /\ subs' = [subs EXCEPT ![1] = Overwritten(@, 0, piece)]
        /\ wat' = [sub |-> 1, at |-> Len(piece)]
        /\ ~(Len(piece) > SubSize)
    BY <1>2, <2>0 DEF WriteRest
  <2>2. PICK to : to = Begin OBVIOUS
  <2>3. Room(to) /\ Put(to, piece) BY <1>3, <2>1, <2>2, RoomToWrite, RewoundPuts DEF TsRing
  <2>4. to.at = 0 /\ to.sub = 1 BY <2>2 DEF Begin
  <2>5. to.at + r <= SubSize BY <1>3, <1>4, <2>1, <2>4
  <2>6. ~(to.sub > Len(subs))
    <3>1. Len(subs) \in Nat \ {0} BY SubTypes DEF TsRing
    <3>. QED BY <2>4, <3>1
  <2>7. PICK c : c = Where(to) OBVIOUS
  <2>8. c = 0 BY <2>4, <2>7, Bases DEF Where
  <2>9. f = size - write /\ write + d > size /\ r = write + d - size /\ r <= write
    BY <1>3, <1>4, <1>10
  <2>10. ASSUME NEW p \in Nat, NEW b \in TsBytes, Right(p, b), ~(p < r) PROVE Right(p, b)'
    <3>1. /\ ~Zone(p) /\ p < write => b = Kept - write + p + 1
          /\ ~Zone(p) /\ write <= p /\ p < size /\ total = size => b = Kept - write - size + p + 1
          /\ write <= p /\ p < write + f => b = Kept - write + p + 1
      BY <1>1, <1>2, <1>6, <2>10 DEF Right
    <3>. QED BY <1>1, <1>2, <1>7, <2>0, <2>10, <3>1 DEF Right
  <2>11. ASSUME NEW p \in Nat, p < r, p + 1 \in 1 .. r, NEW b, b = piece[p + 1] PROVE Right(p, b)'
    <3>1. b = Kept + f + (p + 1) BY <1>8, <2>11
    <3>2. b = Kept + f + p + 1 BY <1>3, <1>4, <3>1
    <3>3. Zone(p)
      <4>1. p < write + d - size BY <1>3, <1>4, <2>9, <2>11
      <4>. QED BY <1>1, <1>2, <4>1 DEF Zone
    <3>4. ~(write <= p) BY <1>3, <1>4, <2>9, <2>11
    <3>. QED BY <1>1, <1>2, <1>7, <2>0, <3>2, <3>3, <3>4 DEF Right
  <2>12. \A p \in Nat, b \in TsBytes : Right(p, b) /\ ~(c <= p /\ p < c + r) => Right(p, b)'
    <3>1. ASSUME NEW p \in Nat, ~(c <= p /\ p < c + r) PROVE ~(p < r) BY <1>3, <2>8, <3>1
    <3>. QED BY <2>10, <3>1
  <2>13. \A p \in Nat : c <= p /\ p < c + r /\ p - c + 1 \in 1 .. r => Right(p, piece[p - c + 1])'
    <3>1. ASSUME NEW p \in Nat, c <= p, p < c + r, p - c + 1 \in 1 .. r, NEW b, b = piece[p - c + 1]
          PROVE Right(p, b)'
      <4>1. p < r /\ p - c + 1 = p + 1 BY <1>3, <2>8, <3>1
      <4>. QED BY <2>11, <3>1, <4>1
    <3>. QED BY <3>1
  <2>14. c + r = IF job.first = <<>> THEN write + job.done ELSE Len(job.rest) BY <1>2, <1>3, <2>0, <2>8
  <2>. QED BY <1>1, <1>3, <1>5, <1>6, <2>3, <2>5, <2>6, <2>7, <2>12, <2>13, <2>14, PieceInOrder
<1>. QED BY <1>9, <1>10


-----------------------------------------------------------------------------
(* A read of one sub file: where it ends, and that it returns something.   *)
LEMMA SubReadOrder ==
  ASSUME TsRing, InOrder, NEW o \in Offsets, o.sub <= Len(subs), o.at <= Len(subs[o.sub]),
         NEW p, p = Where(o), NEW m \in Nat, m > 0, NEW b, b = SubRead(o, m)
  PROVE  /\ p \in Nat /\ b \in Seq(TsBytes)
         /\ p < RingEnd => b # <<>>
         /\ After(o, b).at <= Len(subs[After(o, b).sub]) /\ Where(After(o, b)) = p + Len(b)
         /\ \A i \in 1 .. Len(b) : Right(p + i - 1, b[i])
<1>0. Files /\ SubFiles BY DEF TsRing, InOrder
<1>1. PICK from : from = ReadFrom(o) OBVIOUS
<1>2. from \in Offsets /\ from.sub <= Len(subs) BY <1>0, <1>1, ReadFromOffset
<1>3. o.sub \in Nat \ {0} /\ o.at \in Nat /\ from.sub \in Nat \ {0} /\ from.at \in Nat
  BY <1>2 DEF Offsets
<1>4. Len(subs) \in Nat \ {0} /\ SubSize \in Nat \ {0} BY <1>0, SubTypes, TsFileAssumption
<1>5. o.sub \in 1 .. Len(subs) /\ from.sub \in 1 .. Len(subs) BY <1>2, <1>3, <1>4
<1>6. Len(subs[o.sub]) \in Nat /\ Len(subs[from.sub]) \in Nat BY <1>0, <1>5, SubTypes
<1>7. Base(o.sub) \in Nat /\ Base(o.sub + 1) = Base(o.sub) + SubSize /\ p = Base(o.sub) + o.at
  BY <1>3, Bases DEF Where
<1>8. /\ from.at <= Len(subs[from.sub]) /\ Where(from) = p
      /\ p < RingEnd => from.at < Len(subs[from.sub])
  <2>1. CASE o.at >= Len(subs[o.sub]) /\ o.sub < Len(subs)
    <3>1. from = [sub |-> o.sub + 1, at |-> 0] BY <1>1, <2>1 DEF ReadFrom
    <3>2. from.sub = o.sub + 1 /\ from.at = 0 BY <3>1
    <3>3. Len(subs[o.sub]) = SubSize BY <1>0, <1>5, <2>1 DEF SubFiles
    <3>4. o.at = SubSize BY <1>3, <1>4, <2>1, <3>3
    <3>5. Where(from) = Base(o.sub + 1) + 0 BY <3>2 DEF Where
    <3>6. subs[from.sub] # <<>>
      <4>1. from.sub > 1 BY <1>3, <3>2
      <4>. QED BY <1>0, <1>5, <4>1 DEF SubFiles
    <3>7. Len(subs[from.sub]) > 0
      <4>1. subs[from.sub] \in Seq(TsBytes) BY <1>0, <1>5, SubTypes
      <4>. QED BY <3>6, <4>1
    <3>. QED BY <1>3, <1>4, <1>6, <1>7, <3>2, <3>4, <3>5, <3>7
  <2>2. CASE ~(o.at >= Len(subs[o.sub]) /\ o.sub < Len(subs))
    <3>1. from = o BY <1>1, <2>2 DEF ReadFrom
    <3>2. ASSUME p < RingEnd PROVE o.at < Len(subs[o.sub])
      <4>1. CASE o.sub < Len(subs) BY <1>3, <1>6, <2>2, <4>1
      <4>2. CASE o.sub = Len(subs)
        <5>1. RingEnd = Base(o.sub) + Len(subs[o.sub]) BY <4>2 DEF RingEnd
        <5>. QED BY <1>3, <1>6, <1>7, <3>2, <5>1
      <4>. QED BY <1>3, <1>4, <4>1, <4>2
    <3>. QED BY <3>1, <3>2
  <2>. QED BY <2>1, <2>2
<1>9. PICK k, l : k = from.at /\ l = Len(subs[from.sub]) OBVIOUS
<1>10. /\ b \in Seq(TsBytes) /\ Len(b) \in Nat
       /\ Len(b) = IF k >= l THEN 0 ELSE Least(k + m, l) - k
       /\ \A i \in 1 .. Len(b) : b[i] = subs[from.sub][k + i]
  <2>1. /\ b \in Seq(TsBytes) /\ Len(b) \in Nat
        /\ Len(b) = IF from.at >= Len(subs[from.sub]) THEN 0
                    ELSE Least(from.at + m, Len(subs[from.sub])) - from.at
        /\ \A i \in 1 .. Len(b) : b[i] = subs[from.sub][from.at + i]
    BY <1>0, <1>1, SubReadBytes
  <2>. QED BY <1>9, <2>1
<1>11. k \in Nat /\ l \in Nat /\ k <= l /\ (p < RingEnd => k < l) BY <1>3, <1>6, <1>8, <1>9
<1>12. PICK n \in Nat : n = Len(b) BY <1>10
<1>13. k + n <= l /\ (k < l => n > 0)
  <2>1. CASE k >= l
    <3>1. n = 0 BY <1>10, <1>12, <2>1
    <3>. QED BY <1>11, <2>1, <3>1
  <2>2. CASE ~(k >= l)
    <3>1. n = Least(k + m, l) - k BY <1>10, <1>12, <2>2
    <3>2. Least(k + m, l) = k + m \/ Least(k + m, l) = l BY DEF Least
    <3>3. Least(k + m, l) <= l BY <1>11 DEF Least
    <3>4. PICK e : e = Least(k + m, l) OBVIOUS
    <3>5. e = k + m \/ e = l BY <3>2, <3>4
    <3>6. n = e - k /\ e <= l BY <3>1, <3>3, <3>4
    <3>. QED BY ONLY <1>11, <2>2, <3>5, <3>6, m \in Nat, m > 0, n \in Nat
  <2>. QED BY <2>1, <2>2
<1>14. p < RingEnd => b # <<>>
  <2>1. Len(<<>>) = 0 OBVIOUS
  <2>. QED BY <1>11, <1>12, <1>13, <2>1
<1>15. /\ After(o, b) \in Offsets /\ After(o, b).sub = from.sub /\ After(o, b).at = k + n
  BY <1>0, <1>1, <1>9, <1>10, <1>12, AfterRead
<1>16. p = Base(from.sub) + k /\ Base(from.sub) \in Nat BY <1>3, <1>8, <1>9, Bases DEF Where
<1>17. After(o, b).at <= Len(subs[After(o, b).sub]) BY <1>9, <1>13, <1>15
<1>18. Where(After(o, b)) = p + Len(b)
  <2>1. Where(After(o, b)) = Base(from.sub) + (k + n) BY <1>15 DEF Where
  <2>2. PICK B : B = Base(from.sub) OBVIOUS
  <2>3. B + (k + n) = p + n BY <1>11, <1>16, <2>2
  <2>. QED BY <1>12, <2>1, <2>2, <2>3
<1>19. ASSUME NEW i \in 1 .. Len(b) PROVE Right(p + i - 1, b[i])
  <2>1. i \in 1 .. n BY <1>12
  <2>2. k + i \in 1 .. l BY <1>11, <1>13, <2>1
  <2>3. PICK s, a : s = from.sub /\ a = k + i OBVIOUS
  <2>4. s \in 1 .. Len(subs) /\ a \in 1 .. Len(subs[s]) BY <1>5, <1>9, <2>2, <2>3
  <2>5. Right(Base(s) + a - 1, subs[s][a]) BY <2>4 DEF InOrder, FileCells
  <2>6. Base(s) + a - 1 = p + i - 1 BY <1>11, <1>16, <2>1, <2>3
  <2>7. b[i] = subs[s][a] BY <1>10, <2>3
  <2>. QED BY <2>5, <2>6, <2>7
<1>20. p \in Nat BY <1>3, <1>7
<1>. QED BY <1>10, <1>14, <1>17, <1>18, <1>19, <1>20

(* The byte at the place of the j-th byte to be read.                      *)
LEMMA RightUnread ==
  ASSUME TsRing, Unharmed, NEW j \in 1 .. avail, NEW p,
         p = IF read + j - 1 < size THEN read + j - 1 ELSE read + j - 1 - size,
         NEW b, Right(p, b)
  PROVE  b = Kept - avail + j
<1>1. /\ size \in Nat \ {0} /\ read \in Nat /\ write \in Nat /\ avail \in Nat
      /\ total \in Nat /\ Kept \in Int
      /\ read < size /\ write < size /\ avail <= total /\ total <= size
      /\ read + avail = write \/ read + avail = write + size
      /\ total < size => write = total /\ read + avail = total
  BY Numbers
<1>2. j \in Nat /\ j >= 1 /\ j <= avail BY <1>1
<1>3. ~Zone(p)
  <2>1. CASE job = NoJob BY <2>1 DEF Zone
  <2>2. CASE job # NoJob
    <3>1. PICK d : d = job.done OBVIOUS
    <3>2. d \in Nat BY <2>2, <3>1, JobNumbers
    <3>3. d <= size - avail BY <2>2, <3>1 DEF Unharmed
    <3>4. ~((write <= p /\ p < write + d) \/ p < write + d - size)
      <4>1. CASE read + avail = write
        <5>1. p = read + j - 1 BY <1>1, <1>2, <4>1
        <5>. QED BY <1>1, <1>2, <3>2, <3>3, <4>1, <5>1
      <4>2. CASE read + avail = write + size /\ read + j - 1 < size
        <5>1. p = read + j - 1 BY <4>2
        <5>. QED BY <1>1, <1>2, <3>2, <3>3, <4>2, <5>1
      <4>3. CASE read + avail = write + size /\ ~(read + j - 1 < size)
        <5>1. p = read + j - 1 - size BY <4>3
        <5>. QED BY <1>1, <1>2, <3>2, <3>3, <4>3, <5>1
      <4>. QED BY <1>1, <4>1, <4>2, <4>3
    <3>. QED BY <3>1, <3>4 DEF Zone
  <2>. QED BY <2>1, <2>2
<1>4. /\ p < write => b = Kept - write + p + 1
      /\ write <= p /\ p < size /\ total = size => b = Kept - write - size + p + 1
  BY <1>3 DEF Right
<1>5. CASE read + avail = write
  <2>1. p = read + j - 1 /\ p < write BY <1>1, <1>2, <1>5
  <2>. QED BY <1>1, <1>2, <1>4, <1>5, <2>1
<1>6. CASE read + avail = write + size
  <2>1. total = size BY <1>1, <1>6
  <2>2. CASE read + j - 1 < size
    <3>1. p = read + j - 1 /\ write <= p /\ p < size BY <1>1, <1>2, <1>6, <2>2
    <3>. QED BY <1>1, <1>2, <1>4, <1>6, <2>1, <3>1
  <2>3. CASE ~(read + j - 1 < size)
    <3>1. p = read + j - 1 - size /\ p < write BY <1>1, <1>2, <1>6, <2>3
    <3>. QED BY <1>1, <1>2, <1>4, <1>6, <3>1
  <2>. QED BY <2>2, <2>3
<1>. QED BY <1>1, <1>5, <1>6


(* The two pieces of a read.                                               *)
LEMMA ReadParts ==
  ASSUME TsRing, InOrder, avail > 0, NEW n \in ReadSizes, NEW sp, sp = Split(n),
         NEW q, q = IF sp > 0 THEN 0 ELSE read,
         NEW x, x = First(n), NEW y, y = Second(n)
  PROVE  /\ Short(n) => sp > 0
         /\ sp > 0 => x # <<>>
         /\ ~Short(n) => y # <<>>
         /\ Short(n) => /\ After(rat, x).at <= Len(subs[After(rat, x).sub])
                        /\ Where(After(rat, x)) = read + Len(x)
         /\ ~Short(n) => /\ After(Resumed(n), y).at <= Len(subs[After(Resumed(n), y).sub])
                         /\ Where(After(Resumed(n), y)) = q + Len(y)
         /\ \A i \in 1 .. Len(x) : Right(read + i - 1, x[i])
         /\ \A i \in 1 .. Len(y) : Right(q + i - 1, y[i])
<1>0. Files BY DEF TsRing
<1>1. PICK td : td = Todo(n) OBVIOUS
<1>2. /\ td \in Nat /\ sp \in Nat /\ sp < td /\ x \in Seq(TsBytes) /\ Len(x) <= sp
      /\ Short(n) <=> Len(x) # sp
      /\ Short(n) => y = <<>>
  BY <1>1, ReadLengths
<1>3. Short(n) => sp > 0 BY <1>2
<1>4. read < RingEnd /\ 0 < RingEnd
  <2>1. RingEnd >= total /\ RingEnd \in Int
    <3>1. Len(subs) \in Nat \ {0} BY <1>0, SubTypes
    <3>2. Len(subs[Len(subs)]) \in Nat /\ Base(Len(subs)) \in Nat
      <4>1. Len(subs) \in 1 .. Len(subs) BY <3>1
      <4>. QED BY <1>0, <3>1, <4>1, SubTypes, Bases
    <3>. QED BY <3>2 DEF InOrder, Reached, RingEnd
  <2>. QED BY <2>1, Numbers
<1>5. /\ rat \in Offsets /\ rat.sub <= Len(subs) /\ rat.at <= Len(subs[rat.sub]) /\ Where(rat) = read
  BY <1>0 DEF Files, InOrder, Reader
<1>6. /\ Begin \in Offsets /\ Begin.sub <= Len(subs) /\ Begin.at <= Len(subs[Begin.sub]) /\ Where(Begin) = 0
  <2>1. Begin \in Offsets /\ Begin.sub = 1 /\ Begin.at = 0 BY DEF Begin, Offsets
  <2>2. 1 \in 1 .. Len(subs) /\ 1 <= Len(subs)
    <3>1. Len(subs) \in Nat \ {0} BY <1>0, SubTypes
    <3>. QED BY <3>1
  <2>3. 0 <= Len(subs[1]) BY <1>0, <2>2, SubTypes
  <2>4. Where(Begin) = Base(1) + 0 BY <2>1 DEF Where
  <2>. QED BY <2>1, <2>2, <2>3, <2>4, Bases
<1>7. PICK p : p = read OBVIOUS
<1>8. /\ sp > 0 => x # <<>>
      /\ sp > 0 => /\ After(rat, x).at <= Len(subs[After(rat, x).sub])
                   /\ Where(After(rat, x)) = read + Len(x)
      /\ \A i \in 1 .. Len(x) : Right(read + i - 1, x[i])
  <2>1. CASE sp > 0
    <3>1. x = SubRead(rat, sp) BY <2>1 DEF First
    <3>2. p = Where(rat) BY <1>5, <1>7
    <3>. QED BY <1>2, <1>4, <1>5, <1>7, <2>1, <3>1, <3>2, SubReadOrder
  <2>2. CASE ~(sp > 0)
    <3>1. x = <<>> BY <2>2 DEF First
    <3>. QED BY <2>2, <3>1
  <2>. QED BY <2>1, <2>2
<1>9. /\ ~Short(n) => y # <<>>
      /\ ~Short(n) => /\ After(Resumed(n), y).at <= Len(subs[After(Resumed(n), y).sub])
                      /\ Where(After(Resumed(n), y)) = q + Len(y)
      /\ \A i \in 1 .. Len(y) : Right(q + i - 1, y[i])
  <2>1. CASE Short(n)
    <3>1. y = <<>> BY <1>2, <2>1
    <3>. QED BY <2>1, <3>1
  <2>2. CASE ~Short(n)
    <3>1. PICK o, m : o = Resumed(n) /\ m = td - sp OBVIOUS
    <3>2. y = SubRead(o, m) BY <1>1, <2>2, <3>1 DEF Second
    <3>3. m \in Nat /\ m > 0 BY <1>2, <3>1
    <3>4. o = IF sp > 0 THEN Begin ELSE rat BY <3>1 DEF Resumed
    <3>5. o \in Offsets /\ o.sub <= Len(subs) /\ o.at <= Len(subs[o.sub]) /\ q = Where(o) /\ q < RingEnd
      BY <1>4, <1>5, <1>6, <3>4
    <3>6. /\ y # <<>>
          /\ After(o, y).at <= Len(subs[After(o, y).sub]) /\ Where(After(o, y)) = q + Len(y)
          /\ \A i \in 1 .. Len(y) : Right(q + i - 1, y[i])
      BY <3>2, <3>3, <3>5, SubReadOrder
    <3>. QED BY <2>2, <3>1, <3>6
  <2>. QED BY <2>1, <2>2
<1>. QED BY <1>3, <1>8, <1>9

LEMMA ReadInOrder ==
  ASSUME TsRing, NEW n \in ReadSizes, Read(n), InOrder, ~adrift' PROVE InOrder'
<1>1. avail > 0 /\ UNCHANGED <<size, start, write, total, subs, wat, job, fed>> BY DEF Read
<1>2. PICK td, sp, q, x, y : /\ td = Todo(n) /\ sp = Split(n) /\ x = First(n) /\ y = Second(n)
                             /\ q = IF sp > 0 THEN 0 ELSE read
  OBVIOUS
<1>3. /\ td \in Nat /\ td <= avail /\ sp \in Nat /\ sp < td
      /\ sp = IF read + td > size THEN size - read ELSE 0
      /\ x \in Seq(TsBytes) /\ y \in Seq(TsBytes) /\ Len(x) <= sp /\ Len(y) <= td - sp
      /\ Short(n) <=> Len(x) # sp
      /\ Short(n) => y = <<>>
      /\ Len(Taken(n)) = Len(x) + Len(y)
  BY <1>1, <1>2, ReadLengths
<1>4. /\ ~Short(n) => y # <<>>
      /\ Short(n) => sp > 0
      /\ Short(n) => /\ After(rat, x).at <= Len(subs[After(rat, x).sub])
                     /\ Where(After(rat, x)) = read + Len(x)
      /\ ~Short(n) => /\ After(Resumed(n), y).at <= Len(subs[After(Resumed(n), y).sub])
                      /\ Where(After(Resumed(n), y)) = q + Len(y)
  BY <1>1, <1>2, ReadParts
<1>5. PICK f, s : f = Len(x) /\ s = Len(y) OBVIOUS
<1>6. f \in Nat /\ s \in Nat BY <1>3, <1>5
<1>7. /\ size \in Nat \ {0} /\ read \in Nat /\ write \in Nat /\ avail \in Nat
      /\ total \in Nat /\ next \in Nat /\ Kept \in Int
      /\ read < size /\ write < size /\ avail <= total /\ total <= size
  BY Numbers
<1>8. Kept' = Kept BY <1>1 DEF Kept
<1>9. next' = Kept' - avail' + 1
  <2>1. avail' = avail - (f + s)
    <3>1. Short(n) \/ Second(n) # <<>> BY <1>2, <1>4
    <3>. QED BY <1>3, <1>5, <3>1 DEF Read
  <2>2. next' = next + (f + s) BY <1>3, <1>5 DEF Read
  <2>3. next = Kept - avail + 1 BY DEF InOrder
  <2>. QED BY <1>6, <1>7, <1>8, <2>1, <2>2, <2>3
<1>10. SubFiles' /\ Reached' /\ Writer'
  <2>1. RingEnd' = RingEnd /\ Where(wat)' = Where(wat) BY <1>1 DEF RingEnd, Where, Base
  <2>2. SubFiles' BY <1>1 DEF InOrder, SubFiles
  <2>3. Reached' BY <1>1, <2>1 DEF InOrder, Reached
  <2>4. Writer' BY <1>1, <2>1 DEF InOrder, Writer
  <2>. QED BY <2>2, <2>3, <2>4
<1>11. FileCells'
  <2>1. ASSUME NEW p \in Nat, NEW b \in TsBytes, Right(p, b) PROVE Right(p, b)'
    <3>1. Zone(p)' <=> Zone(p) BY <1>1 DEF Zone
    <3>. QED BY <1>1, <1>8, <2>1, <3>1 DEF Right
  <2>. QED BY <1>1, <2>1, CellsStay DEF TsRing, InOrder
<1>12. read' # 0 \/ rat' = Begin BY DEF Read
<1>13. Reader'
  <2>0. Where(rat)' = Where(rat') BY DEF Where, Base
  <2>1. CASE Short(n)
    <3>1. rat' = After(rat, x) /\ read' = read + f BY <1>2, <1>5, <2>1 DEF Read
    <3>2. rat'.at <= Len(subs[rat'.sub]) /\ Where(rat') = read' BY <1>4, <1>5, <2>1, <3>1
    <3>. QED BY <1>1, <2>0, <3>2 DEF Reader
  <2>2. CASE ~Short(n)
    <3>1. rat' = After(Resumed(n), y) /\ read' = (q + s) % size BY <1>2, <1>5, <2>2 DEF Read
    <3>2. rat'.at <= Len(subs[rat'.sub]) /\ Where(rat') = q + s BY <1>4, <1>5, <2>2, <3>1
    <3>3. q \in 0 .. size - 1 /\ s \in 0 .. size /\ q + s <= size
      <4>1. q \in 0 .. size - 1 BY <1>2, <1>7
      <4>2. s <= td - sp /\ td <= size BY <1>3, <1>5, <1>7
      <4>3. CASE sp > 0
        <5>1. q = 0 BY <1>2, <4>3
        <5>. QED BY <1>3, <1>6, <1>7, <4>1, <4>2, <5>1
      <4>4. CASE ~(sp > 0)
        <5>1. q = read /\ sp = 0 /\ read + td <= size BY <1>2, <1>3, <1>7, <4>4
        <5>. QED BY <1>3, <1>6, <1>7, <4>1, <4>2, <5>1
      <4>. QED BY <4>3, <4>4
    <3>4. (q + s) % size = IF q + s < size THEN q + s ELSE q + s - size BY <1>7, <3>3, Around
    <3>5. CASE q + s < size
      <4>1. read' = q + s BY <3>1, <3>4, <3>5
      <4>. QED BY <1>1, <2>0, <3>2, <4>1 DEF Reader
    <3>6. CASE ~(q + s < size)
      <4>1. q + s = size BY <1>7, <3>3, <3>6
      <4>2. read' = 0 BY <1>7, <3>1, <3>4, <4>1
      <4>3. rat' = Begin BY <1>12, <4>2
      <4>4. Where(rat') = Base(1) + 0 BY <4>3 DEF Where, Begin
      <4>5. Where(rat') = 0 BY <4>4, Bases
      <4>. QED BY <1>1, <2>0, <3>2, <4>2, <4>5 DEF Reader
    <3>. QED BY <3>5, <3>6
  <2>. QED BY <2>1, <2>2
<1>. QED BY <1>9, <1>10, <1>11, <1>13 DEF InOrder

LEMMA Division ==
  ASSUME NEW m \in Nat \ {0}, NEW a \in Nat
  PROVE  a \div m \in Nat /\ a % m \in 0 .. m - 1 /\ a = m * (a \div m) + (a % m)
<1>1. a \div m \in Nat OBVIOUS
<1>2. a % m \in 0 .. m - 1 OBVIOUS
<1>3. a = m * (a \div m) + (a % m) OBVIOUS
<1>. QED BY <1>1, <1>2, <1>3

LEMMA SeekInOrder ==
  ASSUME TsRing, NEW o \in 0 .. RingSize, SeekTo(o), InOrder, ~adrift' PROVE InOrder'
<1>1. /\ o \in 0 .. total /\ read' = (start + o) % size /\ avail' = total - o
      /\ rat' = Seek(read', rat) /\ next' = Kept - total + o + 1
      /\ ~(read' \div SubSize + 1 > Len(subs))
      /\ UNCHANGED <<size, start, write, total, subs, wat, job, fed>>
  BY DEF SeekTo
<1>2. /\ size \in Nat \ {0} /\ start \in Nat /\ total \in Nat /\ Kept \in Int /\ SubSize \in Nat \ {0}
      /\ total <= size
  BY Numbers
<1>3. Kept' = Kept BY <1>1 DEF Kept
<1>4. next' = Kept' - avail' + 1 BY <1>1, <1>2, <1>3
<1>5. SubFiles' /\ Reached' /\ Writer'
  <2>1. RingEnd' = RingEnd /\ Where(wat)' = Where(wat) BY <1>1 DEF RingEnd, Where, Base
  <2>2. SubFiles' BY <1>1 DEF InOrder, SubFiles
  <2>3. Reached' BY <1>1, <2>1 DEF InOrder, Reached
  <2>4. Writer' BY <1>1, <2>1 DEF InOrder, Writer
  <2>. QED BY <2>2, <2>3, <2>4
<1>6. FileCells'
  <2>1. ASSUME NEW p \in Nat, NEW b \in TsBytes, Right(p, b) PROVE Right(p, b)'
    <3>1. Zone(p)' <=> Zone(p) BY <1>1 DEF Zone
    <3>. QED BY <1>1, <1>3, <2>1, <3>1 DEF Right
  <2>. QED BY <1>1, <2>1, CellsStay DEF TsRing, InOrder
<1>7. PICK pos, Q, R : pos = read' /\ Q = pos \div SubSize /\ R = pos % SubSize OBVIOUS
<1>8. pos \in 0 .. size - 1 /\ (total < size => pos = o)
  <2>1. start \in 0 .. size - 1 /\ o \in 0 .. size BY <1>1, <1>2 DEF TsRing, RingConsistent
  <2>2. pos = (IF start + o < size THEN start + o ELSE start + o - size) /\ pos \in 0 .. size - 1
    BY <1>1, <1>2, <1>7, <2>1, Around
  <2>3. total < size => start = 0 BY DEF TsRing, Filling
  <2>. QED BY <1>1, <1>2, <2>2, <2>3
<1>9. Q \in Nat /\ R \in 0 .. SubSize - 1 /\ pos = SubSize * Q + R
  <2>1. pos \in Nat BY <1>2, <1>8
  <2>2. pos \div SubSize \in Nat /\ pos % SubSize \in 0 .. SubSize - 1
        /\ pos = SubSize * (pos \div SubSize) + (pos % SubSize)
    BY <1>2, <2>1, Division
  <2>. QED BY <1>7, <2>2
<1>10. rat' = [sub |-> Q + 1, at |-> R]
  <2>1. Q + 1 <= Len(subs)
    <3>1. ~(Q + 1 > Len(subs)) BY <1>1, <1>7
    <3>2. Len(subs) \in Nat BY SubTypes DEF TsRing
    <3>. QED BY <1>9, <3>1, <3>2
  <2>. QED BY <1>1, <1>7, <2>1 DEF Seek
<1>11. PICK s : s = Q + 1 OBVIOUS
<1>12. s \in 1 .. Len(subs) /\ s \in Nat \ {0}
  <2>1. ~(Q + 1 > Len(subs)) BY <1>1, <1>7
  <2>2. Len(subs) \in Nat BY SubTypes DEF TsRing
  <2>. QED BY <1>9, <1>11, <2>1, <2>2
<1>13. Base(s) + R = pos /\ Base(s) \in Nat
  <2>1. Base(s) = Q * SubSize BY <1>9, <1>11 DEF Base
  <2>2. Q * SubSize = SubSize * Q BY <1>2, <1>9
  <2>. QED BY <1>9, <1>12, <2>1, <2>2, Bases
<1>14. R <= Len(subs[s])
  <2>1. Len(subs[s]) \in Nat BY <1>12, SubTypes DEF TsRing
  <2>2. CASE s < Len(subs)
    <3>1. Len(subs[s]) = SubSize BY <1>12, <2>2 DEF InOrder, SubFiles
    <3>. QED BY <1>2, <1>9, <3>1
  <2>3. CASE s = Len(subs)
    <3>1. RingEnd = Base(s) + Len(subs[s]) BY <2>3 DEF RingEnd
    <3>2. RingEnd >= total BY DEF InOrder, Reached
    <3>3. pos <= total BY <1>1, <1>2, <1>8
    <3>. QED BY <1>2, <1>9, <1>13, <2>1, <3>1, <3>2, <3>3
  <2>4. Len(subs) \in Nat BY SubTypes DEF TsRing
  <2>. QED BY <1>12, <2>2, <2>3, <2>4
<1>15. Reader'
  <2>1. Where(rat)' = Where(rat') BY DEF Where, Base
  <2>2. rat'.sub = s /\ rat'.at = R BY <1>10, <1>11
  <2>3. Where(rat') = read' BY <1>7, <1>13, <2>2 DEF Where
  <2>. QED BY <1>1, <1>14, <2>1, <2>2, <2>3 DEF Reader
<1>. QED BY <1>4, <1>5, <1>6, <1>15 DEF InOrder


LEMMA InitTsShift == TsFileInit => TsShift
<1>. SUFFICES ASSUME TsFileInit PROVE InOrder BY InitTsRing DEF TsShift
<1>1. /\ size = SubSize /\ read = 0 /\ write = 0 /\ avail = 0 /\ total = 0 /\ subs = << <<>> >>
      /\ wat = Begin /\ rat = Begin /\ job = NoJob /\ fed = 0 /\ next = 1
  BY DEF TsFileInit
<1>2. Len(subs) = 1 /\ subs[1] = <<>> /\ Len(subs[1]) = 0 BY <1>1
<1>3. Begin.sub = 1 /\ Begin.at = 0 BY DEF Begin
<1>4. Where(Begin) = 0 /\ RingEnd = 0 BY <1>2, <1>3, Bases DEF Where, RingEnd
<1>5. SubSize \in Nat \ {0} BY TsFileAssumption
<1>6. Kept = 0 BY <1>1 DEF Kept
<1>7. next = Kept - avail + 1 BY <1>1, <1>6
<1>8. SubFiles BY <1>2, <1>5 DEF SubFiles
<1>9. Reached BY <1>1, <1>4 DEF Reached
<1>10. Writer BY <1>1, <1>3, <1>4, <1>5 DEF Writer
<1>11. Reader BY <1>1, <1>2, <1>3, <1>4 DEF Reader
<1>12. FileCells BY <1>2 DEF FileCells
<1>. QED BY <1>7, <1>8, <1>9, <1>10, <1>11, <1>12 DEF InOrder

LEMMA StillInOrder ==
  ASSUME InOrder, UNCHANGED tsVars PROVE InOrder'
<1>1. UNCHANGED <<size, start, read, write, avail, total, subs, wat, rat, job, fed, next, adrift>>
  BY DEF tsVars, counters, disk
<1>2. Kept' = Kept BY <1>1 DEF Kept
<1>3. next' = Kept' - avail' + 1 BY <1>1, <1>2 DEF InOrder
<1>4. RingEnd' = RingEnd /\ Where(wat)' = Where(wat) /\ Where(rat)' = Where(rat) BY <1>1 DEF RingEnd, Where, Base
<1>5. SubFiles' BY <1>1 DEF InOrder, SubFiles
<1>6. Reached' BY <1>1, <1>4 DEF InOrder, Reached
<1>7. Writer' BY <1>1, <1>4 DEF InOrder, Writer
<1>8. Reader' BY <1>1, <1>4 DEF InOrder, Reader
<1>9. FileCells' BY <1>1 DEF InOrder, FileCells, Right, Zone, Kept, Base
<1>. QED BY <1>3, <1>5, <1>6, <1>7, <1>8, <1>9 DEF InOrder

(* Once adrift, an offset does not come back.                              *)
LEMMA DriftStays ==
  ASSUME [TsFileNext]_tsVars, adrift PROVE adrift'
<1>1. CASE GotRate BY <1>1 DEF GotRate
<1>2. CASE \E n \in WriteSizes : WriteBegin(n) BY <1>2 DEF WriteBegin
<1>3. CASE WriteFirst BY <1>3 DEF WriteFirst
<1>4. CASE WriteRest BY <1>4 DEF WriteRest
<1>5. CASE Adjust BY <1>5 DEF Adjust
<1>6. CASE \E n \in ReadSizes : Read(n) BY <1>6 DEF Read
<1>7. CASE \E o \in 0 .. RingSize : SeekTo(o) BY <1>7 DEF SeekTo
<1>8. CASE UNCHANGED tsVars BY <1>8 DEF tsVars
<1>. QED BY <1>1, <1>2, <1>3, <1>4, <1>5, <1>6, <1>7, <1>8 DEF TsFileNext

LEMMA TsShiftStep == TsShift /\ [TsFileNext]_tsVars => TsShift'
<1>. SUFFICES ASSUME TsShift, [TsFileNext]_tsVars PROVE TsShift' OBVIOUS
<1>1. TsRing /\ TsRing' BY TsRingStep DEF TsShift
<1>2. SUFFICES ASSUME ~adrift' PROVE InOrder' BY <1>1 DEF TsShift
<1>3. InOrder BY <1>2, DriftStays DEF TsShift
<1>4. CASE GotRate BY <1>1, <1>3, <1>4, RateInOrder
<1>5. CASE \E n \in WriteSizes : WriteBegin(n) BY <1>1, <1>3, <1>5, BeginInOrder
<1>6. CASE WriteFirst BY <1>1, <1>2, <1>3, <1>6, WriteFirstInOrder
<1>7. CASE WriteRest BY <1>1, <1>2, <1>3, <1>7, WriteRestInOrder
<1>8. CASE Adjust BY <1>1, <1>2, <1>3, <1>8, AdjustInOrder
<1>9. CASE \E n \in ReadSizes : Read(n) BY <1>1, <1>2, <1>3, <1>9, ReadInOrder
<1>10. CASE \E o \in 0 .. RingSize : SeekTo(o) BY <1>1, <1>2, <1>3, <1>10, SeekInOrder
<1>11. CASE UNCHANGED tsVars BY <1>3, <1>11, StillInOrder
<1>. QED BY <1>4, <1>5, <1>6, <1>7, <1>8, <1>9, <1>10, <1>11 DEF TsFileNext

LEMMA TakenInOrder ==
  ASSUME TsRing, InOrder, Unharmed, avail > 0, NEW n \in ReadSizes
  PROVE  Taken(n) # <<>> /\ Taken(n) = [i \in 1 .. Len(Taken(n)) |-> next + i - 1]
<1>1. PICK td, sp, q, x, y, z : /\ td = Todo(n) /\ sp = Split(n) /\ x = First(n) /\ y = Second(n)
                                /\ q = (IF sp > 0 THEN 0 ELSE read) /\ z = Taken(n)
  OBVIOUS
<1>2. /\ td \in Nat /\ td <= avail /\ sp \in Nat /\ sp < td
      /\ sp = IF read + td > size THEN size - read ELSE 0
      /\ x \in Seq(TsBytes) /\ y \in Seq(TsBytes) /\ Len(x) <= sp /\ Len(y) <= td - sp
      /\ Short(n) <=> Len(x) # sp
      /\ Short(n) => y = <<>>
      /\ z \in Seq(TsBytes) /\ Len(z) = Len(x) + Len(y)
  BY <1>1, ReadLengths
<1>3. /\ Short(n) => sp > 0
      /\ sp > 0 => x # <<>>
      /\ ~Short(n) => y # <<>>
      /\ \A i \in 1 .. Len(x) : Right(read + i - 1, x[i])
      /\ \A i \in 1 .. Len(y) : Right(q + i - 1, y[i])
  BY <1>1, ReadParts
<1>4. PICK f, s \in Nat : f = Len(x) /\ s = Len(y) BY <1>2
<1>5. f <= sp /\ s <= td - sp /\ (Short(n) <=> f # sp) /\ Len(z) = f + s BY <1>2, <1>4
<1>6. f + s > 0
  <2>1. \A w \in Seq(TsBytes) : w = <<>> <=> Len(w) = 0 OBVIOUS
  <2>2. x # <<>> \/ y # <<>> BY <1>3
  <2>3. x # <<>> => f # 0 BY <1>2, <1>4, <2>1
  <2>4. y # <<>> => s # 0 BY <1>2, <1>4, <2>1
  <2>. QED BY <2>2, <2>3, <2>4
<1>7. z # <<>> BY <1>5, <1>6
<1>8. /\ size \in Nat \ {0} /\ read \in Nat /\ avail \in Nat /\ next \in Nat /\ Kept \in Int
      /\ read < size /\ avail <= size
  BY Numbers
<1>9. next = Kept - avail + 1 BY DEF InOrder
<1>10. z = x \o y BY <1>1 DEF Taken
<1>11. ASSUME NEW i \in 1 .. f + s PROVE z[i] = next + i - 1
  <2>0. i \in Nat /\ i >= 1 OBVIOUS
  <2>1. next + i - 1 = Kept - avail + i BY <1>8, <1>9
  <2>2. i \in 1 .. avail BY <1>2, <1>5, <1>8
  <2>3. CASE i <= f
    <3>1. z[i] = x[i]
      <4>1. i \in 1 .. Len(x) BY <1>4, <2>3
      <4>. QED BY <1>2, <1>10, <4>1
    <3>2. Right(read + i - 1, x[i]) BY <1>3, <1>4, <2>3
    <3>3. read + i - 1 < size BY <1>2, <1>5, <1>8, <2>0, <2>3
    <3>4. PICK p, b : p = read + i - 1 /\ b = x[i] OBVIOUS
    <3>5. Right(p, b) /\ p = IF read + i - 1 < size THEN read + i - 1 ELSE read + i - 1 - size
      BY <3>2, <3>3, <3>4
    <3>6. b = Kept - avail + i BY <2>2, <3>5, RightUnread
    <3>. QED BY <2>1, <3>1, <3>4, <3>6
  <2>4. CASE ~(i <= f)
    <3>1. PICK j \in Nat : j = i - f BY <2>0, <2>4
    <3>2. j \in 1 .. s /\ i = f + j BY <2>4, <3>1
    <3>3. z[i] = y[j]
      <4>1. i \in Len(x) + 1 .. Len(x) + Len(y) BY <1>4, <2>4
      <4>2. z[i] = y[i - Len(x)] BY <1>2, <1>10, <4>1
      <4>. QED BY <1>4, <3>1, <4>2
    <3>4. Right(q + j - 1, y[j]) BY <1>3, <1>4, <3>2
    <3>5. ~Short(n) /\ f = sp
      <4>1. s > 0 BY <3>2
      <4>2. y # <<>>
        <5>1. Len(<<>>) = 0 OBVIOUS
        <5>. QED BY <1>4, <4>1, <5>1
      <4>. QED BY <1>2, <1>5, <4>2
    <3>6. q + j - 1 = IF read + i - 1 < size THEN read + i - 1 ELSE read + i - 1 - size
      <4>1. CASE sp > 0
        <5>1. q = 0 /\ sp = size - read BY <1>1, <1>2, <4>1
        <5>. QED BY <1>8, <3>2, <3>5, <5>1
      <4>2. CASE ~(sp > 0)
        <5>1. q = read /\ sp = 0 /\ read + td <= size BY <1>1, <1>2, <1>8, <4>2
        <5>2. i = j /\ j <= td BY <1>2, <1>5, <3>2, <3>5, <5>1
        <5>. QED BY <1>2, <1>8, <3>2, <5>1, <5>2
      <4>. QED BY <4>1, <4>2
    <3>7. PICK p, b : p = q + j - 1 /\ b = y[j] OBVIOUS
    <3>8. Right(p, b) /\ p = IF read + i - 1 < size THEN read + i - 1 ELSE read + i - 1 - size
      BY <3>4, <3>6, <3>7
    <3>9. b = Kept - avail + i BY <2>2, <3>8, RightUnread
    <3>. QED BY <2>1, <3>3, <3>7, <3>9
  <2>. QED BY <2>3, <2>4
<1>12. z = [i \in 1 .. f + s |-> next + i - 1]
  <2>1. z = [i \in 1 .. Len(z) |-> z[i]] BY <1>2
  <2>2. z = [i \in 1 .. f + s |-> z[i]] BY <1>5, <2>1
  <2>. QED BY <1>11, <2>2
<1>. QED BY <1>1, <1>5, <1>7, <1>12

LEMMA ShiftIsRead ==
  TsShift => ReadsInOrder
<1>. SUFFICES ASSUME TsShift, ~adrift, Unharmed, avail > 0, NEW n \in ReadSizes
              PROVE  Taken(n) # <<>> /\ Taken(n) = [i \in 1 .. Len(Taken(n)) |-> next + i - 1]
  BY DEF ReadsInOrder
<1>1. TsRing /\ InOrder BY DEF TsShift
<1>. QED BY <1>1, TakenInOrder

(* What the player reads of a time shift recording is the stream, byte     *)
(* after byte, across the sub files, the end of the ring and the writes    *)
(* and seeks in between, whatever the sizes are, as long as no offset of a *)
(* file has gone adrift (aml_timeshift_file_read and _write,               *)
(* aml_timeshift_subfile_read, _write and _seek).                          *)
THEOREM ShiftIsKept == TsFileSpec => []ShiftKept
<1>1. TsFileInit => TsShift BY InitTsShift
<1>2. TsShift /\ [TsFileNext]_tsVars => TsShift' BY TsShiftStep
<1>3. TsShift => ShiftKept BY ShiftIsRead DEF TsShift, TsRing, ShiftKept
<1>. QED BY <1>1, <1>2, <1>3, PTL DEF TsFileSpec
=============================================================================
