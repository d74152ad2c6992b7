------------------------------ MODULE UserData ------------------------------
(***************************************************************************)
(* The user data device of am_userdata.c: the thread of the driver writes  *)
(* caption packages into a ring of bytes, readers take them out.           *)
(*                                                                         *)
(* In the ring a package is its length, an int, and its bytes.  Writing    *)
(* and reading are critical sections of dev->lock; a reader that finds the *)
(* ring empty waits with a timeout on the condition the writer signals.    *)
(* Open and Close count references under am_gAdpLock; the last Close holds *)
(* it while it joins the thread.                                           *)
(*                                                                         *)
(* A byte is the package it belongs to and its offset from the start of    *)
(* the length, so a read that returns anything but the bytes of one        *)
(* package, in order, shows.                                               *)
(***************************************************************************)
EXTENDS Integers, Sequences, FiniteSets

CONSTANTS
  Readers,        \* the clients
  Size,           \* USERDATA_BUF_SIZE
  Lengths,        \* the lengths of packages
  BufSize,        \* BufSize[r]: the size of the buffer r reads into
  MaxPackages,    \* bound: packages the driver produces
  Nil

ASSUME UserDataAssumption ==
  /\ IsFiniteSet(Readers)
  /\ Size \in Nat \ {0}
  /\ Lengths \subseteq Nat \ {0}
  /\ BufSize \in [Readers -> Nat]
  /\ MaxPackages \in Nat
  /\ Nil \notin Readers

VARIABLES
  data, pread, pwrite,   \* pkg_buf
  openCnt,               \* open_cnt
  running,               \* drv_data->running
  thread,                \* the driver's thread
  adp,                   \* the holder of am_gAdpLock, when it blocks with it
  pc,                    \* pc[r]: where client r is
  got,                   \* what AM_USERDATA_Read last gave, and to whom
  num,                   \* packages produced
  queue                  \* history: the packages written and not yet read

ringVars == <<data, pread, pwrite>>
devVars  == <<openCnt, running, thread, adp>>
udVars   == <<ringVars, devVars, pc, got, num, queue>>

Cells == 0 .. Size - 1

(* sizeof(int): the length in front of a package.                          *)
Header == 4

(* Byte off of the package no, len being what its first Header bytes say.  *)
Bytes == [no : Nat, off : Nat, len : Nat]
Junk  == [no |-> 0, off |-> 0, len |-> 0]

(* The bytes of a package, its length included.                            *)
Frame(no, len) == [k \in 1 .. Header + len |-> [no |-> no, off |-> k, len |-> len]]

UdTypeOK ==
  /\ data \in [Cells -> Bytes] /\ pread \in Cells /\ pwrite \in Cells
  /\ openCnt \in 0 .. Cardinality(Readers) /\ running \in BOOLEAN
  /\ thread \in {"none", "run"} /\ adp \in Readers \cup {Nil}
  /\ pc \in [Readers -> {"out", "in", "wait", "woken", "join"}]
  /\ got \in [by : Readers \cup {Nil}, bytes : Seq(Bytes)]
  /\ num \in Nat
  /\ queue \in Seq([no : Nat, len : Lengths, pos : Cells])

UdInit ==
  /\ data = [i \in Cells |-> Junk] /\ pread = 0 /\ pwrite = 0
  /\ openCnt = 0 /\ running = FALSE /\ thread = "none" /\ adp = Nil
  /\ pc = [r \in Readers |-> "out"]
  /\ got = [by |-> Nil, bytes |-> <<>>]
  /\ num = 0
  /\ queue = <<>>

-----------------------------------------------------------------------------
(* Mutant: a pointer that has come to the end of the ring stays there.     *)
WrapLate(i) == IF i > Size THEN i - Size ELSE i

(* A ring pointer after n more bytes; n is at most Size.                   *)
Wrap(i) == IF i >= Size THEN i - Size ELSE i

(* How far cell j is ahead of cell i.                                      *)
Ahead(i, j) == IF j >= i THEN j - i ELSE j - i + Size

Avail == Ahead(pread, pwrite)

(* Mutant: a full ring is not kept apart from an empty one.                *)
FreeAll == IF pread - pwrite <= 0 THEN pread - pwrite + Size ELSE pread - pwrite

Free == (IF pread - pwrite <= 0 THEN pread - pwrite + Size ELSE pread - pwrite) - 1

(* The two copies of a write that may reach the end of the ring.           *)
Stored(at, bytes) ==
  [i \in Cells |-> IF Ahead(at, i) < Len(bytes) THEN bytes[Ahead(at, i) + 1] ELSE data[i]]

(* Mutant: the pointer is not reset between the two copies, the second     *)
(* finds what follows the ring.                                            *)
LoadedUnsplit(at, n) == [k \in 1 .. n |-> IF at + k - 1 >= Size THEN Junk ELSE data[at + k - 1]]

Loaded(at, n) == [k \in 1 .. n |-> data[Wrap(at + k - 1)]]

(* The int read from the ring: the length when its bytes are those of one  *)
(* length, else whatever the bytes give.                                   *)
Counts(at) ==
  LET b == data[at]
  IN IF Loaded(at, Header) = [k \in 1 .. Header |-> [b EXCEPT !.off = k]]
     THEN {b.len} ELSE 0 .. Size

(* The waiters a package wakes: the condition is signalled for the length  *)
(* and again for the bytes.                                                *)
Waiting == {r \in Readers : pc[r] = "wait"}

(* Mutant: one signal, and only when the ring was empty.                   *)
WokenOnce ==
  {W \in SUBSET Waiting :
     Cardinality(W) = IF pread # pwrite \/ Waiting = {} THEN 0 ELSE 1}

Woken ==
  {W \in SUBSET Waiting :
     Cardinality(W) = IF Cardinality(Waiting) < 2 THEN Cardinality(Waiting) ELSE 2}

Wake(W) == pc' = [r \in Readers |-> IF r \in W THEN "woken" ELSE pc[r]]

(* userdata_package_write, called by the thread: a package that does not   *)
(* fit is dropped.                                                         *)
PackageWrite ==
  /\ thread = "run" /\ num < MaxPackages
  /\ num' = num + 1
  /\ \E len \in Lengths :
       IF Free < len + Header
       THEN UNCHANGED <<ringVars, pc, queue>>
       ELSE /\ data' = Stored(pwrite, Frame(num', len))
            /\ pwrite' = Wrap(pwrite + Header + len)
            /\ queue' = Append(queue, [no |-> num', len |-> len, pos |-> pwrite])
            /\ \E W \in Woken : Wake(W)
            /\ UNCHANGED pread
  /\ UNCHANGED <<devVars, got>>

(* The thread tests running between two reads of the kernel's data.        *)
ThreadEnds ==
  /\ thread = "run" /\ ~running
  /\ thread' = "none"
  /\ UNCHANGED <<ringVars, openCnt, running, adp, pc, got, num, queue>>

-----------------------------------------------------------------------------
(* userdata_package_read: a package larger than the buffer is lost; a      *)
(* length without its bytes "must not happen", it loses the length alone.  *)
PackageRead(r) ==
  \E udCnt \in Counts(pread) :
    LET start == Wrap(pread + Header)
        whole == Avail > Header /\ Avail - Header >= udCnt
        used  == IF whole THEN Header + udCnt ELSE IF Avail > Header THEN Header ELSE 0
    IN /\ pread' = Wrap(pread + used)
       /\ got' = IF whole /\ udCnt <= BufSize[r]
                 THEN [by |-> r, bytes |-> Loaded(start, udCnt)] ELSE got
       /\ queue' = IF used > 0 /\ queue # <<>> THEN Tail(queue) ELSE queue

(* AM_USERDATA_Read, up to its end or its wait.                            *)
ReadCall(r) ==
  /\ pc[r] = "in"
  /\ IF Avail > 0
     THEN PackageRead(r) /\ UNCHANGED pc
     ELSE pc' = [pc EXCEPT ![r] = "wait"] /\ UNCHANGED <<pread, got, queue>>
  /\ UNCHANGED <<data, pwrite, devVars, num>>

(* After the wait: another reader may have been faster, the call fails.    *)
ReadWoken(r) ==
  /\ pc[r] = "woken"
  /\ pc' = [pc EXCEPT ![r] = "in"]
  /\ IF Avail > 0 THEN PackageRead(r) ELSE UNCHANGED <<pread, got, queue>>
  /\ UNCHANGED <<data, pwrite, devVars, num>>

(* ETIMEDOUT: the call fails, even when a package has come meanwhile.      *)
ReadTimeout(r) ==
  /\ pc[r] = "wait"
  /\ pc' = [pc EXCEPT ![r] = "in"]
  /\ UNCHANGED <<ringVars, devVars, got, num, queue>>

SpuriousWake(r) ==
  /\ pc[r] = "wait"
  /\ pc' = [pc EXCEPT ![r] = "woken"]
  /\ UNCHANGED <<ringVars, devVars, got, num, queue>>

-----------------------------------------------------------------------------
(* AM_USERDATA_Open and aml_open: the first reference makes the ring and   *)
(* starts the thread.  An open that fails changes nothing others see.      *)
Open(r) ==
  /\ pc[r] = "out" /\ adp = Nil
  /\ pc' = [pc EXCEPT ![r] = "in"]
  /\ openCnt' = openCnt + 1
  /\ IF openCnt = 0 THEN running' = TRUE /\ thread' = "run"
                    ELSE UNCHANGED <<running, thread>>
  /\ UNCHANGED <<ringVars, adp, got, num, queue>>

(* AM_USERDATA_Close and aml_close up to pthread_join.                     *)
Close(r) ==
  /\ pc[r] = "in" /\ adp = Nil
  /\ IF openCnt > 1
     THEN pc' = [pc EXCEPT ![r] = "out"] /\ openCnt' = openCnt - 1
          /\ UNCHANGED <<running, adp>>
     ELSE pc' = [pc EXCEPT ![r] = "join"] /\ running' = FALSE /\ adp' = r
          /\ UNCHANGED openCnt
  /\ UNCHANGED <<ringVars, thread, got, num, queue>>

(* The rest of it: userdata_ring_buf_deinit.                               *)
CloseJoined(r) ==
  /\ pc[r] = "join" /\ thread = "none"
  /\ pc' = [pc EXCEPT ![r] = "out"]
  /\ openCnt' = openCnt - 1 /\ adp' = Nil
  /\ data' = [i \in Cells |-> Junk] /\ pread' = 0 /\ pwrite' = 0
  /\ queue' = <<>>
  /\ UNCHANGED <<running, thread, got, num>>

ReaderStep(r) ==
  ReadCall(r) \/ ReadWoken(r) \/ ReadTimeout(r) \/ SpuriousWake(r)
    \/ Open(r) \/ Close(r) \/ CloseJoined(r)

UdNext == PackageWrite \/ ThreadEnds \/ (\E r \in Readers : ReaderStep(r))

UdSpec == UdInit /\ [][UdNext]_udVars

(* A client that has the device open, if time and again only, reads; the   *)
(* thread tests running at least every 100 ms, the timeout of its poll.    *)
UdFairSpec ==
  /\ UdSpec
  /\ WF_udVars(ThreadEnds)
  /\ \A r \in Readers : SF_udVars(ReadCall(r)) /\ WF_udVars(ReadWoken(r)) /\ WF_udVars(CloseJoined(r))

-----------------------------------------------------------------------------
(* The ring holds the packages written and not read, whole, one after the  *)
(* other, from pread to pwrite, whatever has wrapped around its end: what  *)
(* userdata_package_read says must not happen does not.                    *)
FrameAt(q) == \A k \in 1 .. Header + q.len :
                data[Wrap(q.pos + k - 1)] = [no |-> q.no, off |-> k, len |-> q.len]

End(q) == Ahead(pread, q.pos) + Header + q.len

Framed ==
  /\ queue = <<>> => pread = pwrite
  /\ queue # <<>> => queue[1].pos = pread /\ End(queue[Len(queue)]) = Avail
  /\ \A i \in 1 .. Len(queue) : FrameAt(queue[i])
  /\ \A i \in 1 .. Len(queue) - 1 : Ahead(pread, queue[i + 1].pos) = End(queue[i])

Contract == INSTANCE UserDataContract WITH
  queue <- [i \in DOMAIN queue |-> [no |-> queue[i].no, len |-> queue[i].len]]

(* Packages are taken in the order in which they were written, each once   *)
(* and complete, or lost as a whole.                                       *)
ImplementsContract == Contract!Spec

(* What is put into the ring is taken out of it, by readers or by the last *)
(* close, however many readers there are, time out and fail, although the  *)
(* condition is signalled, never broadcast, and a reader that was          *)
(* signalled can find its package gone.                                    *)
Drained == queue # <<>> ~> queue = <<>>
=============================================================================
