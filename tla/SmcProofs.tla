------------------------------ MODULE SmcProofs ------------------------------
(***************************************************************************)
(* Theorems about am_smc.c: about SmcStatus, for every set of clients and  *)
(* of callbacks, and about SmcT0, for every length and number of commands. *)
(***************************************************************************)
EXTENDS SmcStatus, SmcT0, TLAPS

(* SMC_FL_RUN_CB covers the callback from before dev->cb is read until     *)
(* after it has returned.                                                  *)
FlagCovers ==
  /\ stpc \in {"call", "in", "clear"} => runCbFlag
  /\ calledCb # NoCb => stpc = "in"

(* The thread exists while the device is open, and when it is told to end  *)
(* a client waits for that.                                                *)
ThreadJoined ==
  /\ ~openned => stpc = "none"
  /\ stpc # "none" /\ ~enableSt => \E c \in SmcClients : spc[c] = "join"

(* A client in AM_SMC_SetCallback keeps the device open.                   *)
SettersInside ==
  \A c \in SmcClients :
    spc[c] \in {"wait", "woken"} => openned /\ \A d \in SmcClients : spc[d] # "join"

NoneGone == statusCb \notin gone /\ calledCb \notin gone

(* The inductive invariant.                                                *)
SmcInv ==
  SmcStatusTypeOK /\ FlagCovers /\ ThreadJoined /\ SettersInside /\ NoneGone /\ NoSetterStuck

-----------------------------------------------------------------------------
LEMMA InitSmcInv == SmcStatusInit => SmcInv
BY SmcStatusAssumption
   DEF SmcStatusInit, SmcInv, SmcStatusTypeOK, FlagCovers, ThreadJoined, SettersInside, NoneGone,
       NoSetterStuck, Statuses

(* The steps of the status thread.                                         *)
LEMMA ThreadKeepsInv == ASSUME SmcInv, StatusThread PROVE SmcInv'
<1>. USE SmcStatusAssumption
     DEF SmcInv, SmcStatusTypeOK, FlagCovers, ThreadJoined, SettersInside, NoneGone, NoSetterStuck,
         smcDevice, Statuses
<1>1. CASE TestEnable      BY <1>1 DEF TestEnable
<1>2. CASE GetStatus       BY <1>2 DEF GetStatus
<1>3. CASE MarkRunCb       BY <1>3 DEF MarkRunCb
<1>4. CASE CallStatusCb    BY <1>4 DEF CallStatusCb
<1>5. CASE StatusCbReturns BY <1>5 DEF StatusCbReturns
<1>6. CASE UnmarkRunCb     BY <1>6 DEF UnmarkRunCb
<1>7. CASE WakeSetters     BY <1>7 DEF WakeSetters
<1>. QED BY <1>1, <1>2, <1>3, <1>4, <1>5, <1>6, <1>7 DEF StatusThread

(* The calls of the callback itself.                                       *)
LEMMA CallbackKeepsInv == ASSUME SmcInv, SetFromCb PROVE SmcInv'
BY SmcStatusAssumption
   DEF SetFromCb, SmcInv, SmcStatusTypeOK, FlagCovers, ThreadJoined, SettersInside, NoneGone,
       NoSetterStuck, Statuses

(* The calls of the clients.                                               *)
LEMMA ClientKeepsInv == ASSUME SmcInv, NEW c \in SmcClients, SmcClient(c) PROVE SmcInv'
<1>. USE SmcStatusAssumption
     DEF SmcInv, SmcStatusTypeOK, FlagCovers, ThreadJoined, SettersInside, NoneGone, NoSetterStuck,
         smcDevice, AdpFree
<1>1. CASE SmcOpen(c)   BY <1>1 DEF SmcOpen, Statuses
<1>2. CASE SmcClose(c)  BY <1>2 DEF SmcClose
<1>3. CASE SmcJoined(c) BY <1>3 DEF SmcJoined
<1>4. ASSUME NEW cb \in SmcCbs \cup {NoCb}, SetStatusCb(c, cb) PROVE SmcInv'
  <2>1. CASE runCbFlag  BY <1>4, <2>1 DEF SetStatusCb
  <2>2. CASE ~runCbFlag BY <1>4, <2>2 DEF SetStatusCb, Replace
  <2>. QED BY <2>1, <2>2
<1>5. CASE SetResume(c)
  <2>1. CASE runCbFlag  BY <1>5, <2>1 DEF SetResume
  <2>2. CASE ~runCbFlag BY <1>5, <2>2 DEF SetResume, Replace
  <2>. QED BY <2>1, <2>2
<1>. QED BY <1>1, <1>2, <1>3, <1>4, <1>5 DEF SmcClient

(* The invariant holds.                                                    *)
THEOREM SmcInvariant == SmcStatusSpec => []SmcInv
<1>1. SmcStatusInit => SmcInv BY InitSmcInv
<1>2. SmcInv /\ [SmcStatusNext]_smcVars => SmcInv'
  <2>1. ASSUME SmcInv, SmcStatusNext PROVE SmcInv'
    BY <2>1, ThreadKeepsInv, CallbackKeepsInv, ClientKeepsInv DEF SmcStatusNext
  <2>2. ASSUME SmcInv, UNCHANGED smcVars PROVE SmcInv'
    BY <2>2 DEF SmcInv, SmcStatusTypeOK, FlagCovers, ThreadJoined, SettersInside, NoneGone,
                NoSetterStuck, smcVars, smcDevice
  <2>. QED BY <2>1, <2>2
<1>. QED BY <1>1, <1>2, PTL DEF SmcStatusSpec

(* A callback that was replaced, or whose device was closed, is silent:    *)
(* a replaced one is not the one running, because the replacement waits    *)
(* for the flag, and the flag covers every call.                           *)
THEOREM ReplacedIsSilent == SmcStatusSpec => []ReplacedStatusSilent
<1>1. SmcInv => ReplacedStatusSilent
  BY DEF SmcInv, FlagCovers, ThreadJoined, NoneGone, ReplacedStatusSilent
<1>. QED BY <1>1, SmcInvariant, PTL

(* AM_SMC_SetCallback never waits for a broadcast that is over: the flag   *)
(* is reset in one critical section and the broadcast made after it.       *)
THEOREM NoWakeupIsLost == SmcStatusSpec => []NoSetterStuck
<1>1. SmcInv => NoSetterStuck BY DEF SmcInv
<1>. QED BY <1>1, SmcInvariant, PTL

(* How far the status thread is from its end, when it is told to end.      *)
SmcClosing == \E c \in SmcClients : spc[c] = "join"

SmcDistance ==
  CASE stpc \in {"none", "exit"} -> 0
    [] stpc = "test"             -> 1
    [] stpc = "wake"             -> 2
    [] stpc = "clear"            -> 3
    [] stpc = "in"               -> 4
    [] stpc = "call"             -> 5
    [] stpc = "mark"             -> 6
    [] stpc = "get"              -> 7

(* The client in AM_SMC_Close is alone, and the thread is told to end.     *)
SmcCloseInv ==
  /\ openned /\ enableSt => stpc # "none"
  /\ \A c \in SmcClients :
       spc[c] = "join" => /\ ~enableSt /\ openned /\ stpc # "none"
                          /\ \A d \in SmcClients \ {c} : spc[d] = "idle"

LEMMA NextKeepsSmcCloseInv ==
  ASSUME SmcInv, SmcCloseInv, [SmcStatusNext]_smcVars PROVE SmcCloseInv'
<1>. USE DEF SmcCloseInv, SmcInv, SmcStatusTypeOK, smcDevice, AdpFree
<1>1. CASE TestEnable      BY <1>1 DEF TestEnable
<1>2. CASE GetStatus       BY <1>2 DEF GetStatus
<1>3. CASE MarkRunCb       BY <1>3 DEF MarkRunCb
<1>4. CASE CallStatusCb    BY <1>4 DEF CallStatusCb
<1>5. CASE StatusCbReturns BY <1>5 DEF StatusCbReturns
<1>6. CASE UnmarkRunCb     BY <1>6 DEF UnmarkRunCb
<1>7. CASE WakeSetters     BY <1>7 DEF WakeSetters
<1>8. CASE SetFromCb       BY <1>8 DEF SetFromCb
<1>9. ASSUME NEW c \in SmcClients, SmcClient(c) PROVE SmcCloseInv'
  <2>1. CASE SmcOpen(c)    BY <2>1 DEF SmcOpen
  <2>2. CASE SmcClose(c)   BY <2>2 DEF SmcClose
  <2>3. CASE SmcJoined(c)  BY <2>3 DEF SmcJoined
  <2>4. ASSUME NEW cb \in SmcCbs \cup {NoCb}, SetStatusCb(c, cb) PROVE SmcCloseInv'
    BY <2>4 DEF SetStatusCb
  <2>5. CASE SetResume(c)  BY <2>5 DEF SetResume
  <2>. QED BY <1>9, <2>1, <2>2, <2>3, <2>4, <2>5 DEF SmcClient
<1>10. CASE UNCHANGED smcVars BY <1>10 DEF smcVars
<1>. QED BY <1>1, <1>2, <1>3, <1>4, <1>5, <1>6, <1>7, <1>8, <1>9, <1>10
     DEF SmcStatusNext, StatusThread

LEMMA SmcNothingDelays ==
  ASSUME SmcInv, SmcCloseInv, SmcClosing, [SmcStatusNext]_smcVars
  PROVE  SmcDistance' <= SmcDistance /\ (StatusThread => SmcDistance' < SmcDistance)
<1>0. PICK n : n = SmcDistance OBVIOUS
<1>1. n \in Nat BY <1>0 DEF SmcDistance, SmcInv, SmcStatusTypeOK
<1>2. stpc \notin {"none"} /\ ~enableSt BY DEF SmcClosing, SmcCloseInv
<1>3. CASE StatusThread
  <2>. USE DEF SmcDistance
  <2>1. CASE TestEnable      BY <1>2, <2>1 DEF TestEnable
  <2>2. CASE GetStatus       BY <2>2 DEF GetStatus
  <2>3. CASE MarkRunCb       BY <2>3 DEF MarkRunCb
  <2>4. CASE CallStatusCb    BY <2>4 DEF CallStatusCb
  <2>5. CASE StatusCbReturns BY <2>5 DEF StatusCbReturns
  <2>6. CASE UnmarkRunCb     BY <2>6 DEF UnmarkRunCb
  <2>7. CASE WakeSetters     BY <2>7 DEF WakeSetters
  <2>. QED BY <1>3, <2>1, <2>2, <2>3, <2>4, <2>5, <2>6, <2>7 DEF StatusThread
<1>4. ASSUME UNCHANGED stpc PROVE SmcDistance' <= SmcDistance /\ ~StatusThread
  <2>1. SmcDistance' = SmcDistance BY <1>4 DEF SmcDistance
  <2>2. ~StatusThread
    BY <1>2, <1>4 DEF StatusThread, TestEnable, GetStatus, MarkRunCb, CallStatusCb,
       StatusCbReturns, UnmarkRunCb, WakeSetters
  <2>. QED BY <1>0, <1>1, <2>1, <2>2
<1>5. ASSUME NEW c \in SmcClients, SmcClient(c), ~StatusThread
      PROVE  SmcDistance' <= SmcDistance
  <2>1. CASE SmcJoined(c)
    <3>1. SmcDistance' = 0 BY <2>1 DEF SmcJoined, SmcDistance
    <3>. QED BY <1>0, <1>1, <3>1
  <2>2. CASE ~SmcJoined(c)
    <3>1. ~SmcOpen(c) BY DEF SmcOpen, AdpFree, SmcClosing
    <3>2. UNCHANGED stpc
      BY <1>5, <2>2, <3>1 DEF SmcClient, SmcClose, SetStatusCb, SetResume
    <3>. QED BY <1>4, <3>2
  <2>. QED BY <2>1, <2>2
<1>6. CASE SetFromCb BY <1>4, <1>6 DEF SetFromCb
<1>7. CASE UNCHANGED smcVars BY <1>4, <1>7 DEF smcVars
<1>. QED BY <1>3, <1>5, <1>6, <1>7 DEF SmcStatusNext

(* While a client closes, the thread comes nearer, and nothing takes it    *)
(* further.                                                                *)
SmcCloseNears ==
  [][SmcClosing => /\ SmcDistance' <= SmcDistance
                   /\ StatusThread => SmcDistance' < SmcDistance]_smcVars

(* Meanwhile it is so many steps away at most, and none at its end only.   *)
SmcCloseBounded == SmcClosing => SmcDistance \in 0 .. 7 /\ (SmcDistance = 0 <=> stpc = "exit")

(* AM_SMC_Close joins the status thread with am_gAdpLock held: no call, of *)
(* a client or of the callback, takes the thread further from its end, and *)
(* it has seven steps to make at most.                                     *)
THEOREM CloseComesNearer == SmcStatusSpec => []SmcCloseBounded /\ SmcCloseNears
<1>1. SmcStatusInit => SmcCloseInv BY DEF SmcStatusInit, SmcCloseInv
<1>2. SmcInv /\ SmcCloseInv /\ [SmcStatusNext]_smcVars => SmcCloseInv'
  BY NextKeepsSmcCloseInv
<1>3. SmcInv /\ SmcCloseInv => SmcCloseBounded
  BY DEF SmcInv, SmcStatusTypeOK, SmcCloseInv, SmcClosing, SmcCloseBounded, SmcDistance
<1>4. SmcInv /\ SmcCloseInv /\ [SmcStatusNext]_smcVars
        => [SmcClosing => /\ SmcDistance' <= SmcDistance
                          /\ StatusThread => SmcDistance' < SmcDistance]_smcVars
  BY SmcNothingDelays
<1>. QED BY <1>1, <1>2, <1>3, <1>4, SmcInvariant, PTL DEF SmcStatusSpec, SmcCloseNears

-----------------------------------------------------------------------------
(* SmcT0.  The line as the host will hear it: cnt[i] counts the data of    *)
(* the command read so far and in the first i bytes of the line.           *)

(* After position i m bytes of data follow, and no more.                   *)
Block(cnt, i, m) ==
  /\ i + m <= Len(line)
  /\ \A d \in 1 .. m : line[i + d] = Datum(command.no, cnt[i] + d) /\ cnt[i + d] = cnt[i] + d
  /\ i + m < Len(line) => line[i + m + 1].is # "data"

DatumAt(cnt, i) ==
  \/ line[i] = Datum(command.no, cnt[i]) /\ cnt[i] = cnt[i - 1] + 1
  \/ /\ line[i] \in {NullByte(command.no), Ack(command.no), AckOne(command.no),
                     SW1(command.no), SW2(command.no)}
     /\ cnt[i] = cnt[i - 1]

(* What a byte promises of those that follow it.                           *)
Formed(cnt, i) ==
  /\ line[i].is = "null" => Block(cnt, i, 0)
  /\ line[i].is = "one" => command.reads /\ Block(cnt, i, 1)
  /\ line[i].is = "ack" /\ command.reads => cnt[i] < command.n /\ Block(cnt, i, command.n - cnt[i])
  /\ line[i].is = "ack" /\ ~command.reads => chip.wants /\ i = Len(line)
  /\ line[i].is = "sw1" => ~chip.on /\ i + 1 = Len(line) /\ line[i + 1].is = "sw2"
  /\ line[i].is = "sw2" => i > 1 /\ line[i - 1].is = "sw1"

(* What the last byte heard has promised.                                  *)
Heard(cnt) ==
  /\ hpc = "procedure" => Block(cnt, 0, 0)
  /\ hpc = "one" => command.reads /\ Block(cnt, 0, 1)
  /\ hpc = "all" => command.reads /\ Len(rx) < command.n /\ Block(cnt, 0, command.n - Len(rx))

Answer(cnt) ==
  /\ cnt[0] = Len(rx) /\ cnt[Len(line)] = chip.sent
  /\ \A i \in 1 .. Len(line) : DatumAt(cnt, i) /\ Formed(cnt, i)
  /\ Heard(cnt)

Answering == \E cnt \in [0 .. Len(line) -> 0 .. command.n] : Answer(cnt)

(* The data of a write command: still with the host, or with the card.     *)
Delivery ==
  IF command.reads THEN tx = <<>> /\ chip.got = <<>> /\ ~chip.wants
  ELSE \/ tx = Data(command.no, command.n) /\ chip.got = <<>>
       \/ tx = <<>> /\ chip.got = Data(command.no, command.n) /\ ~chip.wants

Status(no) == <<SW1(no), SW2(no)>>

AtStart ==
  hpc = "header" =>
    /\ ~chip.on /\ line = <<>> /\ rx = <<>>
    /\ rxlen = IF command.reads THEN command.n ELSE 0
    /\ tx = IF command.reads THEN <<>> ELSE Data(command.no, command.n)

During ==
  hpc \in {"procedure", "one", "all"} =>
    /\ rx = Data(command.no, Len(rx))
    /\ command.reads /\ Len(rx) < command.n => rxlen = command.n - Len(rx)
    /\ Answering

AtEnd ==
  /\ hpc = "sw2" => /\ ~chip.on /\ line = <<SW2(command.no)>>
                    /\ rx = Data(command.no, chip.sent) \o <<SW1(command.no)>>
  /\ hpc = "idle" =>
       /\ ~chip.on /\ line = <<>>
       /\ command.no > 0 => rx = Data(command.no, chip.sent) \o Status(command.no)

Engaged ==
  hpc \in {"procedure", "one", "all", "sw2"} =>
    chip.no = command.no /\ chip.reads = command.reads /\ chip.n = command.n /\ Delivery

InStep ==
  /\ hpc = "idle" \/ command.n > 0
  /\ AtStart /\ During /\ AtEnd /\ Engaged
  /\ chip.got # <<>> => chip.got = Data(chip.no, chip.n)

T0Inv == T0TypeOK /\ (~overdue => InStep)

LEMMA DataBytes ==
  ASSUME NEW no \in 0 .. MaxCommands, NEW n \in 0 .. MaxData
  PROVE  /\ Data(no, n) \in Seq(Octets) /\ Len(Data(no, n)) = n
         /\ \A k \in 1 .. n : Data(no, n)[k] = Datum(no, k) /\ Datum(no, k) \in Octets
         /\ Status(no) \in Seq(Octets) /\ Len(Status(no)) = 2
         /\ Status(no)[1] = SW1(no) /\ Status(no)[2] = SW2(no)
         /\ {NullByte(no), Ack(no), AckOne(no), SW1(no), SW2(no)} \subseteq Octets
<1>1. {NullByte(no), Ack(no), AckOne(no), SW1(no), SW2(no)} \subseteq Octets
  BY SmcT0Assumption DEF NullByte, Ack, AckOne, SW1, SW2, Octets
<1>2. \A k \in 1 .. n : Datum(no, k) \in Octets BY SmcT0Assumption DEF Datum, Octets
<1>3. Data(no, n) \in Seq(Octets) /\ Len(Data(no, n)) = n BY <1>2, SmcT0Assumption DEF Data
<1>4. Status(no) \in Seq(Octets) /\ Len(Status(no)) = 2
      /\ Status(no)[1] = SW1(no) /\ Status(no)[2] = SW2(no)
  BY <1>1 DEF Status
<1>. QED BY <1>1, <1>2, <1>3, <1>4 DEF Data

Chips ==
  [on : BOOLEAN, no : 0 .. MaxCommands, reads : BOOLEAN, n : 0 .. MaxData,
   nulls : 0 .. MaxNull, sent : 0 .. MaxData, got : Seq(Octets), wants : BOOLEAN]

LEMMA InitT0Inv == T0Init => T0Inv
<1>. SUFFICES ASSUME T0Init PROVE T0Inv OBVIOUS
<1>1. T0TypeOK
  <2>1. /\ <<>> \in Seq(Octets) /\ 0 \in 0 .. MaxCommands /\ 0 \in 0 .. MaxData /\ 0 \in 0 .. MaxNull
        /\ 0 \in 0 .. 255
    BY SmcT0Assumption
  <2>2. chip \in Chips BY <2>1 DEF T0Init, Chips
  <2>3. command \in [no : 0 .. MaxCommands, reads : BOOLEAN, n : 0 .. MaxData]
    BY <2>1 DEF T0Init
  <2>. QED BY <2>1, <2>2, <2>3 DEF T0Init, T0TypeOK, Chips
<1>2. InStep BY DEF T0Init, InStep, AtStart, During, AtEnd, Engaged
<1>. QED BY <1>1, <1>2 DEF T0Inv

(* The steps keep the types.                                               *)
LEMMA NextKeepsT0TypeOK == ASSUME T0TypeOK, T0Next PROVE T0TypeOK'
<1>a. tx \in Seq(Octets) /\ rx \in Seq(Octets) /\ line \in Seq(Octets)
      /\ <<>> \in Seq(Octets)
  BY DEF T0TypeOK
<1>b. /\ chip.no \in 0 .. MaxCommands /\ chip.n \in 0 .. MaxData /\ chip.sent \in 0 .. MaxData
      /\ MaxData \in 0 .. 255 /\ MaxCommands \in Nat
  BY SmcT0Assumption DEF T0TypeOK
<1>0. /\ chip \in Chips /\ tx \in Seq(Octets) /\ rx \in Seq(Octets) /\ line \in Seq(Octets)
      /\ hpc \in {"idle", "header", "procedure", "sw2", "all", "one"} /\ rxlen \in 0 .. 255
      /\ chip.no \in 0 .. MaxCommands /\ chip.n \in 0 .. MaxData /\ chip.sent \in 0 .. MaxData
      /\ chip.nulls \in 0 .. MaxNull /\ chip.got \in Seq(Octets)
      /\ command.no \in 0 .. MaxCommands /\ command.n \in 0 .. MaxData /\ command.reads \in BOOLEAN
      /\ MaxData \in 0 .. 255 /\ MaxCommands \in Nat /\ MaxNull \in Nat
  BY SmcT0Assumption DEF T0TypeOK, Chips
<1>01. /\ \A v \in 0 .. MaxData : [chip EXCEPT !.sent = v] \in Chips
       /\ \A v \in 0 .. MaxNull : [chip EXCEPT !.nulls = v] \in Chips
       /\ [chip EXCEPT !.wants = TRUE] \in Chips /\ [chip EXCEPT !.on = FALSE] \in Chips
       /\ \A v \in Seq(Octets) : [chip EXCEPT !.got = v, !.wants = FALSE] \in Chips
  BY <1>0, SmcT0Assumption DEF Chips
<1>02. ASSUME chip' \in Chips, line' \in Seq(Octets), UNCHANGED <<command, hpc, rxlen, tx, rx, overdue>>
       PROVE  T0TypeOK'
  BY <1>02 DEF T0TypeOK, Chips
<1>1. CASE CardNull
  <2>1. NullByte(chip.no) \in Octets BY <1>0, DataBytes
  <2>2. chip.nulls + 1 \in 0 .. MaxNull BY <1>0, <1>1 DEF CardNull
  <2>3. chip' \in Chips BY <1>01, <1>1, <2>2 DEF CardNull
  <2>4. line' \in Seq(Octets) BY <1>0, <1>1, <2>1 DEF CardNull
  <2>. QED BY <1>02, <1>1, <2>3, <2>4 DEF CardNull
<1>2. CASE CardSendsAll
  <2>1. Data(chip.no, chip.n) \in Seq(Octets) /\ Len(Data(chip.no, chip.n)) = chip.n
        /\ Ack(chip.no) \in Octets
    BY <1>b, DataBytes
  <2>2. SubSeq(Data(chip.no, chip.n), chip.sent + 1, chip.n) \in Seq(Octets)
    <3>1. chip.sent + 1 \in 1 .. chip.n BY <1>0, <1>2 DEF CardSendsAll
    <3>. QED BY <1>0, <2>1, <3>1
  <2>3. line' \in Seq(Octets) BY <1>0, <1>2, <2>1, <2>2 DEF CardSendsAll
  <2>4. chip' \in Chips BY <1>0, <1>01, <1>2 DEF CardSendsAll
  <2>. QED BY <1>02, <1>2, <2>3, <2>4 DEF CardSendsAll
<1>3. CASE CardSendsOne
  <2>1. chip.sent + 1 \in 1 .. chip.n /\ chip.sent + 1 \in 0 .. MaxData
    <3>1. chip.sent < chip.n BY <1>3 DEF CardSendsOne
    <3>. QED BY <1>b, <3>1
  <2>2. AckOne(chip.no) \in Octets /\ Datum(chip.no, chip.sent + 1) \in Octets
    BY <1>0, <2>1, DataBytes
  <2>3. line' \in Seq(Octets) BY <1>0, <1>3, <2>2 DEF CardSendsOne
  <2>4. chip' \in Chips BY <1>01, <1>3, <2>1 DEF CardSendsOne
  <2>. QED BY <1>02, <1>3, <2>3, <2>4 DEF CardSendsOne
<1>4. CASE CardAsksAll
  <2>1. Ack(chip.no) \in Octets BY <1>0, DataBytes
  <2>2. line' \in Seq(Octets) BY <1>0, <1>4, <2>1 DEF CardAsksAll
  <2>3. chip' \in Chips BY <1>01, <1>4 DEF CardAsksAll
  <2>. QED BY <1>02, <1>4, <2>2, <2>3 DEF CardAsksAll
<1>5. CASE CardEnds
  <2>1. SW1(chip.no) \in Octets /\ SW2(chip.no) \in Octets BY <1>0, DataBytes
  <2>2. line' \in Seq(Octets) BY <1>0, <1>5, <2>1 DEF CardEnds
  <2>3. chip' \in Chips BY <1>01, <1>5 DEF CardEnds
  <2>. QED BY <1>02, <1>5, <2>2, <2>3 DEF CardEnds
<1>6. CASE TransferBegin
  <2>1. PICK reads \in BOOLEAN, n \in 1 .. MaxData :
          /\ command' = [no |-> command.no + 1, reads |-> reads, n |-> n]
          /\ rxlen' = IF reads THEN n ELSE 0
          /\ tx' = IF reads THEN <<>> ELSE Data(command.no + 1, n)
    BY <1>6 DEF TransferBegin
  <2>2. Data(command.no + 1, n) \in Seq(Octets) BY <1>0, <1>6, DataBytes DEF TransferBegin
  <2>3. tx' \in Seq(Octets) BY <2>1, <2>2
  <2>4. rxlen' \in 0 .. 255 BY <1>0, <2>1
  <2>5. command' \in [no : 0 .. MaxCommands, reads : BOOLEAN, n : 0 .. MaxData]
    <3>1. command.no + 1 \in 0 .. MaxCommands /\ n \in 0 .. MaxData
      BY <1>0, <1>6 DEF TransferBegin
    <3>. QED BY <2>1, <3>1
  <2>. QED BY <1>6, <2>3, <2>4, <2>5 DEF TransferBegin, T0TypeOK
<1>7. CASE SendHeader
  <2>1. 0 \in 0 .. MaxNull /\ 0 \in 0 .. MaxData /\ <<>> \in Seq(Octets) BY <1>0
  <2>2. chip' \in Chips BY <1>0, <1>7, <2>1 DEF SendHeader, Chips
  <2>. QED BY <1>7, <2>2 DEF SendHeader, T0TypeOK, Chips
<1>8. CASE ReadProcedure
  <2>1. Tail(line) \in Seq(Octets) /\ Head(line) \in Octets BY <1>0, <1>8 DEF ReadProcedure
  <2>2. rx' = rx \/ rx' = Append(rx, Head(line)) BY <1>8 DEF ReadProcedure
  <2>3. rx' \in Seq(Octets) BY <1>a, <2>1, <2>2
  <2>4. tx' = tx \/ tx' = <<>> BY <1>8 DEF ReadProcedure
  <2>5. hpc' = hpc \/ hpc' \in {"sw2", "all", "one", "idle"} BY <1>8 DEF ReadProcedure
  <2>6. chip' \in Chips
    <3>1. chip' = chip \/ chip' = [chip EXCEPT !.got = @ \o tx, !.wants = FALSE]
      BY <1>8 DEF ReadProcedure
    <3>2. chip.got \o tx \in Seq(Octets) BY <1>0
    <3>. QED BY <1>0, <1>01, <3>1, <3>2
  <2>7. tx' \in Seq(Octets) BY <1>a, <2>4
  <2>8. hpc' \in {"idle", "header", "procedure", "sw2", "all", "one"} BY <1>0, <2>5
  <2>9. line' \in Seq(Octets) /\ UNCHANGED <<command, rxlen, overdue>>
    BY <1>8, <2>1 DEF ReadProcedure
  <2>. QED BY <2>3, <2>6, <2>7, <2>8, <2>9 DEF T0TypeOK, Chips
<1>9. CASE ReadAll
  <2>1. SubSeq(line, 1, rxlen) \in Seq(Octets) /\ SubSeq(line, rxlen + 1, Len(line)) \in Seq(Octets)
    BY <1>0, <1>9 DEF ReadAll
  <2>2. rx' \in Seq(Octets) /\ line' \in Seq(Octets) BY <1>0, <1>9, <2>1 DEF ReadAll
  <2>. QED BY <1>9, <2>2 DEF ReadAll, T0TypeOK
<1>10. CASE ReadOne 
  <2>1. Head(line) \in Octets /\ Tail(line) \in Seq(Octets) BY <1>0, <1>10 DEF ReadOne
  <2>2. rx' \in Seq(Octets) BY <1>0, <1>10, <2>1 DEF ReadOne
  <2>3. rxlen' \in 0 .. 255 BY <1>0, <1>10 DEF ReadOne
  <2>. QED BY <1>10, <2>1, <2>2, <2>3 DEF ReadOne, T0TypeOK
<1>11. CASE ReadSW2 
  <2>1. Head(line) \in Octets /\ Tail(line) \in Seq(Octets) BY <1>0, <1>11 DEF ReadSW2
  <2>2. rx' \in Seq(Octets) BY <1>0, <1>11, <2>1 DEF ReadSW2
  <2>. QED BY <1>11, <2>1, <2>2 DEF ReadSW2, T0TypeOK
<1>12. CASE ReadTimesOut
  <2>1. line' = line \/ line' = <<>> BY <1>12 DEF ReadTimesOut
  <2>2. line' \in Seq(Octets) BY <1>a, <2>1
  <2>. QED BY <1>12, <2>2 DEF ReadTimesOut, T0TypeOK
<1>. QED BY <1>1, <1>2, <1>3, <1>4, <1>5, <1>6, <1>7, <1>8, <1>9, <1>10, <1>11, <1>12 DEF T0Next

-----------------------------------------------------------------------------
(* What the card adds to the line begins with a byte that is no data, so   *)
(* it keeps what the bytes before have promised.                           *)
LEMMA LineGrows ==
  ASSUME T0TypeOK, UNCHANGED command, chip.on, ~chip.wants,
         NEW t \in Seq(Octets), t # <<>>, t[1].is # "data", line' = line \o t,
         NEW cnt \in [0 .. Len(line) -> 0 .. command.n], NEW cnt2,
         \A i \in 0 .. Len(line) : cnt2[i] = cnt[i]
  PROVE  /\ \A i \in 0 .. Len(line), m \in Nat : Block(cnt, i, m) => Block(cnt2, i, m)'
         /\ \A i \in 1 .. Len(line) : DatumAt(cnt, i) => DatumAt(cnt2, i)'
         /\ \A i \in 1 .. Len(line) : Formed(cnt, i) => Formed(cnt2, i)'
<1>1. /\ Len(line) \in Nat /\ Len(t) \in Nat /\ Len(t) > 0 /\ Len(line') = Len(line) + Len(t)
      /\ \A i \in 1 .. Len(line) : line'[i] = line[i]
      /\ line'[Len(line) + 1] = t[1] /\ command.n \in Nat
  BY SmcT0Assumption DEF T0TypeOK
<1>2. ASSUME NEW i \in 0 .. Len(line), NEW m \in Nat, Block(cnt, i, m)
      PROVE  Block(cnt2, i, m)'
  <2>1. i + m <= Len(line) /\ i + m <= Len(line') BY <1>1, <1>2 DEF Block
  <2>2. ASSUME NEW d \in 1 .. m
        PROVE  line'[i + d] = Datum(command.no, cnt2[i] + d) /\ cnt2[i + d] = cnt2[i] + d
    <3>1. i + d \in 1 .. Len(line) /\ i + d \in 0 .. Len(line) BY <1>1, <2>1
    <3>2. line[i + d] = Datum(command.no, cnt[i] + d) /\ cnt[i + d] = cnt[i] + d
      BY <1>2 DEF Block
    <3>. QED BY <1>1, <3>1, <3>2
  <2>3. ASSUME i + m < Len(line') PROVE line'[i + m + 1].is # "data"
    <3>1. CASE i + m = Len(line) BY <1>1, <3>1
    <3>2. CASE i + m < Len(line)
      <4>1. i + m + 1 \in 1 .. Len(line) BY <1>1, <3>2
      <4>2. line[i + m + 1].is # "data" BY <1>2, <3>2 DEF Block
      <4>. QED BY <1>1, <4>1, <4>2
    <3>. QED BY <1>1, <2>1, <3>1, <3>2
  <2>. QED BY <2>1, <2>2, <2>3 DEF Block
<1>3. ASSUME NEW i \in 1 .. Len(line), DatumAt(cnt, i) PROVE DatumAt(cnt2, i)'
  <2>1. i \in 0 .. Len(line) /\ i - 1 \in 0 .. Len(line) BY <1>1
  <2>. QED BY <1>1, <1>3, <2>1 DEF DatumAt
<1>4. ASSUME NEW i \in 1 .. Len(line), Formed(cnt, i) PROVE Formed(cnt2, i)'
  <2>1. i \in 0 .. Len(line) /\ cnt[i] \in 0 .. command.n /\ 0 \in Nat /\ 1 \in Nat
        /\ command.n - cnt[i] \in Nat /\ line'[i] = line[i] /\ cnt2[i] = cnt[i]
    BY <1>1
  <2>2. /\ Block(cnt, i, 0) => Block(cnt2, i, 0)'
        /\ Block(cnt, i, 1) => Block(cnt2, i, 1)'
        /\ Block(cnt, i, command.n - cnt[i]) => Block(cnt2, i, command.n - cnt[i])'
    BY <1>2, <2>1
  <2>3. line'[i].is = "null" => Block(cnt2, i, 0)'
    <3>1. line[i].is = "null" => Block(cnt, i, 0) BY <1>4 DEF Formed
    <3>. QED BY <2>1, <2>2, <3>1
  <2>4. line'[i].is = "one" => command'.reads /\ Block(cnt2, i, 1)'
    <3>1. line[i].is = "one" => command.reads /\ Block(cnt, i, 1) BY <1>4 DEF Formed
    <3>. QED BY <2>1, <2>2, <3>1
  <2>5. line'[i].is = "ack" /\ command'.reads =>
          cnt2[i] < command'.n /\ Block(cnt2, i, command.n - cnt2[i])'
    <3>1. line[i].is = "ack" /\ command.reads => cnt[i] < command.n /\ Block(cnt, i, command.n - cnt[i])
      BY <1>4 DEF Formed
    <3>. QED BY <2>1, <2>2, <3>1
  <2>6. ~(line'[i].is = "ack" /\ ~command'.reads) /\ line'[i].is # "sw1"
    BY <1>4, <2>1 DEF Formed
  <2>7. line'[i].is = "sw2" => i > 1 /\ line'[i - 1].is = "sw1"
    <3>1. i > 1 => line'[i - 1] = line[i - 1] BY <1>1
    <3>. QED BY <1>4, <2>1, <3>1 DEF Formed
  <2>. QED BY <2>3, <2>4, <2>5, <2>6, <2>7 DEF Formed
<1>. QED BY <1>2, <1>3, <1>4

(* What the host takes from the line leaves the rest as it was promised.   *)
LEMMA LineShrinks ==
  ASSUME T0TypeOK, UNCHANGED command, chip'.on = chip.on, chip'.wants = chip.wants,
         NEW s \in 1 .. Len(line), line[s].is # "sw1",
         line' = SubSeq(line, s + 1, Len(line)),
         NEW cnt \in [0 .. Len(line) -> 0 .. command.n],
         NEW cnt2, cnt2 = [i \in 0 .. Len(line) - s |-> cnt[i + s]]
  PROVE  /\ \A i \in 0 .. Len(line) - s, m \in Nat : Block(cnt, i + s, m) => Block(cnt2, i, m)'
         /\ \A i \in 1 .. Len(line) - s : DatumAt(cnt, i + s) => DatumAt(cnt2, i)'
         /\ \A i \in 1 .. Len(line) - s : Formed(cnt, i + s) => Formed(cnt2, i)'
<1>a. line \in Seq(Octets) /\ Len(line) \in Nat /\ command.n \in Nat
  BY SmcT0Assumption DEF T0TypeOK
<1>b. Len(line') = Len(line) - s BY <1>a
<1>1. /\ Len(line) \in Nat /\ Len(line') = Len(line) - s
      /\ \A i \in 1 .. Len(line) - s : line'[i] = line[i + s]
      /\ command.n \in Nat
  BY <1>a, <1>b
<1>0. \A i \in 0 .. Len(line) - s : cnt2[i] = cnt[i + s] OBVIOUS
<1>2. ASSUME NEW i \in 0 .. Len(line) - s, NEW m \in Nat, Block(cnt, i + s, m)
      PROVE  Block(cnt2, i, m)'
  <2>1. i + m <= Len(line') /\ cnt2[i] = cnt[i + s] BY <1>0, <1>1, <1>2 DEF Block
  <2>2. ASSUME NEW d \in 1 .. m
        PROVE  line'[i + d] = Datum(command.no, cnt2[i] + d) /\ cnt2[i + d] = cnt2[i] + d
    <3>1. i + d \in 1 .. Len(line) - s /\ i + d \in 0 .. Len(line) - s /\ (i + d) + s = (i + s) + d
      BY <1>a, <1>b, <2>1
    <3>2. line[(i + s) + d] = Datum(command.no, cnt[i + s] + d) /\ cnt[(i + s) + d] = cnt[i + s] + d
      BY <1>2 DEF Block
    <3>3. line'[i + d] = line[(i + s) + d] BY <1>1, <3>1
    <3>4. cnt2[i + d] = cnt[(i + s) + d] BY <1>0, <3>1
    <3>. QED BY <2>1, <3>2, <3>3, <3>4
  <2>3. ASSUME i + m < Len(line') PROVE line'[i + m + 1].is # "data"
    <3>1. i + m + 1 \in 1 .. Len(line) - s /\ (i + m + 1) + s = (i + s) + m + 1
      BY <1>1, <2>3
    <3>2. line[(i + s) + m + 1].is # "data" BY <1>1, <1>2, <2>3 DEF Block
    <3>3. line'[i + m + 1] = line[(i + s) + m + 1] BY <1>1, <3>1
    <3>. QED BY <3>2, <3>3
  <2>. QED BY <2>1, <2>2, <2>3 DEF Block
<1>3. ASSUME NEW i \in 1 .. Len(line) - s, DatumAt(cnt, i + s) PROVE DatumAt(cnt2, i)'
  <2>1. i \in 0 .. Len(line) - s /\ i - 1 \in 0 .. Len(line) - s /\ (i - 1) + s = (i + s) - 1
    BY <1>1
  <2>2. cnt2[i] = cnt[i + s] /\ cnt2[i - 1] = cnt[(i + s) - 1] /\ line'[i] = line[i + s]
    BY <1>0, <1>1, <2>1
  <2>. QED BY <1>3, <2>2 DEF DatumAt
<1>4. ASSUME NEW i \in 1 .. Len(line) - s, Formed(cnt, i + s) PROVE Formed(cnt2, i)'
  <2>1. i \in 0 .. Len(line) - s /\ cnt[i + s] \in 0 .. command.n /\ 0 \in Nat /\ 1 \in Nat
        /\ command.n - cnt[i + s] \in Nat /\ line'[i] = line[i + s] /\ cnt2[i] = cnt[i + s]
    <3>1. i \in 0 .. Len(line) - s /\ i + s \in 0 .. Len(line) BY <1>a
    <3>2. cnt[i + s] \in 0 .. command.n BY <3>1
    <3>3. command.n - cnt[i + s] \in Nat
      <4>1. PICK n \in Nat : n = command.n BY <1>1
      <4>2. PICK c \in 0 .. n : c = cnt[i + s] BY <3>2, <4>1
      <4>. QED BY <4>1, <4>2
    <3>4. line'[i] = line[i + s] BY <1>1
    <3>5. cnt2[i] = cnt[i + s] BY <1>0, <3>1
    <3>. QED BY <3>1, <3>2, <3>3, <3>4, <3>5
  <2>2. /\ Block(cnt, i + s, 0) => Block(cnt2, i, 0)'
        /\ Block(cnt, i + s, 1) => Block(cnt2, i, 1)'
        /\ Block(cnt, i + s, command.n - cnt[i + s]) => Block(cnt2, i, command.n - cnt[i + s])'
    BY <1>2, <2>1
  <2>3. line'[i].is = "null" => Block(cnt2, i, 0)'
    <3>1. line[i + s].is = "null" => Block(cnt, i + s, 0) BY <1>4 DEF Formed
    <3>. QED BY <2>1, <2>2, <3>1
  <2>4. line'[i].is = "one" => command'.reads /\ Block(cnt2, i, 1)'
    <3>1. line[i + s].is = "one" => command.reads /\ Block(cnt, i + s, 1) BY <1>4 DEF Formed
    <3>. QED BY <2>1, <2>2, <3>1
  <2>5. line'[i].is = "ack" /\ command'.reads =>
          cnt2[i] < command'.n /\ Block(cnt2, i, command.n - cnt2[i])'
    <3>1. line[i + s].is = "ack" /\ command.reads =>
            cnt[i + s] < command.n /\ Block(cnt, i + s, command.n - cnt[i + s])
      BY <1>4 DEF Formed
    <3>. QED BY <2>1, <2>2, <3>1
  <2>6. line'[i].is = "ack" /\ ~command'.reads => chip'.wants /\ i = Len(line')
    <3>1. line[i + s].is = "ack" /\ ~command.reads => chip.wants /\ i + s = Len(line)
      BY <1>4 DEF Formed
    <3>2. i + s = Len(line) => i = Len(line') BY <1>a, <1>b
    <3>. QED BY <2>1, <3>1, <3>2
  <2>7. line'[i].is = "sw1" => ~chip'.on /\ i + 1 = Len(line') /\ line'[i + 1].is = "sw2"
    <3>1. line[i + s].is = "sw1" =>
            ~chip.on /\ (i + s) + 1 = Len(line) /\ line[(i + s) + 1].is = "sw2"
      BY <1>4 DEF Formed
    <3>2. ASSUME (i + s) + 1 = Len(line) PROVE i + 1 = Len(line') /\ line'[i + 1] = line[(i + s) + 1]
      <4>1. i + 1 \in 1 .. Len(line) - s /\ (i + 1) + s = (i + s) + 1 BY <1>1, <3>2
      <4>. QED BY <1>1, <3>2, <4>1
    <3>. QED BY <2>1, <3>1, <3>2
  <2>8. line'[i].is = "sw2" => i > 1 /\ line'[i - 1].is = "sw1"
    <3>1. line[i + s].is = "sw2" => line[(i + s) - 1].is = "sw1" BY <1>4 DEF Formed
    <3>2. CASE i = 1
      <4>1. (i + s) - 1 = s BY <3>2
      <4>. QED BY <2>1, <3>1, <4>1
    <3>3. CASE i > 1
      <4>1. i - 1 \in 1 .. Len(line) - s /\ (i - 1) + s = (i + s) - 1 BY <1>1, <3>3
      <4>. QED BY <1>1, <2>1, <3>1, <3>3, <4>1
    <3>. QED BY <3>2, <3>3
  <2>. QED BY <2>3, <2>4, <2>5, <2>6, <2>7, <2>8 DEF Formed
<1>. QED BY <1>2, <1>3, <1>4

LEMMA AnswerGrows ==
  ASSUME T0TypeOK, hpc \in {"procedure", "one", "all"}, UNCHANGED <<command, hpc, rx>>,
         chip.on, ~chip.wants,
         NEW t \in Seq(Octets), t # <<>>, t[1].is # "data", line' = line \o t,
         NEW cnt \in [0 .. Len(line) -> 0 .. command.n], Answer(cnt),
         NEW cnt2 \in [0 .. Len(line) + Len(t) -> 0 .. command.n],
         \A i \in 0 .. Len(line) : cnt2[i] = cnt[i],
         cnt2[Len(line) + Len(t)] = chip'.sent,
         \A i \in Len(line) + 1 .. Len(line) + Len(t) : DatumAt(cnt2, i)' /\ Formed(cnt2, i)'
  PROVE  Answering'
<1>1. /\ Len(line) \in Nat /\ Len(t) \in Nat /\ Len(line') = Len(line) + Len(t)
      /\ command.n \in Nat /\ Len(rx) \in Nat
  BY SmcT0Assumption DEF T0TypeOK
<1>2. cnt2[0] = Len(rx') /\ cnt2[Len(line')] = chip'.sent
  <2>1. 0 \in 0 .. Len(line) BY <1>1
  <2>. QED BY <1>1, <2>1 DEF Answer
<1>3. ASSUME NEW i \in 1 .. Len(line') PROVE DatumAt(cnt2, i)' /\ Formed(cnt2, i)'
  <2>1. CASE i <= Len(line)
    <3>1. i \in 1 .. Len(line) BY <1>1, <2>1
    <3>2. DatumAt(cnt, i) /\ Formed(cnt, i) BY <3>1 DEF Answer
    <3>. QED BY <3>1, <3>2, LineGrows
  <2>2. CASE i > Len(line)
    <3>1. i \in Len(line) + 1 .. Len(line) + Len(t) BY <1>1, <2>2
    <3>. QED BY <3>1
  <2>. QED BY <1>1, <2>1, <2>2
<1>4. Heard(cnt2)'
  <2>1. \A m \in Nat : Block(cnt, 0, m) => Block(cnt2, 0, m)'
    <3>1. 0 \in 0 .. Len(line) BY <1>1
    <3>. QED BY <3>1, LineGrows
  <2>2. Block(cnt, 0, 0) => Block(cnt2, 0, 0)' BY <2>1
  <2>3. Block(cnt, 0, 1) => Block(cnt2, 0, 1)' BY <2>1
  <2>4. Len(rx) < command.n /\ Block(cnt, 0, command.n - Len(rx)) =>
          Block(cnt2, 0, command.n - Len(rx))'
    <3>1. Len(rx) < command.n => command.n - Len(rx) \in Nat BY <1>1
    <3>. QED BY <2>1, <3>1
  <2>5. hpc' = "procedure" => Block(cnt2, 0, 0)' BY <2>2 DEF Answer, Heard
  <2>6. hpc' = "one" => command'.reads /\ Block(cnt2, 0, 1)' BY <2>3 DEF Answer, Heard
  <2>7. hpc' = "all" =>
          command'.reads /\ Len(rx') < command'.n /\ Block(cnt2, 0, command.n - Len(rx))'
    BY <2>4 DEF Answer, Heard
  <2>. QED BY <2>5, <2>6, <2>7 DEF Heard
<1>5. Answer(cnt2)' BY <1>2, <1>3, <1>4 DEF Answer
<1>6. cnt2 \in [0 .. Len(line') -> 0 .. command'.n] BY <1>1
<1>. QED BY <1>5, <1>6 DEF Answering

(* While the card is on the host is in the middle of the transfer.         *)
LEMMA CardOn ==
  ASSUME T0TypeOK, InStep, chip.on
  PROVE  /\ hpc \in {"procedure", "one", "all"}
         /\ chip.no = command.no /\ chip.reads = command.reads /\ chip.n = command.n
         /\ Delivery /\ Answering
         /\ chip.no \in 0 .. MaxCommands /\ chip.n \in 0 .. MaxData /\ chip.sent \in 0 .. MaxData
         /\ line \in Seq(Octets) /\ Len(line) \in Nat /\ chip.got \in Seq(Octets)
<1>1. hpc \in {"procedure", "one", "all"} BY DEF InStep, AtStart, AtEnd, T0TypeOK
<1>2. /\ chip.no \in 0 .. MaxCommands /\ chip.n \in 0 .. MaxData /\ chip.sent \in 0 .. MaxData
      /\ chip.got \in Seq(Octets)
  BY DEF T0TypeOK
<1>3. line \in Seq(Octets) /\ Len(line) \in Nat BY DEF T0TypeOK
<1>. QED BY <1>1, <1>2, <1>3 DEF InStep, During, Engaged

(* What the card must keep for the two sides to stay in step.              *)
LEMMA CardKeepsInStep ==
  ASSUME T0TypeOK, InStep, chip.on, UNCHANGED <<command, hpc, rxlen, tx, rx>>,
         chip'.no = chip.no, chip'.reads = chip.reads, chip'.n = chip.n, chip'.got = chip.got,
         Answering', Delivery'
  PROVE  InStep'
<1>1. hpc \in {"procedure", "one", "all"} BY CardOn
<1>2. During' BY <1>1 DEF InStep, During
<1>3. AtStart' /\ AtEnd' BY <1>1 DEF AtStart, AtEnd
<1>4. Engaged' BY <1>1 DEF InStep, Engaged
<1>5. (hpc = "idle" \/ command.n > 0)' BY <1>1 DEF InStep
<1>6. (chip.got # <<>> => chip.got = Data(chip.no, chip.n))' BY DEF InStep, Data
<1>. QED BY <1>2, <1>3, <1>4, <1>5, <1>6 DEF InStep

(* A NULL byte, the demand for the data of a write command: one byte.      *)
LEMMA ByteKeepsInStep ==
  ASSUME T0TypeOK, InStep, CardNull \/ CardAsksAll PROVE InStep'
<1>1. PICK b \in {NullByte(command.no), Ack(command.no)} :
        /\ chip.on /\ ~chip.wants /\ line' = Append(line, b)
        /\ UNCHANGED <<command, hpc, rxlen, tx, rx>>
        /\ chip'.no = chip.no /\ chip'.reads = chip.reads /\ chip'.n = chip.n
        /\ chip'.got = chip.got /\ chip'.sent = chip.sent /\ chip'.on = chip.on
        /\ \/ b.is = "null" /\ chip'.wants = chip.wants
           \/ b.is = "ack" /\ ~chip.reads /\ chip'.wants /\ Len(chip.got) < chip.n
  <2>1. CASE CardNull
    <3>1. chip.on /\ ~chip.wants /\ chip.no = command.no BY <2>1, CardOn DEF CardNull
    <3>2. /\ chip'.no = chip.no /\ chip'.reads = chip.reads /\ chip'.n = chip.n
          /\ chip'.got = chip.got /\ chip'.sent = chip.sent /\ chip'.on = chip.on
          /\ chip'.wants = chip.wants
      BY <2>1 DEF CardNull, T0TypeOK
    <3>. QED BY <2>1, <3>1, <3>2 DEF CardNull, NullByte
  <2>2. CASE CardAsksAll
    <3>1. chip.on /\ ~chip.wants /\ chip.no = command.no /\ ~chip.reads /\ Len(chip.got) < chip.n
      BY <2>2, CardOn DEF CardAsksAll
    <3>2. /\ chip'.no = chip.no /\ chip'.reads = chip.reads /\ chip'.n = chip.n
          /\ chip'.got = chip.got /\ chip'.sent = chip.sent /\ chip'.on = chip.on /\ chip'.wants
      BY <2>2 DEF CardAsksAll, T0TypeOK
    <3>. QED BY <2>2, <3>1, <3>2 DEF CardAsksAll, Ack
  <2>. QED BY <2>1, <2>2
<1>2. /\ hpc \in {"procedure", "one", "all"} /\ chip.n = command.n /\ chip.reads = command.reads
      /\ chip.no = command.no /\ Delivery /\ Answering
      /\ command.no \in 0 .. MaxCommands /\ command.n \in 0 .. MaxData
      /\ line \in Seq(Octets) /\ Len(line) \in Nat
  BY <1>1, CardOn
<1>3. PICK cnt \in [0 .. Len(line) -> 0 .. command.n] : Answer(cnt) BY <1>2 DEF Answering
<1>4. PICK cnt2 : cnt2 = [i \in 0 .. Len(line) + 1 |-> IF i <= Len(line) THEN cnt[i] ELSE chip.sent]
  OBVIOUS
<1>5. PICK t : t = <<b>> OBVIOUS
<1>6. /\ t \in Seq(Octets) /\ t # <<>> /\ Len(t) = 1 /\ t[1] = b /\ line' = line \o t
      /\ Len(line') = Len(line) + 1 /\ line'[Len(line) + 1] = b
  <2>1. b \in Octets BY <1>2, DataBytes
  <2>. QED BY <1>1, <1>2, <1>5, <2>1
<1>7. chip.sent = cnt[Len(line)] /\ chip.sent \in 0 .. command.n
  <2>1. Len(line) \in 0 .. Len(line) BY <1>2
  <2>. QED BY <1>3, <2>1 DEF Answer
<1>8. /\ cnt2 \in [0 .. Len(line) + Len(t) -> 0 .. command.n]
      /\ \A i \in 0 .. Len(line) : cnt2[i] = cnt[i]
      /\ cnt2[Len(line) + 1] = chip.sent
  BY <1>2, <1>4, <1>6, <1>7
<1>0. PICK k : k = Len(line) + 1 OBVIOUS
<1>9. DatumAt(cnt2, k)'
  <2>1. cnt2[k] = cnt2[k - 1] BY <1>0, <1>2, <1>7, <1>8
  <2>. QED BY <1>0, <1>1, <1>6, <2>1 DEF DatumAt, NullByte, Ack
<1>10. Formed(cnt2, k)'
  <2>1. Block(cnt2, k, 0)'
    <3>1. k + 0 <= Len(line') /\ ~(k + 0 < Len(line')) BY <1>0, <1>2, <1>6
    <3>2. \A d \in 1 .. 0 : FALSE OBVIOUS
    <3>. QED BY <3>1, <3>2 DEF Block
  <2>2. line'[k] = b /\ k = Len(line') BY <1>0, <1>6
  <2>. QED BY <1>1, <1>2, <2>1, <2>2 DEF Formed
<1>11. Answering'
  <2>1. \A i \in Len(line) + 1 .. Len(line) + Len(t) : i = k BY <1>0, <1>2, <1>6
  <2>2. b.is # "data" BY <1>1
  <2>3. \A i \in Len(line) + 1 .. Len(line) + Len(t) : DatumAt(cnt2, i)' /\ Formed(cnt2, i)'
    BY <1>9, <1>10, <2>1
  <2>4. cnt2[Len(line) + Len(t)] = chip'.sent BY <1>1, <1>6, <1>8
  <2>. QED BY <1>1, <1>2, <1>3, <1>6, <1>8, <2>2, <2>3, <2>4, AnswerGrows
<1>12. Delivery'
  <2>1. CASE chip'.wants = chip.wants BY <1>1, <1>2, <2>1 DEF Delivery, Data
  <2>2. CASE ~chip.reads /\ Len(chip.got) < chip.n
    <3>1. chip.got # Data(command.no, command.n)
      <4>1. Len(Data(command.no, command.n)) = command.n BY <1>2, DataBytes
      <4>. QED BY <1>2, <2>2, <4>1
    <3>. QED BY <1>1, <1>2, <2>2, <3>1 DEF Delivery, Data
  <2>. QED BY <1>1, <2>1, <2>2
<1>. QED BY <1>1, <1>11, <1>12, CardKeepsInStep

(* The data of a read command: what remains of it, or a byte.              *)
LEMMA SendsKeepInStep ==
  ASSUME T0TypeOK, InStep, CardSendsAll \/ CardSendsOne PROVE InStep'
<1>1. /\ chip.on /\ chip.reads /\ chip.sent < chip.n /\ ~chip.wants /\ command.reads
      /\ UNCHANGED <<command, hpc, rxlen, tx, rx>>
      /\ chip'.no = chip.no /\ chip'.reads = chip.reads /\ chip'.n = chip.n
      /\ chip'.got = chip.got /\ chip'.on = chip.on /\ chip'.wants = chip.wants
  <2>1. /\ chip.on /\ chip.reads /\ chip.sent < chip.n
        /\ UNCHANGED <<command, hpc, rxlen, tx, rx>>
    BY DEF CardSendsAll, CardSendsOne
  <2>2. command.reads /\ ~chip.wants BY <2>1, CardOn DEF Delivery
  <2>3. /\ chip'.no = chip.no /\ chip'.reads = chip.reads /\ chip'.n = chip.n
        /\ chip'.got = chip.got /\ chip'.on = chip.on /\ chip'.wants = chip.wants
    BY DEF CardSendsAll, CardSendsOne, T0TypeOK
  <2>. QED BY <2>1, <2>2, <2>3
<1>2. /\ hpc \in {"procedure", "one", "all"} /\ chip.n = command.n /\ chip.reads = command.reads
      /\ chip.no = command.no /\ Delivery /\ Answering
      /\ command.no \in 0 .. MaxCommands /\ command.n \in 0 .. MaxData
      /\ chip.sent \in 0 .. command.n /\ MaxData \in Nat
      /\ line \in Seq(Octets) /\ Len(line) \in Nat
  <2>1. MaxData \in Nat BY SmcT0Assumption
  <2>. QED BY <1>1, <2>1, CardOn
<1>3. PICK m \in 1 .. command.n - chip.sent, a \in {Ack(command.no), AckOne(command.no)},
           t \in Seq(Octets) :
        /\ line' = line \o t /\ Len(t) = m + 1 /\ t[1] = a
        /\ \A d \in 1 .. m : t[d + 1] = Datum(command.no, chip.sent + d)
        /\ chip'.sent = chip.sent + m
        /\ \/ a.is = "ack" /\ m = command.n - chip.sent
           \/ a.is = "one" /\ m = 1
  <2>0. chip.sent \in 0 .. command.n /\ chip.sent < command.n /\ command.n \in Nat BY <1>1, <1>2
  <2>1. CASE CardSendsAll
    <3>1. PICK all : all = Data(command.no, command.n) OBVIOUS
    <3>2. /\ all \in Seq(Octets) /\ Len(all) = command.n /\ Ack(command.no) \in Octets
          /\ \A k \in 1 .. command.n : all[k] = Datum(command.no, k)
      BY <1>2, <3>1, DataBytes
    <3>3. PICK rest : rest = SubSeq(all, chip.sent + 1, command.n) OBVIOUS
    <3>4. /\ rest \in Seq(Octets) /\ Len(rest) = command.n - chip.sent
          /\ \A d \in 1 .. command.n - chip.sent : rest[d] = all[chip.sent + d]
      BY <2>0, <3>2, <3>3
    <3>5. \A d \in 1 .. command.n - chip.sent : rest[d] = Datum(command.no, chip.sent + d)
      <4>1. \A d \in 1 .. command.n - chip.sent : chip.sent + d \in 1 .. command.n BY <2>0
      <4>. QED BY <3>2, <3>4, <4>1
    <3>6. PICK t : t = <<Ack(command.no)>> \o rest OBVIOUS
    <3>7. /\ t \in Seq(Octets) /\ Len(t) = (command.n - chip.sent) + 1 /\ t[1] = Ack(command.no)
          /\ \A d \in 1 .. command.n - chip.sent : t[d + 1] = rest[d]
      BY <2>0, <3>2, <3>4, <3>6
    <3>8. line' = line \o t
      <4>1. line' = line \o <<Ack(command.no)>> \o rest
        BY <1>2, <2>1, <3>1, <3>3 DEF CardSendsAll
      <4>2. <<Ack(command.no)>> \in Seq(Octets) BY <3>2
      <4>. QED BY <1>2, <3>4, <3>6, <4>1, <4>2
    <3>9. chip'.sent = chip.sent + (command.n - chip.sent)
      <4>1. chip'.sent = command.n BY <1>2, <2>1 DEF CardSendsAll, T0TypeOK
      <4>. QED BY <2>0, <4>1
    <3>10. command.n - chip.sent \in 1 .. command.n - chip.sent BY <2>0
    <3>11. Ack(command.no).is = "ack" BY DEF Ack
    <3>. QED BY <3>5, <3>7, <3>8, <3>9, <3>10, <3>11
  <2>2. CASE CardSendsOne
    <3>1. AckOne(command.no) \in Octets /\ Datum(command.no, chip.sent + 1) \in Octets
      <4>1. chip.sent + 1 \in 1 .. command.n BY <2>0
      <4>. QED BY <1>2, <4>1, DataBytes
    <3>2. PICK t : t = <<AckOne(command.no), Datum(command.no, chip.sent + 1)>> OBVIOUS
    <3>3. /\ t \in Seq(Octets) /\ Len(t) = 2 /\ t[1] = AckOne(command.no)
          /\ t[2] = Datum(command.no, chip.sent + 1)
      BY <3>1, <3>2
    <3>4. line' = line \o t BY <1>2, <2>2, <3>2 DEF CardSendsOne
    <3>5. chip'.sent = chip.sent + 1 BY <2>2 DEF CardSendsOne, T0TypeOK
    <3>6. 1 \in 1 .. command.n - chip.sent BY <2>0
    <3>7. AckOne(command.no).is = "one" BY DEF AckOne
    <3>8. \A d \in 1 .. 1 : t[d + 1] = Datum(command.no, chip.sent + d) BY <3>3
    <3>9. Len(t) = 1 + 1 BY <3>3
    <3>. QED BY <3>3, <3>4, <3>5, <3>6, <3>7, <3>8, <3>9
  <2>. QED BY <2>1, <2>2
<1>4. PICK cnt \in [0 .. Len(line) -> 0 .. command.n] : Answer(cnt) BY <1>2 DEF Answering
<1>5. PICK k : k = Len(line) + 1 OBVIOUS
<1>6. PICK cnt2 : cnt2 = [i \in 0 .. Len(line) + (m + 1) |->
                            IF i <= Len(line) THEN cnt[i] ELSE chip.sent + (i - k)]
  OBVIOUS
<1>7. /\ command.n \in Nat /\ chip.sent \in Nat /\ m \in Nat /\ m > 0 /\ chip.sent + m <= command.n
      /\ Len(line) \in Nat /\ k = Len(line) + 1 /\ Len(t) = m + 1
  <2>1. MaxData \in Nat BY SmcT0Assumption
  <2>. QED BY <1>2, <1>3, <1>5, <2>1
<1>8. /\ k \in Nat /\ k > 0 /\ Len(line') = k + m /\ line'[k] = a
      /\ \A d \in 1 .. m : line'[k + d] = Datum(command.no, chip.sent + d)
  <2>0. line \in Seq(Octets) /\ t \in Seq(Octets) /\ line' = line \o t /\ t[1] = a
    BY <1>2, <1>3
  <2>1. Len(line') = k + m /\ line'[k] = a
    <3>1. Len(line') = Len(line) + Len(t) BY <2>0
    <3>2. k \in 1 .. Len(line) + Len(t) /\ ~(k <= Len(line)) /\ k - Len(line) = 1 BY <1>7
    <3>3. line'[k] = t[k - Len(line)] BY <2>0, <3>2
    <3>. QED BY <1>7, <2>0, <3>1, <3>2, <3>3
  <2>2. ASSUME NEW d \in 1 .. m PROVE line'[k + d] = Datum(command.no, chip.sent + d)
    <3>1. d + 1 \in 1 .. Len(t) /\ k + d = Len(line) + (d + 1) BY <1>7
    <3>2. line'[k + d] = t[d + 1] BY <1>7, <2>0, <3>1
    <3>. QED BY <1>3, <3>2
  <2>. QED BY <1>7, <2>1, <2>2
<1>9. chip.sent = cnt[Len(line)]
  BY <1>4 DEF Answer
<1>10. \A d \in 0 .. m : cnt2[k + d] = chip.sent + d
  <2>1. ASSUME NEW d \in 0 .. m PROVE cnt2[k + d] = chip.sent + d
    <3>1. k + d \in 0 .. Len(line) + (m + 1) /\ ~(k + d <= Len(line)) /\ (k + d) - k = d BY <1>7
    <3>. QED BY <1>6, <3>1
  <2>. QED BY <2>1
<1>11. /\ cnt2 \in [0 .. Len(line) + Len(t) -> 0 .. command.n]
       /\ \A i \in 0 .. Len(line) : cnt2[i] = cnt[i]
       /\ cnt2[Len(line) + Len(t)] = chip.sent + m
       /\ cnt2[k] = chip.sent
  <2>1. ASSUME NEW i \in 0 .. Len(line) + (m + 1)
        PROVE  (IF i <= Len(line) THEN cnt[i] ELSE chip.sent + (i - k)) \in 0 .. command.n
    <3>1. CASE i <= Len(line)
      <4>1. i \in 0 .. Len(line) BY <1>7, <3>1
      <4>. QED BY <1>4, <3>1, <4>1
    <3>2. CASE i > Len(line)
      <4>1. chip.sent + (i - k) \in 0 .. command.n /\ ~(i <= Len(line)) BY <1>7, <3>2
      <4>. QED BY <4>1
    <3>. QED BY <1>7, <3>1, <3>2
  <2>2. \A i \in 0 .. Len(line) : cnt2[i] = cnt[i] BY <1>6, <1>7
  <2>3. k + m = Len(line) + Len(t) /\ m \in 0 .. m /\ 0 \in 0 .. m /\ k + 0 = k BY <1>7
  <2>4. cnt2[Len(line) + Len(t)] = chip.sent + m BY <1>10, <2>3
  <2>5. cnt2[k] = chip.sent
    <3>1. cnt2[k + 0] = chip.sent + 0 BY <1>10, <2>3
    <3>. QED BY <1>7, <2>3, <3>1
  <2>. QED BY <1>6, <1>7, <2>1, <2>2, <2>4, <2>5
<1>12. Block(cnt2, k, m)'
  <2>1. \A d \in 1 .. m : line'[k + d] = Datum(command.no, cnt2[k] + d) /\ cnt2[k + d] = cnt2[k] + d
    BY <1>8, <1>10, <1>11
  <2>2. k + m <= Len(line') /\ ~(k + m < Len(line')) BY <1>8, <1>7
  <2>. QED BY <1>1, <2>1, <2>2 DEF Block
<1>13. DatumAt(cnt2, k)' /\ Formed(cnt2, k)'
  <2>1. k - 1 = Len(line) /\ k - 1 \in 0 .. Len(line) BY <1>7
  <2>2. cnt2[k] = cnt2[k - 1] BY <1>9, <1>11, <2>1
  <2>3. DatumAt(cnt2, k)' BY <1>1, <1>3, <1>8, <2>2 DEF DatumAt
  <2>4. a.is = "ack" => Block(cnt2, k, command.n - cnt2[k])' /\ cnt2[k] < command.n
    <3>1. ASSUME a.is = "ack" PROVE m = command.n - cnt2[k] /\ cnt2[k] < command.n
      BY <1>3, <1>7, <1>11, <3>1
    <3>. QED BY <1>1, <1>12, <3>1
  <2>5. a.is = "one" => Block(cnt2, k, 1)' BY <1>3, <1>12
  <2>6. a.is \in {"ack", "one"} BY <1>3
  <2>. QED BY <1>1, <1>8, <2>3, <2>4, <2>5, <2>6 DEF Formed
<1>14. ASSUME NEW i \in Len(line) + 1 .. Len(line) + Len(t)
       PROVE  DatumAt(cnt2, i)' /\ Formed(cnt2, i)'
  <2>1. CASE i = k BY <1>13, <2>1
  <2>2. CASE i > k
    <3>1. PICK d \in 1 .. m : i = k + d
      <4>1. i - k \in 1 .. m /\ i = k + (i - k) BY <1>7, <2>2
      <4>. QED BY <4>1
    <3>2. d \in 0 .. m /\ d - 1 \in 0 .. m /\ i - 1 = k + (d - 1) BY <1>7, <3>1
    <3>3. cnt2[i] = chip.sent + d /\ cnt2[i - 1] = chip.sent + (d - 1) BY <1>10, <3>1, <3>2
    <3>4. line'[i] = Datum(command.no, cnt2[i]) BY <1>8, <3>1, <3>3
    <3>5. cnt2[i] = cnt2[i - 1] + 1 BY <1>7, <3>1, <3>3
    <3>6. line'[i].is = "data" BY <3>4 DEF Datum
    <3>. QED BY <1>1, <3>4, <3>5, <3>6 DEF DatumAt, Formed
  <2>. QED BY <1>7, <2>1, <2>2
<1>15. Answering'
  <2>1. t # <<>> /\ t[1].is # "data" BY <1>3, <1>7
  <2>2. cnt2[Len(line) + Len(t)] = chip'.sent BY <1>3, <1>11
  <2>. QED BY <1>1, <1>2, <1>3, <1>4, <1>11, <1>14, <2>1, <2>2, AnswerGrows
<1>16. Delivery' BY <1>1, <1>2 DEF Delivery, Data
<1>. QED BY <1>1, <1>15, <1>16, CardKeepsInStep

(* The status, with which the card ends.                                   *)
LEMMA EndKeepsInStep == ASSUME T0TypeOK, InStep, CardEnds PROVE InStep'
<1>1. /\ chip.on /\ ~chip.wants /\ UNCHANGED <<command, hpc, rxlen, tx, rx>>
      /\ line' = line \o <<SW1(chip.no), SW2(chip.no)>>
      /\ chip'.no = chip.no /\ chip'.reads = chip.reads /\ chip'.n = chip.n
      /\ chip'.got = chip.got /\ ~chip'.on /\ chip'.wants = chip.wants /\ chip'.sent = chip.sent
  <2>1. /\ chip'.no = chip.no /\ chip'.reads = chip.reads /\ chip'.n = chip.n
        /\ chip'.got = chip.got /\ ~chip'.on /\ chip'.wants = chip.wants /\ chip'.sent = chip.sent
    BY DEF CardEnds, T0TypeOK
  <2>. QED BY <2>1 DEF CardEnds
<1>2. /\ hpc \in {"procedure", "one", "all"} /\ chip.n = command.n /\ chip.reads = command.reads
      /\ chip.no = command.no /\ Delivery /\ Answering
      /\ command.no \in 0 .. MaxCommands /\ command.n \in 0 .. MaxData
      /\ line \in Seq(Octets) /\ Len(line) \in Nat
  BY <1>1, CardOn
<1>3. PICK cnt \in [0 .. Len(line) -> 0 .. command.n] : Answer(cnt) BY <1>2 DEF Answering
<1>4. PICK k : k = Len(line) + 1 OBVIOUS
<1>5. PICK t : t = <<SW1(command.no), SW2(command.no)>> OBVIOUS
<1>6. /\ t \in Seq(Octets) /\ Len(t) = 2 /\ t[1] = SW1(command.no) /\ t[2] = SW2(command.no)
      /\ line' = line \o t
  <2>1. SW1(command.no) \in Octets /\ SW2(command.no) \in Octets BY <1>2, DataBytes
  <2>. QED BY <1>1, <1>2, <1>5, <2>1
<1>7. /\ Len(line') = k + 1 /\ line'[k] = SW1(command.no) /\ line'[k + 1] = SW2(command.no)
      /\ k > 0 /\ k \in Nat /\ (k + 1) - 1 = k
  <2>1. line \in Seq(Octets) /\ Len(line) \in Nat BY <1>2
  <2>2. Len(line') = Len(line) + 2 /\ line'[Len(line) + 1] = t[1] /\ line'[Len(line) + 2] = t[2]
    <3>0. line \in Seq(Octets) /\ t \in Seq(Octets) /\ line' = line \o t BY <1>2, <1>6
    <3>1. \A i \in 1 .. Len(t) : line'[Len(line) + i] = t[i] BY <3>0
    <3>2. Len(line') = Len(line) + Len(t) BY <3>0
    <3>. QED BY <1>6, <3>1, <3>2
  <2>3. k + 1 = Len(line) + 2 BY <1>4, <2>1
  <2>. QED BY <1>4, <1>6, <2>1, <2>2, <2>3
<1>8. PICK cnt2 : cnt2 = [i \in 0 .. Len(line) + 2 |-> IF i <= Len(line) THEN cnt[i] ELSE chip.sent]
  OBVIOUS
<1>9. chip.sent = cnt[Len(line)] /\ chip.sent \in 0 .. command.n
  <2>1. Len(line) \in 0 .. Len(line) BY <1>2
  <2>. QED BY <1>3, <2>1 DEF Answer
<1>10. /\ cnt2 \in [0 .. Len(line) + Len(t) -> 0 .. command.n]
       /\ \A i \in 0 .. Len(line) : cnt2[i] = cnt[i]
       /\ cnt2[k] = chip.sent /\ cnt2[k + 1] = chip.sent /\ cnt2[k - 1] = chip.sent
       /\ cnt2[Len(line) + Len(t)] = chip.sent
  BY <1>2, <1>4, <1>6, <1>8, <1>9
<1>11. DatumAt(cnt2, k)' /\ DatumAt(cnt2, k + 1)' BY <1>1, <1>7, <1>10 DEF DatumAt
<1>12. Formed(cnt2, k)' /\ Formed(cnt2, k + 1)' BY <1>1, <1>7 DEF Formed, SW1, SW2
<1>13. Answering'
  <2>1. \A i \in Len(line) + 1 .. Len(line) + Len(t) : i = k \/ i = k + 1 BY <1>2, <1>4, <1>6
  <2>2. \A i \in Len(line) + 1 .. Len(line) + Len(t) : DatumAt(cnt2, i)' /\ Formed(cnt2, i)'
    BY <1>11, <1>12, <2>1
  <2>3. t # <<>> /\ t[1].is # "data" BY <1>6 DEF SW1
  <2>. QED BY <1>1, <1>2, <1>3, <1>6, <1>10, <2>2, <2>3, AnswerGrows
<1>14. Delivery' BY <1>1, <1>2 DEF Delivery, Data
<1>. QED BY <1>1, <1>13, <1>14, CardKeepsInStep

-----------------------------------------------------------------------------
(* The host.                                                               *)
LEMMA DataGrows ==
  ASSUME NEW no \in 0 .. MaxCommands, NEW n \in 0 .. MaxData, NEW j \in 0 .. n,
         NEW t \in Seq(Octets), Len(t) = n - j,
         \A d \in 1 .. n - j : t[d] = Datum(no, j + d)
  PROVE  Data(no, j) \o t = Data(no, n)
<1>0. MaxData \in Nat BY SmcT0Assumption
<1>1. /\ Data(no, j) \in Seq(Octets) /\ Len(Data(no, j)) = j
      /\ \A k \in 1 .. j : Data(no, j)[k] = Datum(no, k)
  <2>1. j \in 0 .. MaxData BY <1>0
  <2>. QED BY <2>1, DataBytes
<1>2. /\ Data(no, n) \in Seq(Octets) /\ Len(Data(no, n)) = n
      /\ \A k \in 1 .. n : Data(no, n)[k] = Datum(no, k)
  BY DataBytes
<1>3. PICK x : x = Data(no, j) OBVIOUS
<1>4. x \in Seq(Octets) /\ Len(x) = j BY <1>1, <1>3
<1>5. /\ x \o t \in Seq(Octets) /\ Len(x \o t) = n BY <1>0, <1>4
<1>6. ASSUME NEW k \in 1 .. n PROVE (x \o t)[k] = Data(no, n)[k]
  <2>1. CASE k <= j
    <3>1. k \in 1 .. j BY <2>1
    <3>2. (x \o t)[k] = x[k] BY <1>4, <3>1
    <3>. QED BY <1>1, <1>2, <1>3, <3>1, <3>2
  <2>2. CASE k > j
    <3>1. k - j \in 1 .. n - j /\ j + (k - j) = k BY <2>2
    <3>2. (x \o t)[k] = t[k - j] BY <1>4, <1>5, <2>2, <3>1
    <3>. QED BY <1>2, <3>1, <3>2
  <2>3. k <= j \/ k > j OBVIOUS
  <2>. QED BY <2>1, <2>2, <2>3
<1>7. DOMAIN (x \o t) = 1 .. n /\ DOMAIN Data(no, n) = 1 .. n
  BY <1>2, <1>5
<1>8. x \o t = Data(no, n) BY <1>2, <1>5, <1>6, <1>7
<1>. QED BY <1>3, <1>8

LEMMA HostKeepsAnswer ==
  ASSUME T0TypeOK, UNCHANGED command, chip'.on = chip.on, chip'.wants = chip.wants,
         chip'.sent = chip.sent,
         NEW s \in 1 .. Len(line), line[s].is # "sw1",
         line' = SubSeq(line, s + 1, Len(line)),
         NEW cnt \in [0 .. Len(line) -> 0 .. command.n], Answer(cnt),
         Len(rx') = cnt[s],
         hpc' = "procedure" => Block(cnt, s, 0),
         hpc' = "one" => command.reads /\ Block(cnt, s, 1),
         hpc' = "all" => command.reads /\ cnt[s] < command.n /\ Block(cnt, s, command.n - cnt[s])
  PROVE  Answering'
<1>1. line \in Seq(Octets) /\ Len(line) \in Nat /\ command.n \in Nat
  BY SmcT0Assumption DEF T0TypeOK
<1>2. Len(line') = Len(line) - s BY <1>1
<1>3. PICK cnt2 : cnt2 = [i \in 0 .. Len(line) - s |-> cnt[i + s]] OBVIOUS
<1>4. cnt2 \in [0 .. Len(line') -> 0 .. command.n]
  <2>1. ASSUME NEW i \in 0 .. Len(line) - s PROVE cnt[i + s] \in 0 .. command.n
    <3>1. i + s \in 0 .. Len(line) BY <1>1
    <3>. QED BY <3>1
  <2>. QED BY <1>2, <1>3, <2>1
<1>5. cnt2[0] = cnt[s] /\ cnt2[Len(line')] = cnt[Len(line)]
  <2>1. /\ 0 \in 0 .. Len(line) - s /\ 0 + s = s
        /\ Len(line) - s \in 0 .. Len(line) - s /\ (Len(line) - s) + s = Len(line)
    BY <1>1
  <2>2. cnt2[0] = cnt[0 + s] /\ cnt2[Len(line) - s] = cnt[(Len(line) - s) + s] BY <1>3, <2>1
  <2>. QED BY <1>2, <2>1, <2>2
<1>6. ASSUME NEW i \in 1 .. Len(line') PROVE DatumAt(cnt2, i)' /\ Formed(cnt2, i)'
  <2>1. i + s \in 1 .. Len(line) /\ i \in 1 .. Len(line) - s BY <1>1, <1>2
  <2>2. DatumAt(cnt, i + s) /\ Formed(cnt, i + s) BY <2>1 DEF Answer
  <2>. QED BY <1>3, <2>1, <2>2, LineShrinks
<1>7. \A m \in Nat : Block(cnt, s, m) => Block(cnt2, 0, m)'
  <2>1. 0 \in 0 .. Len(line) - s /\ 0 + s = s BY <1>1
  <2>2. \A m \in Nat : Block(cnt, 0 + s, m) => Block(cnt2, 0, m)' BY <1>3, <2>1, LineShrinks
  <2>. QED BY <2>1, <2>2
<1>8. Heard(cnt2)'
  <2>1. Block(cnt, s, 0) => Block(cnt2, 0, 0)' BY <1>7
  <2>2. Block(cnt, s, 1) => Block(cnt2, 0, 1)' BY <1>7
  <2>3. cnt[s] < command.n /\ Block(cnt, s, command.n - cnt[s]) =>
          Block(cnt2, 0, command.n - cnt[s])'
    <3>1. s \in 0 .. Len(line) BY <1>1
    <3>2. cnt[s] \in 0 .. command.n BY <3>1
    <3>3. command.n - cnt[s] \in Nat BY <1>1, <3>2
    <3>. QED BY <1>7, <3>3
  <2>4. hpc' = "procedure" => Block(cnt2, 0, 0)' BY <2>1
  <2>5. hpc' = "one" => command'.reads /\ Block(cnt2, 0, 1)' BY <2>2
  <2>6. hpc' = "all" =>
          command'.reads /\ Len(rx') < command'.n /\ Block(cnt2, 0, command.n - Len(rx))'
    BY <2>3
  <2>. QED BY <2>4, <2>5, <2>6 DEF Heard
<1>9. Answer(cnt2)' BY <1>5, <1>6, <1>8 DEF Answer
<1>. QED BY <1>4, <1>9 DEF Answering

LEMMA BeginKeepsInStep == ASSUME T0TypeOK, InStep, TransferBegin PROVE InStep'
<1>1. PICK reads \in BOOLEAN, n \in 1 .. MaxData :
        /\ command' = [no |-> command.no + 1, reads |-> reads, n |-> n]
        /\ rxlen' = IF reads THEN n ELSE 0
        /\ tx' = IF reads THEN <<>> ELSE Data(command.no + 1, n)
  BY DEF TransferBegin
<1>2. /\ command'.n = n /\ command'.reads = reads /\ command'.no = command.no + 1
  BY <1>1
<1>3. ~chip.on /\ line = <<>> BY DEF InStep, AtEnd, TransferBegin
<1>4. n > 0 BY SmcT0Assumption
<1>5. hpc' = "header" /\ rx' = <<>> /\ UNCHANGED <<line, chip>> BY DEF TransferBegin
<1>6. AtStart' BY <1>1, <1>2, <1>3, <1>5 DEF AtStart, Data
<1>7. During' /\ AtEnd' /\ Engaged' BY <1>5 DEF During, AtEnd, Engaged
<1>8. (chip.got # <<>> => chip.got = Data(chip.no, chip.n))' BY <1>5 DEF InStep, Data
<1>. QED BY <1>2, <1>4, <1>6, <1>7, <1>8 DEF InStep

LEMMA HeaderKeepsInStep == ASSUME T0TypeOK, InStep, SendHeader PROVE InStep'
<1>1. /\ hpc = "header" /\ hpc' = "procedure" /\ UNCHANGED <<command, rxlen, tx, rx, line>>
      /\ ~chip.on /\ line = <<>> /\ rx = <<>> /\ command.n > 0
      /\ rxlen = IF command.reads THEN command.n ELSE 0
      /\ tx = IF command.reads THEN <<>> ELSE Data(command.no, command.n)
      /\ command.no \in 0 .. MaxCommands /\ command.n \in Nat /\ 0 \in 0 .. MaxData
  BY SmcT0Assumption DEF SendHeader, InStep, AtStart, T0TypeOK
<1>2. /\ chip'.on /\ chip'.no = command.no /\ chip'.reads = command.reads /\ chip'.n = command.n
      /\ chip'.sent = 0 /\ chip'.got = <<>> /\ ~chip'.wants
  BY DEF SendHeader
<1>3. Len(line) = 0 /\ Len(rx) = 0 BY <1>1
<1>4. rx = Data(command.no, 0)
  <2>1. PICK x : x = Data(command.no, 0) OBVIOUS
  <2>2. x \in Seq(Octets) /\ Len(x) = 0 BY <1>1, <2>1, DataBytes
  <2>. QED BY <1>1, <2>1, <2>2
<1>5. Answering'
  <2>1. PICK cnt : cnt = [i \in 0 .. 0 |-> 0] OBVIOUS
  <2>2. cnt \in [0 .. Len(line') -> 0 .. command'.n] /\ cnt[0] = 0 BY <1>1, <1>3, <2>1
  <2>3. Block(cnt, 0, 0)'
    <3>1. \A d \in 1 .. 0 : FALSE OBVIOUS
    <3>2. 0 + 0 <= Len(line') /\ ~(0 + 0 < Len(line')) BY <1>1, <1>3
    <3>. QED BY <3>1, <3>2 DEF Block
  <2>4. Heard(cnt)' BY <1>1, <2>3 DEF Heard
  <2>5. \A i \in 1 .. Len(line') : FALSE BY <1>1, <1>3
  <2>6. Answer(cnt)' BY <1>1, <1>2, <1>3, <2>2, <2>4, <2>5 DEF Answer
  <2>. QED BY <2>2, <2>6 DEF Answering
<1>6. During'
  <2>1. rx' = Data(command'.no, Len(rx')) BY <1>1, <1>3, <1>4
  <2>2. command'.reads /\ Len(rx') < command'.n => rxlen' = command'.n - Len(rx')
    BY <1>1, <1>3
  <2>. QED BY <1>5, <2>1, <2>2 DEF During
<1>7. AtStart' /\ AtEnd' BY <1>1 DEF AtStart, AtEnd
<1>8. Delivery' BY <1>1, <1>2 DEF Delivery, Data
<1>9. Engaged' BY <1>1, <1>2, <1>8 DEF Engaged
<1>. QED BY <1>1, <1>2, <1>6, <1>7, <1>9 DEF InStep

(* What a procedure byte can be, and what the line holds behind it.        *)
LEMMA ProcedureBytes ==
  ASSUME T0TypeOK, hpc = "procedure", line # <<>>, command.n > 0,
         NEW cnt \in [0 .. Len(line) -> 0 .. command.n], Answer(cnt)
  PROVE  /\ line \in Seq(Octets) /\ Len(line) \in Nat /\ 1 \in 1 .. Len(line)
         /\ Head(line) = line[1] /\ Tail(line) = SubSeq(line, 2, Len(line))
         /\ Tail(line) \in Seq(Octets) /\ Len(Tail(line)) = Len(line) - 1
         /\ \A i \in 1 .. Len(line) - 1 : Tail(line)[i] = line[i + 1]
         /\ line[1] \in {NullByte(command.no), Ack(command.no), AckOne(command.no), SW1(command.no)}
         /\ cnt[1] = Len(rx) /\ DatumAt(cnt, 1) /\ Formed(cnt, 1)
<1>1. line \in Seq(Octets) /\ Len(line) \in Nat /\ Len(line) > 0 BY DEF T0TypeOK
<1>2. 1 \in 1 .. Len(line) /\ Head(line) = line[1] /\ Tail(line) = SubSeq(line, 2, Len(line))
  BY <1>1
<1>3. Tail(line) \in Seq(Octets) /\ Len(Tail(line)) = Len(line) - 1 BY <1>1
<1>4. \A i \in 1 .. Len(line) - 1 : Tail(line)[i] = line[i + 1] BY <1>1
<1>5. DatumAt(cnt, 1) /\ Formed(cnt, 1) BY <1>2 DEF Answer
<1>6. line[1].is # "data"
  <2>1. Block(cnt, 0, 0) BY DEF Answer, Heard
  <2>2. 0 + 0 < Len(line) /\ 0 + 0 + 1 = 1 BY <1>1
  <2>. QED BY <2>1, <2>2 DEF Block
<1>7. line[1].is # "sw2" BY <1>5 DEF Formed
<1>8. /\ line[1] \in {NullByte(command.no), Ack(command.no), AckOne(command.no), SW1(command.no)}
      /\ cnt[1] = cnt[1 - 1]
  BY <1>5, <1>6, <1>7 DEF DatumAt, Datum, SW2
<1>9. cnt[1] = Len(rx)
  <2>1. 1 - 1 = 0 OBVIOUS
  <2>. QED BY <1>8, <2>1 DEF Answer
<1>. QED BY <1>1, <1>2, <1>3, <1>4, <1>5, <1>8, <1>9

(* The host goes on in the middle of the transfer.                         *)
LEMMA OnKeepsInStep ==
  ASSUME T0TypeOK, InStep, UNCHANGED <<command, rxlen>>, command.n > 0,
         chip'.no = chip.no, chip'.reads = chip.reads, chip'.n = chip.n,
         hpc' \in {"procedure", "one", "all"},
         chip.no = command.no, chip.reads = command.reads, chip.n = command.n,
         rx' = Data(command.no, Len(rx')),
         command.reads /\ Len(rx') < command.n => rxlen = command.n - Len(rx'),
         Answering', Delivery',
         chip'.got # <<>> => chip'.got = Data(chip.no, chip.n)
  PROVE  InStep'
<1>1. AtStart' /\ AtEnd' BY DEF AtStart, AtEnd
<1>2. During' BY DEF During
<1>3. Engaged' BY DEF Engaged
<1>4. (chip.got # <<>> => chip.got = Data(chip.no, chip.n))' BY DEF Data
<1>. QED BY <1>1, <1>2, <1>3, <1>4 DEF InStep

LEMMA ProcedureKeepsInStep == ASSUME T0TypeOK, InStep, ReadProcedure PROVE InStep'
<1>1. /\ hpc = "procedure" /\ line # <<>> /\ line' = Tail(line)
      /\ UNCHANGED <<command, rxlen>> /\ command.n > 0
      /\ command.no \in 0 .. MaxCommands /\ command.n \in 0 .. MaxData
      /\ chip.no = command.no /\ chip.reads = command.reads /\ chip.n = command.n
      /\ Delivery /\ Answering
      /\ rx = Data(command.no, Len(rx)) /\ rx \in Seq(Octets)
      /\ command.reads /\ Len(rx) < command.n => rxlen = command.n - Len(rx)
  BY DEF ReadProcedure, InStep, Engaged, During, T0TypeOK
<1>2. PICK cnt \in [0 .. Len(line) -> 0 .. command.n] : Answer(cnt) BY <1>1 DEF Answering
<1>3. /\ line \in Seq(Octets) /\ Len(line) \in Nat /\ 1 \in 1 .. Len(line)
      /\ Head(line) = line[1] /\ line' = SubSeq(line, 1 + 1, Len(line))
      /\ line' \in Seq(Octets) /\ Len(line') = Len(line) - 1
      /\ \A i \in 1 .. Len(line) - 1 : line'[i] = line[i + 1]
      /\ line[1] \in {NullByte(command.no), Ack(command.no), AckOne(command.no), SW1(command.no)}
      /\ cnt[1] = Len(rx) /\ DatumAt(cnt, 1) /\ Formed(cnt, 1)
  BY <1>1, <1>2, ProcedureBytes
<1>4. (chip.got # <<>> => chip.got = Data(chip.no, chip.n)) BY DEF InStep
<1>5. CASE line[1].is = "null"
  <2>1. UNCHANGED <<hpc, tx, rx, chip>> BY <1>3, <1>5 DEF ReadProcedure
  <2>2. Block(cnt, 1, 0) /\ line[1].is # "sw1" BY <1>3, <1>5 DEF Formed
  <2>3. Answering' BY <1>1, <1>2, <1>3, <2>1, <2>2, HostKeepsAnswer
  <2>4. Delivery' BY <1>1, <2>1 DEF Delivery, Data
  <2>. QED BY <1>1, <1>4, <2>1, <2>3, <2>4, OnKeepsInStep
<1>6. CASE line[1].is = "one"
  <2>1. hpc' = "one" /\ UNCHANGED <<tx, rx, chip>> BY <1>3, <1>6 DEF ReadProcedure
  <2>2. command.reads /\ Block(cnt, 1, 1) /\ line[1].is # "sw1" BY <1>3, <1>6 DEF Formed
  <2>3. Answering' BY <1>1, <1>2, <1>3, <2>1, <2>2, HostKeepsAnswer
  <2>4. Delivery' BY <1>1, <2>1 DEF Delivery, Data
  <2>. QED BY <1>1, <1>4, <2>1, <2>3, <2>4, OnKeepsInStep
<1>7. Len(Data(command.no, command.n)) = command.n /\ Data(command.no, command.n) \in Seq(Octets)
  BY <1>1, DataBytes
<1>8. Data(command.no, command.n) # <<>>
  <2>1. PICK x : x = Data(command.no, command.n) OBVIOUS
  <2>. QED BY <1>1, <1>7, <2>1
<1>9. CASE line[1].is = "ack" /\ tx # <<>>
  <2>1. /\ tx' = <<>> /\ UNCHANGED <<hpc, rx>>
        /\ chip' = [chip EXCEPT !.got = @ \o tx, !.wants = FALSE]
    BY <1>3, <1>9 DEF ReadProcedure
  <2>2. ~command.reads /\ tx = Data(command.no, command.n) /\ chip.got = <<>>
    BY <1>1, <1>9 DEF Delivery
  <2>3. Len(line) = 1 BY <1>3, <1>9, <2>2 DEF Formed
  <2>4. /\ chip'.no = chip.no /\ chip'.reads = chip.reads /\ chip'.n = chip.n
        /\ chip'.sent = chip.sent /\ chip'.got = chip.got \o tx /\ ~chip'.wants
    BY <2>1 DEF T0TypeOK
  <2>5. chip'.got = Data(command.no, command.n)
    <3>1. PICK x : x = Data(command.no, command.n) OBVIOUS
    <3>2. x \in Seq(Octets) BY <1>7, <3>1
    <3>3. <<>> \o x = x BY <3>2
    <3>. QED BY <2>2, <2>4, <3>1, <3>3
  <2>6. Answering'
    <3>1. PICK cnt2 : cnt2 = [i \in 0 .. 0 |-> cnt[1]] OBVIOUS
    <3>2. Len(line') = 0 BY <1>3, <2>3
    <3>3. cnt[1] \in 0 .. command.n
      <4>1. 1 \in 0 .. Len(line) BY <1>3
      <4>. QED BY <1>2, <4>1
    <3>4. cnt2 \in [0 .. Len(line') -> 0 .. command'.n] /\ cnt2[0] = cnt[1]
      <4>1. command' = command BY <1>1
      <4>2. cnt2 \in [0 .. 0 -> 0 .. command.n] /\ cnt2[0] = cnt[1] BY <3>1, <3>3
      <4>. QED BY <3>2, <4>1, <4>2
    <3>5. cnt[1] = chip.sent BY <1>2, <2>3 DEF Answer
    <3>6. Block(cnt2, 0, 0)'
      <4>1. \A d \in 1 .. 0 : FALSE OBVIOUS
      <4>2. 0 + 0 <= Len(line') /\ ~(0 + 0 < Len(line')) BY <3>2
      <4>. QED BY <4>1, <4>2 DEF Block
    <3>7. hpc' = "procedure" BY <1>1, <2>1
    <3>8. Heard(cnt2)' BY <3>6, <3>7 DEF Heard
    <3>9. \A i \in 1 .. Len(line') : FALSE BY <3>2
    <3>10. Answer(cnt2)' BY <1>3, <2>1, <2>4, <3>2, <3>4, <3>5, <3>8, <3>9 DEF Answer
    <3>. QED BY <3>4, <3>10 DEF Answering
  <2>7. Delivery' BY <1>1, <2>1, <2>2, <2>4, <2>5 DEF Delivery, Data
  <2>8. hpc' = "procedure" /\ rx' = rx BY <1>1, <2>1
  <2>. QED BY <1>1, <2>4, <2>5, <2>6, <2>7, <2>8, OnKeepsInStep
<1>10. CASE line[1].is = "ack" /\ tx = <<>>
  <2>1. hpc' = "all" /\ UNCHANGED <<tx, rx, chip>> BY <1>3, <1>10 DEF ReadProcedure
  <2>2. command.reads
    <3>1. SUFFICES ASSUME ~command.reads PROVE FALSE OBVIOUS
    <3>2. chip.wants BY <1>3, <1>10, <3>1 DEF Formed
    <3>. QED BY <1>1, <1>8, <1>10, <3>1, <3>2 DEF Delivery
  <2>3. cnt[1] < command.n /\ Block(cnt, 1, command.n - cnt[1]) /\ line[1].is # "sw1"
    BY <1>3, <1>10, <2>2 DEF Formed
  <2>4. Answering' BY <1>1, <1>2, <1>3, <2>1, <2>2, <2>3, HostKeepsAnswer
  <2>5. Delivery' BY <1>1, <2>1 DEF Delivery, Data
  <2>. QED BY <1>1, <1>4, <2>1, <2>4, <2>5, OnKeepsInStep
<1>11. CASE line[1].is = "sw1"
  <2>1. line[1] = SW1(command.no) BY <1>3, <1>11 DEF NullByte, Ack, AckOne, SW1
  <2>2. hpc' = "sw2" /\ rx' = Append(rx, SW1(command.no)) /\ UNCHANGED <<tx, chip>>
    BY <1>3, <1>11, <2>1 DEF ReadProcedure
  <2>3. ~chip.on /\ 1 + 1 = Len(line) /\ line[1 + 1].is = "sw2" BY <1>3, <1>11 DEF Formed
  <2>4. 2 \in 1 .. Len(line) /\ Len(line) = 2 /\ line[2].is = "sw2" BY <2>3
  <2>5. DatumAt(cnt, 2) BY <1>2, <2>4 DEF Answer
  <2>6. line[2] = SW2(command.no) /\ cnt[2] = cnt[2 - 1]
    BY <2>4, <2>5 DEF DatumAt, Datum, NullByte, Ack, AckOne, SW1
  <2>7. cnt[2] = chip.sent /\ 2 - 1 = 1 BY <1>2, <2>4 DEF Answer
  <2>8. Len(rx) = chip.sent BY <1>3, <2>6, <2>7
  <2>9. line' = <<SW2(command.no)>>
    <3>1. Len(line') = 1 /\ line'[1] = SW2(command.no) BY <1>3, <2>4, <2>6
    <3>. QED BY <1>3, <3>1
  <2>10. rx' = Data(command.no, chip.sent) \o <<SW1(command.no)>>
    <3>1. Append(rx, SW1(command.no)) = rx \o <<SW1(command.no)>>
      <4>1. SW1(command.no) \in Octets BY <1>1, DataBytes
      <4>. QED BY <1>1, <4>1
    <3>. QED BY <1>1, <2>2, <2>8, <3>1
  <2>11. AtEnd' BY <1>1, <2>2, <2>3, <2>9, <2>10 DEF AtEnd, SW1, SW2, Data
  <2>12. AtStart' /\ During' BY <2>2 DEF AtStart, During
  <2>13. Delivery' BY <1>1, <2>2 DEF Delivery, Data
  <2>14. Engaged' BY <1>1, <2>2, <2>13 DEF Engaged
  <2>15. (chip.got # <<>> => chip.got = Data(chip.no, chip.n))' BY <1>4, <2>2 DEF Data
  <2>. QED BY <1>1, <2>11, <2>12, <2>14, <2>15 DEF InStep
<1>. QED
  <2>1. line[1].is \in {"null", "one", "ack", "sw1"} BY <1>3 DEF NullByte, Ack, AckOne, SW1
  <2>. QED BY <1>5, <1>6, <1>9, <1>10, <1>11, <2>1

LEMMA OneKeepsInStep == ASSUME T0TypeOK, InStep, ReadOne PROVE InStep'
<1>1. /\ hpc = "one" /\ hpc' = "procedure" /\ line # <<>>
      /\ rx' = Append(rx, Head(line)) /\ line' = Tail(line) /\ rxlen' = (rxlen - 1) % 256
      /\ UNCHANGED <<command, tx, chip>> /\ command.n > 0
      /\ command.no \in 0 .. MaxCommands /\ command.n \in 0 .. MaxData /\ MaxData \in 0 .. 255
      /\ chip.no = command.no /\ chip.reads = command.reads /\ chip.n = command.n
      /\ Delivery /\ Answering
      /\ rx = Data(command.no, Len(rx)) /\ rx \in Seq(Octets) /\ Len(rx) \in Nat
      /\ command.reads /\ Len(rx) < command.n => rxlen = command.n - Len(rx)
  BY SmcT0Assumption DEF ReadOne, InStep, Engaged, During, T0TypeOK
<1>2. PICK cnt \in [0 .. Len(line) -> 0 .. command.n] : Answer(cnt) BY <1>1 DEF Answering
<1>3. /\ line \in Seq(Octets) /\ Len(line) \in Nat /\ 1 \in 1 .. Len(line)
      /\ Head(line) = line[1] /\ line' = SubSeq(line, 1 + 1, Len(line))
  <2>1. line \in Seq(Octets) /\ Len(line) \in Nat /\ Len(line) > 0 BY <1>1 DEF T0TypeOK
  <2>. QED BY <1>1, <2>1
<1>4. command.reads /\ Block(cnt, 0, 1) BY <1>1, <1>2 DEF Answer, Heard
<1>5. line[1] = Datum(command.no, Len(rx) + 1) /\ cnt[1] = Len(rx) + 1
  <2>1. 1 \in 1 .. 1 /\ 0 + 1 = 1 OBVIOUS
  <2>2. line[0 + 1] = Datum(command.no, cnt[0] + 1) /\ cnt[0 + 1] = cnt[0] + 1
    BY <1>4, <2>1 DEF Block
  <2>. QED BY <1>2, <2>1, <2>2 DEF Answer
<1>6. Block(cnt, 1, 0)
  <2>1. 1 < Len(line) => line[1 + 1].is # "data"
    <3>1. 0 + 1 = 1 OBVIOUS
    <3>. QED BY <1>4, <3>1 DEF Block
  <2>2. \A d \in 1 .. 0 : FALSE OBVIOUS
  <2>3. 1 + 0 = 1 /\ 1 <= Len(line) BY <1>3
  <2>. QED BY <2>1, <2>2, <2>3 DEF Block
<1>7. Len(rx) < command.n
  <2>1. 1 \in 0 .. Len(line) BY <1>3
  <2>2. cnt[1] \in 0 .. command.n BY <2>1
  <2>. QED BY <1>1, <1>5, <2>2
<1>8. rx' \in Seq(Octets) /\ Len(rx') = Len(rx) + 1 /\ rx' = rx \o <<line[1]>>
  <2>1. line[1] \in Octets BY <1>3
  <2>2. rx \in Seq(Octets) /\ rx' = Append(rx, line[1]) BY <1>1, <1>3
  <2>. QED BY <2>1, <2>2
<1>9. rx' = Data(command.no, Len(rx'))
  <2>1. /\ Len(rx) + 1 \in 0 .. MaxData /\ Len(rx) \in 0 .. Len(rx) + 1
        /\ (Len(rx) + 1) - Len(rx) = 1
    BY <1>1, <1>7
  <2>2. PICK t : t = <<line[1]>> OBVIOUS
  <2>3. t \in Seq(Octets) /\ Len(t) = 1 /\ t[1] = line[1]
    <3>1. line[1] \in Octets BY <1>3
    <3>. QED BY <2>2, <3>1
  <2>4. \A d \in 1 .. (Len(rx) + 1) - Len(rx) : t[d] = Datum(command.no, Len(rx) + d)
    BY <1>5, <2>1, <2>3
  <2>5. Data(command.no, Len(rx)) \o t = Data(command.no, Len(rx) + 1)
    <3>1. command.no \in 0 .. MaxCommands BY <1>1
    <3>. QED BY <2>1, <2>3, <2>4, <3>1, DataGrows
  <2>. QED BY <1>1, <1>8, <2>2, <2>5
<1>10. rxlen' = command.n - Len(rx')
  <2>1. rxlen = command.n - Len(rx) BY <1>1, <1>4, <1>7
  <2>2. rxlen \in 1 .. 255
    <3>1. PICK n \in Int, j \in Int : n = command.n /\ j = Len(rx)
      <4>1. MaxData \in Nat BY SmcT0Assumption
      <4>. QED BY <1>1, <4>1
    <3>2. MaxData \in 0 .. 255 BY SmcT0Assumption
    <3>3. n \in 0 .. MaxData BY <1>1, <3>1
    <3>4. j \in Nat BY <1>1, <3>1
    <3>5. n <= 255 BY <3>2, <3>3
    <3>6. j < n /\ rxlen = n - j BY <1>7, <2>1, <3>1
    <3>. QED BY <3>4, <3>5, <3>6
  <2>3. (rxlen - 1) % 256 = rxlen - 1 BY <2>2
  <2>. QED BY <1>1, <1>8, <2>1, <2>3
<1>11. Answering'
  <2>1. line[1].is # "sw1" BY <1>5 DEF Datum
  <2>2. Len(rx') = cnt[1] BY <1>5, <1>8
  <2>. QED BY <1>1, <1>2, <1>3, <1>6, <2>1, <2>2, HostKeepsAnswer
<1>12. During' BY <1>1, <1>9, <1>10, <1>11 DEF During
<1>13. AtStart' /\ AtEnd' BY <1>1 DEF AtStart, AtEnd
<1>14. Delivery' BY <1>1 DEF Delivery, Data
<1>15. Engaged' BY <1>1, <1>14 DEF Engaged
<1>16. (chip.got # <<>> => chip.got = Data(chip.no, chip.n))' BY <1>1 DEF InStep, Data
<1>. QED BY <1>1, <1>12, <1>13, <1>15, <1>16 DEF InStep

LEMMA AllKeepsInStep == ASSUME T0TypeOK, InStep, ReadAll PROVE InStep'
<1>1. /\ hpc = "all" /\ hpc' = "procedure" /\ Len(line) >= rxlen
      /\ rx' = rx \o SubSeq(line, 1, rxlen) /\ line' = SubSeq(line, rxlen + 1, Len(line))
      /\ UNCHANGED <<command, rxlen, tx, chip>> /\ command.n > 0
      /\ command.no \in 0 .. MaxCommands /\ command.n \in 0 .. MaxData /\ command.n \in Nat
      /\ chip.no = command.no /\ chip.reads = command.reads /\ chip.n = command.n
      /\ Delivery /\ Answering
      /\ rx = Data(command.no, Len(rx)) /\ rx \in Seq(Octets) /\ Len(rx) \in Nat
      /\ line \in Seq(Octets) /\ Len(line) \in Nat
      /\ command.reads /\ Len(rx) < command.n => rxlen = command.n - Len(rx)
  BY SmcT0Assumption DEF ReadAll, InStep, Engaged, During, T0TypeOK
<1>2. PICK cnt \in [0 .. Len(line) -> 0 .. command.n] : Answer(cnt) BY <1>1 DEF Answering
<1>3. command.reads /\ Len(rx) < command.n /\ Block(cnt, 0, command.n - Len(rx))
  BY <1>1, <1>2 DEF Answer, Heard
<1>4. PICK s : s = rxlen OBVIOUS
<1>5. s = command.n - Len(rx) /\ s \in 1 .. Len(line) /\ s \in Nat /\ s > 0
  BY <1>1, <1>3, <1>4
<1>6. /\ \A d \in 1 .. s : line[d] = Datum(command.no, Len(rx) + d) /\ cnt[d] = Len(rx) + d
      /\ s < Len(line) => line[s + 1].is # "data"
  <2>1. \A d \in 1 .. s : 0 + d = d BY <1>5
  <2>2. \A d \in 1 .. s : line[0 + d] = Datum(command.no, cnt[0] + d) /\ cnt[0 + d] = cnt[0] + d
    BY <1>3, <1>5 DEF Block
  <2>3. 0 + s = s BY <1>5
  <2>4. s < Len(line) => line[s + 1].is # "data" BY <1>3, <1>5, <2>3 DEF Block
  <2>5. cnt[0] = Len(rx) BY <1>2 DEF Answer
  <2>. QED BY <2>1, <2>2, <2>4, <2>5
<1>7. Block(cnt, s, 0)
  <2>1. \A d \in 1 .. 0 : FALSE OBVIOUS
  <2>2. s + 0 = s /\ s <= Len(line) BY <1>5
  <2>. QED BY <1>6, <2>1, <2>2 DEF Block
<1>8. PICK t : t = SubSeq(line, 1, s) OBVIOUS
<1>9. t \in Seq(Octets) /\ Len(t) = s /\ \A d \in 1 .. s : t[d] = line[d]
  BY <1>1, <1>5, <1>8
<1>10. rx' = Data(command.no, command.n) /\ Len(rx') = command.n
  <2>1. Len(rx) \in 0 .. command.n BY <1>1, <1>3
  <2>2. \A d \in 1 .. command.n - Len(rx) : t[d] = Datum(command.no, Len(rx) + d)
    BY <1>5, <1>6, <1>9
  <2>3. Len(t) = command.n - Len(rx) BY <1>5, <1>9
  <2>4. Data(command.no, Len(rx)) \o t = Data(command.no, command.n)
    BY <1>1, <1>9, <2>1, <2>2, <2>3, DataGrows
  <2>5. Len(Data(command.no, command.n)) = command.n BY <1>1, DataBytes
  <2>. QED BY <1>1, <1>4, <1>8, <2>4, <2>5
<1>11. Answering'
  <2>1. s \in 1 .. s BY <1>5
  <2>2. line[s].is # "sw1"
    <3>1. line[s] = Datum(command.no, Len(rx) + s) BY <1>6, <2>1
    <3>. QED BY <3>1 DEF Datum
  <2>3. cnt[s] = command.n BY <1>1, <1>5, <1>6, <2>1
  <2>. QED BY <1>1, <1>2, <1>4, <1>5, <1>7, <1>10, <2>2, <2>3, HostKeepsAnswer
<1>12. ~(Len(rx') < command.n)
  <2>1. command.n \in Nat BY <1>1
  <2>. QED BY <1>10, <2>1
<1>13. Delivery' BY <1>1 DEF Delivery, Data
<1>14. chip.got # <<>> => chip.got = Data(chip.no, chip.n) BY DEF InStep
<1>15. rx' = Data(command.no, Len(rx')) BY <1>10
<1>. QED BY <1>1, <1>11, <1>12, <1>13, <1>14, <1>15, OnKeepsInStep

LEMMA SW2KeepsInStep == ASSUME T0TypeOK, InStep, ReadSW2 PROVE InStep'
<1>1. /\ hpc' = "idle" /\ rx' = Append(rx, Head(line)) /\ line' = Tail(line)
      /\ UNCHANGED <<command, rxlen, tx, chip>>
      /\ ~chip.on /\ line = <<SW2(command.no)>>
      /\ chip.got # <<>> => chip.got = Data(chip.no, chip.n)
      /\ rx = Data(command.no, chip.sent) \o <<SW1(command.no)>>
      /\ command.no \in 0 .. MaxCommands /\ chip.sent \in 0 .. MaxData
  BY DEF ReadSW2, InStep, AtEnd, T0TypeOK
<1>2. line' = <<>> /\ Head(line) = SW2(command.no) BY <1>1
<1>3. rx' = Data(command.no, chip.sent) \o Status(command.no)
  <2>1. PICK x : x = Data(command.no, chip.sent) OBVIOUS
  <2>2. PICK a : a = SW1(command.no) OBVIOUS
  <2>3. PICK b : b = SW2(command.no) OBVIOUS
  <2>4. x \in Seq(Octets) /\ a \in Octets /\ b \in Octets
    BY <1>1, <2>1, <2>2, <2>3, DataBytes
  <2>5. Append(x \o <<a>>, b) = x \o <<a, b>> BY <2>4
  <2>. QED BY <1>1, <1>2, <2>1, <2>2, <2>3, <2>5 DEF Status
<1>4. AtEnd' BY <1>1, <1>2, <1>3 DEF AtEnd, Data, Status, SW1, SW2
<1>5. AtStart' /\ During' /\ Engaged' BY <1>1 DEF AtStart, During, Engaged
<1>6. (chip.got # <<>> => chip.got = Data(chip.no, chip.n))' BY <1>1 DEF Data
<1>. QED BY <1>1, <1>4, <1>5, <1>6 DEF InStep

LEMMA T0Invariant == T0Spec => []T0Inv
<1>1. T0Inv /\ [T0Next]_t0Vars => T0Inv'
  <2>. SUFFICES ASSUME T0Inv, [T0Next]_t0Vars PROVE T0Inv' OBVIOUS
  <2>1. CASE UNCHANGED t0Vars
    <3>1. T0TypeOK' BY <2>1 DEF t0Vars, T0Inv, T0TypeOK
    <3>2. UNCHANGED <<command, hpc, rxlen, tx, rx, line, chip, overdue>> BY <2>1 DEF t0Vars
    <3>3. InStep => InStep'
      BY <3>2 DEF InStep, AtStart, During, AtEnd, Engaged, Delivery, Answering, Answer, Heard,
                  DatumAt, Formed, Block
    <3>. QED BY <3>1, <3>2, <3>3 DEF T0Inv
  <2>2. CASE T0Next
    <3>1. T0TypeOK' BY <2>2, NextKeepsT0TypeOK DEF T0Inv
    <3>2. CASE ReadTimesOut BY <3>1, <3>2 DEF ReadTimesOut, T0Inv
    <3>3. CASE ~ReadTimesOut
      <4>1. overdue' = overdue
        BY <2>2, <3>3 DEF T0Next, CardNull, CardSendsAll, CardSendsOne, CardAsksAll, CardEnds,
                          TransferBegin, SendHeader, ReadProcedure, ReadAll, ReadOne, ReadSW2
      <4>2. InStep => InStep'
        BY <2>2, <3>3, ByteKeepsInStep, SendsKeepInStep, EndKeepsInStep, BeginKeepsInStep,
           HeaderKeepsInStep, ProcedureKeepsInStep, AllKeepsInStep, OneKeepsInStep, SW2KeepsInStep
           DEF T0Inv, T0Next
      <4>. QED BY <3>1, <4>1, <4>2 DEF T0Inv
    <3>. QED BY <3>2, <3>3
  <2>. QED BY <2>1, <2>2
<1>. QED BY <1>1, InitT0Inv, PTL DEF T0Spec

(* A transfer that was not given up returns the data of its own command,   *)
(* in order and complete, and its status, and leaves nothing on the line;  *)
(* the card gets the data of a write command once (AM_SMC_TransferT0),     *)
(* whatever the lengths, and in whatever pieces the card asks for them.    *)
THEOREM TransfersKeepStep == T0Spec => []T0Exchange
<1>1. T0Inv => T0Exchange BY DEF T0Inv, InStep, AtEnd, T0Exchange, Status
<1>. QED BY <1>1, T0Invariant, PTL
=============================================================================
