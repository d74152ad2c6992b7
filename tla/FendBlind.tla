------------------------------ MODULE FendBlind ------------------------------
(***************************************************************************)
(* The blind scan of am_fend.c: AM_FEND_BlindScan starts a thread that     *)
(* starts the scan in the tuner, collects the transponders it finds and    *)
(* tells a callback of them; AM_FEND_BlindExit stops and joins it.         *)
(*                                                                         *)
(* The events of the scan come through the same descriptor as those of the *)
(* monitor thread, which sleeps while enable_blindscan_thread is set; the  *)
(* flag is read and written without dev->lock.                             *)
(*                                                                         *)
(* A client does not begin a scan before it has left the last one, nor     *)
(* close the device meanwhile: the library does not look.                  *)
(***************************************************************************)
EXTENDS Integers

CONSTANT MaxTps   \* bound: transponders of a scan

ASSUME FendBlindAssumption == MaxTps \in Nat

VARIABLES
  bEnable,        \* dev->enable_blindscan_thread
  bStatus, bAt,   \* the scan thread: BS_Status, and where it is in the loop
  bEvent,         \* cur_bsevent
  hasCb,          \* dev->blindscan_cb # NULL
  tps,            \* bs_setting.m_uiChannelCount
  scanning,       \* the tuner is in its blind scan mode
  monitor,        \* the monitor thread: tests the flag, or waits for an event
  leaving,        \* a client is in AM_FEND_BlindExit
  told,           \* history: transponders the callback was told of
  taken           \* history: events of the scan the monitor thread has taken

blindVars == <<bEnable, bStatus, bAt, bEvent, hasCb, tps, scanning, monitor, leaving, told, taken>>

(* What the scan reports: the start of a range, progress below 100 and of  *)
(* 100, a transponder.                                                     *)
ScanEvents == {"startfreq", "half", "full", "result"}

FendBlindTypeOK ==
  /\ bEnable \in BOOLEAN /\ hasCb \in BOOLEAN /\ scanning \in BOOLEAN /\ leaving \in BOOLEAN
  /\ bStatus \in {"none", "init", "start", "wait", "user", "waitexit", "cancel", "exit"}
  /\ bAt \in {"test", "do", "cb"}
  /\ bEvent \in ScanEvents
  /\ tps \in 0 .. MaxTps /\ told \in 0 .. MaxTps
  /\ monitor \in {"test", "wait"} /\ taken \in Nat

FendBlindInit ==
  /\ bEnable = FALSE /\ bStatus = "none" /\ bAt = "test" /\ bEvent = "startfreq"
  /\ hasCb = FALSE /\ tps = 0 /\ scanning = FALSE
  /\ monitor = "test" /\ leaving = FALSE
  /\ told = 0 /\ taken = 0

-----------------------------------------------------------------------------
(* The scan thread.                                                        *)

(* The flag, when it is reset, overrules whatever was to be done next.     *)
TestBlind ==
  /\ bStatus \notin {"none", "exit"} /\ bAt = "test"
  /\ bStatus' = IF bEnable THEN bStatus ELSE "cancel"
  /\ bAt' = "do"
  /\ UNCHANGED <<bEnable, bEvent, hasCb, tps, scanning, monitor, leaving, told, taken>>

Turn(status) == bStatus' = status /\ bAt' = "test"

BeginScan ==
  /\ bAt = "do" /\ bStatus = "init"
  /\ Turn("start")
  /\ UNCHANGED <<bEnable, bEvent, hasCb, tps, scanning, monitor, leaving, told, taken>>

(* AM_FEND_IBlindScanAPI_Start, which may fail.                            *)
StartScan ==
  /\ bAt = "do" /\ bStatus = "start"
  /\ \/ Turn("wait") /\ scanning' = TRUE
     \/ Turn("exit") /\ UNCHANGED scanning
  /\ UNCHANGED <<bEnable, bEvent, hasCb, tps, monitor, leaving, told, taken>>

(* AM_FEND_IBlindScanAPI_GetScanEvent: no event in 200 ms, or one; a       *)
(* transponder is added to the list.                                       *)
GetScanEvent ==
  /\ bAt = "do" /\ bStatus = "wait"
  /\ \/ Turn("wait") /\ UNCHANGED <<bEvent, tps>>
     \/ /\ \E e \in ScanEvents : (e = "result" => tps < MaxTps) /\ bEvent' = e
        /\ tps' = IF bEvent' = "result" THEN tps + 1 ELSE tps
        /\ Turn("user")
  /\ UNCHANGED <<bEnable, hasCb, scanning, monitor, leaving, told, taken>>

(* What follows an event: progress of 100 ends the scan, and the thread    *)
(* waits for AM_FEND_BlindExit.  evt.process is set for the callback only: *)
(* without one it holds anything.                                          *)
AfterEvent ==
  \/ Turn("waitexit") /\ bEvent \in (IF hasCb THEN {"full"} ELSE {"half", "full"})
  \/ Turn("wait") /\ bEvent \in (IF hasCb THEN ScanEvents \ {"full"} ELSE ScanEvents)

UserProcess ==
  /\ bAt = "do" /\ bStatus = "user"
  /\ IF hasCb
     THEN /\ bAt' = "cb" /\ UNCHANGED bStatus
          /\ told' = IF bEvent = "result" THEN told + 1 ELSE told
     ELSE AfterEvent /\ UNCHANGED told
  /\ UNCHANGED <<bEnable, bEvent, hasCb, tps, scanning, monitor, leaving, taken>>

BlindCbReturns ==
  /\ bAt = "cb"
  /\ AfterEvent
  /\ UNCHANGED <<bEnable, bEvent, hasCb, tps, scanning, monitor, leaving, told, taken>>

WaitExit ==
  /\ bAt = "do" /\ bStatus = "waitexit"
  /\ Turn("waitexit")
  /\ UNCHANGED <<bEnable, bEvent, hasCb, tps, scanning, monitor, leaving, told, taken>>

(* AM_FEND_IBlindScanAPI_Exit, whose ioctl is taken to succeed.            *)
CancelScan ==
  /\ bAt = "do" /\ bStatus = "cancel"
  /\ scanning' = FALSE
  /\ Turn("exit")
  /\ UNCHANGED <<bEnable, bEvent, hasCb, tps, monitor, leaving, told, taken>>

ScanThread ==
  TestBlind \/ BeginScan \/ StartScan \/ GetScanEvent \/ UserProcess \/ BlindCbReturns
    \/ WaitExit \/ CancelScan

-----------------------------------------------------------------------------
(* Mutant: the monitor thread does not look at the flag.                   *)
MonitorTestNot ==
  /\ monitor = "test"
  /\ monitor' = "wait"
  /\ UNCHANGED <<bEnable, bStatus, bAt, bEvent, hasCb, tps, scanning, leaving, told, taken>>

(* fend_thread: it sleeps while the flag is set.                           *)
MonitorTest ==
  /\ monitor = "test" /\ ~bEnable
  /\ monitor' = "wait"
  /\ UNCHANGED <<bEnable, bStatus, bAt, bEvent, hasCb, tps, scanning, leaving, told, taken>>

(* Its wait ends, with an event of the scan when there is one, although    *)
(* the scan has begun meanwhile.                                           *)
MonitorReads ==
  /\ monitor = "wait"
  /\ monitor' = "test"
  /\ taken' \in {taken, IF scanning /\ bEnable THEN taken + 1 ELSE taken}
  /\ UNCHANGED <<bEnable, bStatus, bAt, bEvent, hasCb, tps, scanning, leaving, told>>

-----------------------------------------------------------------------------
(* AM_FEND_BlindScan                                                       *)
BlindScan ==
  /\ bStatus = "none" /\ ~leaving
  /\ hasCb' \in BOOLEAN
  /\ bEnable' = TRUE /\ bStatus' = "init" /\ bAt' = "test"
  /\ tps' = 0 /\ told' = 0 /\ taken' = 0
  /\ UNCHANGED <<bEvent, scanning, monitor, leaving>>

(* AM_FEND_BlindExit up to pthread_join, and its end.                      *)
BlindExit ==
  /\ bStatus # "none" /\ ~leaving
  /\ bEnable' = FALSE /\ leaving' = TRUE
  /\ UNCHANGED <<bStatus, bAt, bEvent, hasCb, tps, scanning, monitor, told, taken>>

BlindJoined ==
  /\ leaving /\ bStatus = "exit"
  /\ bStatus' = "none" /\ leaving' = FALSE
  /\ UNCHANGED <<bEnable, bAt, bEvent, hasCb, tps, scanning, monitor, told, taken>>

FendBlindNext ==
  ScanThread \/ MonitorTest \/ MonitorReads \/ BlindScan \/ BlindExit \/ BlindJoined

FendBlindSpec == FendBlindInit /\ [][FendBlindNext]_blindVars

(* The waits of the scan thread have timeouts, and callbacks return.       *)
FendBlindFairSpec == FendBlindSpec /\ WF_blindVars(ScanThread) /\ WF_blindVars(BlindJoined)

-----------------------------------------------------------------------------
(* Wherever AM_FEND_BlindExit comes in between, the tuner has left the     *)
(* scan when it returns; the callback has been told of every transponder   *)
(* of the list, but for one whose event the exit has overtaken; and the    *)
(* monitor thread, which tests the flag before its wait only, takes no     *)
(* more than one event away from the scan.                                 *)
BlindScanKept ==
  /\ bStatus = "none" => ~scanning
  /\ hasCb => told = tps \/ (told = tps - 1 /\ bEvent = "result" /\ (bStatus = "user" \/ ~bEnable))
  /\ taken <= 1
=============================================================================
