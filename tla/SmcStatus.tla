------------------------------ MODULE SmcStatus ------------------------------
(***************************************************************************)
(* The status thread of am_smc.c: it asks the driver for the status of the *)
(* smart card again and again and calls the callback when the status is    *)
(* not the one it called it with last.  Clients open and close the device  *)
(* and replace the callback, also from the callback itself.                *)
(*                                                                         *)
(* dev->lock makes each of the thread's accesses atomic, but it is not     *)
(* held while the callback runs: SMC_FL_RUN_CB is set meanwhile, and       *)
(* AM_SMC_SetCallback waits until it is not.                               *)
(***************************************************************************)
CONSTANTS
  SmcClients,     \* threads that use the device
  SmcCbs,         \* callbacks
  NoCb            \* NULL

ASSUME SmcStatusAssumption == NoCb \notin SmcCbs

(* AM_SMC_CardStatus_t, and what an int that nobody has set may hold.      *)
Statuses == {"out", "in", "unset"}

VARIABLES
  openned,        \* dev->openned
  enableSt,       \* dev->enable_thread
  runCbFlag,      \* dev->flags & SMC_FL_RUN_CB
  statusCb,       \* dev->cb
  stpc,           \* where the status thread is
  oldStatus,      \* old_status, -1 at first
  calledCb,       \* the callback that runs
  spc,            \* spc[c]: where client c is
  newCb,          \* newCb[c]: the callback it is registering
  gone            \* history: callbacks replaced by calls that have returned

smcDevice == <<openned, enableSt, runCbFlag, statusCb>>
smcVars   == <<smcDevice, stpc, oldStatus, calledCb, spc, newCb, gone>>

SmcStatusTypeOK ==
  /\ openned \in BOOLEAN /\ enableSt \in BOOLEAN /\ runCbFlag \in BOOLEAN
  /\ statusCb \in SmcCbs \cup {NoCb}
  /\ stpc \in {"none", "test", "get", "mark", "call", "in", "clear", "wake", "exit"}
  /\ oldStatus \in Statuses
  /\ calledCb \in SmcCbs \cup {NoCb}
  /\ spc \in [SmcClients -> {"idle", "wait", "woken", "join"}]
  /\ newCb \in [SmcClients -> SmcCbs \cup {NoCb}]
  /\ gone \subseteq SmcCbs

SmcStatusInit ==
  /\ openned = FALSE /\ enableSt = FALSE /\ runCbFlag = FALSE /\ statusCb = NoCb
  /\ stpc = "none" /\ oldStatus = "unset" /\ calledCb = NoCb
  /\ spc = [c \in SmcClients |-> "idle"] /\ newCb = [c \in SmcClients |-> NoCb]
  /\ gone = {}

-----------------------------------------------------------------------------
(* The status thread.                                                      *)

TestEnable ==
  /\ stpc = "test"
  /\ stpc' = IF enableSt THEN "get" ELSE "exit"
  /\ UNCHANGED <<smcDevice, oldStatus, calledCb, spc, newCb, gone>>

(* The card may have been moved.  When the driver fails, status is what    *)
(* an earlier turn left in it, or was never set.                           *)
GetStatus ==
  /\ stpc = "get"
  /\ \E status \in Statuses :
       /\ stpc' = IF status # oldStatus THEN "mark" ELSE "test"
       /\ oldStatus' = status
  /\ UNCHANGED <<smcDevice, calledCb, spc, newCb, gone>>

MarkRunCb ==
  /\ stpc = "mark"
  /\ runCbFlag' = TRUE
  /\ stpc' = "call"
  /\ UNCHANGED <<openned, enableSt, statusCb, oldStatus, calledCb, spc, newCb, gone>>

CallStatusCb ==
  /\ stpc = "call"
  /\ calledCb' = statusCb
  /\ stpc' = IF statusCb # NoCb THEN "in" ELSE "clear"
  /\ UNCHANGED <<smcDevice, oldStatus, spc, newCb, gone>>

(* The callback replaces itself: pthread_self() is the status thread, the  *)
(* call does not wait.                                                     *)
SetFromCb ==
  /\ stpc = "in"
  /\ \E cb \in SmcCbs \cup {NoCb} : statusCb' = cb /\ gone' = gone \ {cb}
  /\ UNCHANGED <<openned, enableSt, runCbFlag, stpc, oldStatus, calledCb, spc, newCb>>

StatusCbReturns ==
  /\ stpc = "in"
  /\ calledCb' = NoCb
  /\ stpc' = "clear"
  /\ UNCHANGED <<smcDevice, oldStatus, spc, newCb, gone>>

UnmarkRunCb ==
  /\ stpc = "clear"
  /\ runCbFlag' = FALSE
  /\ stpc' = "wake"
  /\ UNCHANGED <<openned, enableSt, statusCb, oldStatus, calledCb, spc, newCb, gone>>

WakeSetters ==
  /\ stpc = "wake"
  /\ stpc' = "test"
  /\ spc' = [c \in SmcClients |-> IF spc[c] = "wait" THEN "woken" ELSE spc[c]]
  /\ UNCHANGED <<smcDevice, oldStatus, calledCb, newCb, gone>>

StatusThread ==
  TestEnable \/ GetStatus \/ MarkRunCb \/ CallStatusCb \/ StatusCbReturns
    \/ UnmarkRunCb \/ WakeSetters

-----------------------------------------------------------------------------
(* The clients.                                                            *)

(* am_gAdpLock is held by AM_SMC_Close during its join.                    *)
AdpFree == \A c \in SmcClients : spc[c] # "join"

(* AM_SMC_Open, with the status thread or without: the callback of the     *)
(* last user is kept.                                                      *)
SmcOpen(c) ==
  /\ spc[c] = "idle" /\ AdpFree /\ ~openned
  /\ openned' = TRUE /\ enableSt' \in BOOLEAN /\ runCbFlag' = FALSE
  /\ stpc' = (IF enableSt' THEN "test" ELSE "none") /\ oldStatus' = "unset"
  /\ UNCHANGED <<statusCb, calledCb, spc, newCb, gone>>

(* AM_SMC_Close, up to pthread_join when there is a thread; not while      *)
(* another client is in a call.                                            *)
SmcClose(c) ==
  /\ openned /\ \A d \in SmcClients : spc[d] = "idle"
  /\ enableSt' = FALSE
  /\ IF enableSt
     THEN spc' = [spc EXCEPT ![c] = "join"] /\ UNCHANGED openned
     ELSE openned' = FALSE /\ UNCHANGED spc
  /\ UNCHANGED <<runCbFlag, statusCb, stpc, oldStatus, calledCb, newCb, gone>>

SmcJoined(c) ==
  /\ spc[c] = "join" /\ stpc = "exit"
  /\ openned' = FALSE /\ stpc' = "none"
  /\ spc' = [spc EXCEPT ![c] = "idle"]
  /\ UNCHANGED <<enableSt, runCbFlag, statusCb, oldStatus, calledCb, newCb, gone>>

Replace(cb) ==
  /\ statusCb' = cb
  /\ gone' = (gone \cup ({statusCb} \ {NoCb})) \ {cb}

(* AM_SMC_SetCallback, up to its end or its wait; not during a close.      *)
SetStatusCb(c, cb) ==
  /\ spc[c] = "idle" /\ openned /\ AdpFree
  /\ IF runCbFlag
     THEN /\ spc' = [spc EXCEPT ![c] = "wait"] /\ newCb' = [newCb EXCEPT ![c] = cb]
          /\ UNCHANGED <<statusCb, gone>>
     ELSE Replace(cb) /\ UNCHANGED <<spc, newCb>>
  /\ UNCHANGED <<openned, enableSt, runCbFlag, stpc, oldStatus, calledCb>>

(* Mutant: the flag is not tested again after the wait.                    *)
SetResumeOnce(c) ==
  /\ spc[c] = "woken"
  /\ Replace(newCb[c])
  /\ spc' = [spc EXCEPT ![c] = "idle"] /\ newCb' = [newCb EXCEPT ![c] = NoCb]
  /\ UNCHANGED <<openned, enableSt, runCbFlag, stpc, oldStatus, calledCb>>

SetResume(c) ==
  /\ spc[c] = "woken"
  /\ IF runCbFlag
     THEN spc' = [spc EXCEPT ![c] = "wait"] /\ UNCHANGED <<newCb, statusCb, gone>>
     ELSE /\ Replace(newCb[c])
          /\ spc' = [spc EXCEPT ![c] = "idle"] /\ newCb' = [newCb EXCEPT ![c] = NoCb]
  /\ UNCHANGED <<openned, enableSt, runCbFlag, stpc, oldStatus, calledCb>>

SmcClient(c) ==
  SmcOpen(c) \/ SmcClose(c) \/ SmcJoined(c) \/ (\E cb \in SmcCbs \cup {NoCb} : SetStatusCb(c, cb))
    \/ SetResume(c)

SmcStatusNext == StatusThread \/ SetFromCb \/ (\E c \in SmcClients : SmcClient(c))

SmcStatusSpec == SmcStatusInit /\ [][SmcStatusNext]_smcVars

-----------------------------------------------------------------------------
(* A callback that AM_SMC_SetCallback has replaced does not run any more   *)
(* when the call returns, nor does one after AM_SMC_Close: its user data   *)
(* may be freed.  One the callback itself has replaced runs to its end.    *)
ReplacedStatusSilent ==
  /\ calledCb \notin gone
  /\ ~openned => calledCb = NoCb

(* AM_SMC_SetCallback is not left waiting: the flag it waits on is set, or *)
(* the broadcast is still to come.                                         *)
NoSetterStuck ==
  \A c \in SmcClients : spc[c] = "wait" => runCbFlag \/ stpc = "wake"
=============================================================================
