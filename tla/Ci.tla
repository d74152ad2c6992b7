--------------------------------- MODULE Ci ---------------------------------
(***************************************************************************)
(* The common interface device of am_ci.c and the access of the CA manager *)
(* to it, ca_ci.c.  A thread polls the protocol stack, which calls back    *)
(* when the module says something: the callback notes what it said in the  *)
(* slot information and calls the application's or the CA manager's        *)
(* callback, all with ci->lock held.                                       *)
(*                                                                         *)
(* AM_CI_Stop and AM_CI_Close join the thread with ci->lock held, and the  *)
(* CA manager's calls take ca_ci->lock before ci->lock, its callback takes *)
(* them the other way round: a thread that has something to say is then    *)
(* not joined, and the two wait for each other.  AM_CI_Open has cleared    *)
(* ci->lock: it is not recursive any more, and callbacks do not call.      *)
(*                                                                         *)
(* The seven callbacks are one.  A slot is opened once: AM_CI_Close leaves *)
(* it used, and opening a used one gives an uninitialised handle.          *)
(***************************************************************************)
CONSTANTS
  CiClients,      \* threads of the application
  CiCbs,          \* its callbacks
  CaCb,           \* the callback of the CA manager
  NoCiCb          \* NULL

ASSUME CiAssumption ==
  /\ CaCb \notin CiCbs /\ NoCiCb \notin CiCbs \cup {CaCb}
  /\ CiClients \cap {"nobody", "cam", "ca"} = {}

VARIABLES
  ciStatus, ciUsed, caman, ciQuit, ciCb,
                  \* ci->status, used, used_by_caman, camthread_quit, ai_cb
  stdcam, slotInfo,   \* whether ci->stdcam and ci->slot_info are there
  ciLock, caLock,     \* who holds ci->lock and ca_ci->lock between two steps
  cam,            \* where the thread is
  ciCalled,       \* the callback it runs
  ciPc,           \* ciPc[c]: whether client c joins it, and for what
  caPc,           \* where the CA manager is
  overtaken       \* history: the device was closed while the CA manager was
                  \* opening it

ciDevice == <<ciStatus, ciUsed, caman, ciQuit, ciCb>>
ciStack  == <<stdcam, slotInfo>>
ciVars   ==
  <<ciDevice, ciStack, ciLock, caLock, cam, ciCalled, ciPc, caPc, overtaken>>

Registrable == CiCbs \cup {NoCiCb}

CiTypeOK ==
  /\ ciStatus \in {"closed", "open", "started"}
  /\ ciUsed \in BOOLEAN /\ caman \in BOOLEAN /\ ciQuit \in BOOLEAN
  /\ ciCb \in Registrable \cup {CaCb} /\ ciCalled \in Registrable \cup {CaCb}
  /\ stdcam \in BOOLEAN /\ slotInfo \in BOOLEAN
  /\ ciLock \in CiClients \cup {"nobody", "cam", "ca"} /\ caLock \in {"nobody", "cam", "ca"}
  /\ cam \in {"none", "test", "poll", "lock", "send", "cb", "over"}
  /\ ciPc \in [CiClients -> {"idle", "stop", "close"}]
  /\ caPc \in {"idle", "set", "start", "keep", "clear", "unkeep", "stop", "join", "call"}
  /\ overtaken \in BOOLEAN

CiInit ==
  /\ ciStatus = "closed" /\ ciUsed = FALSE /\ caman = FALSE /\ ciQuit = FALSE /\ ciCb = NoCiCb
  /\ stdcam = FALSE /\ slotInfo = FALSE /\ ciLock = "nobody" /\ caLock = "nobody"
  /\ cam = "none" /\ ciCalled = NoCiCb
  /\ ciPc = [c \in CiClients |-> "idle"] /\ caPc = "idle" /\ overtaken = FALSE

-----------------------------------------------------------------------------
(* The thread.                                                             *)
CamTest ==
  /\ cam = "test" /\ cam' = IF ciQuit THEN "over" ELSE "poll"
  /\ UNCHANGED <<ciDevice, ciStack, ciLock, caLock, ciCalled, ciPc, caPc, overtaken>>

CamPoll ==
  /\ cam = "poll" /\ cam' \in {"test", "lock"}
  /\ UNCHANGED <<ciDevice, ciStack, ciLock, caLock, ciCalled, ciPc, caPc, overtaken>>

(* The stack's callback, to the call of the registered one.                *)
CamCalls ==
  /\ cam = "lock" /\ ciLock = "nobody"
  /\ ciLock' = "cam"
  /\ ciCalled' = ciCb /\ cam' = IF ciCb = CaCb THEN "send" ELSE "cb"
  /\ UNCHANGED <<ciDevice, ciStack, caLock, ciPc, caPc, overtaken>>

(* The CA manager's callback sends its message with ca_ci->lock held.      *)
CamSends ==
  /\ cam = "send" /\ caLock = "nobody"
  /\ caLock' = "cam" /\ cam' = "cb"
  /\ UNCHANGED <<ciDevice, ciStack, ciLock, ciCalled, ciPc, caPc, overtaken>>

CamReturns ==
  /\ cam = "cb" /\ cam' = "poll"
  /\ ciLock' = "nobody" /\ ciCalled' = NoCiCb
  /\ caLock' = IF caLock = "cam" THEN "nobody" ELSE caLock
  /\ UNCHANGED <<ciDevice, ciStack, ciPc, caPc, overtaken>>

CamThread == CamTest \/ CamPoll \/ CamCalls \/ CamSends \/ CamReturns

-----------------------------------------------------------------------------
(* AM_CI_Start, which changes nothing when the device is not just open, or *)
(* when the stack cannot be made.                                          *)
Started ==
  \/ /\ ciStatus = "open"
     /\ ciStatus' = "started" /\ stdcam' = TRUE /\ slotInfo' = TRUE /\ cam' = "test"
  \/ UNCHANGED <<ciStatus, ciStack, cam>>

(* AM_CI_Stop and AM_CI_Close of a started device, to the join.            *)
JoinBegins(who) ==
  /\ ciStatus = "started" /\ ~caman
  /\ ciLock' = who /\ ciQuit' = TRUE

(* Mutant: the stack is destroyed at once.                                 *)
JoinEndsEarly ==
  /\ cam' = IF cam = "over" THEN "none" ELSE cam
  /\ stdcam' = FALSE /\ slotInfo' = FALSE /\ ciLock' = "nobody"

(* From the join: the stack and the slot information are freed.            *)
JoinEnds ==
  /\ cam = "over" /\ cam' = "none"
  /\ stdcam' = FALSE /\ slotInfo' = FALSE /\ ciLock' = "nobody"

-----------------------------------------------------------------------------
(* The application.                                                        *)
CiOpen ==
  /\ ~ciUsed /\ ciUsed' = TRUE /\ ciStatus' = "open"
  /\ UNCHANGED <<caman, ciQuit, ciCb, ciStack, ciLock, caLock, cam, ciCalled, ciPc, caPc, overtaken>>

CiSetCallback ==
  /\ ciLock = "nobody" /\ ciStatus # "closed"
  /\ ciCb' \in Registrable
  /\ UNCHANGED <<ciStatus, ciUsed, caman, ciQuit, ciStack, ciLock, caLock, cam, ciCalled, ciPc, caPc,
                 overtaken>>

CiStart ==
  /\ ciLock = "nobody" /\ Started
  /\ UNCHANGED <<ciUsed, caman, ciQuit, ciCb, ciLock, caLock, ciCalled, ciPc, caPc, overtaken>>

CiStop(c) ==
  /\ ciPc[c] = "idle" /\ ciLock = "nobody"
  /\ JoinBegins(c) /\ \E op \in {"stop", "close"} : ciPc' = [ciPc EXCEPT ![c] = op]
  /\ UNCHANGED <<ciStatus, ciUsed, caman, ciCb, ciStack, caLock, cam, ciCalled, caPc, overtaken>>

CiStopped(c) ==
  /\ ciPc[c] # "idle" /\ JoinEnds
  /\ ciPc' = [ciPc EXCEPT ![c] = "idle"]
  /\ ciStatus' = IF ciPc[c] = "stop" THEN "open" ELSE "closed"
  /\ overtaken' = (overtaken \/ (ciPc[c] = "close" /\ caPc \in {"start", "keep"}))
  /\ UNCHANGED <<ciUsed, caman, ciQuit, ciCb, caLock, ciCalled, caPc>>

(* AM_CI_Close of a device that is not started.                            *)
CiClose ==
  /\ ciLock = "nobody" /\ ciStatus = "open" /\ ~caman
  /\ ciStatus' = "closed" /\ overtaken' = (overtaken \/ caPc \in {"start", "keep"})
  /\ UNCHANGED <<ciUsed, caman, ciQuit, ciCb, ciStack, ciLock, caLock, cam, ciCalled, ciPc, caPc>>

CiApplication ==
  \/ CiOpen \/ CiSetCallback \/ CiStart \/ CiClose
  \/ \E c \in CiClients : CiStop(c) \/ CiStopped(c)

-----------------------------------------------------------------------------
(* The CA manager: ca_ci_open, ca_ci_close and the calls that pass a PMT   *)
(* on or ask something, each with ca_ci->lock held from here on.           *)
CaBegins ==
  /\ caPc = "idle" /\ ciUsed /\ caLock = "nobody"
  /\ caLock' = "ca" /\ caPc' \in {"set", "clear", "call"}
  /\ UNCHANGED <<ciDevice, ciStack, ciLock, cam, ciCalled, ciPc, overtaken>>

CaEnds == caPc' = "idle" /\ caLock' = "nobody"

(* ca_ci_open registers the callbacks, and gives up if it cannot;          *)
CaSets ==
  /\ caPc = "set" /\ ciLock = "nobody"
  /\ IF ciStatus # "closed" THEN ciCb' = CaCb /\ caPc' = "start" /\ UNCHANGED caLock
     ELSE CaEnds /\ UNCHANGED ciCb
  /\ UNCHANGED <<ciStatus, ciUsed, caman, ciQuit, ciStack, ciLock, cam, ciCalled, ciPc, overtaken>>

(* it starts the device, whether that succeeds or not,                     *)
CaStarts ==
  /\ caPc = "start" /\ ciLock = "nobody"
  /\ Started /\ caPc' = "keep"
  /\ UNCHANGED <<ciUsed, caman, ciQuit, ciCb, ciLock, caLock, ciCalled, ciPc, overtaken>>

(* and keeps it from being stopped.                                        *)
CaKeeps ==
  /\ caPc = "keep" /\ ciLock = "nobody"
  /\ caman' = TRUE /\ CaEnds
  /\ UNCHANGED <<ciStatus, ciUsed, ciQuit, ciCb, ciStack, ciLock, cam, ciCalled, ciPc, overtaken>>

(* ca_ci_close: the callbacks, the mark, the stop.                         *)
CaClears ==
  /\ caPc = "clear" /\ ciLock = "nobody" /\ caPc' = "unkeep"
  /\ ciCb' = IF ciStatus # "closed" THEN NoCiCb ELSE ciCb
  /\ UNCHANGED <<ciStatus, ciUsed, caman, ciQuit, ciStack, ciLock, caLock, cam, ciCalled, ciPc,
                 overtaken>>

CaUnkeeps ==
  /\ caPc = "unkeep" /\ ciLock = "nobody" /\ caPc' = "stop"
  /\ caman' = FALSE
  /\ UNCHANGED <<ciStatus, ciUsed, ciQuit, ciCb, ciStack, ciLock, caLock, cam, ciCalled, ciPc,
                 overtaken>>

CaStops ==
  /\ caPc = "stop" /\ ciLock = "nobody"
  /\ \/ JoinBegins("ca") /\ caPc' = "join" /\ UNCHANGED caLock
     \/ ciStatus # "started" /\ CaEnds /\ UNCHANGED <<ciLock, ciQuit>>
  /\ UNCHANGED <<ciStatus, ciUsed, caman, ciCb, ciStack, cam, ciCalled, ciPc, overtaken>>

CaStopped ==
  /\ caPc = "join" /\ JoinEnds
  /\ ciStatus' = "open" /\ CaEnds
  /\ UNCHANGED <<ciUsed, caman, ciQuit, ciCb, ciCalled, ciPc, overtaken>>

CaCalls ==
  /\ caPc = "call" /\ ciLock = "nobody" /\ CaEnds
  /\ UNCHANGED <<ciDevice, ciStack, ciLock, cam, ciCalled, ciPc, overtaken>>

CaManager ==
  \/ CaBegins \/ CaSets \/ CaStarts \/ CaKeeps \/ CaClears \/ CaUnkeeps \/ CaStops \/ CaStopped
  \/ CaCalls

CiNext == CamThread \/ CiApplication \/ CaManager

CiSpec == CiInit /\ [][CiNext]_ciVars

(* The stack's poll has a timeout, and callbacks return.                   *)
CiFairSpec ==
  CiSpec /\ WF_ciVars(CamThread) /\ WF_ciVars(CaStopped)
         /\ \A c \in CiClients : WF_ciVars(CiStopped(c))

-----------------------------------------------------------------------------
(* What the thread uses, the stack and the slot information, is there as   *)
(* long as it runs, whoever stops the device; the callback it runs is the  *)
(* one registered, also when AM_CI_SetCallback has just returned; and the  *)
(* application cannot close a device the CA manager has opened, unless it  *)
(* has closed it in the middle of ca_ci_open.                              *)
CiKept ==
  /\ cam \in {"test", "poll", "lock", "send", "cb"} => stdcam /\ slotInfo
  /\ ciCalled \in {ciCb, NoCiCb}
  /\ caman /\ ~overtaken => ciStatus # "closed"

(* AM_CI_Stop or AM_CI_Close waits for a thread that does not wait for it. *)
CiStopping == cam # "lock" /\ ((\E c \in CiClients : ciPc[c] # "idle") \/ caPc = "join")
=============================================================================
