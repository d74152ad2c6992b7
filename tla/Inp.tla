-------------------------------- MODULE Inp --------------------------------
(***************************************************************************)
(* The input devices of am_inp.c: a thread waits for the events of the     *)
(* driver and calls a callback; clients replace the callback, disable and  *)
(* enable the device, also from the callback itself, and close it.         *)
(*                                                                         *)
(* INP_FL_RUN_CB is set, under dev->lock, from before the thread looks at  *)
(* dev->enable and dev->event_cb until the callback has returned; a client *)
(* that changes either of them waits until it is not set.                  *)
(*                                                                         *)
(* A callback stands for a function and its data: a client does not        *)
(* register a function it has registered with other data.                  *)
(***************************************************************************)
CONSTANTS
  InpClients,     \* threads that use the device
  InpCbs,         \* callbacks
  NoInpCb         \* NULL

ASSUME InpAssumption == NoInpCb \notin InpCbs

VARIABLES
  inpOpen,        \* dev->openned
  inpRun,         \* dev->enable_thread
  inpFlag,        \* dev->flags & INP_FL_RUN_CB
  inpEnable,      \* dev->enable
  inpCb,          \* dev->event_cb
  inpThread,      \* where the thread is
  inpCalled,      \* the callback that runs
  inpPc,          \* inpPc[c]: where client c is
  inpAsked,       \* inpAsked[c]: what it waits to do
  inpGone,        \* history: callbacks replaced by calls that waited
  inpQuiet        \* history: the device was disabled by a call that waited

inpDevice == <<inpOpen, inpRun, inpFlag, inpEnable, inpCb>>
inpVars   ==
  <<inpDevice, inpThread, inpCalled, inpPc, inpAsked, inpGone, inpQuiet>>

Requests == [op : {"enable"}, on : BOOLEAN] \cup [op : {"set"}, cb : InpCbs \cup {NoInpCb}]

NoRequest == [op |-> "none"]

InpTypeOK ==
  /\ inpOpen \in BOOLEAN /\ inpRun \in BOOLEAN /\ inpFlag \in BOOLEAN /\ inpEnable \in BOOLEAN
  /\ inpCb \in InpCbs \cup {NoInpCb} /\ inpCalled \in InpCbs \cup {NoInpCb}
  /\ inpThread \in {"none", "test", "wait", "mark", "call", "in", "clear", "wake", "exit"}
  /\ inpPc \in [InpClients -> {"idle", "wait", "woken", "join"}]
  /\ inpAsked \in [InpClients -> Requests \cup {NoRequest}]
  /\ inpGone \subseteq InpCbs /\ inpQuiet \in BOOLEAN

InpInit ==
  /\ inpOpen = FALSE /\ inpRun = FALSE /\ inpFlag = FALSE /\ inpEnable = FALSE
  /\ inpCb = NoInpCb /\ inpCalled = NoInpCb /\ inpThread = "none"
  /\ inpPc = [c \in InpClients |-> "idle"] /\ inpAsked = [c \in InpClients |-> NoRequest]
  /\ inpGone = {} /\ inpQuiet = FALSE

-----------------------------------------------------------------------------
(* The thread.                                                             *)
InpTest ==
  /\ inpThread = "test"
  /\ inpThread' = IF inpRun THEN "wait" ELSE "exit"
  /\ UNCHANGED <<inpDevice, inpCalled, inpPc, inpAsked, inpGone, inpQuiet>>

(* drv->wait: an event, or none until the timeout.                         *)
InpWait ==
  /\ inpThread = "wait"
  /\ inpThread' \in {"test", "mark"}
  /\ UNCHANGED <<inpDevice, inpCalled, inpPc, inpAsked, inpGone, inpQuiet>>

InpMark ==
  /\ inpThread = "mark"
  /\ inpFlag' = TRUE
  /\ inpThread' = "call"
  /\ UNCHANGED <<inpOpen, inpRun, inpEnable, inpCb, inpCalled, inpPc, inpAsked, inpGone, inpQuiet>>

(* A key the map does not know calls nothing.                              *)
InpCall ==
  /\ inpThread = "call"
  /\ \/ /\ inpEnable /\ inpCb # NoInpCb
        /\ inpThread' = "in" /\ inpCalled' = inpCb
     \/ inpThread' = "clear" /\ UNCHANGED inpCalled
  /\ UNCHANGED <<inpDevice, inpPc, inpAsked, inpGone, inpQuiet>>

(* The callback changes the device: inp_wait_cb does not wait.             *)
InpFromCb ==
  /\ inpThread = "in"
  /\ \/ \E cb \in InpCbs \cup {NoInpCb} :
          inpCb' = cb /\ inpGone' = inpGone \ {cb} /\ UNCHANGED <<inpEnable, inpQuiet>>
     \/ inpEnable' \in BOOLEAN /\ UNCHANGED <<inpCb, inpGone, inpQuiet>>
  /\ UNCHANGED <<inpOpen, inpRun, inpFlag, inpThread, inpCalled, inpPc, inpAsked>>

InpCbReturns ==
  /\ inpThread = "in"
  /\ inpThread' = "clear" /\ inpCalled' = NoInpCb
  /\ UNCHANGED <<inpDevice, inpPc, inpAsked, inpGone, inpQuiet>>

InpClear ==
  /\ inpThread = "clear"
  /\ inpFlag' = FALSE
  /\ inpThread' = "wake"
  /\ UNCHANGED <<inpOpen, inpRun, inpEnable, inpCb, inpCalled, inpPc, inpAsked, inpGone, inpQuiet>>

InpWake ==
  /\ inpThread = "wake"
  /\ inpThread' = "test"
  /\ inpPc' = [c \in InpClients |-> IF inpPc[c] = "wait" THEN "woken" ELSE inpPc[c]]
  /\ UNCHANGED <<inpDevice, inpCalled, inpAsked, inpGone, inpQuiet>>

InpThread ==
  InpTest \/ InpWait \/ InpMark \/ InpCall \/ InpCbReturns \/ InpClear \/ InpWake

-----------------------------------------------------------------------------
(* The clients.  am_gAdpLock is held by AM_INP_Close during its join.      *)

(* AM_INP_Open with the thread, whose callbacks these are.                 *)
InpOpen(c) ==
  /\ inpPc[c] = "idle" /\ ~inpOpen
  /\ inpOpen' = TRUE /\ inpRun' = TRUE /\ inpFlag' = FALSE /\ inpEnable' = TRUE
  /\ inpCb' = NoInpCb /\ inpThread' = "test"
  /\ inpGone' = inpGone \cup ({inpCb} \ {NoInpCb}) /\ inpQuiet' = FALSE
  /\ UNCHANGED <<inpCalled, inpPc, inpAsked>>

(* AM_INP_Close, up to pthread_join; not while another client is in a      *)
(* call.                                                                   *)
InpClose(c) ==
  /\ inpOpen /\ \A d \in InpClients : inpPc[d] = "idle"
  /\ inpRun' = FALSE
  /\ inpPc' = [inpPc EXCEPT ![c] = "join"]
  /\ UNCHANGED <<inpOpen, inpFlag, inpEnable, inpCb, inpThread, inpCalled, inpAsked, inpGone, inpQuiet>>

InpJoined(c) ==
  /\ inpPc[c] = "join" /\ inpThread = "exit"
  /\ inpOpen' = FALSE /\ inpThread' = "none"
  /\ inpPc' = [inpPc EXCEPT ![c] = "idle"]
  /\ UNCHANGED <<inpRun, inpFlag, inpEnable, inpCb, inpCalled, inpAsked, inpGone, inpQuiet>>

(* What a call changes once it need not wait.                              *)
Apply(request) ==
  \/ /\ request.op = "enable"
     /\ inpEnable' = request.on /\ inpQuiet' = ~request.on
     /\ UNCHANGED <<inpCb, inpGone>>
  \/ /\ request.op = "set"
     /\ inpCb' = request.cb
     /\ inpGone' = (inpGone \cup ({inpCb} \ {NoInpCb})) \ {request.cb}
     /\ UNCHANGED <<inpEnable, inpQuiet>>

(* Nothing is done, and nothing waited for, when there is nothing to       *)
(* change.                                                                 *)
Changes(request) ==
  \/ request.op = "enable" /\ inpEnable # request.on
  \/ request.op = "set" /\ inpCb # request.cb

(* AM_INP_Enable, AM_INP_Disable and AM_INP_SetCallback, up to their end   *)
(* or their wait; not during a close.                                      *)
InpRequest(c, request) ==
  /\ inpPc[c] = "idle" /\ inpOpen /\ \A d \in InpClients : inpPc[d] # "join"
  /\ Changes(request)
  /\ IF inpFlag
     THEN /\ inpPc' = [inpPc EXCEPT ![c] = "wait"]
          /\ inpAsked' = [inpAsked EXCEPT ![c] = request]
          /\ UNCHANGED <<inpEnable, inpCb, inpGone, inpQuiet>>
     ELSE Apply(request) /\ UNCHANGED <<inpPc, inpAsked>>
  /\ UNCHANGED <<inpOpen, inpRun, inpFlag, inpThread, inpCalled>>

(* Mutant: the flag is not tested again after the wait.                    *)
InpResumeOnce(c) ==
  /\ inpPc[c] = "woken"
  /\ Apply(inpAsked[c])
  /\ inpPc' = [inpPc EXCEPT ![c] = "idle"] /\ inpAsked' = [inpAsked EXCEPT ![c] = NoRequest]
  /\ UNCHANGED <<inpOpen, inpRun, inpFlag, inpThread, inpCalled>>

(* The loop of inp_wait_cb, and what follows; whether there is still       *)
(* something to change is not looked at again.                             *)
InpResume(c) ==
  /\ inpPc[c] = "woken"
  /\ IF inpFlag
     THEN /\ inpPc' = [inpPc EXCEPT ![c] = "wait"]
          /\ UNCHANGED <<inpAsked, inpEnable, inpCb, inpGone, inpQuiet>>
     ELSE /\ Apply(inpAsked[c])
          /\ inpPc' = [inpPc EXCEPT ![c] = "idle"]
          /\ inpAsked' = [inpAsked EXCEPT ![c] = NoRequest]
  /\ UNCHANGED <<inpOpen, inpRun, inpFlag, inpThread, inpCalled>>

InpClient(c) ==
  \/ InpOpen(c) \/ InpClose(c) \/ InpJoined(c) \/ InpResume(c)
  \/ \E request \in Requests : InpRequest(c, request)

InpNext == InpThread \/ InpFromCb \/ (\E c \in InpClients : InpClient(c))

InpSpec == InpInit /\ [][InpNext]_inpVars

(* drv->wait has a timeout, and callbacks return.                          *)
InpFairSpec ==
  InpSpec /\ WF_inpVars(InpThread) /\ \A c \in InpClients : WF_inpVars(InpJoined(c))

-----------------------------------------------------------------------------
(* A callback that AM_INP_SetCallback has replaced does not run any more   *)
(* when the call returns, and none runs once AM_INP_Disable has disabled   *)
(* the device, or AM_INP_Close has closed it.  What the callback itself    *)
(* has replaced or disabled runs to its end.                               *)
DisabledSilent ==
  /\ inpCalled \notin inpGone
  /\ inpQuiet /\ ~inpEnable => inpCalled = NoInpCb
  /\ ~inpOpen => inpCalled = NoInpCb

(* AM_INP_Close waits for the thread, with am_gAdpLock held.               *)
InpClosing == \E c \in InpClients : inpPc[c] = "join"
=============================================================================
