---------------------------- MODULE DevicesProofs ----------------------------
(***************************************************************************)
(* Theorems about the devices that share no state with another, one        *)
(* section for each, for every value of the constants of their modules.    *)
(***************************************************************************)
EXTENDS Devices, MediaProofs, SmcProofs, ParsersProofs, TLAPS, WellFoundedInduction

-----------------------------------------------------------------------------
(* Inp.  The flag covers the callback; a callback that a client's call has *)
(* replaced is neither registered nor running, and as long as the device   *)
(* is quiet none runs, nor can one begin.                                  *)
InpInv ==
  /\ InpTypeOK
  /\ inpThread \in {"call", "in", "clear"} => inpFlag
  /\ inpCalled # NoInpCb => inpThread = "in"
  /\ ~inpOpen => inpThread = "none"
  /\ inpCb \notin inpGone /\ inpCalled \notin inpGone
  /\ inpQuiet => ~inpEnable /\ inpThread # "in"

LEMMA InitInpInv == InpInit => InpInv
BY InpAssumption DEF InpInit, InpInv, InpTypeOK

(* The steps of the thread, and of the callback it runs.                   *)
LEMMA ThreadKeepsInpInv == ASSUME InpInv, InpThread \/ InpFromCb PROVE InpInv'
<1>. USE InpAssumption DEF InpInv, InpTypeOK, inpDevice
<1>1. CASE InpTest      BY <1>1 DEF InpTest
<1>2. CASE InpWait      BY <1>2 DEF InpWait
<1>3. CASE InpMark      BY <1>3 DEF InpMark
<1>4. CASE InpCall      BY <1>4 DEF InpCall
<1>5. CASE InpFromCb    BY <1>5 DEF InpFromCb
<1>6. CASE InpCbReturns BY <1>6 DEF InpCbReturns
<1>7. CASE InpClear     BY <1>7 DEF InpClear
<1>8. CASE InpWake      BY <1>8 DEF InpWake
<1>. QED BY <1>1, <1>2, <1>3, <1>4, <1>5, <1>6, <1>7, <1>8 DEF InpThread

(* What a request changes, when no callback runs.                          *)
LEMMA AppliedRequest ==
  ASSUME InpInv, ~inpFlag, NEW r \in Requests \cup {NoRequest}, Apply(r),
         UNCHANGED <<inpFlag, inpThread, inpCalled>>
  PROVE  /\ inpEnable' \in BOOLEAN /\ inpQuiet' \in BOOLEAN
         /\ inpCb' \in InpCbs \cup {NoInpCb} /\ inpGone' \subseteq InpCbs
         /\ inpCb' \notin inpGone' /\ inpCalled' \notin inpGone'
         /\ inpQuiet' => ~inpEnable' /\ inpThread' # "in"
<1>1. CASE /\ r.op = "enable"
           /\ inpEnable' = r.on /\ inpQuiet' = ~r.on /\ UNCHANGED <<inpCb, inpGone>>
  <2>1. r.on \in BOOLEAN BY <1>1 DEF Requests, NoRequest
  <2>. QED BY <1>1, <2>1 DEF InpInv, InpTypeOK
<1>2. CASE /\ r.op = "set"
           /\ inpCb' = r.cb /\ inpGone' = (inpGone \cup ({inpCb} \ {NoInpCb})) \ {r.cb}
           /\ UNCHANGED <<inpEnable, inpQuiet>>
  <2>1. r.cb \in InpCbs \cup {NoInpCb} BY <1>2 DEF Requests, NoRequest
  <2>. QED BY <1>2, <2>1, InpAssumption DEF InpInv, InpTypeOK
<1>. QED BY <1>1, <1>2 DEF Apply

LEMMA ClientKeepsInpInv == ASSUME InpInv, NEW c \in InpClients, InpClient(c) PROVE InpInv'
<1>1. CASE InpOpen(c)   BY <1>1, InpAssumption DEF InpOpen, InpInv, InpTypeOK
<1>2. CASE InpClose(c)  BY <1>2 DEF InpClose, InpInv, InpTypeOK
<1>3. CASE InpJoined(c) BY <1>3, InpAssumption DEF InpJoined, InpInv, InpTypeOK
<1>4. CASE InpResume(c)
  <2>1. CASE inpFlag BY <1>4, <2>1 DEF InpResume, InpInv, InpTypeOK
  <2>2. CASE ~inpFlag
    <3>1. inpAsked[c] \in Requests \cup {NoRequest} BY DEF InpInv, InpTypeOK
    <3>. QED BY <1>4, <2>2, <3>1, AppliedRequest DEF InpResume, InpInv, InpTypeOK
  <2>. QED BY <2>1, <2>2
<1>5. ASSUME NEW r \in Requests, InpRequest(c, r) PROVE InpInv'
  <2>1. CASE inpFlag BY <1>5, <2>1 DEF InpRequest, InpInv, InpTypeOK
  <2>2. CASE ~inpFlag BY <1>5, <2>2, AppliedRequest DEF InpRequest, InpInv, InpTypeOK
  <2>. QED BY <2>1, <2>2
<1>. QED BY <1>1, <1>2, <1>3, <1>4, <1>5 DEF InpClient

LEMMA InpInvariant == InpSpec => []InpInv
<1>1. InpInv /\ [InpNext]_inpVars => InpInv'
  <2>1. InpInv /\ UNCHANGED inpVars => InpInv' BY DEF inpVars, inpDevice, InpInv, InpTypeOK
  <2>. QED BY <2>1, ThreadKeepsInpInv, ClientKeepsInpInv DEF InpNext
<1>. QED BY <1>1, InitInpInv, PTL DEF InpSpec

(* am_inp.c: a callback that AM_INP_SetCallback has replaced does not run  *)
(* after it, none runs when AM_INP_Disable has returned, and none in a     *)
(* closed device, for every number of clients and callbacks.               *)
THEOREM ReplacedAreSilent == InpSpec => []DisabledSilent
<1>1. InpInv => DisabledSilent BY DEF InpInv, DisabledSilent
<1>. QED BY <1>1, InpInvariant, PTL

(* How far the event thread is from its end, when it is told to end.       *)
InpDistance ==
  CASE inpThread \in {"none", "exit"} -> 0
    [] inpThread = "test"             -> 1
    [] inpThread = "wake"             -> 2
    [] inpThread = "clear"            -> 3
    [] inpThread = "in"               -> 4
    [] inpThread = "call"             -> 5
    [] inpThread = "mark"             -> 6
    [] inpThread = "wait"             -> 7

(* The client in AM_INP_Close is alone, and the thread is told to end.     *)
InpCloseInv ==
  /\ inpOpen => inpThread # "none"
  /\ \A c \in InpClients :
       inpPc[c] = "join" => /\ ~inpRun /\ inpOpen
                            /\ \A d \in InpClients \ {c} : inpPc[d] = "idle"

LEMMA NextKeepsInpCloseInv ==
  ASSUME InpInv, InpCloseInv, [InpNext]_inpVars PROVE InpCloseInv'
<1>. USE DEF InpCloseInv, InpInv, InpTypeOK, inpDevice
<1>1. CASE InpTest      BY <1>1 DEF InpTest
<1>2. CASE InpWait      BY <1>2 DEF InpWait
<1>3. CASE InpMark      BY <1>3 DEF InpMark
<1>4. CASE InpCall      BY <1>4 DEF InpCall
<1>5. CASE InpFromCb    BY <1>5 DEF InpFromCb
<1>6. CASE InpCbReturns BY <1>6 DEF InpCbReturns
<1>7. CASE InpClear     BY <1>7 DEF InpClear
<1>8. CASE InpWake      BY <1>8 DEF InpWake
<1>9. ASSUME NEW c \in InpClients, InpClient(c) PROVE InpCloseInv'
  <2>1. CASE InpOpen(c)   BY <2>1 DEF InpOpen
  <2>2. CASE InpClose(c)  BY <2>2 DEF InpClose
  <2>3. CASE InpJoined(c) BY <2>3 DEF InpJoined
  <2>4. CASE InpResume(c) BY <2>4 DEF InpResume
  <2>5. ASSUME NEW r \in Requests, InpRequest(c, r) PROVE InpCloseInv'
    BY <2>5 DEF InpRequest
  <2>. QED BY <1>9, <2>1, <2>2, <2>3, <2>4, <2>5 DEF InpClient
<1>10. CASE UNCHANGED inpVars BY <1>10 DEF inpVars
<1>. QED BY <1>1, <1>2, <1>3, <1>4, <1>5, <1>6, <1>7, <1>8, <1>9, <1>10 DEF InpNext, InpThread

LEMMA InpCloseInvariant == InpSpec => []InpCloseInv
<1>1. InpInit => InpCloseInv BY DEF InpInit, InpCloseInv
<1>2. InpInv /\ InpCloseInv /\ [InpNext]_inpVars => InpCloseInv'
  BY NextKeepsInpCloseInv
<1>. QED BY <1>1, <1>2, InpInvariant, PTL DEF InpSpec

LEMMA InpNothingDelays ==
  ASSUME InpInv, InpCloseInv, InpClosing, [InpNext]_inpVars
  PROVE  InpDistance' <= InpDistance /\ (InpThread => InpDistance' < InpDistance)
<1>0. PICK n : n = InpDistance OBVIOUS
<1>1. n \in Nat BY <1>0 DEF InpDistance, InpInv, InpTypeOK
<1>2. inpThread # "none" /\ ~inpRun BY DEF InpClosing, InpCloseInv
<1>3. CASE InpThread
  <2>. USE DEF InpDistance
  <2>1. CASE InpTest      BY <1>2, <2>1 DEF InpTest
  <2>2. CASE InpWait      BY <2>2 DEF InpWait
  <2>3. CASE InpMark      BY <2>3 DEF InpMark
  <2>4. CASE InpCall      BY <2>4 DEF InpCall
  <2>5. CASE InpCbReturns BY <2>5 DEF InpCbReturns
  <2>6. CASE InpClear     BY <2>6 DEF InpClear
  <2>7. CASE InpWake      BY <2>7 DEF InpWake
  <2>. QED BY <1>3, <2>1, <2>2, <2>3, <2>4, <2>5, <2>6, <2>7 DEF InpThread
<1>4. ASSUME UNCHANGED inpThread PROVE InpDistance' <= InpDistance /\ ~InpThread
  <2>1. InpDistance' = InpDistance BY <1>4 DEF InpDistance
  <2>2. ~InpThread
    BY <1>4 DEF InpThread, InpTest, InpWait, InpMark, InpCall, InpCbReturns, InpClear, InpWake
  <2>. QED BY <1>0, <1>1, <2>1, <2>2
<1>5. ASSUME NEW c \in InpClients, InpClient(c), ~InpThread
      PROVE  InpDistance' <= InpDistance
  <2>1. CASE InpJoined(c)
    <3>1. InpDistance' = 0 BY <2>1 DEF InpJoined, InpDistance
    <3>. QED BY <1>0, <1>1, <3>1
  <2>2. CASE ~InpJoined(c)
    <3>1. ~InpOpen(c) BY DEF InpOpen, InpClosing, InpCloseInv
    <3>2. UNCHANGED inpThread
      BY <1>5, <2>2, <3>1 DEF InpClient, InpClose, InpRequest, InpResume
    <3>. QED BY <1>4, <3>2
  <2>. QED BY <2>1, <2>2
<1>6. CASE InpFromCb BY <1>4, <1>6 DEF InpFromCb
<1>7. CASE UNCHANGED inpVars BY <1>4, <1>7 DEF inpVars
<1>. QED BY <1>3, <1>5, <1>6, <1>7 DEF InpNext

(* While a client closes, the thread comes nearer, and nothing takes it    *)
(* further.                                                                *)
InpCloseNears ==
  [][InpClosing => /\ InpDistance' <= InpDistance
                   /\ InpThread => InpDistance' < InpDistance]_inpVars

(* Meanwhile it is so many steps away at most, and none at its end only.   *)
InpCloseBounded ==
  InpClosing => InpDistance \in 0 .. 7 /\ (InpDistance = 0 <=> inpThread = "exit")

(* AM_INP_Close joins the event thread with am_gAdpLock held: no call, of  *)
(* a client or of the callback, takes the thread further from its end, and *)
(* it has seven steps to make at most.                                     *)
THEOREM InpCloseComesNearer == InpSpec => []InpCloseBounded /\ InpCloseNears
<1>1. InpInv /\ InpCloseInv => InpCloseBounded
  BY DEF InpInv, InpTypeOK, InpCloseInv, InpClosing, InpCloseBounded, InpDistance
<1>2. InpInv /\ InpCloseInv /\ [InpNext]_inpVars
        => [InpClosing => /\ InpDistance' <= InpDistance
                          /\ InpThread => InpDistance' < InpDistance]_inpVars
  BY InpNothingDelays
<1>. QED BY <1>1, <1>2, InpInvariant, InpCloseInvariant, PTL DEF InpSpec, InpCloseNears

(* A client that waits in inp_wait_cb keeps the device open, and the flag  *)
(* or the broadcast is ahead of it.                                        *)
InpNoLostWakeup ==
  \A c \in InpClients : /\ inpPc[c] \in {"wait", "woken"} => inpOpen
                        /\ inpPc[c] = "wait" => inpFlag \/ inpThread = "wake"

LEMMA NextKeepsInpWakeup ==
  ASSUME InpInv, InpCloseInv, InpNoLostWakeup, [InpNext]_inpVars PROVE InpNoLostWakeup'
<1>. USE DEF InpNoLostWakeup, InpInv, InpTypeOK, inpDevice
<1>1. CASE InpTest      BY <1>1 DEF InpTest
<1>2. CASE InpWait      BY <1>2 DEF InpWait
<1>3. CASE InpMark      BY <1>3 DEF InpMark
<1>4. CASE InpCall      BY <1>4 DEF InpCall
<1>5. CASE InpFromCb    BY <1>5 DEF InpFromCb
<1>6. CASE InpCbReturns BY <1>6 DEF InpCbReturns
<1>7. CASE InpClear     BY <1>7 DEF InpClear
<1>8. CASE InpWake      BY <1>8 DEF InpWake
<1>9. ASSUME NEW c \in InpClients, InpClient(c) PROVE InpNoLostWakeup'
  <2>1. CASE InpOpen(c)   BY <2>1 DEF InpOpen
  <2>2. CASE InpClose(c)  BY <2>2 DEF InpClose
  <2>3. CASE InpJoined(c) BY <2>3 DEF InpJoined, InpCloseInv
  <2>4. CASE InpResume(c) BY <2>4 DEF InpResume
  <2>5. ASSUME NEW r \in Requests, InpRequest(c, r) PROVE InpNoLostWakeup'
    BY <2>5 DEF InpRequest
  <2>. QED BY <1>9, <2>1, <2>2, <2>3, <2>4, <2>5 DEF InpClient
<1>10. CASE UNCHANGED inpVars BY <1>10 DEF inpVars
<1>. QED BY <1>1, <1>2, <1>3, <1>4, <1>5, <1>6, <1>7, <1>8, <1>9, <1>10 DEF InpNext, InpThread

(* No client is left asleep in AM_INP_Enable, AM_INP_Disable or            *)
(* AM_INP_SetCallback: the flag is reset in one critical section and the   *)
(* broadcast made after it, and who waits keeps the device from a reopen.  *)
THEOREM InpNoWakeupIsLost == InpSpec => []InpNoLostWakeup
<1>1. InpInit => InpNoLostWakeup BY DEF InpInit, InpNoLostWakeup
<1>2. InpInv /\ InpCloseInv /\ InpNoLostWakeup /\ [InpNext]_inpVars => InpNoLostWakeup'
  BY NextKeepsInpWakeup
<1>. QED BY <1>1, <1>2, InpInvariant, InpCloseInvariant, PTL DEF InpSpec

-----------------------------------------------------------------------------
(* Ci.  The thread holds ci->lock while it calls, and a call that joins it *)
(* holds the lock up to the end of the thread; such a call is not begun,   *)
(* nor is one pending, when the CA manager keeps the device.  From its     *)
(* registration to its mark the CA manager finds the device open, unless   *)
(* it was overtaken.                                                       *)
CiInv ==
  /\ CiTypeOK /\ CiKept
  /\ cam \in {"send", "cb"} => ciLock = "cam"
  /\ ciCalled # NoCiCb => cam \in {"send", "cb"}
  /\ \A c \in CiClients : ciPc[c] # "idle" => ciLock = c /\ ~caman
  /\ caPc = "join" => ciLock = "ca"
  /\ caPc \in {"start", "keep"} /\ ~overtaken => ciStatus # "closed"

LEMMA InitCiInv == CiInit => CiInv
BY DEF CiInit, CiInv, CiTypeOK, CiKept, Registrable

LEMMA CamKeepsCiInv == ASSUME CiInv, CamThread PROVE CiInv'
<1>. USE CiAssumption DEF CiInv, CiTypeOK, CiKept, Registrable, ciDevice, ciStack
<1>1. CASE CamTest    BY <1>1 DEF CamTest
<1>2. CASE CamPoll    BY <1>2 DEF CamPoll
<1>3. CASE CamCalls   BY <1>3 DEF CamCalls
<1>4. CASE CamSends   BY <1>4 DEF CamSends
<1>5. CASE CamReturns BY <1>5 DEF CamReturns
<1>. QED BY <1>1, <1>2, <1>3, <1>4, <1>5 DEF CamThread

LEMMA ApplicationKeepsCiInv == ASSUME CiInv, CiApplication PROVE CiInv'
<1>. USE CiAssumption DEF CiInv, CiTypeOK, CiKept, Registrable, ciDevice, ciStack
<1>1. CASE CiOpen        BY <1>1 DEF CiOpen
<1>2. CASE CiSetCallback BY <1>2 DEF CiSetCallback
<1>3. CASE CiStart
  <2>1. CASE UNCHANGED <<ciStatus, ciStack, cam>> BY <1>3, <2>1 DEF CiStart
  <2>2. CASE ciStatus = "open" /\ ciStatus' = "started" /\ stdcam' /\ slotInfo' /\ cam' = "test"
    BY <1>3, <2>2 DEF CiStart
  <2>. QED BY <1>3, <2>1, <2>2 DEF CiStart, Started
<1>4. CASE CiClose
  <2>1. overtaken' \in BOOLEAN /\ (~overtaken' => ~overtaken /\ caPc \notin {"start", "keep"})
    BY <1>4 DEF CiClose
  <2>. QED BY <1>4, <2>1 DEF CiClose
<1>5. ASSUME NEW c \in CiClients, CiStop(c) PROVE CiInv'
  BY <1>5 DEF CiStop, JoinBegins
<1>6. ASSUME NEW c \in CiClients, CiStopped(c) PROVE CiInv'
  BY <1>6 DEF CiStopped, JoinEnds
<1>. QED BY <1>1, <1>2, <1>3, <1>4, <1>5, <1>6 DEF CiApplication

LEMMA ManagerKeepsCiInv == ASSUME CiInv, CaManager PROVE CiInv'
<1>. USE CiAssumption DEF CiInv, CiTypeOK, CiKept, Registrable, ciDevice, ciStack, CaEnds
<1>1. CASE CaBegins  BY <1>1 DEF CaBegins
<1>2. CASE CaSets    BY <1>2 DEF CaSets
<1>3. CASE CaStarts
  <2>1. CASE UNCHANGED <<ciStatus, ciStack, cam>> BY <1>3, <2>1 DEF CaStarts
  <2>2. CASE ciStatus = "open" /\ ciStatus' = "started" /\ stdcam' /\ slotInfo' /\ cam' = "test"
    BY <1>3, <2>2 DEF CaStarts
  <2>. QED BY <1>3, <2>1, <2>2 DEF CaStarts, Started
<1>4. CASE CaKeeps   BY <1>4 DEF CaKeeps
<1>5. CASE CaClears  BY <1>5 DEF CaClears
<1>6. CASE CaUnkeeps
  <2>1. CiTypeOK'
    <3>1. caman' \in BOOLEAN BY <1>6 DEF CaUnkeeps
    <3>2. /\ UNCHANGED <<ciStatus, ciUsed, ciQuit, ciCb, stdcam, slotInfo, ciLock, caLock, cam>>
          /\ UNCHANGED <<ciCalled, ciPc, overtaken>> /\ caPc' = "stop"
      BY <1>6 DEF CaUnkeeps
    <3>. QED BY <3>1, <3>2
  <2>2. CiKept' BY <1>6 DEF CaUnkeeps
  <2>3. \A c \in CiClients : ciPc'[c] # "idle" => ciLock' = c /\ ~caman' BY <1>6 DEF CaUnkeeps
  <2>. QED BY <1>6, <2>1, <2>2, <2>3 DEF CaUnkeeps
<1>7. CASE CaStops
  <2>1. CASE JoinBegins("ca") /\ caPc' = "join" /\ UNCHANGED caLock
    BY <1>7, <2>1 DEF CaStops, JoinBegins
  <2>2. CASE ciStatus # "started" /\ CaEnds /\ UNCHANGED <<ciLock, ciQuit>>
    BY <1>7, <2>2 DEF CaStops
  <2>. QED BY <1>7, <2>1, <2>2 DEF CaStops
<1>8. CASE CaStopped BY <1>8 DEF CaStopped, JoinEnds
<1>9. CASE CaCalls   BY <1>9 DEF CaCalls
<1>. QED BY <1>1, <1>2, <1>3, <1>4, <1>5, <1>6, <1>7, <1>8, <1>9 DEF CaManager

LEMMA CiInvariant == CiSpec => []CiInv
<1>1. CiInv /\ [CiNext]_ciVars => CiInv'
  <2>1. CiInv /\ UNCHANGED ciVars => CiInv'
    BY DEF ciVars, ciDevice, ciStack, CiInv, CiTypeOK, CiKept
  <2>. QED BY <2>1, CamKeepsCiInv, ApplicationKeepsCiInv, ManagerKeepsCiInv DEF CiNext
<1>. QED BY <1>1, InitCiInv, PTL DEF CiSpec

(* am_ci.c and ca_ci.c: whoever stops or closes the device, the thread     *)
(* uses no stack that was freed and calls no callback but the registered   *)
(* one, and what the CA manager has opened stays open, unless it was       *)
(* overtaken while it was opening it.                                      *)
THEOREM CiIsKept == CiSpec => []CiKept
<1>1. CiInv => CiKept BY DEF CiInv
<1>. QED BY <1>1, CiInvariant, PTL

-----------------------------------------------------------------------------
(* TsPlayer.  A trick mode is on in fast forward, whose command is the last *)
(* one, or in a search that a change of the audio track has begun there,   *)
(* as long as the "start" of the thread is to come or is replaced; and     *)
(* where last_cmd does not show it.                                        *)
StartPending ==
  \/ tpc = "restart"
  \/ tpc \in {"trick", "test", "take"} /\ cmd = "start"
  \/ tpc = "obey" /\ local = "start"

TrickShown ==
  \/ player.state = "fffb" /\ player.last \in {"ff", "fb"}
  \/ masked
  \/ player.state = "searchok" /\ player.last = "audio" /\ (startLost \/ StartPending)

PlayerInv ==
  /\ TsPlayerTypeOK
  /\ player.last \in {"ff", "fb"} => player.state = "fffb"
  /\ player.state = "fffb" => rate
  /\ client # "use" => ~tsRunning
  /\ player.trick = "fffb" => TrickShown

(* What the player becomes, as far as the invariant tells it.              *)
CarriedTo(p, c, q) ==
  /\ q \in Players /\ q.last = p.last
  /\ \/ c = "start" /\ p.state # "play" /\ q.state = "play" /\ q.trick = "none"
     \/ c = "pause" /\ p.state # "pause" /\ q.state = "pause" /\ q.trick = p.trick
     \/ c = "resume" /\ p.state = "pause" /\ q.state = "play" /\ q.trick = p.trick
     \/ c \in {"ff", "fb"} /\ p.state # "fffb" /\ q.state = "fffb" /\ q.trick = "fffb"
     \/ c \in {"seek", "vpath"} /\ q.state = "searchok" /\ q.trick = "none"
     \/ c = "audio" /\ p.state = "pause" /\ q.state = "pause" /\ q.trick = "none"
     \/ c = "audio" /\ p.state # "pause" /\ q.state = "searchok" /\ q.trick = p.trick
     \/ c = "start" /\ p.state = "play" /\ q = p
     \/ c = "pause" /\ p.state = "pause" /\ q = p
     \/ c = "resume" /\ p.state # "pause" /\ q = p
     \/ c \in {"ff", "fb"} /\ p.state = "fffb" /\ q = p

LEMMA CarriedFields ==
  ASSUME NEW p \in Players, NEW c \in Cmds \cup {"start"}, NEW q, q = Carried(p, c)
  PROVE  CarriedTo(p, c, q)
<1>0. q = Carried(p, c) OBVIOUS
<1>1. p.state \in {"stop", "play", "pause", "fffb", "searchok"} /\ p.trick \in {"none", "fffb"}
  BY DEF Players
<1>2. c \in {"start", "pause", "resume", "ff", "fb", "seek", "vpath", "audio"}
  BY TsPlayerAssumption
<1>3. CASE c = "start"
  <2>1. CASE p.state # "play"
    <3>1. q = Turned(p, "play", "none", TRUE) BY <1>0, <1>3, <2>1 DEF Carried
    <3>2. q \in Players /\ q.last = p.last /\ q.state = "play" /\ q.trick = "none"
      BY <1>1, <3>1 DEF Turned, Players
    <3>. QED BY <1>3, <2>1, <3>2 DEF CarriedTo
  <2>2. CASE p.state = "play"
    <3>1. q = p BY <1>0, <1>3, <2>2 DEF Carried
    <3>. QED BY <1>3, <2>2, <3>1 DEF CarriedTo
  <2>. QED BY <2>1, <2>2
<1>4. CASE c = "pause"
  <2>1. CASE p.state # "pause"
    <3>1. q = Turned(p, "pause", p.trick, FALSE) BY <1>0, <1>4, <2>1 DEF Carried
    <3>2. q \in Players /\ q.last = p.last /\ q.state = "pause" /\ q.trick = p.trick
      BY <1>1, <3>1 DEF Turned, Players
    <3>. QED BY <1>4, <2>1, <3>2 DEF CarriedTo
  <2>2. CASE p.state = "pause"
    <3>1. q = p BY <1>0, <1>4, <2>2 DEF Carried
    <3>. QED BY <1>4, <2>2, <3>1 DEF CarriedTo
  <2>. QED BY <2>1, <2>2
<1>5. CASE c = "resume"
  <2>1. CASE p.state = "pause"
    <3>1. q = Turned(p, "play", p.trick, TRUE) BY <1>0, <1>5, <2>1 DEF Carried
    <3>2. q \in Players /\ q.last = p.last /\ q.state = "play" /\ q.trick = p.trick
      BY <1>1, <3>1 DEF Turned, Players
    <3>. QED BY <1>5, <2>1, <3>2 DEF CarriedTo
  <2>2. CASE p.state # "pause"
    <3>1. q = p BY <1>0, <1>5, <2>2 DEF Carried
    <3>. QED BY <1>5, <2>2, <3>1 DEF CarriedTo
  <2>. QED BY <2>1, <2>2
<1>6. CASE c \in {"ff", "fb"}
  <2>1. CASE p.state # "fffb"
    <3>1. q = Turned(p, "fffb", "fffb", TRUE) BY <1>0, <1>6, <2>1 DEF Carried
    <3>2. q \in Players /\ q.last = p.last /\ q.state = "fffb" /\ q.trick = "fffb"
      BY <1>1, <3>1 DEF Turned, Players
    <3>. QED BY <1>6, <2>1, <3>2 DEF CarriedTo
  <2>2. CASE p.state = "fffb"
    <3>1. q = p BY <1>0, <1>6, <2>2 DEF Carried
    <3>. QED BY <1>6, <2>2, <3>1 DEF CarriedTo
  <2>. QED BY <2>1, <2>2
<1>7. CASE c \in {"seek", "vpath"}
  <2>1. q = Turned(p, "searchok", "none", FALSE) BY <1>0, <1>7 DEF Carried
  <2>2. q \in Players /\ q.last = p.last /\ q.state = "searchok" /\ q.trick = "none"
    BY <2>1 DEF Turned, Players
  <2>. QED BY <1>7, <2>2 DEF CarriedTo
<1>8. CASE c = "audio"
  <2>1. CASE p.state = "pause"
    <3>1. q = Turned(p, "pause", "none", FALSE) BY <1>0, <1>8, <2>1 DEF Carried
    <3>2. q \in Players /\ q.last = p.last /\ q.state = "pause" /\ q.trick = "none"
      BY <1>1, <3>1 DEF Turned, Players
    <3>. QED BY <1>8, <2>1, <3>2 DEF CarriedTo
  <2>2. CASE p.state # "pause"
    <3>1. q = Turned(p, "searchok", p.trick, FALSE) BY <1>0, <1>8, <2>2 DEF Carried
    <3>2. q \in Players /\ q.last = p.last /\ q.state = "searchok" /\ q.trick = p.trick
      BY <1>1, <3>1 DEF Turned, Players
    <3>. QED BY <1>8, <2>2, <3>2 DEF CarriedTo
  <2>. QED BY <2>1, <2>2
<1>. QED BY <1>2, <1>3, <1>4, <1>5, <1>6, <1>7, <1>8

(* A command is given up, is the last one, or is carried out.              *)
LEMMA ObeyFields ==
  ASSUME NEW p \in Players, NEW c \in Cmds \cup {"start"}
  PROVE  /\ Obey(p, c) \in Players
         /\ \/ Obey(p, c) = p /\ (c = p.last \/ Skipped(p, c))
            \/ /\ c # p.last /\ ~Skipped(p, c) /\ Obey(p, c).last = c
               /\ Obey(p, c).state = Carried(p, c).state /\ Obey(p, c).trick = Carried(p, c).trick
<1>1. Carried(p, c) \in Players BY CarriedFields DEF CarriedTo
<1>. QED BY <1>1 DEF Obey, Players

LEMMA InitPlayerInv == TsPlayerInit => PlayerInv
<1>. SUFFICES ASSUME TsPlayerInit PROVE PlayerInv OBVIOUS
<1>1. /\ player \in Players /\ player.trick = "none" /\ player.state = "stop"
      /\ player.last = "none"
  BY DEF TsPlayerInit, Players
<1>2. /\ cmd = "start" /\ local = "start" /\ speed = 0 /\ rate = FALSE /\ tsRunning = TRUE
      /\ tpc = "test" /\ client = "use" /\ startLost = FALSE /\ masked = FALSE
  BY DEF TsPlayerInit
<1>3. rate \in BOOLEAN /\ tsRunning \in BOOLEAN /\ startLost \in BOOLEAN /\ masked \in BOOLEAN
  BY <1>2
<1>4. TsPlayerTypeOK BY <1>1, <1>2, <1>3 DEF TsPlayerTypeOK
<1>. QED BY <1>1, <1>2, <1>4 DEF PlayerInv

(* aml_timeshift_do_play_cmd: nothing is done for a command given up or    *)
(* equal to the last; another is carried out, a pause after the "start"    *)
(* that ends a fast forward.                                               *)
LEMMA Obeyed ==
  ASSUME PlayerInv, ObeyCommand
  PROVE  \/ player' = player /\ (local = player.last \/ Skipped(player, local)) /\ tpc' = "trick"
         \/ /\ local # player.last /\ ~Skipped(player, local)
            /\ player' \in Players /\ player'.last = local
            /\ \/ /\ player.last \in {"ff", "fb"} /\ local = "pause"
                  /\ player'.state = "pause" /\ player'.trick = "none"
               \/ /\ ~(player.last \in {"ff", "fb"} /\ local = "pause")
                  /\ \E q : /\ CarriedTo(player, local, q)
                            /\ player'.state = q.state /\ player'.trick = q.trick
<1>0. player \in Players /\ local \in Cmds \cup {"start"} /\ "start" \in Cmds \cup {"start"}
  BY DEF PlayerInv, TsPlayerTypeOK
<1>1. PICK p : p = Prelude(player, local) OBVIOUS
<1>2. player' = Obey(p, local) BY <1>1 DEF ObeyCommand
<1>3. CASE player.last \in {"ff", "fb"} /\ local = "pause"
  <2>1. ~Skipped(player, "start") /\ "start" # player.last BY <1>3 DEF Skipped
  <2>2. p = Obey(player, "start") BY <1>1, <1>3 DEF Prelude
  <2>3. PICK q : q = Carried(player, "start") OBVIOUS
  <2>4. CarriedTo(player, "start", q) BY <1>0, <2>3, CarriedFields
  <2>5. p \in Players /\ p.last = "start" /\ p.state = q.state /\ p.trick = q.trick
    BY <1>0, <2>1, <2>2, <2>3, ObeyFields
  <2>6. q.state = "play" /\ q.trick = "none" BY <1>3, <2>4 DEF CarriedTo, PlayerInv
  <2>7. PICK r : r = Carried(p, local) OBVIOUS
  <2>8. CarriedTo(p, local, r) BY <1>0, <2>5, <2>7, CarriedFields
  <2>9. r.state = "pause" /\ r.trick = "none" BY <1>3, <2>5, <2>6, <2>8 DEF CarriedTo
  <2>10. ~Skipped(p, local) /\ ~Skipped(player, local) /\ local # p.last
    BY <1>3, <2>5 DEF Skipped
  <2>11. /\ player' \in Players /\ player'.last = local
         /\ player'.state = r.state /\ player'.trick = r.trick
    BY <1>0, <1>2, <2>5, <2>7, <2>10, ObeyFields
  <2>. QED BY <1>3, <2>9, <2>10, <2>11
<1>4. CASE ~(player.last \in {"ff", "fb"} /\ local = "pause")
  <2>1. player' = Obey(player, local) BY <1>1, <1>2, <1>4 DEF Prelude
  <2>2. CASE player' = player /\ (local = player.last \/ Skipped(player, local))
    BY <2>2 DEF ObeyCommand
  <2>3. CASE /\ local # player.last /\ ~Skipped(player, local) /\ player'.last = local
             /\ player'.state = Carried(player, local).state
             /\ player'.trick = Carried(player, local).trick
    <3>1. player' \in Players BY <1>0, <2>1, ObeyFields
    <3>2. CarriedTo(player, local, Carried(player, local)) BY <1>0, CarriedFields
    <3>. QED BY <1>4, <2>3, <3>1, <3>2
  <2>. QED BY <1>0, <2>1, <2>2, <2>3, ObeyFields
<1>. QED BY <1>3, <1>4

LEMMA ObeyKeepsPlayerInv == ASSUME PlayerInv, ObeyCommand PROVE PlayerInv'
<1>0. /\ player \in Players /\ local \in Cmds \cup {"start"} /\ tpc = "obey"
      /\ tpc' \in {"restart", "trick"} /\ UNCHANGED <<cmd, speed, rate, tsRunning, local, client>>
      /\ startLost \in BOOLEAN /\ startLost' \in BOOLEAN /\ masked \in BOOLEAN /\ masked' \in BOOLEAN
  BY DEF ObeyCommand, PlayerInv, TsPlayerTypeOK
<1>1. player'.trick = "fffb" /\ player'.last \notin {"ff", "fb"}
        /\ (masked \/ startLost \/ (local = "resume" /\ player.state = "fffb")) => masked'
  BY DEF ObeyCommand
<1>2. CASE player' = player /\ (local = player.last \/ Skipped(player, local))
  <2>1. TsPlayerTypeOK' BY <1>0, <1>2 DEF PlayerInv, TsPlayerTypeOK
  <2>2. player.state = "searchok" /\ player.last = "audio" /\ StartPending => startLost
    BY <1>0, <1>2 DEF StartPending, Skipped
  <2>3. player.trick = "fffb" => TrickShown'
    BY <1>1, <1>2, <2>2 DEF PlayerInv, TrickShown
  <2>. QED BY <1>0, <1>2, <2>1, <2>3 DEF PlayerInv
<1>3. CASE local # player.last /\ ~Skipped(player, local) /\ player' \in Players /\ player'.last = local
  <2>1. TsPlayerTypeOK' BY <1>0, <1>3 DEF PlayerInv, TsPlayerTypeOK
  <2>2. CASE player.last \in {"ff", "fb"} /\ local = "pause" /\ player'.state = "pause"
               /\ player'.trick = "none"
    BY <1>0, <1>3, <2>1, <2>2 DEF PlayerInv
  <2>3. ASSUME NEW q, CarriedTo(player, local, q), player'.state = q.state, player'.trick = q.trick,
               ~(player.last \in {"ff", "fb"} /\ local = "pause")
        PROVE  PlayerInv'
    <3>1. local \in {"ff", "fb"} => player'.state = "fffb"
      BY <2>3 DEF CarriedTo
    <3>2. player'.state = "fffb" => rate
      BY <1>3, <2>3 DEF CarriedTo, Skipped, PlayerInv
    <3>3. player'.state = "searchok" /\ player.state # "searchok" => tpc' = "restart"
      BY DEF ObeyCommand
    <3>4. ASSUME player'.trick = "fffb" PROVE TrickShown'
      <4>1. CASE local \in {"ff", "fb"} BY <1>3, <3>1, <4>1 DEF TrickShown
      <4>2. CASE local \notin {"ff", "fb"}
        <5>1. player.trick = "fffb" /\ local \notin {"seek", "vpath"}
          BY <2>3, <3>4, <4>2 DEF CarriedTo
        <5>2. CASE masked \/ startLost
          BY <1>1, <1>3, <3>4, <4>2, <5>2 DEF TrickShown
        <5>3. CASE player.state = "fffb" /\ player.last \in {"ff", "fb"}
          <6>1. local \in {"resume", "audio"} /\ (local = "audio" => player'.state = "searchok")
            BY <2>3, <3>4, <4>2, <5>1, <5>3 DEF CarriedTo
          <6>2. CASE local = "resume" BY <1>1, <1>3, <3>4, <5>3, <6>2 DEF TrickShown
          <6>3. CASE local = "audio"
            BY <1>3, <3>3, <5>3, <6>1, <6>3 DEF TrickShown, StartPending
          <6>. QED BY <6>1, <6>2, <6>3
        <5>4. CASE player.state = "searchok" /\ player.last = "audio" /\ StartPending
          <6>1. local = "start" BY <1>0, <5>4 DEF StartPending
          <6>. QED BY <2>3, <3>4, <5>4, <6>1 DEF CarriedTo
        <5>. QED BY <5>1, <5>2, <5>3, <5>4 DEF PlayerInv, TrickShown
      <4>. QED BY <4>1, <4>2
    <3>. QED BY <1>0, <1>3, <2>1, <3>1, <3>2, <3>4 DEF PlayerInv
  <2>. QED BY <1>3, <2>2, <2>3, Obeyed
<1>. QED BY <1>2, <1>3, Obeyed

LEMMA NextKeepsPlayerInv ==
  ASSUME PlayerInv, [TsPlayerNext]_playerVars PROVE PlayerInv'
<1>. USE DEF PlayerInv, TsPlayerTypeOK
<1>1. CASE LoopTest   BY <1>1 DEF LoopTest, TrickShown, StartPending
<1>2. CASE Take       BY <1>2 DEF Take, TrickShown, StartPending
<1>3. CASE ObeyCommand BY <1>3, ObeyKeepsPlayerInv
<1>4. CASE Restart    BY <1>4 DEF Restart, TrickShown, StartPending
<1>5. CASE Trick      BY <1>5 DEF Trick, TrickShown, StartPending
<1>6. CASE RateKnown  BY <1>6 DEF RateKnown, TrickShown, StartPending
<1>7. CASE Stop       BY <1>7 DEF Stop, TrickShown, StartPending
<1>8. CASE StopJoined BY <1>8 DEF StopJoined, TrickShown, StartPending
<1>9. ASSUME NEW c \in Cmds, NEW s \in 0 .. 1, Command(c, s) PROVE PlayerInv'
  BY <1>9 DEF Command, TrickShown, StartPending
<1>10. CASE UNCHANGED playerVars BY <1>10 DEF playerVars, TrickShown, StartPending
<1>. QED BY <1>1, <1>2, <1>3, <1>4, <1>5, <1>6, <1>7, <1>8, <1>9, <1>10 DEF TsPlayerNext, ThreadStep

(* aml_timeshift_do_play_cmd: when the player plays the decoder is in no   *)
(* trick mode, whatever the clients command and whenever, but for the two  *)
(* ways that hide one from last_cmd.                                       *)
THEOREM PlayerPlaysNormally == TsPlayerSpec => []PlaysNormally
<1>1. PlayerInv => PlaysNormally
  BY DEF PlayerInv, TsPlayerTypeOK, PlaysNormally, Players, TrickShown
<1>2. PlayerInv /\ [TsPlayerNext]_playerVars => PlayerInv' BY NextKeepsPlayerInv
<1>. QED BY <1>1, <1>2, InitPlayerInv, PTL DEF TsPlayerSpec

(* The turns of the loop that are due when the command is tested: one for  *)
(* a command, another for the "start" that the thread may give itself.     *)
TurnsDue ==
  IF cmd = player.last THEN 0
  ELSE IF cmd \in {"start", "pause"} \/ (cmd = "resume" /\ player.state # "fffb") THEN 1 ELSE 2

(* In fast forward it may still give itself one.  A command that has       *)
(* replaced the one being obeyed is obeyed afterwards, whatever it is.     *)
TurnsAfterTrick == IF player.state = "fffb" /\ TurnsDue = 0 THEN 1 ELSE TurnsDue
TurnsAfterTake  == IF cmd # player.last THEN TurnsDue - 1 ELSE TurnsAfterTrick
TurnsAfterObey  == IF local = cmd THEN TurnsAfterTake ELSE 2

(* How far the player is from its end, when it is told to end.             *)
StopDistance ==
  CASE tpc = "exit"    -> 0
    [] tpc = "test"    -> 5 * TurnsDue + 1
    [] tpc = "trick"   -> 5 * TurnsAfterTrick + 2
    [] tpc = "restart" -> 8
    [] tpc = "obey"    -> 5 * TurnsAfterObey + 4
    [] tpc = "take"    -> 5 * TurnsAfterTake + 5

LEMMA TurnsBounded ==
  /\ TurnsDue \in 0 .. 2 /\ TurnsAfterTrick \in 0 .. 2
  /\ TurnsAfterTake \in 0 .. 1 /\ TurnsAfterObey \in 0 .. 2
<1>1. TurnsDue \in 0 .. 2 /\ (TurnsDue = 0 <=> cmd = player.last) BY DEF TurnsDue
<1>2. TurnsAfterTrick \in 0 .. 2 /\ (cmd = player.last => TurnsAfterTrick \in 0 .. 1)
  BY <1>1 DEF TurnsAfterTrick
<1>3. TurnsAfterTake \in 0 .. 1 BY <1>1, <1>2 DEF TurnsAfterTake
<1>. QED BY <1>1, <1>2, <1>3 DEF TurnsAfterObey

(* A command that is obeyed and not replaced takes its turn.               *)
LEMMA ObeyComesNearer ==
  ASSUME PlayerInv, ~HeldUp, ObeyCommand
  PROVE  StopDistance' \in Nat /\ StopDistance' < StopDistance
<1>0. tpc = "obey" /\ tpc' \in {"trick", "restart"} /\ UNCHANGED <<cmd, local>>
  BY DEF ObeyCommand
<1>1. PICK t : t = TurnsAfterTrick OBVIOUS
<1>2. PICK e : e = TurnsAfterTrick' OBVIOUS
<1>3. t \in 0 .. 2 /\ e \in 0 .. 2
  <2>1. TurnsAfterTrick' \in 0 .. 2
    <3>1. TurnsDue' \in 0 .. 2 BY DEF TurnsDue
    <3>. QED BY <3>1 DEF TurnsAfterTrick
  <2>. QED BY <1>1, <1>2, <2>1, TurnsBounded
<1>4. StopDistance' = IF tpc' = "restart" THEN 8 ELSE 5 * e + 2
  BY <1>0, <1>2 DEF StopDistance
<1>5. StopDistance = 5 * TurnsAfterObey + 4 BY <1>0 DEF StopDistance
<1>6. CASE local # cmd
  <2>1. StopDistance = 14 BY <1>5, <1>6 DEF TurnsAfterObey
  <2>. QED BY <1>3, <1>4, <2>1
<1>7. CASE local = cmd /\ cmd = player.last
  <2>1. player' = player /\ tpc' = "trick" BY <1>7, Obeyed
  <2>2. e = t BY <1>0, <1>1, <1>2, <2>1 DEF TurnsAfterTrick, TurnsDue
  <2>3. StopDistance = 5 * t + 4 BY <1>1, <1>5, <1>7 DEF TurnsAfterObey, TurnsAfterTake
  <2>. QED BY <1>3, <1>4, <2>1, <2>2, <2>3
<1>8. CASE local = cmd /\ cmd # player.last
  <2>1. ~Skipped(player, cmd) BY <1>0, <1>8 DEF HeldUp
  <2>2. /\ player'.last = cmd
        /\ \/ player'.state = "pause"
           \/ \E q : CarriedTo(player, cmd, q) /\ player'.state = q.state
    BY <1>8, <2>1, Obeyed
  <2>3. e = (IF player'.state = "fffb" THEN 1 ELSE 0)
    BY <1>0, <1>2, <2>2 DEF TurnsAfterTrick, TurnsDue
  <2>4. CASE TurnsDue = 1
    <3>1. cmd \in {"start", "pause"} \/ (cmd = "resume" /\ player.state # "fffb")
      BY <1>8, <2>4 DEF TurnsDue
    <3>2. player'.state # "fffb" /\ (player'.state = "searchok" => player.state = "searchok")
      BY <2>2, <3>1 DEF CarriedTo
    <3>3. tpc' = "trick" BY <3>2 DEF ObeyCommand
    <3>4. StopDistance = 4 BY <1>5, <1>8, <2>4 DEF TurnsAfterObey, TurnsAfterTake
    <3>. QED BY <1>4, <2>3, <3>2, <3>3, <3>4
  <2>5. CASE TurnsDue = 2
    <3>1. StopDistance = 9 BY <1>5, <1>8, <2>5 DEF TurnsAfterObey, TurnsAfterTake
    <3>. QED BY <1>4, <2>3, <3>1
  <2>. QED BY <1>8, <2>4, <2>5 DEF TurnsDue
<1>. QED BY <1>6, <1>7, <1>8

LEMMA PlayerComesNearer ==
  ASSUME PlayerInv, client # "use", ~HeldUp, ThreadStep
  PROVE  StopDistance' \in Nat /\ StopDistance' < StopDistance
<1>0. ~tsRunning BY DEF PlayerInv
<1>1. PICK d : d = TurnsDue OBVIOUS
<1>2. PICK t : t = TurnsAfterTrick OBVIOUS
<1>3. PICK a : a = TurnsAfterTake OBVIOUS
<1>5. d \in 0 .. 2 /\ t \in 0 .. 2 /\ a \in 0 .. 1
  BY <1>1, <1>2, <1>3, TurnsBounded
<1>6. CASE LoopTest
  <2>1. CASE cmd = player.last
    <3>1. StopDistance' = 0 BY <1>0, <1>6, <2>1 DEF LoopTest, StopDistance
    <3>2. StopDistance = 5 * d + 1 BY <1>1, <1>6 DEF LoopTest, StopDistance
    <3>. QED BY <1>5, <3>1, <3>2
  <2>2. CASE cmd # player.last
    <3>1. StopDistance = 5 * d + 1 BY <1>1, <1>6 DEF LoopTest, StopDistance
    <3>2. tpc' = "take" /\ UNCHANGED <<cmd, player>> BY <1>6, <2>2 DEF LoopTest
    <3>3. TurnsAfterTake' = d - 1
      BY <1>1, <2>2, <3>2 DEF TurnsAfterTake, TurnsDue
    <3>4. StopDistance' = 5 * (d - 1) + 5 BY <3>2, <3>3 DEF StopDistance
    <3>5. d # 0 BY <1>1, <2>2 DEF TurnsDue
    <3>. QED BY <1>5, <3>1, <3>4, <3>5
  <2>. QED BY <2>1, <2>2
<1>7. CASE Take
  <2>1. StopDistance = 5 * a + 5 BY <1>3, <1>7 DEF Take, StopDistance
  <2>2. tpc' = "obey" /\ local' = cmd' /\ UNCHANGED <<cmd, player>> BY <1>7 DEF Take
  <2>3. TurnsAfterTake' = a BY <1>3, <2>2 DEF TurnsAfterTake, TurnsAfterTrick, TurnsDue
  <2>4. StopDistance' = 5 * a + 4 BY <2>2, <2>3 DEF StopDistance, TurnsAfterObey
  <2>. QED BY <1>5, <2>1, <2>4
<1>8. CASE ObeyCommand BY <1>8, ObeyComesNearer
<1>9. CASE Restart
  <2>1. StopDistance = 8 BY <1>9 DEF Restart, StopDistance
  <2>2. tpc' = "trick" /\ cmd' = "start" BY <1>9 DEF Restart
  <2>3. PICK e : e = TurnsAfterTrick' OBVIOUS
  <2>4. e \in 0 .. 1 BY <2>2, <2>3 DEF TurnsAfterTrick, TurnsDue
  <2>5. StopDistance' = 5 * e + 2 BY <2>2, <2>3 DEF StopDistance
  <2>. QED BY <2>1, <2>4, <2>5
<1>10. CASE Trick
  <2>1. StopDistance = 5 * t + 2 BY <1>2, <1>10 DEF Trick, StopDistance
  <2>2. tpc' = "test" /\ UNCHANGED player BY <1>10 DEF Trick
  <2>3. PICK e : e = TurnsDue' OBVIOUS
  <2>4. e \in Nat /\ e <= t
    <3>1. CASE cmd' = cmd
      <4>1. e = d BY <1>1, <2>2, <2>3, <3>1 DEF TurnsDue
      <4>2. t = d \/ (t = 1 /\ d = 0) BY <1>1, <1>2 DEF TurnsAfterTrick
      <4>. QED BY <1>5, <4>1, <4>2
    <3>2. CASE player.state = "fffb" /\ cmd' = "start"
      <4>1. e \in 0 .. 1 BY <2>3, <3>2 DEF TurnsDue
      <4>2. t # 0 BY <1>2, <3>2 DEF TurnsAfterTrick
      <4>. QED BY <1>5, <4>1, <4>2
    <3>. QED BY <1>10, <3>1, <3>2 DEF Trick
  <2>5. StopDistance' = 5 * e + 1 BY <2>2, <2>3 DEF StopDistance
  <2>. QED BY <1>5, <2>1, <2>4, <2>5
<1>. QED BY <1>6, <1>7, <1>8, <1>9, <1>10 DEF ThreadStep

(* While a client stops it, the player comes nearer, and nothing takes it  *)
(* further, unless a command is given up that nobody replaces any more.    *)
StopNears ==
  [][TsStopping /\ ~HeldUp => /\ StopDistance' <= StopDistance
                              /\ ThreadStep => StopDistance' < StopDistance]_playerVars

(* Meanwhile it is so many steps away at most, and none at its end only.   *)
StopBounded == TsStopping => StopDistance \in 0 .. 14 /\ (StopDistance = 0 <=> tpc = "exit")

(* Such a command keeps the player from its end for ever.                  *)
HangStays == [][HungUp => HungUp']_playerVars

LEMMA StopNearer ==
  ASSUME PlayerInv, TsStopping, ~HeldUp, [TsPlayerNext]_playerVars
  PROVE  StopDistance' <= StopDistance /\ (ThreadStep => StopDistance' < StopDistance)
<1>1. client = "join" BY DEF TsStopping
<1>2. PICK n : n = StopDistance OBVIOUS
<1>3. n \in Nat
  <2>1. tpc \in {"test", "take", "obey", "restart", "trick", "exit"}
    BY DEF PlayerInv, TsPlayerTypeOK
  <2>. QED BY <1>2, <2>1, TurnsBounded DEF StopDistance
<1>4. CASE ThreadStep
  <2>1. StopDistance' \in Nat /\ StopDistance' < StopDistance
    BY <1>1, <1>4, PlayerComesNearer
  <2>. QED BY <1>2, <1>3, <2>1
<1>5. ~RateKnown /\ ~Stop /\ \A c \in Cmds, s \in 0 .. 1 : ~Command(c, s)
  BY <1>1 DEF RateKnown, Stop, Command
<1>6. CASE ~ThreadStep
  <2>1. UNCHANGED <<cmd, player, tpc, local>>
    BY <1>5, <1>6 DEF TsPlayerNext, StopJoined, playerVars
  <2>2. StopDistance' = StopDistance
    BY <2>1 DEF StopDistance, TurnsAfterObey, TurnsAfterTake, TurnsAfterTrick, TurnsDue
  <2>. QED BY <1>2, <1>3, <1>6, <2>2
<1>. QED BY <1>4, <1>6

LEMMA StaysHungUp ==
  ASSUME PlayerInv, HungUp, [TsPlayerNext]_playerVars PROVE HungUp'
<1>0. /\ client = "join" /\ cmd # player.last /\ Skipped(player, cmd)
      /\ tpc \in {"test", "take", "trick"} \/ (tpc = "obey" /\ local = cmd)
  BY DEF HungUp, TsStopping, HeldUp
<1>1. player.state # "fffb" BY <1>0 DEF Skipped, PlayerInv
<1>2. ~RateKnown /\ ~Stop /\ ~StopJoined /\ ~Restart /\ \A c \in Cmds, s \in 0 .. 1 : ~Command(c, s)
  BY <1>0 DEF RateKnown, Stop, StopJoined, Restart, Command
<1>. USE DEF HungUp, TsStopping, HeldUp, Skipped
<1>3. CASE LoopTest BY <1>0, <1>3 DEF LoopTest
<1>4. CASE Take BY <1>0, <1>4 DEF Take
<1>5. CASE ObeyCommand
  <2>1. local = cmd BY <1>0, <1>5 DEF ObeyCommand
  <2>2. player' = player /\ tpc' = "trick" BY <1>0, <1>5, <2>1, Obeyed
  <2>. QED BY <1>0, <1>5, <2>2 DEF ObeyCommand
<1>6. CASE Trick BY <1>0, <1>1, <1>6 DEF Trick
<1>7. CASE UNCHANGED playerVars BY <1>7 DEF playerVars
<1>. QED BY <1>2, <1>3, <1>4, <1>5, <1>6, <1>7 DEF TsPlayerNext, ThreadStep

(* AM_AV_StopTimeshift joins the player with dev->lock held: a command not *)
(* yet obeyed, and the one the player gives itself after a search or a     *)
(* fast forward, are obeyed first, and it has fourteen steps to make at    *)
(* most, whatever the clients did before; but a command that is left and   *)
(* given up, a search or a fast forward before the rate is known or a fast *)
(* forward at no speed, is never passed, and the join never returns.       *)
THEOREM StopComesNearer == TsPlayerSpec => []StopBounded /\ StopNears /\ HangStays
<1>1. PlayerInv /\ [TsPlayerNext]_playerVars => PlayerInv' BY NextKeepsPlayerInv
<1>2. PlayerInv => StopBounded
  <2>. SUFFICES ASSUME PlayerInv PROVE StopBounded OBVIOUS
  <2>1. tpc \in {"test", "take", "obey", "restart", "trick", "exit"}
    BY DEF PlayerInv, TsPlayerTypeOK
  <2>2. tpc = "exit" => StopDistance = 0 BY DEF StopDistance
  <2>3. tpc # "exit" => StopDistance \in 1 .. 14 BY <2>1, TurnsBounded DEF StopDistance
  <2>. QED BY <2>2, <2>3 DEF StopBounded
<1>3. PlayerInv /\ [TsPlayerNext]_playerVars
        => [TsStopping /\ ~HeldUp => /\ StopDistance' <= StopDistance
                                     /\ ThreadStep => StopDistance' < StopDistance]_playerVars
  BY StopNearer
<1>4. PlayerInv /\ [TsPlayerNext]_playerVars => [HungUp => HungUp']_playerVars
  BY StaysHungUp
<1>. QED BY <1>1, <1>2, <1>3, <1>4, InitPlayerInv, PTL DEF TsPlayerSpec, StopNears, HangStays

-----------------------------------------------------------------------------
(* The pieces of the operations, as functions of a state: what they do to  *)
(* its modes.                                                              *)

IsState(s) == s = [mode |-> s.mode, vid |-> s.vid, aud |-> s.aud, mapped |-> s.mapped, ok |-> s.ok]

LEMMA UnmapModes ==
  ASSUME NEW s, IsState(s), NEW para
  PROVE  IsState(Unmap(s, para)) /\ Unmap(s, para).mode = s.mode
BY DEF IsState, Unmap

LEMMA StopOneModes ==
  ASSUME NEW s, IsState(s), NEW m
  PROVE  IsState(StopOne(s, m)) /\ StopOne(s, m).mode = s.mode \ {m}
<1>1. CASE m \notin s.mode
  BY <1>1 DEF StopOne
<1>2. CASE m \in s.mode /\ m \in Pictures \cup {"ves"}
  <2>. DEFINE u == Unmap(s, s.vid)
  <2>1. IsState(u) /\ u.mode = s.mode BY UnmapModes
  <2>2. StopOne(s, m) = [u EXCEPT !.vid = Freed(@), !.mode = @ \ {m}] BY <1>2 DEF StopOne
  <2>. HIDE DEF u
  <2>. QED BY <2>1, <2>2 DEF IsState
<1>3. CASE m \in s.mode /\ m \notin Pictures \cup {"ves"} /\ m = "aes"
  <2>. DEFINE u == Unmap(s, s.aud)
  <2>1. IsState(u) /\ u.mode = s.mode BY UnmapModes
  <2>2. StopOne(s, m) = [u EXCEPT !.aud = Freed(@), !.mode = @ \ {m}] BY <1>3 DEF StopOne
  <2>. HIDE DEF u
  <2>. QED BY <2>1, <2>2 DEF IsState
<1>4. CASE m \in s.mode /\ m \notin Pictures \cup {"ves"} /\ m # "aes"
  <2>1. StopOne(s, m) = [s EXCEPT !.mode = @ \ {m}] BY <1>4 DEF StopOne
  <2>. QED BY <2>1 DEF IsState
<1>. QED BY <1>1, <1>2, <1>3, <1>4

LEMMA StopAllModes ==
  ASSUME NEW s, IsState(s), NEW ms
  PROVE  IsState(StopAll(s, ms)) /\ StopAll(s, ms).mode = s.mode \ ms
<1>. DEFINE stopped == s.mode \cap ms
            vid == stopped \cap (Pictures \cup {"ves"}) # {}
            p   == CHOOSE m \in stopped : m \in Pictures \cup {"ves"}
            t   == IF vid THEN StopOne(s, p) ELSE s
            u   == IF "aes" \in stopped THEN StopOne(t, "aes") ELSE t
<1>1. IsState(t) /\ t.mode \ ms = s.mode \ ms
  <2>1. CASE vid
    <3>1. p \in ms BY <2>1
    <3>2. IsState(StopOne(s, p)) /\ StopOne(s, p).mode = s.mode \ {p} BY StopOneModes
    <3>3. t = StopOne(s, p) BY <2>1
    <3>. HIDE DEF t, p
    <3>. QED BY <3>1, <3>2, <3>3
  <2>2. CASE ~vid BY <2>2
  <2>. QED BY <2>1, <2>2
<1>2. IsState(u) /\ u.mode \ ms = s.mode \ ms
  <2>1. CASE "aes" \in stopped
    <3>. HIDE DEF t
    <3>1. IsState(StopOne(t, "aes")) /\ StopOne(t, "aes").mode = t.mode \ {"aes"}
      BY <1>1, StopOneModes
    <3>. QED BY <1>1, <2>1, <3>1
  <2>2. CASE "aes" \notin stopped BY <1>1, <2>2
  <2>. QED BY <2>1, <2>2
<1>3. StopAll(s, ms) = [u EXCEPT !.mode = @ \ ms] BY Zenon DEF StopAll
<1>. HIDE DEF u
<1>. QED BY <1>2, <1>3 DEF IsState

LEMMA NotedModes ==
  ASSUME NEW s, IsState(s), NEW m, NEW para
  PROVE  /\ IsState(Noted(s, m, para)) /\ Noted(s, m, para).mode = s.mode
         /\ IsState(Disowned(s, m)) /\ Disowned(s, m).mode = s.mode
BY DEF IsState, Noted, Disowned

(* A start ends the modes that exclude the new one, and opens that.        *)
LEMMA StartModes ==
  ASSUME NEW s, IsState(s), NEW m, NEW para, NEW r \in Start(s, m, para)
  PROVE  IsState(r) /\ r.mode \subseteq (s.mode \ Excludes(m)) \cup {m}
<1>. DEFINE t == StopAll(s, Excludes(m))
            v == [t EXCEPT !.mode = @ \cup {m}]
            u == Noted(v, m, para)
            d == Disowned(u, m)
<1>1. IsState(t) /\ t.mode = s.mode \ Excludes(m) BY StopAllModes
<1>2. IsState(v) /\ v.mode = t.mode \cup {m}
  <2>. HIDE DEF t
  <2>. QED BY <1>1 DEF IsState
<1>3. IsState(u) /\ u.mode = v.mode
  <2>. HIDE DEF v
  <2>. QED BY <1>2, NotedModes
<1>4. IsState(d) /\ d.mode = u.mode
  <2>. HIDE DEF u
  <2>. QED BY <1>3, NotedModes
<1>5. r = u \/ r = [t EXCEPT !.ok = FALSE] \/ r = [d EXCEPT !.ok = FALSE]
  BY DEF Start
<1>. HIDE DEF t, v, u, d
<1>. QED BY <1>1, <1>2, <1>3, <1>4, <1>5 DEF IsState

-----------------------------------------------------------------------------
Exclusive(ms) ==
  /\ ms \subseteq Modes
  /\ \A m, n \in ms : {m, n} \subseteq VideoModes \/ {m, n} \subseteq AudioModes => m = n
  /\ ~({"ves", "file"} \subseteq ms)

(* Fewer modes are exclusive as well.                                      *)
LEMMA FewerModes == ASSUME NEW ms, Exclusive(ms), NEW ns, ns \subseteq ms PROVE Exclusive(ns)
BY DEF Exclusive

(* av_start excludes everything its mode cannot be beside.                 *)
LEMMA StartExclusive ==
  ASSUME NEW ms, Exclusive(ms), NEW m \in Modes
  PROVE  Exclusive((ms \ Excludes(m)) \cup {m})
<1>1. CASE m = "ves"
  BY <1>1 DEF Exclusive, Excludes, Modes, VideoModes, AudioModes, Pictures
<1>2. CASE m = "aes"
  BY <1>2 DEF Exclusive, Excludes, Modes, VideoModes, AudioModes, Pictures
<1>3. CASE m \in Pictures
  BY <1>3 DEF Exclusive, Excludes, Modes, VideoModes, AudioModes, Pictures
<1>4. CASE m \in Modes \ ({"ves", "aes"} \cup Pictures)
  BY <1>4 DEF Exclusive, Excludes, Modes, VideoModes, AudioModes, Pictures
<1>. QED BY <1>1, <1>2, <1>3, <1>4

LEMMA StartKeeps ==
  ASSUME NEW s, IsState(s), Exclusive(s.mode), NEW m \in Modes, NEW para,
         NEW r \in Start(s, m, para)
  PROVE  IsState(r) /\ Exclusive(r.mode)
<1>1. IsState(r) /\ r.mode \subseteq (s.mode \ Excludes(m)) \cup {m} BY StartModes
<1>2. Exclusive((s.mode \ Excludes(m)) \cup {m}) BY StartExclusive
<1>. QED BY <1>1, <1>2, FewerModes

LEMMA StateIsState ==
  /\ IsState(State) /\ State.mode = mode
  /\ \A file \in BOOLEAN : IsState(WithMap(file)) /\ WithMap(file).mode = mode
<1>1. IsState(State) /\ State.mode = mode BY DEF IsState, State
<1>2. WithMap(FALSE) = State BY DEF WithMap
<1>3. WithMap(TRUE) = [State EXCEPT !.mapped = @ \cup {maps + 1}] BY DEF WithMap
<1>4. IsState(WithMap(TRUE)) /\ WithMap(TRUE).mode = mode BY <1>3 DEF IsState, State
<1>. QED BY <1>1, <1>2, <1>4

(* Who frees a mapping.                                                    *)

VideoEs == Pictures \cup {"ves"}

(* The state s of an operation: each mapping is freed already, or held by  *)
(* the operation itself (N), or belongs to one player, or is lost (D).  A player may have one   *)
(* that is not mapped any more (W).                                        *)
Owned(s, D, N, W) ==
  /\ IsState(s) /\ s.vid \in Paras /\ s.aud \in Paras
  /\ s.vid.free => s.vid.data \in (s.mapped \cup W) \ N /\ s.mode \cap VideoEs # {}
  /\ s.aud.free => s.aud.data \in (s.mapped \cup W) \ N /\ "aes" \in s.mode
  /\ s.vid.free /\ s.aud.free => s.vid.data # s.aud.data
  /\ N \subseteq s.mapped \cup W
  /\ \A x \in s.mapped : \/ x \in D \cup N
                         \/ s.vid.free /\ x = s.vid.data
                         \/ s.aud.free /\ x = s.aud.data

LEMMA FreedPara ==
  ASSUME NEW p \in Paras
  PROVE  Freed(p) \in Paras /\ ~Freed(p).free
BY DEF Freed, Paras

(* av_stop of one mode: what it leaves of the video player, of the audio   *)
(* player and of the mappings.                                             *)
LEMMA StopOneParts ==
  ASSUME NEW s, IsState(s), NEW m
  PROVE  LET r == StopOne(s, m)
             v == m \in s.mode /\ m \in VideoEs
             a == m \in s.mode /\ m \notin VideoEs /\ m = "aes"
         IN  /\ r.vid = (IF v THEN Freed(s.vid) ELSE s.vid)
             /\ r.aud = (IF a THEN Freed(s.aud) ELSE s.aud)
             /\ r.mapped = s.mapped \ (IF v /\ s.vid.free THEN {s.vid.data}
                                       ELSE IF a /\ s.aud.free THEN {s.aud.data} ELSE {})
             /\ r.ok = s.ok
<1>1. CASE m \notin s.mode BY <1>1 DEF StopOne
<1>2. CASE m \in s.mode /\ m \in VideoEs
  <2>. DEFINE u == Unmap(s, s.vid)
  <2>1. /\ IsState(u) /\ u.vid = s.vid /\ u.aud = s.aud /\ u.ok = s.ok
        /\ u.mapped = s.mapped \ (IF s.vid.free THEN {s.vid.data} ELSE {})
    BY DEF Unmap, IsState
  <2>2. StopOne(s, m) = [u EXCEPT !.vid = Freed(@), !.mode = @ \ {m}]
    BY <1>2 DEF StopOne, VideoEs
  <2>. HIDE DEF u
  <2>. QED BY <1>2, <2>1, <2>2 DEF IsState
<1>3. CASE m \in s.mode /\ m \notin VideoEs /\ m = "aes"
  <2>. DEFINE u == Unmap(s, s.aud)
  <2>1. /\ IsState(u) /\ u.vid = s.vid /\ u.aud = s.aud /\ u.ok = s.ok
        /\ u.mapped = s.mapped \ (IF s.aud.free THEN {s.aud.data} ELSE {})
    BY DEF Unmap, IsState
  <2>2. StopOne(s, m) = [u EXCEPT !.aud = Freed(@), !.mode = @ \ {m}]
    BY <1>3 DEF StopOne, VideoEs
  <2>. HIDE DEF u
  <2>. QED BY <1>3, <2>1, <2>2 DEF IsState
<1>4. CASE m \in s.mode /\ m \notin VideoEs /\ m # "aes"
  <2>1. StopOne(s, m) = [s EXCEPT !.mode = @ \ {m}] BY <1>4 DEF StopOne, VideoEs
  <2>. QED BY <1>4, <2>1 DEF IsState
<1>. QED BY <1>1, <1>2, <1>3, <1>4

LEMMA StopOneOwned ==
  ASSUME NEW s, NEW D, NEW N, NEW W, Owned(s, D, N, W), NEW m
  PROVE  /\ Owned(StopOne(s, m), D, N, W)
         /\ StopOne(s, m).mapped \subseteq s.mapped
         /\ m \notin VideoEs => StopOne(s, m).vid = s.vid
         /\ m \in s.mode /\ m \in VideoEs => ~StopOne(s, m).vid.free
         /\ m \in s.mode /\ m = "aes" => ~StopOne(s, m).aud.free
<1>. DEFINE r == StopOne(s, m)
<1>0. IsState(s) BY DEF Owned
<1>1. IsState(r) /\ r.mode = s.mode \ {m} BY <1>0, StopOneModes
<1>2. Freed(s.vid) \in Paras /\ ~Freed(s.vid).free /\ Freed(s.aud) \in Paras /\ ~Freed(s.aud).free
  BY FreedPara DEF Owned
<1>3. "aes" \notin VideoEs BY DEF VideoEs, Pictures
<1>4. ASSUME m \in s.mode, m \in VideoEs
      PROVE  Owned(r, D, N, W) /\ r.mapped \subseteq s.mapped /\ ~r.vid.free
  <2>1. /\ r.vid = Freed(s.vid) /\ r.aud = s.aud
        /\ r.mapped = s.mapped \ (IF s.vid.free THEN {s.vid.data} ELSE {})
    BY <1>0, <1>4, StopOneParts
  <2>. HIDE DEF r
  <2>. QED BY <1>1, <1>2, <1>3, <1>4, <2>1 DEF Owned
<1>5. ASSUME m \in s.mode, m = "aes"
      PROVE  Owned(r, D, N, W) /\ r.mapped \subseteq s.mapped /\ ~r.aud.free
  <2>1. /\ r.vid = s.vid /\ r.aud = Freed(s.aud)
        /\ r.mapped = s.mapped \ (IF s.aud.free THEN {s.aud.data} ELSE {})
    BY <1>0, <1>3, <1>5, StopOneParts
  <2>2. s.mode \cap VideoEs = r.mode \cap VideoEs BY <1>1, <1>3, <1>5
  <2>. HIDE DEF r
  <2>. QED BY <1>1, <1>2, <1>3, <1>5, <2>1, <2>2 DEF Owned
<1>6. ASSUME m \notin s.mode \/ m \notin VideoEs \cup {"aes"}
      PROVE  Owned(r, D, N, W) /\ r.mapped \subseteq s.mapped
  <2>1. r.vid = s.vid /\ r.aud = s.aud /\ r.mapped = s.mapped \ {}
    BY <1>0, <1>6, StopOneParts
  <2>2. s.mode \cap VideoEs = r.mode \cap VideoEs /\ ("aes" \in s.mode => "aes" \in r.mode)
    BY <1>1, <1>6
  <2>3. r.mapped = s.mapped BY <2>1
  <2>. HIDE DEF r
  <2>. QED BY <1>1, <1>6, <2>1, <2>2, <2>3 DEF Owned
<1>7. m \notin VideoEs => r.vid = s.vid BY <1>0, StopOneParts
<1>. QED BY <1>3, <1>4, <1>5, <1>6, <1>7

LEMMA StopAllOwned ==
  ASSUME NEW s, NEW D, NEW N, NEW W, Owned(s, D, N, W), NEW ms
  PROVE  /\ Owned(StopAll(s, ms), D, N, W)
         /\ StopAll(s, ms).mapped \subseteq s.mapped
         /\ StopAll(s, ms).ok = s.ok
         /\ ms \cap VideoEs = {} => StopAll(s, ms).vid = s.vid
         /\ StopAll(s, ms).vid.free => StopAll(s, ms).vid = s.vid
         /\ StopAll(s, ms).aud.free => StopAll(s, ms).aud = s.aud
<1>. DEFINE stopped == s.mode \cap ms
            vid == stopped \cap VideoEs # {}
            p   == CHOOSE m \in stopped : m \in VideoEs
            t   == IF vid THEN StopOne(s, p) ELSE s
            u   == IF "aes" \in stopped THEN StopOne(t, "aes") ELSE t
            r   == StopAll(s, ms)
<1>0. IsState(s) /\ "aes" \notin VideoEs BY DEF Owned, VideoEs, Pictures
<1>1. /\ Owned(t, D, N, W) /\ t.mapped \subseteq s.mapped /\ t.ok = s.ok /\ t.aud = s.aud
      /\ ~vid => t.vid = s.vid
      /\ vid => ~t.vid.free
      /\ t.mode \subseteq s.mode /\ t.mode \ ms = s.mode \ ms /\ ("aes" \in s.mode => "aes" \in t.mode)
  <2>1. CASE vid
    <3>1. p \in s.mode /\ p \in ms /\ p \in VideoEs /\ t = StopOne(s, p) BY <2>1
    <3>. HIDE DEF p, t
    <3>2. t.mode = s.mode \ {p} /\ t.ok = s.ok /\ t.aud = s.aud
      BY <1>0, <3>1, StopOneModes, StopOneParts
    <3>. QED BY <1>0, <2>1, <3>1, <3>2, StopOneOwned
  <2>2. CASE ~vid BY <2>2
  <2>. QED BY <2>1, <2>2
<1>2. /\ Owned(u, D, N, W) /\ u.mapped \subseteq s.mapped /\ u.ok = s.ok /\ u.vid = t.vid
      /\ u.aud.free => u.aud = s.aud
      /\ u.mode \subseteq s.mode /\ u.mode \ ms = s.mode \ ms
      /\ "aes" \in stopped => ~u.aud.free
  <2>1. CASE "aes" \in stopped
    <3>. HIDE DEF t
    <3>1. IsState(t) BY <1>1 DEF Owned
    <3>2. /\ StopOne(t, "aes").ok = t.ok /\ StopOne(t, "aes").mode = t.mode \ {"aes"}
      BY <3>1, StopOneModes, StopOneParts
    <3>. QED BY <1>0, <1>1, <2>1, <3>2, StopOneOwned
  <2>2. CASE "aes" \notin stopped BY <1>1, <2>2
  <2>. QED BY <2>1, <2>2
<1>3. r = [u EXCEPT !.mode = @ \ ms] BY Zenon DEF StopAll, VideoEs
<1>. HIDE DEF u, t, r
<1>4. /\ IsState(r) /\ r.vid = u.vid /\ r.aud = u.aud /\ r.mapped = u.mapped /\ r.ok = u.ok
      /\ r.mode = u.mode \ ms
  BY <1>2, <1>3 DEF IsState, Owned
<1>5. r.vid.free => r.mode \cap VideoEs # {}
  <2>. SUFFICES ASSUME r.vid.free PROVE r.mode \cap VideoEs # {}
    OBVIOUS
  <2>1. ~vid /\ t.vid = s.vid /\ s.vid.free BY <1>1, <1>2, <1>4
  <2>2. PICK x \in s.mode : x \in VideoEs BY <2>1 DEF Owned
  <2>3. x \in s.mode \ ms BY <2>1, <2>2
  <2>. QED BY <1>2, <1>4, <2>2, <2>3
<1>6. r.aud.free => "aes" \in r.mode
  <2>. SUFFICES ASSUME r.aud.free PROVE "aes" \in r.mode
    OBVIOUS
  <2>1. "aes" \notin stopped /\ "aes" \in u.mode BY <1>2, <1>4 DEF Owned
  <2>. QED BY <1>2, <1>4, <2>1
<1>7. Owned(r, D, N, W) BY <1>2, <1>4, <1>5, <1>6 DEF Owned
<1>8. /\ ms \cap VideoEs = {} => r.vid = s.vid
      /\ r.vid.free => r.vid = s.vid
      /\ r.aud.free => r.aud = s.aud
  BY <1>1, <1>2, <1>4
<1>9. r = StopAll(s, ms) BY DEF r
<1>. QED BY <1>2, <1>4, <1>7, <1>8, <1>9

(* av_start notes a mapping N that the operation holds, or none.  What the *)
(* player of an elementary video stream had is lost when it is written     *)
(* over.                                                                   *)
Handed(para, N) == para \in Paras /\ N = IF para.free THEN {para.data} ELSE {}

Lost(s, m) == IF m = "ves" /\ s.vid.free THEN {s.vid.data} ELSE {}

LEMMA NotedOwned ==
  ASSUME NEW t, NEW D, NEW N, NEW W, Owned(t, D, N, W), NEW para, Handed(para, N),
         NEW m \in VideoEs \cup {"aes"}, m \in t.mode,
         m \in Pictures => ~t.vid.free, m = "aes" => ~t.aud.free
  PROVE  LET u == Noted(t, m, para)
             d == Disowned(u, m)
         IN  /\ Owned(u, D \cup Lost(t, m), {}, W) /\ Owned(d, D \cup Lost(t, m), N, W)
             /\ u.mapped = t.mapped /\ d.mapped = t.mapped /\ u.ok = t.ok /\ d.ok = t.ok
             /\ m \in VideoEs => u.vid = para /\ d.vid = Freed(para)
             /\ m \in VideoEs => u.aud = t.aud /\ d.aud = t.aud
             /\ m = "aes" => u.vid = t.vid /\ d.vid = t.vid /\ u.aud = para /\ ~d.aud.free
<1>. DEFINE u == Noted(t, m, para)
            d == Disowned(u, m)
<1>0. /\ IsState(t) /\ para \in Paras /\ Freed(para) \in Paras /\ ~Freed(para).free
      /\ "aes" \notin VideoEs
  BY FreedPara DEF Owned, Handed, VideoEs, Pictures
<1>1. CASE m \in VideoEs
  <2>1. u = [t EXCEPT !.vid = para] BY <1>1 DEF Noted, VideoEs
  <2>2. /\ IsState(u) /\ u.mode = t.mode /\ u.vid = para /\ u.aud = t.aud
        /\ u.mapped = t.mapped /\ u.ok = t.ok
    BY <1>0, <2>1 DEF IsState
  <2>3. d = [u EXCEPT !.vid = Freed(@)] BY <1>1 DEF Disowned, VideoEs
  <2>. HIDE DEF u, d
  <2>4. /\ IsState(d) /\ d.mode = t.mode /\ d.vid = Freed(para) /\ d.aud = t.aud
        /\ d.mapped = t.mapped /\ d.ok = t.ok
    BY <2>2, <2>3 DEF IsState
  <2>5. t.vid.free => m = "ves" BY <1>1 DEF VideoEs
  <2>6. Owned(u, D \cup Lost(t, m), {}, W)
    BY <1>0, <1>1, <2>2, <2>5 DEF Owned, Handed, Lost
  <2>7. Owned(d, D \cup Lost(t, m), N, W)
    BY <1>0, <1>1, <2>4, <2>5 DEF Owned, Lost
  <2>. QED BY <1>0, <1>1, <2>2, <2>4, <2>6, <2>7 DEF u, d
<1>2. CASE m = "aes"
  <2>1. u = [t EXCEPT !.aud = para] BY <1>0, <1>2 DEF Noted, VideoEs
  <2>2. /\ IsState(u) /\ u.mode = t.mode /\ u.vid = t.vid /\ u.aud = para
        /\ u.mapped = t.mapped /\ u.ok = t.ok
    BY <1>0, <2>1 DEF IsState
  <2>3. d = [u EXCEPT !.aud = Freed(@)] BY <1>0, <1>2 DEF Disowned, VideoEs
  <2>. HIDE DEF u, d
  <2>4. /\ IsState(d) /\ d.mode = t.mode /\ d.vid = t.vid /\ d.aud = Freed(para)
        /\ d.mapped = t.mapped /\ d.ok = t.ok
    BY <2>2, <2>3 DEF IsState
  <2>6. Owned(u, D \cup Lost(t, m), {}, W)
    BY <1>0, <1>2, <2>2 DEF Owned, Handed, Lost
  <2>7. Owned(d, D \cup Lost(t, m), N, W)
    BY <1>0, <1>2, <2>4 DEF Owned, Lost
  <2>. QED BY <1>0, <1>2, <2>2, <2>4, <2>6, <2>7 DEF u, d
<1>. QED BY <1>1, <1>2

LEMMA MoreLost ==
  ASSUME NEW s, NEW D, NEW N, NEW W, Owned(s, D, N, W), NEW E, D \subseteq E
  PROVE  Owned(s, E, N, W)
BY DEF Owned

(* The mapping av_start writes over.                                       *)
Written(s, m) == IF m = "ves" /\ "ves" \in s.mode /\ s.vid.free THEN {s.vid.data} ELSE {}

(* What av_start does to the mappings, and to the players, from s to r.    *)
EsStarted(s, D, N, W, m, para, r) ==
  /\ r.ok \in BOOLEAN /\ r.mapped \subseteq s.mapped
  /\ Owned(r, D \cup (IF r.vid = s.vid THEN {} ELSE Written(s, m)),
           IF r.ok THEN {} ELSE N, W)
  /\ m = "aes" => r.vid = s.vid
  /\ r.ok /\ m = "ves" => r.vid = para
  /\ ~r.ok /\ m = "ves" /\ m \in r.mode => ~r.vid.free
  /\ r.aud.free => r.aud = s.aud \/ (r.ok /\ m = "aes" /\ r.aud = para)

(* It does so for a player that may be handed a mapping and for a stream   *)
(* that never is.                                                          *)
LEMMA StartOwned ==
  ASSUME NEW s, NEW D, NEW N, NEW W, Owned(s, D, N, W), s.ok = TRUE, NEW para, NEW m \in Modes,
         m \in VideoEs \cup {"aes"} => Handed(para, N),
         m \notin VideoEs \cup {"aes"} => N = {},
         NEW r \in Start(s, m, para)
  PROVE  EsStarted(s, D, N, W, m, para, r)
<1>. DEFINE t == StopAll(s, Excludes(m))
            v == [t EXCEPT !.mode = @ \cup {m}]
            u == Noted(v, m, para)
            d == Disowned(u, m)
            w == Written(s, m)
<1>0. IsState(s) /\ "aes" \notin VideoEs BY DEF Owned, VideoEs, Pictures
<1>1. /\ Owned(t, D, N, W) /\ t.mode = s.mode \ Excludes(m) /\ t.ok = TRUE
      /\ t.mapped \subseteq s.mapped /\ (t.vid.free => t.vid = s.vid)
      /\ t.aud.free => t.aud = s.aud
      /\ Excludes(m) \cap VideoEs = {} => t.vid = s.vid
  BY <1>0, StopAllModes, StopAllOwned
<1>2. /\ m = "aes" => "aes" \in Excludes(m) /\ Excludes(m) \cap VideoEs = {}
      /\ m \in Pictures => VideoEs \subseteq Excludes(m)
      /\ m = "ves" => VideoEs \ {"ves"} \subseteq Excludes(m)
  BY DEF Excludes, Modes, VideoEs, Pictures
<1>. HIDE DEF t
<1>3. /\ IsState(v) /\ v.mode = t.mode \cup {m} /\ v.vid = t.vid /\ v.aud = t.aud
      /\ v.mapped = t.mapped /\ v.ok = t.ok
  BY <1>1 DEF Owned, IsState
<1>. HIDE DEF v
<1>4. Owned(v, D, N, W) BY <1>1, <1>3 DEF Owned
<1>5. m \in Pictures => ~v.vid.free
  <2>1. m \in Pictures => t.mode \cap VideoEs = {} BY <1>1, <1>2
  <2>. QED BY <1>1, <1>3, <2>1 DEF Owned
<1>6. m = "aes" => ~v.aud.free
  <2>1. m = "aes" => "aes" \notin t.mode BY <1>1, <1>2
  <2>. QED BY <1>1, <1>3, <2>1 DEF Owned
<1>7. Lost(v, m) \subseteq w
  <2>. SUFFICES ASSUME m = "ves", v.vid.free PROVE v.vid.data \in w
    BY DEF Lost
  <2>1. t.mode \cap VideoEs # {} /\ t.vid = s.vid BY <1>1, <1>3 DEF Owned
  <2>2. "ves" \in s.mode BY <1>1, <1>2, <2>1
  <2>. QED BY <1>3, <2>1, <2>2 DEF Written
<1>8. /\ Owned(u, D \cup w, {}, W) /\ Owned(d, D \cup w, N, W)
      /\ u.mapped = t.mapped /\ d.mapped = t.mapped /\ u.ok = TRUE
      /\ m \in VideoEs => u.vid = para /\ d.vid = Freed(para) /\ ~d.vid.free
      /\ m = "aes" => u.vid = t.vid /\ d.vid = t.vid /\ u.aud = para /\ ~d.aud.free
      /\ m # "aes" => u.aud = t.aud /\ d.aud = t.aud
  <2>1. CASE m \in VideoEs \cup {"aes"}
    <3>1. /\ Owned(u, D \cup Lost(v, m), {}, W) /\ Owned(d, D \cup Lost(v, m), N, W)
          /\ u.mapped = v.mapped /\ d.mapped = v.mapped /\ u.ok = v.ok
          /\ m \in VideoEs => u.vid = para /\ d.vid = Freed(para)
          /\ m \in VideoEs => u.aud = v.aud /\ d.aud = v.aud
          /\ m = "aes" => u.vid = v.vid /\ d.vid = v.vid /\ u.aud = para /\ ~d.aud.free
      BY <1>3, <1>4, <1>5, <1>6, <2>1, NotedOwned
    <3>2. D \cup Lost(v, m) \subseteq D \cup w BY <1>7
    <3>3. Owned(u, D \cup w, {}, W) /\ Owned(d, D \cup w, N, W) BY <3>1, <3>2, MoreLost
    <3>4. m \in VideoEs => ~d.vid.free BY <3>1, FreedPara DEF Handed
    <3>. QED BY <1>0, <1>1, <1>3, <2>1, <3>1, <3>3, <3>4
  <2>2. CASE m \notin VideoEs \cup {"aes"}
    <3>1. u = v /\ d = v BY <2>2 DEF Noted, Disowned, VideoEs
    <3>2. N = {} /\ Owned(v, D \cup w, N, W) BY <1>4, <2>2, MoreLost
    <3>. QED BY <1>1, <1>3, <2>2, <3>1, <3>2
  <2>. QED BY <2>1, <2>2
<1>9. w # {} => m = "ves" /\ s.vid.free /\ para # s.vid /\ Freed(para) # s.vid
  <2>. SUFFICES ASSUME m = "ves", s.vid.free PROVE para # s.vid /\ Freed(para) # s.vid
    BY DEF Written
  <2>1. Handed(para, N) BY DEF VideoEs
  <2>2. ~Freed(para).free BY <2>1, FreedPara DEF Handed
  <2>. QED BY <2>1, <2>2 DEF Handed, Owned
<1>. HIDE DEF u, d, w
<1>10. CASE r = u
  <2>1. w # {} => r.vid # s.vid BY <1>8, <1>9, <1>10 DEF VideoEs
  <2>2. D \cup w = D \cup (IF r.vid = s.vid THEN {} ELSE w) BY <2>1
  <2>3. m = "ves" => r.vid = para BY <1>8, <1>10 DEF VideoEs
  <2>4. /\ m = "aes" => r.vid = s.vid /\ r.aud = para
        /\ m # "aes" /\ r.aud.free => r.aud = s.aud
    BY <1>1, <1>2, <1>8, <1>10
  <2>5. Owned(r, D \cup (IF r.vid = s.vid THEN {} ELSE w), {}, W) BY <1>8, <1>10, <2>2
  <2>. QED BY <1>1, <1>8, <1>10, <2>3, <2>4, <2>5 DEF w, EsStarted
<1>11. CASE m \notin t.mode /\ r = [t EXCEPT !.ok = FALSE]
  <2>1. /\ IsState(r) /\ r.mode = t.mode /\ r.vid = t.vid /\ r.aud = t.aud
        /\ r.mapped = t.mapped /\ r.ok = FALSE
    BY <1>1, <1>11 DEF Owned, IsState
  <2>2. Owned(r, D, N, W) BY <1>1, <2>1 DEF Owned
  <2>3. Owned(r, D \cup (IF r.vid = s.vid THEN {} ELSE w), N, W) BY <2>2, MoreLost
  <2>. QED BY <1>1, <1>2, <1>11, <2>1, <2>3 DEF w, EsStarted
<1>12. CASE r = [d EXCEPT !.ok = FALSE]
  <2>1. /\ IsState(r) /\ r.mode = d.mode /\ r.vid = d.vid /\ r.aud = d.aud
        /\ r.mapped = d.mapped /\ r.ok = FALSE
    BY <1>8, <1>12 DEF Owned, IsState
  <2>2. Owned(r, D \cup w, N, W) BY <1>8, <2>1 DEF Owned
  <2>3. w # {} => r.vid # s.vid BY <1>8, <1>9, <2>1 DEF VideoEs
  <2>4. D \cup w = D \cup (IF r.vid = s.vid THEN {} ELSE w) BY <2>3
  <2>5. Owned(r, D \cup (IF r.vid = s.vid THEN {} ELSE w), N, W) BY <2>2, <2>4
  <2>6. m = "aes" => r.vid = s.vid BY <1>1, <1>2, <1>8, <2>1
  <2>7. r.aud.free => r.aud = s.aud BY <1>1, <1>8, <2>1
  <2>8. m = "ves" => ~r.vid.free BY <1>8, <2>1 DEF VideoEs
  <2>. QED BY <1>1, <1>8, <2>1, <2>5, <2>6, <2>7, <2>8 DEF w, EsStarted
<1>13. r = u \/ (m \notin t.mode /\ r = [t EXCEPT !.ok = FALSE]) \/ r = [d EXCEPT !.ok = FALSE]
  BY DEF Start, t, v, u, d
<1>. QED BY <1>10, <1>11, <1>12, <1>13 DEF EsStarted

(* The client frees what it still holds.                                   *)
LEMMA UnmapOwned ==
  ASSUME NEW s, NEW D, NEW N, NEW W, Owned(s, D, N, W), NEW para, Handed(para, N)
  PROVE  /\ Owned(Unmap(s, para), D, {}, W)
         /\ Unmap(s, para).mapped \subseteq s.mapped
         /\ Unmap(s, para).vid = s.vid /\ Unmap(s, para).aud = s.aud
<1>. DEFINE r == Unmap(s, para)
<1>1. /\ IsState(r) /\ r.mode = s.mode /\ r.vid = s.vid /\ r.aud = s.aud
      /\ r.mapped = s.mapped \ N
  BY DEF Unmap, Handed, Owned, IsState
<1>. HIDE DEF r
<1>2. Owned(r, D, {}, W) /\ r.mapped \subseteq s.mapped BY <1>1 DEF Owned
<1>. QED BY <1>1, <1>2 DEF r

-----------------------------------------------------------------------------
(* The invariant: unless its last start has failed, the video stream that  *)
(* is open is the one the video path is restarted with, and then it has no *)
(* mapping to free; what the path is restarted with is not the audio       *)
(* player's.                                                               *)
AvInv ==
  /\ AvTypeOK
  /\ Exclusive(mode)
  /\ Owned(State, dropped, {}, wild)
  /\ "ves" \in mode /\ ~halfVes => vidPara = curVes
  /\ halfVes => "ves" \in mode /\ ~vidPara.free
  /\ curVes.free => curVes.data \in 1 .. maps
  /\ curVes.free /\ audPara.free => curVes.data # audPara.data

LEMMA StateFields ==
  /\ State.mode = mode /\ State.vid = vidPara /\ State.aud = audPara
  /\ State.mapped = mapped /\ State.ok = TRUE /\ IsState(State)
BY DEF State, IsState

(* The state x an operation ends in is that of the device.                 *)
LEMMA BecomeKeepsAvInv ==
  ASSUME AvInv, NEW x, Become(x), Owned(x, dropped', {}, wild'), Exclusive(x.mode),
         maps' \in 0 .. MaxMaps, x.mapped \subseteq 1 .. maps',
         dropped' \subseteq 1 .. maps', wild' \subseteq 1 .. maps',
         curVes' \in Paras, halfVes' \in BOOLEAN,
         "ves" \in x.mode /\ ~halfVes' => x.vid = curVes',
         halfVes' => "ves" \in x.mode /\ ~x.vid.free,
         curVes'.free => curVes'.data \in 1 .. maps',
         curVes'.free /\ x.aud.free => curVes'.data # x.aud.data
  PROVE  AvInv'
<1>1. /\ mode' = x.mode /\ vidPara' = x.vid /\ audPara' = x.aud /\ mapped' = x.mapped
      /\ avCrashed' = avCrashed
  BY DEF Become
<1>2. /\ State'.mode = x.mode /\ State'.vid = x.vid /\ State'.aud = x.aud
      /\ State'.mapped = x.mapped /\ IsState(State')
  BY <1>1 DEF State, IsState
<1>3. Owned(State', dropped', {}, wild') BY <1>2 DEF Owned
<1>4. AvTypeOK' BY <1>1 DEF AvInv, AvTypeOK, Owned, Exclusive
<1>. QED BY <1>1, <1>3, <1>4 DEF AvInv

(* A file is mapped: the operation holds the new mapping.                  *)
LEMMA MapOwned ==
  ASSUME AvInv, NEW file \in BOOLEAN, file => maps < MaxMaps
  PROVE  LET N == IF file THEN {maps + 1} ELSE {}
             s == WithMap(file)
             n == IF file THEN maps + 1 ELSE maps
         IN  /\ Owned(s, dropped, N, wild) /\ Handed(NewPara(file), N)
             /\ s.mode = mode /\ s.vid = vidPara /\ s.aud = audPara /\ s.ok = TRUE
             /\ n \in 0 .. MaxMaps /\ maps <= n /\ s.mapped \subseteq 1 .. n
             /\ dropped \subseteq 1 .. n /\ wild \subseteq 1 .. n
<1>0. /\ maps \in 0 .. MaxMaps /\ mapped \subseteq 1 .. maps /\ dropped \subseteq 1 .. maps
      /\ wild \subseteq 1 .. maps
  BY DEF AvInv, AvTypeOK
<1>1. CASE file
  <2>1. /\ WithMap(file).mode = mode /\ WithMap(file).vid = vidPara
        /\ WithMap(file).aud = audPara /\ WithMap(file).ok = TRUE
        /\ WithMap(file).mapped = mapped \cup {maps + 1} /\ IsState(WithMap(file))
    BY <1>1 DEF WithMap, State, IsState
  <2>2. NewPara(file) \in Paras /\ NewPara(file).free /\ NewPara(file).data = maps + 1
    BY <1>0, <1>1, AvModesAssumption DEF NewPara, Paras
  <2>3. maps + 1 \notin mapped \cup wild BY <1>0
  <2>4. Owned(WithMap(file), dropped, {maps + 1}, wild)
    BY <2>1, <2>3, StateFields DEF AvInv, Owned
  <2>5. maps + 1 \in 0 .. MaxMaps /\ maps <= maps + 1 /\ mapped \cup {maps + 1} \subseteq 1 .. maps + 1
    BY <1>0, <1>1, AvModesAssumption
  <2>6. dropped \subseteq 1 .. maps + 1 /\ wild \subseteq 1 .. maps + 1 BY <1>0
  <2>. QED BY <1>1, <2>1, <2>2, <2>4, <2>5, <2>6 DEF Handed
<1>2. CASE ~file
  <2>1. WithMap(file) = State BY <1>2 DEF WithMap
  <2>2. NewPara(file) \in Paras /\ ~NewPara(file).free
    BY <1>2, AvModesAssumption DEF NewPara, Paras
  <2>. QED BY <1>0, <1>2, <2>1, <2>2, StateFields DEF Handed, AvInv
<1>. QED BY <1>1, <1>2

LEMMA WrittenBound ==
  ASSUME AvInv
  PROVE  \A m : WrittenOver(m) \subseteq 1 .. maps
<1>1. vidPara.free => vidPara.data \in mapped \cup wild BY StateFields DEF AvInv, Owned
<1>. QED BY <1>1 DEF AvInv, AvTypeOK, WrittenOver

LEMMA StartEsKeepsAvInv ==
  ASSUME AvInv, NEW m \in Modes, StartEs(m) PROVE AvInv'
<1>0. PICK file \in BOOLEAN :
        /\ file => maps < MaxMaps
        /\ maps' = IF file THEN maps + 1 ELSE maps
        /\ \E t \in Start(WithMap(file), m, NewPara(file)) :
             /\ Become(IF t.ok THEN t ELSE Unmap(t, NewPara(file)))
             /\ curVes' = IF t.ok /\ m = "ves" THEN NewPara(file) ELSE curVes
             /\ halfVes' = ("ves" \in t.mode /\ IF m = "ves" THEN ~t.ok ELSE halfVes)
             /\ dropped' = dropped \cup (IF t.vid = vidPara THEN {} ELSE WrittenOver(m))
  BY DEF StartEs
<1>. DEFINE s == WithMap(file)
            para == NewPara(file)
            N == IF file THEN {maps + 1} ELSE {}
<1>1. PICK t \in Start(s, m, para) :
        /\ Become(IF t.ok THEN t ELSE Unmap(t, para))
        /\ curVes' = IF t.ok /\ m = "ves" THEN para ELSE curVes
        /\ halfVes' = ("ves" \in t.mode /\ IF m = "ves" THEN ~t.ok ELSE halfVes)
        /\ dropped' = dropped \cup (IF t.vid = vidPara THEN {} ELSE WrittenOver(m))
  BY <1>0
<1>2. /\ Owned(s, dropped, N, wild) /\ Handed(para, N)
      /\ s.mode = mode /\ s.vid = vidPara /\ s.aud = audPara /\ s.ok = TRUE
      /\ maps' \in 0 .. MaxMaps /\ maps <= maps' /\ s.mapped \subseteq 1 .. maps'
      /\ dropped \subseteq 1 .. maps' /\ wild \subseteq 1 .. maps'
  BY <1>0, MapOwned
<1>3. /\ m \in VideoEs \cup {"aes"} /\ (m = "ves" \/ m = "aes") /\ wild' = wild
      /\ maps \in Nat /\ maps' \in Nat
      /\ para.free => para.data = maps + 1 /\ para.data \in 1 .. maps'
  BY <1>0, AvModesAssumption DEF StartEs, VideoEs, NewPara, AvInv, AvTypeOK
<1>. HIDE DEF s, para, N
<1>4. WrittenOver(m) = Written(s, m) BY <1>2 DEF WrittenOver, Written
<1>5. /\ t.ok \in BOOLEAN /\ t.mapped \subseteq s.mapped
      /\ Owned(t, dropped', IF t.ok THEN {} ELSE N, wild)
      /\ m = "aes" => t.vid = s.vid
      /\ t.ok /\ m = "ves" => t.vid = para
      /\ ~t.ok /\ m = "ves" /\ m \in t.mode => ~t.vid.free
      /\ t.aud.free => t.aud = s.aud \/ (t.ok /\ m = "aes" /\ t.aud = para)
  <2>1. /\ t.ok \in BOOLEAN /\ t.mapped \subseteq s.mapped
        /\ Owned(t, dropped \cup (IF t.vid = s.vid THEN {} ELSE Written(s, m)),
                 IF t.ok THEN {} ELSE N, wild)
        /\ m = "aes" => t.vid = s.vid
        /\ t.ok /\ m = "ves" => t.vid = para
        /\ ~t.ok /\ m = "ves" /\ m \in t.mode => ~t.vid.free
        /\ t.aud.free => t.aud = s.aud \/ (t.ok /\ m = "aes" /\ t.aud = para)
    <3>1. EsStarted(s, dropped, N, wild, m, para, t) BY <1>2, <1>3, StartOwned
    <3>. QED BY <3>1 DEF EsStarted
  <2>2. dropped' = dropped \cup (IF t.vid = s.vid THEN {} ELSE Written(s, m))
    BY <1>1, <1>2, <1>4
  <2>. QED BY <2>1, <2>2
<1>6. IsState(t) /\ Exclusive(t.mode) /\ t.mode \subseteq (mode \ Excludes(m)) \cup {m}
  <2>1. IsState(s) /\ Exclusive(s.mode) BY <1>2 DEF Owned, AvInv
  <2>. QED BY <1>2, <2>1, StartKeeps, StartModes
<1>7. PICK x : x = IF t.ok THEN t ELSE Unmap(t, para) OBVIOUS
<1>8. /\ Owned(x, dropped', {}, wild) /\ x.mapped \subseteq s.mapped
      /\ x.mode = t.mode /\ x.vid = t.vid /\ x.aud = t.aud
  <2>1. CASE t.ok BY <1>5, <1>7, <2>1
  <2>2. CASE ~t.ok
    <3>1. Owned(t, dropped', N, wild) BY <1>5, <2>2
    <3>2. /\ Owned(Unmap(t, para), dropped', {}, wild)
          /\ Unmap(t, para).mapped \subseteq t.mapped
          /\ Unmap(t, para).vid = t.vid /\ Unmap(t, para).aud = t.aud
      BY <1>2, <3>1, UnmapOwned
    <3>. QED BY <1>5, <1>6, <1>7, <2>2, <3>2, UnmapModes
  <2>. QED BY <2>1, <2>2
<1>9. Become(x) BY <1>1, <1>7
<1>10. x.mapped \subseteq 1 .. maps' BY <1>2, <1>8
<1>11. dropped' \subseteq 1 .. maps'
  <2>1. WrittenOver(m) \subseteq 1 .. maps BY WrittenBound
  <2>2. 1 .. maps \subseteq 1 .. maps' BY <1>2, <1>3
  <2>. QED BY <1>1, <1>2, <2>1, <2>2
<1>12. curVes' \in Paras /\ halfVes' \in BOOLEAN
  BY <1>1, <1>2, <1>5 DEF Handed, AvInv, AvTypeOK
<1>13. /\ "ves" \in x.mode /\ ~halfVes' => x.vid = curVes'
       /\ halfVes' => "ves" \in x.mode /\ ~x.vid.free
  <2>1. CASE m = "ves" BY <1>1, <1>5, <1>8, <2>1
  <2>2. CASE m = "aes"
    <3>1. "ves" \in t.mode => "ves" \in mode BY <1>6, <2>2
    <3>. QED BY <1>1, <1>2, <1>5, <1>8, <2>2, <3>1 DEF AvInv
  <2>. QED BY <1>3, <2>1, <2>2
<1>14. /\ curVes'.free => curVes'.data \in 1 .. maps'
       /\ curVes'.free /\ x.aud.free => curVes'.data # x.aud.data
  <2>1. /\ curVes.free => curVes.data \in 1 .. maps
        /\ curVes.free /\ audPara.free => curVes.data # audPara.data
        /\ audPara.free => audPara.data \in 1 .. maps
    <3>1. audPara.free => audPara.data \in mapped \cup wild BY StateFields DEF AvInv, Owned
    <3>. QED BY <3>1 DEF AvInv, AvTypeOK
  <2>2. CASE t.ok /\ m = "ves" BY <1>1, <1>2, <1>3, <1>5, <1>8, <2>1, <2>2
  <2>3. CASE ~(t.ok /\ m = "ves")
    <3>1. curVes' = curVes BY <1>1, <2>3
    <3>. QED BY <1>2, <1>3, <1>5, <1>8, <2>1, <3>1
  <2>. QED BY <2>2, <2>3
<1>. QED BY <1>2, <1>3, <1>6, <1>8, <1>9, <1>10, <1>11, <1>12, <1>13, <1>14, BecomeKeepsAvInv

(* What a start does while it keeps curVes: facts all the others share.    *)
LEMMA KeptVes ==
  ASSUME AvInv, UNCHANGED curVes, maps' \in 0 .. MaxMaps, maps <= maps', NEW x,
         x.aud.free => x.aud = audPara
  PROVE  /\ curVes' \in Paras
         /\ curVes'.free => curVes'.data \in 1 .. maps'
         /\ curVes'.free /\ x.aud.free => curVes'.data # x.aud.data
<1>1. maps \in Nat BY AvModesAssumption DEF AvInv, AvTypeOK
<1>2. maps' \in Nat BY AvModesAssumption
<1>. QED BY <1>1, <1>2 DEF AvInv, AvTypeOK

(* The start of a picture whose data and need_free are garbage: what the   *)
(* modes it excludes had is freed, as for another, and then noted over.    *)
GarbageStarted(s, D, W, m, para, r) ==
  \E v : /\ Owned(v, D, {}, W) /\ ~v.vid.free /\ v.mapped \subseteq s.mapped
         /\ v.aud.free => v.aud = s.aud
         /\ \/ r = v /\ ~r.ok
            \/ /\ IsState(r) /\ r.mode = v.mode /\ m \in v.mode /\ r.aud = v.aud
               /\ r.mapped = v.mapped
               /\ (r.ok = TRUE /\ r.vid = para) \/ (r.ok = FALSE /\ r.vid = Freed(para))

LEMMA GarbageStart ==
  ASSUME NEW s, NEW D, NEW W, Owned(s, D, {}, W), s.ok = TRUE, NEW m \in Pictures, NEW para \in Paras,
         NEW r \in Start(s, m, para)
  PROVE  GarbageStarted(s, D, W, m, para, r)
<1>. DEFINE t == StopAll(s, Excludes(m))
            v == [t EXCEPT !.mode = @ \cup {m}]
            u == Noted(v, m, para)
            d == Disowned(u, m)
<1>0. IsState(s) /\ VideoEs \subseteq Excludes(m) BY DEF Owned, VideoEs, Pictures, Excludes, Modes
<1>1. /\ Owned(t, D, {}, W) /\ t.mode = s.mode \ Excludes(m) /\ t.ok = TRUE
      /\ t.mapped \subseteq s.mapped /\ (t.aud.free => t.aud = s.aud)
  BY <1>0, StopAllModes, StopAllOwned
<1>2. ~t.vid.free
  <2>1. t.mode \cap VideoEs = {} BY <1>0, <1>1
  <2>. QED BY <1>1, <2>1 DEF Owned
<1>3. r = u \/ r = [t EXCEPT !.ok = FALSE] \/ r = [d EXCEPT !.ok = FALSE]
  BY DEF Start
<1>. HIDE DEF t
<1>4. /\ IsState(v) /\ v.mode = t.mode \cup {m} /\ v.vid = t.vid /\ v.aud = t.aud
      /\ v.mapped = t.mapped /\ v.ok = t.ok
  BY <1>1 DEF Owned, IsState
<1>. HIDE DEF v
<1>5. Owned(v, D, {}, W) BY <1>1, <1>4 DEF Owned
<1>6. /\ IsState(u) /\ u.mode = v.mode /\ u.vid = para /\ u.aud = v.aud
      /\ u.mapped = v.mapped /\ u.ok = v.ok
  <2>1. u = [v EXCEPT !.vid = para] BY DEF Noted
  <2>. HIDE DEF u
  <2>. QED BY <1>4, <2>1 DEF IsState
<1>7. /\ IsState(d) /\ d.mode = v.mode /\ d.vid = Freed(para) /\ d.aud = v.aud
      /\ d.mapped = v.mapped
  <2>1. d = [u EXCEPT !.vid = Freed(@)] BY DEF Disowned
  <2>. HIDE DEF d, u
  <2>. QED BY <1>6, <2>1 DEF IsState
<1>. HIDE DEF u, d
<1>8. CASE r = [t EXCEPT !.ok = FALSE]
  <2>1. /\ IsState(r) /\ r.mode = t.mode /\ r.vid = t.vid /\ r.aud = t.aud
        /\ r.mapped = t.mapped /\ r.ok = FALSE
    BY <1>1, <1>8 DEF Owned, IsState
  <2>2. Owned(r, D, {}, W) BY <1>1, <2>1 DEF Owned
  <2>. QED BY <1>1, <1>2, <2>1, <2>2 DEF GarbageStarted
<1>9. CASE r = u BY <1>1, <1>2, <1>4, <1>5, <1>6, <1>9 DEF GarbageStarted
<1>10. CASE r = [d EXCEPT !.ok = FALSE]
  <2>1. /\ IsState(r) /\ r.mode = v.mode /\ r.vid = Freed(para) /\ r.aud = v.aud
        /\ r.mapped = v.mapped /\ r.ok = FALSE
    BY <1>7, <1>10 DEF IsState
  <2>. QED BY <1>1, <1>2, <1>4, <1>5, <2>1 DEF GarbageStarted
<1>. QED BY <1>3, <1>8, <1>9, <1>10

(* A picture that was decoded, or whose start has failed, leaves nothing;  *)
(* the garbage that takes the place of its data may be somebody's mapping, *)
(* and then is freed.                                                      *)
LEMMA DecodePictureKeepsAvInv ==
  ASSUME AvInv, NEW m \in Modes, DecodePicture(m) PROVE AvInv'
<1>0. PICK file \in BOOLEAN :
        /\ file => maps < MaxMaps
        /\ maps' = IF file THEN maps + 1 ELSE maps
        /\ \E para \in PicturePara(m, file) : \E t \in Start(WithMap(file), m, para) :
             /\ Become(IF t.ok THEN StopOne(t, m) ELSE Unmap(t, NewPara(file)))
             /\ wild' = IF ~file /\ para.free /\ t.ok THEN wild \cup ({para.data} \cap t.mapped)
                        ELSE wild
  BY DEF DecodePicture
<1>. DEFINE s == WithMap(file)
            own == NewPara(file)
            N == IF file THEN {maps + 1} ELSE {}
<1>1. PICK para \in PicturePara(m, file) : \E t \in Start(s, m, para) :
        /\ Become(IF t.ok THEN StopOne(t, m) ELSE Unmap(t, own))
        /\ wild' = IF ~file /\ para.free /\ t.ok THEN wild \cup ({para.data} \cap t.mapped)
                   ELSE wild
  BY <1>0
<1>2. PICK t \in Start(s, m, para) :
        /\ Become(IF t.ok THEN StopOne(t, m) ELSE Unmap(t, own))
        /\ wild' = IF ~file /\ para.free /\ t.ok THEN wild \cup ({para.data} \cap t.mapped)
                   ELSE wild
  BY <1>1
<1>3. /\ Owned(s, dropped, N, wild) /\ Handed(own, N)
      /\ s.mode = mode /\ s.vid = vidPara /\ s.aud = audPara /\ s.ok = TRUE
      /\ maps' \in 0 .. MaxMaps /\ maps <= maps' /\ s.mapped \subseteq 1 .. maps'
      /\ dropped \subseteq 1 .. maps' /\ wild \subseteq 1 .. maps'
  BY <1>0, MapOwned
<1>4. /\ m \in Pictures /\ m \in VideoEs /\ m # "aes" /\ m # "ves"
      /\ UNCHANGED <<curVes, dropped>> /\ halfVes' = FALSE
      /\ Pictures \cup {"ves"} \subseteq Excludes(m)
  BY DEF DecodePicture, VideoEs, Pictures, Excludes, Modes
<1>5. \/ Handed(para, N) /\ (~file => para.data \in 0 .. maps)
      \/ ~file /\ para.free /\ para \in Paras /\ N = {} /\ Unmap(t, own) = t
  <2>1. CASE para = own
    <3>1. ~file => own.data = 0 /\ maps \in Nat
      BY AvModesAssumption DEF NewPara, AvInv, AvTypeOK
    <3>. QED BY <1>3, <2>1, <3>1
  <2>2. CASE m = "jpeg_info" /\ ~file /\ para \in [data : 0 .. maps, free : BOOLEAN]
    <3>1. para \in Paras /\ para.data \in 0 .. maps /\ para.free \in BOOLEAN /\ N = {}
      BY <2>2, AvModesAssumption DEF Paras, AvInv, AvTypeOK
    <3>2. Unmap(t, own) = t BY <2>2 DEF Unmap, NewPara
    <3>. QED BY <2>2, <3>1, <3>2 DEF Handed
  <2>. QED BY <1>1, <2>1, <2>2 DEF PicturePara
<1>6. /\ N # {} => file
      /\ file => para = own
  BY DEF PicturePara
<1>. HIDE DEF s, own, N
<1>7. IsState(t) /\ Exclusive(t.mode) /\ t.mode \subseteq (mode \ Excludes(m)) \cup {m}
  <2>1. IsState(s) /\ Exclusive(s.mode) BY <1>3 DEF Owned, AvInv
  <2>. QED BY <1>2, <1>3, <2>1, StartKeeps, StartModes
<1>8. PICK x : x = IF t.ok THEN StopOne(t, m) ELSE Unmap(t, own) OBVIOUS
<1>9. /\ Owned(x, dropped, {}, wild') /\ x.mapped \subseteq s.mapped /\ (x.aud.free => x.aud = audPara)
      /\ wild' \subseteq 1 .. maps' /\ x.mode \subseteq t.mode /\ "ves" \notin x.mode
  <2>0. /\ x.mode \subseteq t.mode
        /\ "ves" \notin t.mode
    <3>1. Unmap(t, own).mode = t.mode /\ StopOne(t, m).mode \subseteq t.mode
      BY <1>7, UnmapModes, StopOneModes
    <3>. QED BY <1>4, <1>7, <1>8, <3>1
  <2>1. CASE Handed(para, N)
    <3>1. /\ t.ok \in BOOLEAN /\ t.mapped \subseteq s.mapped
          /\ Owned(t, dropped, IF t.ok THEN {} ELSE N, wild)
          /\ t.aud.free => t.aud = s.aud
      <4>1. /\ t.ok \in BOOLEAN /\ t.mapped \subseteq s.mapped
            /\ Owned(t, dropped \cup (IF t.vid = s.vid THEN {} ELSE Written(s, m)),
                     IF t.ok THEN {} ELSE N, wild)
            /\ t.aud.free => t.aud = s.aud \/ (t.ok /\ m = "aes" /\ t.aud = para)
        <5>1. Owned(s, dropped, N, wild) /\ s.ok = TRUE /\ t \in Start(s, m, para) BY <1>2, <1>3
        <5>2. m \in VideoEs \cup {"aes"} BY <1>4
        <5>3. EsStarted(s, dropped, N, wild, m, para, t) BY <2>1, <5>1, <5>2, StartOwned
        <5>. QED BY <5>3 DEF EsStarted
      <4>2. dropped \cup (IF t.vid = s.vid THEN {} ELSE Written(s, m)) = dropped
        BY <1>4 DEF Written
      <4>. QED BY <1>4, <4>1, <4>2
    <3>2. wild' = wild
      <4>1. para.free => file BY <1>6, <2>1 DEF Handed
      <4>. QED BY <1>2, <4>1
    <3>3. CASE t.ok
      <4>1. Owned(t, dropped, {}, wild) BY <3>1, <3>3
      <4>2. Owned(StopOne(t, m), dropped, {}, wild) /\ StopOne(t, m).mapped \subseteq t.mapped
        BY <4>1, StopOneOwned
      <4>3. StopOne(t, m).aud = t.aud BY <1>4, <1>7, StopOneParts
      <4>. QED BY <1>3, <1>8, <2>0, <3>1, <3>2, <3>3, <4>2, <4>3
    <3>4. CASE ~t.ok
      <4>1. Owned(t, dropped, N, wild) BY <3>1, <3>4
      <4>2. /\ Owned(Unmap(t, own), dropped, {}, wild)
            /\ Unmap(t, own).mapped \subseteq t.mapped /\ Unmap(t, own).aud = t.aud
        BY <1>3, <4>1, UnmapOwned
      <4>. QED BY <1>3, <1>8, <2>0, <3>1, <3>2, <3>4, <4>2
    <3>. QED BY <3>1, <3>3, <3>4
  <2>2. CASE ~file /\ para.free /\ para \in Paras /\ N = {} /\ Unmap(t, own) = t
    <3>1. PICK v : /\ Owned(v, dropped, {}, wild) /\ ~v.vid.free /\ v.mapped \subseteq s.mapped
                   /\ v.aud.free => v.aud = s.aud
                   /\ \/ t = v /\ ~t.ok
                      \/ /\ IsState(t) /\ t.mode = v.mode /\ m \in v.mode /\ t.aud = v.aud
                         /\ t.mapped = v.mapped
                         /\ (t.ok = TRUE /\ t.vid = para) \/ (t.ok = FALSE /\ t.vid = Freed(para))
      <4>1. Owned(s, dropped, {}, wild) /\ s.ok = TRUE BY <1>3, <2>2
      <4>2. t \in Start(s, m, para) /\ m \in Pictures /\ para \in Paras BY <1>2, <1>4, <2>2
      <4>3. GarbageStarted(s, dropped, wild, m, para, t) BY <4>1, <4>2, GarbageStart
      <4>. QED BY <4>3 DEF GarbageStarted
    <3>2. Freed(para) \in Paras /\ ~Freed(para).free BY <2>2, FreedPara
    <3>3. CASE ~t.ok
      <4>1. x = t /\ wild' = wild BY <1>2, <1>8, <2>2, <3>3
      <4>2. Owned(t, dropped, {}, wild)
        <5>1. CASE t = v BY <3>1, <5>1
        <5>2. CASE /\ IsState(t) /\ t.mode = v.mode /\ t.aud = v.aud /\ t.mapped = v.mapped
                   /\ t.vid = Freed(para)
          BY <3>1, <3>2, <5>2 DEF Owned
        <5>. QED BY <3>1, <3>3, <5>1, <5>2
      <4>. QED BY <1>3, <2>0, <3>1, <4>1, <4>2
    <3>4. CASE t.ok
      <4>1. /\ t.mode = v.mode /\ m \in v.mode /\ t.aud = v.aud /\ t.mapped = v.mapped /\ t.vid = para
        BY <3>1, <3>4
      <4>2. x = StopOne(t, m) /\ wild' = wild \cup ({para.data} \cap t.mapped)
        BY <1>2, <1>8, <2>2, <3>4
      <4>3. /\ IsState(x) /\ x.mode = t.mode \ {m} /\ x.vid = Freed(para) /\ x.aud = v.aud
            /\ x.mapped = v.mapped \ {para.data}
        BY <1>4, <1>7, <2>2, <4>1, <4>2, StopOneModes, StopOneParts
      <4>4. "aes" \in v.mode => "aes" \in x.mode BY <1>4, <4>1, <4>3
      <4>5. Owned(x, dropped, {}, wild')
        BY <3>1, <3>2, <4>1, <4>2, <4>3, <4>4 DEF Owned
      <4>. QED BY <1>3, <2>0, <3>1, <4>1, <4>2, <4>3, <4>5
    <3>. QED BY <3>3, <3>4
  <2>. QED BY <1>5, <2>1, <2>2
<1>10. Become(x) BY <1>2, <1>8
<1>11. Exclusive(x.mode) BY <1>7, <1>9, FewerModes
<1>12. /\ curVes' \in Paras /\ (curVes'.free => curVes'.data \in 1 .. maps')
       /\ curVes'.free /\ x.aud.free => curVes'.data # x.aud.data
  BY <1>3, <1>4, <1>9, KeptVes
<1>13. Owned(x, dropped', {}, wild') /\ dropped' \subseteq 1 .. maps' /\ x.mapped \subseteq 1 .. maps'
  BY <1>3, <1>4, <1>9
<1>. QED BY <1>3, <1>4, <1>9, <1>10, <1>11, <1>12, <1>13, BecomeKeepsAvInv

(* The restart of the video path: one mode.                                *)
LEMMA PathRestartedKeepsAvInv ==
  ASSUME AvInv, NEW s, s = IF "ves" \in mode THEN [State EXCEPT !.vid = Freed(@)] ELSE State,
         PathRestarted(s), UNCHANGED <<curVes, maps>>
  PROVE  AvInv'
<1>1. PICK m \in PathModes \ Pictures :
        /\ PathModes = {m}
        /\ \E t \in Start(StopAll(s, PathModes), m, curVes) :
             /\ Become(t)
             /\ halfVes' = ("ves" \in t.mode /\ ~t.ok)
             /\ wild' = IF halfVes /\ t.vid.free THEN wild \cup ({t.vid.data} \ t.mapped) ELSE wild
             /\ dropped' = IF t.ok \/ m # "ves" \/ ~vidPara.free THEN dropped
                           ELSE dropped \cup {vidPara.data}
  BY DEF PathRestarted, Alone
<1>2. PICK u : u = StopAll(s, {m}) OBVIOUS
<1>3. PICK t \in Start(u, m, curVes) :
        /\ Become(t)
        /\ halfVes' = ("ves" \in t.mode /\ ~t.ok)
        /\ wild' = IF halfVes /\ t.vid.free THEN wild \cup ({t.vid.data} \ t.mapped) ELSE wild
        /\ dropped' = IF t.ok \/ m # "ves" \/ ~vidPara.free THEN dropped
                      ELSE dropped \cup {vidPara.data}
  BY <1>1, <1>2
<1>4. PICK N : N = IF m = "ves" /\ curVes.free THEN {curVes.data} ELSE {} OBVIOUS
<1>X. PICK X : X = IF halfVes THEN wild \cup N ELSE wild OBVIOUS
<1>5. /\ m \in Modes /\ m \in mode /\ m # "aes" /\ m \notin Pictures /\ mode \subseteq {m, "aes"}
      /\ "ves" \in mode => m = "ves"
  BY <1>1 DEF PathModes, AvInv, Exclusive
<1>6. /\ maps \in Nat /\ maps \in 0 .. MaxMaps /\ mapped \subseteq 1 .. maps
      /\ dropped \subseteq 1 .. maps /\ wild \subseteq 1 .. maps
      /\ curVes \in Paras /\ N \subseteq 1 .. maps
      /\ audPara.free => audPara.data \notin N
  BY <1>4, AvModesAssumption DEF AvInv, AvTypeOK
<1>7. /\ Owned(s, dropped, N, X) /\ s.mapped = mapped /\ s.mode = mode /\ s.ok = TRUE
      /\ s.aud = audPara
  <2>1. CASE m = "ves"
    <3>1. s = [State EXCEPT !.vid = Freed(@)] BY <1>5, <2>1
    <3>2. /\ IsState(s) /\ s.mode = mode /\ s.vid = Freed(vidPara) /\ s.aud = audPara
          /\ s.mapped = mapped /\ s.ok = TRUE
      BY <3>1, StateFields DEF State, IsState
    <3>3. Freed(vidPara) \in Paras /\ ~Freed(vidPara).free
      BY FreedPara DEF AvInv, AvTypeOK
    <3>4. /\ vidPara.free => vidPara.data \in N
          /\ N \subseteq mapped \cup X /\ wild \subseteq X /\ X \subseteq wild \cup N
      BY <1>4, <1>X, <1>5, <2>1, StateFields DEF AvInv, Owned
    <3>5. Owned(s, dropped, N, X)
      BY <1>6, <3>2, <3>3, <3>4, StateFields DEF AvInv, Owned
    <3>. QED BY <3>2, <3>5
  <2>2. CASE m # "ves"
    <3>1. s = State /\ N = {} BY <1>4, <1>5, <2>2
    <3>2. X = wild BY <1>X, <3>1
    <3>. QED BY <3>1, <3>2, StateFields DEF AvInv
  <2>. QED BY <2>1, <2>2
<1>8. /\ Owned(u, dropped, N, X) /\ u.mapped \subseteq mapped /\ u.ok = TRUE
      /\ u.mode = mode \ {m} /\ Exclusive(u.mode) /\ (u.aud.free => u.aud = audPara)
  <2>1. IsState(s) BY <1>7 DEF Owned
  <2>2. /\ Owned(u, dropped, N, X) /\ u.mapped \subseteq mapped /\ u.ok = TRUE
        /\ u.aud.free => u.aud = audPara
    BY <1>2, <1>7, StopAllOwned
  <2>3. u.mode = mode \ {m}
    <3>1. StopAll(s, {m}).mode = s.mode \ {m} BY <2>1, StopAllModes
    <3>. QED BY <1>2, <1>7, <3>1
  <2>. QED BY <2>2, <2>3, FewerModes DEF AvInv
<1>9. /\ m \in VideoEs \cup {"aes"} => Handed(curVes, N)
      /\ m \notin VideoEs \cup {"aes"} => N = {}
      /\ Written(u, m) = {}
  BY <1>4, <1>5, <1>6, <1>8 DEF Handed, VideoEs, Written
<1>10. /\ t.ok \in BOOLEAN /\ t.mapped \subseteq mapped
       /\ Owned(t, dropped, IF t.ok THEN {} ELSE N, X)
       /\ t.ok /\ m = "ves" => t.vid = curVes
       /\ ~t.ok /\ m = "ves" /\ m \in t.mode => ~t.vid.free
       /\ t.aud.free => t.aud = audPara
  <2>1. /\ t.ok \in BOOLEAN /\ t.mapped \subseteq u.mapped
        /\ Owned(t, dropped \cup (IF t.vid = u.vid THEN {} ELSE Written(u, m)),
                 IF t.ok THEN {} ELSE N, X)
        /\ t.ok /\ m = "ves" => t.vid = curVes
        /\ ~t.ok /\ m = "ves" /\ m \in t.mode => ~t.vid.free
        /\ t.aud.free => t.aud = u.aud \/ (t.ok /\ m = "aes" /\ t.aud = curVes)
    <3>1. Owned(u, dropped, N, X) /\ u.ok = TRUE /\ m \in Modes BY <1>5, <1>8
    <3>2. PICK para : para = curVes OBVIOUS
    <3>3. /\ t \in Start(u, m, para)
          /\ m \in VideoEs \cup {"aes"} => Handed(para, N)
          /\ m \notin VideoEs \cup {"aes"} => N = {}
      BY <1>3, <1>9, <3>2
    <3>4. EsStarted(u, dropped, N, X, m, para, t) BY <3>1, <3>3, StartOwned
    <3>. QED BY <3>2, <3>4 DEF EsStarted
  <2>2. dropped \cup (IF t.vid = u.vid THEN {} ELSE Written(u, m)) = dropped BY <1>9
  <2>. QED BY <1>5, <1>8, <2>1, <2>2
<1>11. IsState(t) /\ Exclusive(t.mode) /\ t.mode \subseteq mode
  <2>1. IsState(u) BY <1>8 DEF Owned
  <2>2. t.mode \subseteq (u.mode \ Excludes(m)) \cup {m} BY <1>3, <2>1, StartModes
  <2>. QED BY <1>3, <1>5, <1>8, <2>1, <2>2, StartKeeps
<1>12. X \subseteq wild \cup N /\ wild \subseteq wild' /\ (~halfVes => X = wild /\ wild' = wild)
  BY <1>3, <1>X
<1>13. /\ t.vid.free => t.vid.data \in (t.mapped \cup wild') /\ t.mode \cap VideoEs # {}
       /\ t.aud.free => t.aud.data \in (t.mapped \cup wild') /\ "aes" \in t.mode
  <2>1. t.vid.free => t.vid.data \in t.mapped \cup X /\ t.mode \cap VideoEs # {} BY <1>10 DEF Owned
  <2>2. t.aud.free => t.aud.data \in t.mapped \cup X /\ "aes" \in t.mode BY <1>10 DEF Owned
  <2>3. t.vid.free => t.vid.data \in t.mapped \cup wild' BY <1>3, <1>12, <2>1
  <2>4. t.aud.free => t.aud.data \notin N BY <1>6, <1>10
  <2>. QED BY <1>12, <2>1, <2>2, <2>3, <2>4
<1>14. \A x \in t.mapped : \/ x \in dropped'
                           \/ t.vid.free /\ x = t.vid.data
                           \/ t.aud.free /\ x = t.aud.data
  <2>1. CASE t.ok BY <1>3, <1>10, <2>1 DEF Owned
  <2>2. CASE ~t.ok
    <3>1. \A x \in N \cap mapped : x \in dropped'
      <4>1. CASE halfVes
        <5>1. ~vidPara.free BY <4>1 DEF AvInv
        <5>2. \A x \in N \cap mapped : x \in dropped
          BY <1>6, <5>1, StateFields DEF AvInv, Owned
        <5>. QED BY <1>3, <5>2
      <4>2. CASE ~halfVes
        <5>1. m = "ves" => vidPara = curVes BY <1>5, <4>2 DEF AvInv
        <5>. QED BY <1>3, <1>4, <2>2, <5>1
      <4>. QED BY <4>1, <4>2
    <3>2. dropped \subseteq dropped' BY <1>3
    <3>. QED BY <1>10, <2>2, <3>1, <3>2 DEF Owned
  <2>. QED BY <1>10, <2>1, <2>2
<1>15. Owned(t, dropped', {}, wild') BY <1>10, <1>11, <1>13, <1>14 DEF Owned
<1>16. /\ maps' \in 0 .. MaxMaps /\ maps <= maps' /\ t.mapped \subseteq 1 .. maps'
       /\ dropped' \subseteq 1 .. maps' /\ wild' \subseteq 1 .. maps'
  <2>1. t.vid.free /\ halfVes => t.vid.data \in 1 .. maps
    BY <1>6, <1>10, <1>12 DEF Owned
  <2>2. vidPara.free => vidPara.data \in 1 .. maps
    BY <1>6, StateFields DEF AvInv, Owned
  <2>. QED BY <1>3, <1>6, <1>10, <2>1, <2>2
<1>17. /\ "ves" \in t.mode /\ ~halfVes' => t.vid = curVes'
       /\ halfVes' => "ves" \in t.mode /\ ~t.vid.free
       /\ halfVes' \in BOOLEAN
  <2>1. "ves" \in t.mode => m = "ves" BY <1>5, <1>11
  <2>. QED BY <1>3, <1>10, <2>1
<1>. QED BY <1>3, <1>10, <1>11, <1>15, <1>16, <1>17, KeptVes, BecomeKeepsAvInv

(* A file and a picture together, or a picture that cannot be opened: the  *)
(* video stream is not among them.                                         *)
LEMMA PathTogetherKeepsAvInv ==
  ASSUME AvInv, NEW s, s = IF "ves" \in mode THEN [State EXCEPT !.vid = Freed(@)] ELSE State,
         PathTogether(s), UNCHANGED <<curVes, maps>>
  PROVE  AvInv'
<1>. DEFINE stopped == StopAll(s, PathModes)
            more == [stopped EXCEPT !.mode = @ \cup PathModes]
<1>1. "ves" \notin mode
  <2>. SUFFICES ASSUME "ves" \in mode PROVE FALSE OBVIOUS
  <2>1. PathModes = {"ves"}
    BY DEF PathModes, AvInv, Exclusive, Modes, VideoModes
  <2>. QED BY <2>1 DEF PathTogether, Alone, Pictures
<1>2. s = State BY <1>1
<1>3. /\ Owned(stopped, dropped, {}, wild) /\ stopped.mapped \subseteq mapped
      /\ stopped.mode = mode \ PathModes /\ (stopped.aud.free => stopped.aud = audPara)
  BY <1>2, StateFields, StopAllModes, StopAllOwned DEF AvInv
<1>4. PICK x : (x = stopped \/ x = more) /\ Become(x)
  BY DEF PathTogether
<1>. HIDE DEF stopped
<1>5. /\ Owned(x, dropped, {}, wild) /\ x.mapped \subseteq mapped /\ x.mode \subseteq mode
      /\ x.aud.free => x.aud = audPara
  <2>1. CASE x = stopped BY <1>3, <2>1
  <2>2. CASE x = more
    <3>1. /\ IsState(x) /\ x.mode = stopped.mode \cup PathModes /\ x.vid = stopped.vid
          /\ x.aud = stopped.aud /\ x.mapped = stopped.mapped
      BY <1>3, <2>2 DEF IsState, Owned
    <3>2. x.mode \subseteq mode BY <1>3, <3>1 DEF PathModes
    <3>3. Owned(x, dropped, {}, wild) BY <1>3, <3>1 DEF Owned
    <3>. QED BY <1>3, <3>1, <3>2, <3>3
  <2>. QED BY <1>4, <2>1, <2>2
<1>6. Exclusive(x.mode) BY <1>5, FewerModes DEF AvInv
<1>7. UNCHANGED <<halfVes, wild, dropped>> BY DEF PathTogether
<1>8. "ves" \notin x.mode /\ ~halfVes BY <1>1, <1>5 DEF AvInv
<1>9. /\ maps' \in 0 .. MaxMaps /\ maps <= maps' /\ x.mapped \subseteq 1 .. maps'
      /\ dropped' \subseteq 1 .. maps' /\ wild' \subseteq 1 .. maps'
  BY <1>5, <1>7, AvModesAssumption DEF AvInv, AvTypeOK
<1>10. Owned(x, dropped', {}, wild') BY <1>5, <1>7
<1>11. halfVes' = FALSE BY <1>7, <1>8 DEF AvInv, AvTypeOK
<1>. QED BY <1>4, <1>5, <1>6, <1>8, <1>9, <1>10, <1>11, KeptVes, BecomeKeepsAvInv

LEMMA SetVPathKeepsAvInv == ASSUME AvInv, SetVPath PROVE AvInv'
<1>1. PICK s : /\ s = IF "ves" \in mode THEN [State EXCEPT !.vid = Freed(@)] ELSE State
               /\ PathRestarted(s) \/ PathCrashes \/ PathTogether(s)
  BY DEF SetVPath
<1>2. UNCHANGED <<curVes, maps>> BY DEF SetVPath
<1>3. CASE PathCrashes
  BY <1>2, <1>3 DEF PathCrashes, AvInv, AvTypeOK, State
<1>. QED BY <1>1, <1>2, <1>3, PathRestartedKeepsAvInv, PathTogetherKeepsAvInv

LEMMA OthersKeepAvInv ==
  ASSUME AvInv, NEW m \in Modes, StartStream(m) \/ StopMode(m) \/ CloseOpen
  PROVE  AvInv'
<1>1. ASSUME NEW x, Become(x), Owned(x, dropped, {}, wild), x.mapped \subseteq mapped,
             x.aud.free => x.aud = audPara, Exclusive(x.mode), halfVes' \in BOOLEAN,
             UNCHANGED <<curVes, maps, wild, dropped>>,
             "ves" \in x.mode => x.vid = vidPara /\ "ves" \in mode /\ halfVes' = halfVes,
             halfVes' => "ves" \in x.mode
      PROVE  AvInv'
  <2>0. /\ maps \in 0 .. MaxMaps /\ mapped \subseteq 1 .. maps
        /\ dropped \subseteq 1 .. maps /\ wild \subseteq 1 .. maps
    BY DEF AvInv, AvTypeOK
  <2>1. /\ maps' \in 0 .. MaxMaps /\ maps <= maps' /\ x.mapped \subseteq 1 .. maps'
        /\ dropped' \subseteq 1 .. maps' /\ wild' \subseteq 1 .. maps'
    <3>1. maps' = maps /\ dropped' = dropped /\ wild' = wild BY <1>1
    <3>2. maps \in Nat BY <2>0, AvModesAssumption
    <3>3. maps' \in 0 .. MaxMaps /\ maps <= maps' BY <2>0, <3>1, <3>2
    <3>4. x.mapped \subseteq 1 .. maps' /\ dropped' \subseteq 1 .. maps' /\ wild' \subseteq 1 .. maps'
      BY <1>1, <2>0, <3>1
    <3>. QED BY <3>3, <3>4
  <2>2. Owned(x, dropped', {}, wild') BY <1>1
  <2>3. /\ "ves" \in x.mode /\ ~halfVes' => x.vid = curVes'
        /\ halfVes' => "ves" \in x.mode /\ ~x.vid.free
    BY <1>1 DEF AvInv
  <2>. QED BY <1>1, <2>1, <2>2, <2>3, KeptVes, BecomeKeepsAvInv
<1>2. /\ Owned(State, dropped, {}, wild) /\ Exclusive(State.mode) /\ State.mapped = mapped
      /\ State.vid = vidPara /\ State.aud = audPara /\ State.mode = mode /\ State.ok = TRUE
  BY StateFields DEF AvInv
<1>3. CASE StartStream(m)
  <2>1. PICK t \in Start(State, m, NoPara) : Become(t)
    BY <1>3 DEF StartStream
  <2>2. /\ m \in {"ts", "file", "inject", "timeshift"} /\ m \notin VideoEs \cup {"aes"}
        /\ m # "aes" /\ halfVes' = FALSE /\ UNCHANGED <<curVes, maps, wild, dropped>>
    BY <1>3 DEF StartStream, VideoEs, Pictures
  <2>3. Written(State, m) = {} BY <2>2 DEF Written
  <2>4. /\ t.ok \in BOOLEAN /\ t.mapped \subseteq mapped
        /\ Owned(t, dropped \cup (IF t.vid = State.vid THEN {} ELSE Written(State, m)),
                 IF t.ok THEN {} ELSE {}, wild)
        /\ t.aud.free => t.aud = audPara
    <3>1. EsStarted(State, dropped, {}, wild, m, NoPara, t) BY <1>2, <2>1, <2>2, StartOwned
    <3>. QED BY <1>2, <2>2, <3>1 DEF EsStarted
  <2>5. Owned(t, dropped, {}, wild)
    <3>1. dropped \cup (IF t.vid = State.vid THEN {} ELSE Written(State, m)) = dropped
      BY <2>3
    <3>. QED BY <2>4, <3>1
  <2>6. Exclusive(t.mode) /\ t.mode \subseteq (mode \ Excludes(m)) \cup {m}
    BY <1>2, StateFields, StartKeeps, StartModes
  <2>7. "ves" \notin t.mode
    BY <2>2, <2>6 DEF Excludes, Pictures, Modes
  <2>. QED BY <1>1, <2>1, <2>2, <2>4, <2>5, <2>6, <2>7
<1>4. CASE StopMode(m)
  <2>. DEFINE x == StopOne(State, m)
  <2>1. /\ Become(x) /\ UNCHANGED <<curVes, maps, wild, dropped>> /\ m \notin Pictures
        /\ halfVes' = (halfVes /\ m # "ves")
    BY <1>4 DEF StopMode
  <2>2. /\ Owned(x, dropped, {}, wild) /\ x.mapped \subseteq mapped
        /\ m \notin VideoEs => x.vid = vidPara
    BY <1>2, StopOneOwned
  <2>3. x.mode = mode \ {m} /\ (x.aud.free => x.aud = audPara)
    <3>1. ~Freed(audPara).free BY FreedPara DEF AvInv, AvTypeOK
    <3>. QED BY <3>1, StateFields, StopOneModes, StopOneParts
  <2>. HIDE DEF x
  <2>4. Exclusive(x.mode) BY <1>2, <2>3, FewerModes
  <2>5. /\ "ves" \in x.mode => x.vid = vidPara /\ "ves" \in mode /\ halfVes' = halfVes
        /\ halfVes' => "ves" \in x.mode
        /\ halfVes' \in BOOLEAN
    BY <2>1, <2>2, <2>3 DEF AvInv, AvTypeOK, VideoEs
  <2>. QED BY <1>1, <2>1, <2>2, <2>3, <2>4, <2>5
<1>5. CASE CloseOpen
  <2>. DEFINE x == StopAll(State, Modes)
  <2>1. Become(x) /\ halfVes' = FALSE /\ UNCHANGED <<curVes, maps, wild, dropped>>
    BY <1>5 DEF CloseOpen
  <2>2. /\ Owned(x, dropped, {}, wild) /\ x.mapped \subseteq mapped
        /\ x.aud.free => x.aud = audPara
    BY <1>2, StopAllOwned
  <2>3. x.mode = mode \ Modes BY StateFields, StopAllModes
  <2>. HIDE DEF x
  <2>4. x.mode = {} /\ Exclusive(x.mode) BY <1>2, <2>3 DEF Exclusive
  <2>. QED BY <1>1, <2>1, <2>2, <2>4
<1>. QED BY <1>3, <1>4, <1>5

LEMMA InitAvInv == AvInit => AvInv
<1>. SUFFICES ASSUME AvInit PROVE AvInv
  OBVIOUS
<1>0. NoPara \in Paras /\ 0 \in 0 .. MaxMaps BY AvModesAssumption DEF NoPara, Paras
<1>1. AvTypeOK BY <1>0 DEF AvInit, AvTypeOK
<1>2. Exclusive(mode) BY DEF AvInit, Exclusive
<1>3. ~vidPara.free /\ ~audPara.free /\ ~curVes.free /\ mapped = {} BY DEF AvInit, NoPara
<1>4. Owned(State, dropped, {}, wild) BY <1>1, <1>3, StateFields DEF Owned, AvTypeOK
<1>. QED BY <1>1, <1>2, <1>3, <1>4 DEF AvInv, AvInit

LEMMA AvInvariant == AvSpec => []AvInv
<1>1. AvInv /\ [AvNext]_avVars => AvInv'
  <2>1. ASSUME AvInv, AvNext PROVE AvInv'
    <3>1. "ves" \in Modes BY DEF Modes
    <3>. QED BY <2>1, <3>1, StartEsKeepsAvInv, DecodePictureKeepsAvInv, SetVPathKeepsAvInv,
           OthersKeepAvInv DEF AvNext
  <2>2. ASSUME AvInv, UNCHANGED avVars PROVE AvInv'
    BY <2>2 DEF avVars, AvInv, AvTypeOK, State
  <2>. QED BY <2>1, <2>2
<1>. QED BY <1>1, InitAvInv, PTL DEF AvSpec

(* The decoders have one user each, whatever is started, restarted and     *)
(* stopped and whichever calls of the driver fail.                         *)
THEOREM ModesAreExclusive == AvSpec => []ModesExclusive
<1>1. AvInv => ModesExclusive BY DEF AvInv, Exclusive, ModesExclusive
<1>. QED BY <1>1, AvInvariant, PTL

(* A mapping is freed once and by one owner: the player of an open mode,   *)
(* or the client whose start failed; but a restart of the video path after *)
(* a start that failed plays again what may be freed, and the garbage of a *)
(* picture frees what is another's.  Only a video stream started over      *)
(* another and a restart that fails lose one.                              *)
THEOREM MappingsHaveOwners == AvSpec => []MappingsOwned
<1>1. AvInv => MappingsOwned
  <2>. SUFFICES ASSUME AvInv PROVE MappingsOwned
    OBVIOUS
  <2>1. Owned(State, dropped, {}, wild) BY DEF AvInv
  <2>2. \A x \in mapped \ dropped : x \in {p.data : p \in {q \in {vidPara, audPara} : q.free}}
    BY <2>1, StateFields DEF Owned
  <2>. QED BY <2>1, <2>2, StateFields DEF Owned, MappingsOwned, VideoEs
<1>. QED BY <1>1, AvInvariant, PTL

-----------------------------------------------------------------------------
(* FendBlind: the scan thread, the monitor thread and a client.            *)

(* The tuner scans only while the thread is where it will cancel.          *)
ScanHeld == scanning => bStatus \in {"wait", "user", "waitexit", "cancel"}

(* The thread is at its cancellation, and a client in its join, only after *)
(* the flag was reset.                                                     *)
FlagReset ==
  /\ bStatus = "cancel" => ~bEnable
  /\ leaving => ~bEnable

(* The monitor thread, once it has taken an event, sleeps until the flag   *)
(* is reset.                                                               *)
OneTaken == taken \in {0, 1} /\ (taken = 1 /\ bEnable => monitor = "test")

(* An event of a transponder is to be told of while the thread has it.     *)
Owing == bStatus = "user" /\ bAt # "cb" /\ bEvent = "result"

Counted ==
  /\ tps \in Nat /\ told \in Nat
  /\ hasCb /\ Owing => told = tps - 1
  /\ hasCb /\ ~Owing => told = tps \/ (told = tps - 1 /\ bEvent = "result" /\ ~bEnable
                                       /\ bStatus \in {"cancel", "exit", "none"})

(* A callback runs in the processing of an event only.                     *)
CbPlace ==
  /\ bEnable \in BOOLEAN
  /\ bAt \in {"test", "do", "cb"}
  /\ bAt = "cb" => bStatus = "user"

(* The inductive invariant.                                                *)
BlindInv == ScanHeld /\ FlagReset /\ OneTaken /\ Counted /\ CbPlace

LEMMA InitBlindInv == ASSUME FendBlindInit PROVE BlindInv
<1>. USE DEF FendBlindInit
<1>1. ScanHeld /\ FlagReset BY DEF ScanHeld, FlagReset
<1>2. OneTaken              BY DEF OneTaken
<1>3. Counted               BY DEF Counted, Owing
<1>4. CbPlace               BY DEF CbPlace
<1>. QED BY <1>1, <1>2, <1>3, <1>4 DEF BlindInv

(* The scan thread.                                                        *)
LEMMA ScanThreadKeeps == ASSUME BlindInv, ScanThread PROVE BlindInv'
<1>. USE DEF BlindInv, ScanHeld, FlagReset, OneTaken, Counted, Owing, CbPlace, Turn, ScanEvents
<1>1. CASE TestBlind     BY <1>1 DEF TestBlind
<1>2. CASE BeginScan     BY <1>2 DEF BeginScan
<1>3. CASE StartScan     BY <1>3 DEF StartScan
<1>4. CASE GetScanEvent  BY <1>4 DEF GetScanEvent
<1>5. CASE UserProcess
  <2>1. CASE hasCb       BY <1>5, <2>1 DEF UserProcess
  <2>2. CASE ~hasCb      BY <1>5, <2>2 DEF UserProcess, AfterEvent
  <2>. QED BY <2>1, <2>2
<1>6. CASE BlindCbReturns BY <1>6 DEF BlindCbReturns, AfterEvent
<1>7. CASE WaitExit      BY <1>7 DEF WaitExit
<1>8. CASE CancelScan    BY <1>8 DEF CancelScan
<1>. QED BY <1>1, <1>2, <1>3, <1>4, <1>5, <1>6, <1>7, <1>8 DEF ScanThread

(* The monitor thread.                                                     *)
LEMMA MonitorKeeps == ASSUME BlindInv, MonitorTest \/ MonitorReads PROVE BlindInv'
<1>. USE DEF BlindInv, ScanHeld, FlagReset, OneTaken, Counted, Owing, CbPlace
<1>1. CASE MonitorTest   BY <1>1 DEF MonitorTest
<1>2. CASE MonitorReads  BY <1>2 DEF MonitorReads
<1>. QED BY <1>1, <1>2

(* The client.                                                             *)
LEMMA ClientKeeps == ASSUME BlindInv, BlindScan \/ BlindExit \/ BlindJoined PROVE BlindInv'
<1>. USE DEF BlindInv, ScanHeld, FlagReset, OneTaken, Counted, Owing, CbPlace
<1>1. CASE BlindScan     BY <1>1 DEF BlindScan
<1>2. CASE BlindExit     BY <1>2 DEF BlindExit
<1>3. CASE BlindJoined   BY <1>3 DEF BlindJoined
<1>. QED BY <1>1, <1>2, <1>3

LEMMA BlindStep == ASSUME BlindInv, [FendBlindNext]_blindVars PROVE BlindInv'
<1>1. ASSUME FendBlindNext PROVE BlindInv'
  BY <1>1, ScanThreadKeeps, MonitorKeeps, ClientKeeps DEF FendBlindNext
<1>2. ASSUME UNCHANGED blindVars PROVE BlindInv'
  BY <1>2 DEF BlindInv, ScanHeld, FlagReset, OneTaken, Counted, Owing, CbPlace, blindVars
<1>. QED BY <1>1, <1>2

LEMMA BlindInvariant == FendBlindSpec => []BlindInv
BY InitBlindInv, BlindStep, PTL DEF FendBlindSpec

(* The types: no more is told of than was found.                           *)
BlindTypes == FendBlindTypeOK /\ told <= tps

LEMMA InitBlindTypes == FendBlindInit => BlindTypes
<1>. SUFFICES ASSUME FendBlindInit PROVE BlindTypes OBVIOUS
<1>1. bEnable \in BOOLEAN /\ hasCb \in BOOLEAN /\ scanning \in BOOLEAN /\ leaving \in BOOLEAN
  BY DEF FendBlindInit
<1>2. 0 \in 0 .. MaxTps BY FendBlindAssumption
<1>. QED BY <1>1, <1>2 DEF FendBlindInit, BlindTypes, FendBlindTypeOK, ScanEvents

LEMMA BlindTypesStep ==
  ASSUME BlindInv, BlindTypes, [FendBlindNext]_blindVars PROVE BlindTypes'
<1>. USE FendBlindAssumption DEF BlindTypes, FendBlindTypeOK, Turn
<1>1. CASE TestBlind     BY <1>1 DEF TestBlind
<1>2. CASE BeginScan     BY <1>2 DEF BeginScan
<1>3. CASE StartScan     BY <1>3 DEF StartScan
<1>4. CASE GetScanEvent  BY <1>4 DEF GetScanEvent
<1>5. CASE UserProcess
  <2>1. CASE hasCb
    <3>1. bEvent = "result" => told = tps - 1
      BY <1>5, <2>1 DEF UserProcess, BlindInv, Counted, Owing
    <3>. QED BY <1>5, <2>1, <3>1 DEF UserProcess
  <2>2. CASE ~hasCb      BY <1>5, <2>2 DEF UserProcess, AfterEvent
  <2>. QED BY <2>1, <2>2
<1>6. CASE BlindCbReturns BY <1>6 DEF BlindCbReturns, AfterEvent
<1>7. CASE WaitExit      BY <1>7 DEF WaitExit
<1>8. CASE CancelScan    BY <1>8 DEF CancelScan
<1>9. CASE MonitorTest   BY <1>9 DEF MonitorTest
<1>10. CASE MonitorReads BY <1>10 DEF MonitorReads
<1>11. CASE BlindScan    BY <1>11 DEF BlindScan
<1>12. CASE BlindExit    BY <1>12 DEF BlindExit
<1>13. CASE BlindJoined  BY <1>13 DEF BlindJoined
<1>14. CASE UNCHANGED blindVars BY <1>14 DEF blindVars
<1>. QED BY <1>1, <1>2, <1>3, <1>4, <1>5, <1>6, <1>7, <1>8, <1>9, <1>10, <1>11, <1>12, <1>13, <1>14
     DEF FendBlindNext, ScanThread

(* The tuner has left the scan when AM_FEND_BlindExit has returned, the    *)
(* callback was told of every transponder but one the exit has overtaken,  *)
(* and the monitor thread has taken one event away at most.                *)
THEOREM BlindScanIsKept == FendBlindSpec => []BlindScanKept
<1>1. BlindInv => BlindScanKept
  BY DEF BlindInv, ScanHeld, OneTaken, Counted, Owing, BlindScanKept
<1>. QED BY <1>1, BlindInvariant, PTL

(* How far the scan thread is from its end, when it is told to end.        *)
BlindDistance ==
  CASE bStatus \in {"none", "exit"}                                        -> 0
    [] bStatus = "cancel" /\ bAt = "do"                                    -> 1
    [] bStatus \notin {"none", "exit"} /\ bAt = "test"                     -> 2
    [] bStatus \notin {"none", "exit", "cancel", "user"} /\ bAt = "do"     -> 3
    [] bStatus = "user" /\ bAt = "cb"                                      -> 3
    [] bStatus = "user" /\ bAt = "do"                                      -> 4

(* There is a thread to join.                                              *)
BlindCloseInv == leaving => bStatus # "none"

LEMMA BlindNothingDelays ==
  ASSUME BlindInv, FendBlindTypeOK, BlindCloseInv, [FendBlindNext]_blindVars
  PROVE  /\ BlindCloseInv'
         /\ leaving => /\ BlindDistance' <= BlindDistance
                       /\ ScanThread => BlindDistance' < BlindDistance
<1>0. PICK n : n = BlindDistance OBVIOUS
<1>1. n \in Nat /\ bAt \in {"test", "do", "cb"} /\ (bAt = "cb" => bStatus = "user")
  BY <1>0 DEF BlindDistance, BlindInv, CbPlace
<1>2. leaving => ~bEnable BY DEF BlindInv, FlagReset
<1>3. CASE ScanThread
  <2>. USE DEF BlindDistance, BlindCloseInv, Turn
  <2>1. CASE TestBlind    BY <1>2, <2>1 DEF TestBlind
  <2>2. CASE BeginScan    BY <2>2 DEF BeginScan
  <2>3. CASE StartScan    BY <2>3 DEF StartScan
  <2>4. CASE GetScanEvent BY <2>4 DEF GetScanEvent
  <2>5. CASE UserProcess  BY <2>5 DEF UserProcess, AfterEvent
  <2>6. CASE BlindCbReturns BY <1>1, <2>6 DEF BlindCbReturns, AfterEvent
  <2>7. CASE WaitExit     BY <2>7 DEF WaitExit
  <2>8. CASE CancelScan   BY <2>8 DEF CancelScan
  <2>. QED BY <1>3, <2>1, <2>2, <2>3, <2>4, <2>5, <2>6, <2>7, <2>8 DEF ScanThread
<1>4. ASSUME UNCHANGED <<bStatus, bAt>>
      PROVE  BlindDistance' <= BlindDistance /\ ~ScanThread
  <2>1. BlindDistance' = BlindDistance BY <1>4 DEF BlindDistance
  <2>2. ~ScanThread
    BY <1>4 DEF ScanThread, TestBlind, BeginScan, StartScan, GetScanEvent, UserProcess,
       BlindCbReturns, WaitExit, CancelScan, Turn, AfterEvent
  <2>. QED BY <1>0, <1>1, <2>1, <2>2
<1>5. CASE MonitorTest \/ MonitorReads
  BY <1>4, <1>5 DEF MonitorTest, MonitorReads, BlindCloseInv
<1>6. CASE BlindScan BY <1>6 DEF BlindScan, BlindCloseInv
<1>7. CASE BlindExit BY <1>7 DEF BlindExit, BlindCloseInv
<1>8. CASE BlindJoined
  <2>1. BlindDistance' = 0 /\ ~leaving' BY <1>8 DEF BlindJoined, BlindDistance
  <2>2. ~ScanThread
    BY <1>8 DEF BlindJoined, ScanThread, TestBlind, BeginScan, StartScan, GetScanEvent,
       UserProcess, BlindCbReturns, WaitExit, CancelScan, BlindInv, CbPlace
  <2>. QED BY <1>0, <1>1, <2>1, <2>2 DEF BlindCloseInv
<1>9. CASE UNCHANGED blindVars BY <1>4, <1>9 DEF blindVars, BlindCloseInv
<1>. QED BY <1>3, <1>5, <1>6, <1>7, <1>8, <1>9 DEF FendBlindNext

(* While a client leaves, the thread comes nearer, and nothing takes it    *)
(* further.                                                                *)
BlindExitNears ==
  [][leaving => /\ BlindDistance' <= BlindDistance
                /\ ScanThread => BlindDistance' < BlindDistance]_blindVars

(* Meanwhile it is so many steps away at most, and none at its end only.   *)
BlindExitBounded ==
  leaving => BlindDistance \in 0 .. 4 /\ (BlindDistance = 0 <=> bStatus = "exit")

(* AM_FEND_BlindExit joins the thread with am_gAdpLock held: wherever      *)
(* the thread is, in the callback too, it has four steps to make at most,  *)
(* and no event of the scan delays it.                                     *)
THEOREM BlindExitComesNearer == FendBlindSpec => []BlindExitBounded /\ BlindExitNears
<1>1. FendBlindInit => BlindCloseInv BY DEF FendBlindInit, BlindCloseInv
<1>2. BlindInv /\ FendBlindTypeOK /\ BlindCloseInv /\ [FendBlindNext]_blindVars => BlindCloseInv'
  BY BlindNothingDelays
<1>3. BlindInv /\ FendBlindTypeOK /\ BlindCloseInv => BlindExitBounded
  BY DEF BlindInv, CbPlace, FendBlindTypeOK, BlindCloseInv, BlindExitBounded, BlindDistance
<1>4. BlindInv /\ FendBlindTypeOK /\ BlindCloseInv /\ [FendBlindNext]_blindVars
        => [leaving => /\ BlindDistance' <= BlindDistance
                       /\ ScanThread => BlindDistance' < BlindDistance]_blindVars
  BY BlindNothingDelays
<1>5. BlindTypes => FendBlindTypeOK BY DEF BlindTypes
<1>6. BlindInv /\ BlindTypes /\ [FendBlindNext]_blindVars => BlindTypes' BY BlindTypesStep
<1>. QED BY <1>1, <1>2, <1>3, <1>4, <1>5, <1>6, InitBlindTypes, BlindInvariant, PTL
     DEF FendBlindSpec, BlindExitNears

-----------------------------------------------------------------------------
(* Devices.  What a step of the composition is for each of the modules.    *)
EachSteps ==
  /\ [UdNext]_udVars /\ [CcNext]_ccVars /\ [PocNext]_pocVars /\ [TsFileNext]_tsVars
  /\ [TsPlayerNext]_playerVars /\ [SmcStatusNext]_smcVars /\ [T0Next]_t0Vars /\ [AvNext]_avVars
  /\ [SectionAsmNext]_secVars /\ [FendBlindNext]_blindVars /\ [PesNext]_pesVars
  /\ [InpNext]_inpVars /\ [CiNext]_ciVars

EachBegins ==
  /\ UdInit /\ CcInit /\ PocInit /\ TsFileInit /\ TsPlayerInit /\ SmcStatusInit /\ T0Init
  /\ AvInit /\ SectionAsmInit /\ FendBlindInit /\ PesInit /\ InpInit /\ CiInit

LEMMA InitEach == DevicesInit => EachBegins
BY DEF DevicesInit, EachBegins

LEMMA StepOfEach == ASSUME [DevicesNext]_devicesVars PROVE EachSteps
<1>1. CASE Only("userdata") /\ UdNext     BY <1>1 DEF Only, EachSteps
<1>2. CASE Only("fields") /\ CcNext       BY <1>2 DEF Only, EachSteps
<1>3. CASE Only("poc") /\ PocNext         BY <1>3 DEF Only, EachSteps
<1>4. CASE Only("tsfile") /\ TsFileNext   BY <1>4 DEF Only, EachSteps
<1>5. CASE Only("tsplayer") /\ TsPlayerNext BY <1>5 DEF Only, EachSteps
<1>6. CASE Only("smc") /\ SmcStatusNext   BY <1>6 DEF Only, EachSteps
<1>7. CASE Only("t0") /\ T0Next           BY <1>7 DEF Only, EachSteps
<1>8. CASE Only("av") /\ AvNext           BY <1>8 DEF Only, EachSteps
<1>9. CASE Only("sections") /\ SectionAsmNext BY <1>9 DEF Only, EachSteps
<1>10. CASE Only("blind") /\ FendBlindNext BY <1>10 DEF Only, EachSteps
<1>11. CASE Only("pes") /\ PesNext        BY <1>11 DEF Only, EachSteps
<1>12. CASE Only("inp") /\ InpNext        BY <1>12 DEF Only, EachSteps
<1>13. CASE Only("ci") /\ CiNext          BY <1>13 DEF Only, EachSteps
<1>14. CASE UNCHANGED devicesVars         BY <1>14 DEF devicesVars, EachSteps
<1>. QED BY <1>1, <1>2, <1>3, <1>4, <1>5, <1>6, <1>7, <1>8, <1>9, <1>10, <1>11, <1>12, <1>13, <1>14
         DEF DevicesNext

EachSpec ==
  /\ UdSpec /\ CcSpec /\ PocSpec /\ TsFileSpec /\ TsPlayerSpec /\ SmcStatusSpec /\ T0Spec /\ AvSpec
  /\ SectionAsmSpec /\ FendBlindSpec /\ PesSpec /\ InpSpec /\ CiSpec

(* What the modules are shown to do alone they do in the composition that  *)
(* TLC checks: its behaviours are behaviours of every one of them.         *)
THEOREM DevicesAreDevices == DevicesSpec => EachSpec
<1>1. DevicesInit => EachBegins BY InitEach
<1>2. [DevicesNext]_devicesVars => EachSteps BY StepOfEach
<1>. QED BY <1>1, <1>2, PTL
     DEF DevicesSpec, EachBegins, EachSteps, EachSpec, UdSpec, CcSpec, PocSpec, TsFileSpec,
         TsPlayerSpec, SmcStatusSpec, T0Spec, AvSpec, SectionAsmSpec, FendBlindSpec, PesSpec,
         InpSpec, CiSpec

LEMMA DevicesTypes == EachSpec => []DevicesTypeOK
<1>1. UdSpec => []UdTypeOK BY ClientsAreServed, PTL
<1>2. CcSpec => []CcTypeOK
  <2>1. CcInv => CcTypeOK BY DEF CcInv
  <2>. QED BY <2>1, CcInvariant, PTL
<1>3. PocSpec => []PocTypeOK
  <2>1. PocInv => PocTypeOK BY DEF PocInv
  <2>. QED BY <2>1, PocInvariant, PTL
<1>4. TsFileSpec => []TsFileTypeOK BY TsRingTypes, TsRingInvariant, PTL
<1>5. TsPlayerSpec => []TsPlayerTypeOK
  <2>1. PlayerInv => TsPlayerTypeOK BY DEF PlayerInv
  <2>. QED BY <2>1, InitPlayerInv, NextKeepsPlayerInv, PTL DEF TsPlayerSpec
<1>6. SmcStatusSpec => []SmcStatusTypeOK
  <2>1. SmcInv => SmcStatusTypeOK BY DEF SmcInv
  <2>. QED BY <2>1, SmcInvariant, PTL
<1>7. T0Spec => []T0TypeOK
  <2>1. T0Inv => T0TypeOK BY DEF T0Inv
  <2>. QED BY <2>1, T0Invariant, PTL
<1>8. AvSpec => []AvTypeOK
  <2>1. AvInv => AvTypeOK BY DEF AvInv
  <2>. QED BY <2>1, AvInvariant, PTL
<1>9. SectionAsmSpec => []SectionAsmTypeOK BY SectionsAreWhole, PTL
<1>10. FendBlindSpec => []FendBlindTypeOK
  <2>1. BlindTypes => FendBlindTypeOK BY DEF BlindTypes
  <2>2. BlindInv /\ BlindTypes /\ [FendBlindNext]_blindVars => BlindTypes' BY BlindTypesStep
  <2>. QED BY <2>1, <2>2, InitBlindTypes, BlindInvariant, PTL DEF FendBlindSpec
<1>11. PesSpec => []PesTypeOK BY PacketsAreWhole, PTL
<1>12. InpSpec => []InpTypeOK
  <2>1. InpInv => InpTypeOK BY DEF InpInv
  <2>. QED BY <2>1, InpInvariant, PTL
<1>13. CiSpec => []CiTypeOK
  <2>1. CiInv => CiTypeOK BY DEF CiInv
  <2>. QED BY <2>1, CiInvariant, PTL
<1>. QED BY <1>1, <1>2, <1>3, <1>4, <1>5, <1>6, <1>7, <1>8, <1>9, <1>10, <1>11, <1>12, <1>13, PTL
     DEF EachSpec, DevicesTypeOK

(* The types of all thirteen, whatever runs.                               *)
THEOREM DevicesAreTyped == DevicesSpec => []DevicesTypeOK
BY DevicesAreDevices, DevicesTypes, PTL

(* The safety of all thirteen.                                             *)
DevicesKept ==
  /\ Framed /\ CaptionsInOrder /\ ShiftKept /\ PlaysNormally /\ ReplacedStatusSilent /\ T0Exchange
  /\ ModesExclusive /\ MappingsOwned /\ AssembledWhole /\ BlindScanKept /\ DisabledSilent
  /\ CiKept

(* What each device promises holds in the composition, whatever its        *)
(* clients do, and its user data device implements the queue of packages.  *)
THEOREM DevicesKeepTheirPromises ==
  DevicesSpec => []DevicesKept /\ ImplementsContract
<1>1. EachSpec => []DevicesKept /\ ImplementsContract
  BY RingIsFramed, CaptionsAreInOrder, PlayerPlaysNormally, ShiftIsKept, ReplacedIsSilent,
     TransfersKeepStep,
     ModesAreExclusive, MappingsHaveOwners, BothAreWhole, BlindScanIsKept, ReplacedAreSilent,
     CiIsKept, PackagesInOrder, PTL
     DEF EachSpec, DevicesKept
<1>. QED BY <1>1, DevicesAreDevices, PTL
=============================================================================
