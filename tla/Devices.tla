------------------------------ MODULE Devices ------------------------------
(***************************************************************************)
(* The devices that share no state with another: a behaviour is one of one *)
(* of the modules, the others stay where they begin.                       *)
(***************************************************************************)
EXTENDS
  UserData, Captions, TsFile, TsPlayer, SmcStatus, SmcT0, AvModes, Parsers, FendBlind, Inp,
  Ci

VARIABLE device

devicesVars ==
  <<device, udVars, ccVars, pocVars, tsVars, playerVars, smcVars, t0Vars, avVars, secVars, blindVars,
    pesVars, inpVars, ciVars>>

DeviceNames ==
  {"userdata", "fields", "poc", "tsfile", "tsplayer", "smc", "t0", "av", "sections", "blind", "pes",
   "inp", "ci"}

DevicesInit ==
  /\ device \in DeviceNames
  /\ UdInit /\ CcInit /\ PocInit /\ TsFileInit /\ TsPlayerInit /\ SmcStatusInit
  /\ T0Init /\ AvInit /\ SectionAsmInit /\ FendBlindInit /\ PesInit /\ InpInit
  /\ CiInit
  /\ device # "sections" => sent = 1 /\ Len(section) = 4
  /\ device # "pes" => units = <<>> /\ payloadOnly

(* Every device but d stays as it is.                                      *)
Only(d) ==
  /\ device = d /\ UNCHANGED device
  /\ d # "userdata" => UNCHANGED udVars
  /\ d # "fields" => UNCHANGED ccVars
  /\ d # "poc" => UNCHANGED pocVars
  /\ d # "tsfile" => UNCHANGED tsVars
  /\ d # "tsplayer" => UNCHANGED playerVars
  /\ d # "smc" => UNCHANGED smcVars
  /\ d # "t0" => UNCHANGED t0Vars
  /\ d # "av" => UNCHANGED avVars
  /\ d # "sections" => UNCHANGED secVars
  /\ d # "blind" => UNCHANGED blindVars
  /\ d # "pes" => UNCHANGED pesVars
  /\ d # "inp" => UNCHANGED inpVars
  /\ d # "ci" => UNCHANGED ciVars

DevicesNext ==
  \/ Only("userdata") /\ UdNext
  \/ Only("fields") /\ CcNext
  \/ Only("poc") /\ PocNext
  \/ Only("tsfile") /\ TsFileNext
  \/ Only("tsplayer") /\ TsPlayerNext
  \/ Only("smc") /\ SmcStatusNext
  \/ Only("t0") /\ T0Next
  \/ Only("av") /\ AvNext
  \/ Only("sections") /\ SectionAsmNext
  \/ Only("blind") /\ FendBlindNext
  \/ Only("pes") /\ PesNext
  \/ Only("inp") /\ InpNext
  \/ Only("ci") /\ CiNext

(* The fairness of the modules that have some.                             *)
DevicesFair ==
  /\ WF_udVars(device = "userdata" /\ ThreadEnds)
  /\ \A r \in Readers : /\ SF_udVars(device = "userdata" /\ ReadCall(r))
                        /\ WF_udVars(device = "userdata" /\ ReadWoken(r))
                        /\ WF_udVars(device = "userdata" /\ CloseJoined(r))
  /\ WF_playerVars(device = "tsplayer" /\ ThreadStep)
  /\ WF_playerVars(device = "tsplayer" /\ StopJoined)
  /\ WF_blindVars(device = "blind" /\ ScanThread)
  /\ WF_blindVars(device = "blind" /\ BlindJoined)
  /\ WF_inpVars(device = "inp" /\ InpThread)
  /\ \A c \in InpClients : WF_inpVars(device = "inp" /\ InpJoined(c))
  /\ WF_ciVars(device = "ci" /\ CamThread)
  /\ WF_ciVars(device = "ci" /\ CaStopped)
  /\ \A c \in CiClients : WF_ciVars(device = "ci" /\ CiStopped(c))

DevicesSpec == DevicesInit /\ [][DevicesNext]_devicesVars /\ DevicesFair

-----------------------------------------------------------------------------
(* Type correctness of each of the modules.                                *)
DevicesTypeOK ==
  /\ UdTypeOK /\ CcTypeOK /\ PocTypeOK /\ TsFileTypeOK /\ TsPlayerTypeOK
  /\ SmcStatusTypeOK /\ T0TypeOK /\ AvTypeOK /\ SectionAsmTypeOK /\ FendBlindTypeOK
  /\ PesTypeOK /\ InpTypeOK /\ CiTypeOK

Joining == TsStopping \/ leaving \/ InpClosing \/ CiStopping

(* The calls that join a thread with a lock held, AM_AV_StopTimeshift,     *)
(* AM_FEND_BlindExit and AM_INP_Close, return, whatever the thread is      *)
(* doing; AM_CI_Stop and AM_CI_Close do unless it has something to say.    *)
(* One thing keeps AM_AV_StopTimeshift from it, and does so for ever: a    *)
(* command the player gives up in each turn of its loop.                   *)
JoinsEnd ==
  /\ Joining ~> ~Joining \/ HungUp
  /\ [][HungUp => HungUp']_playerVars
=============================================================================
