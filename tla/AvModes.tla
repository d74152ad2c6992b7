------------------------------ MODULE AvModes ------------------------------
(***************************************************************************)
(* The play modes of the audio/video device (am_av.c), a set of bits, and  *)
(* the files its elementary stream players play: a client maps the file,   *)
(* hands the mapping to the player of the mode, and whoever ends the play  *)
(* frees it.  Every operation is a critical section of dev->lock.          *)
(*                                                                         *)
(* av_start stops the modes that exclude the new one, opens the mode in    *)
(* the driver when it is not open, notes the mapping, starts the mode.  A  *)
(* start that fails leaves the mode open, and the client frees its mapping.*)
(*                                                                         *)
(* A mapping is a number, its address, taken not to come twice; 0 stands   *)
(* for any other data.                                                     *)
(*                                                                         *)
(* Three history variables, read by the properties only, name what goes    *)
(* wrong in the code: "halfVes" and "wild" say where a mapping is used or  *)
(* freed by one who does not have it, "dropped" where one is lost.         *)
(***************************************************************************)
EXTENDS Integers, FiniteSets

CONSTANTS
  AvFaults,       \* the driver calls that may fail: "open", "start"
  MaxMaps         \* bound: files mapped

ASSUME AvModesAssumption == AvFaults \subseteq {"open", "start"} /\ MaxMaps \in Nat

Modes == {"ves", "aes", "jpeg_info", "jpeg", "ts", "file", "inject", "timeshift"}

Pictures == {"jpeg_info", "jpeg"}

VARIABLES
  mode,           \* dev->mode
  vidPara, audPara,   \* vid_player.para and aud_player.para: data, need_free
  curVes,         \* curr_para.ves: what the video path is restarted with
  maps, mapped,   \* mappings made so far, those not freed
  avCrashed,      \* a null pointer was followed
  halfVes,        \* history: the video stream is open, its last start has failed
  wild,           \* history: mappings played again when freed, or freed by garbage
  dropped         \* history: mappings whose owner was overwritten

avVars == <<mode, vidPara, audPara, curVes, maps, mapped, avCrashed, halfVes, wild, dropped>>

Paras == [data : 0 .. MaxMaps, free : BOOLEAN]
NoPara == [data |-> 0, free |-> FALSE]

AvTypeOK ==
  /\ mode \subseteq Modes
  /\ vidPara \in Paras /\ audPara \in Paras /\ curVes \in Paras
  /\ maps \in 0 .. MaxMaps /\ mapped \subseteq 1 .. maps
  /\ avCrashed \in BOOLEAN /\ halfVes \in BOOLEAN
  /\ wild \subseteq 1 .. maps /\ dropped \subseteq 1 .. maps

AvInit ==
  /\ mode = {} /\ vidPara = NoPara /\ audPara = NoPara /\ curVes = NoPara
  /\ maps = 0 /\ mapped = {} /\ avCrashed = FALSE
  /\ halfVes = FALSE /\ wild = {} /\ dropped = {}

-----------------------------------------------------------------------------
(* The state an operation works on, and its pieces as functions of it.     *)
State == [mode |-> mode, vid |-> vidPara, aud |-> audPara, mapped |-> mapped, ok |-> TRUE]

Freed(para)  == [para EXCEPT !.free = FALSE]
Unmap(s, para) == IF para.free THEN [s EXCEPT !.mapped = @ \ {para.data}] ELSE s

(* av_stop of one mode.                                                    *)
StopOne(s, m) ==
  IF m \notin s.mode THEN s
  ELSE IF m \in Pictures \cup {"ves"}
       THEN [Unmap(s, s.vid) EXCEPT !.vid = Freed(@), !.mode = @ \ {m}]
  ELSE IF m = "aes" THEN [Unmap(s, s.aud) EXCEPT !.aud = Freed(@), !.mode = @ \ {m}]
  ELSE [s EXCEPT !.mode = @ \ {m}]

(* av_stop_all: the first of the modes of a video player that is open      *)
(* frees its mapping, the order does not matter.                           *)
StopAll(s, ms) ==
  LET stopped == s.mode \cap ms
      vid == stopped \cap (Pictures \cup {"ves"}) # {}
      t   == IF vid THEN StopOne(s, CHOOSE m \in stopped : m \in Pictures \cup {"ves"}) ELSE s
      u   == IF "aes" \in stopped THEN StopOne(t, "aes") ELSE t
  IN [u EXCEPT !.mode = @ \ ms]

(* Mutant: an elementary video stream leaves the pictures alone.           *)
ExcludesLess(m) ==
  CASE m = "ves" -> Modes \ ({"ves", "aes"} \cup Pictures)
    [] m = "aes" -> {"ts", "file", "aes", "inject", "timeshift"}
    [] m \in Pictures -> Modes \ {"aes", "file"}
    [] OTHER -> Modes

(* The modes a start stops.                                                *)
Excludes(m) ==
  CASE m = "ves" -> Modes \ {"ves", "aes"}
    [] m = "aes" -> {"ts", "file", "aes", "inject", "timeshift"}
    [] m \in Pictures -> Modes \ {"aes", "file"}
    [] OTHER -> Modes

Noted(s, m, para) ==
  IF m \in Pictures \cup {"ves"} THEN [s EXCEPT !.vid = para]
  ELSE IF m = "aes" THEN [s EXCEPT !.aud = para] ELSE s

Disowned(s, m) ==
  IF m \in Pictures \cup {"ves"} THEN [s EXCEPT !.vid = Freed(@)]
  ELSE IF m = "aes" THEN [s EXCEPT !.aud = Freed(@)] ELSE s

(* av_start: the states it may end in.                                     *)
Start(s, m, para) ==
  LET t == StopAll(s, Excludes(m))
      u == Noted([t EXCEPT !.mode = @ \cup {m}], m, para)
  IN {u}
     \cup (IF "open" \in AvFaults /\ m \notin t.mode THEN {[t EXCEPT !.ok = FALSE]} ELSE {})
     \cup (IF "start" \in AvFaults THEN {[Disowned(u, m) EXCEPT !.ok = FALSE]} ELSE {})

Become(s) ==
  /\ mode' = s.mode /\ vidPara' = s.vid /\ audPara' = s.aud /\ mapped' = s.mapped
  /\ UNCHANGED avCrashed

-----------------------------------------------------------------------------
(* The mapping a start of mode m writes over: av_start does not stop an    *)
(* elementary video stream for the next.                                   *)
WrittenOver(m) == IF m = "ves" /\ "ves" \in mode /\ vidPara.free THEN {vidPara.data} ELSE {}

(* What a client hands over: a file it has mapped, or its own data.        *)
NewPara(file) == [data |-> IF file THEN maps + 1 ELSE 0, free |-> file]
WithMap(file) == IF file THEN [State EXCEPT !.mapped = @ \cup {maps + 1}] ELSE State

(* AM_AV_StartVideoES, StartAudioES and their Data forms: a file is mapped *)
(* or the client's data taken; when the start fails the client frees the   *)
(* mapping.                                                                *)
StartEs(m) ==
  /\ m \in {"ves", "aes"}
  /\ \E file \in BOOLEAN :
       /\ file => maps < MaxMaps
       /\ maps' = IF file THEN maps + 1 ELSE maps
       /\ \E t \in Start(WithMap(file), m, NewPara(file)) :
            /\ Become(IF t.ok THEN t ELSE Unmap(t, NewPara(file)))
            /\ curVes' = IF t.ok /\ m = "ves" THEN NewPara(file) ELSE curVes
            /\ halfVes' = ("ves" \in t.mode /\ IF m = "ves" THEN ~t.ok ELSE halfVes)
            /\ dropped' = dropped \cup (IF t.vid = vidPara THEN {} ELSE WrittenOver(m))
  /\ UNCHANGED wild

(* What the start of a picture notes: AM_AV_GetJPEGDataInfo passes "info"  *)
(* in the place of its para, and whatever lies there is noted.             *)
PicturePara(m, file) ==
  IF m = "jpeg_info" /\ ~file THEN [data : 0 .. maps, free : BOOLEAN] ELSE {NewPara(file)}

(* AM_AV_GetJPEGInfo and DecodeJPEG and their Data forms: start, and stop  *)
(* when the start has succeeded.                                           *)
DecodePicture(m) ==
  /\ m \in Pictures
  /\ \E file \in BOOLEAN :
       /\ file => maps < MaxMaps
       /\ maps' = IF file THEN maps + 1 ELSE maps
       /\ \E para \in PicturePara(m, file) : \E t \in Start(WithMap(file), m, para) :
            /\ Become(IF t.ok THEN StopOne(t, m) ELSE Unmap(t, NewPara(file)))
            /\ wild' = IF ~file /\ para.free /\ t.ok THEN wild \cup ({para.data} \cap t.mapped)
                       ELSE wild
  /\ halfVes' = FALSE
  /\ UNCHANGED <<curVes, dropped>>

(* AM_AV_StartTS, StartFile and AddFile, StartInject, StartTimeshift.      *)
StartStream(m) ==
  /\ m \in {"ts", "file", "inject", "timeshift"}
  /\ \E t \in Start(State, m, NoPara) : Become(t)
  /\ halfVes' = FALSE
  /\ UNCHANGED <<curVes, maps, wild, dropped>>

(* AM_AV_StopVideoES, StopAudioES, StopTS, StopFile, StopInject,           *)
(* StopTimeshift.                                                          *)
StopMode(m) ==
  /\ m \in Modes \ Pictures
  /\ Become(StopOne(State, m))
  /\ halfVes' = (halfVes /\ m # "ves")
  /\ UNCHANGED <<curVes, maps, wild, dropped>>

(* AM_AV_Close, and AM_AV_Open again.                                      *)
CloseOpen ==
  /\ Become(StopAll(State, Modes))
  /\ halfVes' = FALSE
  /\ UNCHANGED <<curVes, maps, wild, dropped>>

-----------------------------------------------------------------------------
(* av_set_vpath, outside time shift: the modes that use the video path are *)
(* stopped and started again.                                              *)
PathModes == mode \ {"aes"}
Alone(m) == PathModes = {m}

(* One mode is started with what curr_para holds for it, whatever start it *)
(* was that left the mode open; the audio stream goes on where the mode    *)
(* does not exclude it.                                                    *)
PathRestarted(s) ==
  \E m \in PathModes \ Pictures : Alone(m) /\ \E t \in Start(StopAll(s, PathModes), m, curVes) :
    /\ Become(t)
    /\ halfVes' = ("ves" \in t.mode /\ ~t.ok)
    /\ wild' = IF halfVes /\ t.vid.free THEN wild \cup ({t.vid.data} \ t.mapped) ELSE wild
    /\ dropped' = IF t.ok \/ m # "ves" \/ ~vidPara.free THEN dropped
                  ELSE dropped \cup {vidPara.data}

(* A picture, open because its start has failed, has nothing to be started *)
(* with: av_start follows a null pointer if the mode can be opened.        *)
PathCrashes ==
  /\ \E m \in Pictures : Alone(m)
  /\ avCrashed' = TRUE
  /\ UNCHANGED <<mode, vidPara, audPara, mapped, halfVes, wild, dropped>>

(* A file and a picture beside it are opened as one mode, that av_start    *)
(* does not know: nothing is stopped or noted.                             *)
PathTogether(s) ==
  /\ PathModes # {}
  /\ LET stopped == StopAll(s, PathModes)
     IN \/ /\ \A m \in PathModes : ~Alone(m)
           /\ Become([stopped EXCEPT !.mode = @ \cup PathModes])
        \/ /\ "open" \in AvFaults /\ \A m \in PathModes : Alone(m) => m \in Pictures
           /\ Become(stopped)
  /\ UNCHANGED <<halfVes, wild, dropped>>

(* Mutant: the mapping is not kept for the restart.                        *)
SetVPathFree ==
  /\ "timeshift" \notin mode
  /\ PathRestarted(State) \/ PathCrashes \/ PathTogether(State)
  /\ UNCHANGED <<curVes, maps>>

(* The mapping of an elementary video stream is not freed when it stops.   *)
SetVPath ==
  /\ "timeshift" \notin mode
  /\ LET s == IF "ves" \in mode THEN [State EXCEPT !.vid = Freed(@)] ELSE State
     IN PathRestarted(s) \/ PathCrashes \/ PathTogether(s)
  /\ UNCHANGED <<curVes, maps>>

AvNext ==
  /\ ~avCrashed
  /\ \/ \E m \in Modes : StartEs(m) \/ DecodePicture(m) \/ StartStream(m) \/ StopMode(m)
     \/ CloseOpen \/ SetVPath

AvSpec == AvInit /\ [][AvNext]_avVars

-----------------------------------------------------------------------------
(* Whatever was started, stopped and has failed, the video decoder has one *)
(* user and the audio decoder has one, but for pictures that are decoded   *)
(* beside a file.                                                          *)
VideoModes == Modes \ {"aes", "file"}
AudioModes == {"aes", "ts", "file", "inject", "timeshift"}

ModesExclusive ==
  /\ \A m, n \in mode : {m, n} \subseteq VideoModes \/ {m, n} \subseteq AudioModes => m = n
  /\ ~({"ves", "file"} \subseteq mode)

(* Every mapping that was made is freed, or belongs to one player, whose   *)
(* mode is open; no player is to free one that is not mapped any more.     *)
(* Only a video stream started over another, and a restart of the video    *)
(* path that fails, lose one; only a restart of the video path after a     *)
(* start that has failed, and the garbage noted for a picture, leave a     *)
(* player with one that is freed.                                          *)
MappingsOwned ==
  /\ vidPara.free => vidPara.data \in mapped \cup wild /\ mode \cap (Pictures \cup {"ves"}) # {}
  /\ audPara.free => audPara.data \in mapped \cup wild /\ "aes" \in mode
  /\ vidPara.free /\ audPara.free => vidPara.data # audPara.data
  /\ mapped \ dropped \subseteq {p.data : p \in {q \in {vidPara, audPara} : q.free}}
=============================================================================
