------------------------------ MODULE DmxUsers ------------------------------
(***************************************************************************)
(* Two components that use a demultiplexer beside an application: the      *)
(* audio description of am_ad.c, whose filter feeds a PES parser, and the  *)
(* recorder of am_dvr.c.                                                   *)
(*                                                                         *)
(* Of am_dmx.c there is what they use: the filters with their owners, the  *)
(* open count, and one callback at a time, that may go on after its filter *)
(* was stopped and freed, but not after the last AM_DMX_Close.  A call of  *)
(* am_dmx.c, made under its lock, is a step or a part of one.              *)
(*                                                                         *)
(* The recorder does not open the demultiplexer it uses.  Its users call   *)
(* it from threads of their own: AM_DVR_StartRecord and StopRecord hold    *)
(* dev->lock, AM_DVR_Close and Open, and AM_DMX_Open and Close, hold       *)
(* am_gAdpLock, and each step of their loops over the streams is a step    *)
(* here.  The ioctls are taken to succeed, and the application uses what   *)
(* it has allocated.                                                       *)
(***************************************************************************)
EXTENDS Integers, FiniteSetsExt

CONSTANTS
  DemuxFilters,   \* DMX_FILTER_COUNT, as the filters
  MaxStreams,     \* AM_DVR_MAX_PID_COUNT
  NoFid,          \* -1
  DvrUsers,       \* the users of the recorder
  MaxDvrCalls     \* bound: the calls that start, stop and close it

ASSUME DmxUsersAssumption ==
  /\ DemuxFilters \subseteq Nat /\ MaxStreams \in Nat /\ NoFid \notin DemuxFilters
  /\ MaxDvrCalls \in Nat
  /\ "free" \notin DvrUsers /\ "destroyed" \notin DvrUsers

VARIABLES
  dmxOpens,       \* open_count of the demultiplexer
  filters,        \* its filters: owner, enable, and whose callback is set
  inCb,           \* whose callback is running
  dvrOpens,       \* open_cnt of the recorder
  recording,      \* dev->record
  streams,        \* dev->streams, their fid
  streamCnt,      \* dev->stream_cnt
  dvrLock,        \* dev->lock: free, destroyed, or who holds it
  dvrAt,          \* the call each user of the recorder is in, where, and its i
  dvrCalls,       \* those calls made so far
  adAt,           \* the audio description: none, made, or so far destroyed
  adFid,          \* ad->filter
  appOpen,        \* the application has the demultiplexer open
  appFids,        \* and these filters
  kept,           \* history: others had the demultiplexer open when the audio
                  \* description closed it
  cut,            \* history: it was closed under a recording
  raced           \* history: two calls have worked on the streams at once

userVars ==
  <<dmxOpens, filters, inCb, dvrOpens, recording, streams, streamCnt, dvrLock, dvrAt, dvrCalls, raced,
    adAt, adFid, appOpen, appFids, kept, cut>>

dmxPart == <<dmxOpens, filters, inCb>>
dvrPart == <<dvrOpens, recording, streams, streamCnt, dvrLock, dvrAt, dvrCalls, raced>>
adPart  == <<adAt, adFid, kept>>
appPart == <<appOpen, appFids>>

DemuxCallbacks == {"null", "ad", "app"}

DmxUsersTypeOK ==
  /\ dmxOpens \in Nat
  /\ filters \in [DemuxFilters -> [owner : {"free", "dvr", "ad", "app"}, on : BOOLEAN,
                                   cb : DemuxCallbacks]]
  /\ inCb \in DemuxCallbacks
  /\ dvrOpens \in Int /\ recording \in BOOLEAN
  /\ streams \in [1 .. MaxStreams -> DemuxFilters \cup {NoFid}] /\ streamCnt \in 0 .. MaxStreams
  /\ dvrLock \in DvrUsers \cup {"free", "destroyed"} /\ raced \in BOOLEAN
  /\ dvrCalls \in 0 .. MaxDvrCalls
  /\ dvrAt \in [DvrUsers -> [call : {"out", "none", "start", "stop", "close"},
                              at : {"loop", "on", "free", "clear", "end", "crash"}, i : 1 .. MaxStreams + 1]]
  /\ adAt \in {"none", "made", "freed", "closed"} /\ adFid \in DemuxFilters \cup {NoFid}
  /\ appOpen \in BOOLEAN /\ appFids \subseteq DemuxFilters
  /\ kept \in BOOLEAN /\ cut \in BOOLEAN

DmxUsersInit ==
  /\ dmxOpens = 0 /\ inCb = "null"
  /\ filters = [f \in DemuxFilters |-> [owner |-> "free", on |-> FALSE, cb |-> "null"]]
  /\ dvrOpens = 0 /\ recording = FALSE /\ dvrLock = "free" /\ raced = FALSE
  /\ streams = [i \in 1 .. MaxStreams |-> NoFid] /\ streamCnt = 0 /\ dvrCalls = 0
  /\ dvrAt = [u \in DvrUsers |-> [call |-> "out", at |-> "loop", i |-> 1]]
  /\ adAt = "none" /\ adFid = NoFid
  /\ appOpen = FALSE /\ appFids = {} /\ kept = FALSE /\ cut = FALSE

-----------------------------------------------------------------------------
(* The calls of am_dmx.c.                                                  *)

Unused(fs) == {f \in DemuxFilters : fs[f].owner = "free"}

(* AM_DMX_AllocateFilter: the first filter not in use; its callback is     *)
(* that of whoever had it before.                                          *)
Allocated(fs, who) == [fs EXCEPT ![Min(Unused(fs))].owner = who]

(* AM_DMX_StopFilter and AM_DMX_FreeFilter, of filters in use or not, for  *)
(* whoever calls.                                                          *)
Released(fs, S) ==
  [f \in DemuxFilters |-> IF f \in S THEN [fs[f] EXCEPT !.owner = "free", !.on = FALSE] ELSE fs[f]]

(* AM_DMX_StartFilter or StopFilter: it finds the filter when it is in     *)
(* use, whoever uses it.                                                   *)
Switched(fs, f, on) ==
  IF f \in DemuxFilters /\ dmxOpens > 0 /\ fs[f].owner # "free"
  THEN [fs EXCEPT ![f].on = on] ELSE fs

(* The filters of the recorder's streams: not of those left out, nor of    *)
(* one whose filter is freed and whose fid is about to be cleared.         *)
Cleared  == {streams[dvrAt[u].i] : u \in {v \in DvrUsers : dvrAt[v].at = "clear"}}
Recorded == {streams[i] : i \in 1 .. streamCnt} \ ({NoFid} \cup Cleared)

(* What AM_DMX_Close changes: the last one frees the filters.              *)
ClosedDmx ==
  /\ dmxOpens' = dmxOpens - 1
  /\ filters' = Released(filters, IF dmxOpens > 1 THEN {} ELSE DemuxFilters)
  /\ cut' = (cut \/ (dmxOpens = 1 /\ Recorded # {}))

(* Mutant: the last one does not join the data thread.                     *)
CloseDmxAtOnce == ClosedDmx

(* AM_DMX_Close, under am_gAdpLock: the last one joins the data thread     *)
(* before.                                                                 *)
CloseDmx == (dmxOpens = 1 => inCb = "null") /\ ClosedDmx

(* Nobody holds am_gAdpLock: its other holders are done in one step.       *)
AdpFree == \A u \in DvrUsers : dvrAt[u].call # "close"

(* The data thread calls a callback; the data of a recorder's filter goes  *)
(* to the device of the recorder.                                          *)
BeginCb ==
  /\ dmxOpens > 0 /\ inCb = "null"
  /\ \E f \in DemuxFilters : /\ filters[f].on /\ filters[f].owner # "dvr"
                             /\ filters[f].cb # "null" /\ inCb' = filters[f].cb
  /\ UNCHANGED <<dmxOpens, filters, dvrPart, adPart, appPart, cut>>

EndCb ==
  /\ inCb # "null" /\ inCb' = "null"
  /\ UNCHANGED <<dmxOpens, filters, dvrPart, adPart, appPart, cut>>

-----------------------------------------------------------------------------
(* AM_AD_Create; without a free filter it closes what it has opened.       *)
AdCreate ==
  /\ adAt = "none" /\ AdpFree /\ Unused(filters) # {}
  /\ dmxOpens' = dmxOpens + 1
  /\ adAt' = "made" /\ adFid' = Min(Unused(filters)) /\ kept' = FALSE
  /\ filters' = [Allocated(filters, "ad") EXCEPT ![adFid'].cb = "ad"]
  /\ UNCHANGED <<inCb, dvrPart, appPart, cut>>

(* AM_AD_Start and AM_AD_Stop.                                             *)
AdSwitch ==
  /\ adAt = "made" /\ filters[adFid].owner # "free"
  /\ \E on \in BOOLEAN : filters' = [filters EXCEPT ![adFid].on = on]
  /\ UNCHANGED <<dmxOpens, inCb, dvrPart, adPart, appPart, cut>>

(* AM_AD_Destroy: the filter is freed, the demultiplexer closed, then the  *)
(* parser and the handle are freed.                                        *)
AdFreeFilter ==
  /\ adAt = "made"
  /\ adAt' = "freed" /\ filters' = Released(filters, {adFid})
  /\ UNCHANGED <<dmxOpens, inCb, dvrPart, adFid, appPart, kept, cut>>

AdClose ==
  /\ adAt = "freed" /\ AdpFree
  /\ CloseDmx
  /\ adAt' = "closed" /\ kept' = (dmxOpens > 1)
  /\ UNCHANGED <<inCb, dvrPart, adFid, appPart>>

AdFree ==
  /\ adAt = "closed"
  /\ adAt' = "none" /\ adFid' = NoFid
  /\ UNCHANGED <<dmxPart, dvrPart, appPart, kept, cut>>

-----------------------------------------------------------------------------
(* The recorder: what a user does next, of which call, and who has the     *)
(* streams meanwhile.                                                      *)
Busy(u) == dvrAt[u].call \in {"start", "stop", "close"}

Begins(u, call) ==
  /\ dvrAt[u].call = "none" /\ dvrOpens > 0
  /\ dvrCalls < MaxDvrCalls /\ dvrCalls' = dvrCalls + 1
  /\ dvrAt' = [dvrAt EXCEPT ![u] = [call |-> call, at |-> "loop", i |-> 1]]
  /\ raced' = (raced \/ \E v \in DvrUsers \ {u} : Busy(v))

Goes(u, at, i) == dvrAt' = [dvrAt EXCEPT ![u].at = at, ![u].i = i]

Ends(u, call) == dvrAt' = [dvrAt EXCEPT ![u] = [call |-> call, at |-> "loop", i |-> 1]]

(* Where u is in the loop over dev->streams.                               *)
At(u, calls, at) == dvrAt[u].call \in calls /\ dvrAt[u].at = at
InLoop(u, calls) == At(u, calls, "loop") /\ dvrAt[u].i <= streamCnt
Fid(u) == streams[dvrAt[u].i]

(* pthread_mutex_lock and unlock of dev->lock: a destroyed one keeps       *)
(* nobody out.                                                             *)
Locks(u) ==
  \/ dvrLock = "free" /\ dvrLock' = u
  \/ dvrLock = "destroyed" /\ UNCHANGED dvrLock
Unlocks(u) == dvrLock' = IF dvrLock = u THEN "free" ELSE dvrLock

(* AM_DVR_Open, of each user.                                              *)
DvrOpen(u) ==
  /\ dvrAt[u].call = "out" /\ AdpFree
  /\ Ends(u, "none")
  /\ dvrOpens' = dvrOpens + 1
  /\ IF dvrOpens = 0
     THEN /\ streams' = [i \in 1 .. MaxStreams |-> NoFid] /\ streamCnt' = 0
          /\ recording' = FALSE /\ dvrLock' = "free"
     ELSE UNCHANGED <<streams, streamCnt, recording, dvrLock>>
  /\ UNCHANGED <<dmxPart, adPart, appPart, cut, dvrCalls, raced>>

(* AM_DVR_StartRecord: dvr_add_stream for n streams, then                  *)
(* dvr_start_all_streams.                                                  *)
StartRecord(u) ==
  /\ Begins(u, "start") /\ Locks(u) /\ ~recording
  /\ \E n \in 1 .. MaxStreams :
       /\ streamCnt' = Min({streamCnt + n, MaxStreams})
       /\ streams' = [i \in 1 .. MaxStreams |->
                        IF i \in streamCnt + 1 .. streamCnt' THEN NoFid ELSE streams[i]]
  /\ UNCHANGED <<dmxPart, dvrOpens, recording, adPart, appPart, cut>>

(* A stream gets the first filter not in use; without one it is left out.  *)
StreamAllocated(u) ==
  /\ InLoop(u, {"start"}) /\ Fid(u) = NoFid /\ dmxOpens > 0 /\ Unused(filters) # {}
  /\ streams' = [streams EXCEPT ![dvrAt[u].i] = Min(Unused(filters))]
  /\ filters' = Allocated(filters, "dvr")
  /\ Goes(u, "on", dvrAt[u].i)
  /\ UNCHANGED <<dmxOpens, inCb, dvrOpens, recording, streamCnt, dvrLock,
                 dvrCalls, raced, adPart, appPart, cut>>

StreamPassed(u) ==
  /\ \/ InLoop(u, {"start"}) /\ (Fid(u) # NoFid \/ dmxOpens = 0 \/ Unused(filters) = {})
     \/ InLoop(u, {"stop", "close"}) /\ Fid(u) = NoFid
  /\ Goes(u, "loop", dvrAt[u].i + 1)
  /\ UNCHANGED <<dmxPart, dvrOpens, recording, streams, streamCnt, dvrLock,
                 dvrCalls, raced, adPart, appPart, cut>>

(* AM_DMX_SetPesFilter and StartFilter, of the fid that is there by now.   *)
(* AM_DMX_StartFilter of a filter not in use follows a null pointer.       *)
StreamStarted(u) ==
  /\ At(u, {"start"}, "on")
  /\ filters' = Switched(filters, Fid(u), TRUE)
  /\ IF dmxOpens > 0 /\ (Fid(u) = NoFid \/ filters[Fid(u)].owner = "free")
     THEN Goes(u, "crash", dvrAt[u].i)
     ELSE Goes(u, "loop", dvrAt[u].i + 1)
  /\ UNCHANGED <<dmxOpens, inCb, dvrOpens, recording, streams, streamCnt,
                 dvrLock, dvrCalls, raced, adPart, appPart, cut>>

RecordStarted(u) ==
  /\ At(u, {"start"}, "loop") /\ ~InLoop(u, {"start"})
  /\ recording' = TRUE
  /\ Ends(u, "none") /\ Unlocks(u)
  /\ UNCHANGED <<dmxPart, dvrOpens, streams, streamCnt, dvrCalls, raced, adPart, appPart, cut>>

(* AM_DVR_StopRecord and AM_DVR_Close, each with dvr_stop_all_streams.     *)
StopRecord(u) ==
  /\ Begins(u, "stop") /\ Locks(u) /\ recording
  /\ UNCHANGED <<dmxPart, dvrOpens, recording, streams, streamCnt, adPart, appPart, cut>>

DvrClose(u) ==
  /\ Begins(u, "close") /\ AdpFree
  /\ UNCHANGED <<dmxPart, dvrOpens, recording, streams, streamCnt, dvrLock, adPart, appPart, cut>>

(* AM_DMX_StopFilter, AM_DMX_FreeFilter, fid = -1.                         *)
StreamStopped(u) ==
  /\ InLoop(u, {"stop", "close"}) /\ Fid(u) # NoFid
  /\ filters' = Switched(filters, Fid(u), FALSE)
  /\ Goes(u, "free", dvrAt[u].i)
  /\ UNCHANGED <<dmxOpens, inCb, dvrOpens, recording, streams, streamCnt,
                 dvrLock, dvrCalls, raced, adPart, appPart, cut>>

StreamFreed(u) ==
  /\ At(u, {"stop", "close"}, "free")
  /\ filters' = Released(filters, IF dmxOpens > 0 THEN {Fid(u)} ELSE {})
  /\ Goes(u, "clear", dvrAt[u].i)
  /\ UNCHANGED <<dmxOpens, inCb, dvrOpens, recording, streams, streamCnt,
                 dvrLock, dvrCalls, raced, adPart, appPart, cut>>

StreamCleared(u) ==
  /\ At(u, {"stop", "close"}, "clear")
  /\ streams' = [streams EXCEPT ![dvrAt[u].i] = NoFid]
  /\ Goes(u, "loop", dvrAt[u].i + 1)
  /\ UNCHANGED <<dmxPart, dvrOpens, recording, streamCnt, dvrLock, dvrCalls,
                 raced, adPart, appPart, cut>>

StreamsStopped(u) ==
  /\ At(u, {"stop", "close"}, "loop") /\ ~InLoop(u, {"stop", "close"})
  /\ streamCnt' = 0
  /\ Goes(u, "end", dvrAt[u].i)
  /\ UNCHANGED <<dmxPart, dvrOpens, recording, streams, dvrLock, dvrCalls,
                 raced, adPart, appPart, cut>>

RecordStopped(u) ==
  /\ At(u, {"stop"}, "end")
  /\ recording' = FALSE
  /\ Ends(u, "none") /\ Unlocks(u)
  /\ UNCHANGED <<dmxPart, dvrOpens, streams, streamCnt, dvrCalls, raced, adPart, appPart, cut>>

(* The driver and the lock go with the first user that closes, unless the  *)
(* lock is held.                                                           *)
DvrClosed(u) ==
  /\ At(u, {"close"}, "end")
  /\ recording' = FALSE /\ dvrOpens' = dvrOpens - 1
  /\ dvrLock' = IF dvrLock = "free" THEN "destroyed" ELSE dvrLock
  /\ Ends(u, "out")
  /\ UNCHANGED <<dmxPart, streams, streamCnt, dvrCalls, raced, adPart, appPart, cut>>

DvrStep(u) ==
  \/ DvrOpen(u) \/ StartRecord(u) \/ StopRecord(u) \/ DvrClose(u)
  \/ StreamAllocated(u) \/ StreamPassed(u) \/ StreamStarted(u) \/ RecordStarted(u)
  \/ StreamStopped(u) \/ StreamFreed(u) \/ StreamCleared(u) \/ StreamsStopped(u)
  \/ RecordStopped(u) \/ DvrClosed(u)

-----------------------------------------------------------------------------
(* The application: AM_DMX_Open and AM_DMX_Close around the use of         *)
(* filters, which it allocates with its callback, starts, and frees.       *)
AppOpen ==
  /\ ~appOpen /\ AdpFree /\ appOpen' = TRUE /\ dmxOpens' = dmxOpens + 1
  /\ UNCHANGED <<filters, inCb, dvrPart, adPart, appFids, cut>>

AppClose ==
  /\ appOpen /\ AdpFree /\ appFids = {} /\ appOpen' = FALSE
  /\ CloseDmx
  /\ UNCHANGED <<inCb, dvrPart, adPart, appFids>>

AppAllocate ==
  /\ appOpen /\ Unused(filters) # {}
  /\ appFids' = appFids \cup {Min(Unused(filters))}
  /\ filters' = LET f == Min(Unused(filters))
                IN [Allocated(filters, "app") EXCEPT ![f].cb = "app", ![f].on = TRUE]
  /\ UNCHANGED <<dmxOpens, inCb, dvrPart, adPart, appOpen, cut>>

AppFree ==
  /\ appOpen
  /\ \E f \in appFids : appFids' = appFids \ {f} /\ filters' = Released(filters, {f})
  /\ UNCHANGED <<dmxOpens, inCb, dvrPart, adPart, appOpen, cut>>

UsersCrashed == \E u \in DvrUsers : dvrAt[u].at = "crash"

DmxUsersNext ==
  /\ ~UsersCrashed
  /\ \/ BeginCb \/ EndCb
     \/ AdCreate \/ AdSwitch \/ AdFreeFilter \/ AdClose \/ AdFree
     \/ \E u \in DvrUsers : DvrStep(u)
     \/ AppOpen \/ AppClose \/ AppAllocate \/ AppFree

DmxUsersSpec == DmxUsersInit /\ [][DmxUsersNext]_userVars

-----------------------------------------------------------------------------
FilterOf(who) == {f \in DemuxFilters : filters[f].owner = who}

(* Beside each other the users keep what is theirs.  The handle that       *)
(* AM_AD_Destroy frees is not in use by its callback, unless others keep   *)
(* the demultiplexer open.  The filters of the recorder are exactly those  *)
(* of its streams, also in the middle of its calls and whoever of its      *)
(* users closes it, and none when it neither records nor begins to; none   *)
(* is freed before it is started; and nobody frees a filter of another.    *)
(* Two things take that away:                                              *)
(* the demultiplexer closed under a recording, whose fids may be those of  *)
(* filters of others then, and an AM_DVR_Close beside another call of the  *)
(* recorder, or what comes of the lock it destroys.                        *)
UsersKept ==
  /\ inCb = "ad" /\ adAt = "none" => kept
  /\ ~cut /\ ~raced =>
       /\ ~UsersCrashed
       /\ FilterOf("dvr") = Recorded
       /\ \A i, j \in 1 .. streamCnt : streams[i] = streams[j] => i = j \/ streams[i] = NoFid
       /\ ~recording /\ (\A u \in DvrUsers : dvrAt[u].call # "start") => FilterOf("dvr") = {}
       /\ appFids = FilterOf("app")
       /\ adAt = "made" => FilterOf("ad") = {adFid}
=============================================================================
