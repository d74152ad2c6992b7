------------------------------- MODULE DmxSw -------------------------------
(***************************************************************************)
(* A demultiplexer device opened with use_sw_filter: am_dmx.c over the     *)
(* software section filters of am_dmx/dvr/dvr.c.                           *)
(*                                                                         *)
(* All enabled filters of one PID share a channel, which counts them; each *)
(* channel in use has a kernel PES tap that sends its PID to the DVR       *)
(* device.  The data thread parses the recorded packets inside drv->poll,  *)
(* under dev->lock, and runs the callbacks there with the lock released    *)
(* (data_cb).  The poll mask stays empty, so DMX_FL_RUN_CB is never set    *)
(* and AM_DMX_Sync never waits.                                            *)
(*                                                                         *)
(* The device is open throughout and every filter has a callback.  A       *)
(* section is abstracted to its PID and table, a packet to the sections    *)
(* it completes, at most MaxSections.                                      *)
(***************************************************************************)
EXTENDS Integers, FiniteSets

CONSTANTS
  NFilter,        \* DVR_FILTER_COUNT
  NChannel,       \* DVR_CHANNEL_COUNT
  Pids, Tables,   \* PIDs and table ids of the stream
  Kinds,          \* kinds of filters set: a subset of {"sec", "pes"}
  MaxSections,    \* bound: sections completed by one packet
  Faults,         \* {"tap"}: opening a PES tap may fail
  ClientOps,      \* operations the clients call
  CallbackOps,    \* operations a callback may call
  NoPid,          \* 0x1FFF
  Nil

Filters  == 0 .. NFilter - 1
Channels == 0 .. NChannel - 1

AllOps == {"alloc", "free", "start", "stop", "set", "sync"}

ASSUME DmxSwAssumption ==
  /\ NFilter \in Nat /\ NChannel \in Nat /\ MaxSections \in Nat
  /\ NoPid \notin Pids
  /\ Nil \notin Pids \cup {NoPid} /\ Nil \notin Channels /\ Nil \notin Filters
  /\ Nil \notin Tables
  /\ Kinds \subseteq {"sec", "pes"}
  /\ Faults \subseteq {"tap"}
  /\ ClientOps \subseteq AllOps /\ CallbackOps \subseteq AllOps

VARIABLES
  used, enable,                   \* AM_DMX_Filter
  pid, kind, table, chan,         \* DVR_Filter: pid, sec_filter, filter, chan
  chUsed, chPid, chKind,          \* DVR_Channel: used, pid, is_sec
  tap,                            \* the PID tapped for each channel, or Nil
  pc, ch, left, cur, inPid,       \* the data thread: channel and sections left
                                  \* of the packet, filter called and its PID
  crashed,                        \* ch->filters was dereferenced
  silent                          \* history: filters AM_DMX_Sync promised silent

filterVars == <<used, enable, pid, kind, table, chan>>
chanVars   == <<chUsed, chPid, chKind, tap>>
thrVars    == <<pc, ch, left, cur, inPid>>
vars == <<filterVars, chanVars, thrVars, crashed, silent>>

EnabledOn(c) == {f \in Filters : enable[f] /\ chan[f] = c}

TypeOK ==
  /\ used \in [Filters -> BOOLEAN] /\ enable \in [Filters -> BOOLEAN]
  /\ pid \in [Filters -> Pids \cup {NoPid}]
  /\ kind \in [Filters -> {"sec", "pes"}]
  /\ table \in [Filters -> Tables \cup {Nil}]
  /\ chan \in [Filters -> Channels \cup {Nil}]
  /\ chUsed \in [Channels -> Int]
  /\ chPid \in [Channels -> Pids \cup {NoPid}]
  /\ chKind \in [Channels -> {"sec", "pes"}]
  /\ tap \in [Channels -> Pids \cup {NoPid, Nil}]
  /\ pc \in {"poll", "cb"}
  /\ ch \in Channels \cup {Nil}
  /\ left \in 0 .. MaxSections
  /\ cur \in Filters \cup {Nil}
  /\ inPid \in Pids \cup {Nil}
  /\ crashed \in BOOLEAN
  /\ silent \in SUBSET Filters

(* dvr_open clears the whole structure: no channel is used, chan is NULL.  *)
Init ==
  /\ used = [f \in Filters |-> FALSE] /\ enable = [f \in Filters |-> FALSE]
  /\ pid = [f \in Filters |-> NoPid] /\ kind = [f \in Filters |-> "sec"]
  /\ table = [f \in Filters |-> Nil]
  /\ chan = [f \in Filters |-> Nil]
  /\ chUsed = [c \in Channels |-> 0] /\ chPid = [c \in Channels |-> NoPid]
  /\ chKind = [c \in Channels |-> "pes"]
  /\ tap = [c \in Channels |-> Nil]
  /\ pc = "poll" /\ ch = Nil /\ left = 0 /\ cur = Nil /\ inPid = Nil
  /\ crashed = FALSE
  /\ silent = {}

-----------------------------------------------------------------------------
(* Operations on filters, each under dev->lock.                            *)

(* The part of dvr_enable_filter under `reset': every tap is closed and    *)
(* one is opened for each used channel; a failed open is skipped.          *)
ResetTaps ==
  \E bad \in SUBSET {c \in Channels : chUsed'[c] > 0} :
    /\ bad # {} => "tap" \in Faults
    /\ tap' = [c \in Channels |->
                 IF chUsed'[c] > 0 /\ c \notin bad THEN chPid'[c] ELSE Nil]

(* Mutant: the taps are not rebuilt when a channel becomes free.           *)
DisableKeepsTap(f) ==
  /\ chUsed' = [chUsed EXCEPT ![chan[f]] = @ - 1]
  /\ enable' = [enable EXCEPT ![f] = FALSE]
  /\ UNCHANGED <<chPid, chKind, tap>>

(* dvr_enable_filter(FALSE): f->chan keeps its value.                      *)
Disable(f) ==
  /\ chUsed' = [chUsed EXCEPT ![chan[f]] = @ - 1]
  /\ UNCHANGED <<chPid, chKind>>
  /\ IF chUsed'[chan[f]] = 0 THEN ResetTaps ELSE UNCHANGED tap
  /\ enable' = [enable EXCEPT ![f] = FALSE]

AllocateFilter ==
  \E f \in Filters :
    /\ ~used[f] /\ \A g \in Filters : g < f => used[g]
    /\ used' = [used EXCEPT ![f] = TRUE]
    /\ kind' = [kind EXCEPT ![f] = "sec"]
    /\ pid' = [pid EXCEPT ![f] = NoPid]
    /\ UNCHANGED <<enable, table, chan, chanVars>>

StopFilter(f) ==
  /\ used[f] /\ enable[f]
  /\ Disable(f)
  /\ UNCHANGED <<used, pid, kind, table, chan>>

(* AM_DMX_SetSecFilter and AM_DMX_SetPesFilter stop the filter first, so   *)
(* the driver always sets a disabled filter and starts nothing.            *)
SetFilter(f) ==
  /\ used[f]
  /\ IF enable[f] THEN Disable(f) ELSE UNCHANGED <<enable, chanVars>>
  /\ \E p \in Pids, k \in Kinds, t \in Tables :
       /\ pid' = [pid EXCEPT ![f] = p]
       /\ kind' = [kind EXCEPT ![f] = k]
       /\ table' = IF k = "sec" THEN [table EXCEPT ![f] = t] ELSE table
  /\ UNCHANGED <<used, chan>>

FreeFilter(f) ==
  /\ used[f]
  /\ IF enable[f] THEN Disable(f) ELSE UNCHANGED <<enable, chanVars>>
  /\ used' = [used EXCEPT ![f] = FALSE]
  /\ UNCHANGED <<pid, kind, table, chan>>

(* Mutant: a shared channel does not count its second filter.              *)
FindChannelUncounted(f, c) ==
  \/ /\ chUsed[c] # 0 /\ chPid[c] = pid[f] /\ chKind[c] = kind[f]
     /\ UNCHANGED <<chUsed, chPid, chKind>>
  \/ /\ \A d \in Channels : chUsed[d] # 0 => chPid[d] # pid[f]
     /\ chUsed[c] = 0 /\ \A d \in Channels : d < c => chUsed[d] # 0
     /\ chUsed' = [chUsed EXCEPT ![c] = 1]
     /\ chPid' = [chPid EXCEPT ![c] = pid[f]]
     /\ chKind' = [chKind EXCEPT ![c] = kind[f]]

(* dvr_find_channel: the used channel of the PID, or else the first free   *)
(* one.  A used channel of the other kind, or no free one, is an error.    *)
FindChannel(f, c) ==
  \/ /\ chUsed[c] # 0 /\ chPid[c] = pid[f] /\ chKind[c] = kind[f]
     /\ chUsed' = [chUsed EXCEPT ![c] = @ + 1]
     /\ UNCHANGED <<chPid, chKind>>
  \/ /\ \A d \in Channels : chUsed[d] # 0 => chPid[d] # pid[f]
     /\ chUsed[c] = 0 /\ \A d \in Channels : d < c => chUsed[d] # 0
     /\ chUsed' = [chUsed EXCEPT ![c] = 1]
     /\ chPid' = [chPid EXCEPT ![c] = pid[f]]
     /\ chKind' = [chKind EXCEPT ![c] = kind[f]]

StartFilter(f) ==
  /\ used[f] /\ ~enable[f]
  /\ \E c \in Channels :
       /\ FindChannel(f, c)
       /\ chan' = [chan EXCEPT ![f] = c]
       /\ IF chUsed'[c] = 1 THEN ResetTaps ELSE UNCHANGED tap
  /\ enable' = [enable EXCEPT ![f] = TRUE]
  /\ UNCHANGED <<used, pid, kind, table>>

FilterCall(ops) ==
  /\ \/ "alloc" \in ops /\ AllocateFilter
     \/ \E f \in Filters : \/ "stop" \in ops /\ StopFilter(f)
                           \/ "set" \in ops /\ SetFilter(f)
                           \/ "free" \in ops /\ FreeFilter(f)
                           \/ "start" \in ops /\ StartFilter(f)
  /\ silent' = silent \ {f \in Filters : enable'[f]}

(* AM_DMX_Sync: DMX_FL_RUN_CB is clear, so it returns at once.             *)
Sync ==
  /\ "sync" \in ClientOps
  /\ silent' = silent \cup {f \in Filters : ~enable[f]}
  /\ UNCHANGED <<filterVars, chanVars, thrVars, crashed>>

-----------------------------------------------------------------------------
(* The data thread in dvr_poll.                                            *)

(* check_sec: the first allocated filter that points to the channel and    *)
(* matches gets the section.  enable is not looked at.                     *)
Takes(f, c, t) == used[f] /\ chan[f] = c /\ table[f] = t

Deliver(c, t) ==
  \E f \in Filters :
    /\ Takes(f, c, t)
    /\ \A g \in Filters : g < f => ~Takes(g, c, t)
    /\ cur' = f
    /\ pc' = "cb"

(* parse_ts_packet, up to the first section that a filter takes.           *)
Packet ==
  /\ pc = "poll"
  /\ \E p \in Pids, c \in Channels :
       /\ chUsed[c] # 0 /\ chPid[c] = p
       /\ \A d \in Channels : d < c => ~(chUsed[d] # 0 /\ chPid[d] = p)
       /\ IF chKind[c] = "pes"
          THEN /\ crashed' = TRUE       \* parse_pes: ch->filters is NULL
               /\ UNCHANGED thrVars
          ELSE /\ \E t \in Tables : Deliver(c, t)
               /\ ch' = c /\ inPid' = p
               /\ left' \in 0 .. MaxSections - 1
               /\ UNCHANGED crashed
  /\ UNCHANGED <<filterVars, chanVars, silent>>

(* Mutant: one section more than the packet holds is taken from it.        *)
CallbackReturnOver ==
  /\ pc = "cb"
  /\ \/ /\ \E t \in Tables : Deliver(ch, t)
        /\ left' = left - 1
        /\ UNCHANGED <<ch, inPid>>
     \/ pc' = "poll" /\ ch' = Nil /\ cur' = Nil /\ inPid' = Nil /\ left' = 0
  /\ UNCHANGED <<filterVars, chanVars, crashed, silent>>

(* The callback returns and data_cb takes the lock again; parse_sec goes   *)
(* on with the rest of the packet on the channel found before.             *)
CallbackReturn ==
  /\ pc = "cb"
  /\ \/ /\ left > 0
        /\ \E t \in Tables : Deliver(ch, t)
        /\ left' = left - 1
        /\ UNCHANGED <<ch, inPid>>
     \/ /\ pc' = "poll" /\ ch' = Nil /\ cur' = Nil /\ inPid' = Nil /\ left' = 0
  /\ UNCHANGED <<filterVars, chanVars, crashed, silent>>

ClientCall == FilterCall(ClientOps) /\ UNCHANGED <<thrVars, crashed>>

CallbackCall ==
  /\ pc = "cb"
  /\ FilterCall(CallbackOps)
  /\ UNCHANGED <<thrVars, crashed>>

Next == ~crashed /\ (ClientCall \/ CallbackCall \/ Sync \/ Packet \/ CallbackReturn)

Spec == Init /\ [][Next]_vars

-----------------------------------------------------------------------------
(* Properties.                                                             *)

(* A channel counts exactly the enabled filters that use it, all of its    *)
(* PID and kind, and no two channels in use have one PID: the share        *)
(* survives any order of starts, stops, frees and changes of PID.          *)
ChannelRefs ==
  /\ \A c \in Channels : chUsed[c] = Cardinality(EnabledOn(c))
  /\ \A f \in Filters : enable[f] =>
       used[f] /\ chan[f] # Nil /\ chPid[chan[f]] = pid[f] /\ chKind[chan[f]] = kind[f]
  /\ \A c, d \in Channels :
       chUsed[c] # 0 /\ chUsed[d] # 0 /\ chPid[c] = chPid[d] => c = d

(* The hardware taps exactly the PIDs of the channels in use, although     *)
(* taps are rebuilt only when a channel's count reaches 1 or 0.            *)
TapsMatch ==
  \A c \in Channels : tap[c] = IF chUsed[c] > 0 THEN chPid[c] ELSE Nil

(* A step that begins a callback calls a filter that is enabled then       *)
(* (am_dmx.h:156, AM_DMX_StopFilter: "Stop filtering").                    *)
StoppedNotCalled ==
  [][(Packet \/ CallbackReturn) /\ pc' = "cb" => enable[cur']]_vars

(* AM_DMX_Sync "can be used to wait for the callbacks to finish"           *)
(* (am_dmx.c:838): a filter stopped before the call is not in its callback *)
(* after it.                                                               *)
SyncedSilent == pc = "cb" => cur \notin silent
=============================================================================
