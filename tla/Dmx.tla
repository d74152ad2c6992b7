-------------------------------- MODULE Dmx --------------------------------
(***************************************************************************)
(* One demultiplexer device of am_dmx.c over the Linux DVB driver.         *)
(*                                                                         *)
(* The actors are the clients (application threads that hold a reference   *)
(* obtained with AM_DMX_Open) and the data thread, which polls the driver  *)
(* and runs the client callbacks with no lock held.  A section of code run *)
(* under dev->lock is one step: no thread keeps that mutex across a wait   *)
(* other than the pthread_cond_wait of AM_DMX_Sync, which releases it.     *)
(* am_gAdpLock is explicit (adp), because AM_DMX_Close keeps it while it   *)
(* joins the data thread.                                                  *)
(*                                                                         *)
(* A call that fails before it changed anything is a stuttering step and   *)
(* has no disjunct here.                                                   *)
(***************************************************************************)
EXTENDS Integers, FiniteSets

CONSTANTS
  NFilter,        \* DMX_FILTER_COUNT
  Clients,        \* application threads
  Slots,          \* each client has one callback argument per slot
  Sources,        \* values of AM_DMX_Source_t
  Faults,         \* {"stop"}: the DMX_STOP ioctl may fail
  CallbackOps,    \* operations a callback may call
  Careless,       \* may clients use handles they do not hold?
  Nil

Filters == 0 .. NFilter - 1
Data    == Clients \X Slots          \* user_data: whose, and which one
Pairs   == Filters \X Data           \* a registration: filter and user_data
Thread  == "thread"                  \* the data thread as a caller

AllOps == {"alloc", "free", "start", "stop", "set", "callback", "source"}

ASSUME DmxAssumption ==
  /\ NFilter \in Nat
  /\ Nil \notin Filters /\ Nil \notin Clients /\ Nil \notin Data /\ Nil \notin Sources
  /\ Thread \notin Clients
  /\ IsFiniteSet(Clients)
  /\ Sources # {}
  /\ Faults \subseteq {"stop"}
  /\ CallbackOps \subseteq AllOps
  /\ Careless \in BOOLEAN

VARIABLES
  openCount, runCb, src,             \* AM_DMX_Device: open_count, DMX_FL_RUN_CB, src
  enableThread,                      \* AM_DMX_Device: enable_thread
  used, enable, cb,                  \* AM_DMX_Filter: used, enable, user_data
  polled,                            \* the driver's fd table: fd[f] # -1
  hw,                                \* the kernel filter behind drv_data
  drvSrc,                            \* the source written to sysfs
  adp,                               \* holder of am_gAdpLock
  pc, mask, cur, arg,                \* the data thread and its locals
  cli,                               \* where each client is
  newSrc,                            \* argument of a SetSource in progress
  crashed,                           \* a NULL pointer was dereferenced
  owner,                             \* history: who allocated the filter
  pend, silent                       \* history: what AM_DMX_Sync promises

devVars    == <<openCount, runCb, src, enableThread>>
filterVars == <<used, enable, cb, polled, hw, owner>>
thrVars    == <<pc, mask, cur, arg>>
srcVars    == <<src, drvSrc, newSrc>>
histVars   == <<pend, silent>>
vars == <<devVars, filterVars, thrVars, histVars, drvSrc, adp, cli, newSrc, crashed>>

(* The registrations the data thread may still call: the filter is         *)
(* allocated and enabled and holds this user_data.                         *)
Live == {p \in Pairs : used[p[1]] /\ enable[p[1]] /\ cb[p[1]] = p[2]}

Holders == {c \in Clients : cli[c] # "out"}

TypeOK ==
  /\ openCount \in Int
  /\ runCb \in BOOLEAN /\ enableThread \in BOOLEAN /\ crashed \in BOOLEAN
  /\ src \in Sources /\ drvSrc \in Sources
  /\ used \in [Filters -> BOOLEAN]
  /\ enable \in [Filters -> BOOLEAN]
  /\ polled \in [Filters -> BOOLEAN]
  /\ cb \in [Filters -> Data \cup {Nil}]
  /\ hw \in [Filters -> {"closed", "stopped", "running"}]
  /\ owner \in [Filters -> Clients \cup {Nil}]
  /\ adp \in Clients \cup {Nil}
  /\ pc \in {"none", "check", "poll", "flag", "scan", "read", "cb", "cbsrc",
             "clear", "wake", "exited"}
  /\ mask \in SUBSET Filters
  /\ cur \in Filters \cup {Nil}
  /\ arg \in Data \cup {Nil}
  /\ cli \in [Clients -> {"out", "in", "wait", "woken", "join", "src"}]
  /\ newSrc \in [Clients \cup {Thread} -> Sources \cup {Nil}]
  /\ pend \in [Clients -> SUBSET Pairs]
  /\ silent \in SUBSET Pairs

Init ==
  /\ openCount = 0 /\ runCb = FALSE /\ enableThread = FALSE /\ crashed = FALSE
  /\ \E s \in Sources : src = s /\ drvSrc = s
  /\ used = [f \in Filters |-> FALSE]
  /\ enable = [f \in Filters |-> FALSE]
  /\ polled = [f \in Filters |-> FALSE]
  /\ cb = [f \in Filters |-> Nil]
  /\ hw = [f \in Filters |-> "closed"]
  /\ owner = [f \in Filters |-> Nil]
  /\ adp = Nil
  /\ pc = "none" /\ mask = {} /\ cur = Nil /\ arg = Nil
  /\ cli = [c \in Clients |-> "out"]
  /\ newSrc = [c \in Clients \cup {Thread} |-> Nil]
  /\ pend = [c \in Clients |-> {}]
  /\ silent = {}

(* A registration that becomes live again is no longer promised silent.    *)
UpdateHistory ==
  /\ silent' = silent \ Live'
  /\ pend' = [c \in Clients |-> pend[c] \ Live']

-----------------------------------------------------------------------------
(* Operations on filters, under dev->lock.  c is the client whose code     *)
(* makes the call, from its own thread or from a callback.                 *)

MayUse(c, f) == Careless \/ owner[f] = c

StopResults == IF "stop" \in Faults THEN BOOLEAN ELSE {TRUE}

(* dmx_stop_filter: an ioctl that fails returns a positive error code, for *)
(* which `ret>=0' still clears enable.                                     *)
StopDriver(f, ok) ==
  /\ enable' = [enable EXCEPT ![f] = FALSE]
  /\ hw' = IF used[f] /\ enable[f] /\ ok THEN [hw EXCEPT ![f] = "stopped"] ELSE hw

AllocateFilter(c) ==
  \E f \in Filters :
    /\ ~used[f] /\ \A g \in Filters : g < f => used[g]
    /\ used' = [used EXCEPT ![f] = TRUE]
    /\ hw' = [hw EXCEPT ![f] = "stopped"]
    /\ polled' = [polled EXCEPT ![f] = TRUE]
    /\ owner' = [owner EXCEPT ![f] = c]
    /\ UNCHANGED <<enable, cb, crashed>>

StopFilter(f) ==
  /\ used[f]
  /\ enable[f]
  /\ \E ok \in StopResults : StopDriver(f, ok)
  /\ UNCHANGED <<used, cb, polled, owner, crashed>>

(* AM_DMX_SetSecFilter and AM_DMX_SetPesFilter stop the filter before they *)
(* program it and leave it stopped; what is programmed is abstracted.      *)
SetFilter(f) == StopFilter(f)

(* Mutant: the filter is released without being stopped.                   *)
FreeFilterRunning(f) ==
  /\ used[f]
  /\ used' = [used EXCEPT ![f] = FALSE]
  /\ owner' = [owner EXCEPT ![f] = Nil]
  /\ polled' = [polled EXCEPT ![f] = FALSE]
  /\ enable' = [enable EXCEPT ![f] = FALSE]
  /\ UNCHANGED <<hw, cb, crashed>>

(* dmx_free_filter: the filter is released only if the stop succeeded.     *)
FreeFilter(f) ==
  /\ used[f]
  /\ \E ok \in StopResults :
       IF ok \/ ~enable[f]
       THEN /\ enable' = [enable EXCEPT ![f] = FALSE]
            /\ hw' = [hw EXCEPT ![f] = "closed"]
            /\ polled' = [polled EXCEPT ![f] = FALSE]
            /\ used' = [used EXCEPT ![f] = FALSE]
            /\ owner' = [owner EXCEPT ![f] = Nil]
       ELSE /\ StopDriver(f, ok)
            /\ UNCHANGED <<polled, used, owner>>
  /\ UNCHANGED <<cb, crashed>>

(* Mutant: the filter counts as enabled although the driver refused it.    *)
StartFilterUnchecked(c, f) ==
  /\ used[f] /\ ~enable[f]
  /\ enable' = [enable EXCEPT ![f] = TRUE]
  /\ hw' \in {hw, [hw EXCEPT ![f] = "running"]}
  /\ UNCHANGED <<used, cb, polled, owner, crashed>>

(* AM_DMX_StartFilter tests filter->enable before it looks at the result   *)
(* of dmx_get_used_filter: filter is still NULL for an unused handle.      *)
StartFilter(c, f) ==
  \/ /\ ~used[f]
     /\ crashed' = TRUE
     /\ UNCHANGED filterVars
  \/ /\ used[f] /\ ~enable[f]
     /\ (cb[f] # Nil /\ ~Careless) => cb[f][1] = c
     /\ enable' = [enable EXCEPT ![f] = TRUE]
     /\ hw' = [hw EXCEPT ![f] = "running"]
     /\ UNCHANGED <<used, cb, polled, owner, crashed>>

SetCallback(c, f) ==
  /\ used[f]
  /\ \E d \in ({c} \X Slots) \cup {Nil} : cb' = [cb EXCEPT ![f] = d]
  /\ UNCHANGED <<used, enable, polled, hw, owner, crashed>>

(* The calls of client c that change filters, restricted to ops.           *)
FilterCall(c, ops) ==
  /\ \/ "alloc" \in ops /\ AllocateFilter(c)
     \/ \E f \in Filters :
          /\ MayUse(c, f)
          /\ \/ "stop" \in ops /\ StopFilter(f)
             \/ "set" \in ops /\ SetFilter(f)
             \/ "free" \in ops /\ FreeFilter(f)
             \/ "start" \in ops /\ StartFilter(c, f)
             \/ "callback" \in ops /\ SetCallback(c, f)
  /\ UpdateHistory

(* AM_DMX_SetSource: the driver is set under dev->lock, the device's copy  *)
(* in a second critical section, under am_gAdpLock.                        *)
SetSourceDriver(who) ==
  \E s \in Sources :
    /\ drvSrc' = s
    /\ newSrc' = [newSrc EXCEPT ![who] = s]
    /\ UNCHANGED src

SetSourceDevice(who) ==
  /\ adp = Nil
  /\ src' = newSrc[who]
  /\ newSrc' = [newSrc EXCEPT ![who] = Nil]
  /\ UNCHANGED drvSrc

-----------------------------------------------------------------------------
(* The data thread.                                                        *)

(* Mutant: the loop does not look at enable_thread.                        *)
CheckEnableNever ==
  /\ pc = "check"
  /\ pc' = "poll"
  /\ UNCHANGED <<mask, cur, arg, runCb>>

CheckEnable ==
  /\ pc = "check"
  /\ pc' = IF enableThread THEN "poll" ELSE "exited"
  /\ UNCHANGED <<mask, cur, arg, runCb>>

(* dvb_poll reads the fd table without the lock.  It times out, or it      *)
(* reports a subset of the table (the thread then sets DMX_FL_RUN_CB), or  *)
(* poll returns for a descriptor closed meanwhile and the mask is empty.   *)
Poll ==
  /\ pc = "poll"
  /\ \E m \in SUBSET {f \in Filters : polled[f]} :
       /\ mask' = m
       /\ pc' = IF m = {} THEN "check" ELSE "flag"
  /\ UNCHANGED <<cur, arg, runCb>>

SetRunCb ==
  /\ pc = "flag"
  /\ runCb' = TRUE
  /\ pc' = "scan"
  /\ UNCHANGED <<mask, cur, arg>>

(* The next id of the mask; the first test of enable and used is made      *)
(* without the lock.                                                       *)
ScanFilter ==
  /\ pc = "scan"
  /\ \E f \in mask :
       /\ \A g \in mask : f <= g
       /\ mask' = mask \ {f}
       /\ IF enable[f] /\ used[f]
          THEN cur' = f /\ pc' = "read"
          ELSE UNCHANGED <<cur, pc>>
  /\ UNCHANGED <<arg, runCb>>

ScanDone ==
  /\ pc = "scan" /\ mask = {}
  /\ pc' = "clear"
  /\ UNCHANGED <<mask, cur, arg, runCb>>

(* Mutant: enable and used are not tested again under the lock.            *)
ReadFilterOnce ==
  /\ pc = "read"
  /\ IF cb[cur] # Nil
     THEN arg' = cb[cur] /\ pc' = "cb" /\ UNCHANGED cur
     ELSE cur' = Nil /\ pc' = "scan" /\ UNCHANGED arg
  /\ UNCHANGED <<mask, runCb>>

(* The second test, the copy of cb and user_data and the read, under the   *)
(* lock.  A section or ETIMEDOUT (data = NULL) goes to the callback, any   *)
(* other error to the next filter.                                         *)
ReadFilter ==
  /\ pc = "read"
  /\ \/ /\ enable[cur] /\ used[cur]
        /\ cb[cur] # Nil
        /\ arg' = cb[cur]
        /\ pc' = "cb"
        /\ UNCHANGED cur
     \/ /\ pc' = "scan"
        /\ cur' = Nil
        /\ UNCHANGED arg
  /\ UNCHANGED <<mask, runCb>>

CallbackReturn ==
  /\ pc = "cb"
  /\ pc' = "scan" /\ cur' = Nil /\ arg' = Nil
  /\ UNCHANGED <<mask, runCb>>

ClearRunCb ==
  /\ pc = "clear"
  /\ runCb' = FALSE
  /\ pc' = "wake"
  /\ UNCHANGED <<mask, cur, arg>>

(* Mutant: pthread_cond_signal wakes only one of the waiting clients.      *)
BroadcastOne ==
  /\ pc = "wake"
  /\ pc' = "check"
  /\ \E c \in Clients : cli' = [cli EXCEPT ![c] = IF @ = "wait" THEN "woken" ELSE @]
  /\ UNCHANGED <<mask, cur, arg, runCb>>

(* Mutant: nobody is woken.                                                *)
BroadcastNot ==
  /\ pc = "wake"
  /\ pc' = "check"
  /\ UNCHANGED <<cli, mask, cur, arg, runCb>>

Broadcast ==
  /\ pc = "wake"
  /\ pc' = "check"
  /\ cli' = [c \in Clients |-> IF cli[c] = "wait" THEN "woken" ELSE cli[c]]
  /\ UNCHANGED <<mask, cur, arg, runCb>>

ThreadStep ==
  /\ \/ CheckEnable \/ Poll \/ SetRunCb \/ ScanFilter \/ ScanDone \/ ReadFilter
     \/ CallbackReturn \/ ClearRunCb
  /\ UNCHANGED <<filterVars, histVars, openCount, src, enableThread, drvSrc, adp,
                 cli, newSrc, crashed>>

ThreadWake ==
  /\ Broadcast
  /\ UNCHANGED <<filterVars, histVars, openCount, src, enableThread, drvSrc, adp,
                 newSrc, crashed>>

(* A callback is client code run by the data thread.  AM_DMX_Sync called   *)
(* from it returns at once (dev->thread == pthread_self()).                *)
CallbackCall ==
  /\ pc = "cb"
  /\ FilterCall(arg[1], CallbackOps)
  /\ UNCHANGED <<devVars, thrVars, drvSrc, adp, cli, newSrc>>

CallbackSetSource ==
  /\ \/ /\ pc = "cb" /\ "source" \in CallbackOps
        /\ SetSourceDriver(Thread)
        /\ pc' = "cbsrc"
     \/ /\ pc = "cbsrc"
        /\ SetSourceDevice(Thread)
        /\ pc' = "cb"
  /\ UNCHANGED <<filterVars, histVars, openCount, runCb, enableThread, mask, cur,
                 arg, adp, cli, crashed>>

-----------------------------------------------------------------------------
(* The clients.                                                            *)

(* AM_DMX_Open, under am_gAdpLock: the first reference opens the driver    *)
(* (which empties the fd table) and creates the data thread.               *)
Open(c) ==
  /\ cli[c] = "out" /\ adp = Nil
  /\ cli' = [cli EXCEPT ![c] = "in"]
  /\ openCount' = openCount + 1
  /\ IF openCount > 0
     THEN UNCHANGED <<enableThread, runCb, pc, polled>>
     ELSE /\ enableThread' = TRUE /\ runCb' = FALSE /\ pc' = "check"
          /\ polled' = [f \in Filters |-> FALSE]
  /\ UNCHANGED <<used, enable, cb, hw, owner, mask, cur, arg, histVars, srcVars,
                 adp, crashed>>

(* Mutant: every AM_DMX_Close stops the device.                            *)
CloseBeginAlways(c) ==
  /\ cli[c] = "in" /\ adp = Nil
  /\ enableThread' = FALSE /\ adp' = c
  /\ cli' = [cli EXCEPT ![c] = "join"]
  /\ UNCHANGED <<openCount, filterVars, thrVars, histVars, srcVars, runCb, crashed>>

(* AM_DMX_Close up to pthread_join; am_gAdpLock stays locked meanwhile.    *)
CloseBegin(c) ==
  /\ cli[c] = "in" /\ adp = Nil
  /\ IF openCount = 1
     THEN /\ enableThread' = FALSE /\ adp' = c
          /\ cli' = [cli EXCEPT ![c] = "join"]
          /\ UNCHANGED openCount
     ELSE /\ openCount' = openCount - 1
          /\ cli' = [cli EXCEPT ![c] = "out"]
          /\ UNCHANGED <<enableThread, adp>>
  /\ UNCHANGED <<filterVars, thrVars, histVars, srcVars, runCb, crashed>>

(* The rest of AM_DMX_Close, once the data thread has ended: every filter  *)
(* is freed, except those whose stop failed, and the driver is closed.     *)
CloseEnd(c) ==
  /\ cli[c] = "join" /\ pc = "exited"
  /\ \E bad \in SUBSET {f \in Filters : used[f] /\ enable[f]} :
       /\ bad # {} => "stop" \in Faults
       /\ used' = [f \in Filters |-> f \in bad]
       /\ hw' = [f \in Filters |-> IF f \in bad THEN hw[f] ELSE "closed"]
  /\ enable' = [f \in Filters |-> FALSE]
  /\ polled' = [f \in Filters |-> FALSE]
  /\ owner' = [f \in Filters |-> Nil]
  /\ openCount' = openCount - 1
  /\ cli' = [cli EXCEPT ![c] = "out"]
  /\ pc' = "none" /\ adp' = Nil
  /\ silent' = Pairs
  /\ UNCHANGED <<cb, mask, cur, arg, pend, srcVars, runCb, enableThread, crashed>>

ClientCall(c) ==
  /\ cli[c] = "in"
  /\ FilterCall(c, AllOps)
  /\ UNCHANGED <<devVars, thrVars, drvSrc, adp, cli, newSrc>>

ClientSetSource(c) ==
  /\ \/ /\ cli[c] = "in"
        /\ SetSourceDriver(c)
        /\ cli' = [cli EXCEPT ![c] = "src"]
     \/ /\ cli[c] = "src"
        /\ SetSourceDevice(c)
        /\ cli' = [cli EXCEPT ![c] = "in"]
  /\ UNCHANGED <<filterVars, thrVars, histVars, openCount, runCb, enableThread,
                 adp, crashed>>

(* Mutant: AM_DMX_Sync never waits.                                        *)
SyncCallNoWait(c) ==
  /\ cli[c] = "in"
  /\ silent' = silent \cup (Pairs \ Live)
  /\ UNCHANGED <<cli, pend, filterVars, thrVars, devVars, drvSrc, newSrc, adp, crashed>>

(* AM_DMX_Sync.  On return every registration that was not live when the   *)
(* call was made, and has not become live since, is promised silent.       *)
SyncCall(c) ==
  /\ cli[c] = "in"
  /\ IF runCb
     THEN /\ cli' = [cli EXCEPT ![c] = "wait"]
          /\ pend' = [pend EXCEPT ![c] = Pairs \ Live]
          /\ UNCHANGED silent
     ELSE /\ silent' = silent \cup (Pairs \ Live)
          /\ UNCHANGED <<cli, pend>>
  /\ UNCHANGED <<filterVars, thrVars, devVars, drvSrc, newSrc, adp, crashed>>

(* Mutant: the flag is not tested again after a wake-up.                   *)
SyncRetestNot(c) ==
  /\ cli[c] = "woken"
  /\ cli' = [cli EXCEPT ![c] = "in"]
  /\ silent' = silent \cup pend[c]
  /\ pend' = [pend EXCEPT ![c] = {}]
  /\ UNCHANGED <<filterVars, thrVars, devVars, drvSrc, newSrc, adp, crashed>>

(* Woken with the mutex again: the loop tests the flag.                    *)
SyncRetest(c) ==
  /\ cli[c] = "woken"
  /\ IF runCb
     THEN /\ cli' = [cli EXCEPT ![c] = "wait"]
          /\ UNCHANGED histVars
     ELSE /\ cli' = [cli EXCEPT ![c] = "in"]
          /\ silent' = silent \cup pend[c]
          /\ pend' = [pend EXCEPT ![c] = {}]
  /\ UNCHANGED <<filterVars, thrVars, devVars, drvSrc, newSrc, adp, crashed>>

(* pthread_cond_wait may return without a broadcast.                       *)
SpuriousWake(c) ==
  /\ cli[c] = "wait"
  /\ cli' = [cli EXCEPT ![c] = "woken"]
  /\ UNCHANGED <<filterVars, thrVars, devVars, histVars, drvSrc, newSrc, adp, crashed>>

ClientStep(c) ==
  \/ Open(c) \/ CloseBegin(c) \/ CloseEnd(c) \/ ClientCall(c) \/ ClientSetSource(c)
  \/ SyncCall(c) \/ SyncRetest(c) \/ SpuriousWake(c)

Next ==
  /\ ~crashed
  /\ \/ ThreadStep \/ ThreadWake \/ CallbackCall \/ CallbackSetSource
     \/ \E c \in Clients : ClientStep(c)

Spec == Init /\ [][Next]_vars

(* The data thread keeps running, callbacks return, and a client that is   *)
(* inside a call finishes it.  Nobody has to make a new call.              *)
Fairness ==
  /\ WF_vars(~crashed /\ (ThreadStep \/ ThreadWake))
  /\ WF_vars(~crashed /\ pc = "cbsrc" /\ CallbackSetSource)
  /\ \A c \in Clients :
       WF_vars(~crashed /\ (SyncRetest(c) \/ CloseEnd(c)))

FairSpec == Spec /\ Fairness

-----------------------------------------------------------------------------
(* Properties.                                                             *)

InCallback == pc \in {"cb", "cbsrc"}

(* What AM_DMX_Sync is for (am_dmx.c:838): once it has returned, a         *)
(* registration that was stopped, freed or replaced before the call is not *)
(* being called and is never called again until it is restored.  The same  *)
(* holds of every registration once the last AM_DMX_Close has returned.    *)
SyncedSilent == InCallback => <<cur, arg>> \notin silent

(* No lost wakeup: a client blocked in AM_DMX_Sync waits while the flag is *)
(* set or while the broadcast that follows its clearing is still to come.  *)
NoLostWakeup ==
  \A c \in Clients : cli[c] = "wait" => runCb \/ pc = "wake"

(* A filter the library takes for enabled can deliver: it is allocated,    *)
(* its descriptor is polled and the kernel filter runs.                    *)
EnabledCanDeliver ==
  \A f \in Filters : enable[f] => used[f] /\ polled[f] /\ hw[f] = "running"

(* Conversely (when no ioctl fails) the kernel never runs a filter the     *)
(* library takes for stopped, and a closed device has no filter left.      *)
NoStrayFilter ==
  \A f \in Filters : /\ hw[f] = "running" => enable[f]
                     /\ openCount = 0 => ~used[f] /\ hw[f] = "closed"

(* The data thread lives exactly as long as the device is open, the device *)
(* is open as long as a client holds it, and the client that joins the     *)
(* thread is the only one that still does.                                 *)
ReferenceCount ==
  /\ openCount = Cardinality(Holders)
  /\ pc = "none" <=> openCount = 0
  /\ \A c \in Clients : cli[c] = "join" => Holders = {c}

(* With who holds am_gAdpLock, ReferenceCount is inductive.                *)
RefInv ==
  /\ ReferenceCount
  /\ \A c \in Clients : cli[c] = "join" <=> adp = c
  /\ cli \in [Clients -> {"out", "in", "wait", "woken", "join", "src"}]

(* When clients register their own user_data before they start a filter, a *)
(* section is handed to user_data of the client that has the filter now,   *)
(* although user_data survives FreeFilter, AllocateFilter and Close.       *)
DeliversToAllocator ==
  [][pc = "read" /\ pc' = "cb" => arg'[1] = owner[cur]]_vars

(* AM_DMX_Close ends although it holds am_gAdpLock while it joins.         *)
CloseTerminates == \A c \in Clients : cli[c] = "join" ~> cli[c] = "out"

(* AM_DMX_Sync ends unless sections keep arriving for ever.                *)
SyncTerminates ==
  \A c \in Clients :
    cli[c] = "wait" ~> (cli[c] = "in" \/ []<>(pc = "flag"))

(* The device implements the contract of DmxContract.                      *)
Contract == INSTANCE DmxContract WITH
  Registrations <- Pairs,
  live   <- Live,
  inCall <- IF InCallback THEN {<<cur, arg>>} ELSE {},
  silent <- silent

ImplementsContract == Contract!Spec

(* The inductive invariant behind SyncedSilent and ImplementsContract.     *)
(* Nothing promised or about to be promised is live; the flag covers every *)
(* state of the data thread from the scan to the last callback, so that a  *)
(* client that sees it clear finds the thread outside of every callback.   *)
SilentNotLive == silent \cap Live = {}
PendNotLive   == \A c \in Clients : pend[c] \cap Live = {}
FlagCovers    == pc \in {"scan", "read", "cb", "cbsrc", "clear"} => runCb
CallbackArgs  == /\ pc = "read" => cur \in Filters
                 /\ InCallback => cur \in Filters /\ arg \in Data
SourceArgs    == /\ pc = "cbsrc" => newSrc[Thread] \in Sources
                 /\ \A c \in Clients : cli[c] = "src" => newSrc[c] \in Sources
SyncInv ==
  /\ TypeOK
  /\ SilentNotLive /\ PendNotLive /\ FlagCovers /\ CallbackArgs /\ SourceArgs
  /\ SyncedSilent /\ NoLostWakeup
=============================================================================
