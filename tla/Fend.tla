------------------------------- MODULE Fend -------------------------------
(***************************************************************************)
(* One frontend device of am_fend.c over a driver with set_para and        *)
(* wait_event (linux_dvb.c): the monitor thread, the device callback, and  *)
(* the calls that wait on the device's condition variable.                 *)
(*                                                                         *)
(* AM_FEND_Lock borrows the device callback: it installs fend_lock_cb with *)
(* a frame on its own stack, tunes, and waits until the monitor thread,    *)
(* calling the frame with a matching event, clears FEND_FL_LOCK.           *)
(*                                                                         *)
(* A section of code run under dev->lock is one step; pthread_cond_wait    *)
(* puts a client in `blocked' until a broadcast (or for no reason).  The   *)
(* kernel tuner is external: it reports events for the parameters it was   *)
(* last given.  Blind scan is not modelled: the thread is never paused.    *)
(***************************************************************************)
EXTENDS Integers, FiniteSets

CONSTANTS
  Clients,        \* application threads
  Data,           \* callbacks with their user_data, registered by clients
  Params,         \* tuning parameters
  Ops,            \* Ops[c]: the calls client c makes while it is open
  CallbackOps,    \* the calls made by callbacks, in the monitor thread
  Nil

AllOps == {"setcb", "action", "para", "lock"}

ASSUME FendAssumption ==
  /\ Ops \in [Clients -> SUBSET AllOps]
  /\ CallbackOps \subseteq AllOps \ {"lock"}    \* AM_FEND_ERR_INVOKE_IN_CB
  /\ Clients \cap Data = {}
  /\ Nil \notin Clients \cup Data \cup Params
  /\ IsFiniteSet(Clients)

(* The values of cb and user_data: NULL, a client's, or fend_lock_cb with  *)
(* the frame of the client whose AM_FEND_Lock is in progress.              *)
Callbacks == Data \cup Clients \cup {Nil}

(* An event: its parameters, and whether its status is non-zero.           *)
Events == [para : Params, status : BOOLEAN]

VARIABLES
  openCount, enableThread,      \* AM_FEND_Device: open_count, enable_thread
  runCb, lockFlag,              \* FEND_FL_RUN_CB, FEND_FL_LOCK
  cb, enableCb,                 \* cb with user_data, enable_cb
  adp,                          \* holder of am_gAdpLock
  tuned,                        \* external: what the kernel was tuned to
  pc, evt, calling, nested,     \* the monitor thread: its event, the callback
                                \* it runs, a broadcast owed by fend_lock_cb
  cli, blocked,                 \* where each client is; who waits on dev->cond
  newCb, para, old, stat,       \* arguments and the frame of fend_lock_para_t
  crashed,                      \* a frame was used after its call returned
  silent                        \* history: replaced callbacks

devVars == <<openCount, enableThread, runCb, lockFlag, cb, enableCb>>
thrVars == <<pc, evt, calling, nested>>
cliVars == <<cli, blocked, newCb, para, old, stat>>
vars == <<devVars, adp, tuned, thrVars, cliVars, crashed, silent>>

Holders == {c \in Clients : cli[c] # "out"}

TypeOK ==
  /\ openCount \in Int
  /\ enableThread \in BOOLEAN /\ runCb \in BOOLEAN /\ lockFlag \in BOOLEAN
  /\ cb \in Callbacks /\ enableCb \in BOOLEAN
  /\ adp \in Clients \cup {Nil}
  /\ tuned \in Params \cup {Nil}
  /\ pc \in {"none", "check", "wait", "again", "flag", "run", "cb", "lockcb",
             "unwind", "signal", "evt", "clear", "wake", "exited"}
  /\ evt \in Events \cup {Nil}
  /\ calling \in Callbacks
  /\ nested \in BOOLEAN /\ crashed \in BOOLEAN
  /\ cli \in [Clients -> {"out", "in", "setcb", "setwait", "lock", "locked", "join"}]
  /\ blocked \subseteq {c \in Clients : cli[c] \in {"setwait", "lock", "locked"}}
  /\ newCb \in [Clients -> Data \cup {Nil}]
  /\ para \in [Clients -> Params \cup {Nil}]
  /\ old \in [Clients -> Callbacks]
  /\ stat \in [Clients -> Events \cup {Nil}]
  /\ silent \subseteq Data

Init ==
  /\ openCount = 0 /\ enableThread = FALSE
  /\ runCb = FALSE /\ lockFlag = FALSE
  /\ cb = Nil /\ enableCb = FALSE
  /\ adp = Nil
  /\ tuned = Nil
  /\ pc = "none" /\ evt = Nil /\ calling = Nil /\ nested = FALSE
  /\ cli = [c \in Clients |-> "out"] /\ blocked = {}
  /\ newCb = [c \in Clients |-> Nil] /\ para = [c \in Clients |-> Nil]
  /\ old = [c \in Clients |-> Nil] /\ stat = [c \in Clients |-> Nil]
  /\ crashed = FALSE
  /\ silent = {}

-----------------------------------------------------------------------------
(* Calls that any thread can make, under dev->lock.                        *)

(* AM_FEND_SetPara.                                                        *)
SetPara(ops) ==
  /\ "para" \in ops
  /\ tuned' \in Params
  /\ UNCHANGED <<cb, enableCb, silent>>

(* AM_FEND_SetActionCallback does not wait.                                *)
SetActionCallback(ops) ==
  /\ "action" \in ops
  /\ enableCb' = ~enableCb
  /\ UNCHANGED <<cb, tuned, silent>>

(* The end of AM_FEND_SetCallback.  A callback that is replaced is not     *)
(* called again, except for the call that makes the change.                *)
ReplaceCallback(d) ==
  /\ cb' = d
  /\ silent' = (silent \cup ({cb} \cap Data)) \ {d}

-----------------------------------------------------------------------------
(* The monitor thread, fend_thread.                                        *)

Goto(from, to) == pc = from /\ pc' = to

(* Mutant: the loop does not look at enable_thread.                        *)
CheckEnableNever ==
  /\ Goto("check", "wait")
  /\ UNCHANGED <<evt, calling, nested, runCb>>

CheckEnable ==
  /\ Goto("check", IF enableThread THEN "wait" ELSE "exited")
  /\ UNCHANGED <<evt, calling, nested, runCb>>

(* wait_event: an event, or a timeout or an error (Nil).                   *)
WaitEvent(e) ==
  /\ Goto("wait", "again")
  /\ e # Nil => e.para = tuned
  /\ evt' = e
  /\ UNCHANGED <<calling, nested, runCb>>

CheckAgain ==
  /\ Goto("again", IF enableThread THEN "flag" ELSE "check")
  /\ UNCHANGED <<evt, calling, nested, runCb>>

SetRunCb ==
  /\ Goto("flag", IF evt # Nil THEN "run" ELSE "clear")
  /\ runCb' = TRUE
  /\ UNCHANGED <<evt, calling, nested>>

(* Calls the callback f, or goes on if it is NULL.                         *)
Invoke(f) ==
  /\ calling' = f
  /\ pc' = IF f \in Clients THEN "lockcb" ELSE IF f \in Data THEN "cb" ELSE "unwind"

CallCallback ==
  /\ pc = "run"
  /\ Invoke(IF enableCb THEN cb ELSE Nil)
  /\ UNCHANGED <<evt, nested, runCb>>

CallbackReturn ==
  /\ Goto("cb", "unwind")
  /\ calling' = Nil
  /\ UNCHANGED <<evt, nested, runCb>>

(* The pthread_cond_broadcast at the end of fend_lock_cb.                  *)
Unwind ==
  /\ Goto("unwind", "signal")
  /\ nested' = FALSE
  /\ blocked' = IF nested THEN {} ELSE blocked
  /\ UNCHANGED <<evt, calling, runCb>>

(* AM_EVT_Signal, which runs the subscribers' code in this thread.         *)
SignalBegin ==
  /\ Goto("signal", IF enableCb THEN "evt" ELSE "clear")
  /\ UNCHANGED <<evt, calling, nested, runCb>>

SignalEnd ==
  /\ Goto("evt", "clear")
  /\ UNCHANGED <<evt, calling, nested, runCb>>

(* Mutant: nobody is woken when the flag is cleared.                       *)
ClearRunCbQuiet ==
  /\ Goto("clear", "check")
  /\ runCb' = FALSE
  /\ evt' = Nil
  /\ UNCHANGED <<calling, nested>>

ClearRunCb ==
  /\ Goto("clear", "wake")
  /\ runCb' = FALSE
  /\ evt' = Nil
  /\ UNCHANGED <<calling, nested>>

Broadcast ==
  /\ Goto("wake", "check")
  /\ blocked' = {}
  /\ UNCHANGED <<evt, calling, nested, runCb>>

ThreadStep ==
  /\ \/ /\ \/ CheckEnable \/ CheckAgain \/ SetRunCb \/ CallCallback
           \/ CallbackReturn \/ SignalBegin \/ SignalEnd \/ ClearRunCb
           \/ \E e \in Events \cup {Nil} : WaitEvent(e)
        /\ UNCHANGED blocked
     \/ Unwind
     \/ Broadcast
  /\ UNCHANGED <<openCount, enableThread, lockFlag, cb, enableCb, adp, tuned,
                 cli, newCb, para, old, stat, crashed, silent>>

(* Mutant: FEND_FL_LOCK is not cleared.                                    *)
LockCbKeepsFlag(c) ==
  /\ pc = "lockcb" /\ calling = c
  /\ IF evt.para = para[c] /\ evt.status
     THEN stat' = [stat EXCEPT ![c] = evt] /\ nested' = TRUE /\ Invoke(old[c])
     ELSE Invoke(Nil) /\ UNCHANGED <<nested, stat>>
  /\ UNCHANGED <<devVars, adp, tuned, cli, blocked, newCb, para, old, evt, crashed,
                 silent>>

(* fend_lock_cb, called with the frame of client c.  The frame is on the   *)
(* stack of AM_FEND_Lock: using it after that call has returned is an      *)
(* undefined behaviour.                                                    *)
LockCb(c) ==
  /\ pc = "lockcb" /\ calling = c
  /\ \/ /\ cli[c] # "locked"
        /\ crashed' = TRUE
        /\ UNCHANGED <<thrVars, lockFlag, stat>>
     \/ /\ cli[c] = "locked"
        /\ IF evt.para = para[c] /\ evt.status
           THEN /\ stat' = [stat EXCEPT ![c] = evt]
                /\ lockFlag' = FALSE
                /\ nested' = TRUE
                /\ Invoke(old[c])
           ELSE /\ Invoke(Nil)
                /\ UNCHANGED <<nested, lockFlag, stat>>
        /\ UNCHANGED <<evt, crashed>>
  /\ UNCHANGED <<openCount, enableThread, runCb, cb, enableCb, adp, tuned, cli,
                 blocked, newCb, para, old, silent>>

(* The code of a callback or of an event subscriber.  AM_FEND_SetCallback  *)
(* does not wait in the monitor thread.                                    *)
CallbackCall ==
  /\ pc \in {"cb", "evt"}
  /\ \/ SetPara(CallbackOps)
     \/ SetActionCallback(CallbackOps)
     \/ /\ "setcb" \in CallbackOps
        /\ \E d \in Data \cup {Nil} :
             /\ cb' = d
             /\ silent' = (silent \cup (({cb} \cap Data) \ {calling})) \ {d}
        /\ UNCHANGED <<enableCb, tuned>>
  /\ UNCHANGED <<openCount, enableThread, runCb, lockFlag, adp, thrVars,
                 cliVars, crashed>>

-----------------------------------------------------------------------------
(* The clients.                                                            *)

(* AM_FEND_Open: cb and user_data keep the values of the last session.     *)
Open(c) ==
  /\ cli[c] = "out" /\ adp = Nil
  /\ cli' = [cli EXCEPT ![c] = "in"]
  /\ openCount' = openCount + 1
  /\ IF openCount > 0
     THEN UNCHANGED <<enableThread, runCb, lockFlag, enableCb, pc>>
     ELSE /\ enableThread' = TRUE /\ enableCb' = TRUE
          /\ runCb' = FALSE /\ lockFlag' = FALSE
          /\ pc' = "check"
  /\ UNCHANGED <<cb, adp, tuned, evt, calling, nested, blocked, newCb, para, old,
                 stat, crashed, silent>>

(* AM_FEND_Close up to pthread_join, under am_gAdpLock.                    *)
CloseBegin(c) ==
  /\ cli[c] = "in" /\ adp = Nil
  /\ IF openCount = 1
     THEN /\ enableCb' = FALSE /\ enableThread' = FALSE /\ adp' = c
          /\ cli' = [cli EXCEPT ![c] = "join"]
          /\ UNCHANGED openCount
     ELSE /\ openCount' = openCount - 1
          /\ cli' = [cli EXCEPT ![c] = "out"]
          /\ UNCHANGED <<enableCb, enableThread, adp>>
  /\ UNCHANGED <<runCb, lockFlag, cb, tuned, thrVars, blocked, newCb, para, old,
                 stat, crashed, silent>>

CloseEnd(c) ==
  /\ cli[c] = "join" /\ pc = "exited"
  /\ openCount' = openCount - 1
  /\ cli' = [cli EXCEPT ![c] = "out"]
  /\ adp' = Nil /\ pc' = "none" /\ tuned' = Nil /\ evt' = Nil
  /\ UNCHANGED <<enableThread, runCb, lockFlag, cb, enableCb, calling, nested,
                 blocked, newCb, para, old, stat, crashed, silent>>

ClientCall(c) ==
  /\ cli[c] = "in"
  /\ SetPara(Ops[c]) \/ SetActionCallback(Ops[c])
  /\ UNCHANGED <<openCount, enableThread, runCb, lockFlag, adp, thrVars,
                 cliVars, crashed>>

SetCallbackCall(c) ==
  /\ cli[c] = "in" /\ "setcb" \in Ops[c]
  /\ \E d \in Data \cup {Nil} : newCb' = [newCb EXCEPT ![c] = d]
  /\ cli' = [cli EXCEPT ![c] = "setcb"]
  /\ UNCHANGED <<devVars, adp, tuned, thrVars, blocked, para, old, stat, crashed,
                 silent>>

(* The comparison and the test of enable_thread are made once, the test of *)
(* the flag again after each wake-up.                                      *)
MustWait(c) ==
  /\ runCb
  /\ cli[c] = "setcb" => enableThread /\ newCb[c] # cb

(* Mutant: the callback is replaced without waiting.                       *)
SetCallbackAtOnce(c) ==
  /\ cli[c] = "setcb"
  /\ ReplaceCallback(newCb[c])
  /\ cli' = [cli EXCEPT ![c] = "in"]
  /\ UNCHANGED <<openCount, enableThread, runCb, lockFlag, enableCb, adp, tuned,
                 thrVars, blocked, newCb, para, old, stat, crashed>>

(* Mutant: the call returns after one wait for which it was not woken.     *)
SetCallbackNotWoken(c) ==
  /\ cli[c] = "setcb"
  /\ blocked' = IF MustWait(c) THEN blocked \cup {c} ELSE blocked
  /\ ReplaceCallback(newCb[c])
  /\ cli' = [cli EXCEPT ![c] = "in"]
  /\ UNCHANGED <<openCount, enableThread, runCb, lockFlag, enableCb, adp, tuned,
                 thrVars, newCb, para, old, stat, crashed>>

SetCallback(c) ==
  /\ cli[c] \in {"setcb", "setwait"} /\ c \notin blocked
  /\ IF MustWait(c)
     THEN /\ blocked' = blocked \cup {c}
          /\ cli' = [cli EXCEPT ![c] = "setwait"]
          /\ UNCHANGED <<cb, silent>>
     ELSE /\ ReplaceCallback(newCb[c])
          /\ cli' = [cli EXCEPT ![c] = "in"]
          /\ UNCHANGED blocked
  /\ UNCHANGED <<openCount, enableThread, runCb, lockFlag, enableCb, adp, tuned,
                 thrVars, newCb, para, old, stat, crashed>>

LockCall(c) ==
  /\ cli[c] = "in" /\ "lock" \in Ops[c]
  /\ \E p \in Params : para' = [para EXCEPT ![c] = p]
  /\ stat' = [stat EXCEPT ![c] = Nil]
  /\ cli' = [cli EXCEPT ![c] = "lock"]
  /\ UNCHANGED <<devVars, adp, tuned, thrVars, blocked, newCb, old, crashed, silent>>

(* The first wait of AM_FEND_Lock, then the frame is installed and the     *)
(* device tuned.  If set_para fails the callback is restored at once and   *)
(* FEND_FL_LOCK stays set; if not, the flag just set makes it wait again.  *)
LockEnter(c) ==
  /\ cli[c] = "lock" /\ c \notin blocked
  /\ \/ /\ runCb
        /\ blocked' = blocked \cup {c}
        /\ UNCHANGED <<lockFlag, cb, old, cli, tuned>>
     \/ /\ ~runCb
        /\ old' = [old EXCEPT ![c] = cb]
        /\ lockFlag' = TRUE
        /\ \/ /\ tuned' = para[c]
              /\ cb' = c
              /\ cli' = [cli EXCEPT ![c] = "locked"]
              /\ blocked' = blocked \cup {c}
           \/ /\ cli' = [cli EXCEPT ![c] = "in"]
              /\ UNCHANGED <<cb, tuned, blocked>>
  /\ UNCHANGED <<openCount, enableThread, runCb, enableCb, adp, thrVars, newCb, para,
                 stat, crashed, silent>>

(* Mutant: the second wait tests only FEND_FL_RUN_CB.                      *)
LockReturnEarly(c) ==
  /\ cli[c] = "locked" /\ c \notin blocked /\ ~runCb
  /\ cb' = old[c]
  /\ cli' = [cli EXCEPT ![c] = "in"]
  /\ UNCHANGED <<openCount, enableThread, runCb, lockFlag, enableCb, adp, tuned,
                 thrVars, blocked, newCb, para, old, stat, crashed, silent>>

(* Mutant: the saved callback is not put back.                             *)
LockReturnKeeps(c) ==
  /\ cli[c] = "locked" /\ c \notin blocked
  /\ IF runCb \/ lockFlag
     THEN blocked' = blocked \cup {c} /\ UNCHANGED cli
     ELSE cli' = [cli EXCEPT ![c] = "in"] /\ UNCHANGED blocked
  /\ UNCHANGED <<devVars, adp, tuned, thrVars, newCb, para, old, stat, crashed,
                 silent>>

(* The second wait: on return the callback saved on entry is put back.     *)
LockReturn(c) ==
  /\ cli[c] = "locked" /\ c \notin blocked
  /\ IF runCb \/ lockFlag
     THEN /\ blocked' = blocked \cup {c}
          /\ UNCHANGED <<cb, cli>>
     ELSE /\ cb' = old[c]
          /\ cli' = [cli EXCEPT ![c] = "in"]
          /\ UNCHANGED blocked
  /\ UNCHANGED <<openCount, enableThread, runCb, lockFlag, enableCb, adp, tuned,
                 thrVars, newCb, para, old, stat, crashed, silent>>

(* pthread_cond_wait may return without a broadcast.                       *)
SpuriousWake(c) ==
  /\ c \in blocked
  /\ blocked' = blocked \ {c}
  /\ UNCHANGED <<devVars, adp, tuned, thrVars, cli, newCb, para, old, stat,
                 crashed, silent>>

ClientStep(c) ==
  \/ Open(c) \/ CloseBegin(c) \/ CloseEnd(c) \/ ClientCall(c) \/ SetCallbackCall(c)
  \/ SetCallback(c) \/ LockCall(c) \/ LockEnter(c) \/ LockReturn(c) \/ SpuriousWake(c)

Next ==
  /\ ~crashed
  /\ \/ ThreadStep \/ CallbackCall
     \/ \E c \in Clients : LockCb(c) \/ ClientStep(c)

Spec == Init /\ [][Next]_vars

(* The thread runs and callbacks return.  A tuner reports the outcome of   *)
(* every tuning (locked or timed out: a non-zero status), so an event with *)
(* a status does not stay away for ever.  wait_event blocks between two    *)
(* settings of RUN_CB, so a woken client gets the mutex while it is clear. *)
Fairness ==
  /\ WF_vars(~crashed /\ ThreadStep)
  /\ SF_vars(~crashed /\ ThreadStep /\ pc = "wait" /\ evt' # Nil /\ evt'.status)
  /\ \A c \in Clients :
       /\ WF_vars(~crashed /\ (LockCb(c) \/ CloseEnd(c)))
       /\ SF_vars(~crashed /\ (SetCallback(c) \/ LockEnter(c) \/ LockReturn(c))
                           /\ blocked' = blocked)

FairSpec == Spec /\ Fairness

-----------------------------------------------------------------------------
(* Properties.                                                             *)

(* AM_FEND_SetCallback waits "for the callback to finish" (am_fend.c:1022): *)
(* once it has returned, a callback it replaced is not running and is not   *)
(* called again until it is registered again.                               *)
ReplacedSilent == pc = "cb" => calling \notin silent

(* A client blocked on dev->cond waits for a flag that is set, or a         *)
(* broadcast is still to come: no wake-up of the two waits is lost.         *)
NoLostWakeup ==
  \A c \in blocked :
    \/ runCb \/ pc = "wake"
    \/ cli[c] = "locked" /\ lockFlag

(* AM_FEND_Lock returns "frontend lock status" (am_fend.h:286): it does not *)
(* succeed before an event for its own parameters has set *status.          *)
LockReturnsStatus ==
  [][\A c \in Clients : cli[c] = "locked" /\ cli'[c] = "in"
                          => stat[c] # Nil /\ stat[c].para = para[c]]_vars

(* The monitor thread calls fend_lock_cb only with the frame of a call of   *)
(* AM_FEND_Lock that has not returned.                                      *)
FrameAlive == ~crashed /\ (pc = "lockcb" => cli[calling] = "locked")

(* "try to lock frontend and wait lock status" (am_fend.h:283): it ends.    *)
LockTerminates == \A c \in Clients : cli[c] = "lock" ~> cli[c] = "in"

(* It does end if meanwhile nobody disables callbacks, replaces the         *)
(* callback or tunes the device to other parameters.                        *)
LockUndisturbedEnds ==
  \A c \in Clients :
    cli[c] = "locked" ~> (cli[c] = "in" \/ ~enableCb \/ cb # c \/ tuned # para[c])

(* AM_FEND_SetCallback ends, and so does the AM_FEND_Close that joins.      *)
CallsTerminate ==
  \A c \in Clients : /\ cli[c] = "setcb" ~> cli[c] = "in"
                     /\ cli[c] = "join" ~> cli[c] = "out"

-----------------------------------------------------------------------------
(* What the proofs of FendProofs rest on.                                  *)

(* Who holds the device: the monitor thread exists while somebody does,    *)
(* a client that joins it is alone, and otherwise the thread is enabled.   *)
RefInv ==
  /\ openCount = Cardinality(Holders)
  /\ pc = "none" <=> openCount = 0
  /\ \A c \in Clients : /\ cli[c] = "join" => Holders = {c}
                        /\ cli[c] = "join" <=> adp = c
  /\ openCount # 0 /\ adp = Nil => enableThread
  /\ cli \in [Clients -> {"out", "in", "setcb", "setwait", "lock", "locked", "join"}]

(* FEND_FL_RUN_CB is set from before the callback to after the signal.     *)
FlagCovers ==
  pc \in {"run", "cb", "lockcb", "unwind", "signal", "evt", "clear"} => runCb

WakeInv == TypeOK /\ FlagCovers /\ NoLostWakeup

(* With one locking client the frame is installed, or being called, only   *)
(* while that client waits, and no frame is saved in a frame.              *)
FrameInv ==
  /\ ~crashed
  /\ \A c \in Clients : cli[c] \in {"lock", "locked"} => "lock" \in Ops[c]
  /\ cb \in Clients => cli[cb] = "locked"
  /\ \A c \in Clients : old[c] \notin Clients
  /\ pc = "lockcb" => calling \in Clients /\ cli[calling] = "locked"

(* With one locking client: when FEND_FL_LOCK is clear it has its status.  *)
StatusInv ==
  /\ pc \in {"run", "lockcb"} => evt # Nil
  /\ \A c \in Clients : cli[c] = "locked" /\ ~lockFlag
                          => stat[c] # Nil /\ stat[c].para = para[c]

(* Without a locking client the registered callback is never a replaced    *)
(* one, and no frame is installed.                                         *)
SilentInv ==
  /\ \A c \in Clients : cli[c] \notin {"lock", "locked"}
  /\ cb \notin Clients /\ cb \notin silent
  /\ ReplacedSilent

OneLocks == \A c, d \in Clients : "lock" \in Ops[c] /\ "lock" \in Ops[d] => c = d
NobodyLocks == \A c \in Clients : "lock" \notin Ops[c]
=============================================================================
