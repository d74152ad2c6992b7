----------------------------- MODULE FendProofs -----------------------------
(***************************************************************************)
(* Theorems about Fend, for every number of clients, callbacks and         *)
(* parameters, and for every choice of the calls that clients and          *)
(* callbacks make.                                                         *)
(***************************************************************************)
EXTENDS Fend, FiniteSetTheorems, TLAPS

CliStates == {"out", "in", "setcb", "setwait", "lock", "locked", "join"}

-----------------------------------------------------------------------------
(* Reference counting, and the thread that runs while the device is open.  *)

LEMMA HoldersFinite == IsFiniteSet(Holders)
BY FendAssumption, FS_Subset DEF Holders

LEMMA InitRefInv == Init => RefInv
<1>. SUFFICES ASSUME Init PROVE RefInv
  OBVIOUS
<1>1. Holders = {} BY DEF Init, Holders
<1>2. Cardinality(Holders) = 0 BY <1>1, FS_EmptySet
<1>. QED BY <1>1, <1>2, FendAssumption DEF Init, RefInv

(* A step that neither opens nor closes the device.                        *)
LEMMA OtherStepKeepsRefInv ==
  ASSUME RefInv, UNCHANGED <<openCount, adp, enableThread>>,
         pc' = "none" <=> pc = "none",
         cli' \in [Clients -> CliStates],
         \A c \in Clients : /\ cli'[c] = "out" <=> cli[c] = "out"
                            /\ cli'[c] = "join" <=> cli[c] = "join"
  PROVE  RefInv'
<1>1. Holders' = Holders BY DEF Holders
<1>. QED BY <1>1 DEF RefInv, CliStates

LEMMA OpenKeepsRefInv ==
  ASSUME RefInv, NEW c \in Clients, Open(c)
  PROVE  RefInv'
<1>1. /\ cli[c] = "out" /\ adp = Nil /\ adp' = adp
      /\ cli' = [cli EXCEPT ![c] = "in"]
      /\ openCount' = openCount + 1
      /\ IF openCount > 0 THEN pc' = pc /\ enableThread' = enableThread
                          ELSE pc' = "check" /\ enableThread' = TRUE
  BY DEF Open
<1>2. Holders' = Holders \cup {c} /\ c \notin Holders
  BY <1>1 DEF Holders, RefInv
<1>3. /\ Cardinality(Holders') = Cardinality(Holders) + 1
      /\ Cardinality(Holders) \in Nat
  BY <1>2, HoldersFinite, FS_AddElement, FS_CardinalityType
<1>4. openCount' = Cardinality(Holders') /\ openCount' # 0
  BY <1>1, <1>3 DEF RefInv
<1>5. pc' # "none" /\ enableThread'
  <2>1. CASE openCount > 0 BY <1>1, <2>1 DEF RefInv
  <2>2. CASE ~(openCount > 0) BY <1>1, <2>2
  <2>. QED BY <2>1, <2>2
<1>6. \A d \in Clients : cli'[d] # "join" /\ adp' # d
  BY <1>1, FendAssumption DEF RefInv
<1>7. cli' \in [Clients -> CliStates]
  BY <1>1 DEF RefInv, CliStates
<1>. QED BY <1>4, <1>5, <1>6, <1>7 DEF RefInv, CliStates

LEMMA CloseBeginKeepsRefInv ==
  ASSUME RefInv, NEW c \in Clients, CloseBegin(c)
  PROVE  RefInv'
<1>1. /\ cli[c] = "in" /\ adp = Nil /\ pc' = pc
      /\ \/ /\ openCount = 1 /\ openCount' = openCount
            /\ adp' = c /\ cli' = [cli EXCEPT ![c] = "join"]
         \/ /\ openCount # 1 /\ openCount' = openCount - 1
            /\ adp' = adp /\ cli' = [cli EXCEPT ![c] = "out"]
            /\ enableThread' = enableThread
  BY DEF CloseBegin, thrVars
<1>2. cli' \in [Clients -> CliStates]
  BY <1>1 DEF RefInv, CliStates
<1>3. c \in Holders BY <1>1 DEF Holders
<1>4. \A d \in Clients : cli[d] # "join" /\ adp # d
  BY <1>1, FendAssumption DEF RefInv
<1>5. CASE openCount = 1
  <2>1. /\ openCount' = openCount /\ adp' = c /\ cli' = [cli EXCEPT ![c] = "join"]
    BY <1>1, <1>5
  <2>2. Holders' = Holders BY <1>1, <2>1 DEF Holders, RefInv
  <2>3. PICK x : Holders = {x}
    BY <1>5, HoldersFinite, FS_Singleton DEF RefInv
  <2>4. Holders' = {c} BY <1>3, <2>2, <2>3
  <2>5. \A d \in Clients : cli'[d] = "join" <=> d = c
    BY <1>4, <2>1 DEF RefInv
  <2>6. openCount' = Cardinality(Holders') /\ (pc' = "none" <=> openCount' = 0)
    BY <1>1, <2>1, <2>2 DEF RefInv
  <2>7. adp' # Nil BY <2>1, FendAssumption
  <2>. QED BY <1>2, <2>1, <2>4, <2>5, <2>6, <2>7 DEF RefInv, CliStates
<1>6. CASE openCount # 1
  <2>1. /\ openCount' = openCount - 1 /\ adp' = adp
        /\ cli' = [cli EXCEPT ![c] = "out"] /\ enableThread' = enableThread
    BY <1>1, <1>6
  <2>2. Holders' = Holders \ {c} BY <2>1 DEF Holders, RefInv
  <2>3. /\ Cardinality(Holders') = Cardinality(Holders) - 1
        /\ Cardinality(Holders) \in Nat
    BY <1>3, <2>2, HoldersFinite, FS_RemoveElement, FS_CardinalityType
  <2>4. Cardinality(Holders) # 0
    BY <1>3, HoldersFinite, FS_EmptySet
  <2>5. openCount' = Cardinality(Holders') /\ openCount # 0 /\ openCount' # 0
    BY <1>6, <2>1, <2>3, <2>4 DEF RefInv
  <2>6. \A d \in Clients : cli'[d] # "join" /\ adp' # d
    BY <1>4, <2>1 DEF RefInv
  <2>7. pc' = "none" <=> openCount' = 0
    BY <1>1, <2>5 DEF RefInv
  <2>8. enableThread' BY <1>1, <2>1, <2>5 DEF RefInv
  <2>. QED BY <1>2, <2>5, <2>6, <2>7, <2>8 DEF RefInv, CliStates
<1>. QED BY <1>5, <1>6

LEMMA CloseEndKeepsRefInv ==
  ASSUME RefInv, NEW c \in Clients, CloseEnd(c)
  PROVE  RefInv'
<1>1. /\ cli[c] = "join" /\ openCount' = openCount - 1
      /\ cli' = [cli EXCEPT ![c] = "out"] /\ pc' = "none" /\ adp' = Nil
  BY DEF CloseEnd
<1>2. Holders = {c} BY <1>1 DEF RefInv
<1>3. openCount = 1 BY <1>2, FS_Singleton DEF RefInv
<1>4. Holders' = {} BY <1>1, <1>2 DEF Holders, RefInv
<1>5. Cardinality(Holders') = 0 BY <1>4, FS_EmptySet
<1>6. cli' \in [Clients -> CliStates]
  BY <1>1 DEF RefInv, CliStates
<1>7. \A d \in Clients : cli'[d] # "join" /\ adp' # d
  BY <1>1, <1>4, FendAssumption DEF Holders
<1>8. openCount' = 0 BY <1>1, <1>3
<1>. QED BY <1>1, <1>5, <1>6, <1>7, <1>8 DEF RefInv, CliStates

(* The monitor thread and the code it runs.                                *)
LEMMA ThreadKeepsRefInv ==
  ASSUME RefInv, ThreadStep \/ CallbackCall \/ \E c \in Clients : LockCb(c)
  PROVE  RefInv'
<1>1. UNCHANGED <<openCount, adp, enableThread, cli>>
  BY DEF ThreadStep, CallbackCall, LockCb, cliVars
<1>2. pc' = "none" <=> pc = "none"
  <2>1. CASE ThreadStep
    BY <2>1 DEF ThreadStep, CheckEnable, WaitEvent, CheckAgain, SetRunCb, CallCallback,
       Invoke, CallbackReturn, Unwind, SignalBegin, SignalEnd, ClearRunCb, Broadcast,
       Goto
  <2>2. CASE CallbackCall BY <2>2 DEF CallbackCall, thrVars
  <2>3. CASE \E c \in Clients : LockCb(c) BY <2>3 DEF LockCb, Invoke, thrVars
  <2>. QED BY <2>1, <2>2, <2>3
<1>. QED BY <1>1, <1>2, OtherStepKeepsRefInv DEF RefInv, CliStates

LEMMA ClientKeepsRefInv ==
  ASSUME RefInv, NEW c \in Clients, ClientStep(c)
  PROVE  RefInv'
<1>1. CASE Open(c) \/ CloseBegin(c) \/ CloseEnd(c)
  BY <1>1, OpenKeepsRefInv, CloseBeginKeepsRefInv, CloseEndKeepsRefInv
<1>2. CASE ClientCall(c)
  BY <1>2, OtherStepKeepsRefInv DEF ClientCall, thrVars, cliVars, RefInv, CliStates
<1>3. CASE SetCallbackCall(c) \/ LockCall(c)
  BY <1>3, OtherStepKeepsRefInv DEF SetCallbackCall, LockCall, devVars, thrVars, RefInv,
     CliStates
<1>4. CASE SetCallback(c) \/ LockEnter(c) \/ LockReturn(c) \/ SpuriousWake(c)
  BY <1>4, OtherStepKeepsRefInv DEF SetCallback, LockEnter, LockReturn, SpuriousWake,
     devVars, thrVars, RefInv, CliStates
<1>. QED BY <1>1, <1>2, <1>3, <1>4 DEF ClientStep

LEMMA RefInvariant == Spec => []RefInv
<1>1. RefInv /\ [Next]_vars => RefInv'
  <2>. SUFFICES ASSUME RefInv, [Next]_vars PROVE RefInv'
    OBVIOUS
  <2>1. CASE UNCHANGED vars
    BY <2>1, OtherStepKeepsRefInv DEF vars, devVars, thrVars, cliVars, RefInv, CliStates
  <2>. QED BY <2>1, ThreadKeepsRefInv, ClientKeepsRefInv DEF Next
<1>. QED BY <1>1, InitRefInv, PTL DEF Spec

(* The first AM_FEND_Open finds no client inside of a call.                *)
LEMMA NobodyInClosedDevice ==
  ASSUME RefInv, ~(openCount > 0), NEW c \in Clients
  PROVE  cli[c] = "out"
<1>1. Cardinality(Holders) \in Nat BY HoldersFinite, FS_CardinalityType
<1>2. Cardinality(Holders) = 0 BY <1>1 DEF RefInv
<1>3. Holders = {} BY <1>2, HoldersFinite, FS_EmptySet
<1>. QED BY <1>3 DEF Holders

-----------------------------------------------------------------------------
(* Types, the extent of FEND_FL_RUN_CB, and wake-ups.                      *)

LEMMA InitWakeInv == Init => WakeInv
<1>. SUFFICES ASSUME Init PROVE WakeInv
  OBVIOUS
<1>0. openCount \in Int BY DEF Init
<1>1. /\ enableThread \in BOOLEAN /\ runCb \in BOOLEAN /\ lockFlag \in BOOLEAN
      /\ enableCb \in BOOLEAN /\ nested \in BOOLEAN /\ crashed \in BOOLEAN
  BY DEF Init
<1>2. /\ cb = Nil /\ adp = Nil /\ tuned = Nil /\ pc = "none" /\ evt = Nil
      /\ calling = Nil /\ blocked = {} /\ silent = {}
  BY DEF Init
<1>3. /\ cli \in [Clients -> {"out", "in", "setcb", "setwait", "lock", "locked", "join"}]
      /\ newCb \in [Clients -> Data \cup {Nil}]
      /\ para \in [Clients -> Params \cup {Nil}]
      /\ old \in [Clients -> Callbacks]
      /\ stat \in [Clients -> Events \cup {Nil}]
  BY DEF Init, Callbacks
<1>4. TypeOK BY <1>0, <1>1, <1>2, <1>3 DEF TypeOK, Callbacks
<1>. QED BY <1>2, <1>4 DEF WakeInv, FlagCovers, NoLostWakeup

LEMMA ThreadKeepsWakeInv ==
  ASSUME WakeInv, ThreadStep
  PROVE  WakeInv'
<1>. USE DEF WakeInv
<1>1. UNCHANGED <<openCount, enableThread, lockFlag, cb, enableCb, adp, tuned,
                  cli, newCb, para, old, stat, crashed, silent>>
  BY DEF ThreadStep
<1>2. blocked' \in {blocked, {}} /\ runCb' \in BOOLEAN /\ nested' \in BOOLEAN
  BY DEF ThreadStep, TypeOK, CheckEnable, WaitEvent, CheckAgain, SetRunCb,
     CallCallback, CallbackReturn, Unwind, SignalBegin, SignalEnd, ClearRunCb, Broadcast
<1>3. evt' \in Events \cup {Nil} /\ calling' \in Callbacks
  BY DEF ThreadStep, TypeOK, CheckEnable, WaitEvent, CheckAgain, SetRunCb,
     CallCallback, Invoke, CallbackReturn, Unwind, SignalBegin, SignalEnd, ClearRunCb,
     Broadcast, Callbacks
<1>4. pc' \in {"none", "check", "wait", "again", "flag", "run", "cb", "lockcb",
               "unwind", "signal", "evt", "clear", "wake", "exited"}
  BY DEF ThreadStep, TypeOK, CheckEnable, WaitEvent, CheckAgain, SetRunCb,
     CallCallback, Invoke, CallbackReturn, Unwind, SignalBegin, SignalEnd, ClearRunCb,
     Broadcast, Goto
<1>5. TypeOK' BY <1>1, <1>2, <1>3, <1>4 DEF TypeOK
<1>6. FlagCovers'
  BY DEF ThreadStep, FlagCovers, CheckEnable, WaitEvent, CheckAgain, SetRunCb,
     CallCallback, Invoke, CallbackReturn, Unwind, SignalBegin, SignalEnd, ClearRunCb,
     Broadcast, Goto
<1>7. NoLostWakeup'
  <2>1. CASE Broadcast BY <2>1 DEF Broadcast, NoLostWakeup
  <2>2. CASE Unwind
    BY <1>1, <2>2 DEF Unwind, Goto, NoLostWakeup, FlagCovers
  <2>3. CASE blocked' = blocked /\ ~Broadcast
    <3>1. (runCb \/ pc = "wake") => (runCb' \/ pc' = "wake")
      BY <2>3 DEF ThreadStep, CheckEnable, WaitEvent, CheckAgain, SetRunCb,
         CallCallback, Invoke, CallbackReturn, Unwind, SignalBegin, SignalEnd,
         ClearRunCb, Goto
    <3>. QED BY <1>1, <2>3, <3>1 DEF NoLostWakeup
  <2>. QED BY <2>1, <2>2, <2>3 DEF ThreadStep
<1>. QED BY <1>5, <1>6, <1>7

(* fend_lock_cb clears FEND_FL_LOCK while FEND_FL_RUN_CB is still set.     *)
LEMMA LockCbKeepsWakeInv ==
  ASSUME WakeInv, NEW c \in Clients, LockCb(c)
  PROVE  WakeInv'
<1>. USE DEF WakeInv
<1>1. UNCHANGED <<openCount, enableThread, runCb, cb, enableCb, adp, tuned, cli,
                  blocked, newCb, para, old, silent>>
  BY DEF LockCb
<1>2. evt' = evt /\ crashed' \in BOOLEAN /\ nested' \in BOOLEAN /\ lockFlag' \in BOOLEAN
  BY DEF LockCb, TypeOK, thrVars
<1>3. stat' \in [Clients -> Events \cup {Nil}] /\ calling' \in Callbacks
  BY DEF LockCb, Invoke, TypeOK, thrVars, Callbacks
<1>4. pc' \in {"lockcb", "cb", "unwind"} /\ runCb
  BY DEF LockCb, Invoke, thrVars, FlagCovers
<1>5. TypeOK' BY <1>1, <1>2, <1>3, <1>4 DEF TypeOK
<1>. QED BY <1>1, <1>4, <1>5 DEF FlagCovers, NoLostWakeup

LEMMA CallbackKeepsWakeInv ==
  ASSUME WakeInv, CallbackCall
  PROVE  WakeInv'
<1>. USE DEF WakeInv
<1>1. UNCHANGED <<openCount, enableThread, runCb, lockFlag, adp, thrVars,
                  cliVars, crashed>>
  BY DEF CallbackCall
<1>2. enableCb' \in BOOLEAN /\ tuned' \in Params \cup {Nil}
  BY DEF CallbackCall, SetPara, SetActionCallback, TypeOK
<1>3. cb' \in Callbacks /\ silent' \subseteq Data
  BY DEF CallbackCall, SetPara, SetActionCallback, TypeOK, Callbacks
<1>4. TypeOK' BY <1>1, <1>2, <1>3 DEF TypeOK, thrVars, cliVars
<1>. QED BY <1>1, <1>4 DEF FlagCovers, NoLostWakeup, thrVars, cliVars

(* The first AM_FEND_Open clears the flags: nobody waits for them then.    *)
LEMMA OpenKeepsWakeInv ==
  ASSUME WakeInv, RefInv, NEW c \in Clients, Open(c)
  PROVE  WakeInv'
<1>. USE DEF WakeInv
<1>1. /\ cli[c] = "out" /\ cli' = [cli EXCEPT ![c] = "in"]
      /\ UNCHANGED <<cb, adp, tuned, evt, calling, nested, blocked, newCb, para, old,
                     stat, crashed, silent>>
  BY DEF Open
<1>2. openCount' \in Int BY DEF Open, TypeOK
<1>3. \/ UNCHANGED <<enableThread, runCb, lockFlag, enableCb, pc>>
      \/ /\ enableThread' = TRUE /\ enableCb' = TRUE
         /\ runCb' = FALSE /\ lockFlag' = FALSE /\ pc' = "check"
  BY DEF Open
<1>4. /\ enableThread' \in BOOLEAN /\ runCb' \in BOOLEAN /\ lockFlag' \in BOOLEAN
      /\ enableCb' \in BOOLEAN
  BY <1>3 DEF TypeOK
<1>5. c \notin blocked BY <1>1 DEF TypeOK
<1>6. TypeOK' BY <1>1, <1>2, <1>3, <1>4, <1>5 DEF TypeOK
<1>7. FlagCovers' BY <1>3 DEF FlagCovers
<1>8. NoLostWakeup'
  <2>1. CASE openCount > 0
    BY <1>1, <1>5, <2>1 DEF Open, NoLostWakeup, TypeOK
  <2>2. CASE ~(openCount > 0)
    <3>1. blocked = {} BY <2>2, NobodyInClosedDevice DEF TypeOK
    <3>. QED BY <1>1, <3>1 DEF NoLostWakeup
  <2>. QED BY <2>1, <2>2
<1>. QED BY <1>6, <1>7, <1>8

(* AM_FEND_Close; when the thread has ended no client waits.               *)
LEMMA CloseKeepsWakeInv ==
  ASSUME WakeInv, RefInv, NEW c \in Clients, CloseBegin(c) \/ CloseEnd(c)
  PROVE  WakeInv'
<1>. USE DEF WakeInv
<1>1. CASE CloseBegin(c)
  <2>1. /\ cli[c] = "in" /\ cli' \in {[cli EXCEPT ![c] = "join"], [cli EXCEPT ![c] = "out"]}
        /\ UNCHANGED <<runCb, lockFlag, cb, tuned, thrVars, blocked, newCb, para, old,
                       stat, crashed, silent>>
    BY <1>1 DEF CloseBegin
  <2>2. openCount' \in Int BY <1>1 DEF CloseBegin, TypeOK
  <2>3. enableCb' \in BOOLEAN /\ enableThread' \in BOOLEAN /\ adp' \in Clients \cup {Nil}
    BY <1>1 DEF CloseBegin, TypeOK
  <2>4. c \notin blocked BY <2>1 DEF TypeOK
  <2>5. TypeOK' BY <2>1, <2>2, <2>3, <2>4 DEF TypeOK, thrVars
  <2>. QED BY <2>1, <2>4, <2>5 DEF FlagCovers, NoLostWakeup, TypeOK, thrVars
<1>2. CASE CloseEnd(c)
  <2>1. /\ cli[c] = "join" /\ cli' = [cli EXCEPT ![c] = "out"]
        /\ adp' = Nil /\ pc' = "none" /\ tuned' = Nil /\ evt' = Nil
        /\ UNCHANGED <<enableThread, runCb, lockFlag, cb, enableCb, calling, nested,
                       blocked, newCb, para, old, stat, crashed, silent>>
    BY <1>2 DEF CloseEnd
  <2>2. openCount' \in Int BY <1>2 DEF CloseEnd, TypeOK
  <2>3. blocked = {} BY <2>1 DEF TypeOK, RefInv, Holders
  <2>4. TypeOK' BY <2>1, <2>2, <2>3 DEF TypeOK, Callbacks
  <2>. QED BY <2>1, <2>3, <2>4 DEF FlagCovers, NoLostWakeup
<1>. QED BY <1>1, <1>2

LEMMA ClientCallKeepsWakeInv ==
  ASSUME WakeInv, NEW c \in Clients,
         ClientCall(c) \/ SetCallbackCall(c) \/ LockCall(c) \/ SpuriousWake(c)
  PROVE  WakeInv'
<1>. USE DEF WakeInv
<1>1. CASE ClientCall(c)
  <2>1. enableCb' \in BOOLEAN /\ tuned' \in Params \cup {Nil}
    BY <1>1 DEF ClientCall, SetPara, SetActionCallback, TypeOK
  <2>. QED BY <1>1, <2>1 DEF ClientCall, SetPara, SetActionCallback, TypeOK, FlagCovers,
         NoLostWakeup, thrVars, cliVars
<1>2. CASE SetCallbackCall(c)
  <2>1. c \notin blocked BY <1>2 DEF SetCallbackCall, TypeOK
  <2>. QED BY <1>2, <2>1 DEF SetCallbackCall, TypeOK, FlagCovers, NoLostWakeup, devVars,
         thrVars
<1>3. CASE LockCall(c)
  <2>1. c \notin blocked BY <1>3 DEF LockCall, TypeOK
  <2>. QED BY <1>3, <2>1 DEF LockCall, TypeOK, FlagCovers, NoLostWakeup, devVars, thrVars
<1>4. CASE SpuriousWake(c)
  BY <1>4 DEF SpuriousWake, TypeOK, FlagCovers, NoLostWakeup, devVars, thrVars
<1>. QED BY <1>1, <1>2, <1>3, <1>4

(* The calls that wait: each waits only under a flag that is set.          *)
LEMMA WaitingCallKeepsWakeInv ==
  ASSUME WakeInv, NEW c \in Clients, SetCallback(c) \/ LockEnter(c) \/ LockReturn(c)
  PROVE  WakeInv'
<1>. USE DEF WakeInv
<1>1. UNCHANGED <<openCount, enableThread, runCb, enableCb, adp, thrVars, newCb, para,
                  stat, crashed>>
  BY DEF SetCallback, LockEnter, LockReturn
<1>2. CASE SetCallback(c)
  <2>1. cb' \in Callbacks /\ silent' \subseteq Data
    BY <1>2 DEF SetCallback, ReplaceCallback, TypeOK, Callbacks
  <2>2. /\ cli' \in [Clients -> {"out", "in", "setcb", "setwait", "lock", "locked", "join"}]
        /\ blocked' \subseteq {d \in Clients : cli'[d] \in {"setwait", "lock", "locked"}}
    BY <1>2 DEF SetCallback, TypeOK
  <2>3. TypeOK' BY <1>1, <1>2, <2>1, <2>2 DEF SetCallback, TypeOK, thrVars
  <2>. QED BY <1>1, <1>2, <2>3 DEF SetCallback, MustWait, FlagCovers, NoLostWakeup,
         TypeOK, thrVars
<1>3. CASE LockEnter(c)
  <2>0. lockFlag' \in BOOLEAN BY <1>3 DEF LockEnter, TypeOK
  <2>1. /\ cb' \in Callbacks /\ old' \in [Clients -> Callbacks]
        /\ tuned' \in Params \cup {Nil}
    BY <1>3 DEF LockEnter, TypeOK, Callbacks
  <2>2. /\ cli' \in [Clients -> {"out", "in", "setcb", "setwait", "lock", "locked", "join"}]
        /\ blocked' \subseteq {d \in Clients : cli'[d] \in {"setwait", "lock", "locked"}}
    BY <1>3 DEF LockEnter, TypeOK
  <2>3. TypeOK' BY <1>1, <1>3, <2>0, <2>1, <2>2 DEF LockEnter, TypeOK, thrVars
  <2>. QED BY <1>1, <1>3, <2>3 DEF LockEnter, FlagCovers, NoLostWakeup, TypeOK, thrVars
<1>4. CASE LockReturn(c)
  <2>1. cb' \in Callbacks BY <1>4 DEF LockReturn, TypeOK
  <2>2. /\ cli' \in [Clients -> {"out", "in", "setcb", "setwait", "lock", "locked", "join"}]
        /\ blocked' \subseteq {d \in Clients : cli'[d] \in {"setwait", "lock", "locked"}}
    BY <1>4 DEF LockReturn, TypeOK
  <2>3. TypeOK' BY <1>1, <1>4, <2>1, <2>2 DEF LockReturn, TypeOK, thrVars
  <2>. QED BY <1>1, <1>4, <2>3 DEF LockReturn, FlagCovers, NoLostWakeup, TypeOK, thrVars
<1>. QED BY <1>2, <1>3, <1>4

LEMMA WakeInvariant == Spec => []WakeInv
<1>1. WakeInv /\ RefInv /\ [Next]_vars => WakeInv'
  <2>. SUFFICES ASSUME WakeInv, RefInv, [Next]_vars PROVE WakeInv'
    OBVIOUS
  <2>1. CASE UNCHANGED vars
    BY <2>1 DEF vars, devVars, thrVars, cliVars, WakeInv, TypeOK, FlagCovers,
       NoLostWakeup
  <2>. QED BY <2>1, ThreadKeepsWakeInv, LockCbKeepsWakeInv, CallbackKeepsWakeInv,
         OpenKeepsWakeInv, CloseKeepsWakeInv, ClientCallKeepsWakeInv,
         WaitingCallKeepsWakeInv DEF Next, ClientStep
<1>. QED BY <1>1, InitWakeInv, RefInvariant, PTL DEF Spec

(* Every variable keeps its type: the monitor thread calls nothing but a   *)
(* registered callback or fend_lock_cb.                                    *)
THEOREM Typing == Spec => []TypeOK
<1>1. WakeInv => TypeOK BY DEF WakeInv
<1>. QED BY <1>1, WakeInvariant, PTL

(* No client is left asleep in AM_FEND_SetCallback or AM_FEND_Lock, with   *)
(* any number of clients that call them at once.                           *)
THEOREM NoWakeupIsLost == Spec => []NoLostWakeup
<1>1. WakeInv => NoLostWakeup BY DEF WakeInv
<1>. QED BY <1>1, WakeInvariant, PTL

-----------------------------------------------------------------------------
(* The frames of AM_FEND_Lock, when only one client calls it.              *)

LEMMA NoClientIsData == \A d \in Data \cup {Nil} : d \notin Clients
BY FendAssumption

LEMMA ThreadKeepsFrameInv ==
  ASSUME FrameInv, ThreadStep
  PROVE  FrameInv'
<1>1. UNCHANGED <<cb, cli, old, crashed>> BY DEF ThreadStep
<1>2. CASE CallCallback
  BY <1>1, <1>2, NoClientIsData DEF CallCallback, Invoke, FrameInv
<1>3. CASE ~CallCallback
  <2>1. pc' # "lockcb"
    BY <1>3 DEF ThreadStep, CheckEnable, WaitEvent, CheckAgain, SetRunCb,
       CallbackReturn, Unwind, SignalBegin, SignalEnd, ClearRunCb, Broadcast, Goto
  <2>. QED BY <1>1, <2>1 DEF FrameInv
<1>. QED BY <1>2, <1>3

(* The frame is alive when fend_lock_cb uses it, and the callback it       *)
(* chains to is not another frame.                                         *)
LEMMA LockCbKeepsFrameInv ==
  ASSUME FrameInv, NEW c \in Clients, LockCb(c)
  PROVE  FrameInv'
<1>1. UNCHANGED <<cb, cli, old>> BY DEF LockCb
<1>2. cli[c] = "locked" /\ ~crashed BY DEF LockCb, FrameInv
<1>3. crashed' = crashed BY <1>2 DEF LockCb
<1>4. Nil \notin Clients /\ old[c] \notin Clients BY NoClientIsData DEF FrameInv
<1>5. pc' # "lockcb" BY <1>2, <1>4 DEF LockCb, Invoke
<1>. QED BY <1>1, <1>2, <1>3, <1>5 DEF FrameInv

LEMMA CallbackKeepsFrameInv ==
  ASSUME FrameInv, CallbackCall
  PROVE  FrameInv'
<1>1. UNCHANGED <<pc, calling, cli, old, crashed>>
  BY DEF CallbackCall, thrVars, cliVars
<1>2. cb' = cb \/ cb' \notin Clients
  BY NoClientIsData DEF CallbackCall, SetPara, SetActionCallback
<1>. QED BY <1>1, <1>2 DEF FrameInv

LEMMA LockKeepsFrameInv ==
  ASSUME OneLocks, FrameInv, WakeInv, NEW c \in Clients,
         LockCall(c) \/ LockEnter(c) \/ LockReturn(c)
  PROVE  FrameInv'
<1>. USE DEF WakeInv, TypeOK
<1>1. UNCHANGED <<pc, calling, crashed>>
  BY DEF LockCall, LockEnter, LockReturn, thrVars
<1>2. CASE LockCall(c)
  BY <1>1, <1>2 DEF LockCall, FrameInv, devVars
<1>3. CASE LockEnter(c)
  <2>1. "lock" \in Ops[c] /\ cb # c BY <1>3 DEF LockEnter, FrameInv
  <2>2. cb \notin Clients BY <2>1 DEF FrameInv, OneLocks
  <2>3. CASE runCb
    <3>1. UNCHANGED <<cb, old, cli>> BY <1>3, <2>3 DEF LockEnter
    <3>. QED BY <1>1, <3>1 DEF FrameInv
  <2>4. CASE ~runCb
    <3>1. pc # "lockcb" BY <2>4 DEF FlagCovers
    <3>2. /\ old' = [old EXCEPT ![c] = cb]
          /\ \/ cb' = c /\ cli' = [cli EXCEPT ![c] = "locked"]
             \/ cb' = cb /\ cli' = [cli EXCEPT ![c] = "in"]
      BY <1>3, <2>4 DEF LockEnter
    <3>. QED BY <1>1, <2>1, <2>2, <3>1, <3>2 DEF FrameInv
  <2>. QED BY <2>3, <2>4
<1>4. CASE LockReturn(c)
  <2>1. CASE runCb \/ lockFlag
    <3>1. UNCHANGED <<cb, cli, old>> BY <1>4, <2>1 DEF LockReturn
    <3>. QED BY <1>1, <3>1 DEF FrameInv
  <2>2. CASE ~(runCb \/ lockFlag)
    <3>1. pc # "lockcb" BY <2>2 DEF FlagCovers
    <3>2. cb' = old[c] /\ cli' = [cli EXCEPT ![c] = "in"] /\ old' = old
      BY <1>4, <2>2 DEF LockReturn
    <3>. QED BY <1>1, <3>1, <3>2 DEF FrameInv
  <2>. QED BY <2>1, <2>2
<1>. QED BY <1>2, <1>3, <1>4

LEMMA OtherCallKeepsFrameInv ==
  ASSUME FrameInv, WakeInv, NEW c \in Clients,
         \/ Open(c) \/ CloseBegin(c) \/ CloseEnd(c) \/ ClientCall(c)
         \/ SetCallbackCall(c) \/ SetCallback(c) \/ SpuriousWake(c)
  PROVE  FrameInv'
<1>. USE DEF WakeInv, TypeOK
<1>1. UNCHANGED <<old, crashed, calling>>
  BY DEF Open, CloseBegin, CloseEnd, ClientCall, SetCallbackCall, SetCallback,
     SpuriousWake, thrVars, cliVars, devVars
<1>2. pc' = pc \/ pc' # "lockcb"
  BY DEF Open, CloseBegin, CloseEnd, ClientCall, SetCallbackCall, SetCallback,
     SpuriousWake, thrVars, cliVars, devVars
<1>3. cb' = cb \/ cb' \notin Clients
  BY NoClientIsData DEF Open, CloseBegin, CloseEnd, ClientCall, SetPara,
     SetActionCallback, SetCallbackCall, SetCallback, ReplaceCallback, SpuriousWake,
     thrVars, cliVars, devVars
<1>4. \/ cli' = cli
      \/ /\ cli[c] \notin {"lock", "locked"}
         /\ \E s \in {"out", "in", "setcb", "setwait", "join"} :
              cli' = [cli EXCEPT ![c] = s]
  BY DEF Open, CloseBegin, CloseEnd, ClientCall, SetCallbackCall, SetCallback,
     SpuriousWake, thrVars, cliVars, devVars
<1>. QED BY <1>1, <1>2, <1>3, <1>4 DEF FrameInv

LEMMA FrameInvariant ==
  ASSUME OneLocks
  PROVE  Spec => []FrameInv
<1>1. Init => FrameInv BY NoClientIsData DEF Init, FrameInv
<1>2. FrameInv /\ WakeInv /\ [Next]_vars => FrameInv'
  <2>. SUFFICES ASSUME FrameInv, WakeInv, [Next]_vars PROVE FrameInv'
    OBVIOUS
  <2>1. CASE UNCHANGED vars
    BY <2>1 DEF vars, devVars, thrVars, cliVars, FrameInv
  <2>2. ASSUME NEW c \in Clients, ClientStep(c) PROVE FrameInv'
    BY <2>2, OneLocks, LockKeepsFrameInv, OtherCallKeepsFrameInv DEF ClientStep
  <2>. QED BY <2>1, <2>2, ThreadKeepsFrameInv, LockCbKeepsFrameInv,
         CallbackKeepsFrameInv DEF Next
<1>. QED BY <1>1, <1>2, WakeInvariant, PTL DEF Spec

(* When only one client calls AM_FEND_Lock, the monitor thread never uses  *)
(* a frame whose call has returned, whatever the other clients and the     *)
(* callbacks do meanwhile.                                                 *)
THEOREM FramesAlive ==
  ASSUME OneLocks
  PROVE  Spec => []FrameAlive
<1>1. FrameInv => FrameAlive BY DEF FrameInv, FrameAlive
<1>. QED BY <1>1, FrameInvariant, PTL

-----------------------------------------------------------------------------
(* The status AM_FEND_Lock returns, when only one client calls it.         *)

LEMMA ThreadKeepsStatusInv ==
  ASSUME StatusInv, ThreadStep
  PROVE  StatusInv'
<1>1. UNCHANGED <<cli, lockFlag, stat, para>> BY DEF ThreadStep
<1>2. pc' \in {"run", "lockcb"} => evt' # Nil
  BY DEF ThreadStep, StatusInv, CheckEnable, WaitEvent, CheckAgain, SetRunCb,
     CallCallback, Invoke, CallbackReturn, Unwind, SignalBegin, SignalEnd, ClearRunCb,
     Broadcast, Goto
<1>. QED BY <1>1, <1>2 DEF StatusInv

(* FEND_FL_LOCK is cleared for the one client that waits for it, after its *)
(* status has been set.                                                    *)
LEMMA LockCbKeepsStatusInv ==
  ASSUME OneLocks, FrameInv, WakeInv, StatusInv, NEW c \in Clients, LockCb(c)
  PROVE  StatusInv'
<1>1. UNCHANGED <<cli, para>> /\ evt' = evt /\ evt # Nil /\ pc = "lockcb"
  BY DEF LockCb, StatusInv, thrVars
<1>2. cli[c] = "locked" BY DEF LockCb, FrameInv
<1>3. \A d \in Clients : cli[d] = "locked" => d = c
  BY <1>2 DEF FrameInv, OneLocks
<1>4. CASE evt.para = para[c] /\ evt.status
  <2>1. stat' = [stat EXCEPT ![c] = evt] BY <1>2, <1>4 DEF LockCb
  <2>2. stat'[c] = evt BY <2>1 DEF WakeInv, TypeOK
  <2>. QED BY <1>1, <1>3, <1>4, <2>2 DEF StatusInv
<1>5. CASE ~(evt.para = para[c] /\ evt.status)
  <2>1. UNCHANGED <<lockFlag, stat>> BY <1>2, <1>5 DEF LockCb
  <2>. QED BY <1>1, <2>1 DEF StatusInv
<1>. QED BY <1>4, <1>5

LEMMA ClientKeepsStatusInv ==
  ASSUME WakeInv, RefInv, StatusInv, NEW c \in Clients, ClientStep(c)
  PROVE  StatusInv'
<1>. USE DEF WakeInv, TypeOK
<1>1. CASE Open(c)
  <2>1. UNCHANGED <<evt, stat, para>> /\ cli' = [cli EXCEPT ![c] = "in"]
    BY <1>1 DEF Open
  <2>2. CASE openCount > 0
    <3>1. UNCHANGED <<pc, lockFlag>> BY <1>1, <2>2 DEF Open
    <3>. QED BY <2>1, <3>1 DEF StatusInv
  <2>3. CASE ~(openCount > 0)
    <3>1. pc' = "check" BY <1>1, <2>3 DEF Open
    <3>2. \A d \in Clients : cli'[d] # "locked"
      BY <2>1, <2>3, NobodyInClosedDevice
    <3>. QED BY <3>1, <3>2 DEF StatusInv
  <2>. QED BY <2>2, <2>3
<1>2. CASE CloseBegin(c) \/ CloseEnd(c)
  <2>1. UNCHANGED <<lockFlag, stat, para>> /\ (pc' = "none" \/ UNCHANGED <<pc, evt>>)
    BY <1>2 DEF CloseBegin, CloseEnd, thrVars
  <2>2. \E s \in {"join", "out"} : cli' = [cli EXCEPT ![c] = s]
    BY <1>2 DEF CloseBegin, CloseEnd
  <2>. QED BY <2>1, <2>2 DEF StatusInv
<1>3. CASE ClientCall(c) \/ SetCallbackCall(c) \/ SetCallback(c) \/ SpuriousWake(c)
  <2>1. UNCHANGED <<lockFlag, stat, para, pc, evt>>
    BY <1>3 DEF ClientCall, SetCallbackCall, SetCallback, SpuriousWake, devVars,
       thrVars, cliVars
  <2>2. cli' = cli \/ \E s \in {"setcb", "setwait", "in"} : cli' = [cli EXCEPT ![c] = s]
    BY <1>3 DEF ClientCall, SetCallbackCall, SetCallback, SpuriousWake, cliVars
  <2>. QED BY <2>1, <2>2 DEF StatusInv
<1>4. CASE LockCall(c)
  <2>1. UNCHANGED <<lockFlag, pc, evt>> /\ cli' = [cli EXCEPT ![c] = "lock"]
    BY <1>4 DEF LockCall, devVars, thrVars
  <2>2. \A d \in Clients : d # c => stat'[d] = stat[d] /\ para'[d] = para[d]
    BY <1>4 DEF LockCall
  <2>. QED BY <2>1, <2>2 DEF StatusInv
<1>5. CASE LockEnter(c)
  <2>1. UNCHANGED <<stat, para, pc, evt>> BY <1>5 DEF LockEnter, thrVars
  <2>2. lockFlag' \/ (lockFlag' = lockFlag /\ cli' = cli) BY <1>5 DEF LockEnter
  <2>. QED BY <2>1, <2>2 DEF StatusInv
<1>6. CASE LockReturn(c)
  <2>1. UNCHANGED <<lockFlag, stat, para, pc, evt>> BY <1>6 DEF LockReturn, thrVars
  <2>2. cli' = cli \/ cli' = [cli EXCEPT ![c] = "in"] BY <1>6 DEF LockReturn
  <2>. QED BY <2>1, <2>2 DEF StatusInv
<1>. QED BY <1>1, <1>2, <1>3, <1>4, <1>5, <1>6 DEF ClientStep

(* A step that ends the second wait of AM_FEND_Lock finds the flag clear.  *)
LEMMA ReturnFindsFlagClear ==
  ASSUME WakeInv, [Next]_vars, NEW c \in Clients, cli[c] = "locked", cli'[c] = "in"
  PROVE  ~lockFlag
<1>. USE DEF WakeInv, TypeOK
<1>1. cli' # cli OBVIOUS
<1>2. PICK d \in Clients : ClientStep(d)
  BY <1>1 DEF Next, vars, cliVars, ThreadStep, CallbackCall, LockCb
<1>3. CASE d # c
  BY <1>2, <1>3 DEF ClientStep, Open, CloseBegin, CloseEnd, ClientCall,
     SetCallbackCall, SetCallback, LockCall, LockEnter, LockReturn, SpuriousWake, cliVars
<1>4. CASE d = c
  <2>1. LockReturn(c)
    BY <1>1, <1>2, <1>4 DEF ClientStep, Open, CloseBegin, CloseEnd, ClientCall,
       SetCallbackCall, SetCallback, LockCall, LockEnter, SpuriousWake, cliVars
  <2>. QED BY <1>1, <2>1 DEF LockReturn
<1>. QED BY <1>3, <1>4

(* When only one client calls AM_FEND_Lock, a call that returns success    *)
(* returns a status the tuner reported for the parameters of that call.    *)
THEOREM StatusIsForTheCall ==
  ASSUME OneLocks
  PROVE  Spec => LockReturnsStatus
<1>1. Init => StatusInv BY DEF Init, StatusInv
<1>2. StatusInv /\ FrameInv /\ WakeInv /\ RefInv /\ [Next]_vars => StatusInv'
  <2>. SUFFICES ASSUME StatusInv, FrameInv, WakeInv, RefInv, [Next]_vars
                PROVE StatusInv'
    OBVIOUS
  <2>1. CASE UNCHANGED vars
    BY <2>1 DEF vars, devVars, thrVars, cliVars, StatusInv
  <2>2. CASE CallbackCall
    BY <2>2 DEF CallbackCall, thrVars, cliVars, StatusInv
  <2>. QED BY OneLocks, <2>1, <2>2, ThreadKeepsStatusInv, LockCbKeepsStatusInv,
         ClientKeepsStatusInv DEF Next
<1>3. StatusInv /\ WakeInv /\ [Next]_vars =>
        [\A c \in Clients : cli[c] = "locked" /\ cli'[c] = "in"
                              => stat[c] # Nil /\ stat[c].para = para[c]]_vars
  BY ReturnFindsFlagClear DEF StatusInv
<1>. QED BY <1>1, <1>2, <1>3, FrameInvariant, WakeInvariant, RefInvariant, PTL
     DEF Spec, LockReturnsStatus

-----------------------------------------------------------------------------
(* AM_FEND_SetCallback, when nobody calls AM_FEND_Lock.                    *)

LEMMA ThreadKeepsSilentInv ==
  ASSUME SilentInv, ThreadStep \/ \E c \in Clients : LockCb(c)
  PROVE  SilentInv'
<1>. USE DEF SilentInv, ReplacedSilent
<1>1. UNCHANGED <<cb, cli, silent>> BY DEF ThreadStep, LockCb
<1>2. CASE CallCallback
  <2>1. pc' = "cb" => calling' = cb
    BY <1>2, FendAssumption DEF CallCallback, Invoke
  <2>. QED BY <1>1, <2>1
<1>3. CASE ThreadStep /\ ~CallCallback
  <2>1. pc' # "cb"
    BY <1>3 DEF ThreadStep, CheckEnable, WaitEvent, CheckAgain, SetRunCb,
       CallbackReturn, Unwind, SignalBegin, SignalEnd, ClearRunCb, Broadcast, Goto
  <2>. QED BY <1>1, <2>1
<1>4. ASSUME NEW c \in Clients, LockCb(c) PROVE SilentInv'
  <2>1. pc = "lockcb" /\ cli[c] # "locked" BY <1>4 DEF LockCb
  <2>2. pc' = "lockcb" BY <1>4, <2>1 DEF LockCb, thrVars
  <2>. QED BY <1>1, <2>2
<1>. QED BY <1>2, <1>3, <1>4

(* A callback may replace itself or another; the call of it that is under  *)
(* way is not promised to be over.                                         *)
LEMMA CallbackKeepsSilentInv ==
  ASSUME SilentInv, CallbackCall
  PROVE  SilentInv'
<1>. USE DEF SilentInv, ReplacedSilent
<1>1. UNCHANGED <<pc, calling, cli>> BY DEF CallbackCall, thrVars, cliVars
<1>2. \/ UNCHANGED <<cb, silent>>
      \/ \E d \in Data \cup {Nil} :
           /\ cb' = d
           /\ silent' = (silent \cup (({cb} \cap Data) \ {calling})) \ {d}
  BY DEF CallbackCall, SetPara, SetActionCallback
<1>. QED BY <1>1, <1>2, NoClientIsData

(* The callback is replaced while the flag is clear, hence outside of any  *)
(* callback; or while it is replaced by itself.                            *)
LEMMA SetCallbackKeepsSilentInv ==
  ASSUME SilentInv, WakeInv, RefInv, NEW c \in Clients, SetCallback(c)
  PROVE  SilentInv'
<1>. USE DEF SilentInv, ReplacedSilent
<1>1. UNCHANGED <<pc, calling>> /\ newCb[c] \in Data \cup {Nil}
  BY DEF SetCallback, thrVars, WakeInv, TypeOK
<1>2. /\ cli[c] \in {"setcb", "setwait"}
      /\ \/ cli' = [cli EXCEPT ![c] = "setwait"]
         \/ cli' = [cli EXCEPT ![c] = "in"]
  BY DEF SetCallback
<1>3. \A d \in Clients : cli'[d] \notin {"lock", "locked"}
  BY <1>2 DEF RefInv
<1>4. CASE MustWait(c)
  BY <1>1, <1>3, <1>4 DEF SetCallback
<1>5. CASE ~MustWait(c)
  <2>1. /\ cb' = newCb[c]
        /\ silent' = (silent \cup ({cb} \cap Data)) \ {newCb[c]}
    BY <1>5 DEF SetCallback, ReplaceCallback
  <2>2. enableThread
    <3>1. c \in Holders BY <1>2 DEF Holders
    <3>2. openCount # 0
      BY <3>1, HoldersFinite, FS_EmptySet DEF RefInv
    <3>3. \A d \in Clients : cli[d] # "join"
      BY <1>2, <3>1 DEF RefInv
    <3>4. adp = Nil BY <3>3 DEF RefInv, WakeInv, TypeOK
    <3>. QED BY <3>2, <3>4 DEF RefInv
  <2>3. CASE ~runCb
    <3>1. pc # "cb" BY <2>3 DEF WakeInv, FlagCovers
    <3>. QED BY <1>1, <1>3, <2>1, <3>1, NoClientIsData
  <2>4. CASE newCb[c] = cb
    BY <1>1, <1>3, <2>1, <2>4, NoClientIsData
  <2>. QED BY <1>5, <2>2, <2>3, <2>4 DEF MustWait
<1>. QED BY <1>4, <1>5

LEMMA OtherCallKeepsSilentInv ==
  ASSUME NobodyLocks, SilentInv, RefInv, NEW c \in Clients, ClientStep(c),
         ~SetCallback(c)
  PROVE  SilentInv'
<1>. USE DEF SilentInv, ReplacedSilent, RefInv
<1>1. CASE Open(c) \/ CloseBegin(c) \/ CloseEnd(c)
  BY <1>1 DEF Open, CloseBegin, CloseEnd, thrVars
<1>2. CASE ClientCall(c)
  BY <1>2 DEF ClientCall, SetPara, SetActionCallback, thrVars, cliVars
<1>3. CASE SetCallbackCall(c) \/ SpuriousWake(c)
  BY <1>3 DEF SetCallbackCall, SpuriousWake, devVars, thrVars
<1>4. ~(LockCall(c) \/ LockEnter(c) \/ LockReturn(c))
  BY DEF LockCall, LockEnter, LockReturn, NobodyLocks
<1>. QED BY <1>1, <1>2, <1>3, <1>4 DEF ClientStep

(* When nobody calls AM_FEND_Lock, a callback that AM_FEND_SetCallback has *)
(* replaced is not running and is not called again, for any number of      *)
(* clients and whatever the callbacks call.                                *)
THEOREM ReplacedIsSilent ==
  ASSUME NobodyLocks
  PROVE  Spec => []ReplacedSilent
<1>1. Init => SilentInv BY NoClientIsData DEF Init, SilentInv, ReplacedSilent
<1>2. SilentInv /\ WakeInv /\ RefInv /\ [Next]_vars => SilentInv'
  <2>. SUFFICES ASSUME SilentInv, WakeInv, RefInv, [Next]_vars PROVE SilentInv'
    OBVIOUS
  <2>1. CASE UNCHANGED vars
    BY <2>1 DEF vars, devVars, thrVars, cliVars, SilentInv, ReplacedSilent
  <2>2. ASSUME NEW c \in Clients, ClientStep(c) PROVE SilentInv'
    BY <2>2, NobodyLocks, SetCallbackKeepsSilentInv, OtherCallKeepsSilentInv
  <2>. QED BY <2>1, <2>2, ThreadKeepsSilentInv, CallbackKeepsSilentInv DEF Next
<1>3. SilentInv => ReplacedSilent BY DEF SilentInv
<1>. QED BY <1>1, <1>2, <1>3, WakeInvariant, RefInvariant, PTL DEF Spec

-----------------------------------------------------------------------------
(* How far the monitor thread is from its end, when it is told to end.     *)
Closing == \E c \in Clients : cli[c] = "join"

Distance ==
  CASE pc \in {"none", "exited"} -> 0
    [] pc = "check"             -> 1
    [] pc = "wake"              -> 2
    [] pc = "clear"             -> 3
    [] pc = "evt"               -> 4
    [] pc = "signal"            -> 5
    [] pc = "unwind"            -> 6
    [] pc \in {"cb", "lockcb"}  -> 7
    [] pc = "run"               -> 8
    [] pc = "flag"              -> 9
    [] pc = "again"             -> 10
    [] pc = "wait"              -> 11

(* Nobody enables the thread again while am_gAdpLock is held.              *)
CloseInv == Closing => ~enableThread /\ pc # "none"

LEMMA NobodyClosesUnlocked == ASSUME RefInv, adp = Nil PROVE ~Closing
BY FendAssumption DEF RefInv, Closing

LEMMA NextKeepsCloseInv ==
  ASSUME CloseInv, WakeInv, RefInv, RefInv', [Next]_vars PROVE CloseInv'
<1>1. ASSUME UNCHANGED enableThread, pc' # "none" \/ pc' = pc, Closing' => Closing
      PROVE  CloseInv'
  BY <1>1 DEF CloseInv
<1>2. ASSUME adp' = Nil PROVE CloseInv'
  BY <1>2, FendAssumption DEF RefInv, CloseInv, Closing
<1>3. CASE ThreadStep
  <2>1. pc' # "none"
    BY <1>3 DEF ThreadStep, CheckEnable, CheckAgain, SetRunCb, CallCallback, CallbackReturn,
       SignalBegin, SignalEnd, ClearRunCb, WaitEvent, Unwind, Broadcast, Goto, Invoke
  <2>. QED BY <1>1, <1>3, <2>1 DEF ThreadStep, Closing
<1>4. CASE CallbackCall BY <1>1, <1>4 DEF CallbackCall, Closing, thrVars, cliVars
<1>5. ASSUME NEW c \in Clients, LockCb(c) PROVE CloseInv'
  <2>1. pc' # "none" \/ pc' = pc BY <1>5 DEF LockCb, Invoke, thrVars
  <2>. QED BY <1>1, <1>5, <2>1 DEF LockCb, Closing
<1>6. ASSUME NEW c \in Clients, ClientStep(c) PROVE CloseInv'
  <2>1. CASE Open(c) \/ CloseEnd(c) BY <1>2, <2>1 DEF Open, CloseEnd
  <2>2. CASE CloseBegin(c)
    <3>1. CASE openCount = 1
      <4>1. pc # "none" BY <3>1 DEF RefInv
      <4>. QED BY <2>2, <3>1, <4>1 DEF CloseBegin, CloseInv, thrVars
    <3>2. CASE openCount # 1 BY <1>2, <2>2, <3>2 DEF CloseBegin
    <3>. QED BY <3>1, <3>2
  <2>3. CASE ~Open(c) /\ ~CloseEnd(c) /\ ~CloseBegin(c)
    <3>1. UNCHANGED <<enableThread, pc>>
      BY <1>6, <2>3 DEF ClientStep, ClientCall, SetCallbackCall, SetCallback, LockCall,
         LockEnter, LockReturn, SpuriousWake, devVars, thrVars
    <3>2. Closing' => Closing
      BY <1>6, <2>3 DEF ClientStep, ClientCall, SetCallbackCall, SetCallback, LockCall,
         LockEnter, LockReturn, SpuriousWake, cliVars, Closing, WakeInv, TypeOK
    <3>. QED BY <1>1, <3>1, <3>2
  <2>. QED BY <2>1, <2>2, <2>3
<1>7. CASE UNCHANGED vars BY <1>1, <1>7 DEF vars, devVars, thrVars, cliVars, Closing
<1>. QED BY <1>3, <1>4, <1>5, <1>6, <1>7 DEF Next

LEMMA ThreadComesNearer ==
  ASSUME ~enableThread, ThreadStep
  PROVE  Distance' \in Nat /\ Distance' < Distance
<1>. USE DEF Distance, Goto
<1>1. CASE CheckEnable    BY <1>1 DEF CheckEnable
<1>2. CASE CheckAgain     BY <1>2 DEF CheckAgain
<1>3. CASE SetRunCb       BY <1>3 DEF SetRunCb
<1>4. CASE CallCallback   BY <1>4 DEF CallCallback, Invoke
<1>5. CASE CallbackReturn BY <1>5 DEF CallbackReturn
<1>6. CASE SignalBegin    BY <1>6 DEF SignalBegin
<1>7. CASE SignalEnd      BY <1>7 DEF SignalEnd
<1>8. CASE ClearRunCb     BY <1>8 DEF ClearRunCb
<1>9. ASSUME NEW e \in Events \cup {Nil}, WaitEvent(e)
      PROVE  Distance' \in Nat /\ Distance' < Distance
  BY <1>9 DEF WaitEvent
<1>10. CASE Unwind        BY <1>10 DEF Unwind
<1>11. CASE Broadcast     BY <1>11 DEF Broadcast
<1>. QED BY <1>1, <1>2, <1>3, <1>4, <1>5, <1>6, <1>7, <1>8, <1>9, <1>10, <1>11 DEF ThreadStep

(* No step takes the thread further from its end.  A fend_lock_cb finds no *)
(* frame any more: the client that closes is the last one inside.          *)
LEMMA NothingDelays ==
  ASSUME WakeInv, RefInv, CloseInv, Closing, [Next]_vars
  PROVE  Distance' <= Distance
<1>0. PICK n : n = Distance OBVIOUS
<1>1. n \in Nat BY <1>0 DEF Distance, WakeInv, TypeOK
<1>2. ASSUME UNCHANGED pc PROVE Distance' <= Distance
  <2>1. Distance' = Distance BY <1>2 DEF Distance
  <2>. QED BY <1>0, <1>1, <2>1
<1>3. CASE ThreadStep
  <2>1. Distance' \in Nat /\ Distance' < Distance BY <1>3, ThreadComesNearer DEF CloseInv
  <2>. QED BY <1>0, <1>1, <2>1
<1>4. CASE CallbackCall BY <1>2, <1>4 DEF CallbackCall, thrVars
<1>5. ASSUME NEW c \in Clients, LockCb(c) PROVE Distance' <= Distance
  <2>1. cli[c] # "locked" BY DEF Closing, RefInv, Holders
  <2>. QED BY <1>2, <1>5, <2>1 DEF LockCb, thrVars
<1>6. ASSUME NEW c \in Clients, ClientStep(c) PROVE Distance' <= Distance
  <2>1. adp # Nil BY NobodyClosesUnlocked
  <2>2. CASE CloseEnd(c)
    <3>1. Distance' = 0 BY <2>2 DEF CloseEnd, Distance
    <3>. QED BY <1>0, <1>1, <3>1
  <2>3. CASE ~CloseEnd(c)
    BY <1>2, <1>6, <2>1, <2>3 DEF ClientStep, Open, CloseBegin, ClientCall, SetCallbackCall,
       SetCallback, LockCall, LockEnter, LockReturn, SpuriousWake, thrVars
  <2>. QED BY <2>2, <2>3
<1>7. CASE UNCHANGED vars BY <1>2, <1>7 DEF vars, thrVars
<1>. QED BY <1>3, <1>4, <1>5, <1>6, <1>7 DEF Next

(* While a client closes, the thread comes nearer, and nothing takes it    *)
(* further.                                                                *)
CloseNears ==
  [][Closing => /\ Distance' <= Distance
                /\ ThreadStep => Distance' < Distance]_vars

(* Meanwhile it is so many steps away at most, and none at its end only.   *)
CloseBounded == Closing => Distance \in 0 .. 11 /\ (Distance = 0 <=> pc = "exited")

(* AM_FEND_Close joins the monitor thread with am_gAdpLock held: up to the *)
(* end of the thread no call, of a client or of a callback, takes it       *)
(* further from there, and it has eleven steps to make at most.            *)
THEOREM CloseComesNearer == Spec => []CloseBounded /\ CloseNears
<1>1. Init => CloseInv BY DEF Init, CloseInv, Closing
<1>2. CloseInv /\ WakeInv /\ RefInv /\ RefInv' /\ [Next]_vars => CloseInv'
  BY NextKeepsCloseInv
<1>3. WakeInv /\ CloseInv => CloseBounded
  <2>. SUFFICES ASSUME WakeInv, CloseInv PROVE CloseBounded OBVIOUS
  <2>1. pc \in {"none", "check", "wait", "again", "flag", "run", "cb", "lockcb", "unwind",
               "signal", "evt", "clear", "wake", "exited"}
    BY DEF WakeInv, TypeOK
  <2>2. pc = "exited" => Distance = 0 BY DEF Distance
  <2>3. pc \notin {"none", "exited"} => Distance \in 1 .. 11 BY <2>1 DEF Distance
  <2>. QED BY <2>2, <2>3 DEF CloseInv, CloseBounded
<1>4. WakeInv /\ RefInv /\ CloseInv /\ [Next]_vars
        => [Closing => /\ Distance' <= Distance
                       /\ ThreadStep => Distance' < Distance]_vars
  BY NothingDelays, ThreadComesNearer DEF CloseInv
<1>. QED BY <1>1, <1>2, <1>3, <1>4, WakeInvariant, RefInvariant, PTL DEF Spec, CloseNears
=============================================================================
