----------------------------- MODULE DmxProofs -----------------------------
(***************************************************************************)
(* Theorems about Dmx, for every number of filters, clients and callback   *)
(* arguments, with and without ioctl faults and misuse of handles.         *)
(***************************************************************************)
EXTENDS Dmx, FiniteSetTheorems, TLAPS

-----------------------------------------------------------------------------
(* Reference counting.                                                     *)

LEMMA HoldersFinite == IsFiniteSet(Holders)
BY DmxAssumption, FS_Subset DEF Holders

LEMMA InitRefInv == Init => RefInv
<1>. SUFFICES ASSUME Init PROVE RefInv
  OBVIOUS
<1>1. Holders = {} BY DEF Init, Holders
<1>2. Cardinality(Holders) = 0 BY <1>1, FS_EmptySet
<1>. QED BY <1>1, <1>2, DmxAssumption DEF Init, RefInv, ReferenceCount

(* A step that neither opens nor closes the device.                        *)
LEMMA OtherStepKeepsRefInv ==
  ASSUME RefInv, UNCHANGED <<openCount, adp>>,
         pc' = "none" <=> pc = "none",
         cli' \in [Clients -> {"out", "in", "wait", "woken", "join", "src"}],
         \A c \in Clients : /\ cli'[c] = "out" <=> cli[c] = "out"
                            /\ cli'[c] = "join" <=> cli[c] = "join"
  PROVE  RefInv'
<1>1. Holders' = Holders BY DEF Holders
<1>. QED BY <1>1 DEF RefInv, ReferenceCount

LEMMA OpenKeepsRefInv ==
  ASSUME RefInv, NEW c \in Clients, Open(c)
  PROVE  RefInv'
<1>1. /\ cli[c] = "out" /\ adp = Nil /\ adp' = adp
      /\ cli' = [cli EXCEPT ![c] = "in"]
      /\ openCount' = openCount + 1
      /\ IF openCount > 0 THEN pc' = pc ELSE pc' = "check"
  BY DEF Open
<1>2. Holders' = Holders \cup {c} /\ c \notin Holders
  BY <1>1 DEF Holders, RefInv
<1>3. /\ Cardinality(Holders') = Cardinality(Holders) + 1
      /\ Cardinality(Holders) \in Nat
  BY <1>2, HoldersFinite, FS_AddElement, FS_CardinalityType
<1>4. openCount' = Cardinality(Holders') /\ openCount' # 0
  BY <1>1, <1>3 DEF RefInv, ReferenceCount
<1>5. pc' # "none"
  BY <1>1, <1>3 DEF RefInv, ReferenceCount
<1>6. \A d \in Clients : cli[d] # "join"
  BY <1>1, DmxAssumption DEF RefInv
<1>7. \A d \in Clients : cli'[d] # "join"
  BY <1>1, <1>6 DEF RefInv
<1>8. cli' \in [Clients -> {"out", "in", "wait", "woken", "join", "src"}]
  BY <1>1 DEF RefInv
<1>9. \A d \in Clients : cli'[d] = "join" <=> adp' = d
  BY <1>1, <1>7, DmxAssumption
<1>. QED BY <1>4, <1>5, <1>7, <1>8, <1>9 DEF RefInv, ReferenceCount

LEMMA CloseBeginKeepsRefInv ==
  ASSUME RefInv, NEW c \in Clients, CloseBegin(c)
  PROVE  RefInv'
<1>1. /\ cli[c] = "in" /\ adp = Nil /\ pc' = pc
      /\ \/ /\ openCount = 1 /\ openCount' = openCount
            /\ adp' = c /\ cli' = [cli EXCEPT ![c] = "join"]
         \/ /\ openCount # 1 /\ openCount' = openCount - 1
            /\ adp' = adp /\ cli' = [cli EXCEPT ![c] = "out"]
  BY DEF CloseBegin, thrVars
<1>2. cli' \in [Clients -> {"out", "in", "wait", "woken", "join", "src"}]
  BY <1>1 DEF RefInv
<1>3. c \in Holders BY <1>1 DEF Holders
<1>4. \A d \in Clients : cli[d] # "join"
  BY <1>1, DmxAssumption DEF RefInv
<1>5. CASE openCount = 1
  <2>1. /\ openCount' = openCount /\ adp' = c /\ cli' = [cli EXCEPT ![c] = "join"]
    BY <1>1, <1>5
  <2>2. Holders' = Holders BY <1>1, <2>1 DEF Holders, RefInv
  <2>3. PICK x : Holders = {x}
    BY <1>5, HoldersFinite, FS_Singleton DEF RefInv, ReferenceCount
  <2>4. Holders' = {c} BY <1>3, <2>2, <2>3
  <2>5. \A d \in Clients : cli'[d] = "join" <=> d = c
    BY <1>4, <2>1 DEF RefInv
  <2>6. openCount' = Cardinality(Holders') /\ (pc' = "none" <=> openCount' = 0)
    BY <1>1, <2>1, <2>2 DEF RefInv, ReferenceCount
  <2>. QED BY <1>2, <2>1, <2>4, <2>5, <2>6 DEF RefInv, ReferenceCount
<1>6. CASE openCount # 1
  <2>1. openCount' = openCount - 1 /\ adp' = adp /\ cli' = [cli EXCEPT ![c] = "out"]
    BY <1>1, <1>6
  <2>2. Holders' = Holders \ {c} BY <2>1 DEF Holders, RefInv
  <2>3. /\ Cardinality(Holders') = Cardinality(Holders) - 1
        /\ Cardinality(Holders) \in Nat
    BY <1>3, <2>2, HoldersFinite, FS_RemoveElement, FS_CardinalityType
  <2>4. Cardinality(Holders) # 0
    BY <1>3, HoldersFinite, FS_EmptySet
  <2>5. openCount' = Cardinality(Holders') /\ openCount # 0 /\ openCount' # 0
    BY <1>6, <2>1, <2>3, <2>4 DEF RefInv, ReferenceCount
  <2>6. \A d \in Clients : cli'[d] # "join" /\ adp' # d
    BY <1>1, <1>4, <2>1, DmxAssumption DEF RefInv
  <2>7. pc' = "none" <=> openCount' = 0
    BY <1>1, <2>5 DEF RefInv, ReferenceCount
  <2>. QED BY <1>2, <2>5, <2>6, <2>7 DEF RefInv, ReferenceCount
<1>. QED BY <1>5, <1>6

LEMMA CloseEndKeepsRefInv ==
  ASSUME RefInv, NEW c \in Clients, CloseEnd(c)
  PROVE  RefInv'
<1>1. /\ cli[c] = "join" /\ openCount' = openCount - 1
      /\ cli' = [cli EXCEPT ![c] = "out"] /\ pc' = "none" /\ adp' = Nil
  BY DEF CloseEnd
<1>2. Holders = {c} BY <1>1 DEF RefInv, ReferenceCount
<1>3. openCount = 1 BY <1>2, FS_Singleton DEF RefInv, ReferenceCount
<1>4. Holders' = {} BY <1>1, <1>2 DEF Holders, RefInv
<1>5. Cardinality(Holders') = 0 BY <1>4, FS_EmptySet
<1>6. cli' \in [Clients -> {"out", "in", "wait", "woken", "join", "src"}]
  BY <1>1 DEF RefInv
<1>7. \A d \in Clients : cli'[d] # "join" /\ adp' # d
  BY <1>1, <1>4, DmxAssumption DEF Holders
<1>8. openCount' = 0 BY <1>1, <1>3
<1>. QED BY <1>1, <1>5, <1>6, <1>7, <1>8 DEF RefInv, ReferenceCount

LEMMA NextKeepsRefInv == RefInv /\ [Next]_vars => RefInv'
<1>. SUFFICES ASSUME RefInv, [Next]_vars PROVE RefInv'
  OBVIOUS
<1>1. CASE ThreadStep
  <2>1. UNCHANGED <<openCount, adp, cli>> BY <1>1 DEF ThreadStep
  <2>2. pc # "none" /\ pc' # "none"
    BY <1>1 DEF ThreadStep, CheckEnable, Poll, SetRunCb, ScanFilter, ScanDone,
       ReadFilter, CallbackReturn, ClearRunCb
  <2>. QED BY <2>1, <2>2, OtherStepKeepsRefInv DEF RefInv
<1>2. CASE ThreadWake
  BY <1>2, OtherStepKeepsRefInv DEF ThreadWake, Broadcast, RefInv
<1>3. CASE CallbackCall \/ CallbackSetSource
  BY <1>3, OtherStepKeepsRefInv DEF CallbackCall, CallbackSetSource, devVars, thrVars,
     RefInv
<1>4. ASSUME NEW c \in Clients, ClientStep(c) PROVE RefInv'
  <2>1. CASE ClientCall(c)
    BY <2>1, OtherStepKeepsRefInv DEF ClientCall, devVars, thrVars, RefInv
  <2>2. CASE ClientSetSource(c)
    BY <2>2, OtherStepKeepsRefInv DEF ClientSetSource, thrVars, RefInv
  <2>3. CASE SyncCall(c) \/ SyncRetest(c) \/ SpuriousWake(c)
    BY <2>3, OtherStepKeepsRefInv DEF SyncCall, SyncRetest, SpuriousWake, devVars,
       thrVars, RefInv
  <2>. QED BY <1>4, <2>1, <2>2, <2>3, OpenKeepsRefInv, CloseBeginKeepsRefInv,
         CloseEndKeepsRefInv DEF ClientStep
<1>5. CASE UNCHANGED vars
  BY <1>5, OtherStepKeepsRefInv DEF vars, devVars, thrVars, RefInv
<1>. QED BY <1>1, <1>2, <1>3, <1>4, <1>5 DEF Next

LEMMA RefInvariant == Spec => []RefInv
BY InitRefInv, NextKeepsRefInv, PTL DEF Spec

(* The data thread exists exactly while some client holds the device, and  *)
(* whoever joins it in AM_DMX_Close holds the device alone.                *)
THEOREM ReferencesCounted == Spec => []ReferenceCount
<1>1. RefInv => ReferenceCount BY DEF RefInv
<1>. QED BY <1>1, RefInvariant, PTL

(* The first AM_DMX_Open finds no client inside of AM_DMX_Sync.            *)
LEMMA NobodyInClosedDevice ==
  ASSUME RefInv, ~(openCount > 0), NEW c \in Clients
  PROVE  cli[c] = "out"
<1>1. Cardinality(Holders) \in Nat BY HoldersFinite, FS_CardinalityType
<1>2. Cardinality(Holders) = 0 BY <1>1 DEF RefInv, ReferenceCount
<1>3. Holders = {} BY <1>2, HoldersFinite, FS_EmptySet
<1>. QED BY <1>3 DEF Holders

-----------------------------------------------------------------------------
(* AM_DMX_Sync.                                                            *)

(* Live depends on used, enable and cb only.                               *)
LEMMA LiveUnchanged ==
  ASSUME UNCHANGED <<used, enable, cb>>
  PROVE  Live' = Live
BY DEF Live

(* Whatever FilterCall does, the two history sets lose what became live.   *)
LEMMA HistoryNotLive ==
  ASSUME UpdateHistory
  PROVE  /\ SilentNotLive' /\ PendNotLive'
         /\ silent' \subseteq silent
BY DEF UpdateHistory, SilentNotLive, PendNotLive

(* Every filter operation keeps the type of the filter table.              *)
LEMMA FilterCallType ==
  ASSUME TypeOK, NEW c \in Clients, NEW ops, FilterCall(c, ops)
  PROVE  /\ used' \in [Filters -> BOOLEAN]
         /\ enable' \in [Filters -> BOOLEAN]
         /\ polled' \in [Filters -> BOOLEAN]
         /\ cb' \in [Filters -> Data \cup {Nil}]
         /\ hw' \in [Filters -> {"closed", "stopped", "running"}]
         /\ owner' \in [Filters -> Clients \cup {Nil}]
         /\ crashed' \in BOOLEAN
         /\ pend' \in [Clients -> SUBSET Pairs]
         /\ silent' \in SUBSET Pairs
<1>1. UpdateHistory BY DEF FilterCall
<1>2. pend' \in [Clients -> SUBSET Pairs] /\ silent' \in SUBSET Pairs
  BY <1>1 DEF UpdateHistory, TypeOK
<1>3. CASE AllocateFilter(c)
  BY <1>2, <1>3 DEF AllocateFilter, TypeOK
<1>4. CASE \E f \in Filters : StopFilter(f)
  BY <1>2, <1>4 DEF StopFilter, StopDriver, TypeOK
<1>5. CASE \E f \in Filters : FreeFilter(f)
  BY <1>2, <1>5 DEF FreeFilter, StopDriver, TypeOK
<1>6. CASE \E f \in Filters : StartFilter(c, f)
  BY <1>2, <1>6 DEF StartFilter, filterVars, TypeOK
<1>7. CASE \E f \in Filters : SetCallback(c, f)
  BY <1>2, <1>7 DEF SetCallback, TypeOK, Data
<1>. QED BY <1>3, <1>4, <1>5, <1>6, <1>7 DEF FilterCall, SetFilter

LEMMA InitSyncInv == Init => SyncInv
<1>. SUFFICES ASSUME Init PROVE SyncInv
  OBVIOUS
<1>1. TypeOK
  <2>0. openCount \in Int BY DEF Init
  <2>1. /\ runCb \in BOOLEAN /\ enableThread \in BOOLEAN
        /\ crashed \in BOOLEAN /\ src \in Sources /\ drvSrc \in Sources
    BY DEF Init
  <2>2. /\ used \in [Filters -> BOOLEAN]
        /\ enable \in [Filters -> BOOLEAN]
        /\ polled \in [Filters -> BOOLEAN]
        /\ cb \in [Filters -> Data \cup {Nil}]
        /\ hw \in [Filters -> {"closed", "stopped", "running"}]
        /\ owner \in [Filters -> Clients \cup {Nil}]
    BY DEF Init
  <2>3. /\ adp = Nil /\ pc = "none" /\ mask = {} /\ cur = Nil /\ arg = Nil
        /\ silent = {}
    BY DEF Init
  <2>4. /\ cli \in [Clients -> {"out", "in", "wait", "woken", "join", "src"}]
        /\ newSrc \in [Clients \cup {Thread} -> Sources \cup {Nil}]
        /\ pend \in [Clients -> SUBSET Pairs]
    BY DEF Init
  <2>. QED BY <2>0, <2>1, <2>2, <2>3, <2>4 DEF TypeOK
<1>. QED BY <1>1 DEF Init, SyncInv, SilentNotLive, PendNotLive, FlagCovers,
   CallbackArgs, SourceArgs, SyncedSilent, NoLostWakeup, InCallback

(* A step of the data thread outside of client code.                       *)
LEMMA ThreadKeepsSyncInv ==
  ASSUME SyncInv, ThreadStep \/ ThreadWake
  PROVE  SyncInv'
<1>. USE DEF SyncInv
<1>1. UNCHANGED <<filterVars, histVars>> BY DEF ThreadStep, ThreadWake
<1>2. Live' = Live BY <1>1, LiveUnchanged DEF filterVars
<1>3. SilentNotLive' /\ PendNotLive'
  BY <1>1, <1>2 DEF SilentNotLive, PendNotLive, histVars
<1>0. SourceArgs'
  BY DEF ThreadStep, ThreadWake, Broadcast, SourceArgs, TypeOK, CheckEnable, Poll,
     SetRunCb, ScanFilter, ScanDone, ReadFilter, CallbackReturn, ClearRunCb
<1>4. CASE ThreadStep
  <2>1. TypeOK'
    BY <1>4 DEF ThreadStep, TypeOK, CallbackArgs, InCallback, filterVars, histVars,
       CheckEnable, Poll, SetRunCb, ScanFilter, ScanDone, ReadFilter, CallbackReturn,
       ClearRunCb
  <2>2. FlagCovers'
    BY <1>4 DEF ThreadStep, FlagCovers, CheckEnable, Poll, SetRunCb, ScanFilter,
       ScanDone, ReadFilter, CallbackReturn, ClearRunCb
  <2>3. CASE ReadFilter
    <3>1. cur \in Filters BY <2>3 DEF ReadFilter, CallbackArgs
    <3>2. CASE pc' = "cb"
      <4>1. /\ enable[cur] /\ used[cur] /\ cb[cur] # Nil
            /\ arg' = cb[cur] /\ cur' = cur
        BY <2>3, <3>2 DEF ReadFilter
      <4>2. <<cur, arg'>> \in Live
        BY <3>1, <4>1 DEF Live, Pairs, TypeOK
      <4>. QED BY <1>0, <1>1, <1>3, <1>4, <2>1, <2>2, <2>3, <3>1, <3>2, <4>1, <4>2 DEF CallbackArgs,
             InCallback, SyncedSilent, SilentNotLive, histVars, TypeOK, NoLostWakeup,
             ThreadStep, ReadFilter
    <3>3. CASE pc' = "scan"
      BY <1>0, <1>3, <1>4, <2>1, <2>2, <2>3, <3>3 DEF CallbackArgs, InCallback, SyncedSilent, NoLostWakeup,
         ThreadStep, ReadFilter
    <3>. QED BY <1>0, <1>3, <2>1, <2>2, <2>3, <3>2, <3>3 DEF ReadFilter
  <2>4. CASE ~ReadFilter
    <3>1. CallbackArgs' /\ SyncedSilent'
      BY <1>1, <1>4, <2>4 DEF ThreadStep, CallbackArgs, SyncedSilent, InCallback,
         histVars, TypeOK, CheckEnable, Poll, SetRunCb, ScanFilter, ScanDone,
         CallbackReturn, ClearRunCb
    <3>2. NoLostWakeup'
      BY <1>4, <2>4 DEF ThreadStep, NoLostWakeup, CheckEnable, Poll, SetRunCb,
         ScanFilter, ScanDone, CallbackReturn, ClearRunCb
    <3>. QED BY <1>0, <1>3, <2>1, <2>2, <3>1, <3>2
  <2>. QED BY <2>3, <2>4
<1>5. CASE ThreadWake
  <2>1. TypeOK' BY <1>5 DEF ThreadWake, Broadcast, TypeOK, filterVars, histVars
  <2>2. NoLostWakeup' BY <1>5 DEF ThreadWake, Broadcast, NoLostWakeup, TypeOK
  <2>. QED BY <1>0, <1>3, <1>5, <2>1, <2>2 DEF ThreadWake, Broadcast, FlagCovers,
         CallbackArgs, SyncedSilent, InCallback
<1>. QED BY <1>4, <1>5

(* A filter operation, by a client or by a callback.                       *)
LEMMA FilterCallKeepsSyncInv ==
  ASSUME SyncInv, NEW c \in Clients, NEW ops, FilterCall(c, ops),
         UNCHANGED <<devVars, thrVars, drvSrc, adp, cli, newSrc>>
  PROVE  SyncInv'
<1>. USE DEF SyncInv
<1>1. UpdateHistory BY DEF FilterCall
<1>2. /\ SilentNotLive' /\ PendNotLive'
      /\ silent' \subseteq silent
  BY <1>1, HistoryNotLive
<1>3. TypeOK' BY FilterCallType DEF TypeOK, devVars, thrVars
<1>. QED BY <1>2, <1>3 DEF FlagCovers, CallbackArgs, SourceArgs, SyncedSilent,
       InCallback, NoLostWakeup, devVars, thrVars

LEMMA CallbackKeepsSyncInv ==
  ASSUME SyncInv, CallbackCall \/ CallbackSetSource
  PROVE  SyncInv'
<1>. USE DEF SyncInv
<1>1. CASE CallbackCall
  <2>1. arg[1] \in Clients
    BY <1>1 DEF CallbackCall, CallbackArgs, InCallback, Data
  <2>. QED BY <1>1, <2>1, FilterCallKeepsSyncInv DEF CallbackCall
<1>2. CASE CallbackSetSource
  <2>1. UNCHANGED <<filterVars, histVars>> BY <1>2 DEF CallbackSetSource
  <2>2. Live' = Live BY <2>1, LiveUnchanged DEF filterVars
  <2>3. TypeOK' /\ SourceArgs' /\ FlagCovers'
    <3>1. CASE pc = "cb"
      BY <1>2, <2>1, <3>1 DEF CallbackSetSource, SetSourceDriver, TypeOK, SourceArgs,
         filterVars, histVars, FlagCovers
    <3>2. CASE pc = "cbsrc"
      BY <1>2, <2>1, <3>2, DmxAssumption DEF CallbackSetSource, SetSourceDevice, TypeOK,
         SourceArgs, filterVars, histVars, FlagCovers
    <3>. QED BY <1>2, <3>1, <3>2 DEF CallbackSetSource
  <2>. QED BY <1>2, <2>1, <2>2, <2>3 DEF CallbackSetSource, SilentNotLive,
         PendNotLive, CallbackArgs, SyncedSilent, InCallback, NoLostWakeup, histVars
<1>. QED BY <1>1, <1>2

(* AM_DMX_Open starts the data thread with the flag clear.                 *)
LEMMA OpenKeepsSyncInv ==
  ASSUME SyncInv, RefInv, NEW c \in Clients, Open(c)
  PROVE  SyncInv'
<1>. USE DEF SyncInv
<1>1. /\ UNCHANGED <<used, enable, cb, hw, owner, mask, cur, arg, adp, crashed>>
      /\ UNCHANGED histVars /\ UNCHANGED srcVars
      /\ cli' = [cli EXCEPT ![c] = "in"]
  BY DEF Open
<1>2. Live' = Live BY <1>1, LiveUnchanged
<1>3. SilentNotLive' /\ PendNotLive'
  BY <1>1, <1>2 DEF SilentNotLive, PendNotLive, histVars
<1>4. \/ UNCHANGED <<enableThread, runCb, pc, polled>>
      \/ /\ enableThread' = TRUE /\ runCb' = FALSE /\ pc' = "check"
         /\ polled' = [f \in Filters |-> FALSE]
  BY DEF Open
<1>5. openCount' \in Int BY DEF Open, TypeOK
<1>6. TypeOK' BY <1>1, <1>4, <1>5 DEF TypeOK, histVars, srcVars
<1>7. FlagCovers' /\ CallbackArgs' /\ SyncedSilent'
  BY <1>1, <1>4 DEF FlagCovers, CallbackArgs, SyncedSilent, InCallback, histVars
<1>8. SourceArgs'
  BY <1>1, <1>4 DEF SourceArgs, TypeOK, srcVars
<1>9. NoLostWakeup'
  <2>1. CASE openCount > 0
    BY <1>1, <2>1 DEF Open, NoLostWakeup, TypeOK
  <2>2. CASE ~(openCount > 0)
    BY <1>1, <2>2, NobodyInClosedDevice DEF NoLostWakeup, RefInv
  <2>. QED BY <2>1, <2>2
<1>. QED BY <1>3, <1>6, <1>7, <1>8, <1>9

LEMMA CloseKeepsSyncInv ==
  ASSUME SyncInv, NEW c \in Clients, CloseBegin(c) \/ CloseEnd(c)
  PROVE  SyncInv'
<1>. USE DEF SyncInv
<1>1. CASE CloseBegin(c)
  <2>1. UNCHANGED <<used, enable, cb>> /\ UNCHANGED histVars
    BY <1>1 DEF CloseBegin, filterVars
  <2>2. Live' = Live BY <2>1, LiveUnchanged
  <2>3. TypeOK'
    <3>1. openCount' \in Int /\ cli' \in [Clients -> {"out", "in", "wait", "woken", "join", "src"}]
      BY <1>1 DEF CloseBegin, TypeOK
    <3>2. enableThread' \in BOOLEAN /\ adp' \in Clients \cup {Nil}
      BY <1>1 DEF CloseBegin, TypeOK
    <3>. QED BY <1>1, <3>1, <3>2 DEF CloseBegin, TypeOK, filterVars, thrVars, histVars,
           srcVars
  <2>. QED BY <1>1, <2>1, <2>2, <2>3 DEF CloseBegin, SilentNotLive, PendNotLive,
         FlagCovers, CallbackArgs, SourceArgs, SyncedSilent, InCallback, NoLostWakeup,
         TypeOK, thrVars, histVars, srcVars
<1>2. CASE CloseEnd(c)
  <2>1. Live' = {} BY <1>2 DEF CloseEnd, Live, Pairs
  <2>2. TypeOK' BY <1>2 DEF CloseEnd, TypeOK, srcVars
  <2>. QED BY <1>2, <2>1, <2>2 DEF CloseEnd, SilentNotLive, PendNotLive, FlagCovers,
         CallbackArgs, SourceArgs, SyncedSilent, InCallback, NoLostWakeup, TypeOK, srcVars
<1>. QED BY <1>1, <1>2

LEMMA ClientSetSourceKeepsSyncInv ==
  ASSUME SyncInv, NEW c \in Clients, ClientSetSource(c)
  PROVE  SyncInv'
<1>. USE DEF SyncInv
<1>1. UNCHANGED <<filterVars, thrVars, histVars>> BY DEF ClientSetSource
<1>2. Live' = Live BY <1>1, LiveUnchanged DEF filterVars
<1>3. TypeOK' /\ SourceArgs'
  <2>1. CASE cli[c] = "in"
    BY <1>1, <2>1, DmxAssumption DEF ClientSetSource, SetSourceDriver, TypeOK,
       SourceArgs, filterVars, thrVars, histVars
  <2>2. CASE cli[c] = "src"
    BY <1>1, <2>2, DmxAssumption DEF ClientSetSource, SetSourceDevice, TypeOK,
       SourceArgs, filterVars, thrVars, histVars
  <2>. QED BY <2>1, <2>2 DEF ClientSetSource
<1>. QED BY <1>1, <1>2, <1>3 DEF ClientSetSource, SilentNotLive, PendNotLive,
       FlagCovers, CallbackArgs, SyncedSilent, InCallback, NoLostWakeup, TypeOK,
       thrVars, histVars

(* AM_DMX_Sync extends the promise only when it finds the flag clear, and  *)
(* then the data thread is outside of every callback.                      *)
LEMMA SyncKeepsSyncInv ==
  ASSUME SyncInv, NEW c \in Clients, SyncCall(c) \/ SyncRetest(c) \/ SpuriousWake(c)
  PROVE  SyncInv'
<1>. USE DEF SyncInv
<1>1. UNCHANGED <<filterVars, thrVars, devVars, drvSrc, newSrc, adp, crashed>>
  BY DEF SyncCall, SyncRetest, SpuriousWake
<1>2. Live' = Live BY <1>1, LiveUnchanged DEF filterVars
<1>3. TypeOK'
  BY <1>1 DEF SyncCall, SyncRetest, SpuriousWake, TypeOK, filterVars, thrVars,
     devVars, histVars
<1>4. SilentNotLive' /\ PendNotLive'
  BY <1>1, <1>2 DEF SyncCall, SyncRetest, SpuriousWake, SilentNotLive, PendNotLive,
     TypeOK, histVars
<1>5. SyncedSilent'
  <2>1. CASE runCb
    BY <1>1, <2>1 DEF SyncCall, SyncRetest, SpuriousWake, SyncedSilent, InCallback,
       thrVars, histVars
  <2>2. CASE ~runCb
    BY <1>1, <2>2 DEF FlagCovers, SyncedSilent, InCallback, thrVars
  <2>. QED BY <2>1, <2>2
<1>6. NoLostWakeup'
  BY <1>1 DEF SyncCall, SyncRetest, SpuriousWake, NoLostWakeup, TypeOK, devVars,
     thrVars
<1>. QED BY <1>1, <1>3, <1>4, <1>5, <1>6 DEF SyncCall, SyncRetest, SpuriousWake,
       FlagCovers, CallbackArgs, SourceArgs, InCallback, TypeOK, devVars, thrVars

LEMMA NextKeepsSyncInv == SyncInv /\ RefInv /\ [Next]_vars => SyncInv'
<1>. SUFFICES ASSUME SyncInv, RefInv, [Next]_vars PROVE SyncInv'
  OBVIOUS
<1>1. CASE ThreadStep \/ ThreadWake BY <1>1, ThreadKeepsSyncInv
<1>2. CASE CallbackCall \/ CallbackSetSource BY <1>2, CallbackKeepsSyncInv
<1>3. ASSUME NEW c \in Clients, ClientStep(c) PROVE SyncInv'
  <2>1. CASE ClientCall(c)
    BY <2>1, FilterCallKeepsSyncInv DEF ClientCall
  <2>. QED BY <1>3, <2>1, OpenKeepsSyncInv, CloseKeepsSyncInv,
         ClientSetSourceKeepsSyncInv, SyncKeepsSyncInv DEF ClientStep
<1>4. CASE UNCHANGED vars
  <2>1. Live' = Live BY <1>4, LiveUnchanged DEF vars, filterVars
  <2>. QED BY <1>4, <2>1 DEF vars, devVars, filterVars, thrVars, histVars, SyncInv,
         TypeOK, SilentNotLive, PendNotLive, FlagCovers, CallbackArgs, SourceArgs,
         SyncedSilent, InCallback, NoLostWakeup
<1>. QED BY <1>1, <1>2, <1>3, <1>4 DEF Next

(* The inductive invariant holds in every reachable state.                 *)
THEOREM SyncInvariant == Spec => []SyncInv
BY InitSyncInv, NextKeepsSyncInv, RefInvariant, PTL DEF Spec

(* The state stays in its type: no filter, client or callback argument     *)
(* from outside of the device's tables is ever used by the data thread.    *)
THEOREM Typing == Spec => []TypeOK
<1>1. SyncInv => TypeOK BY DEF SyncInv
<1>. QED BY <1>1, SyncInvariant, PTL

(* AM_DMX_Sync keeps its promise with the hardware filters: a registration *)
(* retired before the call is not called after it.                         *)
THEOREM SyncPromise == Spec => []SyncedSilent
<1>1. SyncInv => SyncedSilent BY DEF SyncInv
<1>. QED BY <1>1, SyncInvariant, PTL

(* No client is left asleep in AM_DMX_Sync: whoever waits has the flag set *)
(* or the broadcast still to come.                                         *)
THEOREM NoWakeupIsLost == Spec => []NoLostWakeup
<1>1. SyncInv => NoLostWakeup BY DEF SyncInv
<1>. QED BY <1>1, SyncInvariant, PTL

-----------------------------------------------------------------------------
(* The device implements DmxContract.                                      *)

InCall == IF InCallback THEN {<<cur, arg>>} ELSE {}

LEMMA InitContract == Init => Contract!Init
BY DEF Init, Contract!Init, Live, Pairs, InCallback

(* Steps that leave the registrations and the data thread's call alone.    *)
LEMMA StutterContract ==
  ASSUME Live' = Live, silent' = silent, InCall' = InCall
  PROVE  [Contract!Next]_<<Live, InCall, silent>>
OBVIOUS

LEMMA ThreadContract ==
  ASSUME SyncInv, ThreadStep \/ ThreadWake
  PROVE  [Contract!Next]_<<Live, InCall, silent>>
<1>1. UNCHANGED <<used, enable, cb, silent>>
  BY DEF ThreadStep, ThreadWake, filterVars, histVars
<1>2. Live' = Live BY <1>1, LiveUnchanged
<1>3. CASE ReadFilter /\ pc' = "cb"
  <2>1. /\ pc = "read" /\ cur' = cur /\ arg' = cb[cur] /\ cb[cur] # Nil
        /\ enable[cur] /\ used[cur]
    BY <1>3 DEF ReadFilter
  <2>2. <<cur, arg'>> \in Live
    BY <2>1 DEF Live, Pairs, SyncInv, CallbackArgs, TypeOK
  <2>3. InCall = {} /\ InCall' = {<<cur, arg'>>}
    BY <1>3, <2>1 DEF InCall, InCallback
  <2>4. Contract!BeginCall
    BY <1>1, <1>2, <2>2, <2>3 DEF Contract!BeginCall, InCall
  <2>. QED BY <2>4 DEF Contract!Next
<1>4. CASE CallbackReturn
  <2>1. InCall' = {} BY <1>4 DEF CallbackReturn, InCall, InCallback
  <2>2. Contract!EndCall
    BY <1>1, <1>2, <2>1 DEF Contract!EndCall, InCall
  <2>. QED BY <2>2 DEF Contract!Next
<1>5. CASE ~(ReadFilter /\ pc' = "cb") /\ ~CallbackReturn
  <2>1. InCall' = {} /\ InCall = {}
    BY <1>5 DEF InCall, InCallback, ThreadStep, ThreadWake, CheckEnable, Poll,
       SetRunCb, ScanFilter, ScanDone, ReadFilter, ClearRunCb, Broadcast
  <2>. QED BY <1>1, <1>2, <2>1, StutterContract
<1>. QED BY <1>3, <1>4, <1>5

LEMMA FilterCallContract ==
  ASSUME NEW c, NEW ops, FilterCall(c, ops), UNCHANGED thrVars
  PROVE  Contract!Next
<1>1. InCall' = InCall BY DEF InCall, InCallback, thrVars
<1>2. silent' = silent \ Live' BY DEF FilterCall, UpdateHistory
<1>3. Live' \in SUBSET Pairs BY DEF Live, Pairs, Data, Filters
<1>4. Contract!Reconfigure
  BY <1>1, <1>2, <1>3 DEF Contract!Reconfigure, InCall
<1>. QED BY <1>4 DEF Contract!Next

LEMMA SyncContract ==
  ASSUME SyncInv, SyncInv', NEW c \in Clients, SyncCall(c) \/ SyncRetest(c)
  PROVE  [Contract!Next]_<<Live, InCall, silent>>
<1>1. UNCHANGED <<used, enable, cb, pc, cur, arg, runCb>>
  BY DEF SyncCall, SyncRetest, filterVars, thrVars, devVars
<1>2. Live' = Live /\ InCall' = InCall
  BY <1>1, LiveUnchanged DEF InCall, InCallback
<1>3. CASE runCb
  BY <1>2, <1>3, StutterContract DEF SyncCall, SyncRetest, histVars
<1>4. CASE ~runCb
  <2>1. InCall = {} BY <1>4 DEF SyncInv, FlagCovers, InCall, InCallback
  <2>2. silent \subseteq silent' BY <1>4 DEF SyncCall, SyncRetest
  <2>3. silent' \in SUBSET Pairs /\ silent' \cap Live' = {}
    BY DEF SyncInv, TypeOK, SilentNotLive
  <2>4. Contract!Promise
    BY <1>2, <2>1, <2>2, <2>3 DEF Contract!Promise, InCall
  <2>. QED BY <2>4 DEF Contract!Next
<1>. QED BY <1>3, <1>4

LEMMA CloseEndContract ==
  ASSUME SyncInv, NEW c \in Clients, CloseEnd(c)
  PROVE  Contract!Next
<1>1. Live' = {} BY DEF CloseEnd, Live, Pairs
<1>2. InCall = {} /\ InCall' = {} BY DEF CloseEnd, InCall, InCallback
<1>3. silent' = Pairs /\ silent \subseteq Pairs BY DEF CloseEnd, SyncInv, TypeOK
<1>4. Contract!Promise BY <1>1, <1>2, <1>3 DEF Contract!Promise, InCall
<1>. QED BY <1>4 DEF Contract!Next

LEMMA QuietStepContract ==
  ASSUME SyncInv, RefInv, NEW c \in Clients,
         Open(c) \/ CloseBegin(c) \/ ClientSetSource(c) \/ SpuriousWake(c)
  PROVE  [Contract!Next]_<<Live, InCall, silent>>
<1>1. UNCHANGED <<used, enable, cb, cur, arg, silent>>
  BY DEF Open, CloseBegin, ClientSetSource, SpuriousWake, filterVars, thrVars, histVars
<1>2. InCallback' = InCallback
  <2>1. CASE Open(c) /\ ~(openCount > 0)
    <3>1. Cardinality(Holders) \in Nat BY HoldersFinite, FS_CardinalityType
    <3>2. pc = "none" /\ pc' = "check"
      BY <2>1, <3>1 DEF Open, RefInv, ReferenceCount
    <3>. QED BY <3>2 DEF InCallback
  <2>2. CASE ~(Open(c) /\ ~(openCount > 0))
    <3>1. pc' = pc
      BY <2>2 DEF Open, CloseBegin, ClientSetSource, SpuriousWake, thrVars
    <3>. QED BY <3>1 DEF InCallback
  <2>. QED BY <2>1, <2>2
<1>. QED BY <1>1, <1>2, LiveUnchanged, StutterContract DEF InCall

LEMMA NextContract ==
  ASSUME SyncInv, SyncInv', RefInv, [Next]_vars
  PROVE  [Contract!Next]_<<Live, InCall, silent>>
<1>1. CASE ThreadStep \/ ThreadWake BY <1>1, ThreadContract
<1>2. CASE CallbackCall BY <1>2, FilterCallContract DEF CallbackCall
<1>3. CASE CallbackSetSource
  <2>1. UNCHANGED <<used, enable, cb, silent, cur, arg>> /\ InCallback /\ InCallback'
    BY <1>3 DEF CallbackSetSource, InCallback, filterVars, histVars
  <2>. QED BY <2>1, LiveUnchanged, StutterContract DEF InCall
<1>4. ASSUME NEW c \in Clients, ClientStep(c)
      PROVE  [Contract!Next]_<<Live, InCall, silent>>
  <2>1. CASE ClientCall(c) BY <2>1, FilterCallContract DEF ClientCall
  <2>2. CASE SyncCall(c) \/ SyncRetest(c) BY <2>2, SyncContract
  <2>3. CASE CloseEnd(c) BY <2>3, CloseEndContract
  <2>4. CASE Open(c) \/ CloseBegin(c) \/ ClientSetSource(c) \/ SpuriousWake(c)
    BY <2>4, QuietStepContract
  <2>. QED BY <1>4, <2>1, <2>2, <2>3, <2>4 DEF ClientStep
<1>5. CASE UNCHANGED vars
  <2>1. UNCHANGED <<used, enable, cb, silent, cur, arg, pc>>
    BY <1>5 DEF vars, filterVars, histVars, thrVars
  <2>. QED BY <2>1, LiveUnchanged, StutterContract DEF InCall, InCallback
<1>. QED BY <1>1, <1>2, <1>3, <1>4, <1>5 DEF Next

(* Every behaviour of the device is one that DmxContract allows: calls go  *)
(* to live registrations, one at a time, and never to one promised silent. *)
THEOREM Refinement == Spec => ImplementsContract
<1>1. SyncInv /\ SyncInv' /\ RefInv /\ [Next]_vars
        => [Contract!Next]_<<Live, InCall, silent>>
  BY NextContract
<1>. QED BY <1>1, InitContract, SyncInvariant, RefInvariant, PTL
       DEF Spec, ImplementsContract, Contract!Spec, InCall

-----------------------------------------------------------------------------
(* What the library believes of its filters and what the driver does.      *)

(* A filter call, by a client or by a callback, finds the device open.     *)
LEMMA CallFindsDeviceOpen ==
  ASSUME RefInv, (\E c \in Clients : ClientCall(c)) \/ CallbackCall
  PROVE  openCount # 0 /\ openCount' = openCount
<1>1. openCount' = openCount
  BY DEF ClientCall, CallbackCall, devVars
<1>2. CASE CallbackCall BY <1>1, <1>2 DEF CallbackCall, RefInv, ReferenceCount
<1>3. ASSUME NEW c \in Clients, ClientCall(c) PROVE openCount # 0
  <2>1. c \in Holders BY <1>3 DEF ClientCall, Holders
  <2>2. Cardinality(Holders) # 0 BY <2>1, HoldersFinite, FS_EmptySet
  <2>. QED BY <2>2 DEF RefInv, ReferenceCount
<1>. QED BY <1>1, <1>2, <1>3

(* No filter that could be started, and none that is enabled, has lost its *)
(* descriptor, and a closed device has neither.                            *)
Startable(f) == used[f] /\ (Careless \/ owner[f] # Nil)

FilterInv ==
  /\ EnabledCanDeliver
  /\ \A f \in Filters : Startable(f) => polled[f]
  /\ openCount = 0 => \A f \in Filters : ~enable[f] /\ ~Startable(f)

LEMMA FilterCallKeepsFilterInv ==
  ASSUME TypeOK, FilterInv, NEW c \in Clients, NEW ops, FilterCall(c, ops)
  PROVE  EnabledCanDeliver' /\ \A f \in Filters : Startable(f)' => polled'[f]
<1>. USE DEF FilterInv, EnabledCanDeliver, Startable
<1>1. CASE AllocateFilter(c) BY <1>1 DEF AllocateFilter, TypeOK
<1>2. CASE \E f \in Filters : StopFilter(f)
  BY <1>2 DEF StopFilter, StopDriver, TypeOK
<1>3. CASE \E f \in Filters : FreeFilter(f)
  BY <1>3 DEF FreeFilter, StopDriver, TypeOK
<1>4. ASSUME NEW f \in Filters, MayUse(c, f), StartFilter(c, f)
      PROVE  EnabledCanDeliver' /\ \A g \in Filters : Startable(g)' => polled'[g]
  <2>1. CASE ~used[f] BY <1>4, <2>1 DEF StartFilter, filterVars
  <2>2. CASE used[f]
    <3>1. polled[f] BY <1>4, <2>2, DmxAssumption DEF MayUse
    <3>. QED BY <1>4, <2>2, <3>1 DEF StartFilter, TypeOK
  <2>. QED BY <2>1, <2>2
<1>5. CASE \E f \in Filters : SetCallback(c, f)
  BY <1>5 DEF SetCallback, TypeOK
<1>. QED BY <1>1, <1>2, <1>3, <1>4, <1>5 DEF FilterCall, SetFilter

LEMMA InitFilterInv == Init => FilterInv
BY DEF Init, FilterInv, EnabledCanDeliver, Startable

LEMMA NextKeepsFilterInv ==
  ASSUME ~Careless \/ "stop" \notin Faults
  PROVE  FilterInv /\ SyncInv /\ RefInv /\ [Next]_vars => FilterInv'
<1>. SUFFICES ASSUME FilterInv, SyncInv, RefInv, [Next]_vars PROVE FilterInv'
  OBVIOUS
<1>0. TypeOK BY DEF SyncInv
<1>1. ASSUME UNCHANGED filterVars, openCount' = 0 => openCount = 0 PROVE FilterInv'
  BY <1>1 DEF FilterInv, EnabledCanDeliver, Startable, filterVars
<1>2. CASE ThreadStep \/ ThreadWake \/ CallbackSetSource
  BY <1>1, <1>2 DEF ThreadStep, ThreadWake, CallbackSetSource
<1>3. CASE CallbackCall
  <2>1. arg[1] \in Clients
    BY <1>3 DEF CallbackCall, SyncInv, CallbackArgs, InCallback, Data
  <2>2. EnabledCanDeliver' /\ \A f \in Filters : Startable(f)' => polled'[f]
    BY <1>0, <1>3, <2>1, FilterCallKeepsFilterInv DEF CallbackCall
  <2>. QED BY <1>3, <2>2, CallFindsDeviceOpen DEF FilterInv
<1>4. ASSUME NEW c \in Clients, ClientStep(c) PROVE FilterInv'
  <2>1. CASE ClientCall(c)
    <3>1. EnabledCanDeliver' /\ \A f \in Filters : Startable(f)' => polled'[f]
      BY <1>0, <2>1, FilterCallKeepsFilterInv DEF ClientCall
    <3>. QED BY <2>1, <3>1, CallFindsDeviceOpen DEF FilterInv
  <2>2. CASE ClientSetSource(c) \/ SyncCall(c) \/ SyncRetest(c) \/ SpuriousWake(c)
    BY <1>1, <2>2 DEF ClientSetSource, SyncCall, SyncRetest, SpuriousWake, devVars
  <2>3. CASE CloseBegin(c)
    <3>1. \/ openCount = 1 /\ openCount' = openCount
          \/ openCount # 1 /\ openCount' = openCount - 1
      BY <2>3 DEF CloseBegin
    <3>. QED BY <1>1, <2>3, <3>1 DEF CloseBegin, SyncInv, TypeOK
  <2>4. CASE Open(c)
    <3>1. Cardinality(Holders) \in Nat /\ openCount = Cardinality(Holders)
      BY HoldersFinite, FS_CardinalityType DEF RefInv, ReferenceCount
    <3>2. /\ UNCHANGED <<used, enable, hw, owner>> /\ openCount' = openCount + 1
          /\ openCount > 0 => polled' = polled
      BY <2>4 DEF Open
    <3>. QED BY <3>1, <3>2 DEF FilterInv, EnabledCanDeliver, Startable
  <2>5. CASE CloseEnd(c)
    <3>1. enable' = [f \in Filters |-> FALSE] /\ owner' = [f \in Filters |-> Nil]
      BY <2>5 DEF CloseEnd
    <3>2. "stop" \notin Faults => \A f \in Filters : ~used'[f]
      BY <2>5 DEF CloseEnd
    <3>. QED BY <3>1, <3>2 DEF FilterInv, EnabledCanDeliver, Startable
  <2>. QED BY <1>4, <2>1, <2>2, <2>3, <2>4, <2>5 DEF ClientStep
<1>5. CASE UNCHANGED vars BY <1>1, <1>5 DEF vars, devVars
<1>. QED BY <1>2, <1>3, <1>4, <1>5 DEF Next

(* When every client uses its own handles, or no stop fails, a filter the  *)
(* library takes for enabled can deliver, across every free, reuse and     *)
(* reopening.  (A filter whose stop failed in AM_DMX_Close stays allocated *)
(* without a descriptor: a stale handle could enable that one.)            *)
THEOREM EnabledDelivers ==
  ASSUME ~Careless \/ "stop" \notin Faults
  PROVE  Spec => []EnabledCanDeliver
<1>1. FilterInv => EnabledCanDeliver BY DEF FilterInv
<1>2. FilterInv /\ SyncInv /\ RefInv /\ [Next]_vars => FilterInv'
  BY NextKeepsFilterInv
<1>. QED BY <1>1, <1>2, InitFilterInv, SyncInvariant, RefInvariant, PTL DEF Spec

(* Nothing runs that the library takes for stopped, nothing is left open.  *)
LEMMA InitNoStray == Init => NoStrayFilter
BY DEF Init, NoStrayFilter

LEMMA FilterCallKeepsNoStray ==
  ASSUME TypeOK, NoStrayFilter, "stop" \notin Faults, NEW c \in Clients, NEW ops,
         FilterCall(c, ops)
  PROVE  \A f \in Filters : hw'[f] = "running" => enable'[f]
<1>. USE DEF NoStrayFilter, StopResults
<1>1. CASE AllocateFilter(c) BY <1>1 DEF AllocateFilter, TypeOK
<1>2. CASE \E f \in Filters : StopFilter(f)
  BY <1>2 DEF StopFilter, StopDriver, TypeOK
<1>3. CASE \E f \in Filters : FreeFilter(f)
  BY <1>3 DEF FreeFilter, StopDriver, TypeOK
<1>4. CASE \E f \in Filters : StartFilter(c, f)
  BY <1>4 DEF StartFilter, filterVars, TypeOK
<1>5. CASE \E f \in Filters : SetCallback(c, f)
  BY <1>5 DEF SetCallback, TypeOK
<1>. QED BY <1>1, <1>2, <1>3, <1>4, <1>5 DEF FilterCall, SetFilter

LEMMA NextKeepsNoStray ==
  ASSUME "stop" \notin Faults
  PROVE  NoStrayFilter /\ SyncInv /\ RefInv /\ [Next]_vars => NoStrayFilter'
<1>. SUFFICES ASSUME NoStrayFilter, SyncInv, RefInv, [Next]_vars PROVE NoStrayFilter'
  OBVIOUS
<1>0. TypeOK BY DEF SyncInv
<1>1. ASSUME UNCHANGED <<used, enable, hw>>, openCount' = 0 => openCount = 0
      PROVE  NoStrayFilter'
  BY <1>1 DEF NoStrayFilter
<1>2. CASE ThreadStep \/ ThreadWake \/ CallbackSetSource
  BY <1>1, <1>2 DEF ThreadStep, ThreadWake, CallbackSetSource, filterVars
<1>3. CASE CallbackCall
  <2>1. arg[1] \in Clients
    BY <1>3 DEF CallbackCall, SyncInv, CallbackArgs, InCallback, Data
  <2>. QED BY <1>0, <1>3, <2>1, FilterCallKeepsNoStray, CallFindsDeviceOpen
         DEF CallbackCall, NoStrayFilter
<1>4. ASSUME NEW c \in Clients, ClientStep(c) PROVE NoStrayFilter'
  <2>1. CASE ClientCall(c)
    BY <1>0, <2>1, FilterCallKeepsNoStray, CallFindsDeviceOpen
       DEF ClientCall, NoStrayFilter
  <2>2. CASE ClientSetSource(c) \/ SyncCall(c) \/ SyncRetest(c) \/ SpuriousWake(c)
    BY <1>1, <2>2 DEF ClientSetSource, SyncCall, SyncRetest, SpuriousWake, devVars,
       filterVars
  <2>3. CASE CloseBegin(c)
    <3>1. \/ openCount = 1 /\ openCount' = openCount
          \/ openCount # 1 /\ openCount' = openCount - 1
      BY <2>3 DEF CloseBegin
    <3>. QED BY <1>0, <1>1, <2>3, <3>1 DEF CloseBegin, TypeOK, filterVars
  <2>4. CASE Open(c)
    <3>1. Cardinality(Holders) \in Nat /\ openCount = Cardinality(Holders)
      BY HoldersFinite, FS_CardinalityType DEF RefInv, ReferenceCount
    <3>2. UNCHANGED <<used, enable, hw>> /\ openCount' = openCount + 1
      BY <2>4 DEF Open
    <3>. QED BY <1>1, <3>1, <3>2
  <2>5. CASE CloseEnd(c)
    <3>1. \A f \in Filters : ~used'[f] /\ hw'[f] = "closed"
      BY <2>5 DEF CloseEnd
    <3>. QED BY <3>1 DEF NoStrayFilter
  <2>. QED BY <1>4, <2>1, <2>2, <2>3, <2>4, <2>5 DEF ClientStep
<1>5. CASE UNCHANGED vars BY <1>1, <1>5 DEF vars, devVars, filterVars
<1>. QED BY <1>2, <1>3, <1>4, <1>5 DEF Next

(* As long as no stop fails the kernel runs no filter the library takes    *)
(* for stopped, and once the last reference is closed no filter is left    *)
(* allocated, here or in the kernel; misuse of handles changes nothing.    *)
THEOREM NoFilterIsLeft ==
  ASSUME "stop" \notin Faults
  PROVE  Spec => []NoStrayFilter
<1>1. NoStrayFilter /\ SyncInv /\ RefInv /\ [Next]_vars => NoStrayFilter'
  BY NextKeepsNoStray
<1>. QED BY <1>1, InitNoStray, SyncInvariant, RefInvariant, PTL DEF Spec

-----------------------------------------------------------------------------
(* Whose callback gets the sections.                                       *)

(* The user_data of an enabled filter is that of the client that has it.   *)
OwnUserData == \A f \in Filters : enable[f] /\ cb[f] # Nil => cb[f][1] = owner[f]

LEMMA FilterCallKeepsUserData ==
  ASSUME ~Careless, TypeOK, FilterInv, OwnUserData, NEW c \in Clients, NEW ops,
         FilterCall(c, ops)
  PROVE  OwnUserData'
<1>. USE DEF OwnUserData, MayUse
<1>1. CASE AllocateFilter(c)
  BY <1>1 DEF AllocateFilter, TypeOK, FilterInv, EnabledCanDeliver
<1>2. CASE \E f \in Filters : StopFilter(f)
  BY <1>2 DEF StopFilter, StopDriver, TypeOK
<1>3. CASE \E f \in Filters : FreeFilter(f)
  BY <1>3 DEF FreeFilter, StopDriver, TypeOK
<1>4. CASE \E f \in Filters : MayUse(c, f) /\ StartFilter(c, f)
  BY <1>4 DEF StartFilter, filterVars, TypeOK
<1>5. ASSUME NEW f \in Filters, MayUse(c, f), SetCallback(c, f) PROVE OwnUserData'
  <2>1. PICK d \in ({c} \X Slots) \cup {Nil} : cb' = [cb EXCEPT ![f] = d]
    BY <1>5 DEF SetCallback
  <2>2. d # Nil => d[1] = owner[f] BY <1>5
  <2>. QED BY <1>5, <2>1, <2>2 DEF SetCallback, TypeOK
<1>. QED BY <1>1, <1>2, <1>3, <1>4, <1>5 DEF FilterCall, SetFilter

LEMMA NextKeepsUserData ==
  ASSUME ~Careless
  PROVE  OwnUserData /\ SyncInv /\ FilterInv /\ [Next]_vars => OwnUserData'
<1>. SUFFICES ASSUME OwnUserData, SyncInv, FilterInv, [Next]_vars PROVE OwnUserData'
  OBVIOUS
<1>0. TypeOK BY DEF SyncInv
<1>1. ASSUME UNCHANGED <<enable, cb, owner>> PROVE OwnUserData'
  BY <1>1 DEF OwnUserData
<1>2. CASE ThreadStep \/ ThreadWake \/ CallbackSetSource
  BY <1>1, <1>2 DEF ThreadStep, ThreadWake, CallbackSetSource, filterVars
<1>3. CASE CallbackCall
  <2>1. arg[1] \in Clients
    BY <1>3 DEF CallbackCall, SyncInv, CallbackArgs, InCallback, Data
  <2>. QED BY <1>0, <1>3, <2>1, FilterCallKeepsUserData DEF CallbackCall
<1>4. ASSUME NEW c \in Clients, ClientStep(c) PROVE OwnUserData'
  <2>1. CASE ClientCall(c)
    BY <1>0, <2>1, FilterCallKeepsUserData DEF ClientCall
  <2>2. CASE CloseEnd(c) BY <2>2 DEF CloseEnd, OwnUserData
  <2>3. CASE ~ClientCall(c) /\ ~CloseEnd(c)
    BY <1>1, <1>4, <2>3 DEF ClientStep, Open, CloseBegin, ClientSetSource, SyncCall,
       SyncRetest, SpuriousWake, filterVars
  <2>. QED BY <2>1, <2>2, <2>3
<1>5. CASE UNCHANGED vars BY <1>1, <1>5 DEF vars, filterVars
<1>. QED BY <1>2, <1>3, <1>4, <1>5 DEF Next

(* Only ReadFilter takes the data thread from "read" to "cb".              *)
LEMMA ReadDelivers ==
  ASSUME SyncInv, OwnUserData, [Next]_vars, pc = "read", pc' = "cb"
  PROVE  arg'[1] = owner[cur]
<1>1. ThreadStep
  BY DEF Next, ThreadWake, Broadcast, CallbackCall, CallbackSetSource, ClientStep,
     Open, CloseBegin, CloseEnd, ClientCall, ClientSetSource, SyncCall, SyncRetest,
     SpuriousWake, vars, thrVars
<1>2. ReadFilter
  BY <1>1 DEF ThreadStep, CheckEnable, Poll, SetRunCb, ScanFilter, ScanDone,
     CallbackReturn, ClearRunCb
<1>3. enable[cur] /\ cb[cur] # Nil /\ arg' = cb[cur] BY <1>2 DEF ReadFilter
<1>4. cur \in Filters BY DEF SyncInv, CallbackArgs
<1>. QED BY <1>3, <1>4 DEF OwnUserData

(* A section goes to user_data of the client that has the filter at that   *)
(* moment, although user_data survives AM_DMX_FreeFilter, the next         *)
(* AM_DMX_AllocateFilter and AM_DMX_Close, when clients use only their own *)
(* handles and set their own user_data before they start a filter.         *)
THEOREM SectionsReachTheOwner ==
  ASSUME ~Careless
  PROVE  Spec => DeliversToAllocator
<1>1. Init => OwnUserData BY DEF Init, OwnUserData
<1>2. FilterInv /\ SyncInv /\ RefInv /\ [Next]_vars => FilterInv'
  BY NextKeepsFilterInv
<1>3. OwnUserData /\ SyncInv /\ FilterInv /\ [Next]_vars => OwnUserData'
  BY NextKeepsUserData
<1>4. SyncInv /\ OwnUserData /\ [Next]_vars
        => [pc = "read" /\ pc' = "cb" => arg'[1] = owner[cur]]_vars
  BY ReadDelivers
<1>. QED BY <1>1, <1>2, <1>3, <1>4, InitFilterInv, SyncInvariant, RefInvariant, PTL
       DEF Spec, DeliversToAllocator

-----------------------------------------------------------------------------
(* How far the data thread is from its end, when it is told to end.  Each  *)
(* filter of the mask may cost it three steps: the scan, the read and the  *)
(* callback.                                                               *)
Closing == \E c \in Clients : cli[c] = "join"

Distance ==
  CASE pc \in {"none", "exited"} -> 0
    [] pc = "check"             -> 1
    [] pc = "wake"              -> 2
    [] pc = "clear"             -> 3
    [] pc = "scan"              -> 3 * Cardinality(mask) + 4
    [] pc \in {"cb", "cbsrc"}   -> 3 * Cardinality(mask) + 5
    [] pc = "flag"              -> 3 * Cardinality(mask) + 5
    [] pc = "read"              -> 3 * Cardinality(mask) + 6
    [] pc = "poll"              -> 3 * NFilter + 6

(* Nobody enables the thread again while am_gAdpLock is held.              *)
CloseInv == Closing => ~enableThread /\ pc # "none"

LEMMA MaskSizes ==
  ASSUME NEW m \in SUBSET Filters
  PROVE  Cardinality(m) \in 0 .. NFilter /\ IsFiniteSet(m)
<1>1. IsFiniteSet(Filters) /\ Cardinality(Filters) = NFilter
  BY DmxAssumption, FS_Interval DEF Filters
<1>2. IsFiniteSet(m) /\ Cardinality(m) <= Cardinality(Filters) BY <1>1, FS_Subset
<1>3. Cardinality(m) \in Nat BY <1>2, FS_CardinalityType
<1>. QED BY <1>1, <1>2, <1>3, DmxAssumption

LEMMA NextKeepsCloseInv ==
  ASSUME CloseInv, SyncInv, RefInv, RefInv', [Next]_vars PROVE CloseInv'
<1>1. ASSUME UNCHANGED <<enableThread, cli, pc>> PROVE CloseInv'
  BY <1>1 DEF CloseInv, Closing
<1>2. CASE ThreadStep \/ ThreadWake
  <2>1. UNCHANGED enableThread /\ pc' # "none"
    BY <1>2 DEF ThreadStep, ThreadWake, CheckEnable, Poll, SetRunCb, ScanFilter, ScanDone,
       ReadFilter, CallbackReturn, ClearRunCb, Broadcast
  <2>2. Closing' => Closing
    BY <1>2 DEF ThreadStep, ThreadWake, Broadcast, Closing, SyncInv, TypeOK
  <2>. QED BY <2>1, <2>2 DEF CloseInv
<1>3. CASE CallbackCall BY <1>1, <1>3 DEF CallbackCall, devVars, thrVars
<1>4. CASE CallbackSetSource
  <2>1. UNCHANGED <<enableThread, cli>> /\ pc' # "none" BY <1>4 DEF CallbackSetSource
  <2>. QED BY <2>1 DEF CloseInv, Closing
<1>5. ASSUME NEW c \in Clients, ClientStep(c) PROVE CloseInv'
  <2>1. CASE Open(c)
    <3>1. adp' = Nil BY <2>1 DEF Open
    <3>. QED BY <3>1, DmxAssumption DEF RefInv, CloseInv, Closing
  <2>2. CASE CloseBegin(c)
    <3>1. CASE openCount = 1
      <4>1. ~enableThread' /\ pc' = pc BY <2>2, <3>1 DEF CloseBegin, thrVars
      <4>2. pc # "none" BY <3>1 DEF RefInv, ReferenceCount
      <4>. QED BY <4>1, <4>2 DEF CloseInv
    <3>2. CASE openCount # 1
      <4>1. adp' = Nil BY <2>2, <3>2 DEF CloseBegin
      <4>. QED BY <4>1, DmxAssumption DEF RefInv, CloseInv, Closing
    <3>. QED BY <3>1, <3>2
  <2>3. CASE CloseEnd(c)
    <3>1. adp' = Nil BY <2>3 DEF CloseEnd
    <3>. QED BY <3>1, DmxAssumption DEF RefInv, CloseInv, Closing
  <2>4. CASE ClientCall(c) BY <1>1, <2>4 DEF ClientCall, devVars, thrVars
  <2>5. CASE ClientSetSource(c) \/ SyncCall(c) \/ SyncRetest(c) \/ SpuriousWake(c)
    <3>1. UNCHANGED <<enableThread, pc>>
      BY <2>5 DEF ClientSetSource, SyncCall, SyncRetest, SpuriousWake, devVars, thrVars
    <3>2. Closing' => Closing
      BY <2>5 DEF ClientSetSource, SyncCall, SyncRetest, SpuriousWake, Closing, SyncInv, TypeOK
    <3>. QED BY <3>1, <3>2 DEF CloseInv
  <2>. QED BY <1>5, <2>1, <2>2, <2>3, <2>4, <2>5 DEF ClientStep
<1>6. CASE UNCHANGED vars BY <1>1, <1>6 DEF vars, devVars, thrVars
<1>. QED BY <1>2, <1>3, <1>4, <1>5, <1>6 DEF Next

(* Whatever happens meanwhile, each step of the thread brings it nearer.   *)
LEMMA ThreadComesNearer ==
  ASSUME SyncInv, ~enableThread, ThreadStep \/ ThreadWake
  PROVE  Distance' \in Nat /\ Distance' < Distance
<1>0. mask \in SUBSET Filters BY DEF SyncInv, TypeOK
<1>1. PICK k : k = Cardinality(mask) OBVIOUS
<1>2. k \in Nat BY <1>0, <1>1, MaskSizes, DmxAssumption
<1>3. NFilter \in Nat BY DmxAssumption
<1>4. CASE CheckEnable BY <1>4 DEF CheckEnable, Distance
<1>5. CASE Poll
  <2>1. PICK m \in SUBSET Filters : mask' = m /\ pc' = IF m = {} THEN "check" ELSE "flag"
    BY <1>5 DEF Poll
  <2>2. PICK j : j = Cardinality(m) OBVIOUS
  <2>3. j \in Nat /\ j <= NFilter BY <2>2, <1>3, MaskSizes
  <2>4. Distance = 3 * NFilter + 6 BY <1>5 DEF Poll, Distance
  <2>5. pc' = "check" => Distance' = 1 BY DEF Distance
  <2>6. pc' = "flag" => Distance' = 3 * j + 5 BY <2>1, <2>2 DEF Distance
  <2>. QED BY <1>3, <2>1, <2>3, <2>4, <2>5, <2>6
<1>6. CASE SetRunCb
  <2>1. Distance = 3 * k + 5 /\ Distance' = 3 * k + 4 BY <1>1, <1>6 DEF SetRunCb, Distance
  <2>. QED BY <1>2, <2>1
<1>7. CASE ScanFilter
  <2>1. PICK f \in mask : mask' = mask \ {f} /\ pc' \in {"scan", "read"}
    BY <1>7 DEF ScanFilter
  <2>2. PICK j : j = Cardinality(mask') OBVIOUS
  <2>3. j = k - 1 BY <1>0, <1>1, <2>1, <2>2, MaskSizes, FS_RemoveElement
  <2>4. Distance = 3 * k + 4 BY <1>1, <1>7 DEF ScanFilter, Distance
  <2>5. Distance' \in {3 * j + 4, 3 * j + 6} BY <2>1, <2>2 DEF Distance
  <2>. QED BY <1>2, <2>3, <2>4, <2>5
<1>8. CASE ScanDone
  <2>1. Distance = 3 * k + 4 /\ Distance' = 3 BY <1>1, <1>8 DEF ScanDone, Distance
  <2>. QED BY <1>2, <2>1
<1>9. CASE ReadFilter
  <2>1. pc = "read" /\ pc' \in {"cb", "scan"} /\ mask' = mask BY <1>9 DEF ReadFilter
  <2>2. Distance = 3 * k + 6 /\ Distance' \in {3 * k + 4, 3 * k + 5} BY <1>1, <2>1 DEF Distance
  <2>. QED BY <1>2, <2>2
<1>10. CASE CallbackReturn
  <2>1. Distance = 3 * k + 5 /\ Distance' = 3 * k + 4
    BY <1>1, <1>10 DEF CallbackReturn, Distance
  <2>. QED BY <1>2, <2>1
<1>11. CASE ClearRunCb BY <1>11 DEF ClearRunCb, Distance
<1>12. CASE ThreadWake BY <1>12 DEF ThreadWake, Broadcast, Distance
<1>. QED BY <1>4, <1>5, <1>6, <1>7, <1>8, <1>9, <1>10, <1>11, <1>12 DEF ThreadStep

LEMMA DistanceBounded ==
  ASSUME SyncInv, CloseInv, Closing
  PROVE  Distance \in 0 .. 3 * NFilter + 6 /\ (Distance = 0 <=> pc = "exited")
<1>1. mask \in SUBSET Filters BY DEF SyncInv, TypeOK
<1>2. PICK k : k = Cardinality(mask) OBVIOUS
<1>3. k \in Nat /\ k <= NFilter /\ NFilter \in Nat BY <1>1, <1>2, MaskSizes, DmxAssumption
<1>4. pc \in {"check", "poll", "flag", "scan", "read", "cb", "cbsrc", "clear", "wake", "exited"}
  BY DEF SyncInv, TypeOK, CloseInv
<1>5. \/ Distance = 0 /\ pc = "exited"
      \/ pc # "exited" /\ Distance \in {1, 2, 3, 3 * k + 4, 3 * k + 5, 3 * k + 6, 3 * NFilter + 6}
  BY <1>2, <1>4 DEF Distance
<1>. QED BY <1>3, <1>5

(* No step takes the thread further from its end.                          *)
LEMMA NothingDelays ==
  ASSUME SyncInv, RefInv, CloseInv, Closing, [Next]_vars
  PROVE  Distance' <= Distance
<1>0. PICK n : n = Distance OBVIOUS
<1>1. n \in Nat BY <1>0, DistanceBounded, DmxAssumption
<1>2. ASSUME UNCHANGED <<pc, mask>> PROVE Distance' <= Distance
  <2>1. Distance' = Distance BY <1>2 DEF Distance
  <2>. QED BY <1>0, <1>1, <2>1
<1>3. CASE ThreadStep \/ ThreadWake
  <2>1. Distance' \in Nat /\ Distance' < Distance BY <1>3, ThreadComesNearer DEF CloseInv
  <2>. QED BY <1>0, <1>1, <2>1
<1>4. CASE CallbackCall BY <1>2, <1>4 DEF CallbackCall, thrVars
<1>5. CASE CallbackSetSource
  <2>1. pc \in {"cb", "cbsrc"} /\ pc' \in {"cb", "cbsrc"} /\ mask' = mask
    BY <1>5 DEF CallbackSetSource
  <2>2. Distance' = Distance BY <2>1 DEF Distance
  <2>. QED BY <1>0, <1>1, <2>2
<1>6. ASSUME NEW c \in Clients, ClientStep(c) PROVE Distance' <= Distance
  <2>1. adp # Nil BY DmxAssumption DEF Closing, RefInv
  <2>2. CASE CloseEnd(c)
    <3>1. Distance' = 0 BY <2>2 DEF CloseEnd, Distance
    <3>. QED BY <1>0, <1>1, <3>1
  <2>3. CASE ~CloseEnd(c)
    BY <1>2, <1>6, <2>1, <2>3 DEF ClientStep, Open, CloseBegin, ClientCall, ClientSetSource,
       SyncCall, SyncRetest, SpuriousWake, thrVars
  <2>. QED BY <2>2, <2>3
<1>7. CASE UNCHANGED vars BY <1>2, <1>7 DEF vars, thrVars
<1>. QED BY <1>3, <1>4, <1>5, <1>6, <1>7 DEF Next

(* While a client closes, the thread comes nearer, and nothing takes it    *)
(* further.                                                                *)
CloseNears ==
  [][Closing => /\ Distance' <= Distance
                /\ ThreadStep \/ ThreadWake => Distance' < Distance]_vars

(* Meanwhile it is so many steps away at most, and none at its end only.   *)
CloseBounded ==
  Closing => Distance \in 0 .. 3 * NFilter + 6 /\ (Distance = 0 <=> pc = "exited")

(* AM_DMX_Close joins the thread with am_gAdpLock held: up to the end of   *)
(* the thread no call, of another client or of a callback, takes it        *)
(* further from there, and it has 3 * NFilter + 6 steps to make at most.   *)
(* (Unless its callback waits for the same lock in AM_DMX_SetSource, the   *)
(* one place where it makes no step.)                                      *)
THEOREM CloseComesNearer == Spec => []CloseBounded /\ CloseNears
<1>1. Init => CloseInv BY DEF Init, CloseInv, Closing
<1>2. CloseInv /\ SyncInv /\ RefInv /\ RefInv' /\ [Next]_vars => CloseInv'
  BY NextKeepsCloseInv
<1>3. SyncInv /\ CloseInv => CloseBounded BY DistanceBounded DEF CloseBounded
<1>4. SyncInv /\ RefInv /\ CloseInv /\ [Next]_vars
        => [Closing => /\ Distance' <= Distance
                       /\ ThreadStep \/ ThreadWake => Distance' < Distance]_vars
  BY NothingDelays, ThreadComesNearer DEF CloseInv
<1>. QED BY <1>1, <1>2, <1>3, <1>4, SyncInvariant, RefInvariant, PTL DEF Spec, CloseNears
=============================================================================
