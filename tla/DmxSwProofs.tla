---------------------------- MODULE DmxSwProofs ----------------------------
(***************************************************************************)
(* The channels of the software filters are counted right, for every       *)
(* number of filters, channels and PIDs.                                   *)
(***************************************************************************)
EXTENDS DmxSw, FiniteSetTheorems, TLAPS

RefsInv == TypeOK /\ ChannelRefs

LEMMA EnabledOnFinite ==
  ASSUME NEW c PROVE IsFiniteSet(EnabledOn(c)) /\ Cardinality(EnabledOn(c)) \in Nat
<1>1. IsFiniteSet(Filters) BY FS_Interval, DmxSwAssumption DEF Filters
<1>2. EnabledOn(c) \subseteq Filters BY DEF EnabledOn
<1>. QED BY <1>1, <1>2, FS_Subset, FS_CardinalityType

LEMMA TapType ==
  ASSUME chUsed' \in [Channels -> Int], chPid' \in [Channels -> Pids \cup {NoPid}],
         ResetTaps \/ UNCHANGED tap, TypeOK
  PROVE  tap' \in [Channels -> Pids \cup {NoPid, Nil}]
BY DEF ResetTaps, TypeOK

(* dvr_enable_filter(FALSE) on an enabled filter.                          *)
LEMMA DisableKeepsRefs ==
  ASSUME RefsInv, NEW f \in Filters, enable[f], Disable(f),
         chan' = chan,
         used'  \in [Filters -> BOOLEAN], pid' \in [Filters -> Pids \cup {NoPid}],
         kind' \in [Filters -> {"sec", "pes"}],
         \A g \in Filters : g # f => used'[g] = used[g] /\ pid'[g] = pid[g] /\ kind'[g] = kind[g]
  PROVE  /\ enable' \in [Filters -> BOOLEAN]
         /\ chUsed' \in [Channels -> Int]
         /\ chPid' = chPid /\ chKind' = chKind
         /\ tap' \in [Channels -> Pids \cup {NoPid, Nil}]
         /\ ChannelRefs'
<1>. DEFINE c0 == chan[f]
<1>1. c0 \in Channels BY DEF RefsInv, TypeOK, ChannelRefs
<1>2. /\ chUsed' = [chUsed EXCEPT ![c0] = @ - 1] /\ chPid' = chPid /\ chKind' = chKind
      /\ enable' = [enable EXCEPT ![f] = FALSE]
      /\ ResetTaps \/ UNCHANGED tap
  BY DEF Disable
<1>3. enable' \in [Filters -> BOOLEAN] /\ chUsed' \in [Channels -> Int]
  <2>1. enable' \in [Filters -> BOOLEAN] BY <1>2 DEF RefsInv, TypeOK
  <2>2. chUsed' \in [Channels -> Int] BY <1>1, <1>2 DEF RefsInv, TypeOK
  <2>. QED BY <2>1, <2>2
<1>4. tap' \in [Channels -> Pids \cup {NoPid, Nil}]
  BY <1>2, <1>3, TapType DEF RefsInv, TypeOK
<1>5. f \in EnabledOn(c0) BY DEF EnabledOn
<1>6. EnabledOn(c0)' = EnabledOn(c0) \ {f}
  BY <1>2 DEF EnabledOn, RefsInv, TypeOK
<1>7. ASSUME NEW c \in Channels, c # c0 PROVE EnabledOn(c)' = EnabledOn(c)
  BY <1>2, <1>7 DEF EnabledOn, RefsInv, TypeOK
<1>8. chUsed[c0] \in Nat /\ chUsed[c0] > 0
  <2>1. EnabledOn(c0) # {} BY <1>5
  <2>2. Cardinality(EnabledOn(c0)) # 0 BY <2>1, EnabledOnFinite, FS_EmptySet
  <2>. QED BY <1>1, <2>2, EnabledOnFinite DEF RefsInv, ChannelRefs
<1>9. ASSUME NEW c \in Channels PROVE chUsed'[c] = Cardinality(EnabledOn(c)')
  <2>1. CASE c = c0
    <3>1. Cardinality(EnabledOn(c0)') = Cardinality(EnabledOn(c0)) - 1
      BY <1>5, <1>6, EnabledOnFinite, FS_RemoveElement
    <3>2. chUsed'[c0] = chUsed[c0] - 1 BY <1>1, <1>2 DEF RefsInv, TypeOK
    <3>. QED BY <1>1, <2>1, <3>1, <3>2 DEF RefsInv, ChannelRefs
  <2>2. CASE c # c0
    <3>1. chUsed'[c] = chUsed[c] BY <1>2, <2>2 DEF RefsInv, TypeOK
    <3>. QED BY <1>7, <2>2, <3>1 DEF RefsInv, ChannelRefs
  <2>. QED BY <2>1, <2>2
<1>10. ASSUME NEW g \in Filters, enable'[g]
       PROVE  /\ used'[g] /\ chan'[g] # Nil /\ chPid'[chan'[g]] = pid'[g]
              /\ chKind'[chan'[g]] = kind'[g]
  <2>1. g # f /\ enable[g] BY <1>2, <1>10 DEF RefsInv, TypeOK
  <2>. QED BY <1>2, <2>1 DEF RefsInv, ChannelRefs
<1>11. ASSUME NEW c \in Channels, chUsed'[c] # 0 PROVE chUsed[c] # 0
  <2>1. CASE c = c0 BY <1>8, <2>1
  <2>2. CASE c # c0 BY <1>2, <1>11, <2>2 DEF RefsInv, TypeOK
  <2>. QED BY <2>1, <2>2
<1>12. \A c, d \in Channels :
         chUsed'[c] # 0 /\ chUsed'[d] # 0 /\ chPid'[c] = chPid'[d] => c = d
  BY <1>2, <1>11 DEF RefsInv, ChannelRefs
<1>13. ChannelRefs' BY <1>9, <1>10, <1>12 DEF ChannelRefs
<1>. QED BY <1>2, <1>3, <1>4, <1>13

(* A step that changes nothing the count looks at, but for filters that    *)
(* are not enabled.                                                        *)
LEMMA IdleKeepsRefs ==
  ASSUME RefsInv, UNCHANGED <<enable, chan, chanVars>>,
         \A g \in Filters : enable[g] =>
            used'[g] = used[g] /\ pid'[g] = pid[g] /\ kind'[g] = kind[g]
  PROVE  ChannelRefs'
<1>1. \A c \in Channels : EnabledOn(c)' = EnabledOn(c) BY DEF EnabledOn
<1>. QED BY <1>1 DEF RefsInv, ChannelRefs, chanVars

LEMMA StartKeepsRefs ==
  ASSUME RefsInv, NEW f \in Filters, StartFilter(f)
  PROVE  /\ enable' \in [Filters -> BOOLEAN]
         /\ chan' \in [Filters -> Channels \cup {Nil}]
         /\ chUsed' \in [Channels -> Int]
         /\ chPid' \in [Channels -> Pids \cup {NoPid}]
         /\ chKind' \in [Channels -> {"sec", "pes"}]
         /\ tap' \in [Channels -> Pids \cup {NoPid, Nil}]
         /\ ChannelRefs'
<1>1. PICK c0 \in Channels : /\ FindChannel(f, c0)
                             /\ chan' = [chan EXCEPT ![f] = c0]
                             /\ ResetTaps \/ UNCHANGED tap
  BY DEF StartFilter
<1>2. /\ used[f] /\ ~enable[f] /\ enable' = [enable EXCEPT ![f] = TRUE]
      /\ UNCHANGED <<used, pid, kind>>
  BY DEF StartFilter
<1>3. chUsed[c0] \in Nat
  BY EnabledOnFinite DEF RefsInv, ChannelRefs
<1>4. chUsed' = [chUsed EXCEPT ![c0] = chUsed[c0] + 1]
  BY <1>1, <1>3 DEF FindChannel, RefsInv, TypeOK
<1>5. /\ chPid' = [chPid EXCEPT ![c0] = pid[f]] /\ chKind' = [chKind EXCEPT ![c0] = kind[f]]
      /\ \A d \in Channels : d # c0 /\ chUsed[d] # 0 => chPid[d] # pid[f]
      /\ chUsed[c0] # 0 => chPid[c0] = pid[f] /\ chKind[c0] = kind[f]
  <2>1. CASE chUsed[c0] # 0
    <3>1. chPid[c0] = pid[f] /\ chKind[c0] = kind[f] /\ UNCHANGED <<chPid, chKind>>
      BY <1>1, <2>1 DEF FindChannel
    <3>. QED BY <2>1, <3>1 DEF RefsInv, ChannelRefs, TypeOK
  <2>2. CASE chUsed[c0] = 0
    BY <1>1, <2>2 DEF FindChannel
  <2>. QED BY <2>1, <2>2
<1>6. /\ enable' \in [Filters -> BOOLEAN]
      /\ chan' \in [Filters -> Channels \cup {Nil}]
      /\ chPid' \in [Channels -> Pids \cup {NoPid}]
      /\ chKind' \in [Channels -> {"sec", "pes"}]
  BY <1>1, <1>2, <1>5 DEF RefsInv, TypeOK
<1>7. chUsed' \in [Channels -> Int] BY <1>3, <1>4 DEF RefsInv, TypeOK
<1>8. tap' \in [Channels -> Pids \cup {NoPid, Nil}]
  BY <1>1, <1>6, <1>7, TapType DEF RefsInv
<1>9. f \notin EnabledOn(c0) BY <1>2 DEF EnabledOn
<1>10. EnabledOn(c0)' = EnabledOn(c0) \cup {f}
  BY <1>1, <1>2 DEF EnabledOn, RefsInv, TypeOK
<1>11. ASSUME NEW c \in Channels, c # c0 PROVE EnabledOn(c)' = EnabledOn(c)
  BY <1>1, <1>2, <1>11 DEF EnabledOn, RefsInv, TypeOK
<1>12. ASSUME NEW c \in Channels PROVE chUsed'[c] = Cardinality(EnabledOn(c)')
  <2>1. CASE c = c0
    <3>1. Cardinality(EnabledOn(c0)') = Cardinality(EnabledOn(c0)) + 1
      BY <1>9, <1>10, EnabledOnFinite, FS_AddElement
    <3>2. chUsed'[c0] = chUsed[c0] + 1 BY <1>4 DEF RefsInv, TypeOK
    <3>. QED BY <2>1, <3>1, <3>2 DEF RefsInv, ChannelRefs
  <2>2. CASE c # c0
    <3>1. chUsed'[c] = chUsed[c] BY <1>4, <2>2 DEF RefsInv, TypeOK
    <3>. QED BY <1>11, <2>2, <3>1 DEF RefsInv, ChannelRefs
  <2>. QED BY <2>1, <2>2
<1>13. ASSUME NEW g \in Filters, enable'[g]
       PROVE  /\ used'[g] /\ chan'[g] # Nil /\ chPid'[chan'[g]] = pid'[g]
              /\ chKind'[chan'[g]] = kind'[g]
  <2>1. CASE g = f
    BY <1>1, <1>2, <1>5, <2>1, DmxSwAssumption DEF RefsInv, TypeOK
  <2>2. CASE g # f
    <3>1. enable[g] /\ chan'[g] = chan[g] BY <1>1, <1>2, <1>13, <2>2 DEF RefsInv, TypeOK
    <3>2. chan[g] \in Channels /\ used[g] /\ chPid[chan[g]] = pid[g] /\ chKind[chan[g]] = kind[g]
      BY <3>1 DEF RefsInv, TypeOK, ChannelRefs
    <3>3. chan[g] = c0 => chUsed[c0] # 0
      <4>1. chan[g] = c0 => EnabledOn(c0) # {} BY <3>1 DEF EnabledOn
      <4>2. chan[g] = c0 => Cardinality(EnabledOn(c0)) # 0
        BY <4>1, EnabledOnFinite, FS_EmptySet
      <4>. QED BY <4>2 DEF RefsInv, ChannelRefs
    <3>4. chPid'[chan[g]] = chPid[chan[g]] /\ chKind'[chan[g]] = chKind[chan[g]]
      BY <1>5, <3>2, <3>3 DEF RefsInv, TypeOK
    <3>. QED BY <1>2, <3>1, <3>2, <3>4, DmxSwAssumption
  <2>. QED BY <2>1, <2>2
<1>14. ASSUME NEW c \in Channels, NEW d \in Channels,
              chUsed'[c] # 0, chUsed'[d] # 0, chPid'[c] = chPid'[d]
       PROVE  c = d
  <2>1. \A e \in Channels : e # c0 => chUsed'[e] = chUsed[e] /\ chPid'[e] = chPid[e]
    BY <1>4, <1>5 DEF RefsInv, TypeOK
  <2>2. chPid'[c0] = pid[f] BY <1>5 DEF RefsInv, TypeOK
  <2>. QED BY <1>5, <1>14, <2>1, <2>2 DEF RefsInv, ChannelRefs
<1>15. ChannelRefs' BY <1>12, <1>13, <1>14 DEF ChannelRefs
<1>. QED BY <1>6, <1>7, <1>8, <1>15

LEMMA FilterCallKeepsRefs ==
  ASSUME RefsInv, NEW ops, FilterCall(ops), UNCHANGED <<thrVars, crashed>>
  PROVE  RefsInv'
<1>1. silent' \in SUBSET Filters BY DEF FilterCall, RefsInv, TypeOK
<1>2. CASE AllocateFilter
  <2>1. \A g \in Filters : enable[g] =>
          used'[g] = used[g] /\ pid'[g] = pid[g] /\ kind'[g] = kind[g]
    BY <1>2 DEF AllocateFilter, RefsInv, ChannelRefs, TypeOK
  <2>2. ChannelRefs' BY <1>2, <2>1, IdleKeepsRefs DEF AllocateFilter
  <2>. QED BY <1>1, <1>2, <2>2 DEF AllocateFilter, RefsInv, TypeOK, thrVars, chanVars
<1>3. ASSUME NEW f \in Filters, StopFilter(f) PROVE RefsInv'
  <2>1. /\ enable[f] /\ Disable(f) /\ UNCHANGED <<used, pid, kind, table, chan>>
    BY <1>3 DEF StopFilter
  <2>2. ChannelRefs' /\ TypeOK'
    BY <1>1, <2>1, DisableKeepsRefs DEF RefsInv, TypeOK, thrVars
  <2>. QED BY <2>2 DEF RefsInv
<1>4. ASSUME NEW f \in Filters, SetFilter(f) PROVE RefsInv'
  <2>1. /\ IF enable[f] THEN Disable(f) ELSE UNCHANGED <<enable, chanVars>>
        /\ UNCHANGED <<used, chan>>
        /\ pid' \in [Filters -> Pids \cup {NoPid}] /\ kind' \in [Filters -> {"sec", "pes"}]
        /\ table' \in [Filters -> Tables \cup {Nil}]
        /\ \A g \in Filters : g # f => pid'[g] = pid[g] /\ kind'[g] = kind[g]
    BY <1>4, DmxSwAssumption DEF SetFilter, RefsInv, TypeOK
  <2>2. CASE enable[f]
    <3>1. /\ enable' \in [Filters -> BOOLEAN] /\ chUsed' \in [Channels -> Int]
          /\ chPid' = chPid /\ chKind' = chKind
          /\ tap' \in [Channels -> Pids \cup {NoPid, Nil}]
          /\ ChannelRefs'
      BY <2>1, <2>2, DisableKeepsRefs DEF RefsInv, TypeOK
    <3>. QED BY <1>1, <2>1, <3>1 DEF RefsInv, TypeOK, thrVars
  <2>3. CASE ~enable[f]
    <3>1. ChannelRefs' BY <2>1, <2>3, IdleKeepsRefs
    <3>. QED BY <1>1, <2>1, <2>3, <3>1 DEF RefsInv, TypeOK, thrVars, chanVars
  <2>. QED BY <2>2, <2>3
<1>5. ASSUME NEW f \in Filters, FreeFilter(f) PROVE RefsInv'
  <2>1. /\ IF enable[f] THEN Disable(f) ELSE UNCHANGED <<enable, chanVars>>
        /\ used' = [used EXCEPT ![f] = FALSE]
        /\ UNCHANGED <<pid, kind, table, chan>>
    BY <1>5 DEF FreeFilter
  <2>2. used' \in [Filters -> BOOLEAN] /\ \A g \in Filters : g # f => used'[g] = used[g]
    BY <2>1 DEF RefsInv, TypeOK
  <2>3. CASE enable[f]
    <3>1. /\ enable' \in [Filters -> BOOLEAN] /\ chUsed' \in [Channels -> Int]
          /\ chPid' = chPid /\ chKind' = chKind
          /\ tap' \in [Channels -> Pids \cup {NoPid, Nil}]
          /\ ChannelRefs'
      BY <2>1, <2>2, <2>3, DisableKeepsRefs DEF RefsInv, TypeOK
    <3>. QED BY <1>1, <2>1, <2>2, <3>1 DEF RefsInv, TypeOK, thrVars
  <2>4. CASE ~enable[f]
    <3>1. ChannelRefs' BY <2>1, <2>2, <2>4, IdleKeepsRefs
    <3>. QED BY <1>1, <2>1, <2>2, <2>4, <3>1 DEF RefsInv, TypeOK, thrVars, chanVars
  <2>. QED BY <2>3, <2>4
<1>6. ASSUME NEW f \in Filters, StartFilter(f) PROVE RefsInv'
  <2>1. UNCHANGED <<used, pid, kind, table>> BY <1>6 DEF StartFilter
  <2>. QED BY <1>1, <1>6, <2>1, StartKeepsRefs DEF RefsInv, TypeOK, thrVars
<1>. QED BY <1>2, <1>3, <1>4, <1>5, <1>6 DEF FilterCall

LEMMA ThreadKeepsRefs ==
  ASSUME RefsInv, Packet \/ CallbackReturn \/ Sync
  PROVE  RefsInv'
<1>1. UNCHANGED <<filterVars, chanVars>> BY DEF Packet, CallbackReturn, Sync
<1>2. ChannelRefs' BY <1>1, IdleKeepsRefs DEF filterVars
<1>3. CASE Sync
  BY <1>1, <1>2, <1>3 DEF Sync, RefsInv, TypeOK, filterVars, chanVars, thrVars
<1>4. CASE Packet
  <2>1. /\ pc' \in {"poll", "cb"} /\ ch' \in Channels \cup {Nil}
        /\ cur' \in Filters \cup {Nil} /\ inPid' \in Pids \cup {Nil}
        /\ crashed' \in BOOLEAN /\ silent' = silent
    BY <1>4 DEF Packet, Deliver, RefsInv, TypeOK, thrVars
  <2>2. left' \in 0 .. MaxSections
    BY <1>4, DmxSwAssumption DEF Packet, RefsInv, TypeOK, thrVars
  <2>. QED BY <1>1, <1>2, <2>1, <2>2 DEF RefsInv, TypeOK, filterVars, chanVars
<1>5. CASE CallbackReturn
  <2>1. /\ pc' \in {"poll", "cb"} /\ ch' \in Channels \cup {Nil}
        /\ cur' \in Filters \cup {Nil} /\ inPid' \in Pids \cup {Nil}
        /\ crashed' = crashed /\ silent' = silent
    BY <1>5 DEF CallbackReturn, Deliver, RefsInv, TypeOK
  <2>2. left' \in 0 .. MaxSections
    BY <1>5, DmxSwAssumption DEF CallbackReturn, RefsInv, TypeOK
  <2>. QED BY <1>1, <1>2, <2>1, <2>2 DEF RefsInv, TypeOK, filterVars, chanVars
<1>. QED BY <1>3, <1>4, <1>5

LEMMA InitRefs == Init => RefsInv
<1>. SUFFICES ASSUME Init PROVE RefsInv
  OBVIOUS
<1>1. \A c \in Channels : EnabledOn(c) = {} BY DEF Init, EnabledOn
<1>2. ChannelRefs BY <1>1, FS_EmptySet DEF Init, ChannelRefs
<1>3. left \in 0 .. MaxSections BY DmxSwAssumption DEF Init
<1>4. chUsed \in [Channels -> Int] BY DEF Init
<1>. QED BY <1>2, <1>3, <1>4 DEF Init, RefsInv, TypeOK

LEMMA NextRefs == RefsInv /\ [Next]_vars => RefsInv'
<1>. SUFFICES ASSUME RefsInv, [Next]_vars PROVE RefsInv'
  OBVIOUS
<1>1. CASE ClientCall \/ CallbackCall
  BY <1>1, FilterCallKeepsRefs DEF ClientCall, CallbackCall
<1>2. CASE Packet \/ CallbackReturn \/ Sync BY <1>2, ThreadKeepsRefs
<1>3. CASE UNCHANGED vars
  <2>1. ChannelRefs' BY <1>3, IdleKeepsRefs DEF vars, filterVars
  <2>. QED BY <1>3, <2>1 DEF vars, filterVars, chanVars, thrVars, RefsInv, TypeOK
<1>. QED BY <1>1, <1>2, <1>3 DEF Next

LEMMA RefsInvariant == Spec => []RefsInv
BY InitRefs, NextRefs, PTL DEF Spec

(* Every channel counts exactly the enabled filters on it, of its own PID  *)
(* and kind, and no PID has two channels: the PES tap of a PID is neither  *)
(* closed under a filter still enabled nor left open after the last one.   *)
THEOREM ChannelsCounted == Spec => []ChannelRefs
<1>1. RefsInv => ChannelRefs BY DEF RefsInv
<1>. QED BY <1>1, RefsInvariant, PTL

(* The state stays in its type: in particular a filter that is disabled    *)
(* always has a channel, and the data thread never takes more sections     *)
(* from a packet than it holds.                                            *)
THEOREM Typing == Spec => []TypeOK
<1>1. RefsInv => TypeOK BY DEF RefsInv
<1>. QED BY <1>1, RefsInvariant, PTL

-----------------------------------------------------------------------------
(* The PES taps.                                                           *)

(* While no tap fails to open, rebuilding the taps makes them match.       *)
LEMMA ResetMatches ==
  ASSUME "tap" \notin Faults, ResetTaps PROVE TapsMatch'
BY DEF ResetTaps, TapsMatch

(* A channel that does not become used or free, and keeps its PID, needs   *)
(* no other tap.                                                           *)
LEMMA NoResetMatches ==
  ASSUME TapsMatch, UNCHANGED tap,
         \A c \in Channels : /\ chUsed'[c] > 0 <=> chUsed[c] > 0
                             /\ chUsed[c] > 0 => chPid'[c] = chPid[c]
  PROVE  TapsMatch'
BY DEF TapsMatch

(* What a channel counts is never negative, and positive where an enabled  *)
(* filter is.                                                              *)
LEMMA CountsPositive ==
  ASSUME RefsInv
  PROVE  /\ \A c \in Channels : chUsed[c] \in Nat
         /\ \A f \in Filters : enable[f] => chan[f] \in Channels /\ chUsed[chan[f]] > 0
<1>1. \A c \in Channels : chUsed[c] \in Nat
  BY EnabledOnFinite DEF RefsInv, ChannelRefs
<1>2. ASSUME NEW f \in Filters, enable[f] PROVE chan[f] \in Channels /\ chUsed[chan[f]] > 0
  <2>1. chan[f] \in Channels BY <1>2 DEF RefsInv, ChannelRefs, TypeOK
  <2>2. f \in EnabledOn(chan[f]) BY <1>2 DEF EnabledOn
  <2>3. Cardinality(EnabledOn(chan[f])) # 0
    BY <2>2, EnabledOnFinite, FS_EmptySet
  <2>. QED BY <1>1, <2>1, <2>3 DEF RefsInv, ChannelRefs
<1>. QED BY <1>1, <1>2

LEMMA DisableKeepsTaps ==
  ASSUME "tap" \notin Faults, RefsInv, TapsMatch, NEW f \in Filters, enable[f],
         Disable(f)
  PROVE  TapsMatch'
<1>1. /\ chan[f] \in Channels /\ chUsed[chan[f]] > 0
      /\ \A c \in Channels : chUsed[c] \in Nat
  BY CountsPositive
<1>2. CASE chUsed'[chan[f]] = 0 BY <1>2, ResetMatches DEF Disable
<1>3. CASE chUsed'[chan[f]] # 0
  <2>1. UNCHANGED <<tap, chPid>> /\ chUsed' = [chUsed EXCEPT ![chan[f]] = @ - 1]
    BY <1>3 DEF Disable
  <2>2. \A c \in Channels : chUsed'[c] > 0 <=> chUsed[c] > 0
    BY <1>1, <1>3, <2>1 DEF RefsInv, TypeOK
  <2>. QED BY <2>1, <2>2, NoResetMatches
<1>. QED BY <1>2, <1>3

LEMMA StartKeepsTaps ==
  ASSUME "tap" \notin Faults, RefsInv, TapsMatch, NEW f \in Filters, StartFilter(f)
  PROVE  TapsMatch'
<1>1. PICK c0 \in Channels : /\ FindChannel(f, c0)
                             /\ IF chUsed'[c0] = 1 THEN ResetTaps ELSE UNCHANGED tap
  BY DEF StartFilter
<1>2. \A c \in Channels : chUsed[c] \in Nat BY CountsPositive
<1>3. CASE chUsed'[c0] = 1 BY <1>1, <1>3, ResetMatches
<1>4. CASE chUsed'[c0] # 1
  <2>1. /\ chUsed[c0] # 0 /\ chUsed' = [chUsed EXCEPT ![c0] = @ + 1]
        /\ UNCHANGED <<chPid, tap>>
    BY <1>1, <1>4 DEF FindChannel, RefsInv, TypeOK
  <2>2. \A c \in Channels : chUsed'[c] > 0 <=> chUsed[c] > 0
    BY <1>2, <2>1 DEF RefsInv, TypeOK
  <2>. QED BY <2>1, <2>2, NoResetMatches
<1>. QED BY <1>3, <1>4

LEMMA NextKeepsTaps ==
  ASSUME "tap" \notin Faults
  PROVE  TapsMatch /\ RefsInv /\ [Next]_vars => TapsMatch'
<1>. SUFFICES ASSUME TapsMatch, RefsInv, [Next]_vars PROVE TapsMatch'
  OBVIOUS
<1>1. ASSUME UNCHANGED chanVars PROVE TapsMatch'
  BY <1>1 DEF TapsMatch, chanVars
<1>2. ASSUME NEW ops, FilterCall(ops) PROVE TapsMatch'
  <2>1. CASE AllocateFilter BY <1>1, <2>1 DEF AllocateFilter
  <2>2. ASSUME NEW f \in Filters, StopFilter(f) PROVE TapsMatch'
    BY <2>2, DisableKeepsTaps DEF StopFilter
  <2>3. ASSUME NEW f \in Filters, SetFilter(f) PROVE TapsMatch'
    BY <1>1, <2>3, DisableKeepsTaps DEF SetFilter
  <2>4. ASSUME NEW f \in Filters, FreeFilter(f) PROVE TapsMatch'
    BY <1>1, <2>4, DisableKeepsTaps DEF FreeFilter
  <2>5. ASSUME NEW f \in Filters, StartFilter(f) PROVE TapsMatch'
    BY <2>5, StartKeepsTaps
  <2>. QED BY <1>2, <2>1, <2>2, <2>3, <2>4, <2>5 DEF FilterCall
<1>3. CASE Packet \/ CallbackReturn \/ Sync \/ UNCHANGED vars
  BY <1>1, <1>3 DEF Packet, CallbackReturn, Sync, vars
<1>. QED BY <1>2, <1>3 DEF Next, ClientCall, CallbackCall

(* While no PES tap fails to open, the hardware records exactly the PIDs   *)
(* of the channels in use, although dvr_enable_filter rebuilds the taps    *)
(* only when the count of a channel reaches 1 or 0.                        *)
THEOREM TapsFollowChannels ==
  ASSUME "tap" \notin Faults
  PROVE  Spec => []TapsMatch
<1>1. Init => TapsMatch BY DEF Init, TapsMatch
<1>2. TapsMatch /\ RefsInv /\ [Next]_vars => TapsMatch' BY NextKeepsTaps
<1>. QED BY <1>1, <1>2, RefsInvariant, PTL DEF Spec
=============================================================================
