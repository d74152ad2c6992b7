----------------------------- MODULE EvtProofs -----------------------------
(***************************************************************************)
(* Theorems about Evt, for every number of threads, topics, callbacks and  *)
(* subscriptions, when no callback function is subscribed by two threads;  *)
(* and about DmxUsers, for every number of filters, of streams and of      *)
(* users of the recorder.                                                  *)
(***************************************************************************)
EXTENDS EvtUsers, SequenceTheorems, FiniteSetTheorems, WellFoundedInduction, TLAPS

-----------------------------------------------------------------------------
(* The list of subscriptions.                                              *)

(* RemoveAt leaves out the element at position k.                          *)
LEMMA RemoveAtProperties ==
  ASSUME NEW S, NEW s \in Seq(S), NEW k \in 1 .. Len(s)
  PROVE  /\ RemoveAt(s, k) \in Seq(S)
         /\ Len(RemoveAt(s, k)) = Len(s) - 1
         /\ \A i \in 1 .. Len(s) - 1 :
              RemoveAt(s, k)[i] = IF i < k THEN s[i] ELSE s[i + 1]
<1>0. PICK a, b : a = SubSeq(s, 1, k - 1) /\ b = SubSeq(s, k + 1, Len(s))
  OBVIOUS
<1>2. RemoveAt(s, k) = a \o b
  BY <1>0 DEF RemoveAt
<1>3. /\ a \in Seq(S) /\ Len(a) = k - 1
      /\ \A i \in 1 .. k - 1 : a[i] = s[i]
  BY <1>0, SubSeqProperties
<1>4. /\ b \in Seq(S) /\ Len(b) = Len(s) - k
      /\ \A i \in 1 .. Len(s) - k : b[i] = s[k + i]
  BY <1>0, SubSeqProperties
<1>5. /\ a \o b \in Seq(S) /\ Len(a \o b) = Len(s) - 1
      /\ \A i \in 1 .. Len(s) - 1 :
           (a \o b)[i] = IF i <= k - 1 THEN a[i] ELSE b[i - (k - 1)]
  <2>1. /\ a \o b \in Seq(S) /\ Len(a \o b) = Len(a) + Len(b)
        /\ \A i \in 1 .. Len(a) + Len(b) :
             (a \o b)[i] = IF i <= Len(a) THEN a[i] ELSE b[i - Len(a)]
    <3>1. a \in Seq(S) /\ b \in Seq(S) BY <1>3, <1>4
    <3>. QED BY <3>1, ConcatProperties, Zenon
  <2>2. Len(a) + Len(b) = Len(s) - 1 BY <1>3, <1>4
  <2>. QED BY <1>3, <2>1, <2>2
<1>6. \A i \in 1 .. Len(s) - 1 : (a \o b)[i] = IF i < k THEN s[i] ELSE s[i + 1]
  <2>. TAKE i \in 1 .. Len(s) - 1
  <2>1. CASE i < k BY <1>3, <1>5, <2>1
  <2>2. CASE ~(i < k)
    <3>1. i - (k - 1) \in 1 .. Len(s) - k /\ k + (i - (k - 1)) = i + 1
      BY <2>2
    <3>2. (a \o b)[i] = b[i - (k - 1)] BY <1>5, <2>2
    <3>. QED BY <1>4, <2>2, <3>1, <3>2
  <2>. QED BY <2>1, <2>2
<1>. QED BY <1>2, <1>5, <1>6

(* RemoveFirst on a list without duplicates: the list itself when the      *)
(* element is absent, or else the list without its only position.          *)
LEMMA RemoveFirstUnique ==
  ASSUME NEW S, NEW s \in Seq(S), NEW e,
         \A i, j \in 1 .. Len(s) : s[i] = s[j] => i = j
  PROVE  \/ /\ RemoveFirst(s, e) = s
            /\ \A i \in 1 .. Len(s) : s[i] # e
         \/ \E k \in 1 .. Len(s) :
              /\ s[k] = e
              /\ RemoveFirst(s, e) \in Seq(S)
              /\ Len(RemoveFirst(s, e)) = Len(s) - 1
              /\ \A i \in 1 .. Len(s) - 1 :
                   RemoveFirst(s, e)[i] = IF i < k THEN s[i] ELSE s[i + 1]
<1>1. CASE \A i \in 1 .. Len(s) : s[i] # e
  BY <1>1 DEF RemoveFirst
<1>2. ASSUME NEW k \in 1 .. Len(s), s[k] = e
      PROVE  /\ RemoveFirst(s, e) \in Seq(S)
             /\ Len(RemoveFirst(s, e)) = Len(s) - 1
             /\ \A i \in 1 .. Len(s) - 1 :
                  RemoveFirst(s, e)[i] = IF i < k THEN s[i] ELSE s[i + 1]
  <2>1. SelectInSeq(s, LAMBDA v : v = e) = k
    <3>1. {i \in 1 .. Len(s) : s[i] = e} = {k} BY <1>2
    <3>. QED BY <1>2, <3>1 DEF SelectInSeq, Min
  <2>2. RemoveFirst(s, e) = RemoveAt(s, k)
    BY <1>2, <2>1 DEF RemoveFirst
  <2>3. /\ RemoveAt(s, k) \in Seq(S)
        /\ Len(RemoveAt(s, k)) = Len(s) - 1
        /\ \A i \in 1 .. Len(s) - 1 :
             RemoveAt(s, k)[i] = IF i < k THEN s[i] ELSE s[i + 1]
    BY <1>2, RemoveAtProperties
  <2>. QED BY <2>2, <2>3, Zenon
<1>. QED BY <1>1, <1>2

(* Unlinking a subscription from a list without duplicates.                *)
LEMMA UnlinkedList ==
  ASSUME NEW s \in Seq(Nodes), NEW n \in Nodes,
         \A i, j \in 1 .. Len(s) : Same(s[i], s[j]) => i = j
  PROVE  /\ RemoveFirst(s, n) \in Seq(Nodes)
         /\ \A i, j \in 1 .. Len(RemoveFirst(s, n)) :
              Same(RemoveFirst(s, n)[i], RemoveFirst(s, n)[j]) => i = j
         /\ ToSet(RemoveFirst(s, n)) \subseteq ToSet(s) \ {n}
<1>1. \A i, j \in 1 .. Len(s) : s[i] = s[j] => i = j BY DEF Same
<1>2. CASE RemoveFirst(s, n) = s /\ \A i \in 1 .. Len(s) : s[i] # n
  BY <1>2 DEF ToSet
<1>3. ASSUME NEW k \in 1 .. Len(s), s[k] = n,
             RemoveFirst(s, n) \in Seq(Nodes),
             Len(RemoveFirst(s, n)) = Len(s) - 1,
             \A i \in 1 .. Len(s) - 1 :
               RemoveFirst(s, n)[i] = IF i < k THEN s[i] ELSE s[i + 1]
      PROVE  /\ \A i, j \in 1 .. Len(RemoveFirst(s, n)) :
                  Same(RemoveFirst(s, n)[i], RemoveFirst(s, n)[j]) => i = j
             /\ ToSet(RemoveFirst(s, n)) \subseteq ToSet(s) \ {n}
  <2>. DEFINE r == RemoveFirst(s, n)
              at(i) == IF i < k THEN i ELSE i + 1
  <2>1. \A i \in 1 .. Len(r) : at(i) \in 1 .. Len(s) /\ at(i) # k /\ r[i] = s[at(i)]
    BY <1>3
  <2>2. \A i, j \in 1 .. Len(r) : at(i) = at(j) => i = j
    BY <1>3
  <2>3. \A i, j \in 1 .. Len(r) : Same(r[i], r[j]) => i = j
    BY <2>1, <2>2
  <2>4. \A i \in 1 .. Len(r) : r[i] \in ToSet(s) /\ r[i] # n
    <3>. SUFFICES ASSUME NEW i \in 1 .. Len(r) PROVE r[i] \in ToSet(s) /\ r[i] # n
      OBVIOUS
    <3>1. at(i) \in 1 .. Len(s) /\ at(i) # k /\ r[i] = s[at(i)] BY <2>1
    <3>. HIDE DEF at, r
    <3>2. s[at(i)] # s[k] BY <1>1, <3>1
    <3>. QED BY <1>3, <3>1, <3>2 DEF ToSet
  <2>. QED BY <1>3, <2>3, <2>4 DEF ToSet
<1>. QED BY <1>1, <1>2, <1>3, RemoveFirstUnique

(* A subscription put in front.                                            *)
LEMMA InsertedList ==
  ASSUME NEW s \in Seq(Nodes), NEW n \in Nodes,
         \A i, j \in 1 .. Len(s) : Same(s[i], s[j]) => i = j,
         \A m \in ToSet(s) : ~Same(m, n)
  PROVE  /\ <<n>> \o s \in Seq(Nodes)
         /\ \A i, j \in 1 .. Len(<<n>> \o s) :
              Same((<<n>> \o s)[i], (<<n>> \o s)[j]) => i = j
         /\ ToSet(<<n>> \o s) = ToSet(s) \cup {n}
<1>. DEFINE r == <<n>> \o s
<1>1. /\ r \in Seq(Nodes) /\ Len(r) = Len(s) + 1
      /\ r[1] = n /\ \A i \in 2 .. Len(s) + 1 : r[i] = s[i - 1]
  OBVIOUS
<1>2. \A i \in 1 .. Len(s) : s[i] \in ToSet(s) /\ r[i + 1] = s[i]
  BY <1>1 DEF ToSet
<1>3. \A i \in 2 .. Len(s) + 1 : r[i] \in ToSet(s)
  BY <1>1, <1>2
<1>4. \A i, j \in 1 .. Len(r) : Same(r[i], r[j]) => i = j
  <2>. SUFFICES ASSUME NEW i \in 1 .. Len(r), NEW j \in 1 .. Len(r), Same(r[i], r[j])
                PROVE  i = j
    OBVIOUS
  <2>. HIDE DEF r
  <2>1. CASE i = 1 /\ j # 1
    <3>1. r[j] \in ToSet(s) /\ r[i] = n BY <1>1, <1>3, <2>1
    <3>. QED BY <3>1 DEF Same
  <2>2. CASE i # 1 /\ j = 1
    <3>1. r[i] \in ToSet(s) /\ r[j] = n BY <1>1, <1>3, <2>2
    <3>. QED BY <3>1
  <2>3. CASE i # 1 /\ j # 1
    <3>1. i - 1 \in 1 .. Len(s) /\ j - 1 \in 1 .. Len(s) BY <1>1, <2>3
    <3>2. r[i] = s[i - 1] /\ r[j] = s[j - 1] BY <1>1, <2>3
    <3>. QED BY <3>1, <3>2
  <2>. QED BY <2>1, <2>2, <2>3
<1>5. ToSet(r) = ToSet(s) \cup {n}
  <2>1. ToSet(r) \subseteq ToSet(s) \cup {n} BY <1>1, <1>3 DEF ToSet
  <2>2. n \in ToSet(r) BY <1>1 DEF ToSet
  <2>3. ToSet(s) \subseteq ToSet(r)
    <3>. HIDE DEF r
    <3>1. DOMAIN s = 1 .. Len(s) /\ DOMAIN r = 1 .. Len(r) BY <1>1
    <3>2. ASSUME NEW i \in 1 .. Len(s) PROVE s[i] \in ToSet(r)
      <4>1. i + 1 \in DOMAIN r /\ r[i + 1] = s[i] BY <1>1, <1>2, <3>1
      <4>. QED BY <4>1 DEF ToSet
    <3>. QED BY <3>1, <3>2 DEF ToSet
  <2>. QED BY <2>1, <2>2, <2>3
<1>. QED BY <1>1, <1>4, <1>5

-----------------------------------------------------------------------------
(* The invariant.                                                          *)

LEMMA InitEvtInv == Init => EvtInv
<1>. SUFFICES ASSUME Init PROVE EvtInv
  OBVIOUS
<1>1. events = <<>> /\ gone = {} BY DEF Init
<1>2. /\ stack \in [Threads -> Seq(Frames)] /\ pending \in [Threads -> {Nil}]
      /\ \A t \in Threads : stack[t] = <<>> /\ pending[t] = Nil
  BY DEF Init
<1>3. TypeOK BY <1>1, <1>2 DEF TypeOK
<1>. QED BY <1>1, <1>2, <1>3 DEF EvtInv, NoDuplicates, PendingOwn, GoneAbsent, CalledListed

(* The first half of a call that changes the list.                         *)
LEMMA RequestKeepsEvtInv ==
  ASSUME EvtInv, NEW t \in Threads, Subscribe(t) \/ Unsubscribe(t)
  PROVE  EvtInv'
<1>1. UNCHANGED <<events, stack, gone>> BY DEF Subscribe, Unsubscribe
<1>2. PICK n \in Nodes, op \in {"insert", "remove"} :
        /\ n.cb \in Uses[t]
        /\ op = "insert" => \A m \in ToSet(events) : ~Same(m, n)
        /\ pending' = [pending EXCEPT ![t] = [op |-> op, node |-> n]]
  BY DEF Subscribe, Unsubscribe
<1>3. TypeOK' BY <1>1, <1>2 DEF EvtInv, TypeOK
<1>4. PendingOwn' BY <1>1, <1>2 DEF EvtInv, TypeOK, PendingOwn
<1>. QED BY <1>1, <1>3, <1>4 DEF EvtInv, NoDuplicates, GoneAbsent, CalledListed

(* The write lock is held, so no subscription is being called.             *)
LEMMA InsertKeepsEvtInv ==
  ASSUME OwnCallbacks, EvtInv, NEW t \in Threads, Insert(t)
  PROVE  EvtInv'
<1>. DEFINE n == pending[t].node
<1>1. n \in Nodes /\ n.cb \in Uses[t] /\ \A m \in ToSet(events) : ~Same(m, n)
  BY DEF Insert, EvtInv, TypeOK, PendingOwn
<1>2. /\ events' = <<n>> \o events /\ gone' = gone \ {n} /\ stack' = stack
      /\ pending' = [pending EXCEPT ![t] = Nil]
      /\ \A u \in Threads : stack[u] = <<>>
  BY DEF Insert, Unread
<1>. HIDE DEF n
<1>3. events \in Seq(Nodes) /\ NoDuplicates BY DEF EvtInv, TypeOK
<1>4. events' \in Seq(Nodes) /\ NoDuplicates' /\ ToSet(events') = ToSet(events) \cup {n}
  BY <1>1, <1>2, <1>3, InsertedList DEF NoDuplicates
<1>5. TypeOK'
  BY <1>2, <1>4 DEF EvtInv, TypeOK
<1>6. PendingOwn'
  <2>. SUFFICES ASSUME NEW u \in Threads, pending'[u] # Nil
                PROVE  /\ pending'[u].node.cb \in Uses[u]
                       /\ pending'[u].op = "insert" =>
                            \A m \in ToSet(events') : ~Same(m, pending'[u].node)
    BY DEF PendingOwn
  <2>1. u # t /\ pending'[u] = pending[u] BY <1>2 DEF EvtInv, TypeOK
  <2>2. ~Same(n, pending[u].node)
    BY <1>1, <2>1 DEF EvtInv, PendingOwn, OwnCallbacks, Same
  <2>. QED BY <1>4, <2>1, <2>2 DEF EvtInv, PendingOwn
<1>. QED BY <1>2, <1>4, <1>5, <1>6 DEF EvtInv, GoneAbsent, CalledListed

LEMMA UnlinkKeepsEvtInv ==
  ASSUME EvtInv, NEW t \in Threads, Unlink(t)
  PROVE  EvtInv'
<1>. DEFINE n == pending[t].node
<1>1. n \in Nodes BY DEF Unlink, EvtInv, TypeOK
<1>2. /\ events' = RemoveFirst(events, n) /\ gone' = gone \cup {n} /\ stack' = stack
      /\ pending' = [pending EXCEPT ![t] = Nil]
      /\ \A u \in Threads : stack[u] = <<>>
  BY DEF Unlink, Unread
<1>. HIDE DEF n
<1>3. events \in Seq(Nodes) /\ NoDuplicates BY DEF EvtInv, TypeOK
<1>4. events' \in Seq(Nodes) /\ NoDuplicates' /\ ToSet(events') \subseteq ToSet(events) \ {n}
  BY <1>1, <1>2, <1>3, UnlinkedList DEF NoDuplicates
<1>5. TypeOK'
  BY <1>1, <1>2, <1>4 DEF EvtInv, TypeOK
<1>6. PendingOwn'
  BY <1>2, <1>4 DEF EvtInv, TypeOK, PendingOwn
<1>. QED BY <1>2, <1>4, <1>5, <1>6 DEF EvtInv, GoneAbsent, CalledListed

(* A signal runs the next callback of the list, which does not change.     *)
LEMMA NextMatchListed ==
  ASSUME EvtInv, NEW topic, NEW i \in Nat, NEW j \in NextMatch(topic, i)
  PROVE  j \in 1 .. Len(events) /\ events[j] \in Nodes /\ events[j] \in ToSet(events)
BY DEF NextMatch, EvtInv, TypeOK, ToSet

LEMMA SignalKeepsEvtInv ==
  ASSUME EvtInv, NEW t \in Threads, Signal(t)
  PROVE  EvtInv'
<1>1. UNCHANGED <<events, pending, gone>> BY DEF Signal
<1>0. PICK topic \in Topics : \E j \in NextMatch(topic, 0) :
        stack' = [stack EXCEPT ![t] = Append(@,
                   [topic |-> topic, pos |-> j, node |-> events[j],
                    due |-> {n \in ToSet(events) : n.topic = topic},
                    done |-> <<events[j]>>])]
  BY DEF Signal
<1>2. PICK j \in NextMatch(topic, 0) :
        stack' = [stack EXCEPT ![t] = Append(@,
                   [topic |-> topic, pos |-> j, node |-> events[j],
                    due |-> {n \in ToSet(events) : n.topic = topic},
                    done |-> <<events[j]>>])]
  BY <1>0
<1>3. j \in 1 .. Len(events) /\ events[j] \in Nodes /\ events[j] \in ToSet(events)
  BY NextMatchListed
<1>. DEFINE fr == [topic |-> topic, pos |-> j, node |-> events[j],
                   due |-> {n \in ToSet(events) : n.topic = topic},
                   done |-> <<events[j]>>]
<1>4. fr \in Frames
  <2>1. {n \in ToSet(events) : n.topic = topic} \subseteq Nodes
    BY DEF EvtInv, TypeOK, ToSet
  <2>. QED BY <1>3, <2>1 DEF Frames
<1>5. fr.pos \in 1 .. Len(events) /\ fr.node \in ToSet(events) BY <1>3
<1>6. stack' = [stack EXCEPT ![t] = Append(@, fr)] BY <1>2
<1>. HIDE DEF fr
<1>7. stack' \in [Threads -> Seq(Frames)] BY <1>4, <1>6 DEF EvtInv, TypeOK
<1>8. \A u \in Threads : \A i \in 1 .. Len(stack'[u]) :
         stack'[u][i].pos \in 1 .. Len(events) /\ stack'[u][i].node \in ToSet(events)
  <2>. TAKE u \in Threads
  <2>1. CASE u = t
    <3>1. stack[t] \in Seq(Frames) /\ stack'[t] = Append(stack[t], fr)
      BY <1>6 DEF EvtInv, TypeOK
    <3>2. \A i \in 1 .. Len(stack'[t]) :
            stack'[t][i] = IF i <= Len(stack[t]) THEN stack[t][i] ELSE fr
      BY <1>4, <3>1
    <3>. QED BY <1>5, <2>1, <3>1, <3>2 DEF EvtInv, TypeOK, CalledListed
  <2>2. CASE u # t
    BY <1>6, <2>2 DEF EvtInv, TypeOK, CalledListed
  <2>. QED BY <2>1, <2>2
<1>9. TypeOK' /\ CalledListed'
  BY <1>1, <1>7, <1>8 DEF EvtInv, TypeOK, CalledListed
<1>. QED BY <1>1, <1>9 DEF EvtInv, NoDuplicates, PendingOwn, GoneAbsent

(* The frame of a signal that goes on to the next callback.                *)
LEMMA NextFrame ==
  ASSUME NEW fr \in Frames, NEW j \in Nat, events[j] \in Nodes
  PROVE  /\ Advance(fr, j) \in Frames
         /\ Advance(fr, j).pos = j /\ Advance(fr, j).node = events[j]
<1>1. Append(fr.done, events[j]) \in Seq(Nodes) BY DEF Frames
<1>. QED BY <1>1 DEF Frames, Advance

LEMMA CallbackReturnKeepsEvtInv ==
  ASSUME EvtInv, NEW t \in Threads, CallbackReturn(t)
  PROVE  EvtInv'
<1>1. UNCHANGED <<events, pending, gone>> BY DEF CallbackReturn
<1>. DEFINE s  == stack[t]
            fr == Last(s)
            nx == NextMatch(fr.topic, fr.pos)
            j  == CHOOSE k \in nx : TRUE
            nf == Advance(fr, j)
<1>2. /\ s \in Seq(Frames) /\ Len(s) # 0 /\ fr \in Frames
      /\ stack' = [stack EXCEPT ![t] = IF nx = {} THEN Front(s) ELSE Append(Front(s), nf)]
  BY DEF CallbackReturn, EvtInv, TypeOK, Last
<1>3. /\ Front(s) \in Seq(Frames) /\ Len(Front(s)) = Len(s) - 1
      /\ \A i \in 1 .. Len(s) - 1 : Front(s)[i] = s[i]
  BY <1>2 DEF Front
<1>4. nx # {} => /\ nf \in Frames
                 /\ nf.pos \in 1 .. Len(events) /\ nf.node \in ToSet(events)
  <2>. SUFFICES ASSUME nx # {}
                PROVE  /\ nf \in Frames
                       /\ nf.pos \in 1 .. Len(events) /\ nf.node \in ToSet(events)
    OBVIOUS
  <2>1. j \in nx OBVIOUS
  <2>2. fr.pos \in Nat BY <1>2 DEF Frames
  <2>3. j \in 1 .. Len(events) /\ events[j] \in Nodes /\ events[j] \in ToSet(events)
    BY <2>1, <2>2, NextMatchListed
  <2>4. fr \in Frames BY <1>2
  <2>5. j \in Nat BY <2>3
  <2>. HIDE DEF j, fr
  <2>6. nf \in Frames /\ nf.pos = j /\ nf.node = events[j]
    BY <2>3, <2>4, <2>5, NextFrame
  <2>. QED BY <2>3, <2>6
<1>. HIDE DEF nf, nx
<1>5. \A i \in 1 .. Len(s) : s[i].pos \in 1 .. Len(events) /\ s[i].node \in ToSet(events)
  BY DEF EvtInv, TypeOK, CalledListed
<1>6. /\ stack'[t] \in Seq(Frames)
      /\ \A i \in 1 .. Len(stack'[t]) : \/ i \in 1 .. Len(s) /\ stack'[t][i] = s[i]
                                        \/ nx # {} /\ stack'[t][i] = nf
  <2>1. CASE nx = {} BY <1>2, <1>3, <2>1 DEF EvtInv, TypeOK
  <2>2. CASE nx # {}
    <3>1. stack'[t] = Append(Front(s), nf) BY <1>2, <2>2 DEF EvtInv, TypeOK
    <3>. QED BY <1>2, <1>3, <1>4, <2>2, <3>1
  <2>. QED BY <2>1, <2>2
<1>7. stack' \in [Threads -> Seq(Frames)] /\ \A u \in Threads : u # t => stack'[u] = stack[u]
  BY <1>2, <1>6 DEF EvtInv, TypeOK
<1>8. \A u \in Threads : \A i \in 1 .. Len(stack'[u]) :
         stack'[u][i].pos \in 1 .. Len(events) /\ stack'[u][i].node \in ToSet(events)
  BY <1>4, <1>5, <1>6, <1>7 DEF EvtInv, TypeOK, CalledListed
<1>9. TypeOK' /\ CalledListed'
  BY <1>1, <1>7, <1>8 DEF EvtInv, TypeOK, CalledListed
<1>. QED BY <1>1, <1>9 DEF EvtInv, NoDuplicates, PendingOwn, GoneAbsent

LEMMA EvtInvariant ==
  ASSUME OwnCallbacks
  PROVE  Spec => []EvtInv
<1>1. EvtInv /\ [Next]_vars => EvtInv'
  <2>. SUFFICES ASSUME EvtInv, [Next]_vars PROVE EvtInv'
    OBVIOUS
  <2>1. CASE UNCHANGED vars
    BY <2>1 DEF vars, EvtInv, TypeOK, NoDuplicates, PendingOwn, GoneAbsent, CalledListed
  <2>2. ASSUME NEW t \in Threads, ThreadStep(t) PROVE EvtInv'
    BY <2>2, OwnCallbacks, RequestKeepsEvtInv, InsertKeepsEvtInv, UnlinkKeepsEvtInv,
       SignalKeepsEvtInv, CallbackReturnKeepsEvtInv DEF ThreadStep
  <2>. QED BY <2>1, <2>2 DEF Next
<1>. QED BY <1>1, InitEvtInv, PTL DEF Spec

(* When no callback function is subscribed by two threads, none is in the  *)
(* list twice for a topic although AM_EVT_Subscribe tests and inserts in   *)
(* two critical sections.                                                  *)
THEOREM SubscribedOnce ==
  ASSUME OwnCallbacks
  PROVE  Spec => []NoDuplicates
<1>1. EvtInv => NoDuplicates BY DEF EvtInv
<1>. QED BY <1>1, EvtInvariant, PTL

(* Then a subscription is not called, or being called, once                *)
(* AM_EVT_Unsubscribe has returned.                                        *)
THEOREM UnsubscribedIsSilent ==
  ASSUME OwnCallbacks
  PROVE  Spec => []UnsubscribedSilent
<1>1. EvtInv => UnsubscribedSilent
  BY DEF EvtInv, CalledListed, GoneAbsent, UnsubscribedSilent
<1>. QED BY <1>1, EvtInvariant, PTL

-----------------------------------------------------------------------------
(* What a signal has called.                                               *)

(* A set of natural numbers that is not empty has a least element.         *)
LEMMA LeastNat ==
  ASSUME NEW S, S \subseteq Nat, S # {}
  PROVE  \E n \in S : \A m \in S : n <= m
<1>1. PICK R : R = OpToRel(<, Nat) OBVIOUS
<1>2. \A m, n \in Nat : <<m, n>> \in R <=> m < n BY <1>1 DEF OpToRel
<1>3. IsWellFoundedOn(R, Nat) BY <1>1, NatLessThanWellFounded
<1>4. PICK n \in S : \A m \in S : <<m, n>> \notin R BY <1>3, WFMin
<1>5. \A m \in S : m \in Nat /\ n \in Nat /\ ~(m < n) BY <1>2, <1>4
<1>. QED BY <1>5

(* The subscriptions to a topic among the first p of the list.             *)
Called(topic, p) == {events[k] : k \in {i \in 1 .. p : events[i].topic = topic}}

(* What NextMatch finds is the only subscription to come, up to there.     *)
LEMMA CalledNext ==
  ASSUME EvtInv, NEW topic, NEW i \in Nat, NEW j \in NextMatch(topic, i)
  PROVE  /\ Called(topic, j) = Called(topic, i) \cup {events[j]}
         /\ events[j] \notin Called(topic, i)
<1>1. /\ j \in i + 1 .. Len(events) /\ events[j].topic = topic
      /\ \A k \in i + 1 .. j - 1 : events[k].topic # topic
      /\ Len(events) \in Nat
  BY DEF NextMatch, EvtInv, TypeOK
<1>2. {k \in 1 .. j : events[k].topic = topic}
        = {k \in 1 .. i : events[k].topic = topic} \cup {j}
  BY <1>1
<1>3. \A k \in 1 .. i : events[k] # events[j]
  BY <1>1 DEF EvtInv, NoDuplicates, Same
<1>. QED BY <1>2, <1>3 DEF Called

(* When it finds none, the whole topic has been called.                    *)
LEMMA CalledAll ==
  ASSUME EvtInv, NEW topic, NEW i \in 1 .. Len(events), NextMatch(topic, i) = {}
  PROVE  Called(topic, i) = {n \in ToSet(events) : n.topic = topic}
<1>. DEFINE later == {k \in i + 1 .. Len(events) : events[k].topic = topic}
<1>0. Len(events) \in Nat /\ DOMAIN events = 1 .. Len(events)
  BY DEF EvtInv, TypeOK
<1>1. later = {}
  <2>. SUFFICES ASSUME later # {} PROVE FALSE
    OBVIOUS
  <2>1. later \subseteq Nat BY <1>0
  <2>2. PICK j \in later : \A m \in later : j <= m BY <2>1, LeastNat
  <2>3. \A k \in i + 1 .. j - 1 : k \notin later BY <1>0, <2>2
  <2>4. j \in NextMatch(topic, i) BY <1>0, <2>2, <2>3 DEF NextMatch
  <2>. QED BY <2>4
<1>2. {k \in 1 .. i : events[k].topic = topic}
        = {k \in 1 .. Len(events) : events[k].topic = topic}
  BY <1>0, <1>1
<1>. QED BY <1>0, <1>2 DEF Called, ToSet

(* The callbacks a signal has made are those of its topic up to where it   *)
(* is in the list, once each, and the list is the one it began with.       *)
Accounted(fr) ==
  /\ fr.due = {n \in ToSet(events) : n.topic = fr.topic}
  /\ ToSet(fr.done) = Called(fr.topic, fr.pos)
  /\ IsFiniteSet(ToSet(fr.done)) /\ Len(fr.done) = Cardinality(ToSet(fr.done))

SignalInv == \A t \in Threads : \A i \in 1 .. Len(stack[t]) : Accounted(stack[t][i])

LEMMA AppendedSet ==
  ASSUME NEW s \in Seq(Nodes), NEW n \in Nodes
  PROVE  ToSet(Append(s, n)) = ToSet(s) \cup {n} /\ Len(Append(s, n)) = Len(s) + 1
<1>1. /\ DOMAIN Append(s, n) = 1 .. Len(s) + 1 /\ DOMAIN s = 1 .. Len(s)
      /\ \A i \in 1 .. Len(s) : Append(s, n)[i] = s[i]
      /\ Append(s, n)[Len(s) + 1] = n /\ Len(s) \in Nat
  OBVIOUS
<1>2. 1 .. Len(s) + 1 = (1 .. Len(s)) \cup {Len(s) + 1} BY <1>1
<1>. QED BY <1>1, <1>2 DEF ToSet

LEMMA FirstAccounted ==
  ASSUME EvtInv, NEW topic \in Topics, NEW j \in NextMatch(topic, 0)
  PROVE  Accounted([topic |-> topic, pos |-> j, node |-> events[j],
                    due |-> {n \in ToSet(events) : n.topic = topic},
                    done |-> <<events[j]>>])
<1>1. Called(topic, 0) = {} BY DEF Called
<1>2. Called(topic, j) = {events[j]} BY <1>1, CalledNext
<1>3. ToSet(<<events[j]>>) = {events[j]} /\ Len(<<events[j]>>) = 1 BY DEF ToSet
<1>4. IsFiniteSet({events[j]}) /\ Cardinality({events[j]}) = 1 BY FS_Singleton
<1>. QED BY <1>2, <1>3, <1>4 DEF Accounted

LEMMA NextAccounted ==
  ASSUME EvtInv, NEW fr \in Frames, Accounted(fr), NEW j \in NextMatch(fr.topic, fr.pos)
  PROVE  Accounted(Advance(fr, j))
<1>0. fr.pos \in Nat /\ fr.done \in Seq(Nodes) BY DEF Frames
<1>1. events[j] \in Nodes BY <1>0, NextMatchListed
<1>2. /\ Called(fr.topic, j) = Called(fr.topic, fr.pos) \cup {events[j]}
      /\ events[j] \notin Called(fr.topic, fr.pos)
  BY <1>0, CalledNext
<1>3. PICK d : d = Append(fr.done, events[j]) OBVIOUS
<1>4. ToSet(d) = ToSet(fr.done) \cup {events[j]} /\ Len(d) = Len(fr.done) + 1
  BY <1>0, <1>1, <1>3, AppendedSet
<1>5. /\ IsFiniteSet(ToSet(d)) /\ Cardinality(ToSet(d)) = Cardinality(ToSet(fr.done)) + 1
  <2>1. IsFiniteSet(ToSet(fr.done)) /\ events[j] \notin ToSet(fr.done)
    BY <1>2 DEF Accounted
  <2>2. /\ IsFiniteSet(ToSet(fr.done) \cup {events[j]})
        /\ Cardinality(ToSet(fr.done) \cup {events[j]}) = Cardinality(ToSet(fr.done)) + 1
    BY <2>1, FS_AddElement
  <2>. QED BY <1>4, <2>2
<1>6. /\ Advance(fr, j).due = fr.due /\ Advance(fr, j).topic = fr.topic
      /\ Advance(fr, j).pos = j /\ Advance(fr, j).done = d
  BY <1>3 DEF Frames, Advance
<1>. QED BY <1>2, <1>4, <1>5, <1>6 DEF Accounted

(* The frame that a signal leaves has called all it was due to call.       *)
LEMMA LastAccounted ==
  ASSUME EvtInv, SignalInv, NEW t \in Threads, CallbackReturn(t),
         Len(stack'[t]) < Len(stack[t])
  PROVE  LET fr == Last(stack[t])
         IN  ToSet(fr.done) = fr.due /\ Len(fr.done) = Cardinality(fr.due)
<1>. DEFINE s == stack[t]
            fr == Last(s)
            nx == NextMatch(fr.topic, fr.pos)
<1>1. /\ s \in Seq(Frames) /\ Len(s) # 0 /\ fr = s[Len(s)] /\ fr \in Frames
      /\ fr.pos \in 1 .. Len(events)
  <2>1. s \in Seq(Frames) /\ Len(s) # 0 BY DEF CallbackReturn, EvtInv, TypeOK
  <2>2. fr = s[Len(s)] /\ Len(s) \in 1 .. Len(s) BY <2>1 DEF Last
  <2>. QED BY <2>1, <2>2 DEF EvtInv, TypeOK
<1>2. Accounted(fr) BY <1>1 DEF SignalInv
<1>3. CASE nx = {}
  <2>1. Called(fr.topic, fr.pos) = {n \in ToSet(events) : n.topic = fr.topic}
    BY <1>1, <1>3, CalledAll
  <2>. QED BY <1>2, <2>1 DEF Accounted
<1>4. CASE nx # {}
  <2>1. stack'[t] = Append(Front(s), Advance(fr, CHOOSE j \in nx : TRUE))
    BY <1>4 DEF CallbackReturn, EvtInv, TypeOK
  <2>2. Len(Front(s)) = Len(s) - 1 BY <1>1 DEF Front
  <2>. QED BY <1>1, <2>1, <2>2
<1>. QED BY <1>3, <1>4

(* A signal leaves its innermost frame, replaces it or adds one.           *)
LEMMA StackKeepsSignalInv ==
  ASSUME EvtInv, EvtInv', SignalInv, UNCHANGED events, NEW t \in Threads, NEW g,
         \A u \in Threads : u # t => stack'[u] = stack[u],
         \A i \in 1 .. Len(stack'[t]) :
           \/ i \in 1 .. Len(stack[t]) /\ stack'[t][i] = stack[t][i]
           \/ stack'[t][i] = g /\ Accounted(g)
  PROVE  SignalInv'
<1>1. \A topic, p : Called(topic, p)' = Called(topic, p) BY DEF Called
<1>2. ASSUME NEW u \in Threads, NEW i \in 1 .. Len(stack'[u]) PROVE Accounted(stack'[u][i])
  <2>1. CASE u = t BY <1>2, <2>1 DEF SignalInv
  <2>2. CASE u # t BY <1>2, <2>2 DEF SignalInv
  <2>. QED BY <2>1, <2>2
<1>. QED BY <1>1, <1>2 DEF SignalInv, Accounted

LEMMA NextKeepsSignalInv == EvtInv /\ EvtInv' /\ SignalInv /\ [Next]_vars => SignalInv'
<1>. SUFFICES ASSUME EvtInv, EvtInv', SignalInv, [Next]_vars PROVE SignalInv'
  OBVIOUS
<1>0. ASSUME UNCHANGED <<events, stack>> PROVE SignalInv'
  <2>1. \A topic, p : Called(topic, p)' = Called(topic, p) BY <1>0 DEF Called
  <2>2. \A t \in Threads : \A i \in 1 .. Len(stack'[t]) : Accounted(stack'[t][i])
    BY <1>0 DEF SignalInv
  <2>. QED BY <1>0, <2>1, <2>2 DEF SignalInv, Accounted
<1>1. CASE UNCHANGED vars BY <1>0, <1>1 DEF vars
<1>2. ASSUME NEW t \in Threads, Subscribe(t) \/ Unsubscribe(t) PROVE SignalInv'
  BY <1>0, <1>2 DEF Subscribe, Unsubscribe
<1>3. ASSUME NEW t \in Threads, Insert(t) \/ Unlink(t) PROVE SignalInv'
  <2>1. \A u \in Threads : stack'[u] = <<>> BY <1>3 DEF Insert, Unlink, Unread
  <2>. QED BY <2>1 DEF SignalInv
<1>4. ASSUME NEW t \in Threads, Signal(t) PROVE SignalInv'
  <2>1. PICK topic \in Topics : \E j \in NextMatch(topic, 0) :
          stack' = [stack EXCEPT ![t] = Append(@,
                     [topic |-> topic, pos |-> j, node |-> events[j],
                      due |-> {n \in ToSet(events) : n.topic = topic},
                      done |-> <<events[j]>>])]
    BY <1>4 DEF Signal
  <2>2. PICK j \in NextMatch(topic, 0) :
          stack' = [stack EXCEPT ![t] = Append(@,
                     [topic |-> topic, pos |-> j, node |-> events[j],
                      due |-> {n \in ToSet(events) : n.topic = topic},
                      done |-> <<events[j]>>])]
    BY <2>1
  <2>3. PICK fr : fr = [topic |-> topic, pos |-> j, node |-> events[j],
                        due |-> {n \in ToSet(events) : n.topic = topic},
                        done |-> <<events[j]>>]
    OBVIOUS
  <2>4. Accounted(fr) BY <2>3, FirstAccounted
  <2>5. stack' = [stack EXCEPT ![t] = Append(@, fr)] BY <2>2, <2>3
  <2>6. stack[t] \in Seq(Frames) BY DEF EvtInv, TypeOK
  <2>7. /\ stack'[t] = Append(stack[t], fr)
        /\ \A u \in Threads : u # t => stack'[u] = stack[u]
    BY <2>5 DEF EvtInv, TypeOK
  <2>8. \A i \in 1 .. Len(stack'[t]) :
          \/ i \in 1 .. Len(stack[t]) /\ stack'[t][i] = stack[t][i]
          \/ stack'[t][i] = fr /\ Accounted(fr)
    BY <2>4, <2>6, <2>7
  <2>9. UNCHANGED events BY <1>4 DEF Signal
  <2>. QED BY <2>7, <2>8, <2>9, StackKeepsSignalInv
<1>5. ASSUME NEW t \in Threads, CallbackReturn(t) PROVE SignalInv'
  <2>. DEFINE s == stack[t]
  <2>1. PICK fr : fr = Last(s) OBVIOUS
  <2>2. PICK nx : nx = NextMatch(fr.topic, fr.pos) OBVIOUS
  <2>3. PICK nf : nf = Advance(fr, CHOOSE j \in nx : TRUE) OBVIOUS
  <2>4. /\ s # <<>> /\ UNCHANGED events
        /\ stack' = [stack EXCEPT ![t] = IF nx = {} THEN Front(s) ELSE Append(Front(s), nf)]
    BY <1>5, <2>1, <2>2, <2>3 DEF CallbackReturn
  <2>5. s \in Seq(Frames) /\ Len(s) \in 1 .. Len(s)
    BY <2>4 DEF EvtInv, TypeOK
  <2>6. fr = s[Len(s)] /\ fr \in Frames /\ Accounted(fr)
    BY <2>1, <2>5 DEF Last, SignalInv
  <2>7. nx # {} => Accounted(nf)
    BY <2>2, <2>3, <2>6, NextAccounted
  <2>8. /\ Front(s) \in Seq(Frames) /\ Len(Front(s)) = Len(s) - 1
        /\ \A i \in 1 .. Len(s) - 1 : Front(s)[i] = s[i]
    BY <2>5 DEF Front
  <2>9. /\ stack'[t] = IF nx = {} THEN Front(s) ELSE Append(Front(s), nf)
        /\ \A u \in Threads : u # t => stack'[u] = stack[u]
    BY <2>4 DEF EvtInv, TypeOK
  <2>10. stack'[t] \in Seq(Frames) BY DEF EvtInv, TypeOK
  <2>11. \A i \in 1 .. Len(stack'[t]) :
           \/ i \in 1 .. Len(stack[t]) /\ stack'[t][i] = stack[t][i]
           \/ stack'[t][i] = nf /\ Accounted(nf)
    <3>1. CASE nx = {} BY <2>5, <2>8, <2>9, <3>1
    <3>2. CASE nx # {} BY <2>5, <2>7, <2>8, <2>9, <3>2
    <3>. QED BY <3>1, <3>2
  <2>. QED BY <2>4, <2>9, <2>11, StackKeepsSignalInv
<1>. QED BY <1>1, <1>2, <1>3, <1>4, <1>5 DEF Next, ThreadStep

(* A frame is left only by the return of its last callback.                *)
LEMMA SignalEndsComplete ==
  ASSUME EvtInv, SignalInv, [Next]_vars, NEW t \in Threads, Len(stack'[t]) < Len(stack[t])
  PROVE  LET fr == Last(stack[t])
         IN  ToSet(fr.done) = fr.due /\ Len(fr.done) = Cardinality(fr.due)
<1>0. stack \in [Threads -> Seq(Frames)] /\ Len(stack[t]) \in Nat BY DEF EvtInv, TypeOK
<1>1. stack' # stack BY <1>0
<1>2. PICK u \in Threads : ThreadStep(u) BY <1>1 DEF Next, vars
<1>3. Signal(u) \/ CallbackReturn(u)
  BY <1>1, <1>2 DEF ThreadStep, Subscribe, Insert, Unsubscribe, Unlink
<1>4. u = t
  <2>1. u # t => stack'[t] = stack[t] BY <1>0, <1>3 DEF Signal, CallbackReturn
  <2>. QED BY <1>0, <2>1
<1>5. ~Signal(t)
  <2>. SUFFICES ASSUME Signal(t) PROVE FALSE
    OBVIOUS
  <2>1. PICK fr : stack' = [stack EXCEPT ![t] = Append(@, fr)] BY DEF Signal
  <2>2. stack'[t] = Append(stack[t], fr) BY <1>0, <2>1
  <2>. QED BY <1>0, <2>2
<1>. QED BY <1>3, <1>4, <1>5, LastAccounted

(* When no callback function is subscribed by two threads, a signal ends   *)
(* only after it has called every subscription its topic had when it       *)
(* began, each of them once, whatever other threads and the callbacks do.  *)
THEOREM SignalsAreComplete ==
  ASSUME OwnCallbacks
  PROVE  Spec => SignalReachesAll
<1>1. Init => SignalInv
  <2>. SUFFICES ASSUME Init, NEW t \in Threads PROVE stack[t] = <<>>
    BY DEF SignalInv
  <2>. QED BY DEF Init
<1>2. EvtInv /\ EvtInv' /\ SignalInv /\ [Next]_vars => SignalInv'
  BY NextKeepsSignalInv
<1>3. EvtInv /\ SignalInv /\ [Next]_vars
        => [\A t \in Threads :
              Len(stack'[t]) < Len(stack[t]) =>
                LET fr == Last(stack[t])
                IN  ToSet(fr.done) = fr.due /\ Len(fr.done) = Cardinality(fr.due)]_vars
  BY SignalEndsComplete
<1>. QED BY <1>1, <1>2, <1>3, EvtInvariant, PTL DEF Spec, SignalReachesAll

-----------------------------------------------------------------------------
(* DmxUsers.  Whoever uses it has the demultiplexer open once, the         *)
(* recorder apart, and its users are counted.  A filter of the audio       *)
(* description or of the application has the callback of its owner         *)
(* whatever the recorder does to it.  And unless the demultiplexer was     *)
(* closed under a recording, or two calls worked on the streams at once,   *)
(* the one call of the recorder that does is where PlaceKept says, and     *)
(* every filter belongs to whoever believes so.                            *)
Openers == {u \in DvrUsers : dvrAt[u].call # "out"}

UsersCounted == IsFiniteSet(Openers) /\ dvrOpens = Cardinality(Openers)

OpensCounted ==
  dmxOpens = (IF appOpen THEN 1 ELSE 0) + (IF adAt \in {"made", "freed"} THEN 1 ELSE 0)

FilterKept(f) ==
  /\ dmxOpens = 0 => filters[f].owner = "free"
  /\ filters[f].owner = "free" => ~filters[f].on
  /\ filters[f].owner = "app" => filters[f].cb = "app"
  /\ filters[f].owner = "ad" => adAt = "made" /\ f = adFid

PlaceKept(u) ==
  /\ dvrAt[u].at # "crash"
  /\ dvrAt[u].at # "loop" => Busy(u)
  /\ dvrAt[u].at \in {"on", "free", "clear"} =>
       dvrAt[u].i \in 1 .. streamCnt /\ Fid(u) # NoFid
  /\ dvrAt[u].at = "end" => streamCnt = 0
  /\ dvrAt[u].at # "loop" => (dvrAt[u].call = "start" <=> dvrAt[u].at = "on")
  /\ dvrAt[u].call \in {"stop", "close"} =>
       \A j \in 1 .. streamCnt : j < dvrAt[u].i => streams[j] = NoFid

StreamsApart == \A i, j \in 1 .. streamCnt : streams[i] = streams[j] => i = j \/ streams[i] = NoFid

RecorderKept ==
  /\ \A u, v \in DvrUsers : Busy(u) /\ Busy(v) => u = v
  /\ \A u \in DvrUsers : PlaceKept(u)
  /\ StreamsApart
  /\ ~recording /\ (\A u \in DvrUsers : dvrAt[u].call # "start") => Recorded = {}

OwnersKept ==
  /\ FilterOf("dvr") = Recorded
  /\ appFids = FilterOf("app")
  /\ FilterOf("ad") = IF adAt = "made" THEN {adFid} ELSE {}

UsersInv ==
  /\ DmxUsersTypeOK
  /\ OpensCounted /\ UsersCounted
  /\ \A f \in DemuxFilters : FilterKept(f)
  /\ \A u \in DvrUsers : dvrAt[u].at \in {"on", "free", "clear"} => dvrAt[u].i # MaxStreams + 1
  /\ dvrOpens = 0 => ~recording
  /\ adAt = "made" => adFid \in DemuxFilters
  /\ inCb = "ad" /\ adAt \notin {"made", "freed"} => kept
  /\ ~appOpen => appFids = {}
  /\ ~cut /\ ~raced => RecorderKept /\ OwnersKept

(* The first filter not in use is one.                                     *)
LEMMA FirstUnused ==
  ASSUME NEW S, S \subseteq Nat, S # {}
  PROVE  Min(S) \in S
<1>1. PICK R : R = OpToRel(<, Nat) OBVIOUS
<1>2. \A m, n \in Nat : <<m, n>> \in R <=> m < n BY <1>1 DEF OpToRel
<1>3. IsWellFoundedOn(R, Nat) BY <1>1, NatLessThanWellFounded
<1>4. PICK n \in S : \A m \in S : <<m, n>> \notin R BY <1>3, WFMin
<1>5. \A m \in S : m \in Nat /\ n \in Nat /\ ~(m < n) BY <1>2, <1>4
<1>6. \E x \in S : \A y \in S : x =< y BY <1>5
<1>. QED BY <1>6 DEF Min

FilterStates == [owner : {"free", "dvr", "ad", "app"}, on : BOOLEAN, cb : DemuxCallbacks]

Places == [call : {"out", "none", "start", "stop", "close"},
           at : {"loop", "on", "free", "clear", "end", "crash"}, i : 1 .. MaxStreams + 1]

LEMMA ReleasedFields ==
  ASSUME DmxUsersTypeOK, NEW S
  PROVE  /\ Released(filters, S) \in [DemuxFilters -> FilterStates]
         /\ \A f \in DemuxFilters :
              /\ Released(filters, S)[f].cb = filters[f].cb
              /\ f \in S => Released(filters, S)[f].owner = "free" /\ ~Released(filters, S)[f].on
              /\ f \notin S => Released(filters, S)[f] = filters[f]
BY DEF DmxUsersTypeOK, Released, FilterStates

(* A filter that is given to a user, and set up for it.                    *)
LEMMA AllocatedFields ==
  ASSUME DmxUsersTypeOK, Unused(filters) # {}, NEW who \in {"ad", "app"}
  PROVE  LET f == Min(Unused(filters))
             g == [Allocated(filters, who) EXCEPT ![f].cb = who]
             h == [Allocated(filters, who) EXCEPT ![f].cb = who, ![f].on = TRUE]
         IN  /\ f \in DemuxFilters /\ filters[f].owner = "free"
             /\ g \in [DemuxFilters -> FilterStates] /\ g[f].owner = who /\ g[f].cb = who
             /\ h \in [DemuxFilters -> FilterStates] /\ h[f].owner = who /\ h[f].cb = who
             /\ \A e \in DemuxFilters \ {f} : g[e] = filters[e] /\ h[e] = filters[e]
<1>1. Unused(filters) \subseteq Nat BY DmxUsersAssumption DEF Unused
<1>2. Min(Unused(filters)) \in Unused(filters) BY <1>1, FirstUnused
<1>3. PICK f : f = Min(Unused(filters)) OBVIOUS
<1>4. f \in DemuxFilters /\ filters[f].owner = "free" BY <1>2, <1>3 DEF Unused
<1>5. PICK a : a = [filters EXCEPT ![f].owner = who] OBVIOUS
<1>6. /\ a \in [DemuxFilters -> FilterStates] /\ a[f].owner = who
      /\ \A e \in DemuxFilters \ {f} : a[e] = filters[e]
  BY <1>4, <1>5 DEF DmxUsersTypeOK, FilterStates
<1>7. Allocated(filters, who) = a BY <1>3, <1>5 DEF Allocated
<1>8. who \in DemuxCallbacks BY DEF DemuxCallbacks
<1>9. PICK g, h : g = [a EXCEPT ![f].cb = who] /\ h = [a EXCEPT ![f].cb = who, ![f].on = TRUE]
  OBVIOUS
<1>10. /\ g \in [DemuxFilters -> FilterStates] /\ g[f].owner = who /\ g[f].cb = who
       /\ h \in [DemuxFilters -> FilterStates] /\ h[f].owner = who /\ h[f].cb = who
       /\ \A e \in DemuxFilters \ {f} : g[e] = filters[e] /\ h[e] = filters[e]
  BY <1>4, <1>6, <1>8, <1>9 DEF FilterStates
<1>. QED BY <1>3, <1>4, <1>7, <1>9, <1>10

LEMMA InitUsersInv == DmxUsersInit => UsersInv
<1>. SUFFICES ASSUME DmxUsersInit PROVE UsersInv OBVIOUS
<1>0. MaxStreams \in Nat /\ MaxDvrCalls \in Nat BY DmxUsersAssumption
<1>1. DmxUsersTypeOK
  <2>1. filters \in [DemuxFilters -> FilterStates]
    BY DEF DmxUsersInit, FilterStates, DemuxCallbacks
  <2>2. /\ recording \in BOOLEAN /\ appOpen \in BOOLEAN /\ kept \in BOOLEAN /\ cut \in BOOLEAN
        /\ raced \in BOOLEAN
    BY DEF DmxUsersInit
  <2>3. dvrAt \in [DvrUsers -> Places] BY <1>0 DEF DmxUsersInit, Places
  <2>4. streams \in [1 .. MaxStreams -> DemuxFilters \cup {NoFid}] BY DEF DmxUsersInit
  <2>. QED BY <1>0, <2>1, <2>2, <2>3, <2>4
           DEF DmxUsersInit, DmxUsersTypeOK, FilterStates, DemuxCallbacks, Places
<1>2. \A f \in DemuxFilters : filters[f].owner = "free" /\ ~filters[f].on
  BY DEF DmxUsersInit
<1>3. \A u \in DvrUsers : dvrAt[u].call = "out" /\ dvrAt[u].at = "loop" BY DEF DmxUsersInit
<1>4. UsersCounted
  <2>1. Openers = {} BY <1>3 DEF Openers
  <2>. QED BY <2>1, FS_EmptySet DEF UsersCounted, DmxUsersInit
<1>5. Recorded = {} /\ streamCnt = 0 BY DEF DmxUsersInit, Recorded
<1>6. RecorderKept BY <1>3, <1>5 DEF RecorderKept, PlaceKept, StreamsApart, Busy
<1>7. OwnersKept BY <1>2, <1>5 DEF DmxUsersInit, OwnersKept, FilterOf
<1>. QED BY <1>1, <1>2, <1>3, <1>4, <1>6, <1>7 DEF DmxUsersInit, UsersInv, OpensCounted, FilterKept

(* What the other users do, the recorder does not see.                     *)
LEMMA RecorderUnseen ==
  ASSUME UNCHANGED dvrPart
  PROVE  /\ UNCHANGED <<dvrOpens, recording, streams, streamCnt, dvrLock, dvrAt, dvrCalls, raced>>
         /\ Recorded' = Recorded /\ (UsersCounted' <=> UsersCounted)
         /\ RecorderKept' <=> RecorderKept
<1>1. UNCHANGED <<dvrOpens, recording, streams, streamCnt, dvrLock, dvrAt, dvrCalls, raced>>
  BY DEF dvrPart
<1>2. Recorded' = Recorded BY <1>1 DEF Recorded, Cleared
<1>3. \A u \in DvrUsers : (PlaceKept(u)' <=> PlaceKept(u)) /\ (Busy(u)' <=> Busy(u))
  BY <1>1 DEF PlaceKept, Busy, Fid
<1>4. StreamsApart' <=> StreamsApart BY <1>1 DEF StreamsApart
<1>5. UsersCounted' <=> UsersCounted BY <1>1 DEF UsersCounted, Openers
<1>. QED BY <1>1, <1>2, <1>3, <1>4, <1>5 DEF RecorderKept

(* A callback begins and ends.                                             *)
LEMMA CallbacksKeepUsersInv == ASSUME UsersInv, BeginCb \/ EndCb PROVE UsersInv'
<1>1. /\ UNCHANGED <<dmxOpens, filters, dvrPart, adAt, adFid, kept>>
      /\ UNCHANGED <<appOpen, appFids, cut>> /\ inCb' \in DemuxCallbacks
  BY DEF BeginCb, EndCb, adPart, appPart, UsersInv, DmxUsersTypeOK, DemuxCallbacks
<1>2. inCb' = "ad" => adAt = "made"
  <2>. SUFFICES ASSUME inCb' = "ad" PROVE adAt = "made" OBVIOUS
  <2>1. PICK f \in DemuxFilters : filters[f].on /\ filters[f].owner # "dvr" /\ filters[f].cb = "ad"
    BY DEF BeginCb, EndCb
  <2>. QED BY <2>1 DEF UsersInv, FilterKept, DmxUsersTypeOK
<1>. QED BY <1>1, <1>2, RecorderUnseen
         DEF UsersInv, DmxUsersTypeOK, OpensCounted, FilterKept, OwnersKept, FilterOf

LEMMA AdCreateKeepsUsersInv == ASSUME UsersInv, AdCreate PROVE UsersInv'
<1>1. PICK f : f = Min(Unused(filters)) OBVIOUS
<1>2. PICK g : g = [Allocated(filters, "ad") EXCEPT ![f].cb = "ad"] OBVIOUS
<1>3. /\ adAt = "none" /\ adAt' = "made" /\ adFid' = f /\ kept' = FALSE /\ filters' = g
      /\ dmxOpens' = dmxOpens + 1
      /\ UNCHANGED <<inCb, dvrPart, appOpen, appFids, cut>>
  BY <1>1, <1>2 DEF AdCreate, appPart
<1>4. DmxUsersTypeOK /\ Unused(filters) # {} BY DEF UsersInv, AdCreate
<1>5. /\ f \in DemuxFilters /\ filters[f].owner = "free"
      /\ g \in [DemuxFilters -> FilterStates] /\ g[f].owner = "ad" /\ g[f].cb = "ad"
      /\ \A e \in DemuxFilters \ {f} : g[e] = filters[e]
  BY <1>1, <1>2, <1>4, AllocatedFields
<1>6. DmxUsersTypeOK'
  <2>1. dmxOpens' \in Nat BY <1>3, <1>4 DEF DmxUsersTypeOK
  <2>2. kept' \in BOOLEAN BY <1>3
  <2>. QED BY <1>3, <1>4, <1>5, <2>1, <2>2, RecorderUnseen DEF DmxUsersTypeOK, FilterStates
<1>7. OpensCounted' /\ dmxOpens' # 0
  BY <1>3 DEF UsersInv, OpensCounted, DmxUsersTypeOK
<1>8. \A e \in DemuxFilters : FilterKept(e)'
  BY <1>3, <1>5, <1>7 DEF UsersInv, FilterKept
<1>9. ~cut /\ ~raced => OwnersKept'
  <2>. SUFFICES ASSUME ~cut, ~raced PROVE OwnersKept' OBVIOUS
  <2>1. /\ FilterOf("dvr")' = FilterOf("dvr") /\ FilterOf("app")' = FilterOf("app")
        /\ FilterOf("ad")' = FilterOf("ad") \cup {f}
    BY <1>3, <1>5 DEF FilterOf
  <2>. QED BY <1>3, <2>1, RecorderUnseen DEF UsersInv, OwnersKept
<1>. QED BY <1>3, <1>5, <1>6, <1>7, <1>8, <1>9, RecorderUnseen DEF UsersInv

LEMMA AdSwitchKeepsUsersInv == ASSUME UsersInv, AdSwitch PROVE UsersInv'
<1>1. PICK on \in BOOLEAN : filters' = [filters EXCEPT ![adFid].on = on] BY DEF AdSwitch
<1>2. /\ UNCHANGED <<dmxOpens, inCb, dvrPart, adAt, adFid, kept>>
      /\ UNCHANGED <<appOpen, appFids, cut>> /\ adAt = "made" /\ adFid \in DemuxFilters
      /\ filters[adFid].owner # "free"
  BY DEF AdSwitch, adPart, appPart, UsersInv
<1>3. /\ filters' \in [DemuxFilters -> FilterStates]
      /\ \A e \in DemuxFilters : /\ filters'[e].owner = filters[e].owner
                                 /\ filters'[e].cb = filters[e].cb
                                 /\ e # adFid => filters'[e] = filters[e]
  BY <1>1, <1>2 DEF UsersInv, DmxUsersTypeOK, FilterStates
<1>4. DmxUsersTypeOK'
  BY <1>2, <1>3, RecorderUnseen DEF UsersInv, DmxUsersTypeOK, FilterStates
<1>5. \A who : FilterOf(who)' = FilterOf(who) BY <1>3 DEF FilterOf
<1>6. ~cut /\ ~raced => OwnersKept' BY <1>2, <1>5, RecorderUnseen DEF UsersInv, OwnersKept
<1>7. \A e \in DemuxFilters : FilterKept(e)' BY <1>2, <1>3 DEF UsersInv, FilterKept
<1>. QED BY <1>2, <1>4, <1>6, <1>7, RecorderUnseen DEF UsersInv, OpensCounted

(* What is released is nobody's, and the rest is whose it was.             *)
LEMMA ReleasedOwners ==
  ASSUME UsersInv, NEW S, filters' = Released(filters, S)
  PROVE  /\ filters' \in [DemuxFilters -> FilterStates]
         /\ \A who : who # "free" => FilterOf(who)' = FilterOf(who) \ S
         /\ \A f \in DemuxFilters :
              /\ filters'[f].cb = filters[f].cb
              /\ f \in S => filters'[f].owner = "free" /\ ~filters'[f].on
              /\ f \notin S => filters'[f] = filters[f]
<1>1. /\ filters' \in [DemuxFilters -> FilterStates]
      /\ \A f \in DemuxFilters :
           /\ filters'[f].cb = filters[f].cb
           /\ f \in S => filters'[f].owner = "free" /\ ~filters'[f].on
           /\ f \notin S => filters'[f] = filters[f]
  BY ReleasedFields DEF UsersInv
<1>. QED BY <1>1 DEF FilterOf

LEMMA AdFreeFilterKeepsUsersInv == ASSUME UsersInv, AdFreeFilter PROVE UsersInv'
<1>1. /\ adAt = "made" /\ adAt' = "freed" /\ filters' = Released(filters, {adFid})
      /\ UNCHANGED <<dmxOpens, inCb, dvrPart, adFid, kept>>
      /\ UNCHANGED <<appOpen, appFids, cut>> /\ adFid \in DemuxFilters
  BY DEF AdFreeFilter, appPart, UsersInv
<1>2. /\ filters' \in [DemuxFilters -> FilterStates]
      /\ \A who : who # "free" => FilterOf(who)' = FilterOf(who) \ {adFid}
      /\ \A f \in DemuxFilters :
           /\ f = adFid => filters'[f].owner = "free" /\ ~filters'[f].on
           /\ f # adFid => filters'[f] = filters[f]
  BY <1>1, ReleasedOwners
<1>3. DmxUsersTypeOK' BY <1>1, <1>2, RecorderUnseen DEF UsersInv, DmxUsersTypeOK, FilterStates
<1>4. OpensCounted' BY <1>1 DEF UsersInv, OpensCounted
<1>5. \A f \in DemuxFilters : FilterKept(f)' BY <1>1, <1>2 DEF UsersInv, FilterKept
<1>6. ~cut /\ ~raced => OwnersKept'
  <2>. SUFFICES ASSUME ~cut, ~raced PROVE OwnersKept' OBVIOUS
  <2>1. OwnersKept /\ FilterOf("ad") = {adFid} BY <1>1 DEF UsersInv, OwnersKept
  <2>2. adFid \notin FilterOf("dvr") /\ adFid \notin FilterOf("app") BY <2>1 DEF FilterOf
  <2>3. /\ FilterOf("dvr")' = FilterOf("dvr") /\ FilterOf("app")' = FilterOf("app")
        /\ FilterOf("ad")' = {}
    BY <1>2, <2>1, <2>2
  <2>. QED BY <1>1, <2>1, <2>3, RecorderUnseen DEF OwnersKept
<1>. QED BY <1>1, <1>3, <1>4, <1>5, <1>6, RecorderUnseen DEF UsersInv

(* The last close frees every filter, another one changes none.            *)
LEMMA CloseKeepsUsersInv == ASSUME UsersInv, AdClose \/ AppClose PROVE UsersInv'
<1>0. DmxUsersTypeOK /\ OpensCounted BY DEF UsersInv
<1>1. /\ CloseDmx /\ UNCHANGED <<inCb, dvrPart, adFid, appFids>>
      /\ \/ /\ adAt = "freed" /\ adAt' = "closed" /\ kept' = (dmxOpens > 1)
            /\ UNCHANGED appOpen
         \/ appOpen /\ ~appOpen' /\ appFids = {} /\ UNCHANGED <<adAt, kept>>
  BY DEF AdClose, AppClose, adPart, appPart
<1>2. /\ dmxOpens \in {1, 2} /\ dmxOpens' = dmxOpens - 1
      /\ dmxOpens = 1 => inCb = "null"
      /\ cut' = (cut \/ (dmxOpens = 1 /\ Recorded # {}))
  BY <1>0, <1>1 DEF OpensCounted, CloseDmx, ClosedDmx
<1>4. kept' \in BOOLEAN /\ appOpen' \in BOOLEAN /\ cut' \in BOOLEAN
  <2>1. CASE AdClose
    <3>1. kept' = (dmxOpens > 1) /\ appOpen' = appOpen BY <2>1 DEF AdClose, appPart
    <3>. QED BY <1>0, <1>2, <3>1 DEF DmxUsersTypeOK
  <2>2. CASE AppClose
    <3>1. kept' = kept /\ appOpen' = FALSE BY <2>2 DEF AppClose, adPart
    <3>. QED BY <1>0, <1>2, <3>1 DEF DmxUsersTypeOK
  <2>. QED BY <2>1, <2>2
<1>5. OpensCounted' BY <1>0, <1>1, <1>2 DEF OpensCounted
<1>6. CASE dmxOpens = 2
  <2>1. filters' = Released(filters, {}) BY <1>1, <1>6 DEF CloseDmx, ClosedDmx
  <2>2. filters' = filters
    BY <1>0, <2>1 DEF Released, DmxUsersTypeOK
  <2>3. (cut' <=> cut) /\ appOpen /\ adAt \in {"made", "freed"}
    BY <1>0, <1>2, <1>6 DEF OpensCounted, DmxUsersTypeOK
  <2>4. DmxUsersTypeOK'
    BY <1>0, <1>1, <1>2, <1>4, <1>6, <2>2, RecorderUnseen DEF DmxUsersTypeOK
  <2>5. adAt' = "made" <=> adAt = "made" BY <1>1
  <2>6. ~cut' /\ ~raced => OwnersKept'
    BY <1>1, <2>2, <2>3, <2>5, RecorderUnseen DEF UsersInv, OwnersKept, FilterOf
  <2>7. inCb' = "ad" /\ adAt' \notin {"made", "freed"} => kept'
    <3>1. CASE kept' = (dmxOpens > 1)
      <4>1. dmxOpens > 1 BY <1>6
      <4>. QED BY <3>1, <4>1
    <3>. QED BY <1>1, <2>3, <3>1
  <2>8. \A f \in DemuxFilters : FilterKept(f)'
    BY <1>1, <1>2, <1>6, <2>2, <2>5 DEF UsersInv, FilterKept
  <2>9. ~appOpen' => appFids' = {} BY <1>1, <2>3
  <2>. QED BY <1>1, <1>2, <1>5, <1>6, <2>3, <2>4, <2>5, <2>6, <2>7, <2>8, <2>9, RecorderUnseen
           DEF UsersInv
<1>7. CASE dmxOpens = 1
  <2>1. filters' = Released(filters, DemuxFilters) BY <1>1, <1>7 DEF CloseDmx, ClosedDmx
  <2>2. /\ filters' \in [DemuxFilters -> FilterStates]
        /\ \A f \in DemuxFilters : filters'[f].owner = "free" /\ ~filters'[f].on
    BY <1>0, <2>1, ReleasedFields
  <2>3. adAt' \notin {"made", "freed"} /\ ~appOpen' /\ appFids = {}
    BY <1>0, <1>1, <1>7 DEF OpensCounted, UsersInv, DmxUsersTypeOK
  <2>4. DmxUsersTypeOK'
    BY <1>0, <1>1, <1>2, <1>4, <1>7, <2>2, RecorderUnseen DEF DmxUsersTypeOK, FilterStates
  <2>5. ~cut' => OwnersKept'
    <3>1. \A who : who # "free" => FilterOf(who)' = {} BY <2>2 DEF FilterOf
    <3>. QED BY <1>1, <1>2, <1>7, <2>3, <3>1, RecorderUnseen DEF OwnersKept
  <2>6. \A f \in DemuxFilters : FilterKept(f)' BY <2>2 DEF FilterKept
  <2>7. ~cut' => ~cut BY <1>2
  <2>8. ~cut' /\ ~raced' => RecorderKept' /\ OwnersKept'
    BY <1>1, <2>5, <2>7, RecorderUnseen DEF UsersInv
  <2>9. inCb' # "ad" BY <1>1, <1>2, <1>7
  <2>. QED BY <1>1, <1>5, <2>3, <2>4, <2>6, <2>8, <2>9, RecorderUnseen DEF UsersInv
<1>. QED BY <1>2, <1>6, <1>7

LEMMA OpensKeepUsersInv == ASSUME UsersInv, AdFree \/ AppOpen PROVE UsersInv'
<1>0. DmxUsersTypeOK BY DEF UsersInv
<1>1. UNCHANGED <<filters, inCb, kept, appFids, cut, dvrPart>>
  BY DEF AdFree, AppOpen, dmxPart, adPart, appPart
<1>3. CASE AdFree
  <2>1. /\ adAt = "closed" /\ adAt' = "none" /\ adFid' = NoFid
        /\ UNCHANGED <<dmxOpens, appOpen>>
    BY <1>3 DEF AdFree, dmxPart, appPart
  <2>2. DmxUsersTypeOK' BY <1>0, <1>1, <2>1, RecorderUnseen DEF DmxUsersTypeOK
  <2>3. ~cut /\ ~raced => OwnersKept'
    BY <1>1, <2>1, RecorderUnseen DEF UsersInv, OwnersKept, FilterOf
  <2>4. \A f \in DemuxFilters : FilterKept(f)' BY <1>1, <2>1 DEF UsersInv, FilterKept
  <2>. QED BY <1>1, <2>1, <2>2, <2>3, <2>4, RecorderUnseen DEF UsersInv, OpensCounted
<1>5. CASE AppOpen
  <2>1. /\ ~appOpen /\ appOpen' /\ appOpen' \in BOOLEAN /\ dmxOpens' = dmxOpens + 1
        /\ UNCHANGED <<adAt, adFid>>
    BY <1>5 DEF AppOpen, adPart
  <2>2. DmxUsersTypeOK' /\ dmxOpens' # 0
    BY <1>0, <1>1, <2>1, RecorderUnseen DEF DmxUsersTypeOK
  <2>3. ~cut /\ ~raced => OwnersKept'
    BY <1>1, <2>1, RecorderUnseen DEF UsersInv, OwnersKept, FilterOf
  <2>4. OpensCounted' BY <1>0, <2>1 DEF UsersInv, OpensCounted, DmxUsersTypeOK
  <2>5. \A f \in DemuxFilters : FilterKept(f)' BY <1>1, <2>1, <2>2 DEF UsersInv, FilterKept
  <2>. QED BY <1>1, <2>1, <2>2, <2>3, <2>4, <2>5, RecorderUnseen DEF UsersInv
<1>. QED BY <1>3, <1>5

LEMMA AppAllocateKeepsUsersInv == ASSUME UsersInv, AppAllocate PROVE UsersInv'
<1>0. DmxUsersTypeOK /\ Unused(filters) # {} BY DEF UsersInv, AppAllocate
<1>1. PICK f : f = Min(Unused(filters)) OBVIOUS
<1>2. PICK h : h = [Allocated(filters, "app") EXCEPT ![f].cb = "app", ![f].on = TRUE] OBVIOUS
<1>3. /\ appOpen /\ appFids' = appFids \cup {f} /\ filters' = h
      /\ UNCHANGED <<dmxOpens, inCb, dvrPart, adAt, adFid, kept, appOpen, cut>>
  BY <1>1, <1>2 DEF AppAllocate, adPart
<1>4. /\ f \in DemuxFilters /\ filters[f].owner = "free"
      /\ h \in [DemuxFilters -> FilterStates] /\ h[f].owner = "app" /\ h[f].cb = "app"
      /\ \A e \in DemuxFilters \ {f} : h[e] = filters[e]
  BY <1>0, <1>1, <1>2, AllocatedFields
<1>5. DmxUsersTypeOK' BY <1>0, <1>3, <1>4, RecorderUnseen DEF DmxUsersTypeOK, FilterStates
<1>6. dmxOpens # 0 BY <1>3 DEF UsersInv, OpensCounted
<1>7. \A e \in DemuxFilters : FilterKept(e)' BY <1>3, <1>4, <1>6 DEF UsersInv, FilterKept
<1>8. ~cut /\ ~raced => OwnersKept'
  <2>. SUFFICES ASSUME ~cut, ~raced PROVE OwnersKept' OBVIOUS
  <2>1. /\ FilterOf("dvr")' = FilterOf("dvr") /\ FilterOf("ad")' = FilterOf("ad")
        /\ FilterOf("app")' = FilterOf("app") \cup {f}
    BY <1>3, <1>4 DEF FilterOf
  <2>. QED BY <1>3, <2>1, RecorderUnseen DEF UsersInv, OwnersKept
<1>. QED BY <1>3, <1>5, <1>6, <1>7, <1>8, RecorderUnseen DEF UsersInv, OpensCounted

LEMMA AppFreeKeepsUsersInv == ASSUME UsersInv, AppFree PROVE UsersInv'
<1>0. DmxUsersTypeOK BY DEF UsersInv
<1>1. PICK f \in appFids : appFids' = appFids \ {f} /\ filters' = Released(filters, {f})
  BY DEF AppFree
<1>2. /\ UNCHANGED <<dmxOpens, inCb, dvrPart, adAt, adFid, kept, appOpen, cut>>
      /\ f \in DemuxFilters
  BY <1>0 DEF AppFree, adPart, DmxUsersTypeOK
<1>3. /\ filters' \in [DemuxFilters -> FilterStates]
      /\ \A who : who # "free" => FilterOf(who)' = FilterOf(who) \ {f}
      /\ \A e \in DemuxFilters :
           /\ e = f => filters'[e].owner = "free" /\ ~filters'[e].on
           /\ e # f => filters'[e] = filters[e]
  BY <1>1, <1>2, ReleasedOwners
<1>4. DmxUsersTypeOK' BY <1>0, <1>1, <1>2, <1>3, RecorderUnseen DEF DmxUsersTypeOK, FilterStates
<1>5. ~cut /\ ~raced => OwnersKept'
  <2>. SUFFICES ASSUME ~cut, ~raced PROVE OwnersKept' OBVIOUS
  <2>1. OwnersKept /\ f \in FilterOf("app") BY DEF UsersInv, OwnersKept
  <2>2. f \notin FilterOf("dvr") /\ f \notin FilterOf("ad") BY <2>1 DEF FilterOf
  <2>3. /\ FilterOf("dvr")' = FilterOf("dvr") /\ FilterOf("ad")' = FilterOf("ad")
        /\ FilterOf("app")' = FilterOf("app") \ {f}
    BY <1>3, <2>2
  <2>. QED BY <1>1, <1>2, <2>1, <2>3, RecorderUnseen DEF OwnersKept
<1>6. \A e \in DemuxFilters : FilterKept(e)' BY <1>2, <1>3 DEF UsersInv, FilterKept
<1>7. ~appOpen => appFids' = {} BY <1>1 DEF UsersInv
<1>. QED BY <1>2, <1>4, <1>5, <1>6, <1>7, RecorderUnseen DEF UsersInv, OpensCounted

(* One call of the recorder works on the streams: where the others are,    *)
(* and what is left to show when it moves to r.                            *)
Elsewhere(u) == \A v \in DvrUsers \ {u} : dvrAt[v].call \in {"out", "none"} /\ dvrAt[v].at = "loop"

LEMMA BusyAlone ==
  ASSUME DmxUsersTypeOK, RecorderKept, NEW u \in DvrUsers, \A v \in DvrUsers \ {u} : ~Busy(v)
  PROVE  Elsewhere(u)
BY DEF RecorderKept, DmxUsersTypeOK, PlaceKept, Busy, Elsewhere

LEMMA GoesTo ==
  ASSUME DmxUsersTypeOK, NEW u \in DvrUsers, NEW at, NEW i, Goes(u, at, i)
  PROVE  dvrAt' = [dvrAt EXCEPT ![u] = [call |-> dvrAt[u].call, at |-> at, i |-> i]]
<1>1. dvrAt \in [DvrUsers -> Places] BY DEF DmxUsersTypeOK, Places
<1>2. dvrAt' = [dvrAt EXCEPT ![u] = [[dvrAt[u] EXCEPT !.at = at] EXCEPT !.i = i]]
  BY <1>1 DEF Goes
<1>3. [[dvrAt[u] EXCEPT !.at = at] EXCEPT !.i = i] = [call |-> dvrAt[u].call, at |-> at, i |-> i]
  <2>1. dvrAt[u] \in Places BY <1>1
  <2>2. PICK p \in Places : p = dvrAt[u] BY <2>1
  <2>3. PICK c, a, j : p = [call |-> c, at |-> a, i |-> j] BY DEF Places
  <2>4. [p EXCEPT !.at = at] = [call |-> c, at |-> at, i |-> j] BY <2>3
  <2>6. [[call |-> c, at |-> at, i |-> j] EXCEPT !.i = i] = [call |-> c, at |-> at, i |-> i]
    OBVIOUS
  <2>5. p.call = c BY <2>3
  <2>. QED BY <2>2, <2>4, <2>5, <2>6
<1>. QED BY <1>2, <1>3

LEMMA UserMoves ==
  ASSUME DmxUsersTypeOK, NEW u \in DvrUsers, NEW r \in Places,
         dvrAt' = [dvrAt EXCEPT ![u] = r], Elsewhere(u)
  PROVE  /\ dvrAt'[u] = r
         /\ Cleared = IF dvrAt[u].at = "clear" THEN {streams[dvrAt[u].i]} ELSE {}
         /\ Cleared' = IF r.at = "clear" THEN {streams'[r.i]} ELSE {}
         /\ (\A v \in DvrUsers : dvrAt[v].call # "start") <=> dvrAt[u].call # "start"
         /\ (\A v \in DvrUsers : dvrAt'[v].call # "start") <=> r.call # "start"
         /\ PlaceKept(u)' /\ StreamsApart' /\ (~recording' /\ r.call # "start" => Recorded' = {})
              => RecorderKept'
<1>1. dvrAt \in [DvrUsers -> Places] BY DEF DmxUsersTypeOK, Places
<1>2. dvrAt'[u] = r /\ \A v \in DvrUsers \ {u} : dvrAt'[v] = dvrAt[v] BY <1>1
<1>3. Cleared = IF dvrAt[u].at = "clear" THEN {streams[dvrAt[u].i]} ELSE {}
  <2>1. {v \in DvrUsers : dvrAt[v].at = "clear"} = IF dvrAt[u].at = "clear" THEN {u} ELSE {}
    BY DEF Elsewhere
  <2>. QED BY <2>1 DEF Cleared
<1>4. Cleared' = IF r.at = "clear" THEN {streams'[r.i]} ELSE {}
  <2>1. {v \in DvrUsers : dvrAt'[v].at = "clear"} = IF r.at = "clear" THEN {u} ELSE {}
    BY <1>2 DEF Elsewhere
  <2>. QED BY <1>2, <2>1 DEF Cleared
<1>5. (\A v \in DvrUsers : dvrAt[v].call # "start") <=> dvrAt[u].call # "start" BY DEF Elsewhere
<1>6. (\A v \in DvrUsers : dvrAt'[v].call # "start") <=> r.call # "start" BY <1>2 DEF Elsewhere
<1>7. \A v \in DvrUsers \ {u} : PlaceKept(v)' /\ ~Busy(v)' BY <1>2 DEF Elsewhere, PlaceKept, Busy
<1>8. PlaceKept(u)' /\ StreamsApart' /\ (~recording' /\ r.call # "start" => Recorded' = {})
        => RecorderKept'
  BY <1>6, <1>7 DEF RecorderKept
<1>. QED BY <1>2, <1>3, <1>4, <1>5, <1>6, <1>8

(* The users that have the recorder open are counted.                      *)
LEMMA OpenersMove ==
  ASSUME UsersInv, NEW u \in DvrUsers, NEW r \in Places, dvrAt' = [dvrAt EXCEPT ![u] = r],
         \/ dvrAt[u].call # "out" /\ r.call # "out" /\ dvrOpens' = dvrOpens
         \/ dvrAt[u].call = "out" /\ r.call # "out" /\ dvrOpens' = dvrOpens + 1
         \/ dvrAt[u].call # "out" /\ r.call = "out" /\ dvrOpens' = dvrOpens - 1
  PROVE  /\ UsersCounted' /\ dvrOpens' \in Int
         /\ r.call # "out" => dvrOpens' # 0
         /\ dvrOpens = 0 => \A v \in DvrUsers : dvrAt[v].call = "out"
<1>1. dvrAt \in [DvrUsers -> Places] /\ dvrOpens \in Int
  BY DEF UsersInv, DmxUsersTypeOK, Places
<1>2. dvrAt'[u] = r /\ \A v \in DvrUsers \ {u} : dvrAt'[v] = dvrAt[v] BY <1>1
<1>3. IsFiniteSet(Openers) /\ dvrOpens = Cardinality(Openers) BY DEF UsersInv, UsersCounted
<1>4. /\ IsFiniteSet(Openers \cup {u}) /\ IsFiniteSet(Openers \ {u})
      /\ u \notin Openers => Cardinality(Openers \cup {u}) = Cardinality(Openers) + 1
      /\ u \in Openers => Cardinality(Openers \ {u}) = Cardinality(Openers) - 1
  BY <1>3, FS_AddElement, FS_RemoveElement
<1>5. Openers' = IF r.call = "out" THEN Openers \ {u} ELSE Openers \cup {u}
  BY <1>2 DEF Openers
<1>6. u \in Openers <=> dvrAt[u].call # "out" BY DEF Openers
<1>7. UsersCounted'
  <2>1. CASE dvrAt[u].call # "out" /\ r.call # "out"
    <3>1. Openers' = Openers BY <1>5, <1>6, <2>1
    <3>. QED BY <1>3, <2>1, <3>1 DEF UsersCounted
  <2>2. CASE dvrAt[u].call = "out" /\ r.call # "out"
    BY <1>3, <1>4, <1>5, <1>6, <2>2 DEF UsersCounted
  <2>3. CASE dvrAt[u].call # "out" /\ r.call = "out"
    BY <1>3, <1>4, <1>5, <1>6, <2>3 DEF UsersCounted
  <2>. QED BY <2>1, <2>2, <2>3
<1>8. dvrOpens' \in Int BY <1>1
<1>9. r.call # "out" => dvrOpens' # 0
  <2>. SUFFICES ASSUME r.call # "out", dvrOpens' = 0 PROVE FALSE OBVIOUS
  <2>1. Openers' = {} BY <1>7, FS_EmptySet DEF UsersCounted
  <2>. QED BY <1>5, <2>1
<1>10. dvrOpens = 0 => Openers = {} BY <1>3, FS_EmptySet
<1>. QED BY <1>7, <1>8, <1>9, <1>10 DEF Openers

(* What is left to show of a step of the recorder.                         *)
FilterMoves(f) ==
  \/ /\ filters'[f].owner = filters[f].owner /\ filters'[f].cb = filters[f].cb
     /\ filters[f].owner = "free" => ~filters'[f].on
  \/ filters'[f].owner = "free" /\ ~filters'[f].on
  \/ filters'[f].owner = "dvr" /\ dmxOpens # 0

LEMMA RecorderStep ==
  ASSUME UsersInv, NEW u \in DvrUsers, NEW r \in Places, dvrAt' = [dvrAt EXCEPT ![u] = r],
         UNCHANGED <<dmxOpens, inCb, adPart, appPart, cut>>,
         \/ dvrAt[u].call # "out" /\ r.call # "out" /\ dvrOpens' = dvrOpens
         \/ dvrAt[u].call = "out" /\ r.call # "out" /\ dvrOpens' = dvrOpens + 1
         \/ dvrAt[u].call # "out" /\ r.call = "out" /\ dvrOpens' = dvrOpens - 1 /\ ~recording',
         filters' \in [DemuxFilters -> FilterStates], \A f \in DemuxFilters : FilterMoves(f),
         recording' \in BOOLEAN, raced' \in BOOLEAN, dvrCalls' \in 0 .. MaxDvrCalls,
         streams' \in [1 .. MaxStreams -> DemuxFilters \cup {NoFid}], streamCnt' \in 0 .. MaxStreams,
         dvrLock' \in DvrUsers \cup {"free", "destroyed"},
         r.at \in {"on", "free", "clear"} => r.i # MaxStreams + 1,
         ~cut /\ ~raced' => RecorderKept' /\ OwnersKept'
  PROVE  UsersInv'
<1>0. DmxUsersTypeOK BY DEF UsersInv
<1>1. UNCHANGED <<dmxOpens, inCb, adAt, adFid, kept, appOpen, appFids, cut>> BY DEF adPart, appPart
<1>2. UsersCounted' /\ dvrOpens' \in Int /\ (dvrOpens' = 0 => ~recording')
  <2>1. UsersCounted' /\ dvrOpens' \in Int /\ (r.call # "out" => dvrOpens' # 0) BY OpenersMove
  <2>. QED BY <2>1
<1>3. dvrAt \in [DvrUsers -> Places] /\ dvrAt' \in [DvrUsers -> Places]
  BY <1>0 DEF DmxUsersTypeOK, Places
<1>4. DmxUsersTypeOK'
  BY <1>0, <1>1, <1>2, <1>3 DEF DmxUsersTypeOK, FilterStates, Places
<1>5. \A f \in DemuxFilters : FilterKept(f)'
  BY <1>1 DEF UsersInv, FilterKept, FilterMoves
<1>6. \A v \in DvrUsers : dvrAt'[v].at \in {"on", "free", "clear"} => dvrAt'[v].i # MaxStreams + 1
  BY <1>0, <1>3 DEF UsersInv
<1>. QED BY <1>1, <1>2, <1>4, <1>5, <1>6 DEF UsersInv, OpensCounted

(* The filters of a step that changes none, or one it finds by its number. *)
LEMMA SwitchedMoves ==
  ASSUME UsersInv, NEW f, NEW on \in BOOLEAN,
         filters' = Switched(filters, f, on) \/ filters' = filters
  PROVE  /\ filters' \in [DemuxFilters -> FilterStates]
         /\ \A e \in DemuxFilters : FilterMoves(e)
         /\ \A who : FilterOf(who)' = FilterOf(who)
<1>1. filters \in [DemuxFilters -> FilterStates] BY DEF UsersInv, DmxUsersTypeOK, FilterStates
<1>2. \A e \in DemuxFilters : filters[e].owner = "free" => ~filters[e].on
  BY DEF UsersInv, FilterKept
<1>3. /\ filters' \in [DemuxFilters -> FilterStates]
      /\ \A e \in DemuxFilters :
           /\ filters'[e].owner = filters[e].owner /\ filters'[e].cb = filters[e].cb
           /\ filters[e].owner = "free" => filters'[e] = filters[e]
  BY <1>1 DEF Switched, FilterStates
<1>. QED BY <1>2, <1>3 DEF FilterMoves, FilterOf

(* AM_DVR_Open, while a call of another user may run.                      *)
LEMMA DvrOpenKeepsUsersInv == ASSUME UsersInv, NEW u \in DvrUsers, DvrOpen(u) PROVE UsersInv'
<1>0. DmxUsersTypeOK BY DEF UsersInv
<1>1. PICK r : r = [call |-> "none", at |-> "loop", i |-> 1] OBVIOUS
<1>2. r \in Places BY <1>1, DmxUsersAssumption DEF Places
<1>3. /\ dvrAt[u].call = "out" /\ dvrAt' = [dvrAt EXCEPT ![u] = r] /\ dvrOpens' = dvrOpens + 1
      /\ UNCHANGED <<dmxOpens, filters, inCb, adPart, appPart, cut, dvrCalls, raced>>
      /\ \/ /\ dvrOpens = 0
            /\ streams' = [i \in 1 .. MaxStreams |-> NoFid] /\ streamCnt' = 0
            /\ recording' = FALSE /\ dvrLock' = "free"
         \/ dvrOpens # 0 /\ UNCHANGED <<streams, streamCnt, recording, dvrLock>>
  BY <1>1 DEF DvrOpen, Ends, dmxPart
<1>4. /\ recording' \in BOOLEAN /\ streams' \in [1 .. MaxStreams -> DemuxFilters \cup {NoFid}]
      /\ streamCnt' \in 0 .. MaxStreams /\ dvrLock' \in DvrUsers \cup {"free", "destroyed"}
  <2>1. CASE dvrOpens = 0
    <3>1. recording' \in BOOLEAN BY <1>3, <2>1
    <3>2. streams' \in [1 .. MaxStreams -> DemuxFilters \cup {NoFid}] BY <1>3, <2>1
    <3>3. streamCnt' \in 0 .. MaxStreams BY <1>3, <2>1, DmxUsersAssumption
    <3>. QED BY <1>3, <2>1, <3>1, <3>2, <3>3
  <2>2. CASE dvrOpens # 0 BY <1>0, <1>3, <2>2 DEF DmxUsersTypeOK
  <2>. QED BY <2>1, <2>2
<1>5. /\ filters' \in [DemuxFilters -> FilterStates] /\ \A f \in DemuxFilters : FilterMoves(f)
      /\ FilterOf("dvr")' = FilterOf("dvr") /\ FilterOf("app")' = FilterOf("app")
      /\ FilterOf("ad")' = FilterOf("ad")
  BY <1>3, SwitchedMoves
<1>6. ~cut /\ ~raced => RecorderKept' /\ OwnersKept'
  <2>. SUFFICES ASSUME ~cut, ~raced PROVE RecorderKept' /\ OwnersKept' OBVIOUS
  <2>0. RecorderKept /\ OwnersKept BY DEF UsersInv
  <2>1. r.call # "out" /\ r.call # "start" /\ r.at = "loop" BY <1>1
  <2>2. dvrAt[u].at = "loop" BY <1>3, <2>0 DEF RecorderKept, PlaceKept, Busy
  <2>3. dvrAt'[u] = r /\ \A v \in DvrUsers \ {u} : dvrAt'[v] = dvrAt[v]
    BY <1>0, <1>3 DEF DmxUsersTypeOK
  <2>4. CASE dvrOpens = 0
    <3>1. \A v \in DvrUsers : dvrAt[v].call = "out" BY <1>2, <1>3, <2>1, <2>4, OpenersMove
    <3>2. Elsewhere(u) BY <2>0, <3>1 DEF Elsewhere, RecorderKept, PlaceKept, Busy
    <3>3. Cleared = {} /\ Cleared' = {} BY <1>0, <1>2, <1>3, <2>1, <2>2, <3>2, UserMoves
    <3>4. streamCnt' = 0 BY <1>3, <2>4
    <3>5. Recorded' = {} BY <3>4 DEF Recorded
    <3>6. Recorded = {} BY <2>0, <2>4, <3>1 DEF RecorderKept, UsersInv
    <3>7. PlaceKept(u)' /\ StreamsApart' BY <1>1, <2>3, <3>4 DEF PlaceKept, StreamsApart
    <3>8. RecorderKept' BY <1>0, <1>2, <1>3, <3>2, <3>5, <3>7, UserMoves
    <3>. QED BY <1>3, <1>5, <2>0, <3>5, <3>6, <3>8 DEF OwnersKept, adPart, appPart
  <2>5. CASE dvrOpens # 0
    <3>1. UNCHANGED <<streams, streamCnt, recording>> BY <1>3, <2>5
    <3>2. {v \in DvrUsers : dvrAt'[v].at = "clear"} = {v \in DvrUsers : dvrAt[v].at = "clear"}
      BY <2>1, <2>2, <2>3
    <3>3. \A v \in {w \in DvrUsers : dvrAt[w].at = "clear"} : dvrAt'[v] = dvrAt[v]
      BY <2>2, <2>3
    <3>4. Recorded' = Recorded BY <3>1, <3>2, <3>3 DEF Recorded, Cleared
    <3>5. \A v \in DvrUsers : PlaceKept(v)' /\ (Busy(v)' <=> Busy(v))
      BY <1>1, <1>3, <2>0, <2>3, <3>1 DEF RecorderKept, PlaceKept, Busy, Fid
    <3>6. \A v \in DvrUsers : dvrAt'[v].call # "start" <=> dvrAt[v].call # "start"
      BY <1>3, <2>1, <2>3
    <3>7. RecorderKept' BY <2>0, <3>1, <3>4, <3>5, <3>6 DEF RecorderKept, StreamsApart
    <3>. QED BY <1>3, <1>5, <2>0, <3>4, <3>7 DEF OwnersKept, adPart, appPart
  <2>. QED BY <2>4, <2>5
<1>7. dvrCalls' \in 0 .. MaxDvrCalls /\ raced' \in BOOLEAN /\ ~(r.at \in {"on", "free", "clear"})
  BY <1>0, <1>1, <1>3 DEF DmxUsersTypeOK
<1>8. r.call # "out" BY <1>1
<1>. QED BY <1>2, <1>3, <1>4, <1>5, <1>6, <1>7, <1>8, RecorderStep

(* A call of the recorder begins.                                          *)
LEMMA BeginsKeepsUsersInv ==
  ASSUME UsersInv, NEW u \in DvrUsers, StartRecord(u) \/ StopRecord(u) \/ DvrClose(u)
  PROVE  UsersInv'
<1>0. DmxUsersTypeOK BY DEF UsersInv
<1>1. PICK call \in {"start", "stop", "close"} :
        /\ Begins(u, call)
        /\ UNCHANGED <<dmxOpens, filters, inCb, dvrOpens, recording, adPart, appPart, cut>>
        /\ dvrLock' \in DvrUsers \cup {"free", "destroyed"}
  BY <1>0 DEF StartRecord, StopRecord, DvrClose, dmxPart, Locks, DmxUsersTypeOK
<1>2. PICK r : r = [call |-> call, at |-> "loop", i |-> 1] OBVIOUS
<1>3. r \in Places BY <1>2, DmxUsersAssumption DEF Places
<1>4. /\ dvrAt[u].call = "none" /\ dvrAt' = [dvrAt EXCEPT ![u] = r] /\ dvrCalls' = dvrCalls + 1
      /\ dvrCalls < MaxDvrCalls /\ raced' = (raced \/ \E v \in DvrUsers \ {u} : Busy(v))
  BY <1>1, <1>2 DEF Begins
<1>5. /\ streamCnt' \in 0 .. MaxStreams /\ streamCnt' >= streamCnt
      /\ streams' \in [1 .. MaxStreams -> DemuxFilters \cup {NoFid}]
      /\ \A i \in 1 .. streamCnt' : streams'[i] = IF i \in 1 .. streamCnt THEN streams[i] ELSE NoFid
  <2>1. CASE StartRecord(u)
    <3>1. PICK n \in 1 .. MaxStreams :
            /\ streamCnt' = Min({streamCnt + n, MaxStreams})
            /\ streams' = [i \in 1 .. MaxStreams |->
                             IF i \in streamCnt + 1 .. streamCnt' THEN NoFid ELSE streams[i]]
      BY <2>1 DEF StartRecord
    <3>2. /\ streamCnt \in 0 .. MaxStreams /\ MaxStreams \in Nat
          /\ streams \in [1 .. MaxStreams -> DemuxFilters \cup {NoFid}]
      BY <1>0, DmxUsersAssumption DEF DmxUsersTypeOK
    <3>3. streamCnt' \in {streamCnt + n, MaxStreams}
      <4>1. {streamCnt + n, MaxStreams} \subseteq Nat BY <3>2
      <4>. QED BY <3>1, <4>1, FirstUnused
    <3>4. streamCnt' \in 0 .. MaxStreams /\ streamCnt' >= streamCnt
      <4>1. Min({streamCnt + n, MaxStreams}) =< MaxStreams
        <5>1. PICK m : m = Min({streamCnt + n, MaxStreams}) OBVIOUS
        <5>2. \E x \in {streamCnt + n, MaxStreams} : \A y \in {streamCnt + n, MaxStreams} : x =< y
          BY <3>2
        <5>. QED BY <5>2 DEF Min
      <4>. QED BY <3>1, <3>2, <3>3, <4>1
    <3>5. streams' \in [1 .. MaxStreams -> DemuxFilters \cup {NoFid}] BY <3>1, <3>2
    <3>6. \A i \in 1 .. streamCnt' :
            streams'[i] = IF i \in 1 .. streamCnt THEN streams[i] ELSE NoFid
      BY <3>1, <3>2, <3>4
    <3>. QED BY <3>4, <3>5, <3>6
  <2>2. CASE StopRecord(u) \/ DvrClose(u)
    <3>1. UNCHANGED <<streams, streamCnt>> BY <2>2 DEF StopRecord, DvrClose
    <3>. QED BY <1>0, <3>1 DEF DmxUsersTypeOK
  <2>. QED BY <1>1, <2>1, <2>2
<1>6. /\ filters' \in [DemuxFilters -> FilterStates] /\ \A f \in DemuxFilters : FilterMoves(f)
      /\ FilterOf("dvr")' = FilterOf("dvr") /\ FilterOf("app")' = FilterOf("app")
      /\ FilterOf("ad")' = FilterOf("ad")
  BY <1>1, SwitchedMoves
<1>7. ~cut /\ ~raced' => RecorderKept' /\ OwnersKept'
  <2>. SUFFICES ASSUME ~cut, ~raced' PROVE RecorderKept' /\ OwnersKept' OBVIOUS
  <2>0. RecorderKept /\ OwnersKept /\ Elsewhere(u)
    BY <1>0, <1>4, BusyAlone DEF UsersInv
  <2>1. /\ dvrAt'[u] = r
        /\ Cleared = IF dvrAt[u].at = "clear" THEN {streams[dvrAt[u].i]} ELSE {}
        /\ Cleared' = IF r.at = "clear" THEN {streams'[r.i]} ELSE {}
        /\ (\A v \in DvrUsers : dvrAt[v].call # "start") <=> dvrAt[u].call # "start"
        /\ PlaceKept(u)' /\ StreamsApart' /\ (~recording' /\ r.call # "start" => Recorded' = {})
             => RecorderKept'
    BY <1>0, <1>3, <1>4, <2>0, UserMoves
  <2>2. dvrAt[u].at = "loop" /\ r.at = "loop" /\ r.i = 1
    BY <1>2, <1>4, <2>0 DEF RecorderKept, PlaceKept, Busy
  <2>3. Cleared = {} /\ Cleared' = {} BY <2>1, <2>2
  <2>4. Recorded' = Recorded
    <3>1. streamCnt \in Nat /\ streamCnt' \in Nat BY <1>0, <1>5 DEF DmxUsersTypeOK
    <3>2. \A i \in 1 .. streamCnt : i \in 1 .. streamCnt' /\ streams'[i] = streams[i] BY <1>5, <3>1
    <3>3. \A i \in 1 .. streamCnt' :
            streams'[i] # NoFid => i \in 1 .. streamCnt /\ streams'[i] = streams[i]
      BY <1>5
    <3>. QED BY <2>3, <3>2, <3>3 DEF Recorded
  <2>5. PlaceKept(u)'
    <3>1. \A j \in 1 .. streamCnt' : ~(j < 1) BY <1>5
    <3>. QED BY <2>1, <2>2, <3>1 DEF PlaceKept
  <2>6. StreamsApart' BY <1>5, <2>0 DEF RecorderKept, StreamsApart
  <2>7. ~recording' => r.call = "start" \/ Recorded' = {}
    BY <1>1, <1>4, <2>0, <2>1, <2>4 DEF RecorderKept
  <2>8. RecorderKept' BY <2>1, <2>5, <2>6, <2>7
  <2>. QED BY <1>1, <1>6, <2>0, <2>4, <2>8 DEF OwnersKept, adPart, appPart
<1>8. /\ dvrCalls' \in 0 .. MaxDvrCalls /\ raced' \in BOOLEAN /\ recording' \in BOOLEAN
      /\ ~(r.at \in {"on", "free", "clear"}) /\ r.call # "out"
  BY <1>0, <1>1, <1>2, <1>4, DmxUsersAssumption DEF DmxUsersTypeOK
<1>. QED BY <1>1, <1>3, <1>4, <1>5, <1>6, <1>7, <1>8, RecorderStep

(* A step inside a call of the recorder.                                   *)
InCall(u, r) ==
  /\ Busy(u) /\ dvrAt' = [dvrAt EXCEPT ![u] = r] /\ r \in Places
  /\ UNCHANGED <<dmxOpens, inCb, dvrCalls, raced, adPart, appPart, cut>>

(* A call that is alone changes what is left to show of its user.          *)
LEMMA StepAlone ==
  ASSUME UsersInv, NEW u \in DvrUsers, NEW r, InCall(u, r), ~cut, ~raced
  PROVE  /\ RecorderKept /\ OwnersKept /\ PlaceKept(u) /\ dvrAt'[u] = r
         /\ Recorded = {streams[i] : i \in 1 .. streamCnt}
                         \ ({NoFid} \cup IF dvrAt[u].at = "clear" THEN {Fid(u)} ELSE {})
         /\ Recorded' = {streams'[i] : i \in 1 .. streamCnt'}
                          \ ({NoFid} \cup IF r.at = "clear" THEN {streams'[r.i]} ELSE {})
         /\ ~recording /\ dvrAt[u].call # "start" => Recorded = {}
         /\ PlaceKept(u)' /\ StreamsApart' /\ (~recording' /\ r.call # "start" => Recorded' = {})
              => RecorderKept'
<1>1. DmxUsersTypeOK /\ RecorderKept /\ OwnersKept BY DEF UsersInv
<1>2. Elsewhere(u) BY <1>1, BusyAlone DEF InCall, RecorderKept
<1>3. /\ dvrAt'[u] = r
      /\ Cleared = IF dvrAt[u].at = "clear" THEN {streams[dvrAt[u].i]} ELSE {}
      /\ Cleared' = IF r.at = "clear" THEN {streams'[r.i]} ELSE {}
      /\ (\A v \in DvrUsers : dvrAt[v].call # "start") <=> dvrAt[u].call # "start"
      /\ PlaceKept(u)' /\ StreamsApart' /\ (~recording' /\ r.call # "start" => Recorded' = {})
           => RecorderKept'
  BY <1>1, <1>2, UserMoves DEF InCall
<1>4. Recorded = {streams[i] : i \in 1 .. streamCnt}
                   \ ({NoFid} \cup IF dvrAt[u].at = "clear" THEN {Fid(u)} ELSE {})
  BY <1>3 DEF Recorded, Fid
<1>5. Recorded' = {streams'[i] : i \in 1 .. streamCnt'}
                    \ ({NoFid} \cup IF r.at = "clear" THEN {streams'[r.i]} ELSE {})
  BY <1>3 DEF Recorded
<1>6. PlaceKept(u) BY <1>1 DEF RecorderKept
<1>. QED BY <1>1, <1>3, <1>4, <1>5, <1>6 DEF RecorderKept

(* A call that goes on, and one that leaves the loop or ends.              *)
LEMMA InCallStep ==
  ASSUME UsersInv, NEW u \in DvrUsers, NEW r, InCall(u, r),
         \/ r.call # "out" /\ dvrOpens' = dvrOpens
         \/ r.call = "out" /\ dvrOpens' = dvrOpens - 1 /\ ~recording',
         filters' \in [DemuxFilters -> FilterStates], \A f \in DemuxFilters : FilterMoves(f),
         recording' \in BOOLEAN,
         streams' \in [1 .. MaxStreams -> DemuxFilters \cup {NoFid}], streamCnt' \in 0 .. MaxStreams,
         dvrLock' \in DvrUsers \cup {"free", "destroyed"},
         r.at \in {"on", "free", "clear"} => r.i # MaxStreams + 1,
         ~cut /\ ~raced => RecorderKept' /\ OwnersKept'
  PROVE  UsersInv'
<1>1. dvrAt[u].call # "out" BY DEF InCall, Busy
<1>2. dvrCalls' \in 0 .. MaxDvrCalls /\ raced' \in BOOLEAN /\ raced' = raced
  BY DEF UsersInv, DmxUsersTypeOK, InCall
<1>3. /\ r \in Places /\ dvrAt' = [dvrAt EXCEPT ![u] = r]
      /\ UNCHANGED <<dmxOpens, inCb, adPart, appPart, cut>>
  BY DEF InCall
<1>4. \/ dvrAt[u].call # "out" /\ r.call # "out" /\ dvrOpens' = dvrOpens
      \/ dvrAt[u].call = "out" /\ r.call # "out" /\ dvrOpens' = dvrOpens + 1
      \/ dvrAt[u].call # "out" /\ r.call = "out" /\ dvrOpens' = dvrOpens - 1 /\ ~recording'
  BY <1>1
<1>5. ~cut /\ ~raced' => RecorderKept' /\ OwnersKept' BY <1>2
<1>. QED BY <1>2, <1>3, <1>4, <1>5, RecorderStep

LEMMA StreamAllocatedKeepsUsersInv ==
  ASSUME UsersInv, NEW u \in DvrUsers, StreamAllocated(u) PROVE UsersInv'
<1>0. /\ DmxUsersTypeOK
      /\ MaxStreams \in Nat /\ streamCnt \in 0 .. MaxStreams /\ NoFid \notin DemuxFilters
      /\ dvrAt[u].i \in 1 .. MaxStreams + 1
      /\ streams \in [1 .. MaxStreams -> DemuxFilters \cup {NoFid}]
  BY DmxUsersAssumption DEF UsersInv, DmxUsersTypeOK
<1>1. PICK i, f : i = dvrAt[u].i /\ f = Min(Unused(filters)) OBVIOUS
<1>2. PICK r : r = [call |-> dvrAt[u].call, at |-> "on", i |-> i] OBVIOUS
<1>3. /\ dvrAt[u].call = "start" /\ dvrAt[u].at = "loop" /\ i \in 1 .. streamCnt
      /\ Fid(u) = NoFid /\ dmxOpens > 0 /\ Unused(filters) # {}
      /\ streams' = [streams EXCEPT ![i] = f] /\ filters' = [filters EXCEPT ![f].owner = "dvr"]
      /\ dvrAt' = [dvrAt EXCEPT ![u] = r]
      /\ UNCHANGED <<dmxOpens, inCb, dvrOpens, recording, streamCnt, dvrLock, dvrCalls, raced>>
      /\ UNCHANGED <<adPart, appPart, cut>>
  BY <1>0, <1>1, <1>2, GoesTo DEF StreamAllocated, InLoop, At, Allocated
<1>4. r \in Places /\ InCall(u, r)
  <2>1. r.call = "start" /\ r.at = "on" /\ r.i = i BY <1>2, <1>3
  <2>2. r \in Places BY <1>0, <1>1, <1>2, <1>3 DEF Places
  <2>3. Busy(u) BY <1>3 DEF Busy
  <2>. QED BY <1>3, <2>2, <2>3 DEF InCall
<1>5. f \in DemuxFilters /\ filters[f].owner = "free"
  <2>1. Unused(filters) \subseteq Nat BY DmxUsersAssumption DEF Unused
  <2>2. f \in Unused(filters) BY <1>1, <1>3, <2>1, FirstUnused
  <2>. QED BY <2>2 DEF Unused
<1>6. /\ filters' \in [DemuxFilters -> FilterStates] /\ filters'[f].owner = "dvr"
      /\ \A e \in DemuxFilters \ {f} : filters'[e] = filters[e]
  BY <1>0, <1>3, <1>5 DEF DmxUsersTypeOK, FilterStates
<1>7. \A e \in DemuxFilters : FilterMoves(e)
  <2>1. dmxOpens # 0 BY <1>3
  <2>. QED BY <1>6, <2>1 DEF FilterMoves, UsersInv, FilterKept
<1>8. /\ streams' \in [1 .. MaxStreams -> DemuxFilters \cup {NoFid}]
      /\ streams'[i] = f /\ \A j \in 1 .. MaxStreams : j # i => streams'[j] = streams[j]
  BY <1>0, <1>3, <1>5
<1>9. ~cut /\ ~raced => RecorderKept' /\ OwnersKept'
  <2>. SUFFICES ASSUME ~cut, ~raced PROVE RecorderKept' /\ OwnersKept' OBVIOUS
  <2>1. /\ RecorderKept /\ OwnersKept /\ dvrAt'[u] = r
        /\ Recorded = {streams[j] : j \in 1 .. streamCnt} \ {NoFid}
        /\ Recorded' = {streams'[j] : j \in 1 .. streamCnt} \ {NoFid}
        /\ PlaceKept(u)' /\ StreamsApart' /\ (~recording' /\ r.call # "start" => Recorded' = {})
             => RecorderKept'
    BY <1>2, <1>3, <1>4, StepAlone
  <2>2. streams[i] = NoFid BY <1>1, <1>3 DEF Fid
  <2>3. Recorded' = Recorded \cup {f}
    <3>1. \A j \in 1 .. streamCnt : j \in 1 .. MaxStreams BY <1>0
    <3>. QED BY <1>0, <1>3, <1>5, <1>8, <2>1, <2>2, <3>1
  <2>4. f \notin Recorded BY <1>5, <2>1 DEF OwnersKept, FilterOf
  <2>5. StreamsApart'
    <3>1. \A j \in 1 .. streamCnt : j # i => streams'[j] = streams[j] /\ streams[j] # f
      BY <1>0, <1>5, <1>8, <2>1, <2>4
    <3>. QED BY <1>3, <1>8, <2>1, <3>1 DEF RecorderKept, StreamsApart
  <2>6. PlaceKept(u)'
    BY <1>0, <1>2, <1>3, <1>5, <1>8, <2>1 DEF PlaceKept, Busy, Fid
  <2>7. RecorderKept' BY <1>2, <1>3, <2>1, <2>5, <2>6
  <2>8. /\ FilterOf("dvr")' = FilterOf("dvr") \cup {f} /\ FilterOf("app")' = FilterOf("app")
        /\ FilterOf("ad")' = FilterOf("ad")
    BY <1>5, <1>6 DEF FilterOf
  <2>. QED BY <1>3, <2>1, <2>3, <2>7, <2>8 DEF OwnersKept, adPart, appPart
<1>10. /\ r.call # "out" /\ r.i # MaxStreams + 1 /\ recording' \in BOOLEAN
       /\ streamCnt' \in 0 .. MaxStreams /\ dvrLock' \in DvrUsers \cup {"free", "destroyed"}
  BY <1>0, <1>2, <1>3 DEF DmxUsersTypeOK
<1>. QED BY <1>3, <1>4, <1>6, <1>7, <1>8, <1>9, <1>10, InCallStep

(* The steps that leave the streams and the owners as they are.            *)
LEMMA StreamSwitchedKeepsUsersInv ==
  ASSUME UsersInv, NEW u \in DvrUsers, StreamPassed(u) \/ StreamStarted(u) \/ StreamStopped(u)
  PROVE  UsersInv'
<1>0. /\ DmxUsersTypeOK
      /\ MaxStreams \in Nat /\ streamCnt \in 0 .. MaxStreams /\ NoFid \notin DemuxFilters
      /\ dvrAt[u].i \in 1 .. MaxStreams + 1
      /\ streams \in [1 .. MaxStreams -> DemuxFilters \cup {NoFid}]
  BY DmxUsersAssumption DEF UsersInv, DmxUsersTypeOK
<1>1. UNCHANGED <<dmxOpens, inCb, dvrOpens, recording, streams, streamCnt, dvrLock, dvrCalls, raced,
                  adPart, appPart, cut>>
  BY DEF StreamPassed, StreamStarted, StreamStopped, dmxPart
<1>2. Busy(u)
  BY DEF StreamPassed, StreamStarted, StreamStopped, InLoop, At, Busy
<1>3. PICK r : /\ dvrAt' = [dvrAt EXCEPT ![u] = r] /\ r \in Places /\ r.call = dvrAt[u].call
               /\ r.at = "free" => r.i # MaxStreams + 1
               /\ \/ /\ dvrAt[u].at = "loop" /\ dvrAt[u].i \in 1 .. streamCnt
                     /\ r.at = "loop" /\ r.i = dvrAt[u].i + 1
                     /\ r.call = "start" \/ Fid(u) = NoFid
                  \/ /\ dvrAt[u].at = "on" /\ dvrAt[u].call = "start"
                     /\ r.at = "loop" \/ (r.at = "crash" /\ (cut \/ raced))
                  \/ /\ dvrAt[u].at = "loop" /\ dvrAt[u].i \in 1 .. streamCnt /\ Fid(u) # NoFid
                     /\ r.at = "free" /\ r.i = dvrAt[u].i /\ r.call \in {"stop", "close"}
  <2>1. CASE StreamPassed(u)
    <3>1. /\ Goes(u, "loop", dvrAt[u].i + 1) /\ dvrAt[u].at = "loop" /\ dvrAt[u].i <= streamCnt
          /\ dvrAt[u].call = "start" \/ Fid(u) = NoFid
      BY <2>1 DEF StreamPassed, InLoop, At
    <3>2. PICK r : r = [call |-> dvrAt[u].call, at |-> "loop", i |-> dvrAt[u].i + 1] OBVIOUS
    <3>3. dvrAt' = [dvrAt EXCEPT ![u] = r] BY <1>0, <3>1, <3>2, GoesTo
    <3>4. r \in Places BY <1>0, <3>1, <3>2 DEF Places, DmxUsersTypeOK
    <3>6. r.call = dvrAt[u].call /\ r.at = "loop" /\ r.i = dvrAt[u].i + 1 BY <3>2
    <3>7. dvrAt[u].i \in 1 .. streamCnt BY <1>0, <3>1
    <3>8. r.call = "start" \/ Fid(u) = NoFid BY <3>1, <3>6
    <3>9. r.at = "free" => r.i # MaxStreams + 1 BY <3>6
    <3>. QED BY <3>1, <3>3, <3>4, <3>6, <3>7, <3>8, <3>9, Zenon
  <2>2. CASE StreamStarted(u)
    <3>1. dvrAt[u].at = "on" /\ dvrAt[u].call = "start"
      BY <2>2 DEF StreamStarted, At
    <3>5. dvrAt[u].i # MaxStreams + 1 BY <3>1 DEF UsersInv
    <3>6. CASE Goes(u, "loop", dvrAt[u].i + 1)
      <4>2. PICK r : r = [call |-> dvrAt[u].call, at |-> "loop", i |-> dvrAt[u].i + 1] OBVIOUS
      <4>3. dvrAt' = [dvrAt EXCEPT ![u] = r] BY <1>0, <3>6, <4>2, GoesTo
      <4>4. r \in Places BY <1>0, <3>1, <3>5, <4>2 DEF Places, DmxUsersTypeOK
      <4>6. r.call = dvrAt[u].call /\ r.at = "loop" /\ r.i = dvrAt[u].i + 1 BY <4>2
      <4>. QED BY <1>0, <3>1, <4>3, <4>4, <4>6
    <3>7. CASE /\ Goes(u, "crash", dvrAt[u].i)
               /\ Fid(u) = NoFid \/ filters[Fid(u)].owner = "free"
      <4>2. PICK r : r = [call |-> dvrAt[u].call, at |-> "crash", i |-> dvrAt[u].i] OBVIOUS
      <4>3. dvrAt' = [dvrAt EXCEPT ![u] = r] BY <1>0, <3>7, <4>2, GoesTo
      <4>4. r \in Places BY <1>0, <3>1, <4>2 DEF Places, DmxUsersTypeOK
      <4>5. cut \/ raced
        <5>. SUFFICES ASSUME ~cut, ~raced PROVE FALSE OBVIOUS
        <5>1. RecorderKept /\ OwnersKept BY DEF UsersInv
        <5>2. Busy(u) BY <3>1 DEF Busy
        <5>3. dvrAt[u].i \in 1 .. streamCnt /\ Fid(u) # NoFid
          BY <3>1, <5>1 DEF RecorderKept, PlaceKept
        <5>4. \A v \in DvrUsers : dvrAt[v].at # "clear"
          BY <3>1, <5>1, <5>2 DEF RecorderKept, PlaceKept
        <5>5. Fid(u) \in Recorded BY <5>3, <5>4 DEF Recorded, Cleared, Fid
        <5>6. filters[Fid(u)].owner = "dvr" BY <5>1, <5>5 DEF OwnersKept, FilterOf
        <5>. QED BY <3>7, <5>3, <5>6
      <4>6. r.call = dvrAt[u].call /\ r.at = "crash" /\ r.i = dvrAt[u].i BY <4>2
      <4>. QED BY <1>0, <3>1, <4>3, <4>4, <4>5, <4>6
    <3>. QED BY <2>2, <3>6, <3>7 DEF StreamStarted
  <2>3. CASE StreamStopped(u)
    <3>1. /\ Goes(u, "free", dvrAt[u].i) /\ dvrAt[u].at = "loop" /\ dvrAt[u].i <= streamCnt
          /\ dvrAt[u].call \in {"stop", "close"} /\ Fid(u) # NoFid
      BY <2>3 DEF StreamStopped, InLoop, At
    <3>2. PICK r : r = [call |-> dvrAt[u].call, at |-> "free", i |-> dvrAt[u].i] OBVIOUS
    <3>3. dvrAt' = [dvrAt EXCEPT ![u] = r] BY <1>0, <3>1, <3>2, GoesTo
    <3>4. r \in Places BY <1>0, <3>1, <3>2 DEF Places, DmxUsersTypeOK
    <3>6. r.call = dvrAt[u].call /\ r.at = "free" /\ r.i = dvrAt[u].i BY <3>2
    <3>7. dvrAt[u].i \in 1 .. streamCnt BY <1>0, <3>1
    <3>8. r.call \in {"stop", "close"} BY <3>1, <3>6
    <3>9. r.at = "free" => r.i # MaxStreams + 1 BY <1>0, <3>6, <3>7
    <3>. QED BY <3>1, <3>3, <3>4, <3>6, <3>7, <3>8, <3>9, Zenon
  <2>. QED BY <2>1, <2>2, <2>3
<1>4. InCall(u, r) BY <1>1, <1>2, <1>3 DEF InCall
<1>5. PICK on \in BOOLEAN : filters' = Switched(filters, Fid(u), on) \/ filters' = filters
  <2>1. CASE StreamPassed(u) BY <2>1 DEF StreamPassed, dmxPart
  <2>2. CASE StreamStarted(u)
    <3>1. filters' = Switched(filters, Fid(u), TRUE) BY <2>2 DEF StreamStarted
    <3>. QED BY <3>1
  <2>3. CASE StreamStopped(u)
    <3>1. filters' = Switched(filters, Fid(u), FALSE) BY <2>3 DEF StreamStopped
    <3>. QED BY <3>1
  <2>. QED BY <2>1, <2>2, <2>3
<1>6. /\ filters' \in [DemuxFilters -> FilterStates] /\ \A e \in DemuxFilters : FilterMoves(e)
      /\ FilterOf("dvr")' = FilterOf("dvr") /\ FilterOf("app")' = FilterOf("app")
      /\ FilterOf("ad")' = FilterOf("ad")
  BY <1>5, SwitchedMoves
<1>7. ~cut /\ ~raced => RecorderKept' /\ OwnersKept'
  <2>. SUFFICES ASSUME ~cut, ~raced PROVE RecorderKept' /\ OwnersKept' OBVIOUS
  <2>1. /\ RecorderKept /\ OwnersKept /\ PlaceKept(u) /\ dvrAt'[u] = r
        /\ Recorded = {streams[j] : j \in 1 .. streamCnt} \ {NoFid}
        /\ Recorded' = {streams[j] : j \in 1 .. streamCnt} \ {NoFid}
        /\ ~recording /\ dvrAt[u].call # "start" => Recorded = {}
        /\ PlaceKept(u)' /\ StreamsApart' /\ (~recording' /\ r.call # "start" => Recorded' = {})
             => RecorderKept'
    BY <1>1, <1>3, <1>4, StepAlone
  <2>2. StreamsApart' BY <1>1, <2>1 DEF RecorderKept, StreamsApart
  <2>3. PlaceKept(u)'
    <3>1. r.call \in {"stop", "close"} => \A j \in 1 .. streamCnt : j < r.i => streams[j] = NoFid
      <4>. SUFFICES ASSUME r.call \in {"stop", "close"}, NEW j \in 1 .. streamCnt, j < r.i
                    PROVE  streams[j] = NoFid
        OBVIOUS
      <4>1. r.call = dvrAt[u].call BY <1>3
      <4>2. j < dvrAt[u].i => streams[j] = NoFid BY <2>1, <4>1 DEF PlaceKept
      <4>3. j < dvrAt[u].i \/ (j = dvrAt[u].i /\ Fid(u) = NoFid) BY <1>0, <1>3
      <4>. QED BY <4>2, <4>3 DEF Fid
    <3>. QED BY <1>0, <1>1, <1>3, <2>1, <3>1 DEF PlaceKept, Busy, Fid
  <2>4. RecorderKept' BY <1>1, <1>3, <2>1, <2>2, <2>3
  <2>. QED BY <1>1, <1>6, <2>1, <2>4 DEF OwnersKept, adPart, appPart
<1>8. /\ r.call # "out" /\ recording' \in BOOLEAN /\ dvrOpens' = dvrOpens
      /\ streams' \in [1 .. MaxStreams -> DemuxFilters \cup {NoFid}]
      /\ streamCnt' \in 0 .. MaxStreams /\ dvrLock' \in DvrUsers \cup {"free", "destroyed"}
  BY <1>0, <1>1, <1>2, <1>3 DEF DmxUsersTypeOK, Busy
<1>. QED BY <1>3, <1>4, <1>6, <1>7, <1>8, InCallStep

(* AM_DMX_FreeFilter, of a filter that is the recorder's when the call is  *)
(* alone.                                                                  *)
LEMMA StreamFreedKeepsUsersInv ==
  ASSUME UsersInv, NEW u \in DvrUsers, StreamFreed(u) PROVE UsersInv'
<1>0. /\ DmxUsersTypeOK
      /\ MaxStreams \in Nat /\ streamCnt \in 0 .. MaxStreams /\ NoFid \notin DemuxFilters
      /\ dvrAt[u].i \in 1 .. MaxStreams + 1
      /\ streams \in [1 .. MaxStreams -> DemuxFilters \cup {NoFid}]
  BY DmxUsersAssumption DEF UsersInv, DmxUsersTypeOK
<1>1. PICK i, S : i = dvrAt[u].i /\ S = IF dmxOpens > 0 THEN {Fid(u)} ELSE {} OBVIOUS
<1>2. PICK r : r = [call |-> dvrAt[u].call, at |-> "clear", i |-> i] OBVIOUS
<1>3. /\ dvrAt[u].call \in {"stop", "close"} /\ dvrAt[u].at = "free"
      /\ filters' = Released(filters, S) /\ dvrAt' = [dvrAt EXCEPT ![u] = r]
      /\ UNCHANGED <<dmxOpens, inCb, dvrOpens, recording, streams, streamCnt, dvrLock, dvrCalls, raced>>
      /\ UNCHANGED <<adPart, appPart, cut>>
  BY <1>0, <1>1, <1>2, GoesTo DEF StreamFreed, At
<1>4. r \in Places /\ InCall(u, r) /\ r.call = dvrAt[u].call /\ r.at = "clear" /\ r.i = i
  <2>1. r \in Places BY <1>0, <1>1, <1>2, <1>3 DEF Places
  <2>2. Busy(u) BY <1>3 DEF Busy
  <2>. QED BY <1>2, <1>3, <2>1, <2>2 DEF InCall
<1>5. /\ filters' \in [DemuxFilters -> FilterStates]
      /\ \A who : who # "free" => FilterOf(who)' = FilterOf(who) \ S
      /\ \A f \in DemuxFilters :
           /\ f \in S => filters'[f].owner = "free" /\ ~filters'[f].on
           /\ f \notin S => filters'[f] = filters[f]
  BY <1>3, ReleasedOwners
<1>6. \A f \in DemuxFilters : FilterMoves(f) BY <1>5 DEF FilterMoves, UsersInv, FilterKept
<1>7. ~cut /\ ~raced => RecorderKept' /\ OwnersKept'
  <2>. SUFFICES ASSUME ~cut, ~raced PROVE RecorderKept' /\ OwnersKept' OBVIOUS
  <2>1. /\ RecorderKept /\ OwnersKept /\ PlaceKept(u) /\ dvrAt'[u] = r
        /\ Recorded = {streams[j] : j \in 1 .. streamCnt} \ {NoFid}
        /\ Recorded' = {streams[j] : j \in 1 .. streamCnt} \ {NoFid, Fid(u)}
        /\ ~recording /\ dvrAt[u].call # "start" => Recorded = {}
        /\ PlaceKept(u)' /\ StreamsApart' /\ (~recording' /\ r.call # "start" => Recorded' = {})
             => RecorderKept'
    <3>1. /\ RecorderKept /\ OwnersKept /\ PlaceKept(u) /\ dvrAt'[u] = r
          /\ Recorded = {streams[j] : j \in 1 .. streamCnt}
                         \ ({NoFid} \cup IF dvrAt[u].at = "clear" THEN {Fid(u)} ELSE {})
          /\ Recorded' = {streams'[j] : j \in 1 .. streamCnt'}
                          \ ({NoFid} \cup IF r.at = "clear" THEN {streams'[r.i]} ELSE {})
          /\ ~recording /\ dvrAt[u].call # "start" => Recorded = {}
          /\ PlaceKept(u)' /\ StreamsApart' /\ (~recording' /\ r.call # "start" => Recorded' = {})
               => RecorderKept'
      BY <1>4, StepAlone
    <3>2. Recorded = {streams[j] : j \in 1 .. streamCnt} \ {NoFid} BY <1>3, <3>1
    <3>3. streams'[r.i] = Fid(u) BY <1>1, <1>3, <1>4 DEF Fid
    <3>4. Recorded' = {streams[j] : j \in 1 .. streamCnt} \ {NoFid, Fid(u)}
      BY <1>3, <1>4, <3>1, <3>3
    <3>. QED BY <3>1, <3>2, <3>4
  <2>2. i \in 1 .. streamCnt /\ Fid(u) # NoFid BY <1>1, <1>3, <2>1 DEF PlaceKept
  <2>3. Fid(u) \in Recorded BY <1>1, <2>1, <2>2 DEF Fid
  <2>4. Fid(u) \in FilterOf("dvr") BY <2>1, <2>3 DEF OwnersKept
  <2>5. S = {Fid(u)}
    <3>1. dmxOpens # 0 BY <2>4 DEF UsersInv, FilterKept, FilterOf
    <3>. QED BY <1>0, <1>1, <3>1 DEF DmxUsersTypeOK
  <2>6. Fid(u) \notin FilterOf("app") /\ Fid(u) \notin FilterOf("ad") BY <2>4 DEF FilterOf
  <2>7. /\ FilterOf("dvr")' = FilterOf("dvr") \ {Fid(u)} /\ FilterOf("app")' = FilterOf("app")
        /\ FilterOf("ad")' = FilterOf("ad")
    BY <1>5, <2>5, <2>6
  <2>8. Recorded' = Recorded \ {Fid(u)} BY <2>1
  <2>9. StreamsApart' BY <1>3, <2>1 DEF RecorderKept, StreamsApart
  <2>10. PlaceKept(u)' BY <1>1, <1>3, <1>4, <2>1, <2>2 DEF PlaceKept, Busy, Fid
  <2>11. ~recording' => Recorded' = {} BY <1>3, <2>1, <2>8
  <2>12. RecorderKept' BY <2>1, <2>9, <2>10, <2>11
  <2>. QED BY <1>3, <2>1, <2>7, <2>8, <2>12 DEF OwnersKept, adPart, appPart
<1>8. /\ r.call # "out" /\ r.i # MaxStreams + 1 /\ recording' \in BOOLEAN
      /\ streams' \in [1 .. MaxStreams -> DemuxFilters \cup {NoFid}]
      /\ streamCnt' \in 0 .. MaxStreams /\ dvrLock' \in DvrUsers \cup {"free", "destroyed"}
  BY <1>0, <1>1, <1>3, <1>4 DEF DmxUsersTypeOK, UsersInv
<1>. QED BY <1>3, <1>4, <1>5, <1>6, <1>7, <1>8, InCallStep

LEMMA StreamClearedKeepsUsersInv ==
  ASSUME UsersInv, NEW u \in DvrUsers, StreamCleared(u) PROVE UsersInv'
<1>0. /\ DmxUsersTypeOK
      /\ MaxStreams \in Nat /\ streamCnt \in 0 .. MaxStreams /\ NoFid \notin DemuxFilters
      /\ dvrAt[u].i \in 1 .. MaxStreams + 1
      /\ streams \in [1 .. MaxStreams -> DemuxFilters \cup {NoFid}]
  BY DmxUsersAssumption DEF UsersInv, DmxUsersTypeOK
<1>1. PICK i : i = dvrAt[u].i OBVIOUS
<1>2. PICK r : r = [call |-> dvrAt[u].call, at |-> "loop", i |-> i + 1] OBVIOUS
<1>3. /\ dvrAt[u].call \in {"stop", "close"} /\ dvrAt[u].at = "clear"
      /\ streams' = [streams EXCEPT ![i] = NoFid] /\ dvrAt' = [dvrAt EXCEPT ![u] = r]
      /\ UNCHANGED <<dmxOpens, filters, inCb, dvrOpens, recording, streamCnt, dvrLock, dvrCalls, raced>>
      /\ UNCHANGED <<adPart, appPart, cut>>
  BY <1>0, <1>1, <1>2, GoesTo DEF StreamCleared, At, dmxPart
<1>4. r \in Places /\ InCall(u, r) /\ r.call = dvrAt[u].call /\ r.at = "loop" /\ r.i = i + 1
  <2>0. i # MaxStreams + 1 BY <1>1, <1>3 DEF UsersInv
  <2>1. r \in Places BY <1>0, <1>1, <1>2, <1>3, <2>0 DEF Places
  <2>2. Busy(u) BY <1>3 DEF Busy
  <2>. QED BY <1>2, <1>3, <2>1, <2>2 DEF InCall
<1>5. /\ filters' \in [DemuxFilters -> FilterStates] /\ \A f \in DemuxFilters : FilterMoves(f)
      /\ FilterOf("dvr")' = FilterOf("dvr") /\ FilterOf("app")' = FilterOf("app")
      /\ FilterOf("ad")' = FilterOf("ad")
  BY <1>3, SwitchedMoves
<1>6. /\ streams' \in [1 .. MaxStreams -> DemuxFilters \cup {NoFid}]
      /\ \A j \in 1 .. MaxStreams : streams'[j] = IF j = i THEN NoFid ELSE streams[j]
  BY <1>0, <1>3
<1>7. ~cut /\ ~raced => RecorderKept' /\ OwnersKept'
  <2>. SUFFICES ASSUME ~cut, ~raced PROVE RecorderKept' /\ OwnersKept' OBVIOUS
  <2>1. /\ RecorderKept /\ OwnersKept /\ PlaceKept(u) /\ dvrAt'[u] = r
        /\ Recorded = {streams[j] : j \in 1 .. streamCnt} \ {NoFid, Fid(u)}
        /\ Recorded' = {streams'[j] : j \in 1 .. streamCnt} \ {NoFid}
        /\ ~recording /\ dvrAt[u].call # "start" => Recorded = {}
        /\ PlaceKept(u)' /\ StreamsApart' /\ (~recording' /\ r.call # "start" => Recorded' = {})
             => RecorderKept'
    <3>1. /\ RecorderKept /\ OwnersKept /\ PlaceKept(u) /\ dvrAt'[u] = r
          /\ Recorded = {streams[j] : j \in 1 .. streamCnt}
                         \ ({NoFid} \cup IF dvrAt[u].at = "clear" THEN {Fid(u)} ELSE {})
          /\ Recorded' = {streams'[j] : j \in 1 .. streamCnt'}
                          \ ({NoFid} \cup IF r.at = "clear" THEN {streams'[r.i]} ELSE {})
          /\ ~recording /\ dvrAt[u].call # "start" => Recorded = {}
          /\ PlaceKept(u)' /\ StreamsApart' /\ (~recording' /\ r.call # "start" => Recorded' = {})
               => RecorderKept'
      BY <1>4, StepAlone
    <3>2. Recorded = {streams[j] : j \in 1 .. streamCnt} \ {NoFid, Fid(u)} BY <1>3, <3>1
    <3>4. Recorded' = {streams'[j] : j \in 1 .. streamCnt} \ {NoFid} BY <1>3, <1>4, <3>1
    <3>. QED BY <3>1, <3>2, <3>4
  <2>2. i \in 1 .. streamCnt /\ Fid(u) # NoFid /\ Fid(u) = streams[i]
    BY <1>1, <1>3, <2>1 DEF PlaceKept, Fid
  <2>3. \A j \in 1 .. streamCnt : j \in 1 .. MaxStreams BY <1>0
  <2>4. \A j \in 1 .. streamCnt : streams[j] = Fid(u) => j = i
    BY <2>1, <2>2 DEF RecorderKept, StreamsApart
  <2>5. Recorded' = Recorded
    <3>1. \A x : x \in Recorded => x \in Recorded'
      <4>. SUFFICES ASSUME NEW j \in 1 .. streamCnt, streams[j] \notin {NoFid, Fid(u)}
                    PROVE  streams[j] \in Recorded'
        BY <2>1
      <4>1. j # i BY <2>2
      <4>2. streams'[j] = streams[j] BY <1>6, <2>3, <4>1
      <4>. QED BY <2>1, <4>2
    <3>2. \A x : x \in Recorded' => x \in Recorded
      <4>. SUFFICES ASSUME NEW j \in 1 .. streamCnt, streams'[j] # NoFid
                    PROVE  streams'[j] \in Recorded
        BY <2>1
      <4>1. j # i /\ streams'[j] = streams[j] BY <1>6, <2>3
      <4>2. streams[j] # Fid(u) BY <2>4, <4>1
      <4>. QED BY <2>1, <4>1, <4>2
    <3>. QED BY <3>1, <3>2
  <2>6. StreamsApart' BY <1>3, <1>6, <2>1, <2>3 DEF RecorderKept, StreamsApart
  <2>7. PlaceKept(u)'
    <3>1. \A j \in 1 .. streamCnt : j < i => streams[j] = NoFid
      BY <1>1, <1>3, <2>1 DEF PlaceKept
    <3>2. \A j \in 1 .. streamCnt : j < i + 1 => streams'[j] = NoFid
      BY <1>0, <1>1, <1>6, <2>3, <3>1
    <3>. QED BY <1>3, <1>4, <2>1, <3>2 DEF PlaceKept
  <2>8. RecorderKept' BY <1>3, <1>4, <2>1, <2>5, <2>6, <2>7
  <2>. QED BY <1>3, <1>5, <2>1, <2>5, <2>8 DEF OwnersKept, adPart, appPart
<1>8. /\ r.call # "out" /\ r.at \notin {"on", "free", "clear"} /\ recording' \in BOOLEAN
      /\ streamCnt' \in 0 .. MaxStreams /\ dvrLock' \in DvrUsers \cup {"free", "destroyed"}
  BY <1>0, <1>3, <1>4 DEF DmxUsersTypeOK
<1>. QED BY <1>3, <1>4, <1>5, <1>6, <1>7, <1>8, InCallStep

(* After the loop every stream is cleared.                                 *)
LEMMA StreamsStoppedKeepsUsersInv ==
  ASSUME UsersInv, NEW u \in DvrUsers, StreamsStopped(u) PROVE UsersInv'
<1>0. /\ DmxUsersTypeOK
      /\ MaxStreams \in Nat /\ streamCnt \in 0 .. MaxStreams
      /\ dvrAt[u].i \in 1 .. MaxStreams + 1
  BY DmxUsersAssumption DEF UsersInv, DmxUsersTypeOK
<1>2. PICK r : r = [call |-> dvrAt[u].call, at |-> "end", i |-> dvrAt[u].i] OBVIOUS
<1>3. /\ dvrAt[u].call \in {"stop", "close"} /\ dvrAt[u].at = "loop" /\ dvrAt[u].i > streamCnt
      /\ streamCnt' = 0 /\ dvrAt' = [dvrAt EXCEPT ![u] = r]
      /\ UNCHANGED <<dmxOpens, filters, inCb, dvrOpens, recording, streams, dvrLock, dvrCalls, raced>>
      /\ UNCHANGED <<adPart, appPart, cut>>
  BY <1>0, <1>2, GoesTo DEF StreamsStopped, At, InLoop, dmxPart
<1>4. r \in Places /\ InCall(u, r) /\ r.call = dvrAt[u].call /\ r.at = "end"
  <2>1. r \in Places BY <1>0, <1>2, <1>3 DEF Places
  <2>2. Busy(u) BY <1>3 DEF Busy
  <2>. QED BY <1>2, <1>3, <2>1, <2>2 DEF InCall
<1>5. /\ filters' \in [DemuxFilters -> FilterStates] /\ \A f \in DemuxFilters : FilterMoves(f)
      /\ FilterOf("dvr")' = FilterOf("dvr") /\ FilterOf("app")' = FilterOf("app")
      /\ FilterOf("ad")' = FilterOf("ad")
  BY <1>3, SwitchedMoves
<1>7. ~cut /\ ~raced => RecorderKept' /\ OwnersKept'
  <2>. SUFFICES ASSUME ~cut, ~raced PROVE RecorderKept' /\ OwnersKept' OBVIOUS
  <2>1. /\ RecorderKept /\ OwnersKept /\ PlaceKept(u) /\ dvrAt'[u] = r
        /\ Recorded = {streams[j] : j \in 1 .. streamCnt}
                       \ ({NoFid} \cup IF dvrAt[u].at = "clear" THEN {Fid(u)} ELSE {})
        /\ PlaceKept(u)' /\ StreamsApart' /\ (~recording' /\ r.call # "start" => Recorded' = {})
             => RecorderKept'
    BY <1>4, StepAlone
  <2>2. Recorded = {}
    <3>1. \A j \in 1 .. streamCnt : j < dvrAt[u].i BY <1>0, <1>3
    <3>2. \A j \in 1 .. streamCnt : streams[j] = NoFid BY <1>3, <2>1, <3>1 DEF PlaceKept
    <3>. QED BY <2>1, <3>2
  <2>3. Recorded' = {} BY <1>3 DEF Recorded
  <2>4. StreamsApart' /\ PlaceKept(u)'
    BY <1>3, <1>4, <2>1 DEF StreamsApart, PlaceKept, Busy
  <2>5. RecorderKept' BY <2>1, <2>3, <2>4
  <2>. QED BY <1>3, <1>5, <2>1, <2>2, <2>3, <2>5 DEF OwnersKept, adPart, appPart
<1>8. /\ r.call # "out" /\ r.at \notin {"on", "free", "clear"} /\ recording' \in BOOLEAN
      /\ streams' \in [1 .. MaxStreams -> DemuxFilters \cup {NoFid}]
      /\ streamCnt' \in 0 .. MaxStreams /\ dvrLock' \in DvrUsers \cup {"free", "destroyed"}
  BY <1>0, <1>3, <1>4 DEF DmxUsersTypeOK
<1>. QED BY <1>3, <1>4, <1>5, <1>7, <1>8, InCallStep

(* A call of the recorder returns.                                         *)
LEMMA EndsKeepsUsersInv ==
  ASSUME UsersInv, NEW u \in DvrUsers, RecordStarted(u) \/ RecordStopped(u) \/ DvrClosed(u)
  PROVE  UsersInv'
<1>0. /\ DmxUsersTypeOK
      /\ MaxStreams \in Nat /\ streamCnt \in 0 .. MaxStreams
  BY DmxUsersAssumption DEF UsersInv, DmxUsersTypeOK
<1>1. PICK call \in {"none", "out"} :
        /\ Ends(u, call)
        /\ UNCHANGED <<dmxOpens, filters, inCb, streams, streamCnt, dvrCalls, raced>>
        /\ UNCHANGED <<adPart, appPart, cut>>
        /\ dvrLock' \in DvrUsers \cup {"free", "destroyed"}
        /\ \/ call = "none" /\ dvrOpens' = dvrOpens
           \/ call = "out" /\ dvrOpens' = dvrOpens - 1 /\ recording' = FALSE
        /\ \/ dvrAt[u].call = "start" /\ dvrAt[u].at = "loop" /\ recording' = TRUE
           \/ dvrAt[u].call \in {"stop", "close"} /\ dvrAt[u].at = "end" /\ recording' = FALSE
  <2>1. CASE RecordStarted(u)
    BY <1>0, <2>1 DEF RecordStarted, At, Unlocks, dmxPart, DmxUsersTypeOK
  <2>2. CASE RecordStopped(u)
    BY <1>0, <2>2 DEF RecordStopped, At, Unlocks, dmxPart, DmxUsersTypeOK
  <2>3. CASE DvrClosed(u)
    BY <1>0, <2>3 DEF DvrClosed, At, dmxPart, DmxUsersTypeOK
  <2>. QED BY <2>1, <2>2, <2>3
<1>2. PICK r : r = [call |-> call, at |-> "loop", i |-> 1] OBVIOUS
<1>3. r.call = call /\ r.at = "loop" /\ r \in Places BY <1>0, <1>2 DEF Places
<1>4. InCall(u, r) BY <1>1, <1>2, <1>3 DEF InCall, Busy, Ends
<1>5. /\ filters' \in [DemuxFilters -> FilterStates] /\ \A f \in DemuxFilters : FilterMoves(f)
      /\ FilterOf("dvr")' = FilterOf("dvr") /\ FilterOf("app")' = FilterOf("app")
      /\ FilterOf("ad")' = FilterOf("ad")
  BY <1>1, SwitchedMoves
<1>7. ~cut /\ ~raced => RecorderKept' /\ OwnersKept'
  <2>. SUFFICES ASSUME ~cut, ~raced PROVE RecorderKept' /\ OwnersKept' OBVIOUS
  <2>1. /\ RecorderKept /\ OwnersKept /\ PlaceKept(u) /\ dvrAt'[u] = r
        /\ Recorded = {streams[j] : j \in 1 .. streamCnt} \ {NoFid}
        /\ Recorded' = {streams[j] : j \in 1 .. streamCnt} \ {NoFid}
        /\ PlaceKept(u)' /\ StreamsApart' /\ (~recording' /\ r.call # "start" => Recorded' = {})
             => RecorderKept'
    BY <1>1, <1>3, <1>4, StepAlone
  <2>2. ~recording' => streamCnt = 0 BY <1>1, <2>1 DEF PlaceKept
  <2>3. ~recording' => Recorded' = {} BY <2>1, <2>2
  <2>4. StreamsApart' BY <1>1, <2>1 DEF RecorderKept, StreamsApart
  <2>5. PlaceKept(u)' BY <1>1, <1>3, <2>1 DEF PlaceKept
  <2>6. RecorderKept' BY <2>1, <2>3, <2>4, <2>5
  <2>. QED BY <1>1, <1>5, <2>1, <2>6 DEF OwnersKept, adPart, appPart
<1>8. /\ recording' \in BOOLEAN /\ r.at \notin {"on", "free", "clear"}
      /\ streams' \in [1 .. MaxStreams -> DemuxFilters \cup {NoFid}]
      /\ streamCnt' \in 0 .. MaxStreams
      /\ \/ r.call # "out" /\ dvrOpens' = dvrOpens
         \/ r.call = "out" /\ dvrOpens' = dvrOpens - 1 /\ ~recording'
  <2>1. recording' \in BOOLEAN BY <1>1
  <2>2. /\ streams' \in [1 .. MaxStreams -> DemuxFilters \cup {NoFid}]
        /\ streamCnt' \in 0 .. MaxStreams
    BY <1>0, <1>1 DEF DmxUsersTypeOK
  <2>. QED BY <1>1, <1>3, <2>1, <2>2
<1>. QED BY <1>1, <1>4, <1>5, <1>7, <1>8, InCallStep

LEMMA UsersInvariant == DmxUsersSpec => []UsersInv
<1>1. UsersInv /\ [DmxUsersNext]_userVars => UsersInv'
  <2>1. UsersInv /\ UNCHANGED userVars => UsersInv'
    <3>. SUFFICES ASSUME UsersInv, UNCHANGED userVars PROVE UsersInv' OBVIOUS
    <3>1. /\ UNCHANGED <<dmxOpens, filters, inCb, dvrPart, adAt, adFid, kept>>
          /\ UNCHANGED <<appOpen, appFids, cut>>
      BY DEF userVars, dvrPart
    <3>. QED BY <3>1, RecorderUnseen
             DEF UsersInv, DmxUsersTypeOK, OpensCounted, FilterKept, OwnersKept, FilterOf
  <2>2. ASSUME UsersInv, NEW u \in DvrUsers, DvrStep(u) PROVE UsersInv'
    BY <2>2, DvrOpenKeepsUsersInv, BeginsKeepsUsersInv, StreamAllocatedKeepsUsersInv,
       StreamSwitchedKeepsUsersInv, StreamFreedKeepsUsersInv, StreamClearedKeepsUsersInv,
       StreamsStoppedKeepsUsersInv, EndsKeepsUsersInv
    DEF DvrStep
  <2>. QED BY <2>1, <2>2, CallbacksKeepUsersInv, AdCreateKeepsUsersInv, AdSwitchKeepsUsersInv,
              AdFreeFilterKeepsUsersInv, CloseKeepsUsersInv, OpensKeepUsersInv,
              AppAllocateKeepsUsersInv, AppFreeKeepsUsersInv
           DEF DmxUsersNext
<1>. QED BY <1>1, InitUsersInv, PTL DEF DmxUsersSpec

(* am_ad.c and am_dvr.c beside an application: the handle that             *)
(* AM_AD_Destroy frees is not in use by its callback, unless others keep   *)
(* the demultiplexer open; and every user has the filters it believes to   *)
(* have, in the middle of AM_DVR_StartRecord, StopRecord and Close too,    *)
(* and no filter is freed before it is started,                            *)
(* unless the demultiplexer was closed under a recording or one of these   *)
(* began while another of another user ran; for every number of filters,   *)
(* of streams, of users and of calls.                                      *)
THEOREM UsersStayApart == DmxUsersSpec => []UsersKept
<1>1. UsersInv => UsersKept
  BY DEF UsersInv, UsersKept, UsersCrashed, PlaceKept, OwnersKept, RecorderKept, StreamsApart
<1>. QED BY <1>1, UsersInvariant, PTL

(* The state of the three users stays in its type: the loops of the        *)
(* recorder do not leave dev->streams, whoever closes it meanwhile.        *)
THEOREM UsersAreTyped == DmxUsersSpec => []DmxUsersTypeOK
<1>1. UsersInv => DmxUsersTypeOK
  BY DEF UsersInv
<1>. QED BY <1>1, UsersInvariant, PTL
=============================================================================
