-------------------------------- MODULE Evt --------------------------------
(***************************************************************************)
(* The event dispatcher of am_evt.c: threads subscribe callbacks to        *)
(* topics, unsubscribe them, and signal topics.                            *)
(*                                                                         *)
(* AM_EVT_Signal holds the read lock while it runs the callbacks, one      *)
(* after the other, in its caller's thread.  AM_EVT_Subscribe looks for    *)
(* the subscription under the read lock, lets go of it, and inserts under  *)
(* the write lock; AM_EVT_Unsubscribe removes under the write lock.  The   *)
(* lock is the default pthread_rwlock_t: a reader is let in although a     *)
(* writer waits, so a callback can signal again.                           *)
(*                                                                         *)
(* A topic is a dev_no with an event_type; all topics share one bucket.    *)
(***************************************************************************)
EXTENDS Integers, Sequences, SequencesExt, FiniteSets

CONSTANTS
  Threads, Topics, Data,
  Callbacks,      \* callback functions
  Uses,           \* Uses[t]: the callbacks thread t subscribes
  CallbackOps,    \* the calls made by callbacks
  MaxDepth,       \* bound: signals nested in callbacks of one thread
  MaxEvents,      \* bound: subscriptions
  Nil

ASSUME EvtAssumption ==
  /\ Uses \in [Threads -> SUBSET Callbacks]
  /\ CallbackOps \subseteq {"subscribe", "unsubscribe", "signal"}
  /\ MaxDepth \in Nat /\ MaxEvents \in Nat

(* AM_Event_t.                                                             *)
Nodes == [topic : Topics, cb : Callbacks, data : Data]

VARIABLES
  events,         \* the list, newest first
  stack,          \* stack[t]: the signals thread t is in, innermost last
  pending,        \* pending[t]: the insertion or removal t waits to make
  gone            \* history: unsubscribed and not subscribed again

vars == <<events, stack, pending, gone>>

(* A signal that runs a callback: the subscription it has reached, and     *)
(* (history) those still to be called when it began and called since.      *)
Frames == [topic : Topics, pos : Nat, node : Nodes, due : SUBSET Nodes, done : Seq(Nodes)]

TypeOK ==
  /\ events \in Seq(Nodes)
  /\ stack \in [Threads -> Seq(Frames)]
  /\ \A t \in Threads : \A i \in 1 .. Len(stack[t]) : stack[t][i].pos \in 1 .. Len(events)
  /\ pending \in [Threads -> [op : {"insert", "remove"}, node : Nodes] \cup {Nil}]
  /\ gone \subseteq Nodes

Init ==
  /\ events = <<>>
  /\ stack = [t \in Threads |-> <<>>]
  /\ pending = [t \in Threads |-> Nil]
  /\ gone = {}

-----------------------------------------------------------------------------
(* A thread makes a call from its own code or from the callback it is in.  *)
MayCall(t, op) ==
  /\ pending[t] = Nil
  /\ stack[t] # <<>> => op \in CallbackOps

(* The write lock is granted when no thread, the caller included, reads.   *)
Unread == \A t \in Threads : stack[t] = <<>>

Same(m, n) == m.topic = n.topic /\ m.cb = n.cb

(* Mutant: the list is not searched for the callback.                      *)
SubscribeUnchecked(t) ==
  /\ MayCall(t, "subscribe")
  /\ \E n \in Nodes :
       /\ n.cb \in Uses[t]
       /\ pending' = [pending EXCEPT ![t] = [op |-> "insert", node |-> n]]
  /\ UNCHANGED <<events, stack, gone>>

(* The first half of AM_EVT_Subscribe: data is not compared.               *)
Subscribe(t) ==
  /\ MayCall(t, "subscribe")
  /\ \E n \in Nodes :
       /\ n.cb \in Uses[t]
       /\ \A m \in ToSet(events) : ~Same(m, n)
       /\ pending' = [pending EXCEPT ![t] = [op |-> "insert", node |-> n]]
  /\ UNCHANGED <<events, stack, gone>>

Insert(t) ==
  /\ pending[t] # Nil /\ pending[t].op = "insert"
  /\ Unread /\ Len(events) < MaxEvents
  /\ events' = <<pending[t].node>> \o events
  /\ gone' = gone \ {pending[t].node}
  /\ pending' = [pending EXCEPT ![t] = Nil]
  /\ UNCHANGED stack

Unsubscribe(t) ==
  /\ MayCall(t, "unsubscribe")
  /\ \E n \in Nodes :
       /\ n.cb \in Uses[t]
       /\ pending' = [pending EXCEPT ![t] = [op |-> "remove", node |-> n]]
  /\ UNCHANGED <<events, stack, gone>>

(* Mutant: the list is changed without the write lock.                     *)
UnlinkUnlocked(t) ==
  /\ pending[t] # Nil /\ pending[t].op = "remove"
  /\ events' = RemoveFirst(events, pending[t].node)
  /\ gone' = gone \cup {pending[t].node}
  /\ pending' = [pending EXCEPT ![t] = Nil]
  /\ UNCHANGED stack

(* The first node with this topic, callback and data is unlinked.          *)
Unlink(t) ==
  /\ pending[t] # Nil /\ pending[t].op = "remove"
  /\ Unread
  /\ events' = RemoveFirst(events, pending[t].node)
  /\ gone' = gone \cup {pending[t].node}
  /\ pending' = [pending EXCEPT ![t] = Nil]
  /\ UNCHANGED stack

(* The first subscription to the topic after position i of the list.       *)
NextMatch(topic, i) ==
  {j \in i + 1 .. Len(events) :
     /\ events[j].topic = topic
     /\ \A k \in i + 1 .. j - 1 : events[k].topic # topic}

(* The signal fr goes on to the subscription at position j.                *)
Advance(fr, j) ==
  [fr EXCEPT !.pos = j, !.node = events[j], !.done = Append(@, events[j])]

(* AM_EVT_Signal up to the first callback; with none it changes nothing.   *)
Signal(t) ==
  /\ MayCall(t, "signal") /\ Len(stack[t]) < MaxDepth
  /\ \E topic \in Topics : \E j \in NextMatch(topic, 0) :
       stack' = [stack EXCEPT ![t] = Append(@,
                   [topic |-> topic, pos |-> j, node |-> events[j],
                    due |-> {n \in ToSet(events) : n.topic = topic},
                    done |-> <<events[j]>>])]
  /\ UNCHANGED <<events, pending, gone>>

(* Mutant: the loop ends after the first callback.                         *)
CallbackReturnLast(t) ==
  /\ stack[t] # <<>> /\ pending[t] = Nil
  /\ stack' = [stack EXCEPT ![t] = Front(@)]
  /\ UNCHANGED <<events, pending, gone>>

(* A callback returns: the loop calls the next subscription or ends.       *)
CallbackReturn(t) ==
  /\ stack[t] # <<>> /\ pending[t] = Nil
  /\ LET fr == Last(stack[t])
         nx == NextMatch(fr.topic, fr.pos)
     IN  stack' = [stack EXCEPT ![t] =
                     IF nx = {} THEN Front(@)
                     ELSE Append(Front(@), Advance(fr, CHOOSE j \in nx : TRUE))]
  /\ UNCHANGED <<events, pending, gone>>

ThreadStep(t) ==
  \/ Subscribe(t) \/ Insert(t) \/ Unsubscribe(t) \/ Unlink(t)
  \/ Signal(t) \/ CallbackReturn(t)

Next == \E t \in Threads : ThreadStep(t)

Spec == Init /\ [][Next]_vars

-----------------------------------------------------------------------------
(* Properties.                                                             *)

(* "The same callback is filtered out" (am_evt.c:98): no callback is in   *)
(* the list twice for a topic.                                             *)
NoDuplicates ==
  \A i, j \in 1 .. Len(events) : Same(events[i], events[j]) => i = j

(* A thread that signals calls subscriptions that are in the list: none is *)
(* called, or being called, once AM_EVT_Unsubscribe has returned.          *)
UnsubscribedSilent ==
  \A t \in Threads : \A i \in 1 .. Len(stack[t]) :
    LET fr == stack[t][i]
    IN  fr.node \notin gone /\ fr.node \in ToSet(events)

(* A signal ends after it has called every subscription that was in the    *)
(* list when it began, once each, whatever the other threads do meanwhile. *)
SignalReachesAll ==
  [][\A t \in Threads :
       Len(stack'[t]) < Len(stack[t]) =>
         LET fr == Last(stack[t])
         IN  ToSet(fr.done) = fr.due /\ Len(fr.done) = Cardinality(fr.due)]_vars

-----------------------------------------------------------------------------
(* The inductive invariant of EvtProofs, when no callback is subscribed by *)
(* two threads: a subscription about to be inserted is still absent, what  *)
(* is gone is not in the list, and what is being called is in it.          *)
OwnCallbacks == \A t, u \in Threads : t # u => Uses[t] \cap Uses[u] = {}

PendingOwn ==
  \A t \in Threads : pending[t] # Nil =>
    /\ pending[t].node.cb \in Uses[t]
    /\ pending[t].op = "insert" => \A m \in ToSet(events) : ~Same(m, pending[t].node)
GoneAbsent == gone \cap ToSet(events) = {}
CalledListed ==
  \A t \in Threads : \A i \in 1 .. Len(stack[t]) : stack[t][i].node \in ToSet(events)

EvtInv == TypeOK /\ NoDuplicates /\ PendingOwn /\ GoneAbsent /\ CalledListed
=============================================================================
