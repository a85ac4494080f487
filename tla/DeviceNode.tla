----------------------------- MODULE DeviceNode -----------------------------
(***************************************************************************)
(* One uORB topic instance (uORBDeviceNode.cpp): the ring of messages, its *)
(* generation counter and the list of callbacks, together with the threads *)
(* that use it.  A publisher stores a message under the node's spinlock    *)
(* and then, OUTSIDE the lock, walks the callback list one node at a time. *)
(* A subscriber is a SubscriptionBlocking (its thread waits on a binary    *)
(* semaphore) or a SubscriptionCallbackWorkItem (its handler is submitted  *)
(* to a work queue).                                                       *)
(*                                                                         *)
(* A message is its number in the order of publication.  sent, got and     *)
(* lost record history; the code has no such variables.                    *)
(***************************************************************************)
EXTENDS Integers, Sequences, FiniteSets

CONSTANTS Publishers,        \* publishing threads
          Blocking,          \* SubscriptionBlocking subscribers
          WorkItems,         \* SubscriptionCallbackWorkItem subscribers
          Timed,             \* blocking subscribers that wait with a timeout
          Throttled,         \* subscribers with _interval_us > 0
          Transient,         \* subscribers that may unregister their callback
          QueueSize,         \* orb_metadata.o_queue
          GenMod,            \* generations are counted modulo GenMod (2^32 in the code)
          MaxPublications,   \* bound on the publications of a behaviour
          ListHead, Nil      \* a cursor before the first callback; past the last one

Subscribers == Blocking \cup WorkItems

ASSUME NodeAssumption ==
    /\ QueueSize \in Nat \ {0}
    /\ GenMod \in Nat \ {0}
    /\ QueueSize <= GenMod
    /\ MaxPublications \in Nat
    /\ Blocking \cap WorkItems = {}
    /\ Timed \subseteq Blocking
    /\ Throttled \subseteq Subscribers
    /\ Transient \subseteq Subscribers
    /\ ListHead \notin Subscribers
    /\ Nil \notin Subscribers
    /\ ListHead # Nil

VARIABLES
  (* fields of the node *)
  allocated,    \* _data # nullptr
  slots,        \* _data, one message per slot
  generation,   \* _generation
  dataValid,    \* _data_valid
  advertised,   \* _advertised
  callbacks,    \* _callbacks, in list order
  (* publishers *)
  ppc,          \* "unadvertised", "ready", "next" or "call"
  cursor,       \* the list iterator of a publication being announced
  (* subscribers *)
  spc,          \* "none", "idle", "check", "wait", "recheck" or "copy"
  registered,   \* _registered
  lastGen,      \* _last_generation
  due,          \* hrt_elapsed_time(&_last_update) >= _interval_us
  token,        \* the semaphore's count, or the work item being queued
  (* history *)
  sent,         \* messages published
  got,          \* last message copied since subscribing, 0 if none
  lost          \* why a wakeup was not delivered since the last copy

nodeVars == <<allocated, slots, generation, dataValid, advertised, callbacks>>
pubVars == <<ppc, cursor>>
subVars == <<spc, registered, lastGen, due, token>>
vars == <<nodeVars, pubVars, subVars, sent, got, lost>>

-----------------------------------------------------------------------------
(* Reading the node                                                        *)

\* DeviceNode::updates_available
UpdatesAvailable(s) ==
    IF generation > lastGen[s] THEN generation - lastGen[s] ELSE 0

\* Mutant of Updated: an off-by-one in the comparison.
UpdatedOrEqual(s) == advertised /\ due[s] /\ UpdatesAvailable(s) >= 0

\* SubscriptionInterval::updated
Updated(s) == advertised /\ due[s] /\ UpdatesAvailable(s) > 0

\* Mutant of InitialGeneration: a new subscriber misses the latest message.
CurrentGeneration == generation

\* DeviceNode::get_initial_generation
InitialGeneration ==
    IF dataValid /\ generation > 0 THEN generation - 1 ELSE generation

\* The generation DeviceNode::copy reads for a subscriber that last saw g.
CopiedGeneration(g) ==
    IF generation > (g + QueueSize) % GenMod
      THEN (generation - QueueSize) % GenMod
      ELSE g

\* History: why Updated(s) is false although there is something to read.
Obstacles(s) ==
    IF UpdatesAvailable(s) = 0 THEN {}
    ELSE {r \in {"interval", "advertise"} :
            \/ r = "interval" /\ ~due[s]
            \/ r = "advertise" /\ ~advertised}

\* List::Iterator::operator++ : a node outside the list has no sibling.
Chain == <<ListHead>> \o callbacks

Sibling(c) ==
    IF \E i \in 1..Len(callbacks) : Chain[i] = c
      THEN LET i == CHOOSE i \in 1..Len(callbacks) : Chain[i] = c IN callbacks[i]
      ELSE Nil

InList(s) == \E i \in 1..Len(callbacks) : callbacks[i] = s

\* List::remove
Without(s) ==
    IF InList(s)
      THEN LET k == CHOOSE i \in 1..Len(callbacks) : callbacks[i] = s
           IN  [i \in 1..Len(callbacks) - 1 |->
                  IF i < k THEN callbacks[i] ELSE callbacks[i + 1]]
      ELSE callbacks

\* The publication p announces has still to call s.
Coming(p, s) ==
    \/ ppc[p] = "call" /\ cursor[p] = s
    \/ /\ ppc[p] \in {"next", "call"}
       /\ \E i, j \in 1..Len(callbacks) + 1 :
            i < j /\ Chain[i] = cursor[p] /\ Chain[j] = s
-----------------------------------------------------------------------------
Init ==
    /\ allocated \in BOOLEAN
    /\ slots = [i \in 0..QueueSize - 1 |-> 0]
    /\ generation = 0
    /\ dataValid = FALSE
    /\ advertised = FALSE
    /\ callbacks = <<>>
    /\ ppc = [p \in Publishers |-> "unadvertised"]
    /\ cursor = [p \in Publishers |-> Nil]
    /\ spc = [s \in Subscribers |-> "none"]
    /\ registered = [s \in Subscribers |-> FALSE]
    /\ lastGen = [s \in Subscribers |-> 0]
    /\ due \in {d \in [Subscribers -> BOOLEAN] : \A s \in Subscribers \ Throttled : d[s]}
    /\ token = [s \in Subscribers |-> FALSE]
    /\ sent = 0
    /\ got = [s \in Subscribers |-> 0]
    /\ lost = [s \in Subscribers |-> {}]
-----------------------------------------------------------------------------
(* Publishers                                                              *)

\* The critical section of DeviceNode::publish, writing the given slot; the
\* iteration over the callbacks starts after it, at the given cursor.
StoreInto(p, slot, start) ==
    /\ allocated
    /\ sent < MaxPublications
    /\ slots' = [slots EXCEPT ![slot] = sent + 1]
    /\ generation' = (generation + 1) % GenMod
    /\ dataValid' = TRUE
    /\ sent' = sent + 1
    /\ ppc' = [ppc EXCEPT ![p] = "next"]
    /\ cursor' = [cursor EXCEPT ![p] = start]
    /\ UNCHANGED <<allocated, advertised, callbacks, subVars, got, lost>>

\* Mutant of Store: the generation is advanced before the slot is chosen.
StoreInNextSlot(p) == StoreInto(p, (generation + 1) % QueueSize, ListHead)

\* Mutant of Store: a publication made while another is being announced is not.
StoreQuietly(p) ==
    StoreInto(p, generation % QueueSize,
              IF \E q \in Publishers : ppc[q] \in {"next", "call"} THEN Nil ELSE ListHead)

Store(p) == StoreInto(p, generation % QueueSize, ListHead)

\* orb_advertise without initial data; with data on a node whose allocation
\* failed, publish returns at once and the effect is the same.
Advertise(p) ==
    /\ ppc[p] = "unadvertised"
    /\ ppc' = [ppc EXCEPT ![p] = "ready"]
    /\ advertised' = TRUE
    /\ UNCHANGED <<allocated, slots, generation, dataValid, callbacks, cursor,
                   subVars, sent, got, lost>>

\* orb_advertise with initial data: published before the node is advertised.
AdvertiseWithData(p) == ppc[p] = "unadvertised" /\ Store(p)

Publish(p) == ppc[p] = "ready" /\ Store(p)

\* Mutant of Iterate: the walk does not test for the end of the list.
IterateUnchecked(p) ==
    /\ ppc[p] = "next"
    /\ cursor' = [cursor EXCEPT ![p] = Sibling(cursor[p])]
    /\ ppc' = [ppc EXCEPT ![p] = "call"]
    /\ UNCHANGED <<nodeVars, subVars, sent, got, lost>>

\* The loop header; when the list is exhausted _advertised is set.
Iterate(p) ==
    /\ ppc[p] = "next"
    /\ cursor' = [cursor EXCEPT ![p] = Sibling(cursor[p])]
    /\ ppc' = [ppc EXCEPT ![p] = IF Sibling(cursor[p]) = Nil THEN "ready" ELSE "call"]
    /\ advertised' = (advertised \/ Sibling(cursor[p]) = Nil)
    /\ UNCHANGED <<allocated, slots, generation, dataValid, callbacks,
                   subVars, sent, got, lost>>

\* Mutant of Fires: a callback waits for a second unread message.
FiresLate(s) == due[s] /\ UpdatesAvailable(s) > 1

\* SubscriptionBlocking::call gives the semaphore unless the interval has not
\* elapsed; SubscriptionCallbackWorkItem::call submits the work if updated().
Fires(s) == IF s \in Blocking THEN due[s] ELSE Updated(s)

Call(p) ==
    /\ ppc[p] = "call"
    /\ LET s == cursor[p] IN
         /\ token' = [token EXCEPT ![s] = @ \/ Fires(s)]
         /\ lost' = [lost EXCEPT ![s] = IF Fires(s) THEN @ ELSE @ \cup Obstacles(s)]
    /\ ppc' = [ppc EXCEPT ![p] = "next"]
    /\ UNCHANGED <<nodeVars, cursor, spc, registered, lastGen, due, sent, got>>
-----------------------------------------------------------------------------
(* Subscribers                                                             *)

\* Subscription::subscribe
Subscribe(s) ==
    /\ spc[s] = "none"
    /\ spc' = [spc EXCEPT ![s] = "idle"]
    /\ lastGen' = [lastGen EXCEPT ![s] = InitialGeneration]
    /\ got' = [got EXCEPT ![s] = 0]
    /\ UNCHANGED <<nodeVars, pubVars, registered, due, token, sent, lost>>

\* Subscription::unsubscribe
Unsubscribe(s) ==
    /\ spc[s] = "idle"
    /\ ~registered[s]
    /\ s \in Transient
    /\ spc' = [spc EXCEPT ![s] = "none"]
    /\ lastGen' = [lastGen EXCEPT ![s] = 0]
    /\ UNCHANGED <<nodeVars, pubVars, registered, due, token, sent, got, lost>>

\* SubscriptionCallback::registerCallback and DeviceNode::register_callback,
\* which appends under the lock unless the callback is in the list.
Enlist(s) ==
    /\ registered' = [registered EXCEPT ![s] = TRUE]
    /\ callbacks' = IF registered[s] \/ InList(s) THEN callbacks ELSE Append(callbacks, s)

Register(s) ==
    /\ s \in WorkItems
    /\ spc[s] = "idle"
    /\ ~registered[s]
    /\ Enlist(s)
    /\ lost' = [lost EXCEPT ![s] = IF UpdatesAvailable(s) > 0 THEN {"late"} ELSE {}]
    /\ UNCHANGED <<allocated, slots, generation, dataValid, advertised, pubVars,
                   spc, lastGen, due, token, sent, got>>

\* SubscriptionCallback::unregisterCallback.  The node leaves the list and
\* loses its sibling, so a publisher standing on it goes no further.
Unregister(s) ==
    /\ s \in Transient
    /\ spc[s] = "idle"
    /\ registered[s]
    /\ registered' = [registered EXCEPT ![s] = FALSE]
    /\ callbacks' = Without(s)
    /\ lost' = [t \in Subscribers |->
                  IF t # s /\ \E p \in Publishers : cursor[p] = s /\ Coming(p, t)
                    THEN lost[t] \cup {"cut"} ELSE lost[t]]
    /\ UNCHANGED <<allocated, slots, generation, dataValid, advertised, pubVars,
                   spc, lastGen, due, token, sent, got>>

\* updatedBlocking: register first ...
UpdateBlocking(s) ==
    /\ s \in Blocking
    /\ spc[s] = "idle"
    /\ Enlist(s)
    /\ spc' = [spc EXCEPT ![s] = "check"]
    /\ lost' = [lost EXCEPT ![s] = IF registered[s] THEN @ ELSE {}]
    /\ UNCHANGED <<allocated, slots, generation, dataValid, advertised, pubVars,
                   lastGen, due, token, sent, got>>

\* ... then look, and wait for the semaphore if there is nothing new.  For a
\* work item this is the test of SubscriptionInterval::update in its handler.
Check(s) ==
    /\ spc[s] = "check"
    /\ spc' = [spc EXCEPT ![s] = IF Updated(s) THEN "copy"
                                 ELSE IF s \in Blocking THEN "wait" ELSE "idle"]
    /\ lost' = [lost EXCEPT ![s] = @ \cup Obstacles(s)]
    /\ UNCHANGED <<nodeVars, pubVars, registered, lastGen, due, token, sent, got>>

\* k_sem_take returns 0
Take(s) ==
    /\ spc[s] = "wait"
    /\ token[s]
    /\ token' = [token EXCEPT ![s] = FALSE]
    /\ spc' = [spc EXCEPT ![s] = "recheck"]
    /\ UNCHANGED <<nodeVars, pubVars, registered, lastGen, due, sent, got, lost>>

\* k_sem_take times out: updatedBlocking returns false
Timeout(s) ==
    /\ spc[s] = "wait"
    /\ s \in Timed
    /\ ~token[s]
    /\ spc' = [spc EXCEPT ![s] = "idle"]
    /\ UNCHANGED <<nodeVars, pubVars, registered, lastGen, due, token, sent, got, lost>>

\* updatedBlocking returns updated() after the semaphore was taken
Recheck(s) ==
    /\ spc[s] = "recheck"
    /\ spc' = [spc EXCEPT ![s] = IF Updated(s) THEN "copy" ELSE "idle"]
    /\ lost' = [lost EXCEPT ![s] = @ \cup Obstacles(s)]
    /\ UNCHANGED <<nodeVars, pubVars, registered, lastGen, due, token, sent, got>>

\* The work queue runs the handler of a queued work item.
RunWork(s) ==
    /\ s \in WorkItems
    /\ spc[s] = "idle"
    /\ token[s]
    /\ token' = [token EXCEPT ![s] = FALSE]
    /\ spc' = [spc EXCEPT ![s] = "check"]
    /\ UNCHANGED <<nodeVars, pubVars, registered, lastGen, due, sent, got, lost>>

\* SubscriptionInterval::copy around DeviceNode::copy, which reads the slot of
\* the given generation and leaves the subscriber with generation g.
CopyFrom(s, from, g) ==
    /\ allocated
    /\ dataValid
    /\ got' = [got EXCEPT ![s] = slots[from % QueueSize]]
    /\ lastGen' = [lastGen EXCEPT ![s] = g]
    /\ lost' = [lost EXCEPT ![s] = {}]
    /\ \E d \in (IF s \in Throttled THEN BOOLEAN ELSE {TRUE}) :
         due' = [due EXCEPT ![s] = d]

CopyData(s) == CopyFrom(s, CopiedGeneration(lastGen[s]), generation)

\* The copy that follows a successful test; a handler then tests again.
CopyUpdate(s) ==
    /\ spc[s] = "copy"
    /\ CopyData(s)
    /\ spc' = [spc EXCEPT ![s] = IF s \in Blocking THEN "idle" ELSE "check"]
    /\ UNCHANGED <<nodeVars, pubVars, registered, token, sent>>

\* copy() called without testing for an update
Poll(s) ==
    /\ spc[s] = "idle"
    /\ CopyData(s)
    /\ UNCHANGED <<nodeVars, pubVars, spc, registered, token, sent>>

\* Time passes: the interval of a throttled subscriber has elapsed.
Elapse(s) ==
    /\ ~due[s]
    /\ due' = [due EXCEPT ![s] = TRUE]
    /\ UNCHANGED <<nodeVars, pubVars, spc, registered, lastGen, token, sent, got, lost>>
-----------------------------------------------------------------------------
PublisherStep(p) ==
    Advertise(p) \/ AdvertiseWithData(p) \/ Publish(p) \/ Iterate(p) \/ Call(p)

SubscriberStep(s) ==
    \/ Subscribe(s) \/ Unsubscribe(s) \/ Register(s) \/ Unregister(s)
    \/ UpdateBlocking(s) \/ Check(s) \/ Take(s) \/ Timeout(s) \/ Recheck(s)
    \/ RunWork(s) \/ CopyUpdate(s) \/ Poll(s) \/ Elapse(s)

Next ==
    \/ \E p \in Publishers : PublisherStep(p)
    \/ \E s \in Subscribers : SubscriberStep(s)

Spec == Init /\ [][Next]_vars

\* A publication that has started is announced; a thread that was woken, a
\* queued work item and a call in progress go on; time passes.  Nothing makes
\* a publisher publish or a subscriber start a call.
Fairness ==
    /\ \A p \in Publishers : WF_vars(Iterate(p) \/ Call(p))
    /\ \A s \in Subscribers :
         WF_vars(Check(s) \/ Take(s) \/ Recheck(s) \/ RunWork(s) \/ CopyUpdate(s))
    /\ \A s \in Subscribers : WF_vars(Elapse(s))

FairSpec == Spec /\ Fairness
-----------------------------------------------------------------------------
(* Properties                                                              *)

\* Every variable has the type its declaration in the code gives it.
TypeOK ==
    /\ allocated \in BOOLEAN
    /\ slots \in [0..QueueSize - 1 -> Nat]
    /\ generation \in 0..GenMod - 1
    /\ dataValid \in BOOLEAN
    /\ advertised \in BOOLEAN
    /\ callbacks \in Seq(Subscribers)
    /\ ppc \in [Publishers -> {"unadvertised", "ready", "next", "call"}]
    /\ cursor \in [Publishers -> Subscribers \cup {ListHead, Nil}]
    /\ \A p \in Publishers : ppc[p] = "call" => cursor[p] \in Subscribers
    /\ spc \in [Subscribers -> {"none", "idle", "check", "wait", "recheck", "copy"}]
    /\ registered \in [Subscribers -> BOOLEAN]
    /\ lastGen \in [Subscribers -> 0..GenMod - 1]
    /\ due \in [Subscribers -> BOOLEAN]
    /\ token \in [Subscribers -> BOOLEAN]
    /\ sent \in 0..MaxPublications
    /\ got \in [Subscribers -> Nat]
    /\ lost \in [Subscribers -> SUBSET {"late", "cut", "interval", "advertise"}]

\* The node's ring holds exactly the last QueueSize messages, each in the slot
\* of its generation, whatever the interleaving of the publishers.
RingHoldsLatest ==
    \A m \in 1..sent : m > sent - QueueSize => slots[(m - 1) % QueueSize] = m

\* A subscriber's generation never runs ahead of the node's, and it has never
\* been given a message beyond what its generation accounts for.
NeverAhead ==
    \A s \in Subscribers : spc[s] # "none" =>
        lastGen[s] <= generation /\ got[s] <= lastGen[s]

\* The generation counter does not wrap within the bound on publications.
NoWrap == MaxPublications + QueueSize < GenMod

\* The inductive invariant behind the three properties around it: without
\* wrap-around the generation is the number of publications, no slot holds a
\* message of the future, and a subscriber about to copy has something to copy.
DataInv ==
    /\ generation = sent
    /\ dataValid <=> sent > 0
    /\ RingHoldsLatest
    /\ NeverAhead
    /\ \A i \in 0..QueueSize - 1 : slots[i] <= sent
    /\ \A s \in Subscribers : lastGen[s] <= sent
    /\ \A s \in Subscribers : spc[s] = "copy" => lastGen[s] < sent

\* Copying after updated() returned true always delivers a message later than
\* every message the subscriber received before (no message twice, none out of
\* order), and one of the last QueueSize published.
UpdateDeliversFresh ==
    [][\A s \in Subscribers : spc[s] = "copy" /\ spc'[s] # "copy" =>
          got'[s] > got[s] /\ got'[s] > sent - QueueSize /\ got'[s] <= sent]_vars

\* A registered subscriber that sleeps (a blocked thread without a token, a
\* work item that is not queued) although a message waits for it will be called
\* by a publication under way, unless one of the recorded causes took its call:
\* the walk over the list was cut by another subscriber leaving, its interval
\* had not elapsed, the node was not yet advertised, or, for a work item, the
\* message was there before it registered.
Asleep(s) ==
    /\ registered[s]
    /\ ~token[s]
    /\ spc[s] = IF s \in Blocking THEN "wait" ELSE "idle"

Neglected(s) == Asleep(s) /\ UpdatesAvailable(s) > 0 /\ lost[s] = {}

NoLostWakeup ==
    \A s \in Subscribers : Neglected(s) => \E p \in Publishers : Coming(p, s)

\* What NoLostWakeup rests on: no callback is in the list twice, and the list
\* holds exactly the registered subscribers.
ListInv ==
    /\ \A i, j \in 1..Len(callbacks) : callbacks[i] = callbacks[j] => i = j
    /\ \A s \in Subscribers : registered[s] <=> InList(s)
    /\ \A s \in Subscribers : spc[s] = "none" => ~registered[s]

\* A blocked thread or an idle work item with a message waiting is served:
\* it copies the message, unless one of the recorded causes takes its call or
\* (a transient subscriber) it leaves the list.
SleeperServed ==
    \A s \in Subscribers :
        Neglected(s) ~> UpdatesAvailable(s) = 0 \/ lost[s] # {} \/ ~registered[s]

\* The node implements the topic its subscribers are promised.
Promised == INSTANCE Topic WITH seen <- lastGen

ImplementsTopic == Promised!TopicSpec
=============================================================================
