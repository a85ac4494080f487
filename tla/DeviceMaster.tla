---------------------------- MODULE DeviceMaster ----------------------------
(***************************************************************************)
(* The registry of the topics: which node stands for an instance of a      *)
(* topic, who advertises it and who has a descriptor for it                *)
(* (middleware/uorb/uORB: uORBDeviceMaster.cpp, uORBManager.cpp, uORB.cpp, *)
(* Publication*.hpp, Subscription.cpp).                                    *)
(*                                                                         *)
(* Nodes are created when first needed and are never deleted.  The table   *)
(* of nodes is read without a lock and written under one; the search for a *)
(* free instance takes none.  Each action is what a thread does between    *)
(* two accesses to the shared state.                                       *)
(*                                                                         *)
(* Topics are numbered in the order of their names; a node is its number   *)
(* in the order of creation.  What a node does is in DeviceNode.           *)
(***************************************************************************)
EXTENDS Integers, SequencesExt

CONSTANTS Topics,        \* numbers
          MaxInstances,  \* ORB_MULTI_MAX_INSTANCES
          Single,        \* publishers of instance 0: Publication, orb_advertise
          Multi,         \* publishers that look for an instance: PublicationMulti
          Topic,         \* _orb_id of each publisher
          Subscribers,   \* users of the C interface, one descriptor at a time
          Wanted,        \* the topics and instances they subscribe to
          Starts,        \* what *instance is when the search begins: 0 but in the tests
          MaxHandles,    \* CONFIG_UORB_SUBSCRIBE_HANDLE_MAX
          MaxFailures,   \* bound: allocations that fail
          Nobody

Instances == 0..MaxInstances - 1
Keys == Topics \X Instances
Publishers == Single \cup Multi
Threads == Publishers \cup Subscribers
Handles == 1..MaxHandles
NoKey == <<>>

ASSUME MasterAssumption ==
    /\ Topics \subseteq Nat
    /\ MaxInstances \in Nat \ {0}
    /\ Wanted \subseteq Keys
    /\ Topic \in [Publishers -> Topics]
    /\ Starts \subseteq Instances
    /\ {MaxHandles, MaxFailures} \subseteq Nat
    /\ Single \cap Multi = {} /\ Publishers \cap Subscribers = {}
    /\ Nobody \notin Threads

VARIABLES
  nodes,       \* _nodes: the node of each key, or 0
  exists,      \* _node_exists
  list,        \* _node_list
  made,        \* the key of each node that was created
  lock,        \* the thread that holds _lock
  advertised,  \* the nodes with _advertised
  slots,       \* g_slots: the subscriber whose subscription a descriptor stands for
  pc,          \* where each thread is
  key,         \* the topic and the instance its call is about
  start,       \* *instance when its search began
  node,        \* the node it got: its handle, or that of its subscription
  slot,        \* its descriptor, or 0
  before,      \* history: the publishers that had a handle when its call began
  full,        \* history: at the end of its search every instance was advertised
  failures

registry == <<nodes, exists, list, made, lock>>
history == <<before, full>>
vars == <<registry, advertised, slots, pc, key, start, node, slot, history, failures>>

Init ==
    /\ nodes = [k \in Keys |-> 0]
    /\ exists = [k \in Keys |-> FALSE]
    /\ list = <<>>
    /\ made = <<>>
    /\ lock = Nobody
    /\ advertised = {}
    /\ slots = [h \in Handles |-> Nobody]
    /\ pc = [t \in Threads |-> "idle"]
    /\ key = [t \in Threads |-> NoKey]
    /\ start = [t \in Threads |-> 0]
    /\ node = [t \in Threads |-> 0]
    /\ slot = [t \in Threads |-> 0]
    /\ before = [t \in Threads |-> {}]
    /\ full = [t \in Threads |-> FALSE]
    /\ failures = 0

Go(t, l) == pc' = [pc EXCEPT ![t] = l]
-----------------------------------------------------------------------------
(* DeviceMaster::getOrCreateNode                                            *)

\* Where the caller goes on
Got(t) == IF t \in Publishers THEN "mark" ELSE IF slot[t] = 0 THEN "alloc" ELSE "idle"
GotNone(t) == IF t \in Publishers THEN "idle" ELSE Got(t)

\* The node is there already, or is about to be created.
Find(t) ==
    LET n == nodes[key[t]] IN
    /\ pc[t] = "find"
    /\ node' = [node EXCEPT ![t] = n]
    /\ Go(t, IF n # 0 THEN Got(t) ELSE "lock")
    /\ UNCHANGED <<registry, advertised, slots, key, start, slot, history, failures>>

\* Mutant of Create: the table is not read again under the lock.
CreateUnchecked(t) ==
    /\ pc[t] = "lock"
    /\ lock = Nobody
    /\ lock' = t
    /\ made' = Append(made, key[t])
    /\ node' = [node EXCEPT ![t] = Len(made) + 1]
    /\ Go(t, "store")
    /\ UNCHANGED <<nodes, exists, list, advertised, slots, key, start, slot, history, failures>>

\* Mutant of Create: the lock is not released when the allocation fails.
CreateHolding(t) ==
    LET n == nodes[key[t]] IN
    /\ pc[t] = "lock"
    /\ lock = Nobody
    /\ \/ /\ n # 0
          /\ node' = [node EXCEPT ![t] = n]
          /\ Go(t, Got(t))
          /\ UNCHANGED <<made, lock, failures>>
       \/ /\ n = 0
          /\ lock' = t
          /\ made' = Append(made, key[t])
          /\ node' = [node EXCEPT ![t] = Len(made) + 1]
          /\ Go(t, "store")
          /\ UNCHANGED failures
       \/ /\ n = 0 /\ failures < MaxFailures
          /\ failures' = failures + 1
          /\ lock' = t
          /\ Go(t, GotNone(t))
          /\ UNCHANGED <<made, node>>
    /\ UNCHANGED <<nodes, exists, list, advertised, slots, key, start, slot, history>>

\* Under the lock it is looked for once more, and else created.  When there is no memory
\* the lock is released again.
Create(t) ==
    LET n == nodes[key[t]] IN
    /\ pc[t] = "lock"
    /\ lock = Nobody
    /\ \/ /\ n # 0
          /\ node' = [node EXCEPT ![t] = n]
          /\ Go(t, Got(t))
          /\ UNCHANGED <<made, lock, failures>>
       \/ /\ n = 0
          /\ lock' = t
          /\ made' = Append(made, key[t])
          /\ node' = [node EXCEPT ![t] = Len(made) + 1]
          /\ Go(t, "store")
          /\ UNCHANGED failures
       \/ /\ n = 0 /\ failures < MaxFailures
          /\ failures' = failures + 1
          /\ Go(t, GotNone(t))
          /\ UNCHANGED <<made, node, lock>>
    /\ UNCHANGED <<nodes, exists, list, advertised, slots, key, start, slot, history>>

StoreNode(t) ==
    /\ pc[t] = "store"
    /\ nodes' = [nodes EXCEPT ![key[t]] = node[t]]
    /\ Go(t, "link")
    /\ UNCHANGED <<exists, list, made, lock, advertised, slots, key, start, node, slot,
                   history, failures>>

\* Mutant of Place: always at the end.
PlaceLast(n) == Len(list) + 1

\* IntrusiveSortedList::add: before the first node whose name is not smaller
Place(n) ==
    CHOOSE i \in 1..Len(list) + 1 :
        /\ \A j \in 1..i - 1 : made[list[j]][1] < made[n][1]
        /\ i <= Len(list) => made[n][1] <= made[list[i]][1]

Link(t) ==
    /\ pc[t] = "link"
    /\ list' = InsertAt(list, Place(node[t]), node[t])
    /\ Go(t, "flag")
    /\ UNCHANGED <<nodes, exists, made, lock, advertised, slots, key, start, node, slot,
                   history, failures>>

SetExists(t) ==
    /\ pc[t] = "flag"
    /\ exists' = [exists EXCEPT ![key[t]] = TRUE]
    /\ lock' = Nobody
    /\ Go(t, Got(t))
    /\ UNCHANGED <<nodes, list, made, advertised, slots, key, start, node, slot, history, failures>>
-----------------------------------------------------------------------------
(* Publishers: Manager::orb_advertise_multi                                 *)

\* The publishers that have a handle
Holders == {p \in Publishers : node[p] # 0 /\ pc[p] = "idle"}

Advertise(p, i) ==
    /\ pc[p] = "idle" /\ node[p] = 0
    /\ key' = [key EXCEPT ![p] = <<Topic[p], i>>]
    /\ start' = [start EXCEPT ![p] = i]
    /\ before' = [before EXCEPT ![p] = IF p \in Multi THEN Holders ELSE {}]
    /\ full' = [full EXCEPT ![p] = FALSE]
    /\ Go(p, IF p \in Multi THEN "scan" ELSE "find")
    /\ UNCHANGED <<registry, advertised, slots, node, slot, failures>>

Taken(k) == nodes[k] # 0 /\ nodes[k] \in advertised

\* An instance nobody advertises, though subscribers may wait for it
Free(k) == ~Taken(k)

\* One turn of the search.  If all are advertised, it ends where it began.
Scan(p) ==
    LET t == key[p][1]
        i == key[p][2]
    IN
    /\ pc[p] = "scan"
    /\ \/ Free(key[p]) /\ Go(p, "find") /\ start' = [start EXCEPT ![p] = 0] /\ UNCHANGED key
       \/ /\ ~Free(key[p]) /\ i < MaxInstances - 1
          /\ key' = [key EXCEPT ![p] = <<t, i + 1>>]
          /\ UNCHANGED <<pc, start>>
       \/ /\ ~Free(key[p]) /\ i = MaxInstances - 1
          /\ key' = [key EXCEPT ![p] = <<t, start[p]>>]
          /\ start' = [start EXCEPT ![p] = 0]
          /\ Go(p, "find")
    /\ full' = [full EXCEPT ![p] = \A j \in start[p]..MaxInstances - 1 : Taken(<<t, j>>)]
    /\ UNCHANGED <<registry, advertised, slots, node, slot, before, failures>>

\* Mutant of Mark: the node counts as advertised only when it has data.
MarkLater(p) ==
    /\ pc[p] = "mark"
    /\ Go(p, "idle")
    /\ UNCHANGED <<registry, advertised, slots, key, start, node, slot, history, failures>>

\* mark_as_advertised, after the first data, if any, was published
Mark(p) ==
    /\ pc[p] = "mark"
    /\ advertised' = advertised \cup {node[p]}
    /\ Go(p, "idle")
    /\ UNCHANGED <<registry, slots, key, start, node, slot, history, failures>>

\* orb_unadvertise does nothing: the handle is gone, the node stays advertised.
Unadvertise(p) ==
    /\ p \in Holders
    /\ node' = [node EXCEPT ![p] = 0]
    /\ key' = [key EXCEPT ![p] = NoKey]
    /\ before' = [t \in Threads |-> IF t = p THEN {} ELSE before[t] \ {p}]
    /\ full' = [full EXCEPT ![p] = FALSE]
    /\ UNCHANGED <<registry, advertised, slots, pc, start, slot, failures>>
-----------------------------------------------------------------------------
(* Subscribers: the C interface                                             *)

\* orb_subscribe_multi: the constructor of Subscription looks for the node.
Subscribe(s, k) ==
    /\ pc[s] = "idle" /\ slot[s] = 0
    /\ key' = [key EXCEPT ![s] = k]
    /\ Go(s, "find")
    /\ UNCHANGED <<registry, advertised, slots, start, node, slot, history, failures>>

\* Mutant of AllocSlot: the first descriptor is taken whether it is in use or not.
AllocSlotAnyway(s) ==
    /\ pc[s] = "alloc"
    /\ \E h \in Handles :
         /\ h = 1
         /\ slots' = [slots EXCEPT ![h] = s]
         /\ slot' = [slot EXCEPT ![s] = h]
    /\ UNCHANGED node
    /\ Go(s, "idle")
    /\ UNCHANGED <<registry, advertised, key, start, history, failures>>

\* alloc_slot, under its mutex: the first free one; else the subscription is deleted.
AllocSlot(s) ==
    LET free == {h \in Handles : slots[h] = Nobody} IN
    /\ pc[s] = "alloc"
    /\ \/ \E h \in free :
            /\ \A g \in free : h <= g
            /\ slots' = [slots EXCEPT ![h] = s]
            /\ slot' = [slot EXCEPT ![s] = h]
            /\ UNCHANGED <<node, key>>
       \/ /\ free = {}
          /\ node' = [node EXCEPT ![s] = 0]
          /\ key' = [key EXCEPT ![s] = NoKey]
          /\ UNCHANGED <<slots, slot>>
    /\ Go(s, "idle")
    /\ UNCHANGED <<registry, advertised, start, history, failures>>

\* orb_copy, orb_check: a subscription without a node looks for it again.
Access(s) ==
    /\ pc[s] = "idle" /\ slot[s] # 0
    /\ node[s] = 0
    /\ Go(s, "find")
    /\ UNCHANGED <<registry, advertised, slots, key, start, node, slot, history, failures>>

\* orb_unsubscribe
Unsubscribe(s) ==
    /\ pc[s] = "idle" /\ slot[s] # 0
    /\ slots' = [slots EXCEPT ![slot[s]] = Nobody]
    /\ slot' = [slot EXCEPT ![s] = 0]
    /\ node' = [node EXCEPT ![s] = 0]
    /\ key' = [key EXCEPT ![s] = NoKey]
    /\ UNCHANGED <<registry, advertised, pc, start, history, failures>>
-----------------------------------------------------------------------------
Progress(t) ==
    \/ Find(t) \/ Create(t) \/ StoreNode(t) \/ Link(t) \/ SetExists(t)
    \/ Scan(t) \/ Mark(t) \/ AllocSlot(t)

Next ==
    \/ \E t \in Threads : Progress(t)
    \/ \E p \in Publishers : \E i \in IF p \in Multi THEN Starts ELSE {0} : Advertise(p, i)
    \/ \E p \in Publishers : Unadvertise(p)
    \/ \E s \in Subscribers : (\E k \in Wanted : Subscribe(s, k)) \/ Access(s) \/ Unsubscribe(s)

Spec == Init /\ [][Next]_vars
-----------------------------------------------------------------------------
(* Properties                                                               *)

Created == 1..Len(made)

\* The types of the variables.
TypeOK ==
    /\ made \in Seq(Keys)
    /\ nodes \in [Keys -> {0} \cup Created]
    /\ exists \in [Keys -> BOOLEAN]
    /\ list \in Seq(Created)
    /\ lock \in Threads \cup {Nobody}
    /\ advertised \subseteq Created
    /\ slots \in [Handles -> Subscribers \cup {Nobody}]
    /\ pc \in [Threads -> {"idle", "scan", "find", "lock", "store", "link", "flag", "mark", "alloc"}]
    /\ key \in [Threads -> Keys \cup {NoKey}]
    /\ start \in [Threads -> Instances]
    /\ node \in [Threads -> {0} \cup Created]
    /\ slot \in [Threads -> {0} \cup Handles]
    /\ before \in [Threads -> SUBSET Publishers]
    /\ full \in [Threads -> BOOLEAN]
    /\ failures \in 0..MaxFailures

\* Everybody who asks for an instance of a topic gets the same node, of that topic and
\* instance, and keeps it, so that publishers and subscribers meet although the node is
\* created by the first of them, without a lock on the usual path.
OneNode ==
    \A t \in Threads :
        pc[t] # "store" /\ node[t] # 0 =>
            /\ made[node[t]] = key[t]
            /\ nodes[key[t]] = node[t]

\* The list that is walked without the lock has every node that exists exactly once, in
\* the order of the names.
ListComplete ==
    /\ \A k \in Keys : exists[k] => \E j \in 1..Len(list) : list[j] = nodes[k]
    /\ \A i, j \in 1..Len(list) : i < j => list[i] # list[j] /\ made[list[i]][1] <= made[list[j]][1]

\* A publisher that looks for an instance of its own does not get one that a publisher
\* had when it began, and still has, unless every instance was advertised once.  Two that
\* look at the same time may get the same one: the search takes no lock and an instance is
\* marked only at the end.
OwnInstance ==
    \A p \in Multi \cap Holders : \A q \in before[p] \ {p} :
        node[q] = node[p] => full[p]

\* The descriptors in use are those that somebody has, each of one subscriber: none is
\* lost when there is no memory or the descriptors are used up.
SlotsOwned ==
    /\ \A s \in Subscribers : slot[s] # 0 => slots[slot[s]] = s
    /\ \A h \in Handles : slots[h] # Nobody => slot[slots[h]] = h

\* The lock is held by a thread that creates a node, and by one at a time: no call leaves
\* it behind, whether it finds a node meanwhile created or no memory for a new one.
LockHeld ==
    \A t \in Threads : pc[t] \in {"store", "link", "flag"} <=> lock = t
=============================================================================
