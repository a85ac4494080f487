-------------------------- MODULE DeviceNodeProofs --------------------------
(* Proofs about DeviceNode, for every set of publishers and subscribers,    *)
(* every queue size and every bound on the publications.                    *)
EXTENDS DeviceNode, TLAPS

(* Two different message numbers closer than the queue size never share a   *)
(* slot of the ring (the index computation of DeviceNode::publish).         *)
LEMMA SlotsDistinct ==
    ASSUME NEW Q \in Nat \ {0}, NEW a \in Nat, NEW b \in Nat,
           a < b, b - a < Q
    PROVE  a % Q # b % Q
<1> DEFINE qa == a \div Q
<1> DEFINE qb == b \div Q
<1>1. qa \in Nat /\ qb \in Nat /\ a = Q * qa + (a % Q) /\ b = Q * qb + (b % Q)
  BY SMT
<1>2. SUFFICES ASSUME a % Q = b % Q PROVE FALSE
  OBVIOUS
<1> HIDE DEF qa, qb
<1>3. b - a = Q * qb - Q * qa
  BY <1>1, <1>2, SMT
<1>4. Q * qb - Q * qa = Q * (qb - qa)
  BY <1>1, SMT
<1>5. CASE qb - qa <= 0
  <2>1. Q * (qb - qa) <= 0
    BY <1>1, <1>5, SMT
  <2> QED BY <2>1, <1>3, <1>4, SMT
<1>6. CASE qb - qa >= 1
  <2>1. Q * (qb - qa) >= Q
    BY <1>1, <1>6, SMT
  <2> QED BY <2>1, <1>3, <1>4, SMT
<1> QED BY <1>1, <1>5, <1>6, SMT

(* A number below the modulus is its own remainder.                         *)
LEMMA SmallRemainder ==
    ASSUME NEW M \in Nat \ {0}, NEW x \in Nat, x < M
    PROVE  x % M = x
  BY SMT

-----------------------------------------------------------------------------
(* Walking the callback list leads to a subscriber in the list or past the  *)
(* end (List::Iterator::operator++).                                        *)
LEMMA SiblingType ==
    ASSUME callbacks \in Seq(Subscribers), NEW c
    PROVE  Sibling(c) \in Subscribers \cup {Nil}
<1>1. CASE \E i \in 1..Len(callbacks) : Chain[i] = c
  <2> DEFINE k == CHOOSE i \in 1..Len(callbacks) : Chain[i] = c
  <2>1. k \in 1..Len(callbacks)
    BY <1>1
  <2>2. Sibling(c) = callbacks[k]
    BY <1>1 DEF Sibling
  <2> QED BY <2>1, <2>2
<1>2. CASE ~\E i \in 1..Len(callbacks) : Chain[i] = c
  BY <1>2 DEF Sibling
<1> QED BY <1>1, <1>2

(* List::remove yields a list of the subscribers that were in it.           *)
LEMMA WithoutType ==
    ASSUME callbacks \in Seq(Subscribers), NEW s
    PROVE  Without(s) \in Seq(Subscribers)
<1>1. CASE InList(s)
  <2> DEFINE k == CHOOSE i \in 1..Len(callbacks) : callbacks[i] = s
             W == [i \in 1..Len(callbacks) - 1 |->
                     IF i < k THEN callbacks[i] ELSE callbacks[i + 1]]
  <2>1. k \in 1..Len(callbacks)
    BY <1>1 DEF InList
  <2>2. Len(callbacks) - 1 \in Nat
    BY <2>1
  <2> HIDE DEF k
  <2>3. \A i \in 1..Len(callbacks) - 1 : W[i] \in Subscribers
    BY <2>1, <2>2
  <2>4. W \in Seq(Subscribers)
    BY <2>2, <2>3
  <2>5. Without(s) = W
    BY <1>1 DEF Without, k
  <2> QED BY <2>4, <2>5
<1>2. CASE ~InList(s)
  BY <1>2 DEF Without
<1> QED BY <1>1, <1>2

LEMMA InitialGenerationType ==
    ASSUME generation \in 0..GenMod - 1
    PROVE  InitialGeneration \in 0..GenMod - 1
  BY NodeAssumption DEF InitialGeneration

LEMMA TypeInit == Init => TypeOK
  BY NodeAssumption DEF Init, TypeOK

LEMMA TypeStep == TypeOK /\ [Next]_vars => TypeOK'
<1> SUFFICES ASSUME TypeOK, [Next]_vars PROVE TypeOK'
  OBVIOUS
<1> USE NodeAssumption
<1>1. ASSUME NEW p \in Publishers, PublisherStep(p) PROVE TypeOK'
  <2>1. CASE Advertise(p)
    BY <2>1 DEF TypeOK, Advertise, subVars
  <2>2. ASSUME Store(p) PROVE TypeOK'
    <3>1. generation % QueueSize \in 0..QueueSize - 1
      BY DEF TypeOK
    <3>2. generation' \in 0..GenMod - 1
      BY <2>2 DEF TypeOK, Store, StoreInto
    <3>3. sent' \in 0..MaxPublications /\ sent + 1 \in Nat
      BY <2>2 DEF TypeOK, Store, StoreInto
    <3>4. slots' \in [0..QueueSize - 1 -> Nat]
      BY <2>2, <3>1, <3>3 DEF TypeOK, Store, StoreInto
    <3> QED BY <2>2, <3>2, <3>3, <3>4 DEF TypeOK, Store, StoreInto, subVars
  <2>3. CASE Iterate(p)
    <3>1. Sibling(cursor[p]) \in Subscribers \cup {Nil}
      BY SiblingType DEF TypeOK
    <3> QED BY <2>3, <3>1 DEF TypeOK, Iterate, subVars
  <2>4. CASE Call(p)
    <3>1. \A s \in Subscribers : Obstacles(s) \in SUBSET {"interval", "advertise"}
      BY DEF Obstacles
    <3>2. token' \in [Subscribers -> BOOLEAN]
      BY <2>4, Zenon DEF TypeOK, Call
    <3>3. lost' \in [Subscribers -> SUBSET {"late", "cut", "interval", "advertise"}]
      BY <2>4, <3>1 DEF TypeOK, Call
    <3> QED BY <2>4, <3>2, <3>3 DEF TypeOK, Call, nodeVars
  <2> QED BY <1>1, <2>1, <2>2, <2>3, <2>4
       DEF PublisherStep, AdvertiseWithData, Publish
<1>2. ASSUME NEW s \in Subscribers, SubscriberStep(s) PROVE TypeOK'
  <2>0. \A t \in Subscribers : Obstacles(t) \in SUBSET {"interval", "advertise"}
    BY DEF Obstacles
  <2>1. CASE Subscribe(s)
    BY <2>1, InitialGenerationType DEF TypeOK, Subscribe, nodeVars, pubVars
  <2>2. CASE Unsubscribe(s)
    BY <2>2 DEF TypeOK, Unsubscribe, nodeVars, pubVars
  <2>3. CASE Register(s)
    BY <2>3 DEF TypeOK, Register, Enlist, pubVars
  <2>4. CASE Unregister(s)
    BY <2>4, WithoutType DEF TypeOK, Unregister, pubVars
  <2>5. CASE UpdateBlocking(s)
    BY <2>5 DEF TypeOK, UpdateBlocking, Enlist, pubVars
  <2>6. CASE Check(s)
    BY <2>0, <2>6 DEF TypeOK, Check, nodeVars, pubVars
  <2>7. CASE Take(s)
    BY <2>7 DEF TypeOK, Take, nodeVars, pubVars
  <2>8. CASE Timeout(s)
    BY <2>8 DEF TypeOK, Timeout, nodeVars, pubVars
  <2>9. CASE Recheck(s)
    BY <2>0, <2>9 DEF TypeOK, Recheck, nodeVars, pubVars
  <2>10. CASE RunWork(s)
    BY <2>10 DEF TypeOK, RunWork, nodeVars, pubVars
  <2>11. ASSUME CopyData(s)
         PROVE  /\ got' \in [Subscribers -> Nat]
                /\ lastGen' \in [Subscribers -> 0..GenMod - 1]
                /\ lost' \in [Subscribers -> SUBSET {"late", "cut", "interval", "advertise"}]
                /\ due' \in [Subscribers -> BOOLEAN]
    <3>1. CopiedGeneration(lastGen[s]) \in Nat
      BY DEF TypeOK, CopiedGeneration
    <3>2. CopiedGeneration(lastGen[s]) % QueueSize \in 0..QueueSize - 1
      BY <3>1
    <3>3. slots[CopiedGeneration(lastGen[s]) % QueueSize] \in Nat
      BY <3>2 DEF TypeOK
    <3>4. PICK d \in BOOLEAN : due' = [due EXCEPT ![s] = d]
      BY <2>11, Zenon DEF CopyData, CopyFrom
    <3>5. due' \in [Subscribers -> BOOLEAN]
      BY <3>4, Zenon DEF TypeOK
    <3> QED BY <2>11, <3>3, <3>5 DEF TypeOK, CopyData, CopyFrom
  <2>12. CASE CopyUpdate(s)
    BY <2>11, <2>12 DEF TypeOK, CopyUpdate, nodeVars, pubVars
  <2>13. CASE Poll(s)
    BY <2>11, <2>13 DEF TypeOK, Poll, nodeVars, pubVars
  <2>14. CASE Elapse(s)
    BY <2>14 DEF TypeOK, Elapse, nodeVars, pubVars
  <2> QED BY <1>2, <2>1, <2>2, <2>3, <2>4, <2>5, <2>6, <2>7, <2>8, <2>9, <2>10,
             <2>12, <2>13, <2>14 DEF SubscriberStep
<1>3. CASE UNCHANGED vars
  BY <1>3 DEF TypeOK, vars, nodeVars, pubVars, subVars
<1> QED BY <1>1, <1>2, <1>3 DEF Next

(* Every variable keeps its type, in every behaviour of the node.           *)
THEOREM TypeCorrect == Spec => []TypeOK
  BY TypeInit, TypeStep, PTL DEF Spec
-----------------------------------------------------------------------------
(* DeviceNode::copy reads the slot of the oldest message that is both kept  *)
(* and unread, or, with nothing unread, a slot of the past.                 *)
LEMMA CopiedMessage ==
    ASSUME NoWrap, TypeOK, DataInv, NEW s \in Subscribers,
           NEW c, c = CopiedGeneration(lastGen[s])
    PROVE  /\ c \in Nat
           /\ c >= lastGen[s]
           /\ slots[c % QueueSize] \in 0..sent
           /\ lastGen[s] < sent =>
                /\ slots[c % QueueSize] = c + 1
                /\ c < sent /\ c >= sent - QueueSize
<1> USE NodeAssumption
<1> DEFINE g == lastGen[s]
<1>1. g \in Nat /\ g <= sent /\ sent \in Nat /\ sent <= MaxPublications
  BY DEF TypeOK, DataInv
<1>2. (g + QueueSize) % GenMod = g + QueueSize
  <2>1. g + QueueSize \in Nat /\ g + QueueSize < GenMod
    BY <1>1 DEF NoWrap
  <2> QED BY <2>1, SmallRemainder
<1>3. sent > g + QueueSize => (sent - QueueSize) % GenMod = sent - QueueSize
  <2> SUFFICES ASSUME sent > g + QueueSize
               PROVE  (sent - QueueSize) % GenMod = sent - QueueSize
    OBVIOUS
  <2>1. sent - QueueSize \in Nat /\ sent - QueueSize < GenMod
    BY <1>1 DEF NoWrap
  <2> QED BY <2>1, SmallRemainder
<1>4. c = IF sent > g + QueueSize THEN sent - QueueSize ELSE g
  BY <1>2, <1>3 DEF CopiedGeneration, DataInv
<1> HIDE DEF g
<1>5. c \in Nat /\ c >= g
  BY <1>1, <1>4
<1>6. c % QueueSize \in 0..QueueSize - 1
  BY <1>5
<1>7. slots[c % QueueSize] \in 0..sent
  BY <1>6 DEF TypeOK, DataInv
<1>8. ASSUME g < sent
      PROVE  slots[c % QueueSize] = c + 1 /\ c < sent /\ c >= sent - QueueSize
  <2>1. c < sent /\ c >= sent - QueueSize
    BY <1>1, <1>4, <1>8
  <2>2. c + 1 \in 1..sent /\ c + 1 > sent - QueueSize /\ (c + 1) - 1 = c
    BY <1>1, <1>5, <2>1
  <2> QED BY <2>1, <2>2 DEF DataInv, RingHoldsLatest
<1> QED BY <1>5, <1>7, <1>8 DEF g

LEMMA DataInit == Init => DataInv
  BY NodeAssumption DEF Init, DataInv, RingHoldsLatest, NeverAhead

(* The one step that writes the ring: the new message replaces the oldest.  *)
LEMMA StoreData ==
    ASSUME NoWrap, TypeOK, DataInv, NEW p \in Publishers, Store(p)
    PROVE  DataInv'
<1> USE NodeAssumption
<1>0. sent \in Nat /\ sent < MaxPublications
  BY DEF TypeOK, Store, StoreInto
<1>1. generation' = sent + 1
  <2>1. (sent + 1) % GenMod = sent + 1
    BY <1>0, SmallRemainder DEF NoWrap
  <2> QED BY <2>1 DEF Store, StoreInto, DataInv
<1>2. sent' = sent + 1 /\ dataValid' = TRUE
  BY DEF Store, StoreInto
<1> DEFINE k == sent % QueueSize
<1>3. k \in 0..QueueSize - 1
  BY <1>0
<1>4. slots' = [slots EXCEPT ![k] = sent + 1] /\ slots \in [0..QueueSize - 1 -> Nat]
  BY DEF Store, StoreInto, TypeOK, DataInv
<1>5. \A i \in 0..QueueSize - 1 : slots'[i] <= sent'
  BY <1>0, <1>2, <1>3, <1>4 DEF DataInv
<1>6. RingHoldsLatest'
  <2> SUFFICES ASSUME NEW m \in 1..sent + 1, m > sent + 1 - QueueSize
               PROVE  slots'[(m - 1) % QueueSize] = m
    BY <1>0, <1>2 DEF RingHoldsLatest
  <2>1. CASE m = sent + 1
    BY <2>1, <1>0, <1>3, <1>4
  <2>2. CASE m # sent + 1
    <3>1. m \in 1..sent /\ m - 1 \in Nat /\ m - 1 < sent /\ sent - (m - 1) < QueueSize
      BY <1>0, <2>2
    <3>2. (m - 1) % QueueSize # k
      BY <1>0, <3>1, SlotsDistinct
    <3>3. (m - 1) % QueueSize \in 0..QueueSize - 1
      BY <3>1
    <3>4. slots'[(m - 1) % QueueSize] = slots[(m - 1) % QueueSize]
      BY <1>4, <3>2, <3>3
    <3> QED BY <1>0, <3>1, <3>4 DEF DataInv, RingHoldsLatest
  <2> QED BY <2>1, <2>2
<1>7. UNCHANGED <<spc, lastGen, got>>
  BY DEF Store, StoreInto, subVars
<1>8. \A s \in Subscribers : lastGen'[s] <= sent' /\ (spc'[s] = "copy" => lastGen'[s] < sent')
  BY <1>0, <1>2, <1>7 DEF DataInv, TypeOK
<1>9. NeverAhead'
  <2>1. \A s \in Subscribers : spc[s] # "none" => lastGen[s] <= sent + 1 /\ got[s] <= lastGen[s]
    BY <1>8, <1>2, <1>7 DEF DataInv, NeverAhead
  <2> QED BY <2>1, <1>1, <1>7 DEF NeverAhead
<1> QED BY <1>0, <1>1, <1>2, <1>5, <1>6, <1>8, <1>9 DEF DataInv

(* A copy: the subscriber catches up with the node.                         *)
LEMMA CopyDataKeeps ==
    ASSUME NoWrap, TypeOK, DataInv, NEW s \in Subscribers, CopyData(s),
           UNCHANGED <<nodeVars, sent>>,
           \A t \in Subscribers : t # s => spc'[t] = spc[t], spc'[s] # "copy",
           spc[s] # "none"
    PROVE  DataInv'
<1> DEFINE c == CopiedGeneration(lastGen[s])
<1>1. slots[c % QueueSize] \in 0..sent
  BY CopiedMessage
<1> HIDE DEF c
<1>2. UNCHANGED <<slots, generation, dataValid, sent>>
  BY DEF nodeVars
<1>3. lastGen' = [lastGen EXCEPT ![s] = sent] /\ got' = [got EXCEPT ![s] = slots[c % QueueSize]]
  BY DEF CopyData, CopyFrom, DataInv, c
<1>4. \A t \in Subscribers : lastGen'[t] <= sent' /\ (spc'[t] = "copy" => lastGen'[t] < sent')
  BY <1>2, <1>3 DEF DataInv, TypeOK
<1>5. NeverAhead'
  BY <1>1, <1>2, <1>3 DEF DataInv, NeverAhead, TypeOK
<1> QED BY <1>2, <1>4, <1>5 DEF DataInv, RingHoldsLatest

(* A step that leaves the ring and what subscribers have read alone.        *)
LEMMA OtherStepsKeep ==
    ASSUME TypeOK, DataInv, UNCHANGED <<slots, generation, dataValid, sent, lastGen, got>>,
           \A s \in Subscribers :
              /\ spc'[s] # "none" => spc[s] # "none"
              /\ spc'[s] = "copy" => spc[s] = "copy" \/ lastGen[s] < sent
    PROVE  DataInv'
  BY DEF DataInv, RingHoldsLatest, NeverAhead, TypeOK

LEMMA DataStep ==
    ASSUME NoWrap PROVE TypeOK /\ DataInv /\ [Next]_vars => DataInv'
<1> SUFFICES ASSUME TypeOK, DataInv, [Next]_vars PROVE DataInv'
  OBVIOUS
<1>1. ASSUME NEW p \in Publishers, PublisherStep(p) PROVE DataInv'
  <2>1. CASE Store(p)
    BY <2>1, StoreData
  <2>2. CASE Advertise(p) \/ Iterate(p) \/ Call(p)
    <3>1. UNCHANGED <<slots, generation, dataValid, sent, lastGen, got, spc>>
      BY <2>2 DEF Advertise, Iterate, Call, subVars, nodeVars
    <3> QED BY <3>1, OtherStepsKeep
  <2> QED BY <1>1, <2>1, <2>2 DEF PublisherStep, AdvertiseWithData, Publish
<1>2. ASSUME NEW s \in Subscribers, SubscriberStep(s) PROVE DataInv'
  <2>0. Updated(s) => lastGen[s] < sent
    BY DEF Updated, UpdatesAvailable, DataInv, TypeOK
  <2>1. CASE Subscribe(s)
    <3>0. InitialGeneration = IF sent > 0 THEN sent - 1 ELSE 0
      BY DEF InitialGeneration, DataInv, TypeOK
    <3>1. lastGen' = [lastGen EXCEPT ![s] = IF sent > 0 THEN sent - 1 ELSE 0]
      BY <2>1, <3>0 DEF Subscribe
    <3>2. UNCHANGED <<slots, generation, dataValid, sent>>
      BY <2>1 DEF Subscribe, nodeVars
    <3>3. spc' = [spc EXCEPT ![s] = "idle"] /\ got' = [got EXCEPT ![s] = 0]
      BY <2>1 DEF Subscribe
    <3>4. \A t \in Subscribers : lastGen'[t] <= sent /\ (spc'[t] = "copy" => lastGen'[t] < sent)
      BY <3>1, <3>3 DEF DataInv, TypeOK
    <3>5. NeverAhead'
      BY <3>1, <3>2, <3>3 DEF DataInv, NeverAhead, TypeOK
    <3> QED BY <3>2, <3>4, <3>5 DEF DataInv, RingHoldsLatest
  <2>2. CASE Unsubscribe(s)
    <3>1. UNCHANGED <<slots, generation, dataValid, sent, got>>
      BY <2>2 DEF Unsubscribe, nodeVars
    <3>2. spc' = [spc EXCEPT ![s] = "none"] /\ lastGen' = [lastGen EXCEPT ![s] = 0]
      BY <2>2 DEF Unsubscribe
    <3> QED BY <3>1, <3>2 DEF DataInv, RingHoldsLatest, NeverAhead, TypeOK
  <2>3. CASE \/ Register(s) \/ Unregister(s) \/ UpdateBlocking(s) \/ Check(s)
             \/ Take(s) \/ Timeout(s) \/ Recheck(s) \/ RunWork(s) \/ Elapse(s)
    <3>1. UNCHANGED <<slots, generation, dataValid, sent, lastGen, got>>
      BY <2>3 DEF Register, Unregister, UpdateBlocking, Check, Take, Timeout, Recheck,
                  RunWork, Elapse, nodeVars
    <3>2. \A t \in Subscribers :
              /\ spc'[t] # "none" => spc[t] # "none"
              /\ spc'[t] = "copy" => spc[t] = "copy" \/ lastGen[t] < sent
      BY <2>0, <2>3 DEF Register, Unregister, UpdateBlocking, Check, Take, Timeout, Recheck,
                  RunWork, Elapse, TypeOK
    <3> QED BY <3>1, <3>2, OtherStepsKeep
  <2>4. CASE CopyUpdate(s)
    <3>1. spc' = [spc EXCEPT ![s] = IF s \in Blocking THEN "idle" ELSE "check"]
      BY <2>4 DEF CopyUpdate
    <3>2. /\ CopyData(s) /\ UNCHANGED <<nodeVars, sent>> /\ spc[s] # "none"
          /\ spc'[s] # "copy" /\ \A t \in Subscribers : t # s => spc'[t] = spc[t]
      BY <2>4, <3>1 DEF CopyUpdate, TypeOK
    <3> QED BY <3>2, CopyDataKeeps
  <2>5. CASE Poll(s)
    <3>1. /\ CopyData(s) /\ UNCHANGED <<nodeVars, sent>> /\ spc[s] # "none"
          /\ spc'[s] # "copy" /\ \A t \in Subscribers : t # s => spc'[t] = spc[t]
      BY <2>5 DEF Poll
    <3> QED BY <3>1, CopyDataKeeps
  <2> QED BY <1>2, <2>1, <2>2, <2>3, <2>4, <2>5 DEF SubscriberStep
<1>3. CASE UNCHANGED vars
  BY <1>3, OtherStepsKeep DEF vars, nodeVars, subVars
<1> QED BY <1>1, <1>2, <1>3 DEF Next

(* Without wrap-around the ring always holds the last QueueSize messages    *)
(* and no subscriber runs ahead of the node (DeviceNode::publish, copy).    *)
THEOREM DataCorrect ==
    ASSUME NoWrap PROVE Spec => [](RingHoldsLatest /\ NeverAhead)
<1>1. Init => DataInv
  BY DataInit
<1>2. TypeOK /\ DataInv /\ [Next]_vars => DataInv'
  BY DataStep
<1>3. DataInv => RingHoldsLatest /\ NeverAhead
  BY DEF DataInv
<1> QED BY <1>1, <1>2, <1>3, TypeCorrect, PTL DEF Spec
-----------------------------------------------------------------------------
(* Only the copy of s itself takes s out of "copy".                         *)
LEMMA OnlyCopyLeavesCopy ==
    ASSUME TypeOK, [Next]_vars, NEW s \in Subscribers,
           spc[s] = "copy", spc'[s] # "copy"
    PROVE  CopyUpdate(s)
<1>1. spc' # spc
  OBVIOUS
<1>2. PICK t \in Subscribers : SubscriberStep(t)
  <2>1. ASSUME NEW p \in Publishers, PublisherStep(p) PROVE spc' = spc
    BY <2>1 DEF PublisherStep, Advertise, AdvertiseWithData, Publish, Store, StoreInto,
                Iterate, Call, subVars
  <2> QED BY <1>1, <2>1 DEF Next, vars, subVars
<1>3. ~(Register(t) \/ Unregister(t) \/ Poll(t) \/ Elapse(t))
  BY <1>1 DEF Register, Unregister, Poll, Elapse
<1>4. \A u \in Subscribers : u # t => spc'[u] = spc[u]
  BY <1>2, <1>3 DEF SubscriberStep, Subscribe, Unsubscribe, UpdateBlocking, Check, Take,
                    Timeout, Recheck, RunWork, CopyUpdate, TypeOK
<1>5. t = s
  BY <1>4
<1> QED BY <1>2, <1>3, <1>5
     DEF SubscriberStep, Subscribe, Unsubscribe, UpdateBlocking, Check, Take,
         Timeout, Recheck, RunWork

(* After updated() a copy delivers a message that is new to the subscriber  *)
(* and among the last QueueSize published (DeviceNode::copy), for every     *)
(* interleaving with the publishers.                                        *)
THEOREM FreshUpdates ==
    ASSUME NoWrap PROVE Spec => UpdateDeliversFresh
<1>1. ASSUME TypeOK, DataInv, [Next]_vars, NEW s \in Subscribers,
             spc[s] = "copy", spc'[s] # "copy"
      PROVE  got'[s] > got[s] /\ got'[s] > sent - QueueSize /\ got'[s] <= sent
  <2>1. CopyUpdate(s)
    BY <1>1, OnlyCopyLeavesCopy
  <2> DEFINE c == CopiedGeneration(lastGen[s])
  <2>2. lastGen[s] < sent /\ got[s] <= lastGen[s]
    BY <1>1 DEF DataInv, NeverAhead
  <2>3. c \in Nat /\ c >= lastGen[s] /\ slots[c % QueueSize] = c + 1
        /\ c < sent /\ c >= sent - QueueSize
    BY <1>1, <2>2, CopiedMessage
  <2>4. got'[s] = slots[c % QueueSize]
    BY <1>1, <2>1 DEF CopyUpdate, CopyData, CopyFrom, TypeOK
  <2> HIDE DEF c
  <2> QED BY <1>1, <2>2, <2>3, <2>4, NodeAssumption DEF TypeOK
<1>2. TypeOK /\ DataInv /\ [Next]_vars =>
        [\A s \in Subscribers : spc[s] = "copy" /\ spc'[s] # "copy" =>
          got'[s] > got[s] /\ got'[s] > sent - QueueSize /\ got'[s] <= sent]_vars
  BY <1>1
<1>3. Init => DataInv
  BY DataInit
<1>4. TypeOK /\ DataInv /\ [Next]_vars => DataInv'
  BY DataStep
<1> QED BY <1>2, <1>3, <1>4, TypeCorrect, PTL DEF Spec, UpdateDeliversFresh

-----------------------------------------------------------------------------
(* A copy from a node with one slot is a receive of the promised topic.     *)
LEMMA CopyReceives ==
    ASSUME NoWrap, QueueSize = 1, TypeOK, DataInv, NEW s \in Subscribers,
           CopyData(s), UNCHANGED sent
    PROVE  Promised!Receive(s)
<1> USE NodeAssumption
<1>1. sent \in Nat /\ sent > 0 /\ lastGen[s] \in Nat /\ lastGen[s] <= sent
  BY DEF CopyData, CopyFrom, DataInv, TypeOK
<1>2. Promised!Due(s) = sent
  BY <1>1 DEF Promised!Due
<1>3. slots[0] = sent
  <2>1. sent \in 1..sent /\ sent > sent - QueueSize /\ (sent - 1) % 1 = 0
    BY <1>1
  <2> QED BY <2>1 DEF DataInv, RingHoldsLatest
<1>4. CopiedGeneration(lastGen[s]) % QueueSize = 0
  <2>1. CopiedGeneration(lastGen[s]) \in Nat
    BY CopiedMessage
  <2> QED BY <2>1
<1>5. got' = [got EXCEPT ![s] = sent] /\ lastGen' = [lastGen EXCEPT ![s] = sent]
  BY <1>3, <1>4 DEF CopyData, CopyFrom, DataInv
<1> QED BY <1>1, <1>2, <1>5 DEF Promised!Receive

(* A topic of queue size 1, the size of every topic that does not set       *)
(* ORB_QUEUE_LENGTH, behaves as its subscribers are promised: each copy     *)
(* returns the latest message published.                                    *)
THEOREM QueueOfOneImplementsTopic ==
    ASSUME NoWrap, QueueSize = 1 PROVE Spec => ImplementsTopic
<1>1. Init => Promised!TopicInit
  BY DEF Init, Promised!TopicInit
<1>2. ASSUME TypeOK, DataInv, [Next]_vars
      PROVE  [Promised!TopicNext]_(Promised!topicVars)
  <2>0. SUFFICES ASSUME ~UNCHANGED <<sent, lastGen, got>> PROVE Promised!TopicNext
    BY DEF Promised!topicVars
  <2>1. ASSUME NEW p \in Publishers, PublisherStep(p) PROVE Promised!Send
    <3>1. ~(Advertise(p) \/ Iterate(p) \/ Call(p))
      BY <2>0 DEF Advertise, Iterate, Call, subVars
    <3>2. Store(p)
      BY <2>1, <3>1 DEF PublisherStep, AdvertiseWithData, Publish
    <3> QED BY <3>2 DEF Store, StoreInto, subVars, Promised!Send
  <2>2. ASSUME NEW s \in Subscribers, SubscriberStep(s)
        PROVE  Promised!Join(s) \/ Promised!Leave(s) \/ Promised!Receive(s)
    <3>1. ~(\/ Register(s) \/ Unregister(s) \/ UpdateBlocking(s) \/ Check(s)
            \/ Take(s) \/ Timeout(s) \/ Recheck(s) \/ RunWork(s) \/ Elapse(s))
      BY <2>0 DEF Register, Unregister, UpdateBlocking, Check, Take, Timeout,
                  Recheck, RunWork, Elapse
    <3>2. CASE Subscribe(s)
      <4>1. InitialGeneration = IF sent > 0 THEN sent - 1 ELSE 0
        BY <1>2 DEF InitialGeneration, DataInv, TypeOK
      <4> QED BY <3>2, <4>1 DEF Subscribe, Promised!Join
    <3>3. CASE Unsubscribe(s)
      BY <3>3 DEF Unsubscribe, Promised!Leave
    <3>4. CASE CopyUpdate(s) \/ Poll(s)
      BY <1>2, <3>4, CopyReceives DEF CopyUpdate, Poll
    <3> QED BY <2>2, <3>1, <3>2, <3>3, <3>4 DEF SubscriberStep
  <2>3. ~UNCHANGED vars
    BY <2>0 DEF vars, subVars
  <2> QED BY <1>2, <2>1, <2>2, <2>3 DEF Next, Promised!TopicNext
<1>3. TypeOK /\ DataInv /\ [Next]_vars => [Promised!TopicNext]_(Promised!topicVars)
  BY <1>2
<1>4. Init => DataInv
  BY DataInit
<1>5. TypeOK /\ DataInv /\ [Next]_vars => DataInv'
  BY DataStep
<1> QED BY <1>1, <1>3, <1>4, <1>5, TypeCorrect, PTL
     DEF Spec, ImplementsTopic, Promised!TopicSpec
-----------------------------------------------------------------------------
(* The callback list.                                                       *)
LEMMA ChainAt ==
    ASSUME callbacks \in Seq(Subscribers)
    PROVE  Chain[1] = ListHead /\ \A i \in 1..Len(callbacks) : Chain[i + 1] = callbacks[i]
  BY DEF Chain

LEMMA ChainAtPrime ==
    ASSUME callbacks' \in Seq(Subscribers)
    PROVE  Chain'[1] = ListHead /\ \A i \in 1..Len(callbacks') : Chain'[i + 1] = callbacks'[i]
  BY DEF Chain

(* No position of the chain is met twice: the list head is no subscriber.   *)
LEMMA ChainInjective ==
    ASSUME TypeOK, ListInv, NEW i \in 1..Len(callbacks) + 1,
           NEW j \in 1..Len(callbacks) + 1, Chain[i] = Chain[j]
    PROVE  i = j
<1>1. Len(callbacks) \in Nat /\ \A k \in 1..Len(callbacks) : callbacks[k] \in Subscribers
  BY DEF TypeOK
<1>2. Chain[1] = ListHead /\ \A k \in 1..Len(callbacks) : Chain[k + 1] = callbacks[k]
  BY ChainAt DEF TypeOK
<1>3. \A k \in 1..Len(callbacks) + 1 :
         k # 1 => k - 1 \in 1..Len(callbacks) /\ Chain[k] = callbacks[k - 1]
  BY <1>1, <1>2
<1>4. CASE i = 1 \/ j = 1
  BY <1>1, <1>2, <1>3, <1>4, NodeAssumption
<1>5. CASE i # 1 /\ j # 1
  <2>1. i - 1 = j - 1
    BY <1>3, <1>5 DEF ListInv
  <2> QED BY <2>1, <1>1
<1> QED BY <1>4, <1>5

(* Advancing the iterator loses none of the calls that were still coming.   *)
LEMMA IterateKeeps ==
    ASSUME TypeOK, ListInv, NEW p \in Publishers, NEW t \in Subscribers,
           Iterate(p), Coming(p, t)
    PROVE  Coming(p, t)'
<1>1. PICK i, j \in 1..Len(callbacks) + 1 :
         i < j /\ Chain[i] = cursor[p] /\ Chain[j] = t
  BY DEF Coming, Iterate
<1>2. Len(callbacks) \in Nat /\ i \in 1..Len(callbacks) /\ i + 1 \in 1..Len(callbacks) + 1
  BY <1>1 DEF TypeOK
<1>3. Sibling(cursor[p]) = callbacks[i]
  <2> DEFINE k == CHOOSE k \in 1..Len(callbacks) : Chain[k] = cursor[p]
  <2>1. k \in 1..Len(callbacks) /\ Chain[k] = cursor[p]
    BY <1>1, <1>2
  <2>2. Sibling(cursor[p]) = callbacks[k]
    BY <1>1, <1>2 DEF Sibling
  <2> HIDE DEF k
  <2>3. k \in 1..Len(callbacks) + 1
    BY <2>1, <1>2
  <2>4. k = i
    BY <1>1, <2>1, <2>3, ChainInjective
  <2> QED BY <2>2, <2>4
<1>4. Chain[i + 1] = callbacks[i] /\ callbacks[i] \in Subscribers
  <2>1. callbacks \in Seq(Subscribers)
    BY DEF TypeOK
  <2>2. Chain[i + 1] = callbacks[i]
    BY <1>2, <2>1, ChainAt
  <2> QED BY <1>2, <2>1, <2>2
<1>5. cursor'[p] = callbacks[i] /\ ppc'[p] = "call" /\ callbacks' = callbacks
  BY <1>3, <1>4, NodeAssumption DEF Iterate, TypeOK
<1>6. Chain' = Chain
  BY <1>5 DEF Chain
<1>7. CASE j = i + 1
  BY <1>1, <1>4, <1>5, <1>7 DEF Coming
<1>8. CASE j # i + 1
  <2>1. i + 1 < j
    BY <1>1, <1>2, <1>8
  <2> QED BY <1>1, <1>2, <1>4, <1>5, <1>6, <2>1 DEF Coming
<1> QED BY <1>7, <1>8

(* Registering at the tail leaves the calls that are coming in place.       *)
LEMMA AppendKeeps ==
    ASSUME TypeOK, NEW p \in Publishers, NEW t \in Subscribers, NEW s \in Subscribers,
           callbacks' = Append(callbacks, s), UNCHANGED pubVars, Coming(p, t)
    PROVE  Coming(p, t)'
<1>1. CASE ppc[p] = "call" /\ cursor[p] = t
  BY <1>1 DEF Coming, pubVars
<1>2. CASE ~(ppc[p] = "call" /\ cursor[p] = t)
  <2>1. PICK i, j \in 1..Len(callbacks) + 1 :
           i < j /\ Chain[i] = cursor[p] /\ Chain[j] = t
    BY <1>2 DEF Coming
  <2>2. callbacks' \in Seq(Subscribers) /\ Len(callbacks) \in Nat
        /\ Len(callbacks') = Len(callbacks) + 1
        /\ \A k \in 1..Len(callbacks) : callbacks'[k] = callbacks[k]
    BY DEF TypeOK
  <2>3. \A k \in 1..Len(callbacks) + 1 : Chain'[k] = Chain[k]
    <3> TAKE k \in 1..Len(callbacks) + 1
    <3>1. CASE k = 1
      BY <2>2, <3>1, ChainAt, ChainAtPrime DEF TypeOK
    <3>2. CASE k # 1
      <4>1. k - 1 \in 1..Len(callbacks) /\ k - 1 \in 1..Len(callbacks') /\ (k - 1) + 1 = k
        BY <2>2, <3>2
      <4>2. Chain[k] = callbacks[k - 1]
        BY <4>1, ChainAt DEF TypeOK
      <4>3. Chain'[k] = callbacks'[k - 1]
        BY <4>1, <2>2, ChainAtPrime
      <4> QED BY <2>2, <4>1, <4>2, <4>3
    <3> QED BY <3>1, <3>2
  <2> QED BY <1>2, <2>1, <2>2, <2>3 DEF Coming, pubVars
<1> QED BY <1>1, <1>2

(* What List::remove leaves: the other callbacks, in the same order.        *)
LEMMA WithoutAt ==
    ASSUME callbacks \in Seq(Subscribers), NEW u, InList(u)
    PROVE  \E k \in 1..Len(callbacks) :
             /\ callbacks[k] = u
             /\ Len(Without(u)) = Len(callbacks) - 1
             /\ \A i \in 1..Len(callbacks) - 1 :
                  Without(u)[i] = IF i < k THEN callbacks[i] ELSE callbacks[i + 1]
<1> DEFINE k == CHOOSE i \in 1..Len(callbacks) : callbacks[i] = u
           W == [i \in 1..Len(callbacks) - 1 |->
                   IF i < k THEN callbacks[i] ELSE callbacks[i + 1]]
<1>1. k \in 1..Len(callbacks) /\ callbacks[k] = u
  BY DEF InList
<1>2. Without(u) = W
  BY DEF Without
<1> HIDE DEF k
<1>3. Len(callbacks) - 1 \in Nat
  BY <1>1
<1>4. Len(W) = Len(callbacks) - 1
  BY <1>3
<1> QED BY <1>1, <1>2, <1>4

(* Removing another callback keeps the calls of every walk that does not    *)
(* stand on the removed one.                                                *)
LEMMA RemoveKeeps ==
    ASSUME TypeOK, NEW p \in Publishers, NEW t \in Subscribers, NEW u \in Subscribers,
           InList(u), callbacks' = Without(u), UNCHANGED pubVars,
           t # u, cursor[p] # u, Coming(p, t)
    PROVE  Coming(p, t)'
<1>1. CASE ppc[p] = "call" /\ cursor[p] = t
  BY <1>1 DEF Coming, pubVars
<1>2. CASE ~(ppc[p] = "call" /\ cursor[p] = t)
  <2>1. PICK i, j \in 1..Len(callbacks) + 1 :
           i < j /\ Chain[i] = cursor[p] /\ Chain[j] = t
    BY <1>2 DEF Coming
  <2>2. PICK k \in 1..Len(callbacks) :
             /\ callbacks[k] = u
             /\ Len(callbacks') = Len(callbacks) - 1
             /\ \A n \in 1..Len(callbacks) - 1 :
                  callbacks'[n] = IF n < k THEN callbacks[n] ELSE callbacks[n + 1]
    BY WithoutAt DEF TypeOK
  <2>3. callbacks' \in Seq(Subscribers) /\ Len(callbacks) \in Nat \ {0}
    BY <2>2, WithoutType DEF TypeOK
  <2> DEFINE pos(n) == IF n <= k THEN n ELSE n - 1
  <2>4. \A n \in 1..Len(callbacks) + 1 :
          n # k + 1 => pos(n) \in 1..Len(callbacks') + 1 /\ Chain'[pos(n)] = Chain[n]
    <3> SUFFICES ASSUME NEW n \in 1..Len(callbacks) + 1, n # k + 1
                 PROVE  pos(n) \in 1..Len(callbacks') + 1 /\ Chain'[pos(n)] = Chain[n]
      OBVIOUS
    <3>0. pos(n) \in 1..Len(callbacks') + 1
      BY <2>2, <2>3
    <3>1. CASE n = 1
      <4>1. pos(n) = 1
        BY <3>1
      <4>2. Chain'[1] = ListHead
        BY <2>3, ChainAtPrime
      <4>3. Chain[1] = ListHead
        BY ChainAt DEF TypeOK
      <4> QED BY <3>0, <3>1, <4>1, <4>2, <4>3
    <3>2. CASE n # 1
      <4>1. n - 1 \in 1..Len(callbacks) /\ (n - 1) + 1 = n
        BY <2>3, <3>2
      <4>2. Chain[n] = callbacks[n - 1]
        BY <4>1, ChainAt DEF TypeOK
      <4>3. pos(n) - 1 \in 1..Len(callbacks') /\ (pos(n) - 1) + 1 = pos(n)
        BY <2>2, <2>3, <3>2
      <4>4. Chain'[pos(n)] = callbacks'[pos(n) - 1]
        BY <2>3, <4>3, ChainAtPrime
      <4>5. callbacks'[pos(n) - 1] = callbacks[n - 1]
        <5>1. CASE n <= k
          <6>1. pos(n) - 1 = n - 1 /\ n - 1 < k
            BY <2>3, <5>1
          <6> QED BY <2>2, <2>3, <4>3, <6>1
        <5>2. CASE ~(n <= k)
          <6>1. pos(n) - 1 = n - 2 /\ ~(n - 2 < k) /\ (n - 2) + 1 = n - 1
            BY <2>3, <5>2
          <6> QED BY <2>2, <2>3, <4>3, <6>1
        <5> QED BY <5>1, <5>2
      <4> QED BY <3>0, <4>2, <4>4, <4>5
    <3> QED BY <3>1, <3>2
  <2>5. Chain[k + 1] = u
    BY <2>2, ChainAt DEF TypeOK
  <2>6. i # k + 1 /\ j # k + 1
    BY <2>1, <2>5
  <2>7. pos(i) < pos(j)
    BY <2>1, <2>2, <2>3, <2>6
  <2>8. pos(i) \in 1..Len(callbacks') + 1 /\ pos(j) \in 1..Len(callbacks') + 1
        /\ Chain'[pos(i)] = cursor[p] /\ Chain'[pos(j)] = t
    BY <2>1, <2>4, <2>6
  <2> HIDE DEF pos
  <2> QED BY <1>2, <2>1, <2>7, <2>8 DEF Coming, pubVars
<1> QED BY <1>1, <1>2

LEMMA ListInit == Init => ListInv
  BY DEF Init, ListInv, InList

LEMMA EnlistKeeps ==
    ASSUME TypeOK, ListInv, NEW s \in Subscribers, Enlist(s), spc[s] # "none",
           \A t \in Subscribers : spc'[t] = "none" => spc[t] = "none" /\ t # s
    PROVE  ListInv'
<1>1. CASE InList(s)
  <2>1. callbacks' = callbacks
    BY <1>1 DEF Enlist
  <2>2. registered[s] /\ registered' = [registered EXCEPT ![s] = TRUE]
    BY <1>1 DEF Enlist, ListInv
  <2>3. \A t \in Subscribers : registered'[t] <=> registered[t]
    BY <2>2, Zenon DEF TypeOK
  <2> QED BY <2>1, <2>3 DEF ListInv, InList
<1>2. CASE ~InList(s)
  <2>1. callbacks' = Append(callbacks, s) /\ registered' = [registered EXCEPT ![s] = TRUE]
    BY <1>2 DEF Enlist, ListInv
  <2>2. Len(callbacks) \in Nat /\ Len(callbacks') = Len(callbacks) + 1
        /\ callbacks'[Len(callbacks) + 1] = s
        /\ \A k \in 1..Len(callbacks) : callbacks'[k] = callbacks[k]
    BY <2>1 DEF TypeOK
  <2>3. \A i, j \in 1..Len(callbacks') : callbacks'[i] = callbacks'[j] => i = j
    BY <1>2, <2>2 DEF ListInv, InList
  <2>4. \A t \in Subscribers : InList(t)' <=> InList(t) \/ t = s
    BY <2>2 DEF InList
  <2>5. \A t \in Subscribers : registered'[t] <=> registered[t] \/ t = s
    BY <2>1, Zenon DEF TypeOK
  <2> QED BY <2>3, <2>4, <2>5 DEF ListInv
<1> QED BY <1>1, <1>2

LEMMA UnregisterKeeps ==
    ASSUME TypeOK, ListInv, NEW s \in Subscribers, Unregister(s)
    PROVE  ListInv'
<1>1. InList(s)
  BY DEF ListInv, Unregister
<1>2. PICK k \in 1..Len(callbacks) :
             /\ callbacks[k] = s
             /\ Len(callbacks') = Len(callbacks) - 1
             /\ \A n \in 1..Len(callbacks) - 1 :
                  callbacks'[n] = IF n < k THEN callbacks[n] ELSE callbacks[n + 1]
  <2>1. callbacks' = Without(s) /\ callbacks \in Seq(Subscribers)
    BY DEF TypeOK, Unregister
  <2> QED BY <1>1, <2>1, WithoutAt
<1>3. Len(callbacks) \in Nat \ {0}
  BY <1>2 DEF TypeOK
<1>4. \A i, j \in 1..Len(callbacks') : callbacks'[i] = callbacks'[j] => i = j
  BY <1>2, <1>3 DEF ListInv
<1>5. \A t \in Subscribers : InList(t)' <=> InList(t) /\ t # s
  <2> SUFFICES ASSUME NEW t \in Subscribers PROVE InList(t)' <=> InList(t) /\ t # s
    OBVIOUS
  <2>1. ASSUME InList(t)' PROVE InList(t) /\ t # s
    <3>1. PICK i \in 1..Len(callbacks') : callbacks'[i] = t
      BY <2>1 DEF InList
    <3> DEFINE m == IF i < k THEN i ELSE i + 1
    <3>2. m \in 1..Len(callbacks) /\ callbacks[m] = t /\ m # k
      BY <1>2, <1>3, <3>1
    <3> HIDE DEF m
    <3> QED BY <1>2, <3>2 DEF InList, ListInv
  <2>2. ASSUME InList(t), t # s PROVE InList(t)'
    <3>1. PICK i \in 1..Len(callbacks) : callbacks[i] = t
      BY <2>2 DEF InList
    <3> DEFINE m == IF i < k THEN i ELSE i - 1
    <3>2. m \in 1..Len(callbacks') /\ callbacks'[m] = t
      BY <1>2, <1>3, <2>2, <3>1
    <3> HIDE DEF m
    <3> QED BY <3>2 DEF InList
  <2> QED BY <2>1, <2>2
<1>6. \A t \in Subscribers : registered'[t] <=> registered[t] /\ t # s
  BY Zenon DEF Unregister, TypeOK
<1>7. \A t \in Subscribers : spc'[t] = spc[t]
  BY DEF Unregister
<1> QED BY <1>4, <1>5, <1>6, <1>7 DEF ListInv

LEMMA ListStep == TypeOK /\ ListInv /\ [Next]_vars => ListInv'
<1> SUFFICES ASSUME TypeOK, ListInv, [Next]_vars PROVE ListInv'
  OBVIOUS
<1>0. ASSUME UNCHANGED <<callbacks, registered>>,
             \A t \in Subscribers : spc'[t] = "none" => spc[t] = "none" \/ ~registered[t]
      PROVE  ListInv'
  BY <1>0 DEF ListInv, InList
<1>1. ASSUME NEW p \in Publishers, PublisherStep(p) PROVE ListInv'
  <2>1. UNCHANGED <<callbacks, registered, spc>>
    BY <1>1 DEF PublisherStep, Advertise, AdvertiseWithData, Publish, Store, StoreInto,
                Iterate, Call, subVars, nodeVars
  <2> QED BY <2>1, <1>0
<1>2. ASSUME NEW s \in Subscribers, SubscriberStep(s) PROVE ListInv'
  <2>1. CASE Register(s)
    BY <2>1, EnlistKeeps DEF Register
  <2>2. CASE UpdateBlocking(s)
    BY <2>2, EnlistKeeps DEF UpdateBlocking, TypeOK
  <2>3. CASE Unregister(s)
    BY <2>3, UnregisterKeeps
  <2>4. CASE \/ Subscribe(s) \/ Unsubscribe(s) \/ Check(s) \/ Take(s) \/ Timeout(s)
             \/ Recheck(s) \/ RunWork(s) \/ CopyUpdate(s) \/ Poll(s) \/ Elapse(s)
    <3>1. UNCHANGED <<callbacks, registered>>
      BY <2>4 DEF Subscribe, Unsubscribe, Check, Take, Timeout, Recheck, RunWork,
                  CopyUpdate, Poll, Elapse, nodeVars
    <3>2. \A t \in Subscribers : spc'[t] = "none" => spc[t] = "none" \/ ~registered[t]
      BY <2>4 DEF Subscribe, Unsubscribe, Check, Take, Timeout, Recheck, RunWork,
                  CopyUpdate, Poll, Elapse, TypeOK
    <3> QED BY <3>1, <3>2, <1>0
  <2> QED BY <1>2, <2>1, <2>2, <2>3, <2>4 DEF SubscriberStep
<1>3. CASE UNCHANGED vars
  BY <1>3, <1>0 DEF vars, nodeVars, subVars
<1> QED BY <1>1, <1>2, <1>3 DEF Next

(* A test for an update that fails although a message waits is accounted    *)
(* for: SubscriptionInterval::updated has no other way to say no.           *)
LEMMA ObstaclesExplain ==
    ASSUME TypeOK, NEW s \in Subscribers, UpdatesAvailable(s) > 0, ~Updated(s)
    PROVE  Obstacles(s) # {}
<1>1. CASE ~due[s]
  <2>1. "interval" \in Obstacles(s)
    BY <1>1 DEF Obstacles
  <2> QED BY <2>1
<1>2. CASE ~advertised
  <2>1. "advertise" \in Obstacles(s)
    BY <1>2 DEF Obstacles
  <2> QED BY <2>1
<1> QED BY <1>1, <1>2 DEF Updated

LEMMA WakeInit == Init => NoLostWakeup
  BY DEF Init, NoLostWakeup, Neglected, Asleep

(* A subscriber that was neglected before the step and whose coming call    *)
(* survives it is no exception to NoLostWakeup after the step.              *)
LEMMA WakeStep ==
    TypeOK /\ ListInv /\ NoLostWakeup /\ [Next]_vars => NoLostWakeup'
<1> SUFFICES ASSUME TypeOK, ListInv, NoLostWakeup, [Next]_vars,
                    NEW t \in Subscribers, Neglected(t)'
             PROVE  (\E q \in Publishers : Coming(q, t))'
  BY DEF NoLostWakeup
<1>0. ASSUME Neglected(t) PROVE \E q \in Publishers : Coming(q, t)
  BY <1>0 DEF NoLostWakeup
<1>a. ASSUME UNCHANGED <<callbacks, pubVars>>, Neglected(t)
      PROVE  (\E q \in Publishers : Coming(q, t))'
  BY <1>a, <1>0 DEF Coming, Chain, pubVars
<1>1. ASSUME NEW p \in Publishers, PublisherStep(p)
      PROVE  (\E q \in Publishers : Coming(q, t))'
  <2>1. CASE Advertise(p)
    <3>1. Neglected(t)
      BY <2>1 DEF Advertise, Neglected, Asleep, UpdatesAvailable, subVars
    <3>2. PICK q \in Publishers : Coming(q, t)
      BY <3>1, <1>0
    <3>3. q # p /\ ppc'[q] = ppc[q] /\ cursor' = cursor /\ Chain' = Chain
          /\ callbacks' = callbacks
      BY <2>1, <3>2 DEF Advertise, Coming, Chain, TypeOK
    <3> QED BY <3>2, <3>3 DEF Coming
  <2>2. CASE Store(p)
    <3>1. InList(t) /\ Len(callbacks) \in Nat
      BY <2>2 DEF Store, StoreInto, Neglected, Asleep, subVars, ListInv, TypeOK
    <3>2. PICK i \in 1..Len(callbacks) : callbacks[i] = t
      BY <3>1 DEF InList
    <3>3. Chain[1] = ListHead /\ Chain[i + 1] = t
      BY <3>2, ChainAt DEF TypeOK
    <3>4. Chain' = Chain /\ callbacks' = callbacks /\ ppc'[p] = "next" /\ cursor'[p] = ListHead
      BY <2>2 DEF Store, StoreInto, Chain, TypeOK
    <3>5. 1 \in 1..Len(callbacks) + 1 /\ i + 1 \in 1..Len(callbacks) + 1 /\ 1 < i + 1
      BY <3>1, <3>2
    <3>6. Coming(p, t)'
      BY <3>3, <3>4, <3>5 DEF Coming
    <3> QED BY <3>6
  <2>3. CASE Iterate(p)
    <3>1. Neglected(t)
      BY <2>3 DEF Iterate, Neglected, Asleep, UpdatesAvailable, subVars
    <3>2. PICK q \in Publishers : Coming(q, t)
      BY <3>1, <1>0
    <3>3. CASE q = p
      BY <2>3, <3>2, <3>3, IterateKeeps
    <3>4. CASE q # p
      <4>1. ppc'[q] = ppc[q] /\ cursor'[q] = cursor[q] /\ Chain' = Chain /\ callbacks' = callbacks
        BY <2>3, <3>4 DEF Iterate, Chain, TypeOK
      <4> QED BY <3>2, <4>1 DEF Coming
    <3> QED BY <3>3, <3>4
  <2>4. CASE Call(p)
    <3> DEFINE s == cursor[p]
    <3>1. s \in Subscribers /\ ppc[p] = "call" /\ ppc' = [ppc EXCEPT ![p] = "next"]
          /\ UNCHANGED <<cursor, callbacks, Chain>>
      BY <2>4 DEF Call, TypeOK, nodeVars, Chain
    <3>2. UpdatesAvailable(t)' = UpdatesAvailable(t) /\ (Asleep(t)' /\ ~token[t] => Asleep(t))
      BY <2>4 DEF Call, UpdatesAvailable, Asleep, nodeVars
    <3>3. t # s
      <4> SUFFICES ASSUME t = s PROVE FALSE
        OBVIOUS
      <4>1. ~Fires(t) /\ lost'[t] = lost[t] \cup Obstacles(t)
        <5>1. token'[t] = (token[t] \/ Fires(t))
          BY <2>4, Zenon DEF Call, TypeOK
        <5>2. ~token'[t]
          BY DEF Neglected, Asleep
        <5>3. ~Fires(t)
          BY <5>1, <5>2
        <5> QED BY <2>4, <5>3 DEF Call, TypeOK
      <4>2. Obstacles(t) = {} /\ UpdatesAvailable(t) > 0
        BY <3>2, <4>1 DEF Neglected
      <4>3. ~Updated(t)
        BY <4>1 DEF Fires, Updated
      <4> QED BY <4>2, <4>3, ObstaclesExplain
    <3>4. token'[t] = token[t] /\ lost'[t] = lost[t]
      BY <2>4, <3>3, Zenon DEF Call, TypeOK
    <3>5. Neglected(t)
      BY <3>2, <3>4 DEF Neglected, Asleep
    <3>6. PICK q \in Publishers : Coming(q, t)
      BY <3>5, <1>0
    <3>7. ppc'[q] \in {"next", "call"} /\ (q = p \/ ppc'[q] = ppc[q])
      BY <3>1, <3>6 DEF Coming, TypeOK
    <3>8. Coming(q, t)'
      BY <3>1, <3>3, <3>6, <3>7 DEF Coming
    <3> QED BY <3>8
  <2> QED BY <1>1, <2>1, <2>2, <2>3, <2>4 DEF PublisherStep, AdvertiseWithData, Publish
<1>2. ASSUME NEW s \in Subscribers, SubscriberStep(s)
      PROVE  (\E q \in Publishers : Coming(q, t))'
  <2>1. CASE Subscribe(s)
    <3>1. t # s
      BY <2>1 DEF Subscribe, ListInv, Neglected, Asleep
    <3>2. Neglected(t)
      BY <2>1, <3>1 DEF Subscribe, Neglected, Asleep, UpdatesAvailable, nodeVars, TypeOK
    <3> QED BY <2>1, <3>2, <1>a DEF Subscribe, nodeVars
  <2>2. CASE Unsubscribe(s)
    <3>1. t # s
      BY <2>2 DEF Unsubscribe, TypeOK, Neglected, Asleep
    <3>2. Neglected(t)
      BY <2>2, <3>1 DEF Unsubscribe, Neglected, Asleep, UpdatesAvailable, nodeVars, TypeOK
    <3> QED BY <2>2, <3>2, <1>a DEF Unsubscribe, nodeVars
  <2>3. CASE Register(s) \/ UpdateBlocking(s)
    <3>1. t # s
      <4>1. CASE Register(s)
        <5>1. UpdatesAvailable(t)' = UpdatesAvailable(t) /\ UpdatesAvailable(t) > 0
          BY <4>1 DEF Register, Neglected, UpdatesAvailable
        <5>2. t = s => lost'[t] = {"late"}
          BY <4>1, <5>1 DEF Register, TypeOK
        <5> QED BY <5>2 DEF Neglected
      <4>2. CASE UpdateBlocking(s)
        BY <4>2 DEF UpdateBlocking, Neglected, Asleep, TypeOK
      <4> QED BY <2>3, <4>1, <4>2
    <3>2. Neglected(t)
      BY <2>3, <3>1 DEF Register, UpdateBlocking, Enlist, Neglected, Asleep, UpdatesAvailable, TypeOK
    <3>3. callbacks' = callbacks \/ callbacks' = Append(callbacks, s)
      BY <2>3 DEF Register, UpdateBlocking, Enlist
    <3>4. UNCHANGED pubVars
      BY <2>3 DEF Register, UpdateBlocking
    <3> QED BY <3>2, <3>3, <3>4, <1>0, <1>a, AppendKeeps
  <2>4. CASE Unregister(s)
    <3>1. t # s
      BY <2>4 DEF Unregister, Neglected, Asleep, TypeOK
    <3>2. Neglected(t) /\ ~\E q \in Publishers : cursor[q] = s /\ Coming(q, t)
      BY <2>4, <3>1 DEF Unregister, Neglected, Asleep, UpdatesAvailable, TypeOK
    <3>3. PICK q \in Publishers : Coming(q, t) /\ cursor[q] # s
      BY <3>2, <1>0
    <3>4. InList(s) /\ callbacks' = Without(s) /\ UNCHANGED pubVars
      BY <2>4 DEF Unregister, ListInv
    <3> QED BY <3>1, <3>3, <3>4, RemoveKeeps
  <2>5. CASE Check(s) \/ Recheck(s)
    <3>1. UNCHANGED <<callbacks, pubVars, generation, lastGen, registered, token>>
      BY <2>5 DEF Check, Recheck, nodeVars
    <3>2. t # s
      <4> SUFFICES ASSUME t = s PROVE FALSE
        OBVIOUS
      <4>1. ~Updated(t)
        BY <2>5 DEF Check, Recheck, Neglected, Asleep, TypeOK
      <4>2. Obstacles(t) = {} /\ UpdatesAvailable(t) > 0
        BY <2>5, <3>1 DEF Check, Recheck, Neglected, UpdatesAvailable, TypeOK
      <4> QED BY <4>1, <4>2, ObstaclesExplain
    <3>3. Neglected(t)
      BY <2>5, <3>1, <3>2 DEF Check, Recheck, Neglected, Asleep, UpdatesAvailable, TypeOK
    <3> QED BY <3>1, <3>3, <1>a
  <2>6. CASE Take(s) \/ Timeout(s) \/ RunWork(s)
    <3>1. t # s
      BY <2>6, NodeAssumption DEF Take, Timeout, RunWork, Neglected, Asleep, TypeOK
    <3>2. Neglected(t)
      BY <2>6, <3>1 DEF Take, Timeout, RunWork, Neglected, Asleep, UpdatesAvailable, nodeVars, TypeOK
    <3> QED BY <2>6, <3>2, <1>a DEF Take, Timeout, RunWork, nodeVars
  <2>7. CASE CopyUpdate(s) \/ Poll(s)
    <3>1. t # s
      <4>1. lastGen' = [lastGen EXCEPT ![s] = generation] /\ generation' = generation
        BY <2>7 DEF CopyUpdate, Poll, CopyData, CopyFrom, nodeVars
      <4>2. t = s => UpdatesAvailable(t)' = 0
        BY <4>1 DEF UpdatesAvailable, TypeOK
      <4> QED BY <4>2 DEF Neglected
    <3>2. Neglected(t)
      BY <2>7, <3>1 DEF CopyUpdate, Poll, CopyData, CopyFrom, Neglected, Asleep, UpdatesAvailable,
                        nodeVars, TypeOK
    <3> QED BY <2>7, <3>2, <1>a DEF CopyUpdate, Poll, nodeVars
  <2>8. CASE Elapse(s)
    <3>1. Neglected(t)
      BY <2>8 DEF Elapse, Neglected, Asleep, UpdatesAvailable, nodeVars
    <3> QED BY <2>8, <3>1, <1>a DEF Elapse, nodeVars
  <2> QED BY <1>2, <2>1, <2>2, <2>3, <2>4, <2>5, <2>6, <2>7, <2>8 DEF SubscriberStep
<1>3. CASE UNCHANGED vars
  <2>1. Neglected(t)
    BY <1>3 DEF vars, nodeVars, subVars, Neglected, Asleep, UpdatesAvailable
  <2> QED BY <1>3, <2>1, <1>a DEF vars, nodeVars
<1> QED BY <1>1, <1>2, <1>3 DEF Next

(* No interleaving of publishers, registrations and waits loses a wakeup    *)
(* except for the recorded causes (SubscriptionBlocking::updatedBlocking,   *)
(* SubscriptionCallbackWorkItem::call, DeviceNode::publish).                *)
THEOREM WakeupsArrive == Spec => []NoLostWakeup
<1>1. Init => ListInv /\ NoLostWakeup
  BY ListInit, WakeInit
<1>2. TypeOK /\ ListInv /\ NoLostWakeup /\ [Next]_vars => ListInv' /\ NoLostWakeup'
  BY ListStep, WakeStep
<1> QED BY <1>1, <1>2, TypeCorrect, PTL DEF Spec
=============================================================================
