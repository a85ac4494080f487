------------------------- MODULE DeviceMasterProofs -------------------------
(***************************************************************************)
(* What holds of the registry of topics for any number of topics,          *)
(* instances, publishers and subscribers.  The inductive invariant adds to *)
(* the properties what a thread has at each place of its call (Stages),    *)
(* what a node is that is not in the table yet (Registry), where a node is *)
(* that is not flagged yet (Listed), and what a search has seen (Search).  *)
(***************************************************************************)
EXTENDS DeviceMaster, FiniteSetTheorems, SequenceTheorems, TLAPS

\* What a thread has at each place of its call.
Stages ==
    \A t \in Threads :
        /\ pc[t] = "scan" => t \in Multi
        /\ pc[t] = "mark" => t \in Publishers
        /\ pc[t] = "alloc" => t \in Subscribers /\ slot[t] = 0
        /\ t \in Publishers => slot[t] = 0
        /\ pc[t] # "idle" \/ slot[t] # 0 \/ node[t] # 0 => key[t] \in Keys
        /\ pc[t] \in {"scan", "find", "lock"} => node[t] = 0
        /\ pc[t] \in {"store", "link", "flag", "mark"} => node[t] # 0
        /\ t \in Subscribers /\ pc[t] = "idle" /\ slot[t] = 0 => node[t] = 0

\* A node in the table is that of its key; the newest is about to be stored.
Registry ==
    /\ \A k \in Keys : nodes[k] # 0 => made[nodes[k]] = k
    /\ \A t \in Threads : pc[t] = "store" =>
        nodes[key[t]] = 0 /\ node[t] = Len(made) /\ made[node[t]] = key[t]

\* Where a node is that is not flagged yet.
Listed ==
    \A t \in Threads :
        /\ pc[t] \in {"store", "link"} => \A i \in 1..Len(list) : list[i] # node[t]
        /\ pc[t] = "flag" => \E i \in 1..Len(list) : list[i] = node[t]

Looking == {"find", "lock", "store", "link", "flag", "mark", "idle"}

\* What a search has passed is advertised, and so is what publishers hold.
Search ==
    /\ \A p \in Holders : node[p] \in advertised
    /\ \A p \in Publishers : before[p] \subseteq Holders \ {p}
    /\ \A p \in Publishers : pc[p] = "scan" =>
        \A j \in start[p]..key[p][2] - 1 : Taken(<<key[p][1], j>>)
    /\ \A p \in Publishers : \A q \in before[p] :
        pc[p] \in Looking /\ key[q] = key[p] => full[p]

IInv ==
    /\ TypeOK /\ Stages /\ Registry /\ LockHeld /\ OneNode
    /\ SlotsOwned /\ Listed /\ ListComplete /\ Search
-----------------------------------------------------------------------------
(* Constants and states                                                     *)

Locations == {"idle", "scan", "find", "lock", "store", "link", "flag", "mark", "alloc"}

LEMMA KindsDiffer ==
    /\ \A t \in Threads : t \in Publishers <=> t \notin Subscribers
    /\ Multi \subseteq Publishers /\ Single \subseteq Publishers
    /\ Publishers \subseteq Threads /\ Subscribers \subseteq Threads
    /\ Nobody \notin Threads
BY MasterAssumption DEF Publishers, Threads

LEMMA KeyIs ==
    /\ \A k \in Keys : k[1] \in Topics /\ k[2] \in Instances /\ k = <<k[1], k[2]>>
    /\ \A x \in Topics, i \in Instances : <<x, i>> \in Keys /\ <<x, i>>[1] = x /\ <<x, i>>[2] = i
    /\ Instances \subseteq Nat /\ Topics \subseteq Nat /\ 0 \in Instances
BY MasterAssumption DEF Keys, Instances

LEMMA InitIInv == Init => IInv
<1> SUFFICES ASSUME Init PROVE IInv OBVIOUS
<1> USE MasterAssumption, KindsDiffer, KeyIs DEF Init
<1>1. TypeOK BY DEF TypeOK, Created, Publishers, Threads, Keys, NoKey
<1>2. Stages BY DEF Stages
<1>3. Registry BY DEF Registry
<1>4. LockHeld BY DEF LockHeld
<1>5. OneNode BY DEF OneNode
<1>6. SlotsOwned BY DEF SlotsOwned
<1>7. Listed /\ ListComplete BY DEF Listed, ListComplete
<1>8. Search BY DEF Search, Holders
<1> QED BY <1>1, <1>2, <1>3, <1>4, <1>5, <1>6, <1>7, <1>8 DEF IInv

LEMMA GotIs ==
    ASSUME TypeOK, NEW t \in Threads
    PROVE  /\ Got(t) \in {"mark", "alloc", "idle"} /\ GotNone(t) \in {"alloc", "idle"}
           /\ Got(t) = "mark" <=> t \in Publishers
           /\ Got(t) = "alloc" <=> t \in Subscribers /\ slot[t] = 0
           /\ GotNone(t) = "alloc" <=> t \in Subscribers /\ slot[t] = 0
BY KindsDiffer DEF Got, GotNone
-----------------------------------------------------------------------------
(* DeviceMaster::getOrCreateNode                                            *)

LEMMA FindIInv == ASSUME IInv, NEW t \in Threads, Find(t) PROVE IInv'
<1> USE MasterAssumption, KindsDiffer, GotIs DEF IInv
<1>0. /\ pc[t] = "find" /\ key[t] \in Keys /\ nodes[key[t]] \in {0} \cup Created
      /\ node' = [node EXCEPT ![t] = nodes[key[t]]]
      /\ pc' = [pc EXCEPT ![t] = IF nodes[key[t]] # 0 THEN Got(t) ELSE "lock"]
      /\ UNCHANGED <<nodes, exists, list, made, lock, advertised, slots, key, start, slot, before,
                     full, failures>>
  BY DEF Find, Go, TypeOK, Stages, registry, history
<1>1. TypeOK' BY <1>0 DEF TypeOK, Created
<1>2. Stages' BY <1>0, <1>1 DEF Stages, TypeOK
<1>3. Registry' BY <1>0 DEF Registry, TypeOK
<1>4. LockHeld' BY <1>0 DEF LockHeld, TypeOK
<1>5. OneNode' BY <1>0 DEF OneNode, Registry, TypeOK
<1>6. SlotsOwned' BY <1>0 DEF SlotsOwned
<1>7. Listed' BY <1>0 DEF Listed, TypeOK
<1>a. ListComplete' BY <1>0 DEF ListComplete
<1>8. Holders' = Holders BY <1>0 DEF Holders, TypeOK
<1>9. Search' BY <1>0, <1>8 DEF Search, Taken, Looking, TypeOK, Holders
<1> QED BY <1>1, <1>2, <1>3, <1>4, <1>5, <1>6, <1>7, <1>a, <1>9

\* What Create leaves alone, and the thread it is for.
LEMMA CreateIs ==
    ASSUME IInv, NEW t \in Threads, Create(t)
    PROVE  /\ pc[t] = "lock" /\ lock = Nobody /\ key[t] \in Keys /\ node[t] = 0
           /\ UNCHANGED <<nodes, exists, list, advertised, slots, key, start, slot, before, full>>
BY DEF Create, IInv, Stages, history

LEMMA CreateFinds ==
    ASSUME IInv, NEW t \in Threads, Create(t), nodes[key[t]] # 0
    PROVE  IInv'
<1> USE MasterAssumption, KindsDiffer, GotIs, CreateIs DEF IInv
<1>0. /\ node' = [node EXCEPT ![t] = nodes[key[t]]]
      /\ pc' = [pc EXCEPT ![t] = Got(t)]
      /\ UNCHANGED <<made, lock, failures>>
  BY DEF Create, Go
<1>g. Got(t) \in {"mark", "alloc", "idle"} /\ pc \in [Threads -> Locations]
  BY DEF TypeOK, Locations
<1>1. TypeOK'
  <2>1. nodes[key[t]] \in {0} \cup Created
    BY DEF TypeOK
  <2>2. node' \in [Threads -> {0} \cup Created]
    BY <1>0, <2>1 DEF TypeOK
  <2>3. pc' \in [Threads -> Locations]
    <3>1. Got(t) \in Locations
      BY <1>g DEF Locations
    <3> QED
      BY Zenon, <1>0, <1>g, <3>1
  <2>4. Created' = Created
    BY <1>0 DEF Created
  <2> QED
    BY <1>0, <2>2, <2>3, <2>4 DEF TypeOK, Locations
<1>2. Stages' BY <1>0, <1>1 DEF Stages, TypeOK
<1>3. Registry' BY <1>0, <1>g DEF Registry, TypeOK
<1>4. LockHeld' BY <1>0 DEF LockHeld, TypeOK
<1>5. OneNode' BY <1>0 DEF OneNode, Registry, TypeOK
<1>6. SlotsOwned' BY <1>0 DEF SlotsOwned
<1>7. Listed' BY <1>0, <1>g DEF Listed, TypeOK
<1>8. ListComplete' BY <1>0 DEF ListComplete
<1>9. Holders' = Holders \cup {p \in {t} : Got(t) = "idle" /\ t \in Publishers}
  BY <1>0 DEF Holders, TypeOK
<1>10. Search' BY <1>0, <1>9 DEF Search, Taken, Looking, TypeOK, Holders
<1> QED BY <1>1, <1>2, <1>3, <1>4, <1>5, <1>6, <1>7, <1>8, <1>10

LEMMA CreateFails ==
    ASSUME IInv, NEW t \in Threads, Create(t), nodes[key[t]] = 0, failures' # failures
    PROVE  IInv'
<1> USE MasterAssumption, KindsDiffer, GotIs, CreateIs DEF IInv
<1>0. /\ failures < MaxFailures /\ failures' = failures + 1
      /\ pc' = [pc EXCEPT ![t] = GotNone(t)]
      /\ UNCHANGED <<made, node, lock>>
  BY DEF Create, Go
<1>1. TypeOK'
  <2>1. failures' \in 0..MaxFailures BY <1>0 DEF TypeOK
  <2>2. pc' \in [Threads -> Locations] BY <1>0 DEF TypeOK, Locations
  <2>3. Created' = Created BY <1>0 DEF Created
  <2> HIDE DEF IInv
  <2>4. TypeOK BY DEF IInv
  <2> QED BY <1>0, <2>1, <2>2, <2>3, <2>4 DEF TypeOK, Locations
<1>2. Stages' BY <1>0, <1>1 DEF Stages, TypeOK
<1>3. Registry' BY <1>0 DEF Registry, TypeOK
<1>4. LockHeld' BY <1>0 DEF LockHeld, TypeOK
<1>5. OneNode' BY <1>0 DEF OneNode, TypeOK
<1>6. SlotsOwned' BY <1>0 DEF SlotsOwned
<1>7. Listed' BY <1>0 DEF Listed, TypeOK
<1>8. ListComplete' BY <1>0 DEF ListComplete
<1>9. Holders' = Holders BY <1>0 DEF Holders, TypeOK
<1>a. t \in Publishers => before[t] \subseteq Holders /\ \A q \in before[t] : key[q] = key[t] => full[t]
  BY DEF Search, Looking
<1>10. Search' BY <1>0, <1>9, <1>a DEF Search, Taken, Looking, TypeOK
<1> QED BY <1>1, <1>2, <1>3, <1>4, <1>5, <1>6, <1>7, <1>8, <1>10

LEMMA CreateMakes ==
    ASSUME IInv, NEW t \in Threads, Create(t), nodes[key[t]] = 0, failures' = failures
    PROVE  IInv'
<1> USE MasterAssumption, KindsDiffer, CreateIs DEF IInv
<1> DEFINE n == Len(made) + 1
<1>0. /\ lock' = t
      /\ made' = Append(made, key[t])
      /\ node' = [node EXCEPT ![t] = n]
      /\ pc' = [pc EXCEPT ![t] = "store"]
      /\ UNCHANGED failures
  <2>1. failures \in Nat BY DEF TypeOK
  <2> QED BY <2>1 DEF Create, Go
<1>a. made \in Seq(Keys) /\ Len(made) \in Nat BY DEF TypeOK
<1>b. /\ made' \in Seq(Keys) /\ Len(made') = n /\ made'[n] = key[t]
      /\ \A i \in Created : made'[i] = made[i]
  BY <1>0, <1>a DEF Created
<1>c. Created' = Created \cup {n} BY <1>a, <1>b DEF Created
<1>d. \A u \in Threads : pc[u] \notin {"store", "link", "flag"} BY DEF LockHeld
<1>1. TypeOK'
  <2>1. list \in Seq(Created') BY <1>c DEF TypeOK
  <2> QED BY <1>0, <1>b, <1>c, <2>1 DEF TypeOK
<1> HIDE DEF n
<1>2. Stages'
  <2>1. n # 0 BY <1>a DEF n
  <2> QED BY <1>0, <2>1 DEF Stages, TypeOK
<1>e. nodes \in [Keys -> {0} \cup Created] /\ node \in [Threads -> {0} \cup Created] /\ list \in Seq(Created)
      /\ pc \in [Threads -> Locations]
  BY DEF TypeOK, Locations
<1>f. n \notin Created /\ 0 \notin Created BY <1>a DEF n, Created
<1>3. Registry'
  <2>1. ASSUME NEW k \in Keys, nodes[k] # 0 PROVE made'[nodes[k]] = k
    BY <2>1, <1>b, <1>e DEF Registry
  <2>2. ASSUME NEW u \in Threads, pc'[u] = "store" PROVE u = t
    BY <1>0, <1>d, <1>e, <2>2
  <2> QED BY ZenonT(40), <1>0, <1>b, <1>e, <2>1, <2>2 DEF Registry
<1>4. LockHeld' BY <1>0, <1>d, <1>e DEF LockHeld
<1>5. OneNode'
  <2> SUFFICES ASSUME NEW u \in Threads, pc'[u] # "store", node'[u] # 0
               PROVE  made'[node'[u]] = key[u] /\ nodes[key[u]] = node'[u]
    BY DEF OneNode
  <2>1. u # t /\ pc[u] # "store" /\ node'[u] = node[u] BY <1>0, <1>e
  <2>2. node[u] \in Created BY <1>e, <2>1
  <2> QED BY <2>1, <2>2, <1>b DEF OneNode
<1>6. SlotsOwned' BY DEF SlotsOwned
<1>7. Listed'
  <2> SUFFICES ASSUME NEW u \in Threads
               PROVE  /\ pc'[u] \in {"store", "link"} => \A i \in 1..Len(list) : list[i] # node'[u]
                      /\ pc'[u] # "flag"
    BY DEF Listed
  <2>1. \A i \in 1..Len(list) : list[i] \in Created BY <1>e
  <2> QED BY <1>0, <1>d, <1>e, <1>f, <2>1
<1>8. ListComplete'
  <2>1. \A i \in 1..Len(list) : list[i] \in Created BY <1>e
  <2>2. \A i \in 1..Len(list) : made'[list[i]] = made[list[i]] BY <2>1, <1>b
  <2> QED BY SMTT(20), <2>2 DEF ListComplete
<1>9. Holders' = Holders BY <1>0, <1>e DEF Holders
<1>10. Search'
  <2>1. \A p \in Holders : node'[p] = node[p] BY <1>0, <1>e DEF Holders
  <2>2. t \in Publishers => \A q \in before[t] : key[q] = key[t] => full[t] BY DEF Search, Looking
  <2> QED BY <1>0, <1>e, <1>9, <2>1, <2>2 DEF Search, Taken, Looking
<1> QED BY <1>1, <1>2, <1>3, <1>4, <1>5, <1>6, <1>7, <1>8, <1>10

LEMMA CreateIInv == ASSUME IInv, NEW t \in Threads, Create(t) PROVE IInv'
BY CreateFinds, CreateFails, CreateMakes

LEMMA StoreNodeIInv == ASSUME IInv, NEW t \in Threads, StoreNode(t) PROVE IInv'
<1> USE MasterAssumption, KindsDiffer DEF IInv
<1>0. /\ pc[t] = "store" /\ key[t] \in Keys /\ node[t] \in Created /\ node[t] # 0
      /\ nodes[key[t]] = 0 /\ made[node[t]] = key[t]
      /\ nodes' = [nodes EXCEPT ![key[t]] = node[t]]
      /\ pc' = [pc EXCEPT ![t] = "link"]
      /\ UNCHANGED <<exists, list, made, lock, advertised, slots, key, start, node, slot, before,
                     full, failures>>
  BY DEF StoreNode, Go, TypeOK, Stages, Registry, history
<1>1. TypeOK' BY <1>0 DEF TypeOK, Created
<1>2. Stages' BY <1>0 DEF Stages, TypeOK
<1>a. \A u \in Threads : pc[u] = "store" => u = t BY <1>0 DEF LockHeld
<1>3. Registry' BY <1>0, <1>a DEF Registry, TypeOK
<1>4. LockHeld' BY <1>0 DEF LockHeld, TypeOK
<1>5. OneNode' BY <1>0 DEF OneNode, TypeOK
<1>6. SlotsOwned' BY <1>0 DEF SlotsOwned
<1>7. Listed' BY <1>0 DEF Listed, TypeOK
<1>8. ListComplete'
  <2>1. ASSUME NEW k \in Keys, exists[k] PROVE nodes[k] # 0
    <3>1. PICK i \in 1..Len(list) : list[i] = nodes[k] BY <2>1 DEF ListComplete
    <3>2. list[i] \in Created BY DEF TypeOK
    <3> QED BY <3>1, <3>2 DEF Created
  <2>2. ~exists[key[t]] BY <2>1, <1>0
  <2>3. \A k \in Keys : exists[k] => nodes'[k] = nodes[k] BY <2>2, <1>0 DEF TypeOK
  <2> QED BY <1>0, <2>3 DEF ListComplete
<1>9. Holders' = Holders BY <1>0 DEF Holders, TypeOK
<1>b. \A k \in Keys : Taken(k) => Taken(k)' BY <1>0 DEF Taken, TypeOK
<1>10. Search'
  <2>1. ASSUME NEW p \in Publishers, pc'[p] = "scan", NEW j \in start[p]..key[p][2] - 1
        PROVE  Taken(<<key[p][1], j>>)'
    <3>1. pc[p] = "scan" /\ key[p] \in Keys /\ start[p] \in Instances BY <1>0, <2>1 DEF Stages, TypeOK
    <3>2. <<key[p][1], j>> \in Keys BY <3>1, KeyIs DEF Instances
    <3>3. Taken(<<key[p][1], j>>) BY <3>1 DEF Search
    <3> QED BY <3>2, <3>3, <1>b, <1>0
  <2>2. t \in Publishers => \A q \in before[t] : key[q] = key[t] => full[t]
    BY <1>0 DEF Search, Looking
  <2> QED BY <1>0, <1>9, <2>1, <2>2 DEF Search, Looking, TypeOK
<1> QED BY <1>1, <1>2, <1>3, <1>4, <1>5, <1>6, <1>7, <1>8, <1>10

-----------------------------------------------------------------------------
(* The sorted list                                                          *)

\* A sequence with one more element at position i.
LEMMA InsertAtIs ==
    ASSUME NEW S, NEW s \in Seq(S), NEW e \in S, NEW i \in 1..Len(s) + 1
    PROVE  /\ InsertAt(s, i, e) \in Seq(S) /\ Len(InsertAt(s, i, e)) = Len(s) + 1
           /\ \A j \in 1..Len(s) + 1 :
               InsertAt(s, i, e)[j] = IF j < i THEN s[j] ELSE IF j = i THEN e ELSE s[j - 1]
<1> DEFINE a == SubSeq(s, 1, i - 1)
           b == SubSeq(s, i, Len(s))
<1>0. Len(s) \in Nat /\ i \in Nat OBVIOUS
<1>1. a \in Seq(S) /\ Len(a) = i - 1 /\ \A j \in 1..i - 1 : a[j] = s[j]
  BY <1>0, SubSeqProperties
<1>2. b \in Seq(S) /\ Len(b) = Len(s) - i + 1 /\ \A j \in 1..Len(s) - i + 1 : b[j] = s[i + j - 1]
  BY <1>0, SubSeqProperties
<1> HIDE DEF a, b
<1>3. <<e>> \in Seq(S) /\ Len(<<e>>) = 1 /\ <<e>>[1] = e OBVIOUS
<1>4. a \o <<e>> \in Seq(S) /\ Len(a \o <<e>>) = i
      /\ \A j \in 1..i : (a \o <<e>>)[j] = IF j < i THEN s[j] ELSE e
  BY <1>0, <1>1, <1>3, ConcatProperties
<1> DEFINE c == a \o <<e>>
<1> HIDE DEF c
<1>5. c \in Seq(S) /\ Len(c) = i /\ \A j \in 1..i : c[j] = IF j < i THEN s[j] ELSE e
  BY <1>4 DEF c
<1>6. /\ c \o b \in Seq(S) /\ Len(c \o b) = Len(s) + 1
      /\ \A j \in 1..Len(s) + 1 : (c \o b)[j] = IF j <= i THEN c[j] ELSE b[j - i]
  <2>1. Len(c) + Len(b) = Len(s) + 1 BY <1>0, <1>2, <1>5
  <2>2. c \o b \in Seq(S) /\ Len(c \o b) = Len(c) + Len(b)
        /\ \A j \in 1..Len(c) + Len(b) : (c \o b)[j] = IF j <= Len(c) THEN c[j] ELSE b[j - Len(c)]
    BY <1>2, <1>5, ConcatProperties
  <2> QED BY <1>5, <2>1, <2>2
<1>7. InsertAt(s, i, e) = c \o b BY DEF InsertAt, a, b, c
<1>8. ASSUME NEW j \in 1..Len(s) + 1, j > i PROVE b[j - i] = s[j - 1]
  <2>1. j - i \in 1..Len(s) - i + 1 /\ i + (j - i) - 1 = j - 1 BY <1>0, <1>8
  <2> QED BY <1>2, <2>1
<1> QED BY <1>0, <1>5, <1>6, <1>7, <1>8

LEMMA Interval ==
    ASSUME NEW m \in Nat
    PROVE  IsFiniteSet(1..m) /\ Cardinality(1..m) = m
<1>1. 1 \in Int /\ m \in Int OBVIOUS
<1>2. IsFiniteSet(1..m) /\ Cardinality(1..m) = IF 1 > m THEN 0 ELSE m - 1 + 1
  BY <1>1, FS_Interval
<1> QED BY <1>2

\* There is a place for every node: after those whose name is smaller.
LEMMA PlaceIs ==
    ASSUME TypeOK, ListComplete, NEW n \in Created
    PROVE  /\ Place(n) \in 1..Len(list) + 1
           /\ \A j \in 1..Place(n) - 1 : made[list[j]][1] < made[n][1]
           /\ Place(n) <= Len(list) => made[n][1] <= made[list[Place(n)]][1]
<1> DEFINE name(i) == made[list[i]][1]
           Less == {i \in 1..Len(list) : name(i) < made[n][1]}
           k == Cardinality(Less)
<1>0. /\ Len(list) \in Nat /\ made[n][1] \in Nat
      /\ \A i \in 1..Len(list) : name(i) \in Nat
  <2>1. made \in Seq(Keys) /\ list \in Seq(Created) BY DEF TypeOK
  <2>2. \A m \in Created : made[m] \in Keys BY <2>1 DEF Created
  <2> QED BY <2>1, <2>2, KeyIs
<1>1. \A i, j \in 1..Len(list) : i < j => name(i) <= name(j) BY DEF ListComplete
<1> HIDE DEF name
<1>2. IsFiniteSet(1..Len(list)) /\ Cardinality(1..Len(list)) = Len(list)
  BY <1>0, Interval
<1>3. IsFiniteSet(Less) /\ k \in Nat /\ k <= Len(list) /\ k = Cardinality(Less)
  BY <1>2, FS_Subset, FS_CardinalityType
<1> HIDE DEF k
<1>4. ASSUME NEW j \in Less PROVE j <= k
  <2>1. j \in 1..Len(list) /\ 1..j \subseteq Less
    <3>1. ASSUME NEW i \in 1..j PROVE i \in Less
      <4>1. i \in 1..Len(list) /\ (i = j \/ i < j) BY <1>0
      <4> QED BY <4>1, <1>0, <1>1
    <3> QED BY <3>1
  <2>2. j \in Nat /\ Cardinality(1..j) = j BY <2>1, <1>0, Interval
  <2>3. Cardinality(1..j) <= Cardinality(Less) BY <2>1, <1>3, FS_Subset
  <2> QED BY <2>2, <2>3, <1>3
<1>5. ASSUME NEW j \in 1..Len(list), j \notin Less PROVE k < j
  <2>1. Less \subseteq 1..j - 1
    <3>1. ASSUME NEW i \in Less PROVE i < j
      BY <1>0, <1>1, <1>5
    <3> QED BY <3>1, <1>0
  <2>2. IsFiniteSet(1..j - 1) /\ Cardinality(1..j - 1) = j - 1
    <3>1. j - 1 \in Nat BY <1>0
    <3> QED BY <3>1, Interval
  <2>3. k <= j - 1 BY <2>1, <2>2, <1>3, FS_Subset
  <2> QED BY <2>3, <1>0, <1>3
<1>6. /\ k + 1 \in 1..Len(list) + 1
      /\ \A j \in 1..(k + 1) - 1 : name(j) < made[n][1]
      /\ k + 1 <= Len(list) => made[n][1] <= name(k + 1)
  <2>1. ASSUME NEW j \in 1..k PROVE name(j) < made[n][1]
    BY <1>0, <1>3, <1>5
  <2>2. ASSUME k + 1 <= Len(list) PROVE made[n][1] <= name(k + 1)
    <3>1. k + 1 \in 1..Len(list) BY <1>0, <1>3, <2>2
    <3>2. k + 1 \notin Less
      <4> SUFFICES ASSUME k + 1 \in Less PROVE FALSE OBVIOUS
      <4>1. k + 1 <= k BY <1>4
      <4> QED BY <4>1, <1>3
    <3>3. ~(name(k + 1) < made[n][1]) BY <3>1, <3>2
    <3> QED BY <3>1, <3>3, <1>0
  <2>3. (k + 1) - 1 = k /\ k + 1 \in 1..Len(list) + 1 BY <1>0, <1>3
  <2> QED BY <2>1, <2>2, <2>3
<1> QED BY <1>6 DEF Place, name

LEMMA LinkIInv == ASSUME IInv, NEW t \in Threads, Link(t) PROVE IInv'
<1> USE MasterAssumption, KindsDiffer DEF IInv
<1> DEFINE n == node[t]
           i == Place(n)
<1>0. /\ pc[t] = "link" /\ n \in Created /\ key[t] \in Keys
      /\ list' = InsertAt(list, i, n)
      /\ pc' = [pc EXCEPT ![t] = "flag"]
      /\ UNCHANGED <<nodes, exists, made, lock, advertised, slots, key, start, node, slot, before,
                     full, failures>>
  BY DEF Link, Go, TypeOK, Stages, history
<1>a. list \in Seq(Created) /\ Len(list) \in Nat /\ pc \in [Threads -> Locations]
  BY DEF TypeOK, Locations
<1>b. /\ i \in 1..Len(list) + 1
      /\ \A j \in 1..i - 1 : made[list[j]][1] < made[n][1]
      /\ i <= Len(list) => made[n][1] <= made[list[i]][1]
  BY <1>0, PlaceIs
<1> HIDE DEF i, n
<1>c. /\ list' \in Seq(Created) /\ Len(list') = Len(list) + 1
      /\ \A j \in 1..Len(list) + 1 :
          list'[j] = IF j < i THEN list[j] ELSE IF j = i THEN n ELSE list[j - 1]
  BY SMTT(20), <1>0, <1>a, <1>b, InsertAtIs
<1>1. TypeOK'
  <2>1. Created' = Created BY <1>0 DEF Created
  <2> QED BY <1>0, <1>c, <2>1 DEF TypeOK
<1>2. Stages' BY <1>0 DEF Stages, TypeOK, n
<1>3. Registry' BY <1>0 DEF Registry, TypeOK
<1>4. LockHeld' BY <1>0 DEF LockHeld, TypeOK
<1>5. OneNode' BY <1>0 DEF OneNode, TypeOK
<1>6. SlotsOwned' BY <1>0 DEF SlotsOwned
<1>d. ASSUME NEW j \in 1..Len(list) PROVE \E m \in 1..Len(list') : list'[m] = list[j]
  <2>1. CASE j < i
    <3>1. j \in 1..Len(list) + 1 BY <1>a
    <3> QED BY <3>1, <2>1, <1>c
  <2>2. CASE j >= i
    <3>1. j + 1 \in 1..Len(list) + 1 /\ ~(j + 1 < i) /\ j + 1 # i /\ (j + 1) - 1 = j
      BY <2>2, <1>a, <1>b
    <3> QED BY <3>1, <1>c
  <2> QED BY <2>1, <2>2, <1>a, <1>b
<1>7. Listed'
  <2>1. ASSUME NEW u \in Threads PROVE pc'[u] \notin {"store", "link"} BY <1>0, <1>a DEF LockHeld
  <2>2. ASSUME NEW u \in Threads, pc'[u] = "flag" PROVE u = t BY <1>0, <1>a, <2>2 DEF LockHeld
  <2>3. i \in 1..Len(list') /\ list'[i] = n BY <1>a, <1>b, <1>c
  <2> QED BY <1>0, <2>1, <2>2, <2>3 DEF Listed, n
<1>8. ListComplete'
  <2>1. \A k \in Keys : exists[k] => \E m \in 1..Len(list') : list'[m] = nodes[k]
    BY <1>d DEF ListComplete
  <2>2. \A j \in 1..Len(list) : list[j] # n /\ made[list[j]][1] \in Nat /\ list[j] \in Created
    <3>1. made \in Seq(Keys) BY DEF TypeOK
    <3>2. \A m \in Created : made[m][1] \in Nat BY <3>1, KeyIs DEF Created
    <3> QED BY <1>0, <1>a, <3>2 DEF Listed, n
  <2>3. made[n][1] \in Nat
    <3>1. made \in Seq(Keys) BY DEF TypeOK
    <3> QED BY <1>0, <3>1, KeyIs DEF Created
  <2>4. \A j, m \in 1..Len(list) : j < m => list[j] # list[m] /\ made[list[j]][1] <= made[list[m]][1]
    BY DEF ListComplete
  <2>5. ASSUME NEW j \in 1..Len(list) + 1, NEW m \in 1..Len(list) + 1, j < m
        PROVE  list'[j] # list'[m] /\ made[list'[j]][1] <= made[list'[m]][1]
    <3>1. CASE m < i
      <4>1. j < i /\ j \in 1..Len(list) /\ m \in 1..Len(list) BY <3>1, <2>5, <1>a, <1>b
      <4> QED BY <4>1, <3>1, <1>c, <2>4, <2>5
    <3>2. CASE m = i
      <4>1. j \in 1..i - 1 /\ j < i /\ j \in 1..Len(list) BY <3>2, <2>5, <1>a, <1>b
      <4>2. list'[j] = list[j] /\ list'[m] = n BY <4>1, <3>2, <1>c
      <4> QED BY SMTT(20), <4>1, <4>2, <1>b, <2>2, <2>3
    <3>3. CASE m > i
      <4>1. m - 1 \in 1..Len(list) /\ list'[m] = list[m - 1] BY <3>3, <1>a, <1>b, <1>c
      <4>2. CASE j < i
        <5>1. j \in 1..Len(list) /\ j < m - 1 BY <4>2, <3>3, <1>a, <1>b
        <5> QED BY <5>1, <4>1, <4>2, <1>c, <2>4
      <4>3. CASE j = i
        <5>1. i \in 1..Len(list) /\ i <= m - 1 BY <3>3, <1>a, <1>b
        <5>2. made[list[i]][1] <= made[list[m - 1]][1] BY SMTT(20), <5>1, <4>1, <2>2, <2>4
        <5>3. list'[j] = n BY <4>3, <1>c
        <5> QED BY SMTT(20), <5>1, <5>2, <5>3, <4>1, <1>b, <2>2, <2>3
      <4>4. CASE j > i
        <5>1. j - 1 \in 1..Len(list) /\ j - 1 < m - 1 BY <4>4, <2>5, <1>a, <1>b
        <5>2. list'[j] = list[j - 1] BY <4>4, <1>a, <1>b, <1>c
        <5> QED BY <5>1, <5>2, <4>1, <2>4
      <4> QED BY <4>2, <4>3, <4>4, <1>b
    <3> QED BY <3>1, <3>2, <3>3, <1>b
  <2> QED BY <1>0, <1>c, <2>1, <2>5 DEF ListComplete
<1>9. Holders' = Holders BY <1>0, <1>a DEF Holders
<1>10. Search'
  <2>1. t \in Publishers => \A q \in before[t] : key[q] = key[t] => full[t]
    BY <1>0 DEF Search, Looking
  <2> QED BY <1>0, <1>a, <1>9, <2>1 DEF Search, Looking, Taken
<1> QED BY <1>1, <1>2, <1>3, <1>4, <1>5, <1>6, <1>7, <1>8, <1>10

LEMMA SetExistsIInv == ASSUME IInv, NEW t \in Threads, SetExists(t) PROVE IInv'
<1> USE MasterAssumption, KindsDiffer DEF IInv
<1>0. /\ pc[t] = "flag" /\ key[t] \in Keys /\ node[t] \in Created /\ node[t] # 0 /\ lock = t
      /\ nodes[key[t]] = node[t]
      /\ exists' = [exists EXCEPT ![key[t]] = TRUE]
      /\ lock' = Nobody
      /\ pc' = [pc EXCEPT ![t] = Got(t)]
      /\ UNCHANGED <<nodes, list, made, advertised, slots, key, start, node, slot, before, full,
                     failures>>
  BY DEF SetExists, Go, TypeOK, Stages, LockHeld, OneNode, history
<1>a. pc \in [Threads -> Locations] /\ Got(t) \in {"mark", "alloc", "idle"}
  BY GotIs DEF TypeOK, Locations
<1>1. TypeOK'
  <2>1. Created' = Created BY <1>0 DEF Created
  <2> QED BY <1>0, <1>a, <2>1 DEF TypeOK
<1>2. Stages' BY <1>0, GotIs DEF Stages, TypeOK
<1>3. Registry' BY <1>0, <1>a DEF Registry
<1>4. LockHeld' BY <1>0, <1>a DEF LockHeld
<1>5. OneNode' BY <1>0, <1>a DEF OneNode
<1>6. SlotsOwned' BY <1>0 DEF SlotsOwned
<1>7. Listed' BY <1>0, <1>a DEF Listed
<1>8. ListComplete'
  <2>1. \E j \in 1..Len(list) : list[j] = node[t] BY <1>0 DEF Listed
  <2>2. exists \in [Keys -> BOOLEAN] BY DEF TypeOK
  <2> QED BY <1>0, <2>1, <2>2 DEF ListComplete
<1>9. Holders' = Holders BY <1>0, <1>a, GotIs DEF Holders
<1>10. Search'
  <2>1. t \in Publishers => \A q \in before[t] : key[q] = key[t] => full[t]
    BY <1>0 DEF Search, Looking
  <2> QED BY <1>0, <1>a, <1>9, <2>1 DEF Search, Looking, Taken
<1> QED BY <1>1, <1>2, <1>3, <1>4, <1>5, <1>6, <1>7, <1>8, <1>10
-----------------------------------------------------------------------------
(* Publishers: Manager::orb_advertise_multi                                 *)

LEMMA AdvertiseIInv ==
    ASSUME IInv, NEW p \in Publishers, NEW i \in Instances, Advertise(p, i)
    PROVE  IInv'
<1> USE MasterAssumption, KindsDiffer, KeyIs DEF IInv
<1>0. /\ pc[p] = "idle" /\ node[p] = 0 /\ Topic[p] \in Topics
      /\ key' = [key EXCEPT ![p] = <<Topic[p], i>>]
      /\ start' = [start EXCEPT ![p] = i]
      /\ before' = [before EXCEPT ![p] = IF p \in Multi THEN Holders ELSE {}]
      /\ full' = [full EXCEPT ![p] = FALSE]
      /\ pc' = [pc EXCEPT ![p] = IF p \in Multi THEN "scan" ELSE "find"]
      /\ UNCHANGED <<nodes, exists, list, made, lock, advertised, slots, node, slot, failures>>
  BY DEF Advertise, Go, registry
<1>a. pc \in [Threads -> Locations] /\ key \in [Threads -> Keys \cup {NoKey}]
      /\ before \in [Threads -> SUBSET Publishers] /\ p \notin Holders
  BY <1>0 DEF TypeOK, Locations, Holders
<1>1. TypeOK'
  <2>1. Created' = Created BY <1>0 DEF Created
  <2>2. Holders \subseteq Publishers BY DEF Holders
  <2> QED BY <1>0, <2>1, <2>2 DEF TypeOK
<1>2. Stages' BY <1>0, <1>a DEF Stages
<1>3. Registry' BY <1>0, <1>a DEF Registry
<1>4. LockHeld' BY <1>0, <1>a DEF LockHeld
<1>5. OneNode' BY <1>0, <1>a DEF OneNode
<1>6. SlotsOwned' BY <1>0 DEF SlotsOwned
<1>7. Listed' BY <1>0, <1>a DEF Listed
<1>8. ListComplete' BY <1>0 DEF ListComplete
<1>9. Holders' = Holders BY <1>0, <1>a DEF Holders
<1>10. Search'
  <2>1. \A q \in Publishers : before'[q] \subseteq Holders \ {q} BY <1>0, <1>a DEF Search
  <2>2. ASSUME NEW r \in Publishers, pc'[r] = "scan", NEW j \in start'[r]..key'[r][2] - 1
        PROVE  Taken(<<key[r][1], j>>)'
    <3>1. CASE r = p
      <4>1. start'[r] = i /\ key'[r][2] = i BY <1>0, <1>a, <3>1 DEF TypeOK
      <4> QED BY <4>1
    <3>2. CASE r # p
      <4>1. pc[r] = "scan" /\ start'[r] = start[r] /\ key'[r] = key[r]
        BY <1>0, <1>a, <2>2, <3>2 DEF TypeOK
      <4>2. Taken(<<key[r][1], j>>) BY <4>1 DEF Search
      <4> QED BY <4>1, <4>2, <1>0 DEF Taken
    <3> QED BY <3>1, <3>2
  <2>3. ASSUME NEW r \in Publishers, NEW q \in before'[r], pc'[r] \in Looking, key'[q] = key'[r]
        PROVE  full'[r]
    <3>1. q # p BY <2>1, <1>a
    <3>2. CASE r = p
      <4>1. p \notin Multi /\ before'[r] = {} BY <1>0, <1>a, <2>3, <3>2 DEF Looking
      <4> QED BY <4>1
    <3>3. CASE r # p
      <4>1. q \in before[r] /\ pc[r] \in Looking /\ key[q] = key[r] /\ full'[r] = full[r] /\ q \in Threads
        BY <1>0, <1>a, <2>3, <3>1, <3>3 DEF TypeOK
      <4> QED BY <4>1 DEF Search
    <3> QED BY <3>2, <3>3
  <2> QED BY <1>0, <1>9, <2>1, <2>2, <2>3 DEF Search
<1> QED BY <1>1, <1>2, <1>3, <1>4, <1>5, <1>6, <1>7, <1>8, <1>10

LEMMA ScanIInv == ASSUME IInv, NEW p \in Threads, Scan(p) PROVE IInv'
<1> USE MasterAssumption, KindsDiffer, KeyIs DEF IInv
<1> DEFINE x == key[p][1]
           i == key[p][2]
<1>0. /\ pc[p] = "scan" /\ p \in Multi /\ key[p] \in Keys /\ node[p] = 0
      /\ full' = [full EXCEPT ![p] = \A j \in start[p]..MaxInstances - 1 : Taken(<<x, j>>)]
      /\ UNCHANGED <<nodes, exists, list, made, lock, advertised, slots, node, slot, before, failures>>
  BY DEF Scan, Stages, registry
<1>b. \/ Free(key[p]) /\ Go(p, "find") /\ start' = [start EXCEPT ![p] = 0] /\ UNCHANGED key
      \/ /\ ~Free(key[p]) /\ i < MaxInstances - 1
         /\ key' = [key EXCEPT ![p] = <<x, i + 1>>]
         /\ UNCHANGED <<pc, start>>
      \/ /\ ~Free(key[p]) /\ i = MaxInstances - 1
         /\ key' = [key EXCEPT ![p] = <<x, start[p]>>]
         /\ start' = [start EXCEPT ![p] = 0]
         /\ Go(p, "find")
  BY DEF Scan
<1>a. pc \in [Threads -> Locations] /\ key \in [Threads -> Keys \cup {NoKey}]
      /\ start \in [Threads -> Instances] /\ x \in Topics /\ i \in Instances
      /\ full \in [Threads -> BOOLEAN] /\ key[p] = <<x, i>>
  BY <1>0 DEF TypeOK, Locations
<1>c. /\ key'[p] \in Keys /\ start'[p] \in Instances /\ pc'[p] \in {"scan", "find"}
      /\ key' = [key EXCEPT ![p] = key'[p]] /\ start' = [start EXCEPT ![p] = start'[p]]
      /\ pc' = [pc EXCEPT ![p] = pc'[p]]
  <2>1. i < MaxInstances - 1 => i + 1 \in Instances BY <1>a DEF Instances
  <2>2. <<x, i + 1>> \in Keys \/ ~(i < MaxInstances - 1) BY <2>1, <1>a
  <2>3. <<x, start[p]>> \in Keys BY <1>0, <1>a
  <2> QED BY <1>0, <1>a, <1>b, <2>2, <2>3 DEF Go
<1> HIDE DEF x, i
<1>1. TypeOK'
  <2>1. Created' = Created BY <1>0 DEF Created
  <2>2. key' \in [Threads -> Keys \cup {NoKey}] /\ start' \in [Threads -> Instances]
        /\ pc' \in [Threads -> Locations]
    BY <1>a, <1>c DEF Locations
  <2>3. full' \in [Threads -> BOOLEAN] BY <1>0, <1>a
  <2> QED BY <1>0, <2>1, <2>2, <2>3 DEF TypeOK, Locations
<1>2. Stages' BY <1>0, <1>a, <1>c DEF Stages
<1>3. Registry' BY <1>0, <1>a, <1>c DEF Registry
<1>4. LockHeld' BY <1>0, <1>a, <1>c DEF LockHeld
<1>5. OneNode' BY <1>0, <1>a, <1>c DEF OneNode
<1>6. SlotsOwned' BY <1>0 DEF SlotsOwned
<1>7. Listed'
  <2>1. \A u \in Threads : pc'[u] \in {"store", "link", "flag"} => pc'[u] = pc[u]
    BY <1>a, <1>c
  <2> QED BY <1>0, <2>1 DEF Listed
<1>8. ListComplete' BY <1>0 DEF ListComplete
<1>9. Holders' = Holders BY <1>0, <1>a, <1>c DEF Holders
<1>d. \A k : Taken(k)' = Taken(k) BY <1>0 DEF Taken
<1>e. p \notin Holders BY <1>0 DEF Holders
<1>10. Search'
  <2>1. ASSUME NEW r \in Publishers, pc'[r] = "scan", NEW j \in start'[r]..key'[r][2] - 1
        PROVE  Taken(<<key'[r][1], j>>)
    <3>1. CASE r # p
      <4>1. pc[r] = "scan" /\ start'[r] = start[r] /\ key'[r] = key[r]
        BY <1>a, <1>c, <2>1, <3>1
      <4> QED BY <4>1, <2>1 DEF Search
    <3>2. CASE r = p
      <4>1. ~Free(key[p]) /\ key'[p] = <<x, i + 1>> /\ start'[p] = start[p] /\ i + 1 \in Instances
        BY <1>0, <1>a, <1>b, <2>1, <3>2 DEF Go, Instances
      <4>2. key'[p][1] = x /\ key'[p][2] = i + 1 BY <4>1, <1>a
      <4>3. CASE j = i BY <4>1, <4>2, <4>3, <3>2, <1>a DEF Free
      <4>4. CASE j # i
        <5>1. j \in start[p]..key[p][2] - 1 BY <2>1, <3>2, <4>1, <4>2, <4>4, <1>a DEF i
        <5>2. Taken(<<key[p][1], j>>) BY <5>1, <1>0 DEF Search
        <5> QED BY <5>2, <4>2, <3>2 DEF x
      <4> QED BY <4>3, <4>4
    <3> QED BY <3>1, <3>2
  <2>2. ASSUME NEW r \in Publishers, NEW q \in before[r], pc'[r] \in Looking, key'[q] = key'[r]
        PROVE  full'[r]
    <3>1. q \in Holders /\ q \in Threads /\ q # p /\ q # r /\ key'[q] = key[q] /\ key[q] \in Keys
          /\ node[q] # 0 /\ node[q] \in advertised /\ nodes[key[q]] = node[q]
      <4>1. q \in Holders /\ q # r BY DEF Search
      <4>2. q \in Threads /\ q # p /\ node[q] # 0 /\ pc[q] = "idle" /\ node[q] \in advertised
        BY <4>1, <1>e DEF Holders, Search
      <4> QED BY <4>1, <4>2, <1>a, <1>c DEF Stages, OneNode
    <3>2. CASE r # p
      <4>1. pc[r] \in Looking /\ key[q] = key[r] /\ full'[r] = full[r]
        BY <1>0, <1>a, <1>c, <2>2, <3>1, <3>2
      <4> QED BY <4>1 DEF Search
    <3>3. CASE r = p
      <4>1. pc'[p] = "find" BY <1>c, <2>2, <3>3 DEF Looking
      <4>2. CASE Free(key[p])
        <5>1. key'[p] = key[p] BY <4>2, <1>b
        <5> QED BY <5>1, <4>2, <2>2, <3>1, <3>3 DEF Free, Taken
      <4>3. CASE ~Free(key[p])
        <5>1. i = MaxInstances - 1 BY <4>1, <4>3, <1>0, <1>b
        <5>2. ASSUME NEW j \in start[p]..MaxInstances - 1 PROVE Taken(<<x, j>>)
          <6>1. CASE j = i BY <6>1, <4>3, <1>a DEF Free
          <6>2. CASE j # i
            <7>1. j \in start[p]..key[p][2] - 1 BY <6>2, <5>1, <1>a DEF i
            <7> QED BY <7>1, <1>0 DEF Search, x
          <6> QED BY <6>1, <6>2
        <5> QED BY <5>2, <1>0, <1>a, <3>3
      <4> QED BY <4>2, <4>3
    <3> QED BY <3>2, <3>3
  <2> QED BY <1>0, <1>9, <1>d, <2>1, <2>2 DEF Search
<1> QED BY <1>1, <1>2, <1>3, <1>4, <1>5, <1>6, <1>7, <1>8, <1>10

LEMMA MarkIInv == ASSUME IInv, NEW p \in Threads, Mark(p) PROVE IInv'
<1> USE MasterAssumption, KindsDiffer, KeyIs DEF IInv
<1>0. /\ pc[p] = "mark" /\ p \in Publishers /\ key[p] \in Keys /\ node[p] # 0 /\ node[p] \in Created
      /\ advertised' = advertised \cup {node[p]}
      /\ pc' = [pc EXCEPT ![p] = "idle"]
      /\ UNCHANGED <<nodes, exists, list, made, lock, slots, key, start, node, slot, before, full,
                     failures>>
  BY DEF Mark, Go, Stages, TypeOK, registry, history
<1>a. pc \in [Threads -> Locations] BY DEF TypeOK, Locations
<1>1. TypeOK'
  <2>1. Created' = Created BY <1>0 DEF Created
  <2> QED BY <1>0, <2>1 DEF TypeOK
<1>2. Stages' BY <1>0, <1>a DEF Stages
<1>3. Registry' BY <1>0, <1>a DEF Registry
<1>4. LockHeld' BY <1>0, <1>a DEF LockHeld
<1>5. OneNode' BY <1>0, <1>a DEF OneNode
<1>6. SlotsOwned' BY <1>0 DEF SlotsOwned
<1>7. Listed' BY <1>0, <1>a DEF Listed
<1>8. ListComplete' BY <1>0 DEF ListComplete
<1>9. Holders' = Holders \cup {p} BY <1>0, <1>a DEF Holders
<1>10. Search'
  <2>1. p \notin Holders BY <1>0 DEF Holders
  <2>2. \A q \in Publishers : before[q] \subseteq (Holders \cup {p}) \ {q}
    BY <2>1 DEF Search
  <2>3. \A k : Taken(k) => Taken(k)' BY <1>0 DEF Taken
  <2>4. \A q \in Publishers : pc'[q] = "scan" => pc[q] = "scan" BY <1>0, <1>a
  <2>5. \A q \in Publishers : pc'[q] \in Looking => pc[q] \in Looking BY <1>0, <1>a DEF Looking
  <2>6. \A q \in Holders' : node[q] \in advertised' BY <1>0, <1>9 DEF Search
  <2> QED BY <1>0, <1>9, <2>2, <2>3, <2>4, <2>5, <2>6 DEF Search
<1> QED BY <1>1, <1>2, <1>3, <1>4, <1>5, <1>6, <1>7, <1>8, <1>10

LEMMA UnadvertiseIInv == ASSUME IInv, NEW p \in Publishers, Unadvertise(p) PROVE IInv'
<1> USE MasterAssumption, KindsDiffer, KeyIs DEF IInv
<1>0. /\ p \in Holders /\ pc[p] = "idle" /\ slot[p] = 0
      /\ node' = [node EXCEPT ![p] = 0]
      /\ key' = [key EXCEPT ![p] = NoKey]
      /\ before' = [t \in Threads |-> IF t = p THEN {} ELSE before[t] \ {p}]
      /\ full' = [full EXCEPT ![p] = FALSE]
      /\ UNCHANGED <<nodes, exists, list, made, lock, advertised, slots, pc, start, slot, failures>>
  BY DEF Unadvertise, Holders, Stages, registry
<1>a. pc \in [Threads -> Locations] /\ key \in [Threads -> Keys \cup {NoKey}]
      /\ node \in [Threads -> {0} \cup Created] /\ full \in [Threads -> BOOLEAN]
  BY DEF TypeOK, Locations
<1>1. TypeOK'
  <2>1. Created' = Created BY <1>0 DEF Created
  <2>2. before' \in [Threads -> SUBSET Publishers] BY <1>0 DEF TypeOK
  <2> QED BY <1>0, <2>1, <2>2 DEF TypeOK
<1>2. Stages' BY <1>0, <1>a DEF Stages
<1>3. Registry' BY <1>0, <1>a DEF Registry
<1>4. LockHeld' BY <1>0, <1>a DEF LockHeld
<1>5. OneNode' BY <1>0, <1>a DEF OneNode
<1>6. SlotsOwned' BY <1>0 DEF SlotsOwned
<1>7. Listed' BY SMTT(20), <1>0, <1>a DEF Listed
<1>8. ListComplete' BY <1>0 DEF ListComplete
<1>9. Holders' = Holders \ {p} BY <1>0, <1>a DEF Holders
<1>10. Search'
  <2>1. \A q \in Holders' : node'[q] \in advertised BY <1>0, <1>9, <1>a DEF Search, Holders
  <2>2. \A q \in Publishers : before'[q] \subseteq (Holders \ {p}) \ {q} BY <1>0 DEF Search
  <2>3. ASSUME NEW r \in Publishers, pc[r] = "scan", NEW j \in start[r]..key'[r][2] - 1
        PROVE  Taken(<<key'[r][1], j>>)
    <3>1. r # p /\ key'[r] = key[r] BY <1>0, <1>a, <2>3
    <3> QED BY <3>1, <2>3 DEF Search
  <2>4. ASSUME NEW r \in Publishers, NEW q \in before'[r], pc[r] \in Looking, key'[q] = key'[r]
        PROVE  full'[r]
    <3>1. r # p /\ q # p /\ q \in before[r] /\ q \in Threads
      <4>1. q \in Holders \ {p} BY <2>2, <2>4
      <4>2. before'[r] = IF r = p THEN {} ELSE before[r] \ {p} BY <1>0
      <4> QED BY <4>1, <4>2, <2>4 DEF Holders
    <3>2. key[q] = key[r] /\ full'[r] = full[r] BY <1>0, <1>a, <2>4, <3>1
    <3> QED BY <3>1, <3>2, <2>4 DEF Search
  <2> QED BY <1>0, <1>9, <2>1, <2>2, <2>3, <2>4 DEF Search, Taken
<1> QED BY <1>1, <1>2, <1>3, <1>4, <1>5, <1>6, <1>7, <1>8, <1>10
-----------------------------------------------------------------------------
(* Subscribers: the C interface                                             *)

\* The search of a publisher is not disturbed by what a subscriber does to itself.
LEMMA SubscriberSearch ==
    ASSUME IInv, NEW s \in Subscribers,
           UNCHANGED <<nodes, advertised, start, before, full>>,
           \A t \in Threads \ {s} : pc'[t] = pc[t] /\ key'[t] = key[t] /\ node'[t] = node[t]
    PROVE  Search'
<1>1. \A p \in Publishers : p \in Threads \ {s} BY KindsDiffer
<1>2. Holders' = Holders BY <1>1 DEF Holders
<1>3. Holders \subseteq Publishers BY DEF Holders
<1>4. \A p \in Publishers : \A q \in before[p] : q \in Publishers BY <1>3 DEF IInv, Search
<1> QED BY <1>1, <1>2, <1>3, <1>4 DEF IInv, Search, Taken

LEMMA SubscribeIInv ==
    ASSUME IInv, NEW s \in Subscribers, NEW k \in Wanted, Subscribe(s, k)
    PROVE  IInv'
<1> USE MasterAssumption, KindsDiffer DEF IInv
<1>0. /\ pc[s] = "idle" /\ slot[s] = 0 /\ node[s] = 0 /\ k \in Keys
      /\ key' = [key EXCEPT ![s] = k]
      /\ pc' = [pc EXCEPT ![s] = "find"]
      /\ UNCHANGED <<nodes, exists, list, made, lock, advertised, slots, start, node, slot, before,
                     full, failures>>
  BY DEF Subscribe, Go, Stages, registry, history
<1>a. pc \in [Threads -> Locations] /\ key \in [Threads -> Keys \cup {NoKey}]
  BY DEF TypeOK, Locations
<1>1. TypeOK'
  <2>1. Created' = Created BY <1>0 DEF Created
  <2> QED BY <1>0, <2>1 DEF TypeOK
<1>2. Stages' BY <1>0, <1>a DEF Stages
<1>3. Registry' BY <1>0, <1>a DEF Registry
<1>4. LockHeld' BY <1>0, <1>a DEF LockHeld
<1>5. OneNode' BY <1>0, <1>a DEF OneNode
<1>6. SlotsOwned' BY <1>0 DEF SlotsOwned
<1>7. Listed' BY <1>0, <1>a DEF Listed
<1>8. ListComplete' BY <1>0 DEF ListComplete
<1>9. Search' BY <1>0, <1>a, SubscriberSearch
<1> QED BY <1>1, <1>2, <1>3, <1>4, <1>5, <1>6, <1>7, <1>8, <1>9

LEMMA AllocSlotIInv == ASSUME IInv, NEW s \in Threads, AllocSlot(s) PROVE IInv'
<1> USE MasterAssumption, KindsDiffer DEF IInv
<1>0. /\ pc[s] = "alloc" /\ s \in Subscribers /\ slot[s] = 0 /\ key[s] \in Keys
      /\ pc' = [pc EXCEPT ![s] = "idle"]
      /\ UNCHANGED <<nodes, exists, list, made, lock, advertised, start, before, full, failures>>
  BY DEF AllocSlot, Go, Stages, registry, history
<1>b. \/ \E h \in Handles : /\ slots[h] = Nobody
                            /\ slots' = [slots EXCEPT ![h] = s]
                            /\ slot' = [slot EXCEPT ![s] = h]
                            /\ UNCHANGED <<node, key>>
      \/ /\ node' = [node EXCEPT ![s] = 0]
         /\ key' = [key EXCEPT ![s] = NoKey]
         /\ UNCHANGED <<slots, slot>>
  BY DEF AllocSlot
<1>a. pc \in [Threads -> Locations] /\ key \in [Threads -> Keys \cup {NoKey}]
      /\ slot \in [Threads -> {0} \cup Handles] /\ slots \in [Handles -> Subscribers \cup {Nobody}]
      /\ node \in [Threads -> {0} \cup Created] /\ 0 \notin Handles /\ 0 \notin Created
  BY DEF TypeOK, Locations, Handles, Created
<1>1. TypeOK'
  <2>1. Created' = Created BY <1>0 DEF Created
  <2>2. /\ node' \in [Threads -> {0} \cup Created] /\ key' \in [Threads -> Keys \cup {NoKey}]
        /\ slot' \in [Threads -> {0} \cup Handles] /\ slots' \in [Handles -> Subscribers \cup {Nobody}]
    BY <1>0, <1>a, <1>b
  <2> QED BY <1>0, <2>1, <2>2 DEF TypeOK
<1>2. Stages' BY <1>0, <1>a, <1>b DEF Stages
<1>3. Registry' BY <1>0, <1>a, <1>b DEF Registry
<1>4. LockHeld' BY <1>0, <1>a DEF LockHeld
<1>5. OneNode' BY <1>0, <1>a, <1>b DEF OneNode
<1>6. SlotsOwned' BY <1>0, <1>a, <1>b DEF SlotsOwned
<1>7. Listed' BY <1>0, <1>a, <1>b DEF Listed
<1>8. ListComplete' BY <1>0 DEF ListComplete
<1>9. Search' BY <1>0, <1>a, <1>b, SubscriberSearch
<1> QED BY <1>1, <1>2, <1>3, <1>4, <1>5, <1>6, <1>7, <1>8, <1>9

LEMMA AccessIInv == ASSUME IInv, NEW s \in Subscribers, Access(s) PROVE IInv'
<1> USE MasterAssumption, KindsDiffer DEF IInv
<1>0. /\ pc[s] = "idle" /\ slot[s] # 0 /\ node[s] = 0
      /\ pc' = [pc EXCEPT ![s] = "find"]
      /\ UNCHANGED <<nodes, exists, list, made, lock, advertised, slots, key, start, node, slot, before,
                     full, failures>>
  BY DEF Access, Go, registry, history
<1>a. pc \in [Threads -> Locations] BY DEF TypeOK, Locations
<1>1. TypeOK'
  <2>1. Created' = Created BY <1>0 DEF Created
  <2> QED BY <1>0, <2>1 DEF TypeOK
<1>2. Stages' BY <1>0, <1>a DEF Stages
<1>3. Registry' BY <1>0, <1>a DEF Registry
<1>4. LockHeld' BY <1>0, <1>a DEF LockHeld
<1>5. OneNode' BY <1>0, <1>a DEF OneNode
<1>6. SlotsOwned' BY <1>0 DEF SlotsOwned
<1>7. Listed' BY <1>0, <1>a DEF Listed
<1>8. ListComplete' BY <1>0 DEF ListComplete
<1>9. Search' BY <1>0, <1>a, SubscriberSearch
<1> QED BY <1>1, <1>2, <1>3, <1>4, <1>5, <1>6, <1>7, <1>8, <1>9

LEMMA UnsubscribeIInv == ASSUME IInv, NEW s \in Subscribers, Unsubscribe(s) PROVE IInv'
<1> USE MasterAssumption, KindsDiffer DEF IInv
<1>0. /\ pc[s] = "idle" /\ slot[s] \in Handles
      /\ slots' = [slots EXCEPT ![slot[s]] = Nobody]
      /\ slot' = [slot EXCEPT ![s] = 0]
      /\ node' = [node EXCEPT ![s] = 0]
      /\ key' = [key EXCEPT ![s] = NoKey]
      /\ UNCHANGED <<nodes, exists, list, made, lock, advertised, pc, start, before, full, failures>>
  BY DEF Unsubscribe, registry, history, TypeOK
<1>a. pc \in [Threads -> Locations] /\ key \in [Threads -> Keys \cup {NoKey}]
      /\ slot \in [Threads -> {0} \cup Handles] /\ slots \in [Handles -> Subscribers \cup {Nobody}]
      /\ node \in [Threads -> {0} \cup Created] /\ 0 \notin Handles /\ 0 \notin Created
  BY DEF TypeOK, Locations, Handles, Created
<1>1. TypeOK'
  <2>1. Created' = Created BY <1>0 DEF Created
  <2> QED BY <1>0, <2>1 DEF TypeOK
<1>2. Stages' BY <1>0, <1>a DEF Stages
<1>3. Registry' BY <1>0, <1>a DEF Registry
<1>4. LockHeld' BY <1>0, <1>a DEF LockHeld
<1>5. OneNode' BY <1>0, <1>a DEF OneNode
<1>6. SlotsOwned' BY <1>0, <1>a DEF SlotsOwned
<1>7. Listed' BY <1>0, <1>a DEF Listed
<1>8. ListComplete' BY <1>0 DEF ListComplete
<1>9. Search' BY <1>0, <1>a, SubscriberSearch
<1> QED BY <1>1, <1>2, <1>3, <1>4, <1>5, <1>6, <1>7, <1>8, <1>9
-----------------------------------------------------------------------------
(* The theorems                                                             *)

LEMMA StepIInv == IInv /\ [Next]_vars => IInv'
<1> SUFFICES ASSUME IInv, [Next]_vars PROVE IInv' OBVIOUS
<1>1. CASE \E t \in Threads : Progress(t)
  BY <1>1, FindIInv, CreateIInv, StoreNodeIInv, LinkIInv, SetExistsIInv, ScanIInv, MarkIInv,
     AllocSlotIInv DEF Progress
<1>2. CASE \E p \in Publishers : \E i \in IF p \in Multi THEN Starts ELSE {0} : Advertise(p, i)
  BY <1>2, AdvertiseIInv, KeyIs, MasterAssumption
<1>3. CASE \E p \in Publishers : Unadvertise(p)
  BY <1>3, UnadvertiseIInv
<1>4. CASE \E s \in Subscribers : (\E k \in Wanted : Subscribe(s, k)) \/ Access(s) \/ Unsubscribe(s)
  BY <1>4, SubscribeIInv, AccessIInv, UnsubscribeIInv
<1>5. CASE UNCHANGED vars
  <2>1. Holders' = Holders BY <1>5 DEF vars, Holders
  <2> QED BY <1>5, <2>1 DEF vars, registry, history, IInv, TypeOK, Created, Stages, Registry,
                            LockHeld, OneNode, SlotsOwned, Listed, ListComplete, Search, Taken
<1> QED BY <1>1, <1>2, <1>3, <1>4, <1>5 DEF Next

\* The inductive invariant.
THEOREM Invariance == Spec => []IInv
BY InitIInv, StepIInv, PTL DEF Spec

\* Every variable keeps its type: the list of nodes is never cut and no descriptor is
\* out of range.
THEOREM TypeCorrect == Spec => []TypeOK
<1>1. IInv => TypeOK BY DEF IInv
<1> QED BY <1>1, Invariance, PTL

\* However the calls of orb_advertise and orb_subscribe interleave, all who ask for an
\* instance of a topic get the same node.
THEOREM NodesShared == Spec => []OneNode
<1>1. IInv => OneNode BY DEF IInv
<1> QED BY <1>1, Invariance, PTL

\* Every node that exists is in the list once, and the list is sorted, whatever the order
\* of the creations.
THEOREM ListCorrect == Spec => []ListComplete
<1>1. IInv => ListComplete BY DEF IInv
<1> QED BY <1>1, Invariance, PTL

\* Descriptors are neither shared nor lost.
THEOREM SlotsCorrect == Spec => []SlotsOwned
<1>1. IInv => SlotsOwned BY DEF IInv
<1> QED BY <1>1, Invariance, PTL

\* The lock is held only by the one thread that creates a node.
THEOREM LockCorrect == Spec => []LockHeld
<1>1. IInv => LockHeld BY DEF IInv
<1> QED BY <1>1, Invariance, PTL

\* A search never ends at an instance that was in use when it began, unless all were
\* advertised.
THEOREM SearchCorrect == Spec => []OwnInstance
<1>1. ASSUME IInv PROVE OwnInstance
  <2> SUFFICES ASSUME NEW p \in Multi \cap Holders, NEW q \in before[p] \ {p}, node[q] = node[p]
               PROVE  full[p]
    BY DEF OwnInstance
  <2>1. p \in Publishers /\ p \in Threads BY DEF Holders, Publishers, Threads
  <2>2. q \in Holders /\ q \in Threads BY <1>1, <2>1, KindsDiffer DEF IInv, Search, Holders
  <2>3. key[q] = key[p] BY <1>1, <2>1, <2>2 DEF IInv, OneNode, Holders
  <2>4. pc[p] \in Looking BY DEF Holders, Looking
  <2> QED BY <1>1, <2>1, <2>3, <2>4 DEF IInv, Search
<1> QED BY <1>1, Invariance, PTL
=============================================================================
