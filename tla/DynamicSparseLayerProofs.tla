---------------------- MODULE DynamicSparseLayerProofs ----------------------
(***************************************************************************)
(* What holds of the layer for any number of threads that grow it at the   *)
(* same time, of parameters, addresses and calls.                          *)
(*                                                                         *)
(* The memory: the inductive invariant IInv adds to NoLeak that the arrays *)
(* in use are different ones (Apart), and that an array a thread brings    *)
(* back is one step larger than the one in use, or not larger at all when  *)
(* the layer has grown meanwhile (Sizes).                                  *)
(*                                                                         *)
(* The contents: the array stays in order (Ordered), so that the binary    *)
(* search of _getIndex finds what is there (SearchIs).  With it every step *)
(* that changes the array is a store or a reset of one parameter (Applied),*)
(* which makes the layer a map.                                            *)
(***************************************************************************)
EXTENDS DynamicSparseLayer, SequenceTheorems, WellFoundedInduction, TLAPS

Places == {"idle", "store", "malloc", "exchange", "free", "insert", "reset"}

\* The types of what the memory depends on.
Memory ==
    /\ array \in Addresses
    /\ nSlots \in Nat \ {0}
    /\ size \in [Addresses -> Nat]
    /\ pc \in [Threads -> Places]
    /\ previous \in [Threads -> Addresses \cup {None}]
    /\ new \in [Threads -> Addresses \cup {None}]

\* The arrays that threads hold are none of each other's and not the layer's.
Apart ==
    /\ \A t \in Threads :
        /\ new[t] # None => new[t] # array /\ pc[t] \in {"malloc", "exchange"}
        /\ pc[t] = "free" => previous[t] # array
        /\ pc[t] \in {"malloc", "exchange", "free"} => previous[t] # None
    /\ \A t, u \in Threads :
        /\ new[t] # None /\ t # u => new[t] # new[u]
        /\ pc[t] = "free" => previous[t] # new[u]
        /\ pc[t] = "free" /\ pc[u] = "free" /\ t # u => previous[t] # previous[u]

\* A new array is larger than the layer's, unless that grew meanwhile.
Sizes ==
    \A t \in Threads : pc[t] = "exchange" /\ new[t] # None =>
        size[new[t]] <= nSlots \/ size[new[t]] = nSlots + Grow

IInv == Memory /\ NoLeak /\ Apart /\ Sizes
-----------------------------------------------------------------------------
LEMMA InitIInv == Init => IInv
<1> SUFFICES ASSUME Init PROVE IInv OBVIOUS
<1> USE LayerAssumption DEF Init
<1>1. Prealloc \in Nat \ {0} OBVIOUS
<1>2. Memory BY <1>1 DEF Memory, Places
<1>3. NoLeak BY <1>1 DEF NoLeak
<1>4. Apart BY DEF Apart
<1>5. Sizes BY DEF Sizes
<1> QED BY <1>2, <1>3, <1>4, <1>5 DEF IInv

\* What a thread does that ends its call, or only moves on without an array of its own.
LEMMA AsideIInv ==
    ASSUME IInv, NEW t \in Threads, pc[t] # "free",
           new[t] = None, new'[t] = None,
           pc'[t] \in Places \ {"exchange", "free"},
           pc'[t] = "malloc" => previous'[t] \in Addresses,
           previous'[t] \in Addresses \cup {None},
           pc' = [pc EXCEPT ![t] = pc'[t]],
           new' = [new EXCEPT ![t] = new'[t]],
           previous' = [previous EXCEPT ![t] = previous'[t]],
           UNCHANGED <<array, nSlots, size>>
    PROVE  IInv'
<1> USE LayerAssumption DEF IInv
<1>0. \A u \in Threads \ {t} : pc'[u] = pc[u] /\ new'[u] = new[u] /\ previous'[u] = previous[u]
  BY DEF Memory
<1>1. Memory'
  <2>1. pc' \in [Threads -> Places] BY DEF Memory, Places
  <2>2. previous' \in [Threads -> Addresses \cup {None}] /\ new' \in [Threads -> Addresses \cup {None}]
    BY DEF Memory
  <2> QED BY <2>1, <2>2 DEF Memory
<1>2. NoLeak' BY <1>0 DEF NoLeak, Memory
<1>3. Apart' BY <1>0 DEF Apart, Memory
<1>4. Sizes' BY <1>0 DEF Sizes
<1> QED BY <1>1, <1>2, <1>3, <1>4

LEMMA MallocIInv == ASSUME IInv, NEW t \in Threads, Malloc(t) PROVE IInv'
<1> USE LayerAssumption DEF IInv
<1> DEFINE freed == [a \in Addresses |-> IF a = new[t] THEN 0 ELSE size[a]]
<1>0. /\ pc[t] = "malloc"
      /\ pc' = [pc EXCEPT ![t] = "exchange"]
      /\ UNCHANGED <<array, nSlots, previous>>
  BY DEF Malloc
<1>a. nSlots + Grow \in Nat \ {0} /\ None \notin Addresses BY DEF Memory
<1>1. CASE new' = [new EXCEPT ![t] = None] /\ size' = freed
  <2>1. Memory' BY <1>0, <1>1 DEF Memory, Places
  <2>2. NoLeak' BY <1>0, <1>1 DEF NoLeak, Apart, Memory
  <2>3. Apart' BY <1>0, <1>1 DEF Apart, Memory
  <2>4. Sizes'
    <3>1. \A u \in Threads : new'[u] # None => u # t /\ new'[u] = new[u] /\ size'[new[u]] = size[new[u]]
      BY <1>1 DEF Memory, Apart
    <3> QED BY <1>0, <3>1 DEF Sizes, Memory
  <2> QED BY <2>1, <2>2, <2>3, <2>4
<1>2. ASSUME NEW a \in Addresses, freed[a] = 0, new' = [new EXCEPT ![t] = a],
             size' = [freed EXCEPT ![a] = nSlots + Grow]
      PROVE  IInv'
  <2>0. /\ a # array /\ \A u \in Threads \ {t} : a # new[u] /\ (pc[u] = "free" => a # previous[u])
    <3>1. size[array] # 0 /\ array # new[t] BY DEF NoLeak, Apart, Memory
    <3>2. \A u \in Threads \ {t} : new[u] \in Addresses => size[new[u]] # 0 /\ new[u] # new[t]
      BY <1>a DEF NoLeak, Apart, Memory
    <3>3. \A u \in Threads \ {t} : pc[u] = "free" =>
            previous[u] \in Addresses /\ size[previous[u]] # 0 /\ previous[u] # new[t]
      BY <1>a DEF NoLeak, Apart, Memory
    <3> QED BY <1>2, <3>1, <3>2, <3>3 DEF Memory
  <2>1. Memory' BY <1>0, <1>2, <1>a DEF Memory, Places
  <2>2. NoLeak'
    <3> SUFFICES ASSUME NEW b \in Addresses
                 PROVE  size'[b] # 0 <=>
                            \/ b = array
                            \/ \E u \in Threads : b = new'[u] \/ (pc'[u] = "free" /\ b = previous[u])
      BY <1>0 DEF NoLeak
    <3>1. CASE b = a BY <3>1, <1>2, <1>a DEF Memory
    <3>2. CASE b # a
      <4>1. size'[b] = IF b = new[t] THEN 0 ELSE size[b] BY <3>2, <1>2
      <4>2. \A u \in Threads \ {t} : new'[u] = new[u] /\ pc'[u] = pc[u] BY <1>0, <1>2 DEF Memory
      <4>3. new'[t] = a /\ pc'[t] = "exchange" BY <1>0, <1>2 DEF Memory
      <4> QED BY <3>2, <4>1, <4>2, <4>3, <1>0 DEF NoLeak, Apart
    <3> QED BY <3>1, <3>2
  <2>3. Apart' BY <1>0, <1>2, <1>a, <2>0 DEF Apart, Memory
  <2>4. Sizes'
    <3>1. size'[a] = nSlots + Grow /\ new'[t] = a BY <1>2 DEF Memory
    <3>2. \A u \in Threads \ {t} : new'[u] = new[u] /\ pc'[u] = pc[u]
          /\ (new[u] # None => size'[new[u]] = size[new[u]])
      BY <1>0, <1>2, <2>0 DEF Memory, Apart
    <3> QED BY <1>0, <3>1, <3>2 DEF Sizes
  <2> QED BY <2>1, <2>2, <2>3, <2>4
<1> QED BY <1>1, <1>2 DEF Malloc

LEMMA ExchangeIInv == ASSUME IInv, NEW t \in Threads, Exchange(t) PROVE IInv'
<1> USE LayerAssumption DEF IInv
<1>0. pc[t] = "exchange" /\ size' = size BY DEF Exchange
<1>1. CASE new[t] = None /\ Return(t, FALSE) /\ UNCHANGED <<array, nSlots>>
  BY <1>0, <1>1, AsideIInv DEF Return, Memory, Places
<1>2. CASE /\ new[t] # None /\ array = previous[t]
           /\ array' = new[t]
           /\ nSlots' = nSlots + Grow
           /\ new' = [new EXCEPT ![t] = None]
           /\ pc' = [pc EXCEPT ![t] = "free"]
           /\ UNCHANGED <<want, previous, retries>>
  <2>1. Memory' BY <1>0, <1>2 DEF Memory, Places
  <2>2. NoLeak' BY <1>0, <1>2 DEF NoLeak, Memory
  <2>3. Apart' BY <1>0, <1>2 DEF Apart, Memory
  <2>4. Sizes'
    <3>1. \A u \in Threads : pc'[u] = "exchange" /\ new'[u] # None =>
            pc[u] = "exchange" /\ new'[u] = new[u] /\ size[new[u]] \in Nat
      BY <1>2 DEF Memory
    <3> QED BY <1>0, <1>2, <3>1 DEF Sizes, Memory
  <2> QED BY <2>1, <2>2, <2>3, <2>4
<1>3. CASE /\ previous' = [previous EXCEPT ![t] = array]
           /\ pc' = [pc EXCEPT ![t] = "malloc"]
           /\ UNCHANGED <<array, nSlots, want, new, retries>>
  <2>1. Memory' BY <1>0, <1>3 DEF Memory, Places
  <2>2. NoLeak' BY <1>0, <1>3 DEF NoLeak, Memory
  <2>3. Apart' BY <1>0, <1>3 DEF Apart, Memory
  <2>4. Sizes' BY <1>0, <1>3 DEF Sizes, Memory
  <2> QED BY <2>1, <2>2, <2>3, <2>4
<1> QED BY <1>1, <1>2, <1>3 DEF Exchange

LEMMA FreeIInv == ASSUME IInv, NEW t \in Threads, Free(t) PROVE IInv'
<1> USE LayerAssumption DEF IInv
<1>0. /\ pc[t] = "free" /\ previous[t] \in Addresses
      /\ size' = [size EXCEPT ![previous[t]] = 0]
      /\ pc' = [pc EXCEPT ![t] = "insert"]
      /\ UNCHANGED <<array, nSlots, previous, new>>
  BY DEF Free, Memory, Apart
<1>1. Memory' BY <1>0 DEF Memory, Places
<1>2. NoLeak' BY <1>0 DEF NoLeak, Apart, Memory
<1>3. Apart' BY <1>0 DEF Apart, Memory
<1>4. Sizes' BY <1>0 DEF Sizes, Memory, Apart
<1> QED BY <1>1, <1>2, <1>3, <1>4

LEMMA RegrowIInv ==
    ASSUME IInv, NEW t \in Threads, NEW n, Regrow(t, n), pc[t] \in {"store", "insert"},
           UNCHANGED <<array, nSlots, size>>
    PROVE  IInv'
<1>1. new[t] = None BY DEF IInv, Apart
<1> QED BY <1>1, AsideIInv DEF Regrow, IInv, Memory, Places

LEMMA ReturnIInv ==
    ASSUME IInv, NEW t \in Threads, NEW r, Return(t, r), pc[t] \in {"store", "insert", "reset"},
           UNCHANGED <<array, nSlots, size>>
    PROVE  IInv'
<1>1. new[t] = None BY DEF IInv, Apart
<1> QED BY <1>1, AsideIInv DEF Return, IInv, Memory, Places

LEMMA StepIInv == IInv /\ [Next]_vars => IInv'
<1> SUFFICES ASSUME IInv, [Next]_vars PROVE IInv' OBVIOUS
<1>1. ASSUME NEW t \in Threads, NEW p, NEW v, Begin(t, p, v) PROVE IInv'
  <2>1. new[t] = None BY <1>1 DEF Begin, IInv, Apart
  <2> QED BY <1>1, <2>1, AsideIInv DEF Begin, IInv, Memory, Places
<1>2. ASSUME NEW t \in Threads, Store(t) PROVE IInv'
  BY <1>2, RegrowIInv, ReturnIInv DEF Store
<1>3. ASSUME NEW t \in Threads, Insert(t) PROVE IInv'
  BY <1>3, RegrowIInv, ReturnIInv DEF Insert
<1>4. ASSUME NEW t \in Threads, Reset(t) PROVE IInv'
  BY <1>4, ReturnIInv DEF Reset
<1>5. CASE UNCHANGED vars
  BY <1>5 DEF vars, IInv, Memory, NoLeak, Apart, Sizes
<1> QED BY <1>1, <1>2, <1>3, <1>4, <1>5, MallocIInv, ExchangeIInv, FreeIInv DEF Next

\* The inductive invariant.
THEOREM Invariance == Spec => []IInv
BY InitIInv, StepIInv, PTL DEF Spec

\* However many threads grow the array at the same time, the memory in use is the array
\* and what they hold: none is lost, and none freed while in use or twice.
THEOREM MemoryOwned == Spec => []NoLeak
<1>1. IInv => NoLeak BY DEF IInv
<1> QED BY <1>1, Invariance, PTL
-----------------------------------------------------------------------------
(* The search                                                              *)

\* The slots of an array: any number of parameters with their values
Slot == [param : Params, value : Values]

\* _getIndex as an operator of the array.
Search(s, p) ==
    LET search[range \in (1..Len(s) + 1) \X (0..Len(s))] ==
          LET l == range[1]  r == range[2]  mid == (l + r) \div 2
          IN  IF l > r THEN 0
              ELSE IF s[mid].param = p THEN mid
              ELSE IF s[mid].param < p THEN search[<<mid + 1, r>>]
              ELSE search[<<l, mid - 1>>]
    IN  search[<<1, Len(s)>>]

\* One turn of the search, where f finds what the shorter ranges hold.
Turn(s, p, f, range) ==
    LET l == range[1]  r == range[2]  mid == (l + r) \div 2
    IN  IF l > r THEN 0
        ELSE IF s[mid].param = p THEN mid
        ELSE IF s[mid].param < p THEN f[<<mid + 1, r>>]
        ELSE f[<<l, mid - 1>>]

\* The ranges that a search can reach.
Ranges(s) == (1..Len(s) + 1) \X (0..Len(s))

LEMMA IndexIsSearch == \A p : Index(p) = Search(slots, p)
BY DEF Index, Search

\* The least number of a set of numbers.
LEMMA LeastOf == ASSUME NEW S \in SUBSET Nat, S # {} PROVE \E k \in S : \A m \in S : k <= m
<1> DEFINE R == OpToRel(<, Nat)
<1>1. IsWellFoundedOn(R, Nat)
  BY NatLessThanWellFounded, Zenon
<1>2. \A x, y \in Nat : x < y => <<x, y>> \in R
  BY Zenon DEF OpToRel
<1> HIDE DEF R
<1>4. PICK k \in S : \A m \in S : ~ (<<m, k>> \in R)
  BY <1>1, WFMin, Zenon
<1>5. \A m \in S : ~ (m < k)
  BY <1>2, <1>4, Zenon
<1> QED
  BY <1>5

\* The middle of a range is inside, and so are the ranges on both sides.
LEMMA Middle ==
    ASSUME NEW n \in Nat, NEW l \in 1..n + 1, NEW r \in 0..n, l <= r
    PROVE  /\ (l + r) \div 2 \in l..r
           /\ (l + r) \div 2 + 1 \in 1..n + 1
           /\ (l + r) \div 2 - 1 \in 0..n
OBVIOUS

\* The function that _getIndex computes exists: it is found range by range.
LEMMA SearchExists ==
    ASSUME NEW s \in Seq(Slot), NEW p \in Params
    PROVE  \E f : /\ f = [range \in Ranges(s) |-> Turn(s, p, f, range)]
                  /\ Search(s, p) = f[<<1, Len(s)>>]
<1> DEFINE Good(f, n) ==
              /\ f \in [Ranges(s) -> Nat]
              /\ \A x \in Ranges(s) : x[2] - x[1] < n => f[x] = Turn(s, p, f, x)
           Bad == {n \in Nat : ~ \E f : Good(f, n)}
<1>1. Len(s) \in Nat
  OBVIOUS
<1>2. \A x \in Ranges(s) : x[1] <= x[2] =>
        LET mid == (x[1] + x[2]) \div 2 IN
        /\ mid \in x[1]..x[2]
        /\ <<mid + 1, x[2]>> \in Ranges(s)
        /\ <<x[1], mid - 1>> \in Ranges(s)
  BY <1>1, Middle DEF Ranges
<1>3. \A x \in Ranges(s) : x[1] \in Nat /\ x[2] \in Nat
  BY <1>1 DEF Ranges
<1>4. ASSUME NEW f \in [Ranges(s) -> Nat], NEW x \in Ranges(s) PROVE Turn(s, p, f, x) \in Nat
  BY <1>2, <1>3 DEF Turn
<1>5. \E f : Good(f, 0)
  <2> DEFINE f == [x \in Ranges(s) |-> 0]
  <2>1. f \in [Ranges(s) -> Nat] /\ \A x \in Ranges(s) : f[x] = 0
    OBVIOUS
  <2> HIDE DEF f
  <2> QED
    BY <1>3, <2>1 DEF Turn
<1>6. ASSUME NEW n \in Nat, NEW f, Good(f, n) PROVE \E g : Good(g, n + 1)
  <2> DEFINE g == [x \in Ranges(s) |-> Turn(s, p, f, x)]
  <2>1. g \in [Ranges(s) -> Nat] /\ \A x \in Ranges(s) : g[x] = Turn(s, p, f, x)
    BY <1>4, <1>6
  <2> HIDE DEF g
  <2>2. \A x \in Ranges(s) : x[2] - x[1] < n => g[x] = f[x]
    BY <1>6, <2>1
  <2>3. ASSUME NEW x \in Ranges(s), x[2] - x[1] < n + 1 PROVE Turn(s, p, g, x) = Turn(s, p, f, x)
    <3>1. CASE x[1] > x[2]
      BY <3>1 DEF Turn
    <3>2. CASE x[1] <= x[2]
      <4>1. PICK mid : mid = (x[1] + x[2]) \div 2
        OBVIOUS
      <4>2. /\ mid \in x[1]..x[2]
            /\ <<mid + 1, x[2]>> \in Ranges(s)
            /\ <<x[1], mid - 1>> \in Ranges(s)
        BY <1>2, <3>2, <4>1
      <4>3. g[<<mid + 1, x[2]>>] = f[<<mid + 1, x[2]>>] /\ g[<<x[1], mid - 1>>] = f[<<x[1], mid - 1>>]
        BY <1>3, <2>2, <2>3, <4>2
      <4> QED
        BY <4>1, <4>3 DEF Turn
    <3> QED
      BY <1>3, <3>1, <3>2
  <2> QED
    BY <2>1, <2>3
<1>7. Bad = {}
  <2>1. SUFFICES ASSUME Bad # {} PROVE FALSE
    OBVIOUS
  <2>2. PICK n \in Bad : \A m \in Bad : n <= m
    <3>1. Bad \in SUBSET Nat
      OBVIOUS
    <3> HIDE DEF Bad
    <3> QED
      BY <2>1, <3>1, LeastOf
  <2>3. n \in Nat /\ n # 0
    BY <1>5
  <2>4. n - 1 \in Nat /\ n - 1 \notin Bad
    <3> HIDE DEF Bad
    <3> QED
      BY <2>2, <2>3
  <2>5. PICK f : Good(f, n - 1)
    BY <2>4
  <2>6. \E g : Good(g, (n - 1) + 1)
    <3> HIDE DEF Good
    <3> QED
      BY <1>6, <2>3, <2>4, <2>5
  <2>7. (n - 1) + 1 = n
    BY <2>3
  <2> QED
    BY <2>2, <2>6, <2>7
<1>8. PICK f : Good(f, Len(s))
  BY <1>1, <1>7
<1>9. f = [x \in Ranges(s) |-> Turn(s, p, f, x)]
  BY <1>1, <1>8 DEF Ranges
<1> DEFINE Is(h) == h = [x \in Ranges(s) |-> Turn(s, p, h, x)]
<1>10. Search(s, p) = (CHOOSE h : Is(h))[<<1, Len(s)>>]
  BY DEF Search, Turn, Ranges
<1>11. \E h : Is(h)
  BY <1>9
<1>12. Is(CHOOSE h : Is(h))
  <2> HIDE DEF Is
  <2> QED
    BY <1>11, Zenon
<1> QED
  BY <1>10, <1>12

\* The array is in the order of the parameters.
Ordered(s) == \A i, j \in 1..Len(s) : i <= j => s[i].param <= s[j].param

\* The search finds a place of the parameter, and finds one if there is one and the array
\* is in order.
LEMMA SearchIs ==
    ASSUME NEW s \in Seq(Slot), NEW p \in Params
    PROVE  /\ Search(s, p) \in 0..Len(s)
           /\ Search(s, p) # 0 => s[Search(s, p)].param = p
           /\ Ordered(s) /\ Search(s, p) = 0 => \A k \in 1..Len(s) : s[k].param # p
<1>1. PICK f : /\ f = [x \in Ranges(s) |-> Turn(s, p, f, x)]
               /\ Search(s, p) = f[<<1, Len(s)>>]
  BY SearchExists
<1>2. \A x \in Ranges(s) : f[x] = Turn(s, p, f, x)
  BY <1>1
<1>3. Len(s) \in Nat /\ \A k \in 1..Len(s) : s[k].param \in Nat
  <2>1. Len(s) \in Nat /\ \A k \in 1..Len(s) : s[k] \in Slot
    OBVIOUS
  <2> QED
    BY <2>1, LayerAssumption DEF Slot
<1>4. p \in Nat
  BY LayerAssumption
<1>5. \A x \in Ranges(s) : x[1] \in 1..Len(s) + 1 /\ x[2] \in 0..Len(s)
  BY <1>3 DEF Ranges
<1> DEFINE Good(x) ==
              /\ f[x] \in 0..Len(s)
              /\ f[x] # 0 => s[f[x]].param = p
              /\ Ordered(s) /\ f[x] = 0 => \A k \in x[1]..x[2] : s[k].param # p
           Weight(x) == Len(s) + 1 + x[2] - x[1]
           Bad == {n \in Nat : \E x \in Ranges(s) : n = Weight(x) /\ ~Good(x)}
<1>6. \A x \in Ranges(s) : Weight(x) \in Nat
  BY <1>3, <1>5
<1>7. ASSUME NEW x \in Ranges(s), \A y \in Ranges(s) : Weight(y) < Weight(x) => Good(y)
      PROVE  Good(x)
  <2>1. CASE x[1] > x[2]
    <3>1. f[x] = 0
      BY <1>2, <2>1 DEF Turn
    <3> QED
      BY <1>3, <1>5, <2>1, <3>1
  <2>2. CASE x[1] <= x[2]
    <3>1. PICK mid : mid = (x[1] + x[2]) \div 2
      OBVIOUS
    <3>2. /\ mid \in x[1]..x[2] /\ mid \in 1..Len(s)
          /\ <<mid + 1, x[2]>> \in Ranges(s)
          /\ <<x[1], mid - 1>> \in Ranges(s)
      BY <1>3, <1>5, <2>2, <3>1, Middle DEF Ranges
    <3>3. /\ s[mid].param = p => f[x] = mid
          /\ s[mid].param # p /\ s[mid].param < p => f[x] = f[<<mid + 1, x[2]>>]
          /\ s[mid].param # p /\ ~(s[mid].param < p) => f[x] = f[<<x[1], mid - 1>>]
      BY <1>2, <1>5, <2>2, <3>1 DEF Turn
    <3>4. CASE s[mid].param = p
      BY <3>2, <3>3, <3>4
    <3>5. CASE s[mid].param # p /\ s[mid].param < p
      <4>1. Good(<<mid + 1, x[2]>>)
        <5>1. Weight(<<mid + 1, x[2]>>) < Weight(x)
          BY <1>3, <1>5, <3>2
        <5> HIDE DEF Good, Weight
        <5> QED
          BY <1>7, <3>2, <5>1
      <4>2. ASSUME Ordered(s), NEW k \in x[1]..x[2], s[k].param = p PROVE k \in mid + 1..x[2]
        <5>1. k \in 1..Len(s)
          BY <1>3, <1>5, <4>2
        <5>2. ~(k <= mid)
          BY <1>3, <1>4, <3>2, <3>5, <4>2, <5>1 DEF Ordered
        <5> QED
          BY <1>5, <3>2, <4>2, <5>2
      <4> QED
        BY <3>3, <3>5, <4>1, <4>2
    <3>6. CASE s[mid].param # p /\ ~(s[mid].param < p)
      <4>1. Good(<<x[1], mid - 1>>)
        <5>1. Weight(<<x[1], mid - 1>>) < Weight(x)
          BY <1>3, <1>5, <3>2
        <5> HIDE DEF Good, Weight
        <5> QED
          BY <1>7, <3>2, <5>1
      <4>2. ASSUME Ordered(s), NEW k \in x[1]..x[2], s[k].param = p PROVE k \in x[1]..mid - 1
        <5>1. k \in 1..Len(s)
          BY <1>3, <1>5, <4>2
        <5>2. ~(mid <= k)
          BY <1>3, <1>4, <3>2, <3>6, <4>2, <5>1 DEF Ordered
        <5> QED
          BY <1>5, <3>2, <4>2, <5>2
      <4> QED
        BY <3>3, <3>6, <4>1, <4>2
    <3> QED
      BY <3>4, <3>5, <3>6
  <2> QED
    BY <1>5, <2>1, <2>2
<1>8. Bad = {}
  <2>1. SUFFICES ASSUME Bad # {} PROVE FALSE
    OBVIOUS
  <2>2. PICK n \in Bad : \A m \in Bad : n <= m
    <3>1. Bad \in SUBSET Nat
      OBVIOUS
    <3> HIDE DEF Bad
    <3> QED
      BY <2>1, <3>1, LeastOf
  <2>3. PICK x \in Ranges(s) : n = Weight(x) /\ ~Good(x)
    OBVIOUS
  <2>4. ASSUME NEW y \in Ranges(s), Weight(y) < Weight(x) PROVE Good(y)
    <3>1. Weight(y) \notin Bad
      <4> HIDE DEF Bad, Weight
      <4> QED
        BY <1>6, <2>2, <2>3, <2>4
    <3> HIDE DEF Good, Weight
    <3> QED
      BY <1>6, <3>1, <2>4
  <2> HIDE DEF Good, Weight
  <2> QED
    BY <1>7, <2>3, <2>4
<1>9. Good(<<1, Len(s)>>)
  <2>1. <<1, Len(s)>> \in Ranges(s)
    BY <1>3 DEF Ranges
  <2> HIDE DEF Good, Weight
  <2> QED
    BY <1>6, <1>8, <2>1
<1> QED
  BY <1>1, <1>9

\* Neighbours in order make an array in order.
LEMMA NeighboursOrdered ==
    ASSUME NEW s \in Seq(Slot), \A i \in 1..Len(s) - 1 : s[i].param <= s[i + 1].param
    PROVE  Ordered(s)
<1>1. Len(s) \in Nat /\ \A k \in 1..Len(s) : s[k].param \in Nat
  <2>1. Len(s) \in Nat /\ \A k \in 1..Len(s) : s[k] \in Slot
    OBVIOUS
  <2> QED
    BY <2>1, LayerAssumption DEF Slot
<1>2. SUFFICES ASSUME NEW i \in 1..Len(s) PROVE \A j \in 1..Len(s) : i <= j => s[i].param <= s[j].param
  BY DEF Ordered
<1> DEFINE Bad == {j \in 1..Len(s) : i <= j /\ ~(s[i].param <= s[j].param)}
<1>3. SUFFICES ASSUME Bad # {} PROVE FALSE
  OBVIOUS
<1>4. PICK j \in Bad : \A m \in Bad : j <= m
  <2>1. Bad \in SUBSET Nat
    BY <1>1
  <2> HIDE DEF Bad
  <2> QED
    BY <1>3, <2>1, LeastOf
<1>5. j \in 1..Len(s) /\ i < j /\ ~(s[i].param <= s[j].param)
  BY <1>1
<1>6. j - 1 \in 1..Len(s) - 1 /\ (j - 1) + 1 = j /\ i <= j - 1
  BY <1>1, <1>5
<1>7. j - 1 \notin Bad
  <2> HIDE DEF Bad
  <2> QED
    BY <1>4, <1>5
<1>8. s[i].param <= s[j - 1].param
  BY <1>1, <1>6, <1>7
<1>9. s[j - 1].param <= s[j].param
  BY <1>1, <1>6
<1> QED
  BY <1>1, <1>5, <1>6, <1>8, <1>9

\* What InsertAt makes of an array, and what RemoveAt does.
LEMMA InsertAtIs ==
    ASSUME NEW s \in Seq(Slot), NEW e \in Slot, NEW i \in 1..Len(s) + 1
    PROVE  /\ InsertAt(s, i, e) \in Seq(Slot)
           /\ Len(InsertAt(s, i, e)) = Len(s) + 1
           /\ \A k \in 1..Len(s) + 1 :
                InsertAt(s, i, e)[k] = IF k < i THEN s[k] ELSE IF k = i THEN e ELSE s[k - 1]
<1> DEFINE a == SubSeq(s, 1, i - 1)
           b == SubSeq(s, i, Len(s))
<1>1. Len(s) \in Nat /\ \A k \in 1..Len(s) : s[k] \in Slot
  OBVIOUS
<1>2. /\ a \in Seq(Slot) /\ Len(a) = i - 1
      /\ \A k \in 1..i - 1 : a[k] = s[k]
  <2>1. 1 \in Int /\ i - 1 \in Int /\ \A k \in 1..i - 1 : s[k] \in Slot
    BY <1>1
  <2>2. /\ a \in Seq(Slot) /\ Len(a) = IF 1 <= i - 1 THEN (i - 1) - 1 + 1 ELSE 0
        /\ \A k \in 1..(i - 1) - 1 + 1 : a[k] = s[1 + k - 1]
    BY <2>1, SubSeqProperties
  <2> HIDE DEF a
  <2> QED
    BY <1>1, <2>2
<1>3. /\ b \in Seq(Slot) /\ Len(b) = Len(s) + 1 - i
      /\ \A k \in 1..Len(s) + 1 - i : b[k] = s[i + k - 1]
  <2>1. i \in Int /\ Len(s) \in Int /\ \A k \in i..Len(s) : s[k] \in Slot
    BY <1>1
  <2>2. /\ b \in Seq(Slot) /\ Len(b) = IF i <= Len(s) THEN Len(s) - i + 1 ELSE 0
        /\ \A k \in 1..Len(s) - i + 1 : b[k] = s[i + k - 1]
    BY <2>1, SubSeqProperties
  <2> HIDE DEF b
  <2> QED
    BY <1>1, <2>2
<1> HIDE DEF a, b
<1>4. <<e>> \in Seq(Slot) /\ Len(<<e>>) = 1 /\ <<e>>[1] = e
  OBVIOUS
<1> DEFINE c == a \o <<e>>
<1>5. /\ c \in Seq(Slot) /\ Len(c) = i
      /\ \A k \in 1..i : c[k] = IF k <= i - 1 THEN a[k] ELSE e
  <2>1. /\ c \in Seq(Slot) /\ Len(c) = Len(a) + Len(<<e>>)
        /\ \A k \in 1..Len(a) + Len(<<e>>) :
             c[k] = IF k <= Len(a) THEN a[k] ELSE <<e>>[k - Len(a)]
    BY <1>2, <1>4, ConcatProperties
  <2> HIDE DEF c
  <2>2. (i - 1) + 1 = i /\ i - (i - 1) = 1
    BY <1>1
  <2>3. ASSUME NEW k \in 1..i, ~(k <= i - 1) PROVE k - (i - 1) = 1
    BY <1>1, <2>3
  <2> QED
    BY <1>2, <1>4, <2>1, <2>2, <2>3
<1> HIDE DEF c
<1> DEFINE d == c \o b
<1>6. /\ d \in Seq(Slot) /\ Len(d) = Len(c) + Len(b)
      /\ \A k \in 1..Len(c) + Len(b) : d[k] = IF k <= Len(c) THEN c[k] ELSE b[k - Len(c)]
  BY <1>3, <1>5, ConcatProperties
<1>7. InsertAt(s, i, e) = d
  BY DEF InsertAt, a, b, c
<1> HIDE DEF d
<1>8. Len(c) + Len(b) = Len(s) + 1
  BY <1>1, <1>3, <1>5
<1>9. ASSUME NEW k \in 1..Len(s) + 1
      PROVE  d[k] = IF k < i THEN s[k] ELSE IF k = i THEN e ELSE s[k - 1]
  <2>1. CASE k < i
    BY <1>1, <1>2, <1>5, <1>6, <1>8, <2>1
  <2>2. CASE k = i
    BY <1>1, <1>5, <1>6, <1>8, <2>2
  <2>3. CASE k > i
    <3>1. d[k] = b[k - i]
      BY <1>1, <1>5, <1>6, <1>8, <2>3
    <3>2. k - i \in 1..Len(s) + 1 - i /\ i + (k - i) - 1 = k - 1
      BY <1>1, <2>3
    <3> QED
      BY <1>1, <1>3, <2>3, <3>1, <3>2
  <2> QED
    BY <1>1, <2>1, <2>2, <2>3
<1> QED
  BY <1>6, <1>7, <1>8, <1>9

LEMMA RemoveAtIs ==
    ASSUME NEW s \in Seq(Slot), NEW i \in 1..Len(s)
    PROVE  /\ RemoveAt(s, i) \in Seq(Slot)
           /\ Len(RemoveAt(s, i)) = Len(s) - 1
           /\ \A k \in 1..Len(s) - 1 : RemoveAt(s, i)[k] = IF k < i THEN s[k] ELSE s[k + 1]
<1> DEFINE a == SubSeq(s, 1, i - 1)
           b == SubSeq(s, i + 1, Len(s))
<1>1. Len(s) \in Nat /\ \A k \in 1..Len(s) : s[k] \in Slot
  OBVIOUS
<1>2. /\ a \in Seq(Slot) /\ Len(a) = i - 1
      /\ \A k \in 1..i - 1 : a[k] = s[k]
  <2>1. 1 \in Int /\ i - 1 \in Int /\ \A k \in 1..i - 1 : s[k] \in Slot
    BY <1>1
  <2>2. /\ a \in Seq(Slot) /\ Len(a) = IF 1 <= i - 1 THEN (i - 1) - 1 + 1 ELSE 0
        /\ \A k \in 1..(i - 1) - 1 + 1 : a[k] = s[1 + k - 1]
    BY <2>1, SubSeqProperties
  <2> HIDE DEF a
  <2> QED
    BY <1>1, <2>2
<1>3. /\ b \in Seq(Slot) /\ Len(b) = Len(s) - i
      /\ \A k \in 1..Len(s) - i : b[k] = s[i + k]
  <2>1. i + 1 \in Int /\ Len(s) \in Int /\ \A k \in i + 1..Len(s) : s[k] \in Slot
    BY <1>1
  <2>2. /\ b \in Seq(Slot) /\ Len(b) = IF i + 1 <= Len(s) THEN Len(s) - (i + 1) + 1 ELSE 0
        /\ \A k \in 1..Len(s) - (i + 1) + 1 : b[k] = s[(i + 1) + k - 1]
    BY <2>1, SubSeqProperties
  <2> HIDE DEF b
  <2>3. \A k \in 1..Len(s) - i : (i + 1) + k - 1 = i + k /\ k \in 1..Len(s) - (i + 1) + 1
    BY <1>1
  <2>4. Len(b) = Len(s) - i
    BY <1>1, <2>2
  <2> QED
    BY <2>2, <2>3, <2>4
<1> HIDE DEF a, b
<1> DEFINE d == a \o b
<1>4. /\ d \in Seq(Slot) /\ Len(d) = Len(a) + Len(b)
      /\ \A k \in 1..Len(a) + Len(b) : d[k] = IF k <= Len(a) THEN a[k] ELSE b[k - Len(a)]
  BY <1>2, <1>3, ConcatProperties
<1>5. RemoveAt(s, i) = d
  BY DEF RemoveAt, a, b
<1> HIDE DEF d
<1>6. Len(a) + Len(b) = Len(s) - 1
  BY <1>1, <1>2, <1>3
<1>7. ASSUME NEW k \in 1..Len(s) - 1 PROVE d[k] = IF k < i THEN s[k] ELSE s[k + 1]
  <2>1. CASE k < i
    BY <1>1, <1>2, <1>4, <1>6, <2>1
  <2>2. CASE k >= i
    <3>1. k \in 1..Len(a) + Len(b) /\ ~(k <= Len(a)) /\ Len(a) = i - 1
      BY <1>1, <1>2, <1>6, <2>2
    <3>3. d[k] = b[k - (i - 1)]
      BY <1>4, <3>1
    <3>2. k - (i - 1) \in 1..Len(s) - i /\ i + (k - (i - 1)) = k + 1
      BY <1>1, <2>2
    <3> QED
      BY <1>1, <1>3, <2>2, <3>2, <3>3
  <2> QED
    BY <1>1, <2>1, <2>2
<1> QED
  BY <1>4, <1>5, <1>6, <1>7

\* A parameter is in the array twice, and what the array holds of a parameter.
Doubled(s) == \E i, j \in 1..Len(s) : i # j /\ s[i].param = s[j].param
Value(s, p) == IF Search(s, p) = 0 THEN Unset ELSE s[Search(s, p)].value

\* The values of the array z are those of s, but that p has the value v.
Sets(z, s, p, v) == \A q \in Params : Value(z, q) = IF q = p THEN v ELSE Value(s, q)

\* An array that is in order and holds a parameter once gives its value.
LEMMA ValueIs ==
    ASSUME NEW s \in Seq(Slot), Ordered(s), NEW p \in Params
    PROVE  /\ ~Doubled(s) => \A k \in 1..Len(s) : s[k].param = p => Value(s, p) = s[k].value
           /\ (\A k \in 1..Len(s) : s[k].param # p) => Value(s, p) = Unset
<1>1. /\ Search(s, p) \in 0..Len(s)
      /\ Search(s, p) # 0 => s[Search(s, p)].param = p
      /\ Search(s, p) = 0 => \A k \in 1..Len(s) : s[k].param # p
  BY SearchIs
<1>2. Search(s, p) # 0 => Search(s, p) \in 1..Len(s)
  BY <1>1
<1> QED
  BY <1>1, <1>2 DEF Value, Doubled

\* Two arrays that hold the same of a parameter give the same value.
LEMMA SameValue ==
    ASSUME NEW s \in Seq(Slot), NEW z \in Seq(Slot), Ordered(s), Ordered(z), ~Doubled(s), ~Doubled(z),
           NEW p \in Params,
           \A k \in 1..Len(s) : s[k].param = p => \E m \in 1..Len(z) : z[m] = s[k],
           \A m \in 1..Len(z) : z[m].param = p => \E k \in 1..Len(s) : s[k] = z[m]
    PROVE  Value(z, p) = Value(s, p)
<1>1. CASE \E k \in 1..Len(s) : s[k].param = p
  <2>1. PICK k \in 1..Len(s) : s[k].param = p
    BY <1>1
  <2>2. PICK m \in 1..Len(z) : z[m] = s[k]
    BY <2>1
  <2>3. Value(s, p) = s[k].value /\ Value(z, p) = z[m].value
    BY <2>1, <2>2, ValueIs
  <2> QED
    BY <2>2, <2>3
<1>2. CASE \A k \in 1..Len(s) : s[k].param # p
  <2>1. \A m \in 1..Len(z) : z[m].param # p
    BY <1>2
  <2> QED
    BY <1>2, <2>1, ValueIs
<1> QED
  BY <1>1, <1>2

\* The array when a slot gets a value, ...
LEMMA UpdateIs ==
    ASSUME NEW s \in Seq(Slot), Ordered(s), NEW i \in 1..Len(s),
           NEW e \in Slot, e.param = s[i].param,
           NEW z, z = [s EXCEPT ![i] = e]
    PROVE  /\ z \in Seq(Slot) /\ Len(z) = Len(s) /\ Ordered(z)
           /\ Doubled(z) <=> Doubled(s)
           /\ ~Doubled(s) => Sets(z, s, e.param, e.value)
<1>1. /\ z \in Seq(Slot) /\ Len(z) = Len(s)
      /\ \A j \in 1..Len(s) : z[j] = IF j = i THEN e ELSE s[j]
  BY ExceptSeq
<1>2. \A j \in 1..Len(s) : z[j].param = s[j].param
  BY <1>1
<1>3. Ordered(z) /\ (Doubled(z) <=> Doubled(s))
  BY <1>1, <1>2 DEF Ordered, Doubled
<1>4. ASSUME ~Doubled(s), NEW p \in Params
      PROVE  Value(z, p) = IF p = e.param THEN e.value ELSE Value(s, p)
  <2>1. CASE p = e.param
    <3>1. z[i].param = p /\ z[i].value = e.value
      BY <1>1, <2>1
    <3> QED
      BY <1>1, <1>3, <1>4, <2>1, <3>1, ValueIs
  <2>2. CASE p # e.param
    <3>1. \A k \in 1..Len(s) : s[k].param = p => \E m \in 1..Len(z) : z[m] = s[k]
      BY <1>1, <2>2
    <3>2. \A k \in 1..Len(z) : z[k].param = p => \E m \in 1..Len(s) : s[m] = z[k]
      BY <1>1, <1>2, <2>2
    <3>3. z \in Seq(Slot) /\ ~Doubled(z) /\ Ordered(z)
      BY <1>1, <1>3, <1>4
    <3>4. Value(z, p) = Value(s, p)
      BY <1>4, <3>1, <3>2, <3>3, SameValue
    <3> QED
      BY <2>2, <3>4
  <2> QED
    BY <2>1, <2>2
<1> QED
  BY <1>1, <1>3, <1>4 DEF Sets

\* ... when a slot is added in order, ...
LEMMA InsertIs ==
    ASSUME NEW s \in Seq(Slot), Ordered(s), NEW e \in Slot,
           NEW z \in {InsertAt(s, i, e) : i \in 1..Len(s) + 1},
           \A i \in 1..Len(z) - 1 : z[i].param <= z[i + 1].param
    PROVE  /\ z \in Seq(Slot) /\ Len(z) = Len(s) + 1 /\ Ordered(z)
           /\ Doubled(z) => Doubled(s) \/ \E k \in 1..Len(s) : s[k].param = e.param
           /\ Doubled(s) \/ (\E k \in 1..Len(s) : s[k].param = e.param) => Doubled(z)
           /\ ~Doubled(z) => Sets(z, s, e.param, e.value)
<1>1. Len(s) \in Nat /\ \A k \in 1..Len(s) : s[k] \in Slot
  OBVIOUS
<1>2. PICK i \in 1..Len(s) + 1 : z = InsertAt(s, i, e)
  OBVIOUS
<1>3. /\ z \in Seq(Slot) /\ Len(z) = Len(s) + 1
      /\ \A k \in 1..Len(s) + 1 : z[k] = IF k < i THEN s[k] ELSE IF k = i THEN e ELSE s[k - 1]
  <2>1. \A j \in 1..Len(s) + 1 :
          /\ InsertAt(s, j, e) \in Seq(Slot)
          /\ Len(InsertAt(s, j, e)) = Len(s) + 1
          /\ \A k \in 1..Len(s) + 1 :
               InsertAt(s, j, e)[k] = IF k < j THEN s[k] ELSE IF k = j THEN e ELSE s[k - 1]
    BY InsertAtIs
  <2> QED
    BY <1>2, <2>1
<1>4. Ordered(z)
  BY <1>3, NeighboursOrdered
<1> DEFINE To(k) == IF k < i THEN k ELSE k + 1
<1>5. \A k \in 1..Len(s) : To(k) \in 1..Len(z) /\ To(k) # i /\ z[To(k)] = s[k]
  <2>1. TAKE k \in 1..Len(s)
  <2>2. CASE k < i
    BY <1>1, <1>3, <2>2
  <2>3. CASE ~(k < i)
    <3>1. k + 1 \in 1..Len(s) + 1 /\ ~(k + 1 < i) /\ k + 1 # i /\ (k + 1) - 1 = k
      BY <1>1, <2>3
    <3> QED
      BY <1>3, <2>3, <3>1
  <2> QED
    BY <2>2, <2>3
<1>6. \A k, m \in 1..Len(s) : k # m => To(k) # To(m)
  BY <1>1
<1>7. \A m \in 1..Len(z) : m # i => \E k \in 1..Len(s) : m = To(k)
  <2>1. TAKE m \in 1..Len(z)
  <2>2. CASE m < i
    BY <1>1, <1>3, <2>2
  <2>3. CASE m > i
    <3>1. m - 1 \in 1..Len(s) /\ To(m - 1) = m
      BY <1>1, <1>3, <2>3
    <3> QED
      BY <3>1
  <2> QED
    BY <1>1, <1>3, <2>2, <2>3
<1>8. z[i] = e /\ i \in 1..Len(z)
  BY <1>1, <1>3
<1> HIDE DEF To
<1>9. Doubled(s) \/ (\E k \in 1..Len(s) : s[k].param = e.param) => Doubled(z)
  <2>1. Doubled(s) => Doubled(z)
    BY <1>5, <1>6 DEF Doubled
  <2>2. (\E k \in 1..Len(s) : s[k].param = e.param) => Doubled(z)
    BY <1>5, <1>8 DEF Doubled
  <2> QED
    BY <2>1, <2>2
<1>10. ASSUME Doubled(z), \A k \in 1..Len(s) : s[k].param # e.param PROVE Doubled(s)
  <2>1. PICK a, b \in 1..Len(z) : a # b /\ z[a].param = z[b].param
    BY <1>10 DEF Doubled
  <2>2. ASSUME NEW m \in 1..Len(z), m # i PROVE z[m].param # e.param
    <3>1. PICK k \in 1..Len(s) : m = To(k)
      BY <1>7, <2>2
    <3> QED
      BY <1>5, <1>10, <3>1
  <2>3. a # i /\ b # i
    BY <1>8, <2>1, <2>2
  <2>4. PICK k, m \in 1..Len(s) : a = To(k) /\ b = To(m)
    BY <1>7, <2>3
  <2>5. k # m /\ s[k].param = s[m].param
    BY <1>5, <2>1, <2>4
  <2> QED
    BY <2>5 DEF Doubled
<1>11. ASSUME ~Doubled(z), NEW p \in Params
       PROVE  Value(z, p) = IF p = e.param THEN e.value ELSE Value(s, p)
  <2>1. CASE p = e.param
    BY <1>3, <1>4, <1>8, <1>11, <2>1, ValueIs
  <2>2. CASE p # e.param
    <3>1. \A k \in 1..Len(s) : \E m \in 1..Len(z) : z[m] = s[k]
      BY <1>5
    <3>2. \A m \in 1..Len(z) : z[m].param = p => \E k \in 1..Len(s) : s[k] = z[m]
      BY <1>5, <1>7, <1>8, <2>2
    <3>3. Value(z, p) = Value(s, p)
      BY <1>3, <1>4, <1>9, <1>11, <3>1, <3>2, SameValue
    <3> QED
      BY <2>2, <3>3
  <2> QED
    BY <2>1, <2>2
<1> QED
  BY <1>3, <1>4, <1>9, <1>10, <1>11 DEF Sets

\* ... and when one is removed.
LEMMA RemoveIs ==
    ASSUME NEW s \in Seq(Slot), Ordered(s), NEW i \in 1..Len(s), NEW z, z = RemoveAt(s, i)
    PROVE  /\ z \in Seq(Slot) /\ Len(z) = Len(s) - 1 /\ Ordered(z)
           /\ Doubled(z) => Doubled(s)
           /\ ~Doubled(s) => Sets(z, s, s[i].param, Unset)
<1>1. Len(s) \in Nat /\ \A k \in 1..Len(s) : s[k] \in Slot
  OBVIOUS
<1>2. /\ z \in Seq(Slot) /\ Len(z) = Len(s) - 1
      /\ \A k \in 1..Len(s) - 1 : z[k] = IF k < i THEN s[k] ELSE s[k + 1]
  BY RemoveAtIs
<1> DEFINE From(k) == IF k < i THEN k ELSE k + 1
<1>3. \A k \in 1..Len(z) : From(k) \in 1..Len(s) /\ From(k) # i /\ z[k] = s[From(k)]
  BY <1>1, <1>2
<1>4. \A k, m \in 1..Len(z) : (k # m => From(k) # From(m)) /\ (k <= m => From(k) <= From(m))
  BY <1>1, <1>2
<1>5. \A m \in 1..Len(s) : m # i => \E k \in 1..Len(z) : m = From(k)
  <2>1. TAKE m \in 1..Len(s)
  <2>2. CASE m < i
    BY <1>1, <1>2, <2>2
  <2>3. CASE m > i
    <3>1. m - 1 \in 1..Len(z) /\ From(m - 1) = m
      BY <1>1, <1>2, <2>3
    <3> QED
      BY <3>1
  <2> QED
    BY <1>1, <2>2, <2>3
<1> HIDE DEF From
<1>6. Ordered(z)
  BY <1>3, <1>4 DEF Ordered
<1>7. ASSUME Doubled(z) PROVE Doubled(s)
  <2>1. PICK a, b \in 1..Len(z) : a # b /\ z[a].param = z[b].param
    BY <1>7 DEF Doubled
  <2>2. From(a) # From(b) /\ s[From(a)].param = s[From(b)].param
    BY <1>3, <1>4, <2>1
  <2> QED
    BY <1>3, <2>2 DEF Doubled
<1>8. ASSUME ~Doubled(s), NEW p \in Params
      PROVE  Value(z, p) = IF p = s[i].param THEN Unset ELSE Value(s, p)
  <2>1. CASE p = s[i].param
    <3>1. \A k \in 1..Len(z) : z[k].param # p
      BY <1>3, <1>8, <2>1 DEF Doubled
    <3> QED
      BY <1>2, <1>6, <2>1, <3>1, ValueIs
  <2>2. CASE p # s[i].param
    <3>1. \A k \in 1..Len(s) : s[k].param = p => \E m \in 1..Len(z) : z[m] = s[k]
      BY <1>3, <1>5, <2>2
    <3>2. \A m \in 1..Len(z) : \E k \in 1..Len(s) : s[k] = z[m]
      BY <1>3
    <3>3. Value(z, p) = Value(s, p)
      BY <1>2, <1>6, <1>7, <1>8, <3>1, <3>2, SameValue
    <3> QED
      BY <2>2, <3>3
  <2> QED
    BY <2>1, <2>2
<1> QED
  BY <1>2, <1>6, <1>7, <1>8 DEF Sets

-----------------------------------------------------------------------------
(* The contents of the layer                                               *)

Wants == [Threads -> [param : Params, value : Values \cup {Unset}] \cup {None}]
Storing == {"store", "malloc", "exchange", "free", "insert"}

\* What a thread wants goes with where it is.
Requests ==
    \A t \in Threads :
        /\ pc[t] = "idle" => want[t] = None
        /\ pc[t] \in Storing => want[t] \in Slot
        /\ pc[t] = "reset" => want[t] \in [param : Params, value : {Unset}]

Contents == TypeOK /\ Ordered(slots) /\ Requests

LEMMA GetIs == \A p : Get(p) = Value(slots, p)
BY IndexIsSearch DEF Get, Value

LEMMA ContentsInit == Init => Contents
<1> SUFFICES ASSUME Init PROVE Contents
  OBVIOUS
<1> USE LayerAssumption DEF Init
<1>1. slots \in Seq([param : Params, value : Values]) /\ Len(slots) = 0
  OBVIOUS
<1>2. Prealloc \in Nat /\ MaxRetries \in Nat /\ MaxOps \in Nat
  OBVIOUS
<1>3. TypeOK
  BY <1>1, <1>2 DEF TypeOK
<1>4. Ordered(slots)
  BY <1>1 DEF Ordered
<1>5. Requests
  BY DEF Requests, Storing
<1> QED
  BY <1>3, <1>4, <1>5 DEF Contents

\* The types of what the memory depends on are part of IInv.
LEMMA ContentsFrom ==
    ASSUME IInv', (slots \in Seq(Slot))', Ordered(slots)', (want \in Wants)',
           (retries \in [Threads -> 0..MaxRetries])', (result \in [Threads -> BOOLEAN])',
           (ops \in 0..MaxOps)', Requests'
    PROVE  Contents'
BY DEF Contents, TypeOK, IInv, Memory, Places, Slot, Wants

\* A call that returns, and a thread that moves on with its call
LEMMA ReturnRequests ==
    ASSUME Contents, NEW t \in Threads, NEW r \in BOOLEAN, Return(t, r)
    PROVE  /\ Requests'
           /\ (want \in Wants)'
           /\ (result \in [Threads -> BOOLEAN])'
           /\ (retries \in [Threads -> 0..MaxRetries])'
<1>1. /\ pc \in [Threads -> Places] /\ want \in Wants /\ retries \in [Threads -> 0..MaxRetries]
      /\ result \in [Threads -> BOOLEAN]
      /\ Requests /\ MaxRetries \in Nat
  BY LayerAssumption DEF Contents, TypeOK, Places, Wants
<1> QED
  BY <1>1 DEF Return, Requests, Storing, Wants

LEMMA MoveRequests ==
    ASSUME Contents, NEW t \in Threads, pc[t] \in Storing, NEW q \in Storing,
           pc' = [pc EXCEPT ![t] = q], want' = want
    PROVE  Requests'
<1>1. pc \in [Threads -> Places] /\ Requests
  BY DEF Contents, TypeOK, Places
<1> QED
  BY <1>1 DEF Requests, Storing

\* What a thread that stores or resets wants
LEMMA WantIs ==
    ASSUME Contents, NEW t \in Threads
    PROVE  /\ pc[t] \in Storing => want[t] \in Slot /\ want[t].param \in Params /\ want[t].value \in Values
           /\ pc[t] = "reset" => want[t].param \in Params /\ want[t].value = Unset
           /\ pc[t] # "idle" => want[t] # None
<1>1. Requests /\ pc[t] \in Places
  BY DEF Contents, TypeOK, Places
<1>2. pc[t] \in Storing => want[t] \in Slot /\ want[t].param \in Params /\ want[t].value \in Values
  BY <1>1 DEF Requests, Slot
<1>3. pc[t] = "reset" => want[t] \in [param : Params, value : {Unset}]
  BY <1>1 DEF Requests
<1>4. \A w \in Slot : w # None
  BY LayerAssumption DEF Slot
<1>5. \A w \in [param : Params, value : {Unset}] : w # None
  BY LayerAssumption
<1>6. pc[t] # "idle" => pc[t] \in Storing \/ pc[t] = "reset"
  BY <1>1 DEF Places, Storing
<1> QED
  BY <1>2, <1>3, <1>4, <1>5, <1>6

\* The array that a store finds, changes, or adds to.
LEMMA IndexIs ==
    ASSUME Contents, NEW p \in Params
    PROVE  /\ slots \in Seq(Slot) /\ Ordered(slots)
           /\ Index(p) \in 0..Len(slots)
           /\ Index(p) # 0 => Index(p) \in 1..Len(slots) /\ slots[Index(p)].param = p
           /\ Index(p) = 0 <=> \A k \in 1..Len(slots) : slots[k].param # p
<1>1. slots \in Seq(Slot) /\ Ordered(slots)
  BY DEF Contents, TypeOK, Slot
<1>2. /\ Index(p) \in 0..Len(slots)
      /\ Index(p) # 0 => slots[Index(p)].param = p
      /\ Index(p) = 0 => \A k \in 1..Len(slots) : slots[k].param # p
  BY <1>1, SearchIs, IndexIsSearch
<1>3. Index(p) # 0 => Index(p) \in 1..Len(slots)
  BY <1>2
<1> QED
  BY <1>1, <1>2, <1>3

\* The array with a slot added
LEMMA SortedIs ==
    ASSUME Contents, NEW e \in Slot, NEW z \in Sorted(e)
    PROVE  /\ z \in Seq(Slot) /\ Len(z) = Len(slots) + 1 /\ Ordered(z)
           /\ Doubled(z) => Doubled(slots) \/ \E k \in 1..Len(slots) : slots[k].param = e.param
           /\ Doubled(slots) \/ (\E k \in 1..Len(slots) : slots[k].param = e.param) => Doubled(z)
           /\ ~Doubled(z) => Sets(z, slots, e.param, e.value)
<1>1. slots \in Seq(Slot) /\ Ordered(slots)
  BY DEF Contents, TypeOK, Slot
<1>2. /\ z \in {InsertAt(slots, i, e) : i \in 1..Len(slots) + 1}
      /\ \A i \in 1..Len(z) - 1 : z[i].param <= z[i + 1].param
  BY DEF Sorted
<1> QED
  BY <1>1, <1>2, InsertIs

\* A new parameter finds a free slot, one that goes leaves its slot, and nothing else does.
Fitted(p, v) ==
    \/ (Value(slots, p) = Unset <=> v = Unset) /\ Len(slots') = Len(slots)
    \/ Value(slots, p) = Unset /\ v # Unset /\ Len(slots) < nSlots
    \/ Value(slots, p) # Unset /\ v = Unset /\ Len(slots') = Len(slots) - 1

\* A call that takes effect: the array stays in order and has room for a new slot, and the
\* parameter has the value wanted, unless a parameter is in the array twice.
Applied(t) ==
    /\ Return(t, TRUE)
    /\ pc[t] \in {"store", "insert", "reset"}
    /\ slots' \in Seq(Slot) /\ Ordered(slots')
    /\ Len(slots') <= Len(slots) \/ (Len(slots') = Len(slots) + 1 /\ Len(slots) < nSlots)
    /\ Doubled(slots') => Doubled(slots) \/ Stale
    /\ \/ Doubled(slots') \/ Doubled(slots)
       \/ /\ Sets(slots', slots, want[t].param, want[t].value)
          /\ Fitted(want[t].param, want[t].value)

LEMMA StoreApplies ==
    ASSUME Contents, NEW t \in Threads, Store(t)
    PROVE  \/ Applied(t)
           \/ Regrow(t, MaxRetries) /\ Index(want[t].param) = 0 /\ Len(slots) >= nSlots
<1>1. /\ pc[t] = "store" /\ want[t] \in Slot /\ want[t].param \in Params
      /\ want[t].value \in Values /\ want[t].value # Unset
  BY WantIs, LayerAssumption DEF Store, Storing
<1>2. PICK i : i = Index(want[t].param)
  OBVIOUS
<1>3. /\ slots \in Seq(Slot) /\ Ordered(slots)
      /\ i # 0 => i \in 1..Len(slots) /\ slots[i].param = want[t].param
      /\ i = 0 => \A k \in 1..Len(slots) : slots[k].param # want[t].param
  BY <1>1, <1>2, IndexIs
<1>4. CASE i # 0 /\ slots' = [slots EXCEPT ![i].value = want[t].value] /\ Return(t, TRUE)
  <2>1. PICK e : e = [slots[i] EXCEPT !.value = want[t].value]
    OBVIOUS
  <2>2. e \in Slot /\ e.param = want[t].param /\ e.value = want[t].value
    <3>1. slots[i] \in Slot
      BY <1>3, <1>4
    <3> QED
      BY <1>1, <1>3, <1>4, <2>1, <3>1 DEF Slot
  <2>3. PICK z : z = slots'
    OBVIOUS
  <2>4. z = [slots EXCEPT ![i] = e]
    BY <1>4, <2>1, <2>3, Zenon
  <2>5. i \in 1..Len(slots) /\ e.param = slots[i].param
    BY <1>3, <1>4, <2>2
  <2>6. /\ z \in Seq(Slot) /\ Len(z) = Len(slots) /\ Ordered(z)
        /\ Doubled(z) <=> Doubled(slots)
        /\ ~Doubled(slots) => Sets(z, slots, e.param, e.value)
    BY <1>3, <2>2, <2>4, <2>5, UpdateIs
  <2>7. Len(z) <= Len(slots)
    BY <1>3, <2>6
  <2>8. ~Doubled(slots) => Fitted(want[t].param, want[t].value)
    <3>1. slots[i].value \in Values /\ Unset \notin Values
      <4>1. slots[i] \in Slot
        BY <1>3, <1>4
      <4> QED
        BY <4>1, LayerAssumption DEF Slot
    <3>2. ~Doubled(slots) => Value(slots, want[t].param) = slots[i].value
      BY <1>1, <1>3, <1>4, ValueIs
    <3> QED
      BY <1>1, <2>3, <2>6, <3>1, <3>2 DEF Fitted
  <2> QED
    BY <1>1, <1>4, <2>2, <2>3, <2>6, <2>7, <2>8 DEF Applied
<1>5. CASE i = 0 /\ Len(slots) < nSlots /\ slots' \in Sorted(want[t]) /\ Return(t, TRUE)
  <2>1. /\ slots' \in Seq(Slot) /\ Len(slots') = Len(slots) + 1 /\ Ordered(slots')
        /\ Doubled(slots') => Doubled(slots) \/ \E k \in 1..Len(slots) : slots[k].param = want[t].param
        /\ ~Doubled(slots') => Sets(slots', slots, want[t].param, want[t].value)
    BY <1>1, <1>5, SortedIs
  <2>2. Fitted(want[t].param, want[t].value)
    BY <1>1, <1>3, <1>5, ValueIs DEF Fitted
  <2> QED
    BY <1>1, <1>3, <1>5, <2>1, <2>2 DEF Applied
<1> QED
  BY <1>2, <1>4, <1>5 DEF Store

LEMMA InsertApplies ==
    ASSUME Contents, NEW t \in Threads, Insert(t)
    PROVE  \/ Applied(t) \/ Regrow(t, retries[t])
           \/ UNCHANGED slots /\ Return(t, FALSE) /\ Len(slots) >= nSlots
<1>1. /\ pc[t] = "insert" /\ want[t] \in Slot /\ want[t].param \in Params
      /\ want[t].value \in Values /\ want[t].value # Unset
  BY WantIs, LayerAssumption DEF Insert, Storing
<1>2. CASE Len(slots) < nSlots /\ slots' \in Sorted(want[t]) /\ Return(t, TRUE)
  <2>1. /\ slots' \in Seq(Slot) /\ Len(slots') = Len(slots) + 1 /\ Ordered(slots')
        /\ Doubled(slots') => Doubled(slots) \/ \E k \in 1..Len(slots) : slots[k].param = want[t].param
        /\ (\E k \in 1..Len(slots) : slots[k].param = want[t].param) => Doubled(slots')
        /\ ~Doubled(slots') => Sets(slots', slots, want[t].param, want[t].value)
    BY <1>1, <1>2, SortedIs
  <2>2. (\E k \in 1..Len(slots) : slots[k].param = want[t].param) => Stale
    BY <1>1, IndexIs DEF Stale
  <2>3. ~Doubled(slots') => Fitted(want[t].param, want[t].value)
    <3>1. slots \in Seq(Slot) /\ Ordered(slots)
      BY <1>1, IndexIs
    <3>2. ~Doubled(slots') => Value(slots, want[t].param) = Unset
      BY <1>1, <2>1, <3>1, ValueIs
    <3> QED
      BY <1>1, <1>2, <3>2 DEF Fitted
  <2> QED
    BY <1>1, <1>2, <2>1, <2>2, <2>3 DEF Applied
<1> QED
  BY <1>2 DEF Insert

LEMMA ResetApplies == ASSUME Contents, NEW t \in Threads, Reset(t) PROVE Applied(t)
<1>1. /\ pc[t] = "reset" /\ want[t].param \in Params /\ want[t].value = Unset /\ Return(t, TRUE)
  BY WantIs DEF Reset
<1>2. PICK i : i = Index(want[t].param)
  OBVIOUS
<1>3. /\ slots \in Seq(Slot) /\ Ordered(slots)
      /\ i # 0 => i \in 1..Len(slots) /\ slots[i].param = want[t].param
      /\ i = 0 => \A k \in 1..Len(slots) : slots[k].param # want[t].param
  BY <1>1, <1>2, IndexIs
<1>4. slots' = IF i = 0 THEN slots ELSE RemoveAt(slots, i)
  BY <1>2 DEF Reset
<1>5. CASE i = 0
  <2>1. Value(slots, want[t].param) = Unset
    BY <1>1, <1>3, <1>5, ValueIs
  <2> QED
    <3>1. UNCHANGED slots /\ Fitted(want[t].param, want[t].value)
      BY <1>1, <1>4, <1>5, <2>1 DEF Fitted
    <3>2. Sets(slots', slots, want[t].param, want[t].value)
      BY <1>1, <2>1, <3>1 DEF Sets
    <3>3. Ordered(slots') /\ slots' \in Seq(Slot) /\ Len(slots') <= Len(slots)
          /\ (Doubled(slots') => Doubled(slots))
      BY <1>3, <3>1
    <3> QED
      BY <1>1, <3>1, <3>2, <3>3 DEF Applied
<1>6. CASE i # 0
  <2>1. /\ slots' \in Seq(Slot) /\ Len(slots') = Len(slots) - 1 /\ Ordered(slots')
        /\ Doubled(slots') => Doubled(slots)
        /\ ~Doubled(slots) => Sets(slots', slots, slots[i].param, Unset)
    BY <1>3, <1>4, <1>6, RemoveIs
  <2>2. Len(slots') <= Len(slots)
    BY <1>3, <2>1
  <2>3. ~Doubled(slots) => Fitted(want[t].param, want[t].value)
    <3>1. slots[i].value \in Values /\ Unset \notin Values
      <4>1. slots[i] \in Slot
        BY <1>3, <1>6
      <4> QED
        BY <4>1, LayerAssumption DEF Slot
    <3>2. ~Doubled(slots) => Value(slots, want[t].param) = slots[i].value
      BY <1>1, <1>3, <1>6, ValueIs
    <3> QED
      BY <1>1, <2>1, <3>1, <3>2 DEF Fitted
  <2> QED
    BY <1>1, <1>3, <1>6, <2>1, <2>2, <2>3 DEF Applied
<1> QED
  BY <1>5, <1>6

LEMMA AppliedContents ==
    ASSUME Contents, IInv', NEW t \in Threads, Applied(t), UNCHANGED ops
    PROVE  Contents'
<1>1. (slots \in Seq(Slot))' /\ Ordered(slots)' /\ Return(t, TRUE)
  BY DEF Applied
<1>2. (ops \in 0..MaxOps)'
  BY DEF Contents, TypeOK
<1> QED
  BY <1>1, <1>2, ReturnRequests, ContentsFrom

\* A step that leaves the array and what the thread wants
LEMMA RegrowContents ==
    ASSUME Contents, IInv', NEW t \in Threads, NEW n \in 0..MaxRetries, Regrow(t, n), pc[t] \in Storing,
           UNCHANGED ops
    PROVE  Contents'
<1>1. /\ slots \in Seq(Slot) /\ Ordered(slots) /\ want \in Wants /\ ops \in 0..MaxOps
      /\ retries \in [Threads -> 0..MaxRetries] /\ result \in [Threads -> BOOLEAN] /\ MaxRetries \in Nat
  BY LayerAssumption DEF Contents, TypeOK, Slot, Wants
<1>2. UNCHANGED <<slots, want, result>> /\ pc' = [pc EXCEPT ![t] = "malloc"] /\ n > 0
      /\ retries' = [retries EXCEPT ![t] = n - 1]
  BY DEF Regrow
<1>3. "malloc" \in Storing
  BY DEF Storing
<1>4. Requests'
  BY <1>2, <1>3, MoveRequests
<1>5. (retries \in [Threads -> 0..MaxRetries])' /\ (result \in [Threads -> BOOLEAN])'
  BY <1>1, <1>2
<1>6. (slots \in Seq(Slot))' /\ Ordered(slots)' /\ (want \in Wants)' /\ (ops \in 0..MaxOps)'
  BY <1>1, <1>2
<1> QED
  BY <1>4, <1>5, <1>6, ContentsFrom

LEMMA MoveContents ==
    ASSUME Contents, IInv', NEW t \in Threads, pc[t] \in Storing, NEW q \in Storing,
           pc' = [pc EXCEPT ![t] = q], UNCHANGED <<slots, want, retries, result, ops>>
    PROVE  Contents'
<1>1. /\ slots \in Seq(Slot) /\ Ordered(slots) /\ want \in Wants /\ ops \in 0..MaxOps
      /\ retries \in [Threads -> 0..MaxRetries] /\ result \in [Threads -> BOOLEAN]
  BY DEF Contents, TypeOK, Slot, Wants
<1>2. Requests'
  BY MoveRequests
<1>3. /\ (slots \in Seq(Slot))' /\ Ordered(slots)' /\ (want \in Wants)' /\ (ops \in 0..MaxOps)'
      /\ (retries \in [Threads -> 0..MaxRetries])' /\ (result \in [Threads -> BOOLEAN])'
  BY <1>1
<1> QED
  BY <1>2, <1>3, ContentsFrom

LEMMA ContentsNext == ASSUME IInv, Contents, [Next]_vars, IInv' PROVE Contents'
<1> USE LayerAssumption
<1>0. /\ slots \in Seq(Slot) /\ Ordered(slots) /\ want \in Wants /\ ops \in 0..MaxOps
      /\ retries \in [Threads -> 0..MaxRetries] /\ result \in [Threads -> BOOLEAN] /\ MaxRetries \in Nat \ {0} /\ MaxOps \in Nat
      /\ pc \in [Threads -> Places] /\ Requests
  BY DEF Contents, TypeOK, Slot, Wants, Places
<1>1. ASSUME NEW t \in Threads, NEW p \in Stores[t], NEW v \in Values \cup {Unset}, Begin(t, p, v)
      PROVE  Contents'
  <2>1. p \in Params
    OBVIOUS
  <2>2. /\ want' = [want EXCEPT ![t] = [param |-> p, value |-> v]]
        /\ pc' = [pc EXCEPT ![t] = IF v = Unset THEN "reset" ELSE "store"]
        /\ ops' = ops + 1 /\ ops < MaxOps /\ UNCHANGED <<slots, retries, result>>
    BY <1>1 DEF Begin
  <2>3. (want \in Wants)' /\ (ops \in 0..MaxOps)'
    BY <1>0, <2>1, <2>2 DEF Wants
  <2>4. Requests'
    BY <1>0, <2>1, <2>2 DEF Requests, Storing, Wants, Slot
  <2>5. (slots \in Seq(Slot))' /\ Ordered(slots)' /\ (retries \in [Threads -> 0..MaxRetries])' /\ (result \in [Threads -> BOOLEAN])'
    BY <1>0, <2>2
  <2> QED
    BY <2>3, <2>4, <2>5, ContentsFrom
<1>2. ASSUME NEW t \in Threads, Store(t) PROVE Contents'
  <2>1. UNCHANGED ops /\ pc[t] \in Storing /\ MaxRetries \in 0..MaxRetries
    BY <1>0, <1>2 DEF Store, Storing
  <2> QED
    BY <1>2, <2>1, StoreApplies, AppliedContents, RegrowContents
<1>3. ASSUME NEW t \in Threads, Insert(t) PROVE Contents'
  <2>1. UNCHANGED ops /\ pc[t] \in Storing /\ retries[t] \in 0..MaxRetries
    BY <1>0, <1>3 DEF Insert, Storing
  <2>2. CASE UNCHANGED slots /\ Return(t, FALSE)
    <3>1. Requests' /\ (want \in Wants)' /\ (retries \in [Threads -> 0..MaxRetries])' /\ (result \in [Threads -> BOOLEAN])'
      BY <2>2, ReturnRequests
    <3>2. (slots \in Seq(Slot))' /\ Ordered(slots)' /\ (ops \in 0..MaxOps)'
      BY <1>0, <2>1, <2>2
    <3> QED
      BY <3>1, <3>2, ContentsFrom
  <2> QED
    BY <1>3, <2>1, <2>2, InsertApplies, AppliedContents, RegrowContents
<1>4. ASSUME NEW t \in Threads, Reset(t) PROVE Contents'
  <2>1. UNCHANGED ops
    BY <1>4 DEF Reset
  <2> QED
    BY <1>4, <2>1, ResetApplies, AppliedContents
<1>5. ASSUME NEW t \in Threads, Malloc(t) PROVE Contents'
  BY <1>5, MoveContents DEF Malloc, Storing
<1>6. ASSUME NEW t \in Threads, Free(t) PROVE Contents'
  BY <1>6, MoveContents DEF Free, Storing
<1>7. ASSUME NEW t \in Threads, Exchange(t) PROVE Contents'
  <2>1. pc[t] \in Storing /\ UNCHANGED <<slots, ops>> /\ "free" \in Storing /\ "malloc" \in Storing
    BY <1>7 DEF Exchange, Storing
  <2>2. CASE Return(t, FALSE)
    <3>1. Requests' /\ (want \in Wants)' /\ (retries \in [Threads -> 0..MaxRetries])' /\ (result \in [Threads -> BOOLEAN])'
      BY <2>2, ReturnRequests
    <3>2. (slots \in Seq(Slot))' /\ Ordered(slots)' /\ (ops \in 0..MaxOps)'
      BY <1>0, <2>1
    <3> QED
      BY <3>1, <3>2, ContentsFrom
  <2>3. CASE /\ \/ pc' = [pc EXCEPT ![t] = "free"]
                \/ pc' = [pc EXCEPT ![t] = "malloc"]
             /\ UNCHANGED <<want, retries, result>>
    BY <2>1, <2>3, MoveContents
  <2> QED
    BY <1>7, <2>2, <2>3 DEF Exchange
<1>8. CASE UNCHANGED vars
  <2>1. UNCHANGED <<slots, want, pc, retries, result, ops>>
    BY <1>8 DEF vars
  <2>2. Requests'
    BY <1>0, <2>1 DEF Requests
  <2>3. /\ (slots \in Seq(Slot))' /\ Ordered(slots)' /\ (want \in Wants)' /\ (ops \in 0..MaxOps)'
        /\ (retries \in [Threads -> 0..MaxRetries])' /\ (result \in [Threads -> BOOLEAN])'
    BY <1>0, <2>1
  <2> QED
    BY <2>2, <2>3, ContentsFrom
<1> QED
  BY <1>1, <1>2, <1>3, <1>4, <1>5, <1>6, <1>7, <1>8 DEF Next

\* The array is in order, and every variable keeps its type.
THEOREM ContentsCorrect == Spec => []Contents
BY Invariance, ContentsInit, ContentsNext, PTL DEF Spec

\* A slot is added only when there is room for it.
LEMMA RoomKept ==
    ASSUME IInv, Contents, [Next]_vars, Len(slots) <= nSlots PROVE Len(slots') <= nSlots'
<1>1. nSlots \in Nat /\ Grow \in Nat /\ slots \in Seq(Slot) /\ Len(slots) \in Nat
  <2>1. slots \in Seq(Slot)
    BY DEF Contents, TypeOK, Slot
  <2> QED
    BY <2>1, LayerAssumption DEF IInv, Memory
<1>2. CASE UNCHANGED slots /\ nSlots' \in {nSlots, nSlots + Grow}
  BY <1>1, <1>2
<1>3. ASSUME NEW t \in Threads, Applied(t), nSlots' = nSlots PROVE Len(slots') <= nSlots'
  <2>1. PICK z \in Seq(Slot) : z = slots'
    BY <1>3 DEF Applied
  <2>2. Len(z) <= Len(slots) \/ (Len(z) = Len(slots) + 1 /\ Len(slots) < nSlots)
    BY <1>3, <2>1 DEF Applied
  <2> QED
    BY <1>1, <1>3, <2>1, <2>2
<1>4. ASSUME NEW t \in Threads, Store(t) PROVE Len(slots') <= nSlots'
  BY <1>2, <1>3, <1>4, StoreApplies DEF Store, Regrow
<1>5. ASSUME NEW t \in Threads, Insert(t) PROVE Len(slots') <= nSlots'
  BY <1>2, <1>3, <1>5, InsertApplies DEF Insert, Regrow
<1>6. ASSUME NEW t \in Threads, Reset(t) PROVE Len(slots') <= nSlots'
  BY <1>2, <1>3, <1>6, ResetApplies DEF Reset
<1>7. ASSUME NEW t \in Threads, NEW p, NEW v, Begin(t, p, v) \/ Malloc(t) \/ Exchange(t) \/ Free(t)
      PROVE  Len(slots') <= nSlots'
  BY <1>2, <1>7 DEF Begin, Malloc, Exchange, Free
<1>8. CASE UNCHANGED vars
  BY <1>2, <1>8 DEF vars
<1> QED
  BY <1>4, <1>5, <1>6, <1>7, <1>8 DEF Next

LEMMA LargeKept ==
    ASSUME IInv, [Next]_vars, nSlots <= size[array], ~Missed PROVE (nSlots <= size[array])'
<1> DEFINE Large == nSlots <= size[array]
<1> SUFFICES Large' OBVIOUS
<1> USE LayerAssumption DEF IInv
<1>1. CASE UNCHANGED <<array, nSlots, size>> BY <1>1
<1>2. ASSUME NEW t \in Threads, Malloc(t) PROVE Large'
  <2>1. size[array] # 0 /\ array # new[t] BY DEF NoLeak, Apart, Memory
  <2>2. size'[array] = size[array] /\ UNCHANGED <<array, nSlots>>
    BY <1>2, <2>1 DEF Malloc, Memory
  <2> QED BY <2>2
<1>3. ASSUME NEW t \in Threads, Exchange(t) PROVE Large'
  <2>1. CASE new[t] # None /\ array = previous[t] /\ array' = new[t] /\ nSlots' = nSlots + Grow
             /\ pc[t] = "exchange" /\ size' = size
    <3>1. size[new[t]] = nSlots + Grow
      <4>1. size[new[t]] \in Nat /\ ~(size[new[t]] <= nSlots) BY <2>1 DEF Missed, Memory
      <4> QED BY <2>1, <4>1 DEF Sizes
    <3> QED BY <2>1, <3>1 DEF Memory
  <2> QED BY <1>1, <1>3, <2>1 DEF Exchange
<1>4. ASSUME NEW t \in Threads, Free(t) PROVE Large'
  <2>1. previous[t] # array /\ UNCHANGED <<array, nSlots>> BY <1>4 DEF Free, Apart
  <2> QED BY <1>4, <2>1 DEF Free, Memory
<1>5. CASE UNCHANGED vars BY <1>1, <1>5 DEF vars
<1> QED BY <1>1, <1>2, <1>3, <1>4, <1>5 DEF Next, Begin, Store, Insert, Reset

\* The slots in use fit in the array, and the array is as large as _n_slots says, until a
\* growth is missed because malloc put the array where it had been before.
THEOREM ArrayAlwaysFits == Spec => ArrayFits
<1>1. Init => Roomy
  <2>1. SUFFICES ASSUME Init PROVE Roomy
    OBVIOUS
  <2>2. Prealloc \in Nat /\ Len(slots) = 0 /\ array \in Addresses
    BY <2>1, LayerAssumption DEF Init
  <2> QED
    BY <2>1, <2>2 DEF Init, Roomy
<1>2. IInv /\ Contents /\ [Next]_vars => [Roomy' \/ Missed]_vars
  <2>1. SUFFICES ASSUME IInv, Contents, Next, ~Missed PROVE Roomy'
    OBVIOUS
  <2>2. Roomy
    BY <2>1 DEF Next
  <2> QED
    BY <2>1, <2>2, RoomKept, LargeKept DEF Roomy
<1> QED
  BY <1>1, <1>2, Invariance, ContentsCorrect, PTL DEF Spec, ArrayFits

-----------------------------------------------------------------------------
(* The layer is a map                                                      *)

\* The refinement, for a step
MapStep == [IF Twice' THEN Twice \/ Stale ELSE Twice \/ [Map!Next]_(Map!mapVars)]_vars

\* What the map's variables stand for
TheMap == [p \in Params |-> Get(p)]
TheGrowth == [t \in Threads |-> Growth(t)]

LEMMA MapIs ==
    /\ \A p : Get(p) = Value(slots, p)
    /\ (\A p : Get(p) = Value(slots, p))'
BY GetIs, PTL

\* A step that leaves the array and is a step of the map
LEMMA SameArray == ASSUME UNCHANGED slots, Map!Next \/ UNCHANGED Map!mapVars PROVE MapStep
<1>1. Twice' <=> Twice
  BY DEF Twice
<1> QED
  BY <1>1 DEF MapStep

LEMMA SameMap == ASSUME UNCHANGED slots PROVE TheMap' = TheMap
BY MapIs DEF TheMap

\* A thread grows the array from its first malloc to the store of its parameter.
LEMMA GrowthIs ==
    ASSUME NEW t \in Threads, pc[t] \in Places
    PROVE  Growth(t) = IF pc[t] = "exchange" /\ new[t] = None THEN "failed"
                       ELSE IF pc[t] \in {"malloc", "exchange", "free", "insert"} THEN "begun"
                       ELSE "none"
<1>1. CASE pc[t] = "exchange"
  BY <1>1 DEF Growth
<1>2. CASE pc[t] \in {"malloc", "free", "insert"}
  BY <1>2 DEF Growth
<1>3. CASE pc[t] \in {"idle", "store", "reset"}
  BY <1>3 DEF Growth
<1> QED
  BY <1>1, <1>2, <1>3 DEF Places

LEMMA GrowthOf ==
    ASSUME Contents, NEW t \in Threads, NEW q, pc' = [pc EXCEPT ![t] = q],
           \A u \in Threads \ {t} : new'[u] = new[u], Growth(t)' = Growth(t)
    PROVE  TheGrowth' = TheGrowth
<1>1. \A u \in Threads \ {t} : pc'[u] = pc[u]
  BY DEF Contents, TypeOK
<1>2. \A u \in Threads \ {t} : Growth(u)' = Growth(u)
  BY <1>1 DEF Growth
<1>3. \A u \in Threads : Growth(u)' = Growth(u)
  BY <1>2
<1> QED
  BY <1>3 DEF TheGrowth

LEMMA GrowthTo ==
    ASSUME Contents, NEW t \in Threads, NEW q, pc' = [pc EXCEPT ![t] = q],
           \A u \in Threads \ {t} : new'[u] = new[u]
    PROVE  TheGrowth' = [TheGrowth EXCEPT ![t] = Growth(t)']
<1>1. \A u \in Threads \ {t} : pc'[u] = pc[u]
  BY DEF Contents, TypeOK
<1>2. \A u \in Threads \ {t} : Growth(u)' = Growth(u)
  BY <1>1 DEF Growth
<1>3. TheGrowth' = [u \in Threads |-> Growth(u)']
  BY DEF TheGrowth
<1>4. [TheGrowth EXCEPT ![t] = Growth(t)'] = [u \in Threads |-> IF u = t THEN Growth(t)' ELSE Growth(u)]
  BY DEF TheGrowth
<1> QED
  BY <1>2, <1>3, <1>4

\* A call that returns
LEMMA AnswerIs ==
    ASSUME Contents, NEW t \in Threads, NEW r, Return(t, r)
    PROVE  /\ Map!Answer(t, r)
           /\ TheGrowth' = [TheGrowth EXCEPT ![t] = "none"]
<1>1. pc' = [pc EXCEPT ![t] = "idle"] /\ pc'[t] = "idle" /\ \A u \in Threads \ {t} : new'[u] = new[u]
  BY DEF Return, Contents, TypeOK
<1>2. Growth(t)' = "none"
  BY <1>1 DEF Growth
<1>3. TheGrowth' = [TheGrowth EXCEPT ![t] = "none"]
  BY <1>1, <1>2, GrowthTo
<1> QED
  BY <1>3 DEF Map!Answer, Return, TheGrowth

LEMMA AppliedIsApply ==
    ASSUME Contents, nSlots \in Nat, Roomy, NEW t \in Threads, Applied(t), UNCHANGED nSlots
    PROVE  MapStep
<1>1. (Twice <=> Doubled(slots)) /\ (Twice' <=> Doubled(slots'))
  BY DEF Twice, Doubled
<1>2. CASE Twice' \/ Twice
  BY <1>1, <1>2 DEF MapStep, Applied
<1>3. CASE ~Twice' /\ ~Twice
  <2>1. want[t] # None /\ want[t].param \in Params
    <3>1. pc[t] \in Storing \/ pc[t] = "reset"
      BY DEF Applied, Storing
    <3> QED
      BY <3>1, WantIs DEF Storing
  <2>2. /\ Sets(slots', slots, want[t].param, want[t].value)
        /\ Fitted(want[t].param, want[t].value)
        /\ slots' \in Seq(Slot) /\ slots \in Seq(Slot)
    BY <1>1, <1>3 DEF Applied, Contents, TypeOK, Slot
  <2>3. TheMap' = [TheMap EXCEPT ![want[t].param] = want[t].value]
    BY <2>1, <2>2, MapIs DEF Sets, TheMap
  <2>4. TheMap[want[t].param] = Value(slots, want[t].param)
    BY <2>1, MapIs DEF TheMap
  <2>5. TheGrowth[t] # "failed"
    BY GrowthIs DEF Applied, TheGrowth, Places
  <2>6. Map!Answer(t, TRUE)
    BY AnswerIs DEF Applied
  <2>7. LET old == TheMap[want[t].param]
            v == want[t].value
            full == Len(slots) >= nSlots
        IN  \/ (old = Unset <=> v = Unset) /\ full' = full
            \/ old = Unset /\ v # Unset /\ ~full /\ full' \in BOOLEAN
            \/ old # Unset /\ v = Unset /\ full' = FALSE
    <3>1. PICK n \in Nat, a \in Nat, b \in Nat : n = nSlots /\ a = Len(slots) /\ b = Len(slots')
      BY <2>2
    <3>2. a <= n
      BY <3>1 DEF Roomy
    <3>3. nSlots' = n
      BY <3>1
    <3>4. CASE (Value(slots, want[t].param) = Unset <=> want[t].value = Unset) /\ b = a
      BY <2>4, <3>1, <3>3, <3>4
    <3>5. CASE Value(slots, want[t].param) = Unset /\ want[t].value # Unset /\ a < n
      BY <2>4, <3>1, <3>3, <3>5
    <3>6. CASE Value(slots, want[t].param) # Unset /\ want[t].value = Unset /\ b = a - 1
      <4>1. ~(b >= n)
        BY <3>1, <3>2, <3>6
      <4> QED
        BY <2>4, <3>1, <3>3, <3>6, <4>1
    <3> QED
      BY <2>2, <3>1, <3>4, <3>5, <3>6 DEF Fitted
  <2>8. Map!Apply(t)
    BY <2>1, <2>3, <2>5, <2>6, <2>7 DEF Map!Apply, TheMap, TheGrowth
  <2> QED
    BY <2>8, <1>3 DEF MapStep, Map!Next
<1> QED
  BY <1>2, <1>3

\* A store that is refused got no memory, or found the array full again.
LEMMA RefusedIsRefuse ==
    ASSUME Contents, NEW t \in Threads, Return(t, FALSE), UNCHANGED <<slots, nSlots>>,
           \/ pc[t] = "exchange" /\ new[t] = None
           \/ pc[t] = "insert" /\ Len(slots) >= nSlots
    PROVE  MapStep
<1>1. TheMap' = TheMap
  BY SameMap
<1>2. TheGrowth[t] = "failed" \/ (TheGrowth[t] = "begun" /\ Len(slots) >= nSlots)
  BY GrowthIs DEF TheGrowth, Places
<1>3. Map!Answer(t, FALSE)
  BY AnswerIs
<1>4. Map!Refuse(t)
  BY <1>1, <1>2, <1>3 DEF Map!Refuse, TheMap, TheGrowth
<1> QED
  BY <1>4, SameArray DEF Map!Next

\* A step of a thread that only moves on
LEMMA MoveIsStutter ==
    ASSUME Contents, NEW t \in Threads, NEW q, pc' = [pc EXCEPT ![t] = q],
           \A u \in Threads \ {t} : new'[u] = new[u], Growth(t)' = Growth(t),
           UNCHANGED <<slots, nSlots, want, result>>
    PROVE  MapStep
<1>1. TheMap' = TheMap /\ TheGrowth' = TheGrowth
  BY SameMap, GrowthOf
<1>2. UNCHANGED Map!mapVars
  BY <1>1 DEF Map!mapVars, TheMap, TheGrowth
<1> QED
  BY <1>2, SameArray

\* A store of a new parameter that finds the array full grows it.
LEMMA RegrowIsGrow ==
    ASSUME Contents, NEW t \in Threads, NEW n, Regrow(t, n), UNCHANGED <<slots, nSlots>>,
           pc[t] = "store", Index(want[t].param) = 0, Len(slots) >= nSlots
    PROVE  MapStep
<1>1. pc' = [pc EXCEPT ![t] = "malloc"] /\ pc'[t] = "malloc" /\ UNCHANGED <<want, new, result>>
  BY DEF Regrow, Contents, TypeOK
<1>2. Growth(t)' = "begun"
  BY <1>1 DEF Growth
<1>3. TheGrowth' = [TheGrowth EXCEPT ![t] = "begun"]
  BY <1>1, <1>2, GrowthTo
<1>4. TheGrowth[t] = "none"
  BY GrowthIs DEF TheGrowth, Places
<1>5. want[t] # None /\ want[t].value # Unset /\ want[t].param \in Params
  BY WantIs, LayerAssumption DEF Storing
<1>6. TheMap[want[t].param] = Unset
  BY <1>5 DEF TheMap, Get
<1>7. TheMap' = TheMap
  BY SameMap
<1>8. Map!Enlarge(t)
  BY <1>1, <1>3, <1>4, <1>5, <1>6, <1>7 DEF Map!Enlarge, TheMap, TheGrowth
<1> QED
  BY <1>8, SameArray DEF Map!Next

\* malloc finds memory, or none.
LEMMA MallocIsMapStep == ASSUME Contents, NEW t \in Threads, Malloc(t) PROVE MapStep
<1>1. /\ pc[t] = "malloc" /\ pc' = [pc EXCEPT ![t] = "exchange"] /\ pc'[t] = "exchange"
      /\ UNCHANGED <<slots, nSlots, want, result>>
      /\ \A u \in Threads \ {t} : new'[u] = new[u]
  BY DEF Malloc, Contents, TypeOK
<1>2. Growth(t) = "begun"
  BY <1>1, GrowthIs DEF Places
<1>3. CASE new'[t] = None
  <2>1. Growth(t)' = "failed"
    BY <1>1, <1>3 DEF Growth
  <2>2. TheGrowth' = [TheGrowth EXCEPT ![t] = "failed"]
    BY <1>1, <2>1, GrowthTo
  <2>3. TheMap' = TheMap
    BY <1>1, SameMap
  <2>4. TheGrowth[t] = "begun"
    BY <1>2 DEF TheGrowth
  <2>5. Map!NoMemory(t)
    BY <1>1, <2>2, <2>3, <2>4 DEF Map!NoMemory, TheMap, TheGrowth
  <2> QED
    BY <1>1, <2>5, SameArray DEF Map!Next
<1>4. CASE new'[t] # None
  <2>1. Growth(t)' = "begun"
    BY <1>1, <1>4 DEF Growth
  <2> QED
    BY <1>1, <1>2, <2>1, MoveIsStutter
<1> QED
  BY <1>3, <1>4

\* The exchange makes room, or reports that there is no memory.
LEMMA ExchangeIsMapStep ==
    ASSUME Contents, nSlots \in Nat, Roomy, NEW t \in Threads, Exchange(t)
    PROVE  MapStep
<1>1. pc[t] = "exchange" /\ UNCHANGED slots /\ slots \in Seq(Slot)
  BY DEF Exchange, Contents, TypeOK, Slot
<1>2. CASE new[t] = None /\ Return(t, FALSE) /\ UNCHANGED nSlots
  BY <1>1, <1>2, RefusedIsRefuse
<1>3. CASE /\ new[t] # None /\ nSlots' = nSlots + Grow
           /\ new' = [new EXCEPT ![t] = None] /\ pc' = [pc EXCEPT ![t] = "free"]
           /\ UNCHANGED <<want, result>>
  <2>1. pc'[t] = "free" /\ \A u \in Threads \ {t} : new'[u] = new[u]
    BY <1>3 DEF Contents, TypeOK
  <2>2. Growth(t) = "begun" /\ Growth(t)' = "begun"
    BY <1>1, <1>3, <2>1, GrowthIs DEF Growth, Places
  <2>3. TheGrowth' = TheGrowth /\ TheGrowth[t] = "begun" /\ TheMap' = TheMap
    BY <1>1, <1>3, <2>1, <2>2, GrowthOf, SameMap DEF TheGrowth
  <2>4. (Len(slots) >= nSlots)' = FALSE
    <3>1. PICK n \in Nat, a \in Nat, g \in Nat \ {0} : n = nSlots /\ a = Len(slots) /\ g = Grow
      BY <1>1, LayerAssumption
    <3>2. ~(a >= n + g)
      BY <3>1 DEF Roomy
    <3> QED
      BY <1>1, <1>3, <3>1, <3>2
  <2>5. Map!Room(t)
    BY <1>3, <2>3, <2>4 DEF Map!Room, TheMap, TheGrowth
  <2> QED
    BY <1>1, <2>5, SameArray DEF Map!Next
<1>4. CASE /\ new[t] # None /\ pc' = [pc EXCEPT ![t] = "malloc"]
           /\ UNCHANGED <<nSlots, want, new, result>>
  <2>1. pc'[t] = "malloc"
    BY <1>4 DEF Contents, TypeOK
  <2>2. Growth(t) = "begun" /\ Growth(t)' = "begun"
    BY <1>1, <1>4, <2>1, GrowthIs DEF Growth, Places
  <2> QED
    BY <1>1, <1>4, <2>2, MoveIsStutter
<1> QED
  BY <1>2, <1>3, <1>4 DEF Exchange

LEMMA StepIsMapStep == ASSUME Contents, nSlots \in Nat, [Next]_vars PROVE MapStep
<1>0. Roomy \/ UNCHANGED vars
  BY DEF Next
<1>1. ASSUME NEW t \in Threads, NEW p \in Stores[t], NEW v \in Values \cup {Unset}, Begin(t, p, v)
      PROVE  MapStep
  <2>1. p \in Params /\ want[t] = None
    BY <1>1, LayerAssumption DEF Begin, Contents, Requests
  <2>2. pc[t] = "idle" /\ pc'[t] \in {"store", "reset"} /\ UNCHANGED <<slots, nSlots, new, result>>
    BY <1>1 DEF Begin, Contents, TypeOK
  <2>3. Growth(t) = "none" /\ Growth(t)' = "none"
    BY <2>2, GrowthIs DEF Growth, Places
  <2>4. TheMap' = TheMap /\ TheGrowth' = TheGrowth
    BY <1>1, <2>2, <2>3, SameMap, GrowthOf DEF Begin
  <2>5. Map!Call(t)
    BY <1>1, <2>1, <2>2, <2>4 DEF Map!Call, Begin, TheMap, TheGrowth
  <2> QED
    BY <2>2, <2>5, SameArray DEF Map!Next
<1>2. ASSUME NEW t \in Threads, Store(t), Roomy PROVE MapStep
  <2>1. UNCHANGED nSlots /\ pc[t] = "store"
    BY <1>2 DEF Store
  <2>2. CASE Regrow(t, MaxRetries) /\ Index(want[t].param) = 0 /\ Len(slots) >= nSlots
    <3>1. UNCHANGED slots
      BY <2>2 DEF Regrow
    <3> QED
      BY <2>1, <2>2, <3>1, RegrowIsGrow
  <2>3. CASE Applied(t)
    BY <1>2, <2>1, <2>3, AppliedIsApply
  <2> QED
    BY <1>2, <2>1, <2>2, <2>3, StoreApplies
<1>3. ASSUME NEW t \in Threads, Insert(t), Roomy PROVE MapStep
  <2>1. UNCHANGED nSlots /\ pc[t] = "insert"
    BY <1>3 DEF Insert
  <2>2. CASE Regrow(t, retries[t])
    <3>1. /\ pc' = [pc EXCEPT ![t] = "malloc"] /\ pc'[t] = "malloc"
          /\ UNCHANGED <<slots, want, new, result>>
      BY <2>2 DEF Regrow, Contents, TypeOK
    <3>2. Growth(t) = "begun" /\ Growth(t)' = "begun"
      BY <2>1, <3>1, GrowthIs DEF Growth, Places
    <3> QED
      BY <2>1, <3>1, <3>2, MoveIsStutter
  <2>3. CASE UNCHANGED slots /\ Return(t, FALSE) /\ Len(slots) >= nSlots
    BY <2>1, <2>3, RefusedIsRefuse
  <2>4. CASE Applied(t)
    BY <1>3, <2>1, <2>4, AppliedIsApply
  <2> QED
    BY <1>3, <2>2, <2>3, <2>4, InsertApplies
<1>4. ASSUME NEW t \in Threads, Reset(t), Roomy PROVE MapStep
  <2>1. UNCHANGED nSlots
    BY <1>4 DEF Reset
  <2> QED
    BY <1>4, <2>1, ResetApplies, AppliedIsApply
<1>5. ASSUME NEW t \in Threads, Free(t) PROVE MapStep
  <2>1. /\ pc[t] = "free" /\ pc' = [pc EXCEPT ![t] = "insert"] /\ pc'[t] = "insert"
        /\ UNCHANGED <<slots, nSlots, want, new, result>>
    BY <1>5 DEF Free, Contents, TypeOK
  <2>2. Growth(t) = "begun" /\ Growth(t)' = "begun"
    BY <2>1, GrowthIs DEF Growth, Places
  <2> QED
    BY <2>1, <2>2, MoveIsStutter
<1>6. CASE UNCHANGED vars
  BY <1>6 DEF MapStep
<1> QED
  BY <1>0, <1>1, <1>2, <1>3, <1>4, <1>5, <1>6, MallocIsMapStep, ExchangeIsMapStep DEF Next

LEMMA InitIsMapInit == Init => Map!Init
<1> SUFFICES ASSUME Init PROVE Map!Init
  OBVIOUS
<1>1. slots \in Seq(Slot) /\ Len(slots) = 0
  BY DEF Init
<1>2. \A p \in Params : Get(p) = Unset
  <2>1. Ordered(slots)
    BY <1>1 DEF Ordered
  <2>2. ASSUME NEW p \in Params PROVE Value(slots, p) = Unset
    <3>1. \A k \in 1..Len(slots) : slots[k].param # p
      BY <1>1
    <3> QED
      BY <1>1, <2>1, <3>1, ValueIs
  <2> QED
    BY <2>2, GetIs
<1>3. (Len(slots) >= nSlots) = FALSE
  <2>1. Prealloc \in Nat \ {0} /\ nSlots = Prealloc
    BY LayerAssumption DEF Init
  <2> QED
    BY <1>1, <2>1
<1>4. \A t \in Threads : Growth(t) = "none"
  BY DEF Growth, Init
<1> QED
  BY <1>2, <1>3, <1>4 DEF Map!Init, Init

\* The layer is the map it promises to be, until two threads have stored the same new
\* parameter while the array grew: every store takes effect, or grew the array in vain and
\* is reported to its caller.
THEOREM LayerIsMap == Spec => ImplementsMap
<1>1. IInv /\ Contents /\ [Next]_vars => MapStep
  <2>1. IInv => nSlots \in Nat
    BY DEF IInv, Memory
  <2> QED
    BY <2>1, StepIsMapStep
<1> QED
  BY <1>1, InitIsMapInit, Invariance, ContentsCorrect, PTL DEF Spec, ImplementsMap, MapStep
=============================================================================
