------------------------- MODULE DynamicSparseLayer -------------------------
(***************************************************************************)
(* A parameter layer that holds a few parameters in a sorted array and     *)
(* grows it when it is full (lib/parameters/DynamicSparseLayer.h).  The    *)
(* transaction (a mutex) makes each access atomic, but growing releases it *)
(* around malloc and free: each action is what a thread does between two   *)
(* of these.                                                               *)
(*                                                                         *)
(* The array is the sequence of its used slots, sorted by parameter; its   *)
(* address matters because a thread that grows it compares addresses.      *)
(***************************************************************************)
EXTENDS Integers, SequencesExt

CONSTANTS Params,      \* the parameters: numbers
          Values,
          Threads,
          Stores,      \* the parameters each thread stores and resets
          Addresses,   \* where malloc can put an array
          Prealloc,    \* n_prealloc
          Grow,        \* n_grow
          MaxRetries,  \* max_retries of _grow (5 in the code)
          MaxOps,      \* bound on the calls of a behaviour
          Unset, None

ASSUME LayerAssumption ==
    /\ Params \subseteq Nat
    /\ Unset \notin Values
    /\ Stores \in [Threads -> SUBSET Params]
    /\ None \notin Addresses \cup [param : Params, value : Values \cup {Unset}]
    /\ {Prealloc, Grow, MaxRetries} \subseteq Nat \ {0}
    /\ MaxOps \in Nat

VARIABLES
  slots,     \* the used slots: _slots and _next_slot
  array,     \* the address of the array
  nSlots,    \* _n_slots
  size,      \* the slots allocated at each address, 0 where none are
  want,      \* the operation each thread is in
  pc,        \* where it is
  previous,  \* its previous_slots
  new,       \* its new_slots, or None
  retries,   \* its max_retries
  result,    \* what its last store returned; TRUE after a reset
  ops

vars == <<slots, array, nSlots, size, want, pc, previous, new, retries, result, ops>>

\* _getIndex: a binary search, 0 when the parameter is not found.
Index(p) ==
    LET search[range \in (1..Len(slots) + 1) \X (0..Len(slots))] ==
          LET l == range[1]  r == range[2]  mid == (l + r) \div 2
          IN  IF l > r THEN 0
              ELSE IF slots[mid].param = p THEN mid
              ELSE IF slots[mid].param < p THEN search[<<mid + 1, r>>]
              ELSE search[<<l, mid - 1>>]
    IN  search[<<1, Len(slots)>>]

\* get, up to the parent's value
Get(p) == IF Index(p) = 0 THEN Unset ELSE slots[Index(p)].value

\* The array with e added and sorted: qsort may put equal parameters in any order.
Sorted(e) ==
    {s \in {InsertAt(slots, i, e) : i \in 1..Len(slots) + 1} :
        \A i \in 1..Len(s) - 1 : s[i].param <= s[i + 1].param}
-----------------------------------------------------------------------------
Init ==
    /\ slots = <<>>
    /\ array \in Addresses
    /\ nSlots = Prealloc
    /\ size = [a \in Addresses |-> IF a = array THEN Prealloc ELSE 0]
    /\ want = [t \in Threads |-> None]
    /\ pc = [t \in Threads |-> "idle"]
    /\ previous = [t \in Threads |-> None]
    /\ new = [t \in Threads |-> None]
    /\ retries = [t \in Threads |-> 0]
    /\ result = [t \in Threads |-> TRUE]
    /\ ops = 0

\* A thread calls store(p, v), or reset(p) when v is Unset.
Begin(t, p, v) ==
    /\ pc[t] = "idle"
    /\ ops < MaxOps
    /\ ops' = ops + 1
    /\ want' = [want EXCEPT ![t] = [param |-> p, value |-> v]]
    /\ pc' = [pc EXCEPT ![t] = IF v = Unset THEN "reset" ELSE "store"]
    /\ UNCHANGED <<slots, array, nSlots, size, previous, new, retries, result>>

\* Mutant of Return: the caller is told that it succeeded, whatever happened.
ReturnTrue(t, r) ==
    /\ result' = [result EXCEPT ![t] = TRUE]
    /\ want' = [want EXCEPT ![t] = None]
    /\ pc' = [pc EXCEPT ![t] = "idle"]
    /\ previous' = [previous EXCEPT ![t] = None]
    /\ new' = [new EXCEPT ![t] = None]
    /\ retries' = [retries EXCEPT ![t] = 0]

\* A call returns: store says r to its caller, reset says nothing.
Return(t, r) ==
    /\ result' = [result EXCEPT ![t] = r]
    /\ want' = [want EXCEPT ![t] = None]
    /\ pc' = [pc EXCEPT ![t] = "idle"]
    /\ previous' = [previous EXCEPT ![t] = None]
    /\ new' = [new EXCEPT ![t] = None]
    /\ retries' = [retries EXCEPT ![t] = 0]

\* _grow begins another turn: the transaction is released to call malloc.
Regrow(t, n) ==
    /\ n > 0
    /\ retries' = [retries EXCEPT ![t] = n - 1]
    /\ previous' = [previous EXCEPT ![t] = array]
    /\ pc' = [pc EXCEPT ![t] = "malloc"]
    /\ UNCHANGED <<slots, want, new, result>>

Store(t) ==
    /\ pc[t] = "store"
    /\ LET w == want[t]  i == Index(w.param) IN
         \/ /\ i # 0
            /\ slots' = [slots EXCEPT ![i].value = w.value]
            /\ Return(t, TRUE)
         \/ /\ i = 0 /\ Len(slots) < nSlots
            /\ slots' \in Sorted(w)
            /\ Return(t, TRUE)
         \/ /\ i = 0 /\ Len(slots) >= nSlots
            /\ Regrow(t, MaxRetries)
    /\ UNCHANGED <<array, nSlots, size, ops>>

\* Mutant of Malloc: the array of a failed exchange is not freed.
MallocLeaky(t) ==
    /\ pc[t] = "malloc"
    /\ \E a \in Addresses :
         /\ size[a] = 0
         /\ new' = [new EXCEPT ![t] = a]
         /\ size' = [size EXCEPT ![a] = nSlots + Grow]
    /\ pc' = [pc EXCEPT ![t] = "exchange"]
    /\ UNCHANGED <<slots, array, nSlots, want, previous, retries, result, ops>>

\* Outside the transaction: the array of a failed exchange is freed and another
\* one allocated, larger than _n_slots is now.
Malloc(t) ==
    /\ pc[t] = "malloc"
    /\ LET freed == [a \in Addresses |-> IF a = new[t] THEN 0 ELSE size[a]] IN
         \/ /\ new' = [new EXCEPT ![t] = None]
            /\ size' = freed
         \/ \E a \in Addresses :
              /\ freed[a] = 0
              /\ new' = [new EXCEPT ![t] = a]
              /\ size' = [freed EXCEPT ![a] = nSlots + Grow]
    /\ pc' = [pc EXCEPT ![t] = "exchange"]
    /\ UNCHANGED <<slots, array, nSlots, want, previous, retries, result, ops>>

\* Mutant of Exchange: the array is replaced whatever became of it.
ExchangeAlways(t) ==
    /\ pc[t] = "exchange"
    /\ new[t] # None
    /\ array' = new[t]
    /\ nSlots' = nSlots + Grow
    /\ new' = [new EXCEPT ![t] = None]
    /\ pc' = [pc EXCEPT ![t] = "free"]
    /\ UNCHANGED <<slots, size, want, previous, retries, result, ops>>

\* In the transaction again: the exchange succeeds when the array is where it
\* was; else _grow tries again with the array that is there now.
Exchange(t) ==
    /\ pc[t] = "exchange"
    /\ \/ /\ new[t] = None
          /\ Return(t, FALSE)
          /\ UNCHANGED <<array, nSlots>>
       \/ /\ new[t] # None /\ array = previous[t]
          /\ array' = new[t]
          /\ nSlots' = nSlots + Grow
          /\ new' = [new EXCEPT ![t] = None]
          /\ pc' = [pc EXCEPT ![t] = "free"]
          /\ UNCHANGED <<want, previous, retries, result>>
       \/ /\ new[t] # None /\ array # previous[t]
          /\ previous' = [previous EXCEPT ![t] = array]
          /\ pc' = [pc EXCEPT ![t] = "malloc"]
          /\ UNCHANGED <<array, nSlots, want, new, retries, result>>
    /\ UNCHANGED <<slots, size, ops>>

\* Outside the transaction once more
Free(t) ==
    /\ pc[t] = "free"
    /\ size' = [size EXCEPT ![previous[t]] = 0]
    /\ pc' = [pc EXCEPT ![t] = "insert"]
    /\ UNCHANGED <<slots, array, nSlots, want, previous, new, retries, result, ops>>

\* Back in store, or in _grow when the others have filled the array meanwhile.
\* The parameter is not looked up again.
Insert(t) ==
    /\ pc[t] = "insert"
    /\ \/ /\ Len(slots) < nSlots
          /\ slots' \in Sorted(want[t])
          /\ Return(t, TRUE)
       \/ /\ Len(slots) >= nSlots
          /\ Regrow(t, retries[t])
       \/ /\ Len(slots) >= nSlots /\ retries[t] = 0
          /\ Return(t, FALSE)
          /\ UNCHANGED slots
    /\ UNCHANGED <<array, nSlots, size, ops>>

\* Mutant of Reset: the slots are not sorted before the last one is dropped.
ResetLast(t) ==
    /\ pc[t] = "reset"
    /\ slots' = IF Index(want[t].param) = 0 THEN slots ELSE Front(slots)
    /\ Return(t, TRUE)
    /\ UNCHANGED <<array, nSlots, size, ops>>

Reset(t) ==
    /\ pc[t] = "reset"
    /\ LET i == Index(want[t].param) IN
         slots' = IF i = 0 THEN slots ELSE RemoveAt(slots, i)
    /\ Return(t, TRUE)
    /\ UNCHANGED <<array, nSlots, size, ops>>

\* The array has room for the slots in use and was allocated as large as _n_slots says.
\* Without it memory is overwritten, and nothing is known of what follows.
Roomy == Len(slots) <= nSlots /\ nSlots <= size[array]

Next ==
    /\ Roomy
    /\ \E t \in Threads :
         \/ \E p \in Stores[t], v \in Values \cup {Unset} : Begin(t, p, v)
         \/ Store(t) \/ Malloc(t) \/ Exchange(t) \/ Free(t) \/ Insert(t) \/ Reset(t)

Spec == Init /\ [][Next]_vars
-----------------------------------------------------------------------------
(* Properties                                                              *)

\* Every variable keeps its type; the turns of a growth are bounded.
TypeOK ==
    /\ slots \in Seq([param : Params, value : Values])
    /\ array \in Addresses
    /\ nSlots \in Nat
    /\ size \in [Addresses -> Nat]
    /\ want \in [Threads -> [param : Params, value : Values \cup {Unset}] \cup {None}]
    /\ pc \in [Threads -> {"idle", "store", "malloc", "exchange", "free", "insert", "reset"}]
    /\ {previous, new} \subseteq [Threads -> Addresses \cup {None}]
    /\ retries \in [Threads -> 0..MaxRetries]
    /\ result \in [Threads -> BOOLEAN]
    /\ ops \in 0..MaxOps

\* A thread does not see that the array grew while it allocated one, because malloc put
\* the array where it had been before.
Missed ==
    \E t \in Threads :
        /\ pc[t] = "exchange" /\ new[t] # None /\ array = previous[t]
        /\ size[new[t]] <= nSlots

\* Copying into a new array and sorting it stay inside, however many threads grow it, but
\* for that cause.
ArrayFits == Roomy /\ [][Roomy' \/ Missed]_vars

\* No array is lost or freed twice: the memory in use is the array and what the
\* growing threads hold.
NoLeak ==
    \A a \in Addresses :
        size[a] # 0 <=>
            \/ a = array
            \/ \E t \in Threads : a = new[t] \/ (pc[t] = "free" /\ a = previous[t])

\* A parameter is in the array twice.
Twice == \E i, j \in 1..Len(slots) : i # j /\ slots[i].param = slots[j].param

\* A thread is to insert a parameter that another inserted while it grew the array.
Stale == \E t \in Threads : pc[t] = "insert" /\ Index(want[t].param) # 0

\* How far a thread is with the growth it needs for its store
Growth(t) ==
    CASE pc[t] = "exchange" /\ new[t] = None -> "failed"
      [] pc[t] \in {"malloc", "free", "insert"} -> "begun"
      [] pc[t] = "exchange" /\ new[t] # None -> "begun"
      [] OTHER -> "none"

\* The layer is the map it promises to be: no store is lost, none changes another
\* parameter while the array is replaced, and one that is refused found the layer full, got
\* no memory or no room that others had not used, and is reported to the caller.  The
\* promise is broken, from then on, only when two threads store the same new parameter and
\* the array grows meanwhile.
Map == INSTANCE ParamMap WITH
           map <- [p \in Params |-> Get(p)],
           full <- Len(slots) >= nSlots,
           growth <- [t \in Threads |-> Growth(t)]
ImplementsMap ==
    /\ Map!Init
    /\ [][IF Twice' THEN Twice \/ Stale ELSE Twice \/ [Map!Next]_(Map!mapVars)]_vars
=============================================================================
