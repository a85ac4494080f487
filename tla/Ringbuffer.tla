----------------------------- MODULE Ringbuffer -----------------------------
(***************************************************************************)
(* The lock-free byte ring with one producer and one consumer              *)
(* (lib/ringbuffer/Ringbuffer.cpp).  Each side owns one index, reads the   *)
(* other's, copies its bytes in any number of steps and only then stores   *)
(* its index: an acquire load or a release store is one step, and so is    *)
(* the copy of one byte.  One slot stays free.                             *)
(*                                                                         *)
(* _size is a power of two, so that x & _mask is x % Size also for the     *)
(* unsigned differences that wrap.  A byte is its number in the order of   *)
(* pushing, 0 a byte that was never pushed; pushed, popped and chunk       *)
(* record history.                                                         *)
(***************************************************************************)
EXTENDS Integers, Sequences

CONSTANTS Size,       \* buffer_size
          MaxLength,  \* longest buf_len and buf_max_len of a call
          MaxPushed   \* bound on the bytes pushed in a behaviour

ASSUME RingAssumption ==
    /\ Size \in Nat \ {0}
    /\ \E k \in 0..30 : Size = 2^k
    /\ MaxLength \in Nat
    /\ MaxPushed \in Nat

VARIABLES
  allocated,   \* _ringbuffer # nullptr
  slots,       \* the bytes of the buffer
  start,       \* _start, stored by the consumer
  end,         \* _end, stored by the producer
  toPush,      \* to_copy of the push under way, 0 if none
  pushing,     \* bytes it has copied
  toPop,       \* to_copy of the pop under way, 0 if none
  popping,     \* the bytes it has copied
  pushed,      \* bytes pushed so far
  popped,      \* bytes popped (or dropped by deallocate) so far
  chunk        \* what the last pop returned

pushVars == <<toPush, pushing>>
popVars == <<toPop, popping>>
ringHistory == <<pushed, popped, chunk>>
ringVars == <<allocated, slots, start, end, pushVars, popVars, ringHistory>>

Least(a, b) == IF a < b THEN a ELSE b

Available == (start - end - 1) % Size

\* Mutant of Used: the free slot is counted as a byte.
UsedOrFree == Size - Available

Used == (end - start) % Size

\* Where byte k of a copy of n bytes at index base lies: the copy is split in
\* two where the new index is smaller than the old one.
Place(base, n, k) ==
    IF (base + n) % Size < base /\ k >= Size - base
      THEN k - (Size - base)
      ELSE base + k
-----------------------------------------------------------------------------
RingInit ==
    /\ allocated = FALSE
    /\ slots = [i \in 0..Size - 1 |-> 0]
    /\ start = 0
    /\ end = 0
    /\ toPush = 0
    /\ pushing = 0
    /\ toPop = 0
    /\ popping = <<>>
    /\ pushed = 0
    /\ popped = 0
    /\ chunk = <<>>

\* allocate and init_static; the content of the buffer is not initialised.
Allocate ==
    /\ ~allocated
    /\ allocated' = TRUE
    /\ slots' = [i \in 0..Size - 1 |-> 0]
    /\ start' = 0
    /\ end' = 0
    /\ UNCHANGED <<pushVars, popVars, ringHistory>>

\* deallocate is not to be called while the producer or the consumer is active.
Deallocate ==
    /\ allocated
    /\ toPush = 0
    /\ toPop = 0
    /\ allocated' = FALSE
    /\ start' = 0
    /\ end' = 0
    /\ popped' = pushed
    /\ UNCHANGED <<slots, pushVars, popVars, pushed, chunk>>
-----------------------------------------------------------------------------
(* The producer                                                            *)

BeginPush(n) ==
    /\ allocated
    /\ toPush = 0
    /\ n > 0
    /\ pushed + n <= MaxPushed
    /\ toPush' = n
    /\ pushing' = 0
    /\ UNCHANGED <<allocated, slots, start, end, popVars, ringHistory>>

\* push_back: all or nothing
PushBack(n) == n <= Available /\ BeginPush(n)

\* Mutant of PushBackPartial: all of the bytes if there is any space.
PushBackUnclipped(n) == Available > 0 /\ BeginPush(n)

\* push_back_partial
PushBackPartial(n) == BeginPush(Least(n, Available))

CopyIn ==
    /\ pushing < toPush
    /\ slots' = [slots EXCEPT ![Place(end, toPush, pushing)] = pushed + pushing + 1]
    /\ pushing' = pushing + 1
    /\ UNCHANGED <<allocated, start, end, toPush, popVars, ringHistory>>

\* Mutant of StoreEnd: the index is stored before the last byte is copied.
StoreEndEarly ==
    /\ toPush > 0
    /\ pushing >= toPush - 1
    /\ end' = (end + toPush) % Size
    /\ pushed' = pushed + toPush
    /\ toPush' = 0
    /\ pushing' = 0
    /\ UNCHANGED <<allocated, slots, start, popVars, popped, chunk>>

StoreEnd ==
    /\ toPush > 0
    /\ pushing = toPush
    /\ end' = (end + toPush) % Size
    /\ pushed' = pushed + toPush
    /\ toPush' = 0
    /\ pushing' = 0
    /\ UNCHANGED <<allocated, slots, start, popVars, popped, chunk>>
-----------------------------------------------------------------------------
(* The consumer                                                            *)

PopFront(n) ==
    /\ allocated
    /\ toPop = 0
    /\ Used > 0
    /\ n > 0
    /\ toPop' = Least(Used, n)
    /\ popping' = <<>>
    /\ UNCHANGED <<allocated, slots, start, end, pushVars, ringHistory>>

CopyOut ==
    /\ Len(popping) < toPop
    /\ popping' = Append(popping, slots[Place(start, toPop, Len(popping))])
    /\ UNCHANGED <<allocated, slots, start, end, pushVars, toPop, ringHistory>>

StoreStart ==
    /\ toPop > 0
    /\ Len(popping) = toPop
    /\ start' = (start + toPop) % Size
    /\ popped' = popped + toPop
    /\ chunk' = popping
    /\ toPop' = 0
    /\ popping' = <<>>
    /\ UNCHANGED <<allocated, slots, end, pushVars, pushed>>
-----------------------------------------------------------------------------
Producer ==
    \/ \E n \in 1..MaxLength : PushBack(n) \/ PushBackPartial(n)
    \/ CopyIn
    \/ StoreEnd

Consumer ==
    \/ \E n \in 1..MaxLength : PopFront(n)
    \/ CopyOut
    \/ StoreStart

RingNext == Allocate \/ Deallocate \/ Producer \/ Consumer

RingSpec == RingInit /\ [][RingNext]_ringVars
-----------------------------------------------------------------------------
(* Properties                                                              *)

\* Every variable keeps its type; a copy never passes the length it was begun with.
RingTypeOK ==
    /\ allocated \in BOOLEAN
    /\ slots \in [0..Size - 1 -> Nat]
    /\ start \in 0..Size - 1
    /\ end \in 0..Size - 1
    /\ toPush \in 0..Size - 1
    /\ pushing \in 0..toPush
    /\ toPop \in 0..Size - 1
    /\ popping \in Seq(Nat)
    /\ Len(popping) <= toPop
    /\ pushed \in 0..MaxPushed
    /\ popped \in 0..pushed
    /\ chunk \in Seq(Nat)

\* The buffer never holds more than its capacity, also counting the bytes a
\* push under way is copying, and a pop under way takes bytes that are there.
WithinCapacity ==
    /\ pushed - popped + toPush <= Size - 1
    /\ toPop <= pushed - popped

\* The producer and the consumer never work on the same slot at the same time:
\* plain memcpy on both sides is free of data races.
NoDataRace ==
    \A i \in 0..toPush - 1, j \in 0..toPop - 1 :
        Place(end, toPush, i) # Place(start, toPop, j)

\* The ring is a pipe: bytes leave in the order they came, none lost, repeated
\* or altered, for every interleaving of the copies with the other side.
Promised == INSTANCE Pipe WITH Capacity <- Size - 1

ImplementsPipe == Promised!PipeSpec

\* What the three rest on: the indices are apart by the number of bytes held,
\* every byte held is in its place, and so is every byte copied so far.
RingInv ==
    /\ Used = pushed - popped
    /\ WithinCapacity
    /\ \A k \in 0..pushed - popped - 1 : slots[(start + k) % Size] = popped + k + 1
    /\ \A k \in 0..pushing - 1 : slots[(end + k) % Size] = pushed + k + 1
    /\ \A k \in 1..Len(popping) : popping[k] = popped + k
=============================================================================
