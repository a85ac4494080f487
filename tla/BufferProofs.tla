---------------------------- MODULE BufferProofs ----------------------------
(* Proofs about the two byte rings, Ringbuffer and the buffers of the log   *)
(* writer, for every size, every length of a call and every interleaving of *)
(* the two sides.                                                           *)
EXTENDS Ringbuffer, LogWriterFile, SequenceTheorems, TLAPS

(* The remainder of an index that left the buffer by less than its size.    *)
LEMMA Remainder ==
    ASSUME NEW n \in Nat \ {0}, NEW x \in Int, -n <= x, x < 2 * n
    PROVE  x % n = IF x < 0 THEN x + n ELSE IF x < n THEN x ELSE x - n
<1>1. CASE x < 0
  BY <1>1, SMT
<1>2. CASE 0 <= x /\ x < n
  BY <1>2, SMT
<1>3. CASE n <= x
  BY <1>3, SMT
<1> QED BY <1>1, <1>2, <1>3

-----------------------------------------------------------------------------
(* The lock-free ring: its size is a power of two.                          *)

\* The slot k places after index base, without a division.
Slot(base, k) == IF base + k < Size THEN base + k ELSE base + k - Size

Held == pushed - popped

(* Masking an index difference or sum is one addition or subtraction.       *)
LEMMA Wrap ==
    ASSUME NEW x \in Int, -Size <= x, x < 2 * Size
    PROVE  x % Size = IF x < 0 THEN x + Size ELSE IF x < Size THEN x ELSE x - Size
<1>1. Size \in Nat \ {0}
  BY RingAssumption DEF RingAssumption
<1> QED BY <1>1, Remainder

LEMMA SlotIsRemainder ==
    ASSUME NEW base \in 0..Size - 1, NEW k \in 0..Size - 1
    PROVE  /\ (base + k) % Size = Slot(base, k)
           /\ Slot(base, k) \in 0..Size - 1
<1>1. Size \in Nat \ {0}
  BY RingAssumption DEF RingAssumption
<1> QED BY <1>1, Wrap DEF Slot

(* The two memcpy calls of a copy that wraps write the slots that follow    *)
(* the index, one after the other.                                          *)
LEMMA PlaceIsSlot ==
    ASSUME NEW base \in 0..Size - 1, NEW n \in 0..Size - 1, NEW k \in 0..n - 1
    PROVE  Place(base, n, k) = Slot(base, k)
<1>1. Size \in Nat \ {0}
  BY RingAssumption DEF RingAssumption
<1>2. (base + n) % Size = Slot(base, n)
  BY SlotIsRemainder
<1> QED BY <1>1, <1>2 DEF Place, Slot

LEMMA SlotAdd ==
    ASSUME NEW base \in 0..Size - 1, NEW a \in 0..Size - 1, NEW b \in 0..Size - 1,
           a + b < Size
    PROVE  Slot(Slot(base, a), b) = Slot(base, a + b)
<1>1. Size \in Nat \ {0}
  BY RingAssumption DEF RingAssumption
<1> QED BY <1>1 DEF Slot

LEMMA SlotInjective ==
    ASSUME NEW base \in 0..Size - 1, NEW a \in 0..Size - 1, NEW b \in 0..Size - 1,
           a # b
    PROVE  Slot(base, a) # Slot(base, b)
<1>1. Size \in Nat \ {0}
  BY RingAssumption DEF RingAssumption
<1> QED BY <1>1 DEF Slot

-----------------------------------------------------------------------------
(* The inductive invariant: RingInv without the remainders, and a buffer    *)
(* that is not allocated is empty and unused.                               *)
RingIInv ==
    /\ RingTypeOK
    /\ WithinCapacity
    /\ end = Slot(start, Held)
    /\ \A k \in 0..Held - 1 : slots[Slot(start, k)] = popped + k + 1
    /\ \A k \in 0..pushing - 1 : slots[Slot(end, k)] = pushed + k + 1
    /\ \A k \in 1..Len(popping) : popping[k] = popped + k
    /\ pushed + toPush <= MaxPushed
    /\ ~allocated => Held = 0 /\ toPush = 0 /\ toPop = 0

LEMMA RingBounds ==
    ASSUME RingIInv
    PROVE  /\ Size \in Nat \ {0}
           /\ pushed \in Nat /\ popped \in Nat
           /\ Held \in 0..Size - 1
           /\ toPush \in 0..Size - 1 /\ toPop \in 0..Held
           /\ Held + toPush < Size
           /\ start \in 0..Size - 1 /\ end \in 0..Size - 1
<1>1. Size \in Nat \ {0} /\ MaxPushed \in Nat
  BY RingAssumption DEF RingAssumption
<1> QED BY <1>1 DEF RingIInv, RingTypeOK, WithinCapacity, Held

LEMMA RingSpace ==
    ASSUME RingIInv
    PROVE  Used = Held /\ Available = Size - 1 - Held
<1>1. /\ Size \in Nat \ {0}
      /\ Held \in 0..Size - 1
      /\ start \in 0..Size - 1 /\ end \in 0..Size - 1
      /\ end = Slot(start, Held)
  BY RingBounds DEF RingIInv
<1>2. Used = Held
  BY <1>1, Wrap DEF Used, Slot
<1>3. Available = Size - 1 - Held
  BY <1>1, Wrap DEF Available, Slot
<1> QED BY <1>2, <1>3

LEMMA RingInitInv == RingInit => RingIInv
<1> SUFFICES ASSUME RingInit PROVE RingIInv
  OBVIOUS
<1>1. Size \in Nat \ {0} /\ MaxPushed \in Nat
  BY RingAssumption DEF RingAssumption
<1>2. RingTypeOK
  BY <1>1 DEF RingInit, RingTypeOK
<1>3. Held = 0
  BY DEF RingInit, Held
<1>4. WithinCapacity
  BY <1>1 DEF RingInit, WithinCapacity
<1>5. end = Slot(start, Held)
  BY <1>1, <1>3 DEF RingInit, Slot
<1>6. Len(popping) = 0
  BY DEF RingInit
<1>7. pushing = 0 /\ toPush = 0 /\ toPop = 0 /\ pushed = 0
  BY DEF RingInit
<1> QED BY <1>1, <1>2, <1>3, <1>4, <1>5, <1>6, <1>7 DEF RingIInv

(* allocate and deallocate                                                  *)
LEMMA EmptyKeeps ==
    ASSUME RingIInv, Allocate \/ Deallocate
    PROVE  RingIInv'
<1>0. /\ Size \in Nat \ {0} /\ pushed \in Nat /\ popped \in Nat
      /\ Held \in 0..Size - 1 /\ Held = pushed - popped
      /\ toPush \in 0..Size - 1 /\ toPop \in 0..Held
      /\ Held + toPush < Size
      /\ start \in 0..Size - 1 /\ end \in 0..Size - 1
  BY RingBounds DEF Held
<1> USE <1>0
<1>1. toPush = 0 /\ toPop = 0 /\ pushing = 0 /\ Len(popping) = 0
  BY DEF RingIInv, RingTypeOK, Allocate, Deallocate
<1>2. /\ start' = 0 /\ end' = 0
      /\ UNCHANGED <<toPush, pushing, toPop, popping, pushed, chunk>>
  BY DEF Allocate, Deallocate, pushVars, popVars, ringHistory
<1>3. popped' = pushed'
  BY DEF RingIInv, Allocate, Deallocate, ringHistory
<1>4. slots' \in [0..Size - 1 -> Nat] /\ allocated' \in BOOLEAN
  <2>1. slots \in [0..Size - 1 -> Nat]
    BY DEF RingIInv, RingTypeOK
  <2>2. CASE Allocate
    BY <2>2 DEF Allocate
  <2>3. CASE Deallocate
    BY <2>1, <2>3 DEF Deallocate
  <2> QED BY <2>2, <2>3
<1>5. RingTypeOK'
  <2>1. RingTypeOK
    BY DEF RingIInv
  <2>2. pushed' = pushed /\ popped' = pushed
    BY <1>2, <1>3
  <2> QED BY <1>1, <1>2, <1>4, <2>1, <2>2 DEF RingTypeOK
<1>6. WithinCapacity'
  BY <1>1, <1>2, <1>3 DEF WithinCapacity
<1>7. Held' = 0 /\ end' = Slot(start, Held)'
  BY <1>2, <1>3 DEF Held, Slot
<1>8. toPush' = 0 /\ toPop' = 0 /\ pushing' = 0 /\ Len(popping') = 0
  BY <1>1, <1>2
<1>9. pushed' + toPush' <= MaxPushed
  BY <1>1, <1>2 DEF RingIInv
<1> QED BY <1>5, <1>6, <1>7, <1>8, <1>9 DEF RingIInv

(* The producer copies into the slots after the bytes held.                 *)
LEMMA CopyInKeeps ==
    ASSUME RingIInv, CopyIn
    PROVE  RingIInv'
<1>0. /\ Size \in Nat \ {0} /\ pushed \in Nat /\ popped \in Nat
      /\ Held \in 0..Size - 1 /\ Held = pushed - popped
      /\ toPush \in 0..Size - 1 /\ toPop \in 0..Held
      /\ Held + toPush < Size
      /\ start \in 0..Size - 1 /\ end \in 0..Size - 1
  BY RingBounds DEF Held
<1> USE <1>0
<1>1. /\ pushing \in 0..toPush - 1
      /\ slots \in [0..Size - 1 -> Nat]
      /\ end = Slot(start, Held)
  <2>1. pushing < toPush
    BY DEF CopyIn
  <2>2. RingTypeOK /\ end = Slot(start, Held)
    BY DEF RingIInv
  <2> QED BY <2>1, <2>2 DEF RingTypeOK
<1> DEFINE at == Slot(end, pushing)
<1>2. at \in 0..Size - 1 /\ at = Slot(start, Held + pushing)
  <2>1. pushing \in 0..Size - 1 /\ Held + pushing < Size
    BY <1>1
  <2>2. at \in 0..Size - 1
    BY <2>1, SlotIsRemainder
  <2>3. Slot(Slot(start, Held), pushing) = Slot(start, Held + pushing)
    BY <2>1, SlotAdd
  <2> QED BY <1>1, <2>2, <2>3
<1>3. /\ slots' = [slots EXCEPT ![at] = pushed + pushing + 1]
      /\ pushing' = pushing + 1
      /\ UNCHANGED <<allocated, start, end, toPush, popVars, ringHistory>>
  BY <1>1, PlaceIsSlot DEF CopyIn
<1> HIDE DEF at
<1>4. UNCHANGED <<Held, start, end, pushed, popped, popping, toPop, allocated, toPush>>
  BY <1>3 DEF Held, popVars, ringHistory
<1>5. RingTypeOK'
  BY <1>1, <1>2, <1>3, <1>4 DEF RingIInv, RingTypeOK, ringHistory, popVars
<1>6. \A k \in 0..Held - 1 : slots'[Slot(start, k)] = popped + k + 1
  <2> TAKE k \in 0..Held - 1
  <2>1. Slot(start, k) # at /\ Slot(start, k) \in 0..Size - 1
    <3>1. /\ k \in 0..Size - 1 /\ Held + pushing \in 0..Size - 1
          /\ k # Held + pushing
      BY <1>1
    <3> QED BY <1>2, <3>1, SlotInjective, SlotIsRemainder
  <2> QED BY <1>1, <1>3, <2>1 DEF RingIInv
<1>7. \A k \in 0..pushing : slots'[Slot(end, k)] = pushed + k + 1
  <2> TAKE k \in 0..pushing
  <2>1. CASE k = pushing
    BY <1>1, <1>2, <1>3, <2>1 DEF at
  <2>2. CASE k < pushing
    <3>1. Slot(end, k) # at /\ Slot(end, k) \in 0..Size - 1
      <4>1. k \in 0..Size - 1 /\ pushing \in 0..Size - 1 /\ k # pushing
        BY <1>1, <2>2
      <4> QED BY <4>1, SlotInjective, SlotIsRemainder DEF at
    <3>2. slots'[Slot(end, k)] = slots[Slot(end, k)]
      BY <1>1, <1>3, <3>1
    <3> QED BY <3>2, <2>2, <1>1 DEF RingIInv
  <2> QED BY <1>1, <2>1, <2>2
<1>8. \A k \in 0..pushing' - 1 : slots'[Slot(end, k)'] = pushed' + k + 1
  <2>1. pushing' - 1 = pushing
    BY <1>1, <1>3
  <2> QED BY <1>4, <1>7, <2>1 DEF Slot
<1>9. \A k \in 0..Held' - 1 : slots'[Slot(start, k)'] = popped' + k + 1
  BY <1>4, <1>6 DEF Slot
<1> QED BY <1>4, <1>5, <1>8, <1>9 DEF RingIInv, WithinCapacity, Slot

(* The producer's index moves over the bytes copied.                        *)
LEMMA StoreEndKeeps ==
    ASSUME RingIInv, StoreEnd
    PROVE  RingIInv'
<1>0. /\ Size \in Nat \ {0} /\ pushed \in Nat /\ popped \in Nat
      /\ Held \in 0..Size - 1 /\ Held = pushed - popped
      /\ toPush \in 0..Size - 1 /\ toPop \in 0..Held
      /\ Held + toPush < Size
      /\ start \in 0..Size - 1 /\ end \in 0..Size - 1
  BY RingBounds DEF Held
<1> USE <1>0
<1>1. /\ toPush \in 1..Size - 1
      /\ end = Slot(start, Held)
      /\ pushing = toPush
  BY DEF RingIInv, RingTypeOK, StoreEnd
<1>2. /\ end' = Slot(start, Held + toPush)
      /\ end' \in 0..Size - 1
  BY <1>1, SlotIsRemainder, SlotAdd DEF StoreEnd
<1>3. /\ pushed' = pushed + toPush /\ Held' = Held + toPush
      /\ toPush' = 0 /\ pushing' = 0
      /\ UNCHANGED <<allocated, slots, start, toPop, popping, popped, chunk>>
  BY DEF StoreEnd, Held, popVars
<1>4. RingTypeOK'
  <2>1. RingTypeOK /\ pushed + toPush <= MaxPushed /\ MaxPushed \in Nat
    BY RingAssumption DEF RingIInv, RingAssumption
  <2>2. pushed' \in 0..MaxPushed /\ popped' \in 0..pushed'
    BY <1>1, <1>3, <2>1 DEF RingTypeOK
  <2> QED BY <1>2, <1>3, <2>1, <2>2 DEF RingTypeOK
<1>5. \A k \in 0..Held' - 1 : slots[Slot(start, k)] = popped + k + 1
  <2> TAKE k \in 0..Held' - 1
  <2>1. CASE k < Held
    BY <2>1 DEF RingIInv
  <2>2. CASE k >= Held
    <3>1. k - Held \in 0..toPush - 1
      BY <1>1, <1>3, <2>2
    <3>2. Slot(end, k - Held) = Slot(start, k)
      BY <1>1, <3>1, SlotAdd
    <3>3. slots[Slot(end, k - Held)] = pushed + (k - Held) + 1
      BY <1>1, <3>1 DEF RingIInv
    <3> QED BY <3>2, <3>3 DEF Held
  <2> QED BY <1>1, <1>3, <2>1, <2>2
<1> QED BY <1>1, <1>2, <1>3, <1>4, <1>5 DEF RingIInv, WithinCapacity, Slot, Held

(* A pop takes bytes that are there, and reads them from their slots.       *)
LEMMA CopyOutKeeps ==
    ASSUME RingIInv, CopyOut
    PROVE  RingIInv'
<1>0. /\ Size \in Nat \ {0} /\ pushed \in Nat /\ popped \in Nat
      /\ Held \in 0..Size - 1 /\ Held = pushed - popped
      /\ toPush \in 0..Size - 1 /\ toPop \in 0..Held
      /\ Held + toPush < Size
      /\ start \in 0..Size - 1 /\ end \in 0..Size - 1
  BY RingBounds DEF Held
<1> USE <1>0
<1>1. /\ Len(popping) \in 0..toPop - 1
      /\ popping \in Seq(Nat)
      /\ slots \in [0..Size - 1 -> Nat]
  <2>1. RingTypeOK /\ Len(popping) < toPop
    BY DEF RingIInv, CopyOut
  <2> QED BY <2>1 DEF RingTypeOK
<1> DEFINE k == Len(popping)
<1>2. Place(start, toPop, k) = Slot(start, k) /\ k \in 0..Held - 1
  BY <1>1, PlaceIsSlot
<1>3. slots[Slot(start, k)] = popped + k + 1
  BY <1>2 DEF RingIInv
<1>4. popping' = Append(popping, popped + k + 1)
  BY <1>2, <1>3 DEF CopyOut
<1>5. /\ popping' \in Seq(Nat) /\ Len(popping') = k + 1
      /\ \A i \in 1..k : popping'[i] = popping[i]
      /\ popping'[k + 1] = popped + k + 1
  BY <1>1, <1>4
<1> HIDE DEF k
<1>6. UNCHANGED <<allocated, slots, start, end, toPush, pushing, toPop, pushed, popped, chunk>>
  BY DEF CopyOut, pushVars, ringHistory
<1>7. RingTypeOK'
  <2>1. RingTypeOK
    BY DEF RingIInv
  <2>2. Len(popping') <= toPop'
    BY <1>1, <1>5, <1>6 DEF k
  <2> QED BY <1>5, <1>6, <2>1, <2>2 DEF RingTypeOK
<1>8. \A i \in 1..Len(popping') : popping'[i] = popped' + i
  <2> TAKE i \in 1..Len(popping')
  <2>1. CASE i = k + 1
    BY <2>1, <1>5, <1>6, <1>1 DEF k
  <2>2. CASE i # k + 1
    <3>1. i \in 1..k
      BY <1>1, <1>5, <2>2 DEF k
    <3>2. popping[i] = popped + i
      BY <3>1 DEF RingIInv, k
    <3> QED BY <1>5, <1>6, <3>1, <3>2
  <2> QED BY <2>1, <2>2
<1> QED BY <1>6, <1>7, <1>8 DEF RingIInv, WithinCapacity, Slot, Held

(* The consumer's index moves over the bytes copied.                        *)
LEMMA StoreStartKeeps ==
    ASSUME RingIInv, StoreStart
    PROVE  RingIInv'
<1>0. /\ Size \in Nat \ {0} /\ pushed \in Nat /\ popped \in Nat
      /\ Held \in 0..Size - 1 /\ Held = pushed - popped
      /\ toPush \in 0..Size - 1 /\ toPop \in 0..Held
      /\ Held + toPush < Size
      /\ start \in 0..Size - 1 /\ end \in 0..Size - 1
  BY RingBounds DEF Held
<1> USE <1>0
<1>1. /\ toPop \in 1..Held
      /\ end = Slot(start, Held)
  BY DEF RingIInv, RingTypeOK, StoreStart
<1>2. /\ start' = Slot(start, toPop)
      /\ start' \in 0..Size - 1
  BY <1>1, SlotIsRemainder DEF StoreStart
<1>3. /\ popped' = popped + toPop /\ Held' = Held - toPop
      /\ toPop' = 0 /\ popping' = <<>> /\ chunk' = popping
      /\ UNCHANGED <<allocated, slots, end, toPush, pushing, pushed>>
  BY DEF StoreStart, Held, pushVars
<1>4. RingTypeOK'
  <2>1. RingTypeOK
    BY DEF RingIInv
  <2>2. popped' \in 0..pushed'
    BY <1>1, <1>3
  <2> QED BY <1>2, <1>3, <2>1, <2>2 DEF RingTypeOK
<1>5. end' = Slot(start', Held')
  BY <1>1, <1>2, <1>3 DEF Slot
<1>6. \A k \in 0..Held' - 1 : slots[Slot(start', k)] = popped' + k + 1
  <2> TAKE k \in 0..Held' - 1
  <2>1. toPop + k \in 0..Held - 1 /\ k \in 0..Size - 1
    BY <1>1, <1>3
  <2>2. Slot(start', k) = Slot(start, toPop + k)
    BY <1>1, <1>2, <2>1 DEF Slot
  <2>3. slots[Slot(start, toPop + k)] = popped + (toPop + k) + 1
    BY <2>1 DEF RingIInv
  <2> QED BY <1>1, <1>3, <2>1, <2>2, <2>3
<1>7. Len(popping') = 0
  BY <1>3
<1>8. \A k \in 0..Held' - 1 : slots'[Slot(start, k)'] = popped' + k + 1
  BY <1>3, <1>6 DEF Slot
<1> QED BY <1>1, <1>2, <1>3, <1>4, <1>5, <1>7, <1>8 DEF RingIInv, WithinCapacity, Slot, Held

(* A call starts within the space, or the bytes, there are.                 *)
LEMMA BeginPushKeeps ==
    ASSUME RingIInv, NEW n \in Nat, n <= Available, BeginPush(n)
    PROVE  RingIInv'
<1>0. /\ Size \in Nat \ {0} /\ pushed \in Nat /\ popped \in Nat
      /\ Held \in 0..Size - 1 /\ Held = pushed - popped
      /\ toPush \in 0..Size - 1 /\ toPop \in 0..Held
      /\ Held + toPush < Size
      /\ start \in 0..Size - 1 /\ end \in 0..Size - 1
  BY RingBounds DEF Held
<1> USE <1>0
<1>1. n \in 1..Size - 1 - Held
  BY RingSpace DEF BeginPush
<1>2. /\ toPush' = n /\ pushing' = 0 /\ allocated /\ pushed + n <= MaxPushed
      /\ UNCHANGED <<allocated, slots, start, end, toPop, popping, pushed, popped, chunk>>
  BY DEF BeginPush, popVars, ringHistory
<1>3. RingTypeOK'
  <2>1. RingTypeOK
    BY DEF RingIInv
  <2>2. toPush' \in 0..Size - 1 /\ pushing' \in 0..toPush'
    BY <1>1, <1>2
  <2> QED BY <1>2, <2>1, <2>2 DEF RingTypeOK
<1> QED BY <1>1, <1>2, <1>3 DEF RingIInv, WithinCapacity, Slot, Held

LEMMA PopFrontKeeps ==
    ASSUME RingIInv, NEW n \in Nat, PopFront(n)
    PROVE  RingIInv'
<1>0. /\ Size \in Nat \ {0} /\ pushed \in Nat /\ popped \in Nat
      /\ Held \in 0..Size - 1 /\ Held = pushed - popped
      /\ toPush \in 0..Size - 1 /\ toPop \in 0..Held
      /\ Held + toPush < Size
      /\ start \in 0..Size - 1 /\ end \in 0..Size - 1
  BY RingBounds DEF Held
<1> USE <1>0
<1>1. toPop' \in 1..Held
  BY RingSpace DEF PopFront, Least
<1>2. /\ popping' = <<>> /\ allocated
      /\ UNCHANGED <<allocated, slots, start, end, toPush, pushing, pushed, popped, chunk>>
  BY DEF PopFront, pushVars, ringHistory
<1>3. Len(popping') = 0 /\ popping' \in Seq(Nat)
  BY <1>2
<1>4. RingTypeOK'
  <2>1. RingTypeOK
    BY DEF RingIInv
  <2>2. toPop' \in 0..Size - 1 /\ Len(popping') <= toPop'
    BY <1>1, <1>3
  <2> QED BY <1>2, <1>3, <2>1, <2>2 DEF RingTypeOK
<1> QED BY <1>1, <1>2, <1>3, <1>4 DEF RingIInv, WithinCapacity, Slot, Held

LEMMA RingNextKeeps == RingIInv /\ [RingNext]_ringVars => RingIInv'
<1> SUFFICES ASSUME RingIInv, [RingNext]_ringVars PROVE RingIInv'
  OBVIOUS
<1> USE RingAssumption DEF RingAssumption
<1>1. CASE Allocate \/ Deallocate
  BY <1>1, EmptyKeeps
<1>2. ASSUME NEW n \in 1..MaxLength, PushBack(n) PROVE RingIInv'
  BY <1>2, BeginPushKeeps DEF PushBack
<1>3. ASSUME NEW n \in 1..MaxLength, PushBackPartial(n) PROVE RingIInv'
  <2>1. Available \in Nat
    BY RingSpace, RingBounds
  <2>2. Least(n, Available) \in Nat /\ Least(n, Available) <= Available
    BY <2>1 DEF Least
  <2> QED BY <1>3, <2>2, BeginPushKeeps DEF PushBackPartial
<1>4. CASE CopyIn
  BY <1>4, CopyInKeeps
<1>5. CASE StoreEnd
  BY <1>5, StoreEndKeeps
<1>6. ASSUME NEW n \in 1..MaxLength, PopFront(n) PROVE RingIInv'
  BY <1>6, PopFrontKeeps
<1>7. CASE CopyOut
  BY <1>7, CopyOutKeeps
<1>8. CASE StoreStart
  BY <1>8, StoreStartKeeps
<1>9. CASE UNCHANGED ringVars
  <2>1. UNCHANGED <<allocated, slots, start, end, toPush, pushing, toPop, popping,
                    pushed, popped, chunk>>
    BY <1>9 DEF ringVars, pushVars, popVars, ringHistory
  <2>2. RingTypeOK' /\ WithinCapacity'
    BY <2>1 DEF RingIInv, RingTypeOK, WithinCapacity
  <2> QED BY <2>1, <2>2 DEF RingIInv, Slot, Held
<1> QED BY <1>1, <1>2, <1>3, <1>4, <1>5, <1>6, <1>7, <1>8, <1>9
        DEF RingNext, Producer, Consumer

LEMMA RingInvariant == RingSpec => []RingIInv
<1> QED BY RingInitInv, RingNextKeeps, PTL DEF RingSpec

-----------------------------------------------------------------------------
(* Every variable keeps its type: no index leaves the buffer.               *)
THEOREM RingTypeCorrect == RingSpec => []RingTypeOK
<1>1. RingIInv => RingTypeOK
  BY DEF RingIInv
<1> QED BY <1>1, RingInvariant, PTL

(* The memcpy calls of the two sides never touch the same slot at the same  *)
(* time.                                                                    *)
THEOREM RaceFree == RingSpec => []NoDataRace
<1>1. RingIInv => NoDataRace
  <2> SUFFICES ASSUME RingIInv,
                      NEW i \in 0..toPush - 1, NEW j \in 0..toPop - 1
               PROVE  Place(end, toPush, i) # Place(start, toPop, j)
    BY DEF NoDataRace
  <2>1. /\ Held \in 0..Size - 1 /\ Size \in Nat
        /\ toPush \in 0..Size - 1 /\ toPop \in 0..Size - 1
        /\ Held + toPush < Size /\ toPop <= Held
        /\ start \in 0..Size - 1 /\ end \in 0..Size - 1
    BY RingBounds
  <2>2. Place(end, toPush, i) = Slot(end, i) /\ Place(start, toPop, j) = Slot(start, j)
    BY <2>1, PlaceIsSlot
  <2>3. i \in 0..Size - 1 /\ j \in 0..Size - 1 /\ Held + i \in 0..Size - 1 /\ j # Held + i
    BY <2>1
  <2>4. Slot(end, i) = Slot(start, Held + i)
    BY <2>1, <2>3, SlotAdd DEF RingIInv
  <2>5. Slot(start, Held + i) # Slot(start, j)
    BY <2>1, <2>3, SlotInjective
  <2> QED BY <2>2, <2>4, <2>5
<1> QED BY <1>1, RingInvariant, PTL

(* The bytes held, and those copied by a push or a pop under way, are the   *)
(* right ones, each in its place.                                           *)
THEOREM ContentCorrect == RingSpec => []RingInv
<1>1. RingIInv => RingInv
  <2> SUFFICES ASSUME RingIInv PROVE RingInv
    OBVIOUS
  <2>1. /\ Held \in 0..Size - 1 /\ Size \in Nat
        /\ toPush \in 0..Size - 1 /\ pushing \in 0..toPush
        /\ start \in 0..Size - 1 /\ end \in 0..Size - 1
    BY RingBounds DEF RingIInv, RingTypeOK
  <2>2. Used = Held /\ WithinCapacity
    BY RingSpace DEF RingIInv
  <2>3. \A k \in 0..Held - 1 : slots[(start + k) % Size] = popped + k + 1
    <3> TAKE k \in 0..Held - 1
    <3>1. k \in 0..Size - 1
      BY <2>1
    <3>2. (start + k) % Size = Slot(start, k)
      BY <2>1, <3>1, SlotIsRemainder
    <3> QED BY <3>2 DEF RingIInv
  <2>4. \A k \in 0..pushing - 1 : slots[(end + k) % Size] = pushed + k + 1
    <3> TAKE k \in 0..pushing - 1
    <3>1. k \in 0..Size - 1
      BY <2>1
    <3>2. (end + k) % Size = Slot(end, k)
      BY <2>1, <3>1, SlotIsRemainder
    <3> QED BY <3>2 DEF RingIInv
  <2>5. \A k \in 1..Len(popping) : popping[k] = popped + k
    BY DEF RingIInv
  <2> QED BY <2>2, <2>3, <2>4, <2>5 DEF RingInv, Held
<1> QED BY <1>1, RingInvariant, PTL

(* The ring is a pipe: StoreEnd pushes, StoreStart pops, deallocate drops    *)
(* what is left, and every other step is invisible.                         *)
THEOREM RingIsPipe == RingSpec => ImplementsPipe
<1>1. RingInit => Promised!PipeInit
  BY DEF RingInit, Promised!PipeInit
<1>2. ASSUME RingIInv, [RingNext]_ringVars
      PROVE  [Promised!Push \/ Promised!Pop \/ Promised!Drop]_(Promised!pipeVars)
  <2>0. /\ Held \in 0..Size - 1 /\ Held = pushed - popped /\ Size \in Nat \ {0}
        /\ toPush \in 0..Size - 1 /\ toPop \in 0..Size - 1
        /\ Held + toPush < Size /\ toPop <= Held
        /\ pushed \in Nat /\ popped \in Nat
    BY <1>2, RingBounds DEF Held
  <2> USE DEF Promised!pipeVars, ringHistory
  <2>1. CASE StoreEnd
    <3>1. toPush \in 1..(popped + (Size - 1) - pushed)
      BY <2>0, <2>1 DEF StoreEnd
    <3>2. pushed' = pushed + toPush /\ UNCHANGED <<popped, chunk>>
      BY <2>1 DEF StoreEnd
    <3> QED BY <3>1, <3>2 DEF Promised!Push
  <2>2. CASE StoreStart
    <3>1. toPop \in 1..(pushed - popped)
      BY <2>0, <2>2 DEF StoreStart
    <3>2. popping \in Seq(Nat) /\ Len(popping) = toPop
      BY <1>2, <2>2 DEF RingIInv, RingTypeOK, StoreStart
    <3>3. \A k \in 1..toPop : popping[k] = popped + k
      BY <1>2, <3>2 DEF RingIInv
    <3>4. popping = [i \in 1..toPop |-> popped + i]
      BY <3>1, <3>2, <3>3
    <3>5. popped' = popped + toPop /\ chunk' = popping /\ pushed' = pushed
      BY <2>2 DEF StoreStart
    <3> QED BY <3>1, <3>4, <3>5 DEF Promised!Pop
  <2>3. CASE Deallocate
    BY <2>3 DEF Deallocate, Promised!Drop
  <2>4. CASE UNCHANGED <<pushed, popped, chunk>>
    BY <2>4
  <2>5. \/ StoreEnd \/ StoreStart \/ Deallocate
        \/ UNCHANGED <<pushed, popped, chunk>>
    BY <1>2 DEF RingNext, Producer, Consumer, Allocate, PushBack, PushBackPartial,
                BeginPush, CopyIn, PopFront, CopyOut, ringVars
  <2> QED BY <2>1, <2>2, <2>3, <2>4, <2>5
<1> QED BY <1>1, <1>2, RingInvariant, PTL DEF RingSpec, ImplementsPipe, Promised!PipeSpec

-----------------------------------------------------------------------------
(* The buffers of the log writer                                            *)

\* Where the oldest byte of a buffer is, and the byte k places after index base.
Oldest(l) == IF head[l] < count[l] THEN head[l] - count[l] + BufferSize[l] ELSE head[l] - count[l]
SlotOf(l, base, k) == IF base + k < BufferSize[l] THEN base + k ELSE base + k - BufferSize[l]

\* Where the writer is while a chunk of the log is under way.
Writing == {"write", "retry", "written"}
Working == Writing \cup {"failed", "close"}

\* Types of the buffers, of the threads and of the history.
BuffersTyped ==
    /\ open \in [Logs -> BOOLEAN] /\ shouldRun \in [Logs -> BOOLEAN] /\ hadError \in [Logs -> BOOLEAN]
    /\ buffer = [l \in Logs |-> buffer[l]]
    /\ \A l \in Logs : buffer[l] \in [0..BufferSize[l] - 1 -> Nat]
    /\ head \in [Logs -> Nat] /\ count \in [Logs -> Int]
    /\ \A l \in Logs : head[l] < BufferSize[l] /\ -BufferSize[l] <= count[l] /\ count[l] <= BufferSize[l]

WriterTyped ==
    /\ locked \in BOOLEAN /\ exit \in BOOLEAN
    /\ wpc \in {"idle", "entering", "waiting", "woken", "begin", "locking", "look", "fsync",
                "write", "retry", "written", "failed", "close", "decide", "sleeping", "done"}
    /\ turn \in Logs
    /\ reading \in [from : Nat, size : Nat, part : BOOLEAN, written : Nat]
    /\ wpc \in Writing => /\ reading.from + reading.size <= BufferSize[turn]
                          /\ reading.written <= reading.size

LoggerTyped ==
    /\ lpc \in {"idle", "starting", "open", "run", "notify", "batch", "full", "again"}
    /\ arg \in [log : Logs, size : Nat]

HistoryTyped ==
    /\ accepted \in [Logs -> Nat] /\ first \in [Logs -> Nat]
    /\ file \in [Logs -> Seq(Nat)]
    /\ why \in [Logs -> SUBSET {"added", "overtaken", "exit"}]

Typed == BuffersTyped /\ WriterTyped /\ LoggerTyped /\ HistoryTyped

LEMMA Sizes ==
    /\ \A l \in Logs : BufferSize[l] \in Nat \ {0} /\ MinChunk[l] \in Nat \ {0}
    /\ Mission \in Logs /\ Full \in Logs
<1>1. BufferSize \in [Logs -> Nat \ {0}] /\ MinChunk \in [Logs -> Nat \ {0}]
  BY LogWriterAssumption DEF LogWriterAssumption
<1>2. Mission \in Logs /\ Full \in Logs
  BY DEF Logs
<1> QED
  BY <1>1, <1>2

LEMMA TypedIsType == Typed => TypeOK
<1> SUFFICES ASSUME Typed PROVE TypeOK
  OBVIOUS
<1> USE DEF Typed
<1>1. {open, shouldRun, hadError} \subseteq [Logs -> BOOLEAN]
  BY DEF BuffersTyped
<1>2. ASSUME NEW l \in Logs
      PROVE  /\ buffer[l] \in [0..BufferSize[l] - 1 -> Nat]
             /\ head[l] \in 0..BufferSize[l] - 1
             /\ count[l] \in -BufferSize[l]..BufferSize[l]
  BY Sizes DEF BuffersTyped
<1>3. {locked, exit} \subseteq BOOLEAN
  BY DEF WriterTyped
<1>4. {accepted, first} \subseteq [Logs -> Nat]
  BY DEF HistoryTyped
<1> QED
  BY <1>1, <1>2, <1>3, <1>4 DEF WriterTyped, LoggerTyped, HistoryTyped, TypeOK

\* A log that is being started does not run, and its file is closed until it is opened.
Starting(l) ==
    /\ arg.log = l /\ lpc \in {"starting", "open", "run"} => ~shouldRun[l]
    /\ arg.log = l /\ lpc = "open" => ~open[l]

\* The writer never took the log, while it was being opened, for one that is to be closed.
Normal(l) == "overtaken" \notin why[l]

\* A log that is closed does not run and its buffer is empty, until it runs.
Resting(l) ==
    /\ ~open[l] => ~shouldRun[l] /\ count[l] = 0
    /\ arg.log = l /\ lpc = "run" => count[l] = 0

\* The buffer holds the last bytes accepted, in order.
Holds(l) ==
    /\ count[l] >= 0
    /\ \A k \in 0..count[l] - 1 : buffer[l][SlotOf(l, Oldest(l), k)] = accepted[l] - count[l] + k + 1

\* The chunk under way is the oldest of the buffer, whatever was added since, and its file
\* is open.  A log that is about to be closed does not run, and has nothing to write but
\* for an error or the recorded cause.
ChunkOK(l) ==
    /\ turn = l /\ wpc \in Writing => reading.from = Oldest(l) /\ reading.size \in 1..count[l]
    /\ turn = l /\ wpc \in Writing \cup {"failed"} => open[l]
    /\ turn = l /\ wpc = "close" =>
         ~shouldRun[l] /\ (count[l] = 0 \/ hadError[l] \/ "added" \in why[l])

\* The part of FileIsPrefix about one log.
FileOK(l) ==
    /\ Len(file[l]) <= accepted[l] - first[l]
    /\ \A i \in 1..Len(file[l]) : file[l][i] = first[l] + i

\* What was accepted since the start is in the file or in the buffer; a chunk that was
\* written and not yet marked as read is in both.
Marked(l) == IF turn = l /\ wpc = "written" THEN reading.written ELSE 0
Balanced(l) == Len(file[l]) + count[l] - Marked(l) = accepted[l] - first[l]
BalanceOK(l) == Balanced(l) \/ (~open[l] /\ (hadError[l] \/ "added" \in why[l]))

NormalOK(l) == Resting(l) /\ Holds(l) /\ ChunkOK(l) /\ FileOK(l) /\ BalanceOK(l)

LogOK(l) == Starting(l) /\ (Normal(l) => NormalOK(l))

LogIInv == Typed /\ \A l \in Logs : LogOK(l)

-----------------------------------------------------------------------------
LEMMA LogInit == Init => LogIInv
<1> SUFFICES ASSUME Init PROVE LogIInv
  OBVIOUS
<1> USE Sizes DEF Init
<1>1. BuffersTyped
  BY DEF BuffersTyped
<1>2. WriterTyped
  BY DEF WriterTyped, NothingRead, Writing
<1>3. LoggerTyped
  BY DEF LoggerTyped
<1>4. HistoryTyped
  BY DEF HistoryTyped
<1>5. ASSUME NEW l \in Logs PROVE LogOK(l)
  <2>1. /\ open[l] = FALSE /\ shouldRun[l] = FALSE /\ count[l] = 0 /\ accepted[l] = 0
        /\ first[l] = 0 /\ file[l] = <<>> /\ Len(file[l]) = 0
    OBVIOUS
  <2> QED
    BY <2>1 DEF LogOK, Starting, Normal, NormalOK, Resting, Holds, ChunkOK, FileOK, BalanceOK,
                Balanced, Marked, Writing
<1> QED
  BY <1>1, <1>2, <1>3, <1>4, <1>5 DEF LogIInv, Typed

\* What is in the file of a log and its buffer, but for flags that change only one way.
Kept(l) ==
    /\ open'[l] = open[l] /\ buffer'[l] = buffer[l] /\ head'[l] = head[l] /\ count'[l] = count[l]
    /\ accepted'[l] = accepted[l] /\ first'[l] = first[l] /\ file'[l] = file[l]
    /\ hadError'[l] = hadError[l]
    /\ shouldRun'[l] => shouldRun[l]
    /\ "overtaken" \in why[l] => "overtaken" \in why'[l]
    /\ "added" \in why[l] => "added" \in why'[l]

\* The writer begins and ends nothing with the log.
Elsewhere(l) ==
    (turn = l /\ wpc \in Working) \/ (turn' = l /\ wpc' \in Working) => UNCHANGED writer

LEMMA MarkedKept ==
    ASSUME NEW l \in Logs, Elsewhere(l)
    PROVE  Marked(l)' = Marked(l)
<1>1. CASE (turn = l /\ wpc = "written") \/ (turn' = l /\ wpc' = "written")
  <2>1. UNCHANGED <<wpc, turn, reading>>
    BY <1>1 DEF Elsewhere, Working, Writing, writer
  <2> QED
    BY <2>1 DEF Marked
<1>2. CASE ~(turn = l /\ wpc = "written") /\ ~(turn' = l /\ wpc' = "written")
  BY <1>2 DEF Marked
<1> QED
  BY <1>1, <1>2

\* A step that leaves the log alone.
LEMMA Untouched ==
    ASSUME NEW l \in Logs, LogOK(l), Kept(l), Elsewhere(l), Starting(l)',
           arg'.log = l /\ lpc' = "run" => arg.log = l /\ lpc = "run"
    PROVE  LogOK(l)'
<1> SUFFICES ASSUME Normal(l)' PROVE NormalOK(l)'
  BY DEF LogOK
<1>1. NormalOK(l)
  BY DEF LogOK, Normal, Kept
<1> USE <1>1 DEF NormalOK, Kept
<1>2. Resting(l)'
  BY DEF Resting
<1>3. Oldest(l)' = Oldest(l)
  BY DEF Oldest
<1>4. Holds(l)'
  BY <1>3 DEF Holds, SlotOf
<1>5. ChunkOK(l)'
  BY <1>3 DEF ChunkOK, Elsewhere, Working, Writing, writer
<1>6. FileOK(l)'
  BY DEF FileOK
<1>7. Marked(l)' = Marked(l)
  BY MarkedKept
<1>8. BalanceOK(l)'
  BY <1>7 DEF BalanceOK, Balanced
<1> QED
  BY <1>2, <1>4, <1>5, <1>6, <1>8

(* Steps that touch no byte.                                                *)
LEMMA LoggerQuiet ==
    ASSUME Typed, NEW l \in Logs, LogOK(l),
           \/ Notify \/ AwaitClosed \/ ThreadStop
           \/ \E m \in Logs : StartLog(m) \/ StopLog(m)
    PROVE  LogOK(l)'
<1> USE DEF Kept, Elsewhere, Starting, Go, buffers, shared, writer, logger, history
<1>0. Starting(l) /\ shouldRun \in [Logs -> BOOLEAN]
  BY DEF LogOK, Typed, BuffersTyped
<1>1. CASE Notify
  <2>1. wpc' \notin Working \/ wpc' = wpc
    BY <1>1 DEF Notify, Woken, Working, Writing
  <2>2. wpc \notin Working \/ wpc' = wpc
    BY <1>1 DEF Notify, Woken, Working, Writing
  <2>3. Elsewhere(l)
    BY <1>1, <2>1, <2>2 DEF Notify
  <2>4. Starting(l)' /\ Kept(l) /\ lpc' # "run"
    BY <1>0, <1>1 DEF Notify
  <2> QED
    BY <2>3, <2>4, Untouched
<1>2. CASE AwaitClosed
  <2>1. Starting(l)' /\ Kept(l) /\ Elsewhere(l) /\ lpc' # "run"
    BY <1>0, <1>2 DEF AwaitClosed
  <2> QED
    BY <2>1, Untouched
<1>3. CASE ThreadStop
  <2>1. Starting(l)' /\ Kept(l) /\ Elsewhere(l) /\ lpc' # "run"
    BY <1>0, <1>3 DEF ThreadStop
  <2> QED
    BY <2>1, Untouched
<1>4. ASSUME NEW m \in Logs, StartLog(m) PROVE LogOK(l)'
  <2>1. Starting(l)' /\ Kept(l) /\ Elsewhere(l) /\ lpc' # "run"
    BY <1>0, <1>4 DEF StartLog
  <2> QED
    BY <2>1, Untouched
<1>5. ASSUME NEW m \in Logs, StopLog(m) PROVE LogOK(l)'
  <2>1. shouldRun'[l] => shouldRun[l]
    BY <1>0, <1>5 DEF StopLog
  <2>2. Starting(l)' /\ Kept(l) /\ Elsewhere(l) /\ lpc' # "run"
    BY <1>0, <1>5, <2>1 DEF StopLog
  <2> QED
    BY <2>2, Untouched
<1> QED
  BY <1>1, <1>2, <1>3, <1>4, <1>5

LEMMA LeaveKeeps ==
    ASSUME Typed, NEW l \in Logs, Leave
    PROVE  /\ "overtaken" \in why[l] => "overtaken" \in why'[l]
           /\ "added" \in why[l] => "added" \in why'[l]
BY DEF Leave

LEMMA WriterQuiet ==
    ASSUME Typed, NEW l \in Logs, LogOK(l),
           Idle \/ Wait \/ WakeUp \/ Begin \/ StartRound \/ FSync \/ Decide
    PROVE  LogOK(l)'
<1> USE DEF Kept, Elsewhere, At, buffers, shared, writer, logger, history
<1>0. Starting(l) /\ lpc' = lpc /\ arg' = arg /\ shouldRun' = shouldRun /\ open' = open
  BY DEF LogOK, Idle, Wait, WakeUp, Begin, StartRound, FSync, Decide
<1>1. Starting(l)'
  BY <1>0 DEF Starting
<1>2. wpc \notin Working /\ wpc' \notin Working
  BY DEF Idle, Wait, WakeUp, Begin, StartRound, FSync, Decide, Leave, NextTurn, Release,
         Working, Writing
<1>3. Kept(l)
  <2>1. CASE Idle \/ Begin
    BY <2>1, LeaveKeeps DEF Idle, Begin
  <2>2. CASE Wait \/ WakeUp \/ StartRound \/ FSync \/ Decide
    BY <2>2 DEF Wait, WakeUp, StartRound, FSync, Decide
  <2> QED
    BY <2>1, <2>2
<1> QED
  BY <1>0, <1>1, <1>2, <1>3, Untouched

(* Opening the file and letting the log run.                                *)
LEMMA OpenKeeps ==
    ASSUME Typed, NEW l \in Logs, LogOK(l), OpenFile
    PROVE  LogOK(l)'
<1> USE DEF shared, writer, logger
<1>0. /\ lpc = "open" /\ arg' = arg /\ lpc' \in {"run", "idle"} /\ arg.log \in Logs
      /\ UNCHANGED <<shouldRun, buffer, head, count, wpc, turn, reading, accepted>>
      /\ Starting(l)
  BY DEF OpenFile, Go, LogOK, Typed, LoggerTyped
<1>1. Starting(l)'
  BY <1>0 DEF Starting
<1>2. CASE arg.log # l
  <2>1. Kept(l) /\ Elsewhere(l)
    <3>1. open'[l] = open[l]
      BY <1>2 DEF OpenFile, Typed, BuffersTyped
    <3>2. hadError'[l] = hadError[l] /\ first'[l] = first[l] /\ file'[l] = file[l] /\ why'[l] = why[l]
      BY <1>2 DEF OpenFile, Typed, BuffersTyped, HistoryTyped
    <3> QED
      BY <1>0, <3>1, <3>2 DEF Kept, Elsewhere
  <2> QED
    BY <1>0, <1>1, <1>2, <2>1, Untouched
<1>3. CASE arg.log = l
  <2>0. /\ open'[l] \in BOOLEAN /\ hadError'[l] = FALSE /\ first'[l] = accepted[l]
        /\ file'[l] = <<>> /\ why'[l] = why[l] \cap {"overtaken"}
    BY <1>0, <1>3 DEF OpenFile, Typed, BuffersTyped, HistoryTyped
  <2>1. SUFFICES ASSUME Normal(l)' PROVE NormalOK(l)'
    BY <1>1 DEF LogOK
  <2>2. NormalOK(l)
    BY <2>0, <2>1 DEF LogOK, Normal
  <2>3. ~open[l] /\ ~shouldRun[l] /\ count[l] = 0
    BY <1>0, <1>3, <2>2 DEF Starting, NormalOK, Resting
  <2>4. turn # l \/ wpc \notin Writing \cup {"failed"}
    BY <2>2, <2>3 DEF NormalOK, ChunkOK
  <2>5. accepted[l] \in Nat
    BY DEF Typed, HistoryTyped
  <2>6. Resting(l)'
    BY <1>0, <2>3 DEF Resting
  <2>7. Holds(l)'
    BY <1>0, <2>3 DEF Holds
  <2>8. ChunkOK(l)'
    BY <1>0, <2>3, <2>4 DEF ChunkOK
  <2>9. FileOK(l)'
    BY <1>0, <2>0, <2>5 DEF FileOK
  <2>10. Marked(l)' = 0
    BY <1>0, <2>4 DEF Marked, Writing
  <2>11. BalanceOK(l)'
    BY <1>0, <2>0, <2>3, <2>5, <2>10 DEF BalanceOK, Balanced
  <2> QED
    BY <2>6, <2>7, <2>8, <2>9, <2>11 DEF NormalOK
<1> QED
  BY <1>2, <1>3

LEMMA RunKeeps ==
    ASSUME Typed, NEW l \in Logs, LogOK(l), SetRunning
    PROVE  LogOK(l)'
<1> USE DEF shared, writer, logger
<1>0. /\ lpc = "run" /\ arg' = arg /\ lpc' = "notify" /\ arg.log \in Logs
      /\ UNCHANGED <<open, hadError, buffer, wpc, turn, reading, accepted, first, file>>
  BY DEF SetRunning, Go, Typed, LoggerTyped
<1>1. Starting(l)'
  BY <1>0 DEF Starting
<1>2. CASE arg.log # l
  <2>1. Kept(l) /\ Elsewhere(l)
    BY <1>0, <1>2 DEF SetRunning, Kept, Elsewhere
  <2> QED
    BY <1>0, <1>1, <1>2, <2>1, Untouched
<1>3. CASE arg.log = l
  <2>0. /\ head'[l] = 0 /\ count'[l] = 0
        /\ why'[l] = IF Overtaken(l) THEN why[l] \cup {"overtaken"} ELSE why[l]
    BY <1>0, <1>3 DEF SetRunning, Typed, BuffersTyped, HistoryTyped
  <2>1. SUFFICES ASSUME Normal(l)' PROVE NormalOK(l)'
    BY <1>1 DEF LogOK
  <2>2. ~Overtaken(l) /\ NormalOK(l)
    BY <2>0, <2>1 DEF LogOK, Normal
  <2>3. open[l] /\ ~(wpc = "close" /\ turn = l) /\ count[l] = 0
    BY <1>0, <1>3, <2>2 DEF Overtaken, NormalOK, Resting
  <2>4. turn # l \/ wpc \notin Writing
    BY <2>2, <2>3 DEF NormalOK, ChunkOK
  <2>5. Resting(l)'
    BY <1>0, <2>3 DEF Resting
  <2>6. Holds(l)'
    BY <2>0 DEF Holds
  <2>7. ChunkOK(l)'
    BY <1>0, <2>3, <2>4 DEF ChunkOK
  <2>8. FileOK(l)'
    BY <1>0, <2>2 DEF FileOK, NormalOK
  <2>9. Marked(l)' = 0 /\ Marked(l) = 0
    BY <1>0, <2>4 DEF Marked, Writing
  <2>10. Balanced(l)
    BY <2>2, <2>3 DEF NormalOK, BalanceOK
  <2>11. BalanceOK(l)'
    BY <1>0, <2>0, <2>3, <2>9, <2>10 DEF BalanceOK, Balanced
  <2> QED
    BY <2>5, <2>6, <2>7, <2>8, <2>11 DEF NormalOK
<1> QED
  BY <1>2, <1>3

(* Adding a message.                                                        *)
LEMMA Advance ==
    ASSUME NEW S \in Nat \ {0}, NEW i \in 0..S - 1, NEW n \in 0..S
    PROVE  (i + n) % S = IF i + n < S THEN i + n ELSE i + n - S
<1>1. CASE i + n < S
  BY <1>1
<1>2. CASE i + n >= S
  BY <1>2
<1> QED
  BY <1>1, <1>2

\* The bytes of the buffer are where they were, and the new ones follow them.
LEMMA PutIs ==
    ASSUME Typed, NEW l \in Logs, Holds(l), NEW n \in Nat, Fits(l, n), PutBytes(l, n)
    PROVE  /\ count'[l] = count[l] + n /\ accepted'[l] = accepted[l] + n
           /\ Oldest(l)' = Oldest(l)
           /\ Holds(l)'
<1> DEFINE S == BufferSize[l]
           h == head[l]
           c == count[l]
           a == accepted[l]
<1>0. /\ S \in Nat \ {0} /\ h \in 0..S - 1 /\ c \in 0..S /\ a \in Nat /\ n <= S - c
  <2>1. S \in Nat \ {0}
    BY Sizes
  <2>2. h \in Nat /\ h < S /\ c \in Int /\ c <= S
    BY DEF Typed, BuffersTyped
  <2>3. a \in Nat
    BY DEF Typed, HistoryTyped
  <2>4. c >= 0 /\ n <= S - c
    BY DEF Holds, Fits
  <2> HIDE DEF S, h, c
  <2> QED
    BY <2>1, <2>2, <2>3, <2>4
<1>1. /\ head'[l] = (h + n) % S
      /\ count'[l] = c + n /\ accepted'[l] = a + n
      /\ buffer'[l] = [i \in 0..S - 1 |-> IF (i - h) % S < n THEN a + ((i - h) % S) + 1 ELSE buffer[l][i]]
  BY DEF PutBytes, Typed, BuffersTyped, HistoryTyped
<1>2. \A k \in 0..c - 1 : buffer[l][SlotOf(l, Oldest(l), k)] = a - c + k + 1
  BY DEF Holds
<1>3. Oldest(l) = IF h < c THEN h - c + S ELSE h - c
  BY DEF Oldest
<1>4. Oldest(l)' = IF head'[l] < c + n THEN head'[l] - (c + n) + S ELSE head'[l] - (c + n)
  BY <1>1 DEF Oldest
<1> HIDE DEF S, h, c, a
<1>5. head'[l] = IF h + n < S THEN h + n ELSE h + n - S
  <2>1. n \in 0..S
    BY <1>0
  <2>2. (h + n) % S = IF h + n < S THEN h + n ELSE h + n - S
    BY <1>0, <2>1, Advance
  <2> QED
    BY <1>1, <2>2
<1>6. Oldest(l)' = Oldest(l) /\ Oldest(l) \in 0..S - 1
  BY <1>0, <1>3, <1>4, <1>5
<1>7. ASSUME NEW k \in 0..c + n - 1
      PROVE  buffer'[l][SlotOf(l, Oldest(l), k)] = a - c + k + 1
  <2> DEFINE i == SlotOf(l, Oldest(l), k)
  <2>1. i = IF Oldest(l) + k < S THEN Oldest(l) + k ELSE Oldest(l) + k - S
    BY DEF SlotOf, S
  <2> HIDE DEF i
  <2>2. i \in 0..S - 1
    BY <1>0, <1>6, <2>1
  <2>3. i - h \in {k - c, k - c + S, k - c - S}
    BY <1>0, <1>3, <1>6, <2>1
  <2>4. (i - h) % S = IF i - h < 0 THEN i - h + S ELSE i - h
    <3>1. i - h \in Int /\ -S <= i - h /\ i - h < S /\ i - h < 2 * S
      BY <1>0, <2>2
    <3> QED
      BY <1>0, <3>1, Remainder
  <2>5. CASE k < c
    <3>1. (i - h) % S = k - c + S
      BY <1>0, <2>2, <2>3, <2>4, <2>5
    <3>2. ~((i - h) % S < n)
      BY <1>0, <2>5, <3>1
    <3>3. buffer'[l][i] = buffer[l][i]
      BY <1>1, <2>2, <3>2
    <3> QED
      BY <1>0, <1>2, <2>5, <3>3 DEF i
  <2>6. CASE k >= c
    <3>1. (i - h) % S = k - c
      BY <1>0, <2>2, <2>3, <2>4, <2>6
    <3>2. (i - h) % S < n
      BY <1>0, <2>6, <3>1
    <3>3. buffer'[l][i] = a + (k - c) + 1
      BY <1>1, <2>2, <3>1, <3>2
    <3> QED
      BY <1>0, <3>3 DEF i
  <2> QED
    BY <1>0, <2>5, <2>6
<1>8. Holds(l)'
  <2>1. count'[l] >= 0
    BY <1>0, <1>1 DEF c
  <2>2. ASSUME NEW k \in 0..count'[l] - 1
        PROVE  buffer'[l][SlotOf(l, Oldest(l), k)] = accepted'[l] - count'[l] + k + 1
    <3>1. k \in 0..c + n - 1 /\ accepted'[l] - count'[l] + k + 1 = a - c + k + 1
      BY <1>0, <1>1, <2>2
    <3> QED
      BY <1>7, <3>1
  <2> QED
    BY <1>6, <2>1, <2>2 DEF Holds, SlotOf
<1> QED
  BY <1>1, <1>6, <1>8 DEF c, a

\* A step of the logger that does no more than add a message to the log m.
LEMMA PutKeeps ==
    ASSUME Typed, NEW l \in Logs, LogOK(l), NEW m \in Logs, shouldRun[m],
           NEW n \in Nat, Fits(m, n), PutBytes(m, n),
           UNCHANGED <<open, shouldRun, hadError, shared, writer, arg, first, file, why>>,
           lpc' \notin {"starting", "open", "run"}
    PROVE  LogOK(l)'
<1>1. UNCHANGED <<open, shouldRun, hadError, wpc, turn, reading, first, file, why>>
  BY DEF writer
<1>2. Starting(l)'
  BY DEF Starting
<1>3. CASE m # l
  <2>1. Kept(l) /\ Elsewhere(l)
    BY <1>1, <1>3 DEF PutBytes, Kept, Elsewhere, writer, Typed, BuffersTyped, HistoryTyped
  <2> QED
    BY <1>2, <2>1, Untouched
<1>4. CASE m = l
  <2>1. SUFFICES ASSUME Normal(l)' PROVE NormalOK(l)'
    BY <1>2 DEF LogOK
  <2>2. NormalOK(l)
    BY <1>1, <2>1 DEF LogOK, Normal
  <2>3. /\ count'[l] = count[l] + n /\ accepted'[l] = accepted[l] + n
        /\ Oldest(l)' = Oldest(l) /\ Holds(l)'
    BY <1>4, <2>2, PutIs DEF NormalOK
  <2>4. /\ open[l] /\ shouldRun[l] /\ count[l] \in Int /\ accepted[l] \in Nat /\ first[l] \in Nat
        /\ Len(file[l]) \in Nat
    BY <1>4, <2>2 DEF NormalOK, Resting, Typed, BuffersTyped, HistoryTyped
  <2>5. Resting(l)'
    BY <1>1, <2>4 DEF Resting
  <2>6. ChunkOK(l)'
    <3>1. ChunkOK(l)
      BY <2>2 DEF NormalOK
    <3>2. turn = l /\ wpc \in Writing => reading.size \in 1..count'[l]
      BY <2>3, <2>4, <3>1 DEF ChunkOK
    <3> QED
      BY <1>1, <2>3, <2>4, <3>1, <3>2 DEF ChunkOK
  <2>7. FileOK(l)'
    BY <1>1, <2>2, <2>3, <2>4 DEF FileOK, NormalOK
  <2>8. Marked(l)' = Marked(l) /\ Marked(l) \in Int
    BY <1>1 DEF Marked, Typed, WriterTyped
  <2>9. Balanced(l)
    BY <2>2, <2>4 DEF NormalOK, BalanceOK
  <2>10. Balanced(l)'
    <3>1. Len(file[l]) + count[l] - Marked(l) = accepted[l] - first[l]
      BY <2>9 DEF Balanced
    <3>2. Len(file[l]) + (count[l] + n) - Marked(l) = (accepted[l] + n) - first[l]
      <4>1. PICK z, c, k, a, f \in Int : /\ z = Len(file[l]) /\ c = count[l] /\ k = Marked(l)
                                         /\ a = accepted[l] /\ f = first[l]
        BY <2>4, <2>8
      <4>2. z + c - k = a - f
        BY <3>1, <4>1, Zenon
      <4>3. z + (c + n) - k = (a + n) - f
        BY <4>2
      <4> QED
        BY <4>1, <4>3, Zenon
    <3>3. file'[l] = file[l] /\ first'[l] = first[l]
      BY <1>1
    <3> QED
      BY <2>3, <2>8, <3>2, <3>3 DEF Balanced
  <2>11. BalanceOK(l)'
    BY <2>10 DEF BalanceOK
  <2> QED
    BY <2>3, <2>5, <2>6, <2>7, <2>11 DEF NormalOK
<1> QED
  BY <1>3, <1>4

LEMMA MessageKeeps ==
    ASSUME Typed, NEW l \in Logs, LogOK(l),
           \/ WriteAgain
           \/ \E m \in Logs : \E n \in 1..MaxMessage[m], r \in BOOLEAN : WriteMessage(m, n, r)
    PROVE  LogOK(l)'
<1> USE DEF Go
<1>1. ASSUME NEW m \in Logs, NEW n \in 1..MaxMessage[m], NEW r \in BOOLEAN, WriteMessage(m, n, r)
      PROVE  LogOK(l)'
  <2>0. /\ shouldRun[m] /\ lpc' \in {"batch", "full"} /\ n \in Nat
        /\ UNCHANGED <<open, shouldRun, hadError, shared, writer, first, file, why>>
    <3>1. MaxMessage[m] \in Nat
      BY LogWriterAssumption DEF LogWriterAssumption
    <3> QED
      BY <1>1, <3>1 DEF WriteMessage
  <2>1. CASE Fits(m, n) /\ PutBytes(m, n) /\ UNCHANGED arg
    BY <2>0, <2>1, PutKeeps
  <2>2. CASE UNCHANGED <<buffer, head, count, accepted>>
    <3>1. Starting(l)' /\ Kept(l) /\ Elsewhere(l)
      BY <2>0, <2>2 DEF Starting, Kept, Elsewhere
    <3> QED
      BY <2>0, <3>1, Untouched
  <2> QED
    BY <1>1, <2>1, <2>2 DEF WriteMessage
<1>2. CASE WriteAgain
  <2>0. /\ arg.log \in Logs /\ arg.size \in Nat /\ lpc' \in {"batch", "full"}
        /\ UNCHANGED <<open, shouldRun, hadError, shared, writer, arg, first, file, why>>
    BY <1>2 DEF WriteAgain, Typed, LoggerTyped
  <2>1. CASE shouldRun[arg.log] /\ Fits(arg.log, arg.size)
    <3>1. PutBytes(arg.log, arg.size)
      BY <1>2, <2>1 DEF WriteAgain
    <3> QED
      BY <2>0, <2>1, <3>1, PutKeeps
  <2>2. CASE ~(shouldRun[arg.log] /\ Fits(arg.log, arg.size))
    <3>1. UNCHANGED <<buffer, head, count, accepted>>
      BY <1>2, <2>2 DEF WriteAgain
    <3>2. Starting(l)' /\ Kept(l) /\ Elsewhere(l)
      BY <2>0, <3>1 DEF Starting, Kept, Elsewhere
    <3> QED
      BY <2>0, <3>2, Untouched
  <2> QED
    BY <2>1, <2>2
<1> QED
  BY <1>1, <1>2

(* The writer's round over the logs.                                        *)
LEMMA ReadPtrIs ==
    ASSUME Typed, NEW l \in Logs, count[l] >= 0
    PROVE  /\ ReadPtr(l) \in [from : Nat, size : Nat, part : BOOLEAN, written : Nat]
           /\ ReadPtr(l).from = Oldest(l) /\ ReadPtr(l).written = 0
           /\ ReadPtr(l).size \in 0..count[l]
           /\ ReadPtr(l).from + ReadPtr(l).size <= BufferSize[l]
           /\ ReadPtr(l).size = 0 => count[l] = 0
           /\ ReadPtr(l).part => ReadPtr(l).size > 0
<1>1. /\ head[l] \in Nat /\ count[l] \in Nat /\ BufferSize[l] \in Nat
      /\ head[l] < BufferSize[l] /\ count[l] <= BufferSize[l]
  BY Sizes DEF Typed, BuffersTyped
<1>2. PICK h, c, s \in Nat : h = head[l] /\ c = count[l] /\ s = BufferSize[l]
  BY <1>1
<1>3. h < s /\ c <= s
  BY <1>1, <1>2
<1>4. Oldest(l) = IF h < c THEN h - c + s ELSE h - c
  BY <1>2 DEF Oldest
<1>5. CASE h < c
  <2>1. ReadPtr(l) = [from |-> h - c + s, size |-> c - h, part |-> TRUE, written |-> 0]
    <3>1. h - c < 0 /\ -(h - c) = c - h
      BY <1>5
    <3>2. ReadPtr(l) = [from |-> (h - c) + s, size |-> -(h - c), part |-> TRUE, written |-> 0]
      BY <1>2, <3>1 DEF ReadPtr
    <3> QED
      BY <3>1, <3>2
  <2>2. h - c + s \in Nat /\ c - h \in 1..c /\ (h - c + s) + (c - h) <= s
    BY <1>3, <1>5
  <2> QED
    BY <1>2, <1>4, <1>5, <2>1, <2>2
<1>6. CASE ~(h < c)
  <2>1. ReadPtr(l) = [from |-> h - c, size |-> c, part |-> FALSE, written |-> 0]
    BY <1>2, <1>6 DEF ReadPtr
  <2>2. h - c \in Nat /\ c \in 0..c /\ (h - c) + c <= s
    BY <1>3, <1>6
  <2> QED
    BY <1>2, <1>4, <1>6, <2>1, <2>2
<1> QED
  BY <1>5, <1>6

LEMMA WorthIs ==
    ASSUME Typed, NEW l \in Logs, count[l] >= 0
    PROVE  /\ Worth(l, ReadPtr(l)) => ReadPtr(l).size > 0
           /\ ~Worth(l, ReadPtr(l)) /\ ~shouldRun[l] => count[l] = 0
<1>1. MinChunk[l] \in Nat \ {0} /\ ReadPtr(l).size \in Nat
  BY Sizes, ReadPtrIs
<1> QED
  BY <1>1, ReadPtrIs DEF Worth

\* Every step of the writer that takes a turn leaves the logger where it is.
LEMMA LookKeeps ==
    ASSUME Typed, NEW l \in Logs, LogOK(l), Look
    PROVE  LogOK(l)'
<1>0. /\ UNCHANGED <<open, shouldRun, hadError, buffer, head, count, lpc, arg,
                     accepted, first, file, why>>
      /\ wpc = "look" /\ reading' = ReadPtr(turn) /\ ~Wrapped /\ turn \in Logs
  BY DEF Look, buffers, logger, history, Release, NextTurn, At, Typed, WriterTyped
<1>1. Starting(l)' /\ Kept(l)
  BY <1>0 DEF LogOK, Starting, Kept
<1>2. CASE wpc' \notin Working
  BY <1>0, <1>1, <1>2, Untouched DEF Elsewhere, Working, Writing
<1>3. CASE wpc' \in Working
  <2>1. /\ turn' = turn
        /\ \/ wpc' = "write" /\ Worth(turn, ReadPtr(turn))
           \/ wpc' = "close" /\ ~Worth(turn, ReadPtr(turn)) /\ ~shouldRun[turn]
    BY <1>3 DEF Look, Release, NextTurn, At, Working, Writing
  <2>2. CASE turn # l
    BY <1>0, <1>1, <2>1, <2>2, Untouched DEF Elsewhere, Working, Writing
  <2>3. CASE turn = l
    <3>1. SUFFICES ASSUME Normal(l)' PROVE NormalOK(l)'
      BY <1>1 DEF LogOK
    <3>2. NormalOK(l)
      BY <1>0, <3>1 DEF LogOK, Normal
    <3>3. count[l] >= 0
      BY <3>2 DEF NormalOK, Holds
    <3>4. Resting(l)' /\ FileOK(l)'
      BY <1>0, <3>2 DEF NormalOK, Resting, FileOK
    <3>5. Oldest(l)' = Oldest(l)
      BY <1>0 DEF Oldest
    <3>6. Holds(l)'
      BY <1>0, <3>2, <3>5 DEF NormalOK, Holds, SlotOf
    <3>7. Marked(l) = 0 /\ Marked(l)' = 0
      BY <1>0, <2>1 DEF Marked
    <3>8. BalanceOK(l)'
      BY <1>0, <3>2, <3>7 DEF NormalOK, BalanceOK, Balanced
    <3>9. ChunkOK(l)'
      <4>1. CASE wpc' = "write" /\ Worth(l, ReadPtr(l))
        <5>1. reading'.from = Oldest(l) /\ reading'.size \in 1..count[l]
          <6>1. reading' = ReadPtr(l) /\ count[l] \in Int
            BY <1>0, <2>3 DEF Typed, BuffersTyped
          <6>2. ReadPtr(l).size \in 0..count[l] /\ ReadPtr(l).size > 0 /\ ReadPtr(l).from = Oldest(l)
            BY <3>3, <4>1, ReadPtrIs, WorthIs
          <6> QED
            BY <6>1, <6>2
        <5>2. open[l]
          <6>1. count[l] # 0
            BY <5>1 DEF Typed, BuffersTyped
          <6> QED
            BY <3>2, <6>1 DEF NormalOK, Resting
        <5> QED
          BY <1>0, <3>5, <4>1, <5>1, <5>2 DEF ChunkOK
      <4>2. CASE wpc' = "close" /\ ~Worth(l, ReadPtr(l)) /\ ~shouldRun[l]
        <5>1. count[l] = 0
          BY <3>3, <4>2, WorthIs
        <5> QED
          BY <1>0, <4>2, <5>1 DEF ChunkOK, Writing
      <4> QED
        BY <2>1, <2>3, <4>1, <4>2
    <3> QED
      BY <3>4, <3>6, <3>8, <3>9 DEF NormalOK
  <2> QED
    BY <2>2, <2>3
<1> QED
  BY <1>2, <1>3

\* A write adds to the file what comes next.
LEMMA WriteKeeps ==
    ASSUME Typed, NEW l \in Logs, LogOK(l), NEW k \in 0..reading.size, Write(k)
    PROVE  LogOK(l)'
<1> DEFINE new == [i \in 1..k |-> buffer[turn][reading.from + i - 1]]
<1>0. /\ UNCHANGED <<open, shouldRun, hadError, buffer, head, count, lpc, arg, turn,
                     accepted, first, why>>
      /\ wpc \in {"write", "retry"} /\ wpc' = "written" /\ turn \in Logs
      /\ reading' = [reading EXCEPT !.written = k]
      /\ file' = [file EXCEPT ![turn] = @ \o new]
  BY DEF Write, buffers, shared, logger, At, Typed, WriterTyped
<1>1. Starting(l)'
  BY <1>0 DEF LogOK, Starting
<1>2. CASE turn # l
  <2>1. file'[l] = file[l]
    BY <1>0, <1>2 DEF Typed, HistoryTyped
  <2> QED
    BY <1>0, <1>1, <1>2, <2>1, Untouched DEF Kept, Elsewhere
<1>3. CASE turn = l
  <2>1. SUFFICES ASSUME Normal(l)' PROVE NormalOK(l)'
    BY <1>1 DEF LogOK
  <2>2. NormalOK(l)
    BY <1>0, <2>1 DEF LogOK, Normal
  <2>3. /\ reading \in [from : Nat, size : Nat, part : BOOLEAN, written : Nat]
        /\ reading.from = Oldest(l) /\ reading.size \in 1..count[l] /\ open[l]
        /\ reading.from + reading.size <= BufferSize[l]
        /\ accepted[l] \in Nat /\ first[l] \in Nat
        /\ file[l] \in Seq(Nat) /\ buffer[l] \in [0..BufferSize[l] - 1 -> Nat]
    <3>1. wpc \in Writing
      BY <1>0 DEF Writing
    <3>2. reading.from = Oldest(l) /\ reading.size \in 1..count[l] /\ open[l]
      BY <1>3, <2>2, <3>1 DEF NormalOK, ChunkOK
    <3>3. /\ reading \in [from : Nat, size : Nat, part : BOOLEAN, written : Nat]
          /\ reading.from + reading.size <= BufferSize[l]
      BY <1>3, <3>1 DEF Typed, WriterTyped
    <3> QED
      BY <3>2, <3>3 DEF Typed, BuffersTyped, HistoryTyped
  <2>0. PICK b, s, c, a, f, z \in Nat :
          /\ b = reading.from /\ s = reading.size /\ c = count[l]
          /\ a = accepted[l] /\ f = first[l] /\ z = Len(file[l])
    <3>1. count[l] \in Nat
      BY <2>2 DEF NormalOK, Holds, Typed, BuffersTyped
    <3>2. reading.from \in Nat /\ reading.size \in Nat /\ Len(file[l]) \in Nat
      BY <2>3
    <3> QED
      BY <2>3, <3>1, <3>2
  <2>4. k \in Nat /\ k <= s /\ k <= c /\ b + s <= BufferSize[l] /\ BufferSize[l] \in Nat
    BY <2>0, <2>3, Sizes
  <2>5. z + c = a - f
    <3>1. Balanced(l) /\ Marked(l) = 0
      BY <1>0, <2>2, <2>3 DEF NormalOK, BalanceOK, Marked
    <3> QED
      BY <2>0, <3>1 DEF Balanced
  <2>6. /\ Len(file'[l]) = z + k
        /\ \A i \in 1..z : file'[l][i] = file[l][i]
        /\ \A i \in 1..k : file'[l][z + i] = new[i]
    <3>1. new \in Seq(Nat) /\ Len(new) = k
      <4>1. \A i \in 1..k : b + i - 1 \in 0..BufferSize[l] - 1
        BY <2>4
      <4>2. \A i \in 1..k : buffer[l][b + i - 1] \in Nat
        BY <2>3, <4>1
      <4>3. \A i \in 1..k : buffer[turn][reading.from + i - 1] \in Nat
        BY <1>3, <2>0, <4>2
      <4>4. k \in Nat
        BY <2>4
      <4> QED
        BY <4>3, <4>4
    <3>2. file'[l] = file[l] \o new
      BY <1>0, <1>3 DEF Typed, HistoryTyped
    <3>3. PICK o, q \in Seq(Nat) : o = file[l] /\ q = new
      BY <2>3, <3>1
    <3>4. Len(o) = z /\ Len(q) = k
      BY <2>0, <3>1, <3>3
    <3>5. /\ Len(o \o q) = z + k
          /\ \A i \in 1..z : (o \o q)[i] = o[i]
          /\ \A i \in 1..k : (o \o q)[z + i] = q[i]
      <4>1. /\ Len(o \o q) = z + k
            /\ \A i \in 1..z + k : (o \o q)[i] = IF i <= z THEN o[i] ELSE q[i - z]
        <5>1. o \in Seq(Nat) /\ q \in Seq(Nat)
          BY <3>3
        <5>2. /\ Len(o \o q) = Len(o) + Len(q)
              /\ \A i \in 1..Len(o) + Len(q) : (o \o q)[i] = IF i <= Len(o) THEN o[i] ELSE q[i - Len(o)]
          BY <5>1, ConcatProperties, Zenon
        <5> QED
          BY <3>4, <5>2, Zenon
      <4>2. ASSUME NEW i \in 1..z PROVE (o \o q)[i] = o[i]
        <5>1. i \in 1..z + k /\ i <= z
          BY <2>4
        <5> QED
          BY <4>1, <5>1
      <4>3. ASSUME NEW i \in 1..k PROVE (o \o q)[z + i] = q[i]
        <5>1. z + i \in 1..z + k /\ ~(z + i <= z) /\ z + i - z = i
          BY <2>4
        <5> QED
          BY <4>1, <5>1
      <4> QED
        BY <4>1, <4>2, <4>3
    <3> HIDE DEF new
    <3> QED
      BY <3>2, <3>3, <3>5
  <2>7. \A i \in 1..k : new[i] = f + (z + i)
    <3>1. SUFFICES ASSUME NEW i \in 1..k PROVE new[i] = f + (z + i)
      OBVIOUS
    <3>2. i - 1 \in 0..c - 1 /\ SlotOf(l, b, i - 1) = b + i - 1
      BY <2>4 DEF SlotOf
    <3>3. buffer[l][b + i - 1] = a - c + (i - 1) + 1
      BY <2>0, <2>2, <2>3, <3>2 DEF NormalOK, Holds
    <3>4. new[i] = a - c + (i - 1) + 1
      BY <1>3, <2>0, <3>3
    <3> QED
      BY <2>5, <3>4
  <2> HIDE DEF new
  <2>8. Resting(l)'
    BY <1>0, <2>2 DEF NormalOK, Resting
  <2>9. Oldest(l)' = Oldest(l)
    BY <1>0 DEF Oldest
  <2>10. Holds(l)'
    BY <1>0, <2>2, <2>9 DEF NormalOK, Holds, SlotOf
  <2>11. reading'.from = reading.from /\ reading'.size = reading.size /\ reading'.written = k
    BY <1>0, <2>3
  <2>12. ChunkOK(l)'
    BY <1>0, <2>3, <2>9, <2>11 DEF ChunkOK
  <2>13. Len(file'[l]) <= accepted[l] - first[l]
    <3>1. z + k <= a - f
      BY <2>4, <2>5
    <3> QED
      BY <2>0, <2>6, <3>1
  <2>14. ASSUME NEW i \in 1..Len(file'[l]) PROVE file'[l][i] = first[l] + i
    <3>0. i \in 1..z + k
      BY <2>6
    <3>1. CASE i \in 1..z
      BY <2>0, <2>2, <2>6, <3>1 DEF NormalOK, FileOK
    <3>2. CASE i \notin 1..z
      <4>1. PICK j \in 1..k : i = z + j
        <5>1. i - z \in 1..k /\ i = z + (i - z)
          BY <2>4, <3>0, <3>2
        <5> QED
          BY <5>1
      <4> QED
        BY <2>0, <2>6, <2>7, <4>1
    <3> QED
      BY <3>1, <3>2
  <2>15. FileOK(l)'
    BY <1>0, <2>13, <2>14 DEF FileOK
  <2>16. Marked(l)' = k
    BY <1>0, <1>3, <2>11 DEF Marked
  <2>17. BalanceOK(l)'
    <3>1. (z + k) + c - k = a - f
      BY <2>4, <2>5
    <3>2. Balanced(l)'
      BY <1>0, <2>0, <2>6, <2>16, <3>1 DEF Balanced
    <3> QED
      BY <3>2 DEF BalanceOK
  <2> QED
    BY <2>8, <2>10, <2>12, <2>15, <2>17 DEF NormalOK
<1> QED
  BY <1>2, <1>3

LEMMA WriteFailsKeeps ==
    ASSUME Typed, NEW l \in Logs, LogOK(l), WriteFails
    PROVE  LogOK(l)'
<1>0. /\ UNCHANGED <<open, shouldRun, hadError, buffer, head, count, lpc, arg, turn, reading,
                     accepted, first, file, why>>
      /\ wpc \in {"write", "retry"} /\ wpc' \in {"retry", "failed"}
  BY DEF WriteFails, buffers, shared, logger, At
<1>1. Starting(l)' /\ Kept(l)
  BY <1>0 DEF LogOK, Starting, Kept
<1>2. CASE turn # l
  BY <1>0, <1>1, <1>2, Untouched DEF Elsewhere
<1>3. CASE turn = l
  <2>1. SUFFICES ASSUME Normal(l)' PROVE NormalOK(l)'
    BY <1>1 DEF LogOK
  <2>2. NormalOK(l)
    BY <1>0, <2>1 DEF LogOK, Normal
  <2>3. Oldest(l)' = Oldest(l)
    BY <1>0 DEF Oldest
  <2>4. Resting(l)' /\ FileOK(l)'
    BY <1>0, <2>2 DEF NormalOK, Resting, FileOK
  <2>5. Holds(l)'
    BY <1>0, <2>2, <2>3 DEF NormalOK, Holds, SlotOf
  <2>6. ChunkOK(l)'
    <3>1. reading.from = Oldest(l) /\ reading.size \in 1..count[l] /\ open[l]
      BY <1>0, <1>3, <2>2 DEF NormalOK, ChunkOK, Writing
    <3> QED
      BY <1>0, <2>3, <3>1 DEF ChunkOK
  <2>7. Marked(l) = 0 /\ Marked(l)' = 0
    BY <1>0 DEF Marked
  <2>8. BalanceOK(l)'
    BY <1>0, <2>2, <2>7 DEF NormalOK, BalanceOK, Balanced
  <2> QED
    BY <2>4, <2>5, <2>6, <2>8 DEF NormalOK
<1> QED
  BY <1>2, <1>3

\* What is left of a buffer when its n oldest bytes are taken.
LEMMA TakeIs ==
    ASSUME Typed, NEW l \in Logs, Holds(l), NEW n \in Nat, n <= count[l],
           count'[l] = count[l] - n, head'[l] = head[l], buffer'[l] = buffer[l],
           accepted'[l] = accepted[l]
    PROVE  Holds(l)'
<1>1. PICK h, c, s, a \in Nat : h = head[l] /\ c = count[l] /\ s = BufferSize[l] /\ a = accepted[l]
  <2>1. head[l] \in Nat /\ count[l] \in Nat /\ BufferSize[l] \in Nat /\ accepted[l] \in Nat
    BY Sizes DEF Typed, BuffersTyped, HistoryTyped, Holds
  <2> QED
    BY <2>1
<1>2. h < s /\ c <= s /\ n <= c
  BY <1>1 DEF Typed, BuffersTyped
<1>3. Oldest(l) = IF h < c THEN h - c + s ELSE h - c
  BY <1>1 DEF Oldest
<1>4. Oldest(l)' = IF h < c - n THEN h - (c - n) + s ELSE h - (c - n)
  BY <1>1 DEF Oldest
<1>5. \A k \in 0..c - 1 : buffer[l][SlotOf(l, Oldest(l), k)] = a - c + k + 1
  BY <1>1 DEF Holds
<1>6. ASSUME NEW k \in 0..(c - n) - 1
      PROVE  buffer[l][SlotOf(l, Oldest(l)', k)] = a - (c - n) + k + 1
  <2>1. k + n \in 0..c - 1 /\ a - c + (k + n) + 1 = a - (c - n) + k + 1
    BY <1>2
  <2>2. SlotOf(l, Oldest(l)', k) = SlotOf(l, Oldest(l), k + n)
    <3>1. PICK o, p \in Int : o = Oldest(l) /\ p = Oldest(l)'
      BY <1>3, <1>4
    <3>2. o = IF h < c THEN h - c + s ELSE h - c
      BY <1>3, <3>1, Zenon
    <3>3. p = IF h < c - n THEN h - (c - n) + s ELSE h - (c - n)
      BY <1>4, <3>1, Zenon
    <3>4. (IF p + k < s THEN p + k ELSE p + k - s) = (IF o + (k + n) < s THEN o + (k + n) ELSE o + (k + n) - s)
      BY <1>2, <3>2, <3>3
    <3>5. SlotOf(l, p, k) = SlotOf(l, o, k + n)
      BY <1>1, <3>4 DEF SlotOf
    <3> QED
      BY <3>1, <3>5, Zenon
  <2>3. buffer[l][SlotOf(l, Oldest(l), k + n)] = a - c + (k + n) + 1
    BY <1>5, <2>1
  <2> QED
    BY <2>1, <2>2, <2>3
<1>7. count'[l] = c - n /\ c - n >= 0 /\ accepted'[l] = a
  BY <1>1, <1>2
<1>8. \A k \in 0..count'[l] - 1 : buffer'[l][SlotOf(l, Oldest(l)', k)] = accepted'[l] - count'[l] + k + 1
  BY <1>6, <1>7
<1> QED
  BY <1>7, <1>8 DEF Holds, SlotOf

\* mark_read takes from the buffer what is in the file.
LEMMA WrittenKeeps ==
    ASSUME Typed, NEW l \in Logs, LogOK(l), Written
    PROVE  LogOK(l)'
<1>0. /\ UNCHANGED <<open, shouldRun, hadError, buffer, head, lpc, arg, reading,
                     accepted, first, file>>
      /\ wpc = "written" /\ turn \in Logs
      /\ count' = [count EXCEPT ![turn] = @ - reading.written]
  BY DEF Written, logger, Typed, WriterTyped
<1>1. \/ /\ ~shouldRun[turn] /\ reading.written = reading.size /\ ~reading.part
         /\ wpc' = "close" /\ turn' = turn
         /\ why' = IF count[turn] > reading.written
                     THEN [why EXCEPT ![turn] = @ \cup {"added"}] ELSE why
      \/ wpc' \in {"decide", "look"} /\ why' = why
  BY DEF Written, NextTurn, At
<1>2. Starting(l)'
  BY <1>0 DEF LogOK, Starting
<1>3. /\ "overtaken" \in why[l] => "overtaken" \in why'[l]
      /\ "added" \in why[l] => "added" \in why'[l]
  BY <1>0, <1>1 DEF Typed, HistoryTyped
<1>4. CASE turn # l
  <2>1. count'[l] = count[l]
    BY <1>0, <1>4 DEF Typed, BuffersTyped
  <2>2. Kept(l)
    BY <1>0, <1>3, <2>1 DEF Kept
  <2>3. Elsewhere(l)
    BY <1>0, <1>1, <1>4 DEF Elsewhere, Working, Writing
  <2> QED
    BY <1>0, <1>2, <2>2, <2>3, Untouched
<1>5. CASE turn = l
  <2>1. SUFFICES ASSUME Normal(l)' PROVE NormalOK(l)'
    BY <1>2 DEF LogOK
  <2>2. NormalOK(l)
    BY <1>3, <2>1 DEF LogOK, Normal
  <2>3. /\ reading.written \in Nat /\ reading.size \in Nat /\ reading.written <= reading.size
        /\ reading.size \in 1..count[l] /\ count[l] \in Nat /\ open[l]
    <3>1. wpc \in Writing
      BY <1>0 DEF Writing
    <3> QED
      BY <1>5, <2>2, <3>1 DEF NormalOK, ChunkOK, Holds, Typed, BuffersTyped, WriterTyped
  <2>4. count'[l] = count[l] - reading.written
    BY <1>0, <1>5 DEF Typed, BuffersTyped
  <2>5. Holds(l)'
    BY <1>0, <2>2, <2>3, <2>4, TakeIs DEF NormalOK
  <2>6. Resting(l)'
    <3>1. ~(arg.log = l /\ lpc = "run")
      BY <2>2, <2>3 DEF NormalOK, Resting
    <3> QED
      BY <1>0, <2>3, <3>1 DEF Resting
  <2>7. FileOK(l)'
    BY <1>0, <2>2 DEF NormalOK, FileOK
  <2>8. ChunkOK(l)'
    <3>1. CASE wpc' \in {"decide", "look"}
      BY <3>1 DEF ChunkOK, Writing
    <3>2. CASE /\ ~shouldRun[l] /\ reading.written = reading.size /\ wpc' = "close"
               /\ why' = IF count[l] > reading.written
                           THEN [why EXCEPT ![l] = @ \cup {"added"}] ELSE why
      <4>1. count'[l] = 0 \/ "added" \in why'[l]
        <5>1. CASE count[l] > reading.written
          BY <3>2, <5>1 DEF Typed, HistoryTyped
        <5>2. CASE ~(count[l] > reading.written)
          BY <2>3, <2>4, <3>2, <5>2
        <5> QED
          BY <5>1, <5>2
      <4> QED
        BY <1>0, <3>2, <4>1 DEF ChunkOK, Writing
    <3> QED
      BY <1>1, <1>5, <3>1, <3>2
  <2>9. BalanceOK(l)'
    <3>1. Balanced(l) /\ Marked(l) = reading.written
      BY <1>0, <1>5, <2>2, <2>3 DEF NormalOK, BalanceOK, Marked
    <3>2. Marked(l)' = 0
      BY <1>1 DEF Marked
    <3>3. PICK z, c, w, a, f \in Nat :
            z = Len(file[l]) /\ c = count[l] /\ w = reading.written /\ a = accepted[l] /\ f = first[l]
      BY <2>3 DEF Typed, HistoryTyped
    <3>4. z + c - w = a - f
      BY <3>1, <3>3, Zenon DEF Balanced
    <3>5. z + (c - w) - 0 = a - f
      BY <3>4
    <3>6. Len(file'[l]) = z /\ count'[l] = c - w /\ accepted'[l] = a /\ first'[l] = f
      BY <1>0, <2>4, <3>3
    <3> QED
      BY <3>2, <3>5, <3>6, Zenon DEF BalanceOK, Balanced
  <2> QED
    BY <2>5, <2>6, <2>7, <2>8, <2>9 DEF NormalOK
<1> QED
  BY <1>4, <1>5

LEMMA FailedKeeps ==
    ASSUME Typed, NEW l \in Logs, LogOK(l), Failed
    PROVE  LogOK(l)'
<1>0. /\ UNCHANGED <<open, buffer, head, count, lpc, arg, turn, reading, accepted, first, file, why>>
      /\ wpc = "failed" /\ wpc' = "close" /\ turn \in Logs
      /\ hadError' = [hadError EXCEPT ![turn] = TRUE]
      /\ shouldRun' = [shouldRun EXCEPT ![turn] = FALSE]
  BY DEF Failed, logger, history, shared, At, Typed, WriterTyped
<1>1. shouldRun'[l] => shouldRun[l]
  BY <1>0 DEF Typed, BuffersTyped
<1>2. Starting(l)'
  BY <1>0, <1>1 DEF LogOK, Starting
<1>3. CASE turn # l
  <2>1. hadError'[l] = hadError[l]
    BY <1>0, <1>3 DEF Typed, BuffersTyped
  <2> QED
    BY <1>0, <1>1, <1>2, <1>3, <2>1, Untouched DEF Kept, Elsewhere
<1>4. CASE turn = l
  <2>0. hadError'[l] /\ ~shouldRun'[l]
    BY <1>0, <1>4 DEF Typed, BuffersTyped
  <2>1. SUFFICES ASSUME Normal(l)' PROVE NormalOK(l)'
    BY <1>2 DEF LogOK
  <2>2. NormalOK(l)
    BY <1>0, <2>1 DEF LogOK, Normal
  <2>3. Oldest(l)' = Oldest(l) /\ open[l]
    BY <1>0, <1>4, <2>2 DEF NormalOK, ChunkOK, Oldest
  <2>4. Resting(l)' /\ FileOK(l)'
    BY <1>0, <2>0, <2>2 DEF NormalOK, Resting, FileOK
  <2>5. Holds(l)'
    BY <1>0, <2>2, <2>3 DEF NormalOK, Holds, SlotOf
  <2>6. ChunkOK(l)'
    BY <1>0, <2>0 DEF ChunkOK, Writing
  <2>7. Marked(l) = 0 /\ Marked(l)' = 0
    BY <1>0 DEF Marked
  <2>8. Balanced(l)'
    BY <1>0, <2>2, <2>3, <2>7 DEF NormalOK, BalanceOK, Balanced
  <2> QED
    BY <2>4, <2>5, <2>6, <2>8 DEF NormalOK, BalanceOK
<1> QED
  BY <1>3, <1>4

\* Closing a file drops what its buffer still holds.
LEMMA CloseKeeps ==
    ASSUME Typed, NEW l \in Logs, LogOK(l), CloseFile
    PROVE  LogOK(l)'
<1>0. /\ UNCHANGED <<shouldRun, hadError, buffer, lpc, arg, reading, accepted, first, file, why>>
      /\ wpc = "close" /\ wpc' \in {"decide", "look"} /\ turn \in Logs
      /\ open' = [open EXCEPT ![turn] = FALSE]
      /\ head' = [head EXCEPT ![turn] = 0]
      /\ count' = [count EXCEPT ![turn] = 0]
  BY DEF CloseFile, logger, history, NextTurn, At, Typed, WriterTyped
<1>1. Starting(l)'
  <2>1. open'[l] => open[l]
    BY <1>0 DEF Typed, BuffersTyped
  <2> QED
    BY <1>0, <2>1 DEF LogOK, Starting
<1>2. CASE turn # l
  <2>1. open'[l] = open[l] /\ head'[l] = head[l] /\ count'[l] = count[l]
    BY <1>0, <1>2 DEF Typed, BuffersTyped
  <2>2. Kept(l)
    BY <1>0, <2>1 DEF Kept
  <2>3. Elsewhere(l)
    BY <1>0, <1>2 DEF Elsewhere, Working, Writing
  <2> QED
    BY <1>0, <1>1, <2>2, <2>3, Untouched
<1>3. CASE turn = l
  <2>0. ~open'[l] /\ head'[l] = 0 /\ count'[l] = 0
    BY <1>0, <1>3 DEF Typed, BuffersTyped
  <2>1. SUFFICES ASSUME Normal(l)' PROVE NormalOK(l)'
    BY <1>1 DEF LogOK
  <2>2. NormalOK(l)
    BY <1>0, <2>1 DEF LogOK, Normal
  <2>3. ~shouldRun[l] /\ (count[l] = 0 \/ hadError[l] \/ "added" \in why[l])
    BY <1>0, <1>3, <2>2 DEF NormalOK, ChunkOK
  <2>4. Resting(l)' /\ FileOK(l)'
    BY <1>0, <2>0, <2>2, <2>3 DEF NormalOK, Resting, FileOK
  <2>5. Holds(l)'
    BY <2>0 DEF Holds
  <2>6. ChunkOK(l)'
    BY <1>0 DEF ChunkOK, Writing
  <2>7. Marked(l) = 0 /\ Marked(l)' = 0
    BY <1>0 DEF Marked
  <2>8. BalanceOK(l)'
    <3>1. CASE count[l] = 0 /\ Balanced(l)
      BY <1>0, <2>0, <2>7, <3>1 DEF BalanceOK, Balanced
    <3>2. CASE hadError[l] \/ "added" \in why[l]
      BY <1>0, <2>0, <3>2 DEF BalanceOK
    <3> QED
      BY <2>2, <2>3, <3>1, <3>2 DEF NormalOK, BalanceOK
  <2> QED
    BY <2>4, <2>5, <2>6, <2>8 DEF NormalOK
<1> QED
  BY <1>2, <1>3

(* Types, step by step.                                                     *)
LEMMA NotWriting ==
    /\ "idle" \notin Writing /\ "done" \notin Writing /\ "entering" \notin Writing
    /\ "waiting" \notin Writing /\ "woken" \notin Writing /\ "begin" \notin Writing
    /\ "locking" \notin Writing /\ "look" \notin Writing /\ "fsync" \notin Writing
    /\ "failed" \notin Writing /\ "close" \notin Writing /\ "decide" \notin Writing
    /\ "sleeping" \notin Writing
BY DEF Writing

LEMMA BuffersKeepType ==
    ASSUME Typed, UNCHANGED buffers
    PROVE  BuffersTyped'
<1>1. UNCHANGED <<open, shouldRun, hadError, buffer, head, count>>
  BY DEF buffers
<1> QED
  BY <1>1 DEF Typed, BuffersTyped

LEMMA WriterKeepsType ==
    ASSUME Typed, UNCHANGED writer, locked' \in BOOLEAN, exit' \in BOOLEAN
    PROVE  WriterTyped'
BY DEF Typed, WriterTyped, writer

LEMMA HistoryKeepsType ==
    ASSUME Typed, UNCHANGED <<accepted, first, file, why>>
    PROVE  HistoryTyped'
BY DEF Typed, HistoryTyped

LEMMA LoggerQuietTyped ==
    ASSUME Typed,
           \/ Notify \/ AwaitClosed \/ ThreadStop
           \/ \E m \in Logs : StartLog(m) \/ StopLog(m)
    PROVE  Typed'
<1> USE DEF Go, shared, logger, history
<1>0. /\ lpc \in {"idle", "starting", "open", "run", "notify", "batch", "full", "again"}
      /\ arg \in [log : Logs, size : Nat]
      /\ locked \in BOOLEAN /\ exit \in BOOLEAN
      /\ shouldRun \in [Logs -> BOOLEAN]
  BY DEF Typed, BuffersTyped, WriterTyped, LoggerTyped
<1>1. HistoryTyped'
  <2>1. UNCHANGED <<accepted, first, file, why>>
    BY DEF Notify, AwaitClosed, ThreadStop, StartLog, StopLog
  <2> QED
    BY <2>1, HistoryKeepsType
<1>2. LoggerTyped'
  BY <1>0 DEF Notify, AwaitClosed, ThreadStop, StartLog, StopLog, LoggerTyped
<1>3. CASE Notify
  <2>1. BuffersTyped'
    BY <1>3, BuffersKeepType DEF Notify
  <2>2. UNCHANGED <<turn, reading, locked, exit>> /\ (wpc' = wpc \/ wpc' \in {"woken", "locking"})
    BY <1>3 DEF Notify, Woken
  <2>3. WriterTyped'
    BY <2>2, NotWriting DEF Typed, WriterTyped
  <2> QED
    BY <1>1, <1>2, <2>1, <2>3 DEF Typed
<1>4. CASE AwaitClosed \/ \E m \in Logs : StartLog(m)
  <2>1. UNCHANGED buffers /\ UNCHANGED writer /\ UNCHANGED <<locked, exit>>
    BY <1>4 DEF AwaitClosed, StartLog
  <2>2. BuffersTyped' /\ WriterTyped'
    BY <1>0, <2>1, BuffersKeepType, WriterKeepsType
  <2> QED
    BY <1>1, <1>2, <2>2 DEF Typed
<1>5. CASE ThreadStop \/ \E m \in Logs : StopLog(m)
  <2>1. /\ shouldRun' \in [Logs -> BOOLEAN] /\ UNCHANGED <<open, hadError, buffer, head, count>>
        /\ UNCHANGED writer /\ locked' \in BOOLEAN /\ exit' \in BOOLEAN
    BY <1>0, <1>5 DEF ThreadStop, StopLog
  <2>2. BuffersTyped'
    BY <2>1 DEF Typed, BuffersTyped
  <2>3. WriterTyped'
    BY <2>1, WriterKeepsType
  <2> QED
    BY <1>1, <1>2, <2>2, <2>3 DEF Typed
<1> QED
  BY <1>3, <1>4, <1>5

LEMMA OpenRunTyped ==
    ASSUME Typed, OpenFile \/ SetRunning
    PROVE  Typed'
<1> USE DEF Go
<1>0. /\ arg.log \in Logs /\ arg \in [log : Logs, size : Nat]
      /\ UNCHANGED shared /\ UNCHANGED writer /\ UNCHANGED <<buffer, arg, accepted>>
      /\ locked' \in BOOLEAN /\ exit' \in BOOLEAN
      /\ lpc' \in {"run", "idle", "notify"}
  BY DEF OpenFile, SetRunning, shared, Typed, LoggerTyped, WriterTyped
<1>1. LoggerTyped'
  BY <1>0 DEF LoggerTyped
<1>2. WriterTyped'
  BY <1>0, WriterKeepsType
<1>3. BuffersTyped'
  <2>1. open' \in [Logs -> BOOLEAN] /\ shouldRun' \in [Logs -> BOOLEAN] /\ hadError' \in [Logs -> BOOLEAN]
    BY DEF OpenFile, SetRunning, Typed, BuffersTyped
  <2>2. /\ head' \in [Logs -> Nat] /\ count' \in [Logs -> Int]
        /\ \A l \in Logs : (head'[l] = head[l] \/ head'[l] = 0) /\ (count'[l] = count[l] \/ count'[l] = 0)
    <3>1. CASE OpenFile
      BY <3>1 DEF OpenFile, Typed, BuffersTyped
    <3>2. CASE SetRunning
      BY <1>0, <3>2 DEF SetRunning, Typed, BuffersTyped
    <3> QED
      BY <3>1, <3>2
  <2>3. ASSUME NEW l \in Logs
        PROVE  head'[l] < BufferSize[l] /\ -BufferSize[l] <= count'[l] /\ count'[l] <= BufferSize[l]
    <3>1. BufferSize[l] \in Nat \ {0}
      BY Sizes
    <3>2. /\ head[l] < BufferSize[l] /\ -BufferSize[l] <= count[l] /\ count[l] <= BufferSize[l]
          /\ head[l] \in Nat /\ count[l] \in Int
      BY DEF Typed, BuffersTyped
    <3>3. (head'[l] = head[l] \/ head'[l] = 0) /\ (count'[l] = count[l] \/ count'[l] = 0)
      BY <2>2
    <3> QED
      BY <3>1, <3>2, <3>3
  <2> QED
    BY <1>0, <2>1, <2>2, <2>3 DEF Typed, BuffersTyped
<1>4. HistoryTyped'
  <2>1. accepted' \in [Logs -> Nat] /\ first' \in [Logs -> Nat]
    BY <1>0 DEF OpenFile, SetRunning, Typed, HistoryTyped
  <2>2. file' \in [Logs -> Seq(Nat)] /\ why' \in [Logs -> SUBSET {"added", "overtaken", "exit"}]
    <3>0. /\ file \in [Logs -> Seq(Nat)] /\ why \in [Logs -> SUBSET {"added", "overtaken", "exit"}]
          /\ why[arg.log] \in SUBSET {"added", "overtaken", "exit"}
      BY <1>0 DEF Typed, HistoryTyped
    <3>1. CASE OpenFile
      <4>1. <<>> \in Seq(Nat)
        OBVIOUS
      <4>2. why[arg.log] \cap {"overtaken"} \in SUBSET {"added", "overtaken", "exit"}
        BY <3>0
      <4>3. /\ file' = [file EXCEPT ![arg.log] = <<>>]
            /\ why' = [why EXCEPT ![arg.log] = why[arg.log] \cap {"overtaken"}]
        BY <3>1 DEF OpenFile
      <4>4. file' \in [Logs -> Seq(Nat)]
        BY <3>0, <4>1, <4>3
      <4>5. why' \in [Logs -> SUBSET {"added", "overtaken", "exit"}]
        BY <3>0, <4>2, <4>3
      <4> QED
        BY <4>4, <4>5
    <3>2. CASE SetRunning
      <4>1. why[arg.log] \cup {"overtaken"} \in SUBSET {"added", "overtaken", "exit"}
        BY <3>0
      <4>2. why' \in {why, [why EXCEPT ![arg.log] = why[arg.log] \cup {"overtaken"}]} /\ file' = file
        BY <3>2 DEF SetRunning
      <4> QED
        BY <3>0, <4>1, <4>2
    <3> QED
      BY <3>1, <3>2
  <2> QED
    BY <2>1, <2>2 DEF HistoryTyped
<1> QED
  BY <1>1, <1>2, <1>3, <1>4 DEF Typed

LEMMA PutTyped ==
    ASSUME Typed, NEW m \in Logs, count[m] >= 0, NEW n \in Nat, Fits(m, n), PutBytes(m, n),
           UNCHANGED <<open, shouldRun, hadError>>
    PROVE  BuffersTyped' /\ accepted' \in [Logs -> Nat]
<1>0. /\ BufferSize[m] \in Nat \ {0} /\ head[m] \in 0..BufferSize[m] - 1
      /\ count[m] \in 0..BufferSize[m] /\ accepted[m] \in Nat /\ n <= BufferSize[m] - count[m]
  <2>1. BufferSize[m] \in Nat \ {0}
    BY Sizes
  <2>2. head[m] \in Nat /\ head[m] < BufferSize[m] /\ count[m] \in Int /\ count[m] <= BufferSize[m]
    BY DEF Typed, BuffersTyped
  <2>3. accepted[m] \in Nat
    BY DEF Typed, HistoryTyped
  <2>4. n <= BufferSize[m] - count[m]
    BY DEF Fits
  <2> QED
    BY <2>1, <2>2, <2>3, <2>4
<1>1. (head[m] + n) % BufferSize[m] \in 0..BufferSize[m] - 1
  <2>1. PICK S \in Nat \ {0}, i \in Nat : S = BufferSize[m] /\ i = head[m]
    BY <1>0
  <2>2. n \in 0..S /\ i \in 0..S - 1
    BY <1>0, <2>1
  <2>3. (i + n) % S = IF i + n < S THEN i + n ELSE i + n - S
    BY <2>2, Advance
  <2>4. (i + n) % S \in 0..S - 1
    BY <2>2, <2>3
  <2> QED
    BY <2>1, <2>4
<1>2. head' = [head EXCEPT ![m] = (head[m] + n) % BufferSize[m]] /\ count' = [count EXCEPT ![m] = count[m] + n]
  BY DEF PutBytes
<1>3. /\ head' \in [Logs -> Nat] /\ count' \in [Logs -> Int]
      /\ \A l \in Logs : head'[l] < BufferSize[l] /\ -BufferSize[l] <= count'[l] /\ count'[l] <= BufferSize[l]
  <2>1. head \in [Logs -> Nat] /\ count \in [Logs -> Int]
    BY DEF Typed, BuffersTyped
  <2>2. (head[m] + n) % BufferSize[m] \in Nat /\ count[m] + n \in Int
    BY <1>0, <1>1
  <2>3. head' \in [Logs -> Nat] /\ count' \in [Logs -> Int]
    BY <1>2, <2>1, <2>2
  <2>4. ASSUME NEW l \in Logs
        PROVE  head'[l] < BufferSize[l] /\ -BufferSize[l] <= count'[l] /\ count'[l] <= BufferSize[l]
    <3>1. CASE l = m
      <4>1. head'[l] = (head[m] + n) % BufferSize[m] /\ count'[l] = count[m] + n
        BY <1>2, <2>1, <3>1
      <4> QED
        BY <1>0, <1>1, <3>1, <4>1
    <3>2. CASE l # m
      BY <1>2, <2>1, <3>2 DEF Typed, BuffersTyped
    <3> QED
      BY <3>1, <3>2
  <2> QED
    BY <2>3, <2>4
<1>4. buffer' = [l \in Logs |-> buffer'[l]] /\ \A l \in Logs : buffer'[l] \in [0..BufferSize[l] - 1 -> Nat]
  <2>1. buffer = [l \in Logs |-> buffer[l]]
    BY DEF Typed, BuffersTyped
  <2>2. buffer' = [buffer EXCEPT ![m] = [i \in 0..BufferSize[m] - 1 |->
                     LET k == (i - head[m]) % BufferSize[m]
                     IN  IF k < n THEN accepted[m] + k + 1 ELSE buffer[m][i]]]
    BY DEF PutBytes
  <2>3. buffer' = [l \in Logs |-> buffer'[l]] /\ (\A l \in Logs : l # m => buffer'[l] = buffer[l])
        /\ buffer'[m] = [i \in 0..BufferSize[m] - 1 |->
                          LET k == (i - head[m]) % BufferSize[m]
                          IN  IF k < n THEN accepted[m] + k + 1 ELSE buffer[m][i]]
    BY <2>1, <2>2
  <2>4. ASSUME NEW i \in 0..BufferSize[m] - 1
        PROVE  buffer'[m][i] \in Nat
    <3>1. (i - head[m]) % BufferSize[m] \in Nat
      <4>1. i - head[m] \in Int
        BY <1>0
      <4>2. PICK s \in Nat \ {0}, x \in Int : s = BufferSize[m] /\ x = i - head[m]
        BY <1>0, <4>1
      <4>3. x % s \in Nat
        BY <4>2
      <4> QED
        BY <4>2, <4>3
    <3>2. buffer[m][i] \in Nat
      BY DEF Typed, BuffersTyped
    <3>3. buffer'[m][i] = IF (i - head[m]) % BufferSize[m] < n
                            THEN accepted[m] + ((i - head[m]) % BufferSize[m]) + 1 ELSE buffer[m][i]
      BY <2>3
    <3> QED
      BY <1>0, <3>1, <3>2, <3>3
  <2>5. buffer'[m] \in [0..BufferSize[m] - 1 -> Nat]
    BY <2>3, <2>4
  <2> QED
    BY <2>3, <2>5 DEF Typed, BuffersTyped
<1>5. accepted' \in [Logs -> Nat]
  BY <1>0 DEF PutBytes, Typed, HistoryTyped
<1> QED
  BY <1>3, <1>4, <1>5 DEF Typed, BuffersTyped

LEMMA MessageTyped ==
    ASSUME Typed,
           \/ WriteAgain
           \/ \E m \in Logs : \E n \in 1..MaxMessage[m], r \in BOOLEAN : WriteMessage(m, n, r)
    PROVE  Typed'
<1> USE DEF Go
<1>0. /\ UNCHANGED <<open, shouldRun, hadError, first, file, why>>
      /\ UNCHANGED shared /\ UNCHANGED writer
      /\ lpc' \in {"batch", "full"} /\ arg \in [log : Logs, size : Nat]
      /\ \A l \in Logs : count[l] \in Int /\ count[l] >= 0
  <2>1. ~Wrapped
    BY DEF WriteAgain, WriteMessage
  <2>2. \A l \in Logs : count[l] \in Int
    BY DEF Typed, BuffersTyped
  <2>3. \A l \in Logs : count[l] >= 0
    BY <2>1, <2>2 DEF Wrapped
  <2>4. arg \in [log : Logs, size : Nat]
    BY DEF Typed, LoggerTyped
  <2> QED
    BY <2>2, <2>3, <2>4 DEF WriteAgain, WriteMessage
<1>1. WriterTyped'
  BY <1>0, WriterKeepsType DEF shared, Typed, WriterTyped
<1>2. /\ arg' \in [log : Logs, size : Nat]
      /\ \/ UNCHANGED <<buffer, head, count, accepted>>
         \/ \E m \in Logs, n \in Nat : Fits(m, n) /\ PutBytes(m, n)
  <2>1. ASSUME NEW m \in Logs, NEW n \in 1..MaxMessage[m], NEW r \in BOOLEAN, WriteMessage(m, n, r)
        PROVE  /\ arg' \in [log : Logs, size : Nat]
               /\ \/ UNCHANGED <<buffer, head, count, accepted>>
                  \/ \E p \in Logs, q \in Nat : Fits(p, q) /\ PutBytes(p, q)
    <3>1. n \in Nat
      <4>1. MaxMessage[m] \in Nat
        BY LogWriterAssumption DEF LogWriterAssumption
      <4> QED
        BY <4>1
    <3>2. arg' = arg \/ arg' = [log |-> m, size |-> n]
      BY <2>1 DEF WriteMessage
    <3>3. UNCHANGED <<buffer, head, count, accepted>> \/ (Fits(m, n) /\ PutBytes(m, n))
      BY <2>1 DEF WriteMessage
    <3> QED
      BY <1>0, <3>1, <3>2, <3>3
  <2>2. CASE WriteAgain
    <3>1. arg' = arg /\ arg.log \in Logs /\ arg.size \in Nat
      BY <1>0, <2>2 DEF WriteAgain
    <3>2. UNCHANGED <<buffer, head, count, accepted>> \/ (Fits(arg.log, arg.size) /\ PutBytes(arg.log, arg.size))
      BY <2>2 DEF WriteAgain
    <3> QED
      BY <1>0, <3>1, <3>2
  <2> QED
    BY <2>1, <2>2
<1>3. LoggerTyped'
  BY <1>0, <1>2 DEF LoggerTyped
<1>4. BuffersTyped' /\ accepted' \in [Logs -> Nat]
  <2>1. CASE UNCHANGED <<buffer, head, count, accepted>>
    BY <1>0, <2>1, BuffersKeepType DEF buffers, Typed, HistoryTyped
  <2>2. ASSUME NEW m \in Logs, NEW n \in Nat, Fits(m, n), PutBytes(m, n)
        PROVE  BuffersTyped' /\ accepted' \in [Logs -> Nat]
    BY <1>0, <2>2, PutTyped
  <2> QED
    BY <1>2, <2>1, <2>2
<1>5. HistoryTyped'
  BY <1>0, <1>4 DEF Typed, HistoryTyped
<1> QED
  BY <1>1, <1>3, <1>4, <1>5 DEF Typed

\* A step of the writer leaves the logger where it is.
LEMMA LoggerKeepsType ==
    ASSUME Typed, UNCHANGED logger
    PROVE  LoggerTyped'
BY DEF Typed, LoggerTyped, logger

LEMMA WriterQuietTyped ==
    ASSUME Typed, Idle \/ Wait \/ WakeUp \/ Begin \/ StartRound \/ FSync \/ Decide
    PROVE  Typed'
<1> USE DEF At
<1>0. UNCHANGED buffers /\ UNCHANGED logger /\ UNCHANGED <<reading, exit, accepted, first, file>>
  BY DEF Idle, Wait, WakeUp, Begin, StartRound, FSync, Decide, shared, history
<1>1. BuffersTyped' /\ LoggerTyped'
  BY <1>0, BuffersKeepType, LoggerKeepsType
<1>2. /\ wpc' \in {"idle", "entering", "waiting", "begin", "locking", "look", "decide", "sleeping", "done"}
      /\ turn' \in Logs /\ locked' \in BOOLEAN
  <2>1. turn \in Logs /\ locked \in BOOLEAN /\ Mission \in Logs /\ Full \in Logs
    BY Sizes DEF Typed, WriterTyped
  <2>2. CASE Idle \/ Wait \/ WakeUp \/ Begin
    BY <2>1, <2>2 DEF Idle, Wait, WakeUp, Begin, Leave, shared
  <2>3. CASE StartRound \/ FSync \/ Decide
    BY <2>1, <2>3 DEF StartRound, FSync, Decide, NextTurn, Release
  <2> QED
    BY <2>2, <2>3
<1>3. WriterTyped'
  BY <1>0, <1>2, NotWriting DEF Typed, WriterTyped
<1>4. HistoryTyped'
  <2>0. why \in [Logs -> SUBSET {"added", "overtaken", "exit"}]
    BY DEF Typed, HistoryTyped
  <2>1. why' = why \/ Leave
    BY DEF Idle, Wait, WakeUp, Begin, StartRound, FSync, Decide, history
  <2>2. why' \in [Logs -> SUBSET {"added", "overtaken", "exit"}]
    BY <2>0, <2>1 DEF Leave
  <2> QED
    BY <1>0, <2>2 DEF Typed, HistoryTyped
<1> QED
  BY <1>1, <1>3, <1>4 DEF Typed

\* Data that wraps around the end of the buffer is read up to that end.
LEMMA LookTyped ==
    ASSUME Typed, Look
    PROVE  Typed'
<1>0. /\ UNCHANGED buffers /\ UNCHANGED logger /\ UNCHANGED <<exit, accepted, first, file, why>>
      /\ reading' = ReadPtr(turn) /\ turn \in Logs /\ ~Wrapped
  BY DEF Look, history, Release, NextTurn, At, Typed, WriterTyped
<1>1. count[turn] >= 0
  <2>1. count[turn] \in Int /\ ~(count[turn] < 0)
    BY <1>0 DEF Wrapped, Typed, BuffersTyped
  <2> QED
    BY <2>1
<1>2. /\ reading' \in [from : Nat, size : Nat, part : BOOLEAN, written : Nat]
      /\ reading'.from + reading'.size <= BufferSize[turn] /\ reading'.written <= reading'.size
  <2>1. /\ ReadPtr(turn) \in [from : Nat, size : Nat, part : BOOLEAN, written : Nat]
        /\ ReadPtr(turn).from + ReadPtr(turn).size <= BufferSize[turn]
        /\ ReadPtr(turn).written = 0
    BY <1>0, <1>1, ReadPtrIs
  <2>2. 0 <= ReadPtr(turn).size
    BY <2>1
  <2> QED
    BY <1>0, <2>1, <2>2, Zenon
<1>3. /\ wpc' \in {"look", "write", "fsync", "close", "decide"}
      /\ turn' \in Logs /\ locked' \in BOOLEAN /\ (wpc' = "write" => turn' = turn)
  <2>1. turn \in Logs /\ locked \in BOOLEAN /\ Full \in Logs
    BY Sizes DEF Typed, WriterTyped
  <2> QED
    BY <2>1 DEF Look, Release, NextTurn, At
<1>4. WriterTyped'
  <2>1. wpc' \in Writing => wpc' = "write"
    BY <1>3 DEF Writing
  <2>2. exit' \in BOOLEAN
    BY <1>0 DEF Typed, WriterTyped
  <2> QED
    BY <1>2, <1>3, <2>1, <2>2 DEF WriterTyped
<1> QED
  BY <1>0, <1>4, BuffersKeepType, LoggerKeepsType, HistoryKeepsType DEF Typed

LEMMA WriteTyped ==
    ASSUME Typed, NEW k \in 0..reading.size, Write(k)
    PROVE  Typed'
<1> DEFINE new == [i \in 1..k |-> buffer[turn][reading.from + i - 1]]
<1>0. /\ UNCHANGED buffers /\ UNCHANGED logger /\ UNCHANGED <<locked, exit, turn, accepted, first, why>>
      /\ wpc \in {"write", "retry"} /\ wpc' = "written" /\ turn \in Logs
      /\ reading' = [reading EXCEPT !.written = k]
      /\ file' = [file EXCEPT ![turn] = file[turn] \o new]
  BY DEF Write, shared, At, Typed, WriterTyped
<1>1. /\ reading \in [from : Nat, size : Nat, part : BOOLEAN, written : Nat]
      /\ reading.from + reading.size <= BufferSize[turn]
  <2>1. wpc \in Writing
    BY <1>0 DEF Writing
  <2> QED
    BY <2>1 DEF Typed, WriterTyped
<1>2. PICK b, s, m \in Nat : b = reading.from /\ s = reading.size /\ m = BufferSize[turn]
  BY <1>0, <1>1, Sizes
<1>3. k \in Nat /\ k <= s /\ b + s <= m
  BY <1>1, <1>2
<1>4. new \in Seq(Nat)
  <2>1. \A i \in 1..k : b + i - 1 \in 0..m - 1
    BY <1>3
  <2>2. buffer[turn] \in [0..m - 1 -> Nat]
    BY <1>0, <1>2 DEF Typed, BuffersTyped
  <2>3. \A i \in 1..k : buffer[turn][b + i - 1] \in Nat
    BY <2>1, <2>2
  <2> QED
    BY <1>2, <1>3, <2>3
<1> HIDE DEF new
<1>5. file' \in [Logs -> Seq(Nat)]
  <2>1. file \in [Logs -> Seq(Nat)] /\ file[turn] \in Seq(Nat)
    BY <1>0 DEF Typed, HistoryTyped
  <2>2. file[turn] \o new \in Seq(Nat)
    BY <1>4, <2>1, ConcatProperties, Zenon
  <2> QED
    BY <1>0, <2>1, <2>2
<1>6. HistoryTyped'
  BY <1>0, <1>5 DEF Typed, HistoryTyped
<1>7. WriterTyped'
  <2>1. /\ reading' \in [from : Nat, size : Nat, part : BOOLEAN, written : Nat]
        /\ reading'.from = b /\ reading'.size = s /\ reading'.written = k
    BY <1>0, <1>1, <1>2, <1>3
  <2> QED
    BY <1>0, <1>2, <1>3, <2>1 DEF Typed, WriterTyped
<1> QED
  BY <1>0, <1>6, <1>7, BuffersKeepType, LoggerKeepsType DEF Typed

LEMMA AfterWriteTyped ==
    ASSUME Typed, WriteFails \/ Written \/ Failed \/ CloseFile
    PROVE  Typed'
<1> USE DEF At
<1>0. /\ UNCHANGED logger /\ UNCHANGED <<buffer, reading, exit, accepted, first, file>>
      /\ turn \in Logs /\ locked \in BOOLEAN /\ Full \in Logs
  BY Sizes DEF WriteFails, Written, Failed, CloseFile, buffers, shared, history, Typed, WriterTyped
<1>1. LoggerTyped'
  BY <1>0, LoggerKeepsType
<1>2. WriterTyped'
  <2>1. CASE WriteFails
    <3>1. UNCHANGED <<turn, locked>> /\ wpc \in Writing /\ wpc' \in {"retry", "failed"}
      BY <2>1 DEF WriteFails, shared, Writing
    <3> QED
      BY <1>0, <3>1 DEF Typed, WriterTyped
  <2>2. CASE Written \/ Failed \/ CloseFile
    <3>1. wpc' \in {"close", "look", "decide"} /\ turn' \in Logs /\ locked' \in BOOLEAN
      BY <1>0, <2>2 DEF Written, Failed, CloseFile, NextTurn, shared
    <3> QED
      BY <1>0, <3>1, NotWriting DEF Typed, WriterTyped
  <2> QED
    BY <2>1, <2>2
<1>3. BuffersTyped'
  <2>1. open' \in [Logs -> BOOLEAN] /\ shouldRun' \in [Logs -> BOOLEAN] /\ hadError' \in [Logs -> BOOLEAN]
    BY DEF WriteFails, Written, Failed, CloseFile, buffers, Typed, BuffersTyped
  <2>2. /\ head' \in [Logs -> Nat] /\ count' \in [Logs -> Int]
        /\ \A l \in Logs : head'[l] < BufferSize[l] /\ -BufferSize[l] <= count'[l] /\ count'[l] <= BufferSize[l]
    <3>0. head \in [Logs -> Nat] /\ count \in [Logs -> Int]
      BY DEF Typed, BuffersTyped
    <3>1. CASE WriteFails \/ Failed
      BY <3>1 DEF WriteFails, Failed, buffers, Typed, BuffersTyped
    <3>2. CASE CloseFile
      <4>1. head' = [head EXCEPT ![turn] = 0] /\ count' = [count EXCEPT ![turn] = 0]
        BY <3>2 DEF CloseFile
      <4>2. head' \in [Logs -> Nat] /\ count' \in [Logs -> Int]
        <5>1. head' \in [Logs -> Nat]
          BY <3>0, <4>1
        <5>2. count' \in [Logs -> Int]
          <6>1. count' = [l \in Logs |-> IF l = turn THEN 0 ELSE count[l]]
            BY <3>0, <4>1
          <6>2. \A l \in Logs : count[l] \in Int
            BY <3>0
          <6> QED
            BY <6>1, <6>2
        <5> QED
          BY <5>1, <5>2
      <4>3. ASSUME NEW l \in Logs
            PROVE  head'[l] < BufferSize[l] /\ -BufferSize[l] <= count'[l] /\ count'[l] <= BufferSize[l]
        <5>1. CASE l = turn
          <6>1. head'[l] = 0 /\ count'[l] = 0 /\ BufferSize[l] \in Nat \ {0}
            BY <3>0, <4>1, <5>1, Sizes
          <6> QED
            BY <6>1
        <5>2. CASE l # turn
          BY <3>0, <4>1, <5>2 DEF Typed, BuffersTyped
        <5> QED
          BY <5>1, <5>2
      <4> QED
        BY <4>2, <4>3
    <3>3. CASE Written
      <4>0. /\ wpc \in Writing /\ count[turn] \in Int /\ count[turn] >= 0
            /\ count[turn] <= BufferSize[turn] /\ BufferSize[turn] \in Nat
        <5>1. ~Wrapped /\ wpc = "written"
          BY <3>3 DEF Written, NextTurn
        <5> QED
          BY <1>0, <3>0, <5>1, Sizes DEF Wrapped, Writing, Typed, BuffersTyped
      <4>1. reading.written \in 0..BufferSize[turn]
        <5>1. /\ reading \in [from : Nat, size : Nat, part : BOOLEAN, written : Nat]
              /\ reading.from + reading.size <= BufferSize[turn] /\ reading.written <= reading.size
          BY <4>0 DEF Typed, WriterTyped
        <5> QED
          BY <4>0, <5>1
      <4>2. count' = [count EXCEPT ![turn] = count[turn] - reading.written] /\ head' = head
        BY <3>3 DEF Written
      <4>3. /\ count[turn] - reading.written \in Int
            /\ -BufferSize[turn] <= count[turn] - reading.written
            /\ count[turn] - reading.written <= BufferSize[turn]
        BY <4>0, <4>1
      <4>4. count' \in [Logs -> Int]
        BY <3>0, <4>2, <4>3
      <4>5. ASSUME NEW l \in Logs
            PROVE  -BufferSize[l] <= count'[l] /\ count'[l] <= BufferSize[l]
        <5>1. CASE l = turn
          BY <3>0, <4>2, <4>3, <5>1
        <5>2. CASE l # turn
          BY <3>0, <4>2, <5>2 DEF Typed, BuffersTyped
        <5> QED
          BY <5>1, <5>2
      <4> QED
        BY <4>2, <4>4, <4>5 DEF Typed, BuffersTyped
    <3> QED
      BY <3>1, <3>2, <3>3
  <2> QED
    BY <1>0, <2>1, <2>2 DEF Typed, BuffersTyped
<1>4. HistoryTyped'
  <2>0. why \in [Logs -> SUBSET {"added", "overtaken", "exit"}]
    BY DEF Typed, HistoryTyped
  <2>1. why' \in {why, [why EXCEPT ![turn] = @ \cup {"added"}]}
    BY DEF WriteFails, Written, Failed, CloseFile, history
  <2>2. why' \in [Logs -> SUBSET {"added", "overtaken", "exit"}]
    BY <1>0, <2>0, <2>1
  <2> QED
    BY <1>0, <2>2 DEF Typed, HistoryTyped
<1> QED
  BY <1>1, <1>2, <1>3, <1>4 DEF Typed

-----------------------------------------------------------------------------
LEMMA LogNext == LogIInv /\ [Next]_vars => LogIInv'
<1> SUFFICES ASSUME LogIInv, [Next]_vars PROVE LogIInv'
  OBVIOUS
<1>0. Typed /\ \A l \in Logs : LogOK(l)
  BY DEF LogIInv
<1> USE <1>0
<1>1. CASE \/ Notify \/ AwaitClosed \/ ThreadStop
           \/ \E m \in Logs : StartLog(m) \/ StopLog(m)
  BY <1>1, LoggerQuiet, LoggerQuietTyped DEF LogIInv
<1>2. CASE OpenFile
  BY <1>2, OpenKeeps, OpenRunTyped DEF LogIInv
<1>3. CASE SetRunning
  BY <1>3, RunKeeps, OpenRunTyped DEF LogIInv
<1>4. CASE \/ WriteAgain
           \/ \E m \in Logs : \E n \in 1..MaxMessage[m], r \in BOOLEAN : WriteMessage(m, n, r)
  BY <1>4, MessageKeeps, MessageTyped DEF LogIInv
<1>5. CASE Idle \/ Wait \/ WakeUp \/ Begin \/ StartRound \/ FSync \/ Decide
  BY <1>5, WriterQuiet, WriterQuietTyped DEF LogIInv
<1>6. CASE Look
  BY <1>6, LookKeeps, LookTyped DEF LogIInv
<1>7. ASSUME NEW k \in 0..reading.size, Write(k) PROVE LogIInv'
  BY <1>7, WriteKeeps, WriteTyped DEF LogIInv
<1>8. CASE WriteFails
  BY <1>8, WriteFailsKeeps, AfterWriteTyped DEF LogIInv
<1>9. CASE Written
  BY <1>9, WrittenKeeps, AfterWriteTyped DEF LogIInv
<1>10. CASE Failed
  BY <1>10, FailedKeeps, AfterWriteTyped DEF LogIInv
<1>11. CASE CloseFile
  BY <1>11, CloseKeeps, AfterWriteTyped DEF LogIInv
<1>12. CASE UNCHANGED vars
  <2>1. /\ UNCHANGED <<open, shouldRun, hadError, buffer, head, count, locked, exit, wpc, turn, reading,
                       lpc, arg, accepted, first, file, why>>
        /\ UNCHANGED buffers /\ UNCHANGED writer /\ UNCHANGED logger
    BY <1>12 DEF vars, buffers, shared, writer, logger, history
  <2>2. Typed'
    <3>1. locked' \in BOOLEAN /\ exit' \in BOOLEAN
      BY <2>1 DEF Typed, WriterTyped
    <3> QED
      BY <2>1, <3>1, BuffersKeepType, WriterKeepsType, LoggerKeepsType, HistoryKeepsType DEF Typed
  <2>3. ASSUME NEW l \in Logs PROVE LogOK(l)'
    BY <2>1, Untouched DEF LogOK, Starting, Kept, Elsewhere
  <2> QED
    BY <2>2, <2>3 DEF LogIInv
<1>13. \/ Next \/ UNCHANGED vars
  OBVIOUS
<1> QED
  BY <1>1, <1>2, <1>3, <1>4, <1>5, <1>6, <1>7, <1>8, <1>9, <1>10, <1>11, <1>12, <1>13
  DEF Next, LoggerSteps, Calls, WriterSteps

LEMMA LogInvariant == Spec => []LogIInv
<1> QED
  BY LogInit, LogNext, PTL DEF Spec

(* Every variable of the log writer keeps its type: no index leaves its     *)
(* buffer, and no chunk that is written reaches past the buffer's end.      *)
THEOREM LogTypeCorrect == Spec => []TypeOK
<1>1. LogIInv => TypeOK
  BY TypedIsType DEF LogIInv
<1> QED
  BY <1>1, LogInvariant, PTL

(* The file of a log is what write_message accepted since start_log, from    *)
(* the first byte on and in order, for buffers, chunks and messages of any   *)
(* size: short writes, a retry, bytes added during a write and a buffer read *)
(* in two parts neither lose, repeat nor swap a byte of it.                  *)
THEOREM FilesArePrefixes == Spec => []FileIsPrefix
<1>1. LogIInv => FileIsPrefix
  BY DEF LogIInv, LogOK, Normal, NormalOK, FileOK, FileIsPrefix
<1> QED
  BY <1>1, LogInvariant, PTL

(* When a log was stopped and the writer has closed its file, all that was   *)
(* accepted is in that file, unless a write failed twice, or the log was     *)
(* closed too early for one of the causes recorded.                          *)
THEOREM StopsWriteAll == Spec => []StopWritesAll
<1>1. ASSUME LogIInv, NEW l \in Logs, Closed(l), ~hadError[l], why[l] = {}
      PROVE  Len(file[l]) = accepted[l] - first[l]
  <2>1. ~open[l] /\ NormalOK(l)
    BY <1>1 DEF Closed, LogIInv, LogOK, Normal
  <2>2. count[l] = 0 /\ Balanced(l)
    BY <1>1, <2>1 DEF NormalOK, Resting, BalanceOK
  <2>3. Marked(l) = 0
    BY <2>1 DEF NormalOK, ChunkOK, Marked, Writing
  <2>4. Len(file[l]) \in Nat
    BY <1>1 DEF LogIInv, Typed, HistoryTyped
  <2> QED
    BY <2>2, <2>3, <2>4 DEF Balanced
<1>2. LogIInv => StopWritesAll
  BY <1>1 DEF StopWritesAll
<1> QED
  BY <1>2, LogInvariant, PTL
=============================================================================
