-------------------------------- MODULE Pipe --------------------------------
(***************************************************************************)
(* What a ring buffer promises its two users: a pipe of bounded capacity.  *)
(* What the producer pushed is popped once, in order and unaltered; the    *)
(* pipe never holds more than Capacity bytes.                              *)
(*                                                                         *)
(* A byte is its number in the order of pushing: 1, 2, ...                 *)
(***************************************************************************)
EXTENDS Integers

CONSTANT Capacity

VARIABLES pushed,   \* number of bytes pushed so far
          popped,   \* number of bytes popped so far
          chunk     \* the bytes the last pop returned, in order

pipeVars == <<pushed, popped, chunk>>

PipeInit ==
    /\ pushed = 0
    /\ popped = 0
    /\ chunk = <<>>

Push ==
    \E n \in 1..(popped + Capacity - pushed) :
        /\ pushed' = pushed + n
        /\ UNCHANGED <<popped, chunk>>

Pop ==
    \E n \in 1..(pushed - popped) :
        /\ popped' = popped + n
        /\ chunk' = [i \in 1..n |-> popped + i]
        /\ UNCHANGED pushed

\* The pipe is released: what it still held is dropped.
Drop ==
    /\ popped' = pushed
    /\ UNCHANGED <<pushed, chunk>>

PipeSpec == PipeInit /\ [][Push \/ Pop \/ Drop]_pipeVars
=============================================================================
