--------------------------- MODULE BoundedChannel ---------------------------
(***************************************************************************)
(* What a shared_memory_buffer of ipc/shm/cli.cpp promises: values come    *)
(* out in the order they went in, and never more than Capacity wait.       *)
(* SharedRing implements one of these with each of its two buffers.        *)
(***************************************************************************)
EXTENDS Integers, Sequences

CONSTANTS Capacity, Values

VARIABLES buffered,   \* the values put and not yet got, oldest first
          received    \* the values got, oldest first

Init == buffered = <<>> /\ received = <<>>

Put(v) == /\ Len(buffered) < Capacity
          /\ buffered' = Append(buffered, v)
          /\ UNCHANGED received

Get == /\ buffered # <<>>
       /\ received' = Append(received, Head(buffered))
       /\ buffered' = Tail(buffered)

Next == Get \/ \E v \in Values : Put(v)

Spec == Init /\ [][Next]_<<buffered, received>>

=============================================================================
