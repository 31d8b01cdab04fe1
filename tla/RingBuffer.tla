------------------------------ MODULE RingBuffer ------------------------------
(***************************************************************************)
(* The ring buffer between the producer thread and the sender thread       *)
(* (src/kc_sensor_mock/ring_buffer.py).  Every method runs under the       *)
(* buffer's own lock, so each is one step.                                 *)
(***************************************************************************)
EXTENDS Integers, Sequences

CONSTANT Capacity       \* ring_buffer_capacity

\* The constructor raises ValueError for a capacity that is not positive.
ASSUME CapacityAssumption == Capacity \in Nat \ {0}

VARIABLES
    items,              \* _items: the deque, oldest first
    droppedTotal        \* _dropped_total: a Python int, it never wraps

bufferVars == <<items, droppedTotal>>

BufferInit ==
    /\ items = <<>>
    /\ droppedTotal = 0

IsFull == Len(items) >= Capacity

\* Mutation: a full buffer refuses the new item instead of dropping the oldest.
PushRefusingNewest(item) ==
    /\ items' = IF IsFull THEN items ELSE Append(items, item)
    /\ droppedTotal' = IF IsFull THEN droppedTotal + 1 ELSE droppedTotal

\* Mutation: the oldest item goes, and nobody counts it.
PushUncounted(item) ==
    /\ items' = Append(IF IsFull THEN Tail(items) ELSE items, item)
    /\ UNCHANGED droppedTotal

\* Mutation: > for >=.
PushOffByOne(item) ==
    LET full == Len(items) > Capacity
    IN  /\ items' = Append(IF full THEN Tail(items) ELSE items, item)
        /\ droppedTotal' = IF full THEN droppedTotal + 1 ELSE droppedTotal

\* push: a full buffer drops and counts its oldest item first.
Push(item) ==
    /\ items' = Append(IF IsFull THEN Tail(items) ELSE items, item)
    /\ droppedTotal' = IF IsFull THEN droppedTotal + 1 ELSE droppedTotal

\* Mutation: the item is looked at and not removed.
PopPeeking ==
    /\ items # <<>>
    /\ UNCHANGED bufferVars

\* pop of a buffer that holds something; the value returned is Head(items).
\* (pop of an empty buffer returns None and changes nothing.)
Pop ==
    /\ items # <<>>
    /\ items' = Tail(items)
    /\ UNCHANGED droppedTotal
===============================================================================
