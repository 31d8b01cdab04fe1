------------------------------- MODULE LossyFifo ------------------------------
(***************************************************************************)
(* What the producer's generator and ring buffer promise together, with no *)
(* threads, locks or deque: records are numbered 0, 1, 2, ... as they are  *)
(* offered; the pending ones are always the newest, at most Capacity of    *)
(* them, without a hole; they are taken oldest first, and a record is lost *)
(* only by being overtaken.  SensorProducer implements this module.        *)
(***************************************************************************)
EXTENDS Integers, Sequences

CONSTANT Capacity

VARIABLES
    offered,        \* how many records have been offered
    oldest,         \* number of the oldest pending record
    taken           \* numbers of the records taken, in order

vars == <<offered, oldest, taken>>

Init ==
    /\ offered = 0
    /\ oldest = 0
    /\ taken = <<>>

\* One more record is pending; the oldest is overtaken if Capacity already were.
Offer ==
    /\ offered' = offered + 1
    /\ oldest' = IF offered - oldest >= Capacity THEN oldest + 1 ELSE oldest
    /\ UNCHANGED taken

Take ==
    /\ oldest < offered
    /\ taken' = Append(taken, oldest)
    /\ oldest' = oldest + 1
    /\ UNCHANGED offered

Next == Offer \/ Take

Spec == Init /\ [][Next]_vars
===============================================================================
