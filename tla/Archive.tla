-------------------------------- MODULE Archive -------------------------------
(***************************************************************************)
(* What the parquet exporter promises to the thread that submits records,  *)
(* with no queue, sentinel, batch or file: records are numbered 1, 2, ...  *)
(* as they are accepted, wait in that order, and reach the archive from    *)
(* the front, so that the archive only grows and keeps the order.  A       *)
(* record that waits may be lost, but only because an earlier one found    *)
(* Room others waiting, or the exporter is closing, or it has failed; and  *)
(* one that has failed archives nothing more.  ParquetExporter implements  *)
(* this module and StreamSystem is built on it.                            *)
(***************************************************************************)
EXTENDS Integers, Sequences, SequencesExt

CONSTANT Room           \* how many records always find a place; <= 0: all do

VARIABLES
    accepted,           \* how many records have been accepted
    pending,            \* numbers of the records that wait, in order
    archived,           \* numbers of the records archived, in order
    owed,               \* has a record found no place and none been lost yet?
    closing, failed

vars == <<accepted, pending, archived, owed, closing, failed>>

Init ==
    /\ accepted = 0
    /\ pending = <<>>
    /\ archived = <<>>
    /\ owed = FALSE
    /\ closing = FALSE
    /\ failed = FALSE

NoPlace == Room > 0 /\ (Len(pending) >= Room \/ closing)

Accept ==
    /\ ~owed
    /\ accepted' = accepted + 1
    /\ pending' = Append(pending, accepted + 1)
    /\ owed' \in {FALSE, NoPlace}
    /\ UNCHANGED <<archived, closing, failed>>

\* One that waits is lost for the one that found no place.
Overflow ==
    /\ owed
    /\ \E i \in DOMAIN pending : pending' = RemoveAt(pending, i)
    /\ owed' \in BOOLEAN
    /\ UNCHANGED <<accepted, archived, closing, failed>>

\* By now there is a place, without a loss.
Settle ==
    /\ owed
    /\ owed' = FALSE
    /\ UNCHANGED <<accepted, pending, archived, closing, failed>>

Write ==
    /\ ~failed
    /\ \E k \in 1 .. Len(pending) :
          /\ archived' = archived \o SubSeq(pending, 1, k)
          /\ pending' = SubSeq(pending, k + 1, Len(pending))
    /\ UNCHANGED <<accepted, owed, closing, failed>>

\* A write fails: what it was to write is lost.
Fail ==
    /\ failed' = TRUE
    /\ \E k \in 0 .. Len(pending) : pending' = SubSeq(pending, k + 1, Len(pending))
    /\ UNCHANGED <<accepted, archived, owed, closing>>

\* Later records are lost one by one.
Skip ==
    /\ failed
    /\ pending # <<>>
    /\ pending' = Tail(pending)
    /\ UNCHANGED <<accepted, archived, owed, closing, failed>>

Close ==
    /\ closing' = TRUE
    /\ UNCHANGED <<accepted, pending, archived, owed, failed>>

Next == Accept \/ Overflow \/ Settle \/ Write \/ Fail \/ Skip \/ Close

Spec == Init /\ [][Next]_vars
===============================================================================
