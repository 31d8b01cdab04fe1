------------------------ MODULE ParquetExporter_proofs ------------------------
(***************************************************************************)
(* Proofs about ParquetExporter, for every capacity of the queue, batch    *)
(* mode, size of files, flush interval and number of records.              *)
(***************************************************************************)
EXTENDS ParquetExporter, DataLemmas

(***************************************************************************)
(* The inductive invariant.  TypeOK is not inductive alone: submit() puts  *)
(* the number of a record again, and it has one because it is not idle.    *)
(***************************************************************************)
InHandIsSubmitted == spc # "idle" => submitted # 0

DataTypes ==
    /\ QueueTypes
    /\ SubmitterTypes
    /\ WriterTypes
    /\ OwnerTypes
    /\ HistoryTypes
    /\ InHandIsSubmitted

TypeInv == DataTypes /\ FlagTypes

(***************************************************************************)
(* Where the writer is, and what it holds there.  A batch is never kept or *)
(* written after a failure, since the failed write has emptied it.         *)
(***************************************************************************)
WriterHolds ==
    /\ writing # <<>> <=> wpc = "flush"
    /\ wpc = "flush" => batch = <<>> /\ ~healthError
    /\ healthError \/ wpc = "off" => batch = <<>>
    /\ lost # {} => healthError

WriterEnded ==
    /\ stopDone <=> wpc = "done"
    /\ wpc = "done" => final
    /\ final => wpc \in {"flush", "done"} /\ batch = <<>> /\ stopRequested

Stopping ==
    /\ stopRequested <=> opc \in {"signal", "wait", "ended"}
    /\ opc = "new" => wpc = "off"
    /\ opc # "ended" => outcome = "none"
    /\ outcome = "returned" /\ ~expired => stopDone /\ ~healthError

(***************************************************************************)
(* What is newer than stop().  A record is refused only where the sentinel *)
(* took the place that submit() had made for it, and then it is newer; and *)
(* when the writer has seen an empty queue after stop(), so is all that    *)
(* comes into the queue.                                                   *)
(***************************************************************************)
RefusedIsNewer ==
    /\ stopRequested => stopMark <= submitted
    /\ stopRequested /\ spc # "idle" => stopMark < submitted
    /\ spc = "again" /\ QueueFull => opc \in {"wait", "ended"}
    /\ \A r \in discarded : stopRequested /\ stopMark < r

QueuedIsNewer ==
    final => \A item \in ToSet(queue) : item = Sentinel \/ stopMark < item

ControlInv == WriterHolds /\ WriterEnded /\ Stopping /\ RefusedIsNewer /\ QueuedIsNewer
-------------------------------------------------------------------------------
(***************************************************************************)
(* Types.                                                                  *)
(***************************************************************************)

LEMMA InitTypes == Init => TypeInv
  <1> SUFFICES ASSUME Init PROVE TypeInv
    OBVIOUS
  <1>1. files \in Seq(Seq(Numbers))
    BY EmptySeq DEF Init
  <1>2. DataTypes
    BY <1>1, ParquetExporterAssumption
    DEF Init, DataTypes, QueueTypes, SubmitterTypes, WriterTypes, OwnerTypes,
        HistoryTypes, InHandIsSubmitted, Numbers, Sentinel
  <1>3. FlagTypes
    BY DEF Init, FlagTypes
  <1> QED BY <1>2, <1>3 DEF TypeInv

LEMMA NextFlags ==
    ASSUME TypeInv, [Next]_vars
    PROVE  FlagTypes'
  <1> USE DEF TypeInv, FlagTypes
  <1>1. CASE Owner
    BY <1>1 DEF Owner, Start, StartFails, StopBegin, StopSignal, StopReturns,
                sharedVars, writerVars
  <1>2. CASE Submitter
    BY <1>2 DEF Submitter, SubmitPut, SubmitDrop, SubmitAgain, sharedVars,
                writerVars, ownerVars
  <1>3. CASE Tick
    BY <1>3 DEF Tick, sharedVars, ownerVars
  <1>4. CASE Writer
    BY <1>4 DEF Writer, LoopGoesOn, Get, GetRecord, GetSentinel, GetTimesOut,
                LoopEnds, FlushOk, FlushFails, AfterFlush, Flush, Continue,
                sharedVars, ownerVars
  <1>5. CASE UNCHANGED vars
    BY <1>5 DEF vars, sharedVars, writerVars, ownerVars
  <1> QED BY <1>1, <1>2, <1>3, <1>4, <1>5 DEF Next

\* A flush keeps the types of what it moves.
LEMMA FlushTypes ==
    ASSUME WriterTypes, NEW records \in Seq(Numbers), NEW isFinal,
           Flush(records, isFinal), UNCHANGED sinceFlush \/ sinceFlush' = 0
    PROVE  WriterTypes' /\ batchAge' \in 0 .. 2 * FlushInterval + 1
  <1>1. batch' \in Seq(Numbers) /\ writing' \in Seq(Numbers)
    BY EmptySeq DEF Flush
  <1>2. sinceFlush' \in 0 .. FlushInterval /\ 0 \in 0 .. 2 * FlushInterval + 1
    BY ParquetExporterAssumption DEF WriterTypes
  <1> QED BY <1>1, <1>2 DEF Flush, WriterTypes

LEMMA NextTypes ==
    ASSUME TypeInv, [Next]_vars
    PROVE  DataTypes'
  <1> USE ParquetExporterAssumption
      DEF TypeInv, DataTypes, QueueTypes, SubmitterTypes, WriterTypes, OwnerTypes,
          HistoryTypes, InHandIsSubmitted, Numbers, Sentinel, sharedVars,
          submitterVars, writerVars, ownerVars, archiveVars, dropVars
  <1>1. CASE Start
    BY <1>1 DEF Start
  <1>2. CASE StartFails
    BY <1>2 DEF StartFails
  <1>3. CASE StopBegin
    BY <1>3 DEF StopBegin
  <1>4. CASE StopSignal
    BY <1>4, Appended DEF StopSignal, QueueFull
  <1>5. CASE StopReturns
    BY <1>5 DEF StopReturns
  <1>6. CASE SubmitPut
    <2>1. CASE ~QueueFull
      <3>1. submitted + 1 \in Numbers \cup {Sentinel} /\ submitted' = submitted + 1
        BY <1>6 DEF SubmitPut
      <3>2. queue' = Append(queue, submitted + 1)
        BY <2>1, <1>6 DEF SubmitPut
      <3>3. QueueTypes'
        BY <2>1, <3>1, <3>2, Appended, LenProperties DEF QueueFull
      <3> QED BY <1>6, <3>1, <3>3 DEF SubmitPut
    <2>2. CASE QueueFull
      BY <1>6, <2>2 DEF SubmitPut
    <2> QED BY <2>1, <2>2
  <1>7. CASE SubmitDrop
    <2>1. CASE queue = <<>>
      BY <1>7, <2>1 DEF SubmitDrop
    <2>2. CASE queue # <<>>
      <3>1. QueueTypes' /\ Head(queue) \in Numbers \cup {Sentinel}
        BY <1>7, <2>2, Removed DEF SubmitDrop
      <3>2. overflowed' \subseteq Numbers
        BY <1>7, <2>2, <3>1 DEF SubmitDrop
      <3> QED BY <1>7, <3>1, <3>2 DEF SubmitDrop
    <2> QED BY <2>1, <2>2
  <1>8. CASE SubmitAgain
    <2>1. submitted \in Numbers
      BY <1>8 DEF SubmitAgain
    <2>2. CASE ~QueueFull
      <3>1. queue' = Append(queue, submitted)
        BY <1>8, <2>2 DEF SubmitAgain
      <3>2. QueueTypes'
        BY <2>1, <2>2, <3>1, Appended, LenProperties DEF QueueFull
      <3> QED BY <1>8, <2>2, <3>2 DEF SubmitAgain
    <2>3. CASE QueueFull
      BY <1>8, <2>1, <2>3 DEF SubmitAgain
    <2> QED BY <2>2, <2>3
  <1>9. CASE Tick
    BY <1>9 DEF Tick
  <1>10. CASE LoopGoesOn
    BY <1>10 DEF LoopGoesOn
  <1>11. CASE GetRecord
    <2>1. QueueTypes' /\ Head(queue) \in Numbers
      BY <1>11, Removed DEF GetRecord, Get
    <2>2. WriterTypes' /\ HistoryTypes'
      <3>1. Append(batch, Head(queue)) \in Seq(Numbers)
        BY <2>1, Appended
      <3>2. CASE healthError
        BY <1>11, <2>1, <3>2 DEF GetRecord, Continue
      <3>3. CASE ~healthError /\ Flush(Append(batch, Head(queue)), FALSE)
        BY <1>11, <3>1, <3>3, FlushTypes DEF GetRecord, Flush
      <3>4. CASE ~healthError /\ batch' = Append(batch, Head(queue)) /\ Continue
        BY <1>11, <3>1, <3>4 DEF GetRecord, Continue
      <3> QED BY <1>11, <3>2, <3>3, <3>4 DEF GetRecord
    <2> QED BY <1>11, <2>1, <2>2 DEF GetRecord
  <1>12. CASE GetSentinel
    <2>1. QueueTypes'
      BY <1>12, Removed DEF GetSentinel, Get
    <2>2. CASE batch # <<>>
      <3>1. Flush(batch, FALSE) /\ sinceFlush' = 0
        BY <1>12, <2>2 DEF GetSentinel
      <3>2. WriterTypes' /\ batchAge' \in 0 .. 2 * FlushInterval + 1
        BY <3>1, FlushTypes
      <3> QED BY <1>12, <2>1, <3>2 DEF GetSentinel
    <2>3. CASE batch = <<>>
      BY <1>12, <2>1, <2>3 DEF GetSentinel, Continue
    <2> QED BY <2>2, <2>3
  <1>13. CASE GetTimesOut
    <2>1. CASE FlushDue /\ Flush(batch, FALSE)
      BY <1>13, <2>1, FlushTypes DEF GetTimesOut
    <2>2. CASE ~FlushDue /\ Continue /\ UNCHANGED batch
      BY <1>13, <2>2 DEF GetTimesOut, Continue
    <2> QED BY <1>13, <2>1, <2>2 DEF GetTimesOut
  <1>14. CASE LoopEnds
    <2>1. CASE Flush(batch, TRUE)
      BY <1>14, <2>1, FlushTypes DEF LoopEnds
    <2>2. CASE batch = <<>>
      BY <1>14, <2>2 DEF LoopEnds
    <2> QED BY <1>14, <2>1, <2>2 DEF LoopEnds
  <1>15. CASE FlushOk
    BY <1>15, Appended DEF FlushOk, AfterFlush
  <1>16. CASE FlushFails
    <2>1. lost' \subseteq Numbers
      BY <1>16, ToSetTyped DEF FlushFails
    <2>2. WriterTypes'
      BY <1>16, EmptySeq DEF FlushFails, AfterFlush
    <2> QED BY <1>16, <2>1, <2>2 DEF FlushFails
  <1>17. CASE UNCHANGED vars
    BY <1>17 DEF vars
  <1> QED
    BY <1>1, <1>2, <1>3, <1>4, <1>5, <1>6, <1>7, <1>8, <1>9, <1>10, <1>11, <1>12,
       <1>13, <1>14, <1>15, <1>16, <1>17 DEF Next, Owner, Submitter, Writer
LEMMA NextWriterHolds ==
    ASSUME TypeInv, WriterHolds, Stopping, [Next]_vars
    PROVE  WriterHolds'
  <1> USE DEF TypeInv, FlagTypes, WriterHolds, Stopping, sharedVars, submitterVars, writerVars,
          ownerVars, archiveVars, dropVars
  <1>1. CASE Start
    BY <1>1 DEF Start
  <1>2. CASE StartFails
    BY <1>2 DEF StartFails
  <1>3. CASE StopBegin
    BY <1>3 DEF StopBegin
  <1>4. CASE StopSignal
    BY <1>4 DEF StopSignal
  <1>5. CASE StopReturns
    BY <1>5 DEF StopReturns
  <1>6. CASE SubmitPut
    BY <1>6 DEF SubmitPut
  <1>7. CASE SubmitDrop
    BY <1>7 DEF SubmitDrop
  <1>8. CASE SubmitAgain
    BY <1>8 DEF SubmitAgain
  <1>9. CASE Tick
    BY <1>9 DEF Tick
  <1>10. CASE LoopGoesOn
    BY <1>10 DEF LoopGoesOn
  <1>11. CASE GetRecord
    BY <1>11 DEF GetRecord, Get, Flush, Continue
  <1>12. CASE GetSentinel
    BY <1>12 DEF GetSentinel, Get, Flush, Continue
  <1>13. CASE GetTimesOut
    BY <1>13 DEF GetTimesOut, Flush, Continue, FlushDue
  <1>14. CASE LoopEnds
    BY <1>14 DEF LoopEnds, Flush, Drained
  <1>15. CASE FlushOk
    BY <1>15 DEF FlushOk, AfterFlush
  <1>16. CASE FlushFails
    BY <1>16 DEF FlushFails, AfterFlush
  <1>17. CASE UNCHANGED vars
    BY <1>17 DEF vars
  <1> QED
    BY <1>1, <1>2, <1>3, <1>4, <1>5, <1>6, <1>7, <1>8, <1>9,
       <1>10, <1>11, <1>12, <1>13, <1>14, <1>15, <1>16, <1>17
    DEF Next, Owner, Submitter, Writer

LEMMA NextWriterEnded ==
    ASSUME TypeInv, WriterHolds, WriterEnded, Stopping, [Next]_vars
    PROVE  WriterEnded'
  <1> USE DEF TypeInv, FlagTypes, WriterHolds, WriterEnded, Stopping, sharedVars, submitterVars, writerVars,
          ownerVars, archiveVars, dropVars
  <1>1. CASE Start
    BY <1>1 DEF Start
  <1>2. CASE StartFails
    BY <1>2 DEF StartFails
  <1>3. CASE StopBegin
    BY <1>3 DEF StopBegin
  <1>4. CASE StopSignal
    BY <1>4 DEF StopSignal
  <1>5. CASE StopReturns
    BY <1>5 DEF StopReturns
  <1>6. CASE SubmitPut
    BY <1>6 DEF SubmitPut
  <1>7. CASE SubmitDrop
    BY <1>7 DEF SubmitDrop
  <1>8. CASE SubmitAgain
    BY <1>8 DEF SubmitAgain
  <1>9. CASE Tick
    BY <1>9 DEF Tick
  <1>10. CASE LoopGoesOn
    BY <1>10 DEF LoopGoesOn
  <1>11. CASE GetRecord
    BY <1>11 DEF GetRecord, Get, Flush, Continue
  <1>12. CASE GetSentinel
    BY <1>12 DEF GetSentinel, Get, Flush, Continue
  <1>13. CASE GetTimesOut
    BY <1>13 DEF GetTimesOut, Flush, Continue, FlushDue
  <1>14. CASE LoopEnds
    BY <1>14 DEF LoopEnds, Flush, Drained
  <1>15. CASE FlushOk
    BY <1>15 DEF FlushOk, AfterFlush
  <1>16. CASE FlushFails
    BY <1>16 DEF FlushFails, AfterFlush
  <1>17. CASE UNCHANGED vars
    BY <1>17 DEF vars
  <1> QED
    BY <1>1, <1>2, <1>3, <1>4, <1>5, <1>6, <1>7, <1>8, <1>9,
       <1>10, <1>11, <1>12, <1>13, <1>14, <1>15, <1>16, <1>17
    DEF Next, Owner, Submitter, Writer

LEMMA NextStopping ==
    ASSUME TypeInv, WriterEnded, Stopping, [Next]_vars
    PROVE  Stopping'
  <1> USE DEF TypeInv, FlagTypes, WriterEnded, Stopping, sharedVars, submitterVars, writerVars,
          ownerVars, archiveVars, dropVars
  <1>1. CASE Start
    BY <1>1 DEF Start
  <1>2. CASE StartFails
    BY <1>2 DEF StartFails
  <1>3. CASE StopBegin
    BY <1>3 DEF StopBegin
  <1>4. CASE StopSignal
    BY <1>4 DEF StopSignal
  <1>5. CASE StopReturns
    BY <1>5 DEF StopReturns
  <1>6. CASE SubmitPut
    BY <1>6 DEF SubmitPut
  <1>7. CASE SubmitDrop
    BY <1>7 DEF SubmitDrop
  <1>8. CASE SubmitAgain
    BY <1>8 DEF SubmitAgain
  <1>9. CASE Tick
    BY <1>9 DEF Tick
  <1>10. CASE LoopGoesOn
    BY <1>10 DEF LoopGoesOn
  <1>11. CASE GetRecord
    BY <1>11 DEF GetRecord, Get, Flush, Continue
  <1>12. CASE GetSentinel
    BY <1>12 DEF GetSentinel, Get, Flush, Continue
  <1>13. CASE GetTimesOut
    BY <1>13 DEF GetTimesOut, Flush, Continue, FlushDue
  <1>14. CASE LoopEnds
    BY <1>14 DEF LoopEnds, Flush, Drained
  <1>15. CASE FlushOk
    BY <1>15 DEF FlushOk, AfterFlush
  <1>16. CASE FlushFails
    BY <1>16 DEF FlushFails, AfterFlush
  <1>17. CASE UNCHANGED vars
    BY <1>17 DEF vars
  <1> QED
    BY <1>1, <1>2, <1>3, <1>4, <1>5, <1>6, <1>7, <1>8, <1>9,
       <1>10, <1>11, <1>12, <1>13, <1>14, <1>15, <1>16, <1>17
    DEF Next, Owner, Submitter, Writer

\* The queue has a place when an item has been taken.
LEMMA TailIsNotFull ==
    ASSUME QueueTypes, queue # <<>>, queue' = Tail(queue)
    PROVE  ~QueueFull'
  <1>1. Len(queue') = Len(queue) - 1 /\ Len(queue) \in Nat
    BY Removed, LenProperties DEF QueueTypes
  <1> QED BY <1>1, ParquetExporterAssumption DEF QueueTypes, QueueFull

LEMMA EmptyIsNotFull == queue = <<>> => ~QueueFull
  BY ParquetExporterAssumption, EmptySeq DEF QueueFull

LEMMA NextRefused ==
    ASSUME TypeInv, Stopping, RefusedIsNewer, [Next]_vars
    PROVE  RefusedIsNewer'
  <1> USE DEF TypeInv, FlagTypes, DataTypes, SubmitterTypes, InHandIsSubmitted, Stopping,
          RefusedIsNewer, QueueFull, sharedVars, submitterVars, writerVars,
          ownerVars, archiveVars, dropVars
  <1>1. CASE Start
    BY <1>1 DEF Start
  <1>2. CASE StartFails
    BY <1>2 DEF StartFails
  <1>3. CASE StopBegin
    BY <1>3 DEF StopBegin
  <1>4. CASE StopSignal
    BY <1>4 DEF StopSignal
  <1>5. CASE StopReturns
    BY <1>5 DEF StopReturns
  <1>6. CASE SubmitPut
    <2>1. submitted' = submitted + 1 /\ submitted \in Nat /\ stopMark \in Nat
      BY <1>6, ParquetExporterAssumption DEF SubmitPut, HistoryTypes
    <2> QED BY <1>6, <2>1 DEF SubmitPut
  <1>7. CASE SubmitDrop
    <2>1. ~QueueFull'
      BY <1>7, TailIsNotFull, EmptyIsNotFull DEF SubmitDrop, QueueFull
    <2> QED BY <1>7, <2>1 DEF SubmitDrop
  <1>8. CASE SubmitAgain
    BY <1>8, ParquetExporterAssumption DEF SubmitAgain
  <1>9. CASE Tick
    BY <1>9 DEF Tick
  <1>10. CASE LoopGoesOn
    BY <1>10 DEF LoopGoesOn
  <1>11. CASE GetRecord
    <2>1. ~QueueFull'
      BY <1>11, TailIsNotFull DEF GetRecord, Get
    <2> QED BY <1>11, <2>1 DEF GetRecord
  <1>12. CASE GetSentinel
    <2>1. ~QueueFull'
      BY <1>12, TailIsNotFull DEF GetSentinel, Get
    <2> QED BY <1>12, <2>1 DEF GetSentinel
  <1>13. CASE GetTimesOut
    BY <1>13 DEF GetTimesOut, Flush, Continue, FlushDue
  <1>14. CASE LoopEnds
    BY <1>14 DEF LoopEnds, Flush, Drained
  <1>15. CASE FlushOk
    BY <1>15 DEF FlushOk, AfterFlush
  <1>16. CASE FlushFails
    BY <1>16 DEF FlushFails, AfterFlush
  <1>17. CASE UNCHANGED vars
    BY <1>17 DEF vars
  <1> QED
    BY <1>1, <1>2, <1>3, <1>4, <1>5, <1>6, <1>7, <1>8, <1>9,
       <1>10, <1>11, <1>12, <1>13, <1>14, <1>15, <1>16, <1>17
    DEF Next, Owner, Submitter, Writer

\* The queue holds no more than it did, and perhaps the item.
QueuedAdds(item) == ToSet(queue') \subseteq ToSet(queue) \cup {item}

LEMMA NextQueued ==
    ASSUME TypeInv, WriterEnded, Stopping, RefusedIsNewer, QueuedIsNewer, [Next]_vars
    PROVE  QueuedIsNewer'
  <1> USE DEF TypeInv, FlagTypes, DataTypes, QueueTypes, SubmitterTypes,
          WriterEnded, RefusedIsNewer, QueuedIsNewer, sharedVars, submitterVars, writerVars,
          ownerVars, archiveVars, dropVars
  <1>1. CASE Start
    BY <1>1 DEF Start
  <1>2. CASE StartFails
    BY <1>2 DEF StartFails
  <1>3. CASE StopBegin
    BY <1>3 DEF StopBegin, Stopping
  <1>4. CASE StopSignal
    BY <1>4, Appended DEF StopSignal, Sentinel
  <1>5. CASE StopReturns
    BY <1>5 DEF StopReturns
  <1>6. CASE SubmitPut
    <2>1. /\ submitted + 1 \in Numbers \cup {Sentinel}
          /\ stopRequested => stopMark < submitted + 1
      BY <1>6, ParquetExporterAssumption DEF SubmitPut, HistoryTypes, Numbers
    <2>2. QueuedAdds(submitted + 1)
      BY <1>6, <2>1, Appended DEF SubmitPut, QueuedAdds
    <2> QED BY <1>6, <2>1, <2>2 DEF SubmitPut, QueuedAdds
  <1>7. CASE SubmitDrop
    BY <1>7, Removed DEF SubmitDrop
  <1>8. CASE SubmitAgain
    <2>1. submitted \in Numbers \cup {Sentinel}
      BY <1>8, ParquetExporterAssumption DEF SubmitAgain, Numbers, InHandIsSubmitted
    <2>2. QueuedAdds(submitted)
      <3>1. CASE queue' = queue
        BY <3>1 DEF QueuedAdds
      <3>2. CASE queue' = Append(queue, submitted)
        BY <3>2, <2>1, Appended DEF QueuedAdds
      <3> QED BY <1>8, <3>1, <3>2 DEF SubmitAgain
    <2> QED BY <1>8, <2>2 DEF SubmitAgain, QueuedAdds
  <1>9. CASE Tick
    BY <1>9 DEF Tick
  <1>10. CASE LoopGoesOn
    BY <1>10 DEF LoopGoesOn
  <1>11. CASE GetRecord
    BY <1>11 DEF GetRecord, Get, Flush, Continue
  <1>12. CASE GetSentinel
    BY <1>12 DEF GetSentinel, Get, Flush, Continue
  <1>13. CASE GetTimesOut
    BY <1>13 DEF GetTimesOut, Flush, Continue, FlushDue
  <1>14. CASE LoopEnds
    BY <1>14, ToSetOfEmpty DEF LoopEnds, Drained
  <1>15. CASE FlushOk
    BY <1>15 DEF FlushOk, AfterFlush
  <1>16. CASE FlushFails
    BY <1>16 DEF FlushFails, AfterFlush
  <1>17. CASE UNCHANGED vars
    BY <1>17 DEF vars
  <1> QED
    BY <1>1, <1>2, <1>3, <1>4, <1>5, <1>6, <1>7, <1>8, <1>9,
       <1>10, <1>11, <1>12, <1>13, <1>14, <1>15, <1>16, <1>17
    DEF Next, Owner, Submitter, Writer

(***************************************************************************)
(* NothingVanishes: records go from one place to another.                  *)
(***************************************************************************)

\* What is written into one more file is archived.
LEMMA ArchivedAppended ==
    ASSUME HistoryTypes, NEW records \in Seq(Numbers), files' = Append(files, records)
    PROVE  Archived' = Archived \cup ToSet(records)
  <1>1. /\ Len(files') = Len(files) + 1
        /\ \A i \in 1 .. Len(files) : files'[i] = files[i]
        /\ files'[Len(files) + 1] = records
        /\ Len(files) \in Nat
        /\ DOMAIN files = 1 .. Len(files)
        /\ DOMAIN files' = 1 .. Len(files) + 1
    BY AppendProperties, LenProperties DEF HistoryTypes
  <1>2. DOMAIN files' = DOMAIN files \cup {Len(files) + 1}
    BY <1>1
  <1> QED BY <1>1, <1>2 DEF Archived

Placed == Archived \cup ToSet(writing) \cup ToSet(batch)
              \cup (ToSet(queue) \ {Sentinel}) \cup ToSet(InHand)
              \cup overflowed \cup discarded \cup lost

LEMMA InHandSet == ToSet(InHand) = IF spc = "idle" THEN {} ELSE {submitted}
  BY DEF InHand, ToSet

LEMMA NextPlaced ==
    ASSUME TypeInv, WriterHolds, [Next]_vars
    PROVE  \/ Placed' = Placed /\ submitted' = submitted
           \/ Placed' = Placed \cup {submitted + 1} /\ submitted' = submitted + 1
  <1> DEFINE Goal == \/ Placed' = Placed /\ submitted' = submitted
                     \/ /\ Placed' = Placed \cup {submitted + 1}
                        /\ submitted' = submitted + 1
  <1> USE DEF sharedVars, submitterVars, writerVars, ownerVars, archiveVars, dropVars
  <1>0. /\ queue \in Seq(Numbers \cup {Sentinel})
        /\ batch \in Seq(Numbers) /\ writing \in Seq(Numbers)
    BY DEF TypeInv, DataTypes, QueueTypes, WriterTypes
  <1>1. CASE Start
    BY <1>1 DEF Start, Placed, Archived, InHand
  <1>2. CASE StartFails
    BY <1>2 DEF StartFails, Placed, Archived, InHand
  <1>3. CASE StopBegin
    BY <1>3 DEF StopBegin, Placed, Archived, InHand
  <1>4. CASE StopSignal
    <2>1. ToSet(queue') \ {Sentinel} = ToSet(queue) \ {Sentinel}
      BY <1>0, <1>4, Appended DEF StopSignal
    <2> QED BY <1>4, <2>1 DEF StopSignal, Placed, Archived, InHand
  <1>5. CASE StopReturns
    BY <1>5 DEF StopReturns, Placed, Archived, InHand
  <1>6. CASE SubmitPut
    <2>1. submitted + 1 \in Numbers \cup {Sentinel} /\ submitted + 1 # Sentinel
      BY <1>6, ParquetExporterAssumption
      DEF SubmitPut, TypeInv, DataTypes, SubmitterTypes, Numbers, Sentinel
    <2>2. CASE ~QueueFull
      <3>1. ToSet(queue') = ToSet(queue) \cup {submitted + 1}
        BY ZenonT(30), <1>0, <1>6, <2>1, <2>2, Appended DEF SubmitPut
      <3>2. ToSet(InHand)' = {} /\ ToSet(InHand) = {}
        BY <1>6, <2>2, ToSetOfEmpty DEF SubmitPut, InHand
      <3> QED BY <1>6, <2>1, <3>1, <3>2 DEF SubmitPut, Placed, Archived
    <2>3. CASE QueueFull
      <3>1. ToSet(InHand) = {} /\ ToSet(InHand)' = {submitted + 1}
        BY <1>6, <2>3, ToSetOfEmpty DEF SubmitPut, InHand, ToSet
      <3> QED BY <1>6, <2>3, <3>1 DEF SubmitPut, Placed, Archived
    <2> QED BY <2>2, <2>3
  <1>7. CASE SubmitDrop
    <2>1. ToSet(InHand)' = ToSet(InHand)
      BY <1>7 DEF SubmitDrop, InHand
    <2>2. CASE queue = <<>>
      BY <1>7, <2>1, <2>2 DEF SubmitDrop, Placed, Archived
    <2>3. CASE queue # <<>>
      <3>1. ToSet(queue) = ToSet(queue') \cup {Head(queue)}
        BY <1>0, <1>7, <2>3, Removed DEF SubmitDrop
      <3> QED BY <1>7, <2>1, <2>3, <3>1 DEF SubmitDrop, Placed, Archived
    <2> QED BY <2>2, <2>3
  <1>8. CASE SubmitAgain
    <2>1. submitted \in Numbers /\ submitted # Sentinel
      BY <1>8, ParquetExporterAssumption
      DEF SubmitAgain, TypeInv, DataTypes, SubmitterTypes, InHandIsSubmitted,
          Numbers, Sentinel
    <2>2. ToSet(InHand) = {submitted} /\ ToSet(InHand)' = {}
      BY <1>8, ToSetOfEmpty DEF SubmitAgain, InHand, ToSet
    <2>3. CASE ~QueueFull
      <3>1. ToSet(queue') = ToSet(queue) \cup {submitted}
        <4>1. queue' = Append(queue, submitted) /\ submitted \in Numbers \cup {Sentinel}
          BY <1>8, <2>1, <2>3 DEF SubmitAgain
        <4> QED BY <1>0, <4>1, Appended
      <3> QED BY <1>8, <2>1, <2>2, <2>3, <3>1 DEF SubmitAgain, Placed, Archived
    <2>4. CASE QueueFull
      BY <1>8, <2>2, <2>4 DEF SubmitAgain, Placed, Archived
    <2> QED BY <2>3, <2>4
  <1>9. CASE Tick
    BY <1>9 DEF Tick, Placed, Archived, InHand
  <1>10. CASE LoopGoesOn
    BY <1>10 DEF LoopGoesOn, Placed, Archived, InHand
  <1>11. CASE GetRecord
    <2>1. /\ Head(queue) \in Numbers /\ Head(queue) # Sentinel
          /\ ToSet(queue) = ToSet(queue') \cup {Head(queue)}
      BY <1>0, <1>11, Removed DEF GetRecord, Get
    <2>2. ToSet(Append(batch, Head(queue))) = ToSet(batch) \cup {Head(queue)}
      BY <1>0, <2>1, Appended
    <2>3. ToSet(writing) = {} /\ UNCHANGED <<files, overflowed, discarded, InHand, submitted>>
      BY <1>11, ToSetOfEmpty DEF GetRecord, Get, WriterHolds, InHand
    <2>4. CASE healthError
      BY <1>11, <2>1, <2>3, <2>4 DEF GetRecord, Continue, Placed, Archived
    <2>5. CASE ~healthError /\ Flush(Append(batch, Head(queue)), FALSE)
      BY <1>11, <2>1, <2>2, <2>3, <2>5, ToSetOfEmpty
      DEF GetRecord, Flush, Placed, Archived
    <2>6. CASE ~healthError /\ batch' = Append(batch, Head(queue)) /\ Continue
      <3>1. writing' = writing
        BY <2>6 DEF Continue
      <3>2. lost' = lost
        BY <1>11, <2>6 DEF GetRecord
      <3> QED BY <2>1, <2>2, <2>3, <2>6, <3>1, <3>2 DEF Placed, Archived
    <2> QED BY <1>11, <2>4, <2>5, <2>6 DEF GetRecord
  <1>12. CASE GetSentinel
    <2>1. ToSet(queue) \ {Sentinel} = ToSet(queue') \ {Sentinel}
      BY <1>0, <1>12, Removed DEF GetSentinel, Get
    <2>2. ToSet(writing) \cup ToSet(batch) = (ToSet(writing) \cup ToSet(batch))'
      BY <1>12, ToSetOfEmpty DEF GetSentinel, Get, Flush, Continue, WriterHolds
    <2> QED BY <1>12, <2>1, <2>2 DEF GetSentinel, Placed, Archived, InHand
  <1>13. CASE GetTimesOut
    <2>1. ToSet(writing) \cup ToSet(batch) = (ToSet(writing) \cup ToSet(batch))'
      BY <1>13, ToSetOfEmpty DEF GetTimesOut, Flush, Continue, WriterHolds
    <2> QED BY <1>13, <2>1 DEF GetTimesOut, Placed, Archived, InHand
  <1>14. CASE LoopEnds
    <2>1. ToSet(writing) \cup ToSet(batch) = (ToSet(writing) \cup ToSet(batch))'
      BY <1>14, ToSetOfEmpty DEF LoopEnds, Flush, WriterHolds
    <2> QED BY <1>14, <2>1 DEF LoopEnds, Placed, Archived, InHand
  <1>15. CASE FlushOk
    <2>1. Archived' = Archived \cup ToSet(writing) /\ ToSet(writing') = {}
      BY <1>0, <1>15, ArchivedAppended, ToSetOfEmpty
      DEF FlushOk, AfterFlush, TypeInv, DataTypes
    <2> QED BY <1>15, <2>1 DEF FlushOk, Placed, InHand
  <1>16. CASE FlushFails
    <2>1. ToSet(writing') = {}
      BY <1>16, ToSetOfEmpty DEF FlushFails, AfterFlush
    <2> QED BY <1>16, <2>1 DEF FlushFails, Placed, Archived, InHand
  <1>17. CASE UNCHANGED vars
    BY <1>17 DEF vars, Placed, Archived, InHand
  <1> QED
    BY <1>1, <1>2, <1>3, <1>4, <1>5, <1>6, <1>7, <1>8, <1>9, <1>10, <1>11, <1>12,
       <1>13, <1>14, <1>15, <1>16, <1>17 DEF Next, Owner, Submitter, Writer

LEMMA NextAccounted ==
    ASSUME TypeInv, WriterHolds, NothingVanishes, [Next]_vars
    PROVE  NothingVanishes'
  <1>1. 1 .. submitted = Placed
    BY DEF NothingVanishes, Placed
  <1>2. submitted \in Nat /\ 1 .. submitted + 1 = 1 .. submitted \cup {submitted + 1}
    BY ParquetExporterAssumption DEF TypeInv, DataTypes, SubmitterTypes
  <1>3. 1 .. submitted' = Placed'
    BY <1>1, <1>2, NextPlaced
  <1> QED BY <1>3 DEF NothingVanishes, Placed

ExporterInv == TypeInv /\ ControlInv /\ NothingVanishes

LEMMA InitExporter == Init => ExporterInv
  <1> SUFFICES ASSUME Init PROVE ExporterInv
    OBVIOUS
  <1>1. TypeInv
    BY InitTypes
  <1>2. ToSet(queue) = {} /\ ToSet(batch) = {} /\ ToSet(writing) = {} /\ ToSet(InHand) = {}
        /\ Archived = {}
    BY ToSetOfEmpty, EmptySeq DEF Init, InHand, Archived
  <1>3. NothingVanishes
    BY <1>2 DEF Init, NothingVanishes
  <1>4. ControlInv
    BY <1>2 DEF Init, ControlInv, WriterHolds, WriterEnded, Stopping, RefusedIsNewer,
                QueuedIsNewer
  <1> QED BY <1>1, <1>3, <1>4 DEF ExporterInv

LEMMA NextExporter ==
    ASSUME ExporterInv, [Next]_vars
    PROVE  ExporterInv'
  <1> USE DEF ExporterInv, ControlInv
  <1>1. TypeInv'
    BY NextTypes, NextFlags DEF TypeInv
  <1>2. ControlInv'
    BY NextWriterHolds, NextWriterEnded, NextStopping, NextRefused, NextQueued
  <1> QED BY <1>1, <1>2, NextAccounted

LEMMA ExporterAlways == Spec => []ExporterInv
  BY InitExporter, NextExporter, PTL DEF Spec
-------------------------------------------------------------------------------
\* Every variable of the exporter keeps its type, and the queue its bound.
THEOREM TypeCorrect == Spec => []TypeOK
  <1>1. ExporterInv => TypeOK
    BY DEF ExporterInv, TypeInv, DataTypes, TypeOK
  <1> QED BY <1>1, ExporterAlways, PTL

\* Every record submitted is on its way, in a file, or counted as dropped,
\* refused or hit by a failure (submit, _write_loop, _flush_batch).
THEOREM EachRecordAccounted == Spec => []NothingVanishes
  <1>1. ExporterInv => NothingVanishes
    BY DEF ExporterInv
  <1> QED BY <1>1, ExporterAlways, PTL

\* A stop() that returns without error, having waited for the writer, has every
\* record queued before it in a file, but for those a full queue dropped.
THEOREM StopHasFlushed == Spec => []StopFlushes
  <1>1. ExporterInv => StopFlushes
    <2> SUFFICES ASSUME ExporterInv, outcome = "returned", ~expired
                 PROVE  ~healthError /\ 1 .. stopMark \subseteq Archived \cup overflowed
      BY DEF StopFlushes
    <2> USE DEF ExporterInv, ControlInv
    <2>1. stopDone /\ ~healthError
      BY DEF Stopping
    <2>2. /\ wpc = "done" /\ final /\ stopRequested
          /\ batch = <<>> /\ writing = <<>> /\ lost = {}
      BY <2>1 DEF WriterEnded, WriterHolds
    <2>3. stopMark <= submitted /\ stopMark \in Nat /\ submitted \in Nat
      BY <2>2, ParquetExporterAssumption
      DEF RefusedIsNewer, TypeInv, DataTypes, HistoryTypes, SubmitterTypes
    <2>4. ASSUME NEW r \in 1 .. stopMark PROVE r \in Archived \cup overflowed
      <3>1. r \in 1 .. submitted
        BY <2>3
      <3>2. r \notin ToSet(writing) \cup ToSet(batch) \cup lost
        BY <2>2, ToSetOfEmpty
      <3>3. r \notin ToSet(queue) \ {Sentinel}
        BY <2>2, <2>3 DEF QueuedIsNewer
      <3>4. r \notin ToSet(InHand)
        BY <2>2, <2>3, InHandSet DEF RefusedIsNewer
      <3>5. r \notin discarded
        BY <2>3 DEF RefusedIsNewer, TypeInv, DataTypes, HistoryTypes, Numbers
      <3> QED BY <3>1, <3>2, <3>3, <3>4, <3>5 DEF NothingVanishes
    <2> QED BY <2>1, <2>4
  <1> QED BY <1>1, ExporterAlways, PTL
-------------------------------------------------------------------------------
(***************************************************************************)
(* The refinement.  stop() puts its sentinel once, so that the queue has   *)
(* one at most and Records leaves no sentinel in it.                       *)
(***************************************************************************)

OneSentinel ==
    /\ \A i, j \in 1 .. Len(queue) : queue[i] = Sentinel /\ queue[j] = Sentinel => i = j
    /\ Sentinel \in ToSet(queue) => opc \in {"wait", "ended"}

Items == Numbers \cup {Sentinel}

LEMMA ItemsAssociate ==
    \A s, t, u \in Seq(Items) : (s \o t) \o u = s \o (t \o u)
  BY SMTT(30), ConcatAssociative

LEMMA TailHasOne ==
    ASSUME queue \in Seq(Items), OneSentinel, queue # <<>>, queue' = Tail(queue), UNCHANGED opc
    PROVE  OneSentinel' /\ (Head(queue) = Sentinel => Sentinel \notin ToSet(queue'))
  <1>1. /\ queue' \in Seq(Items) /\ Len(queue') = Len(queue) - 1
        /\ Len(queue) \in Nat \ {0} /\ Head(queue) = queue[1]
        /\ \A i \in 1 .. Len(queue) - 1 : queue'[i] = queue[i + 1]
        /\ ToSet(queue) = ToSet(queue') \cup {Head(queue)}
        /\ DOMAIN queue' = 1 .. Len(queue')
    BY HeadTailProperties, Removed, EmptySeq, LenProperties
  <1>2. ASSUME NEW i \in 1 .. Len(queue'), NEW j \in 1 .. Len(queue'),
               queue'[i] = Sentinel, queue'[j] = Sentinel
        PROVE  i = j
    <2>1. /\ i + 1 \in 1 .. Len(queue) /\ j + 1 \in 1 .. Len(queue)
          /\ queue[i + 1] = Sentinel /\ queue[j + 1] = Sentinel
      BY <1>1, <1>2
    <2>2. i + 1 = j + 1
      BY <2>1 DEF OneSentinel
    <2> QED BY <2>2
  <1>3. ASSUME Head(queue) = Sentinel, NEW i \in 1 .. Len(queue'), queue'[i] = Sentinel
        PROVE  FALSE
    <2>1. 1 \in 1 .. Len(queue) /\ i + 1 \in 1 .. Len(queue) /\ queue[i + 1] = Sentinel
      BY <1>1, <1>3
    <2>2. i + 1 = 1
      BY <1>1, <1>3, <2>1 DEF OneSentinel
    <2> QED BY <2>2
  <1>4. Sentinel \in ToSet(queue') => opc' \in {"wait", "ended"}
    BY <1>1 DEF OneSentinel
  <1> QED BY <1>1, <1>2, <1>3, <1>4 DEF OneSentinel, ToSet

LEMMA AppendHasOne ==
    ASSUME queue \in Seq(Items), OneSentinel, NEW x \in Items, queue' = Append(queue, x),
           \/ x # Sentinel /\ UNCHANGED opc
           \/ Sentinel \notin ToSet(queue) /\ opc' = "wait"
    PROVE  OneSentinel'
  <1>1. /\ Len(queue') = Len(queue) + 1 /\ Len(queue) \in Nat
        /\ \A i \in 1 .. Len(queue) : queue'[i] = queue[i]
        /\ queue'[Len(queue) + 1] = x
        /\ ToSet(queue') = ToSet(queue) \cup {x}
        /\ DOMAIN queue = 1 .. Len(queue)
    BY AppendProperties, LenProperties, Appended
  <1>2. ASSUME NEW i \in 1 .. Len(queue'), NEW j \in 1 .. Len(queue'),
               queue'[i] = Sentinel, queue'[j] = Sentinel
        PROVE  i = j
    <2>1. CASE x # Sentinel
      <3>1. i \in 1 .. Len(queue) /\ j \in 1 .. Len(queue)
        BY <1>1, <1>2, <2>1
      <3> QED BY <1>1, <1>2, <3>1 DEF OneSentinel
    <2>2. CASE Sentinel \notin ToSet(queue)
      <3>1. i \notin 1 .. Len(queue) /\ j \notin 1 .. Len(queue)
        BY <1>1, <1>2, <2>2 DEF ToSet
      <3> QED BY <1>1, <1>2, <3>1
    <2> QED BY <2>1, <2>2
  <1>3. Sentinel \in ToSet(queue') => opc' \in {"wait", "ended"}
    BY <1>1 DEF OneSentinel
  <1> QED BY <1>2, <1>3 DEF OneSentinel

LEMMA NextSentinel ==
    ASSUME TypeInv, OneSentinel, [Next]_vars
    PROVE  OneSentinel'
  <1> USE DEF sharedVars, submitterVars, writerVars, ownerVars, archiveVars, dropVars
  <1>0. queue \in Seq(Items)
    BY DEF TypeInv, DataTypes, QueueTypes, Items
  <1>1. CASE UNCHANGED <<queue, opc>>
    BY <1>1 DEF OneSentinel
  <1>2. CASE Owner /\ ~StopSignal
    BY <1>2 DEF Owner, Start, StartFails, StopBegin, StopReturns, OneSentinel
  <1>3. CASE StopSignal
    <2>1. CASE QueueFull
      BY <1>3, <2>1 DEF StopSignal, OneSentinel
    <2>2. CASE ~QueueFull
      <3>1. queue' = Append(queue, Sentinel) /\ opc = "signal" /\ opc' = "wait"
        BY <1>3, <2>2 DEF StopSignal
      <3>2. Sentinel \notin ToSet(queue) /\ Sentinel \in Items
        BY <3>1 DEF OneSentinel, Items
      <3> QED BY <1>0, <3>1, <3>2, AppendHasOne
    <2> QED BY <2>1, <2>2
  <1>4. CASE SubmitPut
    <2>1. submitted + 1 \in Items /\ submitted + 1 # Sentinel
      BY <1>4, ParquetExporterAssumption
      DEF SubmitPut, TypeInv, DataTypes, SubmitterTypes, Numbers, Sentinel, Items
    <2>2. opc' = opc /\ (queue' = queue \/ queue' = Append(queue, submitted + 1))
      BY <1>4 DEF SubmitPut
    <2> QED BY <1>0, <1>1, <2>1, <2>2, AppendHasOne
  <1>5. CASE SubmitDrop
    <2>1. opc' = opc /\ (queue' = queue \/ (queue # <<>> /\ queue' = Tail(queue)))
      BY <1>5 DEF SubmitDrop
    <2> QED BY <1>0, <1>1, <2>1, TailHasOne
  <1>6. CASE SubmitAgain
    <2>1. submitted \in Items /\ submitted # Sentinel
      BY <1>6, ParquetExporterAssumption
      DEF SubmitAgain, TypeInv, DataTypes, SubmitterTypes, InHandIsSubmitted, Numbers,
          Sentinel, Items
    <2>2. opc' = opc /\ (queue' = queue \/ queue' = Append(queue, submitted))
      BY <1>6 DEF SubmitAgain
    <2> QED BY <1>0, <1>1, <2>1, <2>2, AppendHasOne
  <1>7. CASE GetRecord \/ GetSentinel
    <2>1. opc' = opc /\ queue # <<>> /\ queue' = Tail(queue)
      BY <1>7 DEF GetRecord, GetSentinel, Get
    <2> QED BY <1>0, <2>1, TailHasOne
  <1>8. CASE Tick \/ LoopGoesOn \/ GetTimesOut \/ LoopEnds \/ FlushOk \/ FlushFails
    BY <1>1, <1>8 DEF Tick, LoopGoesOn, GetTimesOut, LoopEnds, FlushOk, FlushFails
  <1>9. CASE UNCHANGED vars
    BY <1>1, <1>9 DEF vars
  <1> QED BY <1>2, <1>3, <1>4, <1>5, <1>6, <1>7, <1>8, <1>9
          DEF Next, Owner, Submitter, Writer
\* What waits, as the refinement maps it.
Pending == writing \o batch \o Records(queue) \o InHand

LEMMA PartsTyped ==
    ASSUME TypeInv
    PROVE  /\ queue \in Seq(Items) /\ batch \in Seq(Items) /\ writing \in Seq(Items)
           /\ Records(queue) \in Seq(Items)
           /\ InHand \in Seq(Items)
           /\ submitted \in Nat
           /\ files \in Seq(Seq(Items))
  <1>1. queue \in Seq(Items)
    BY DEF TypeInv, DataTypes, QueueTypes, Items
  <1>2. batch \in Seq(Items) /\ writing \in Seq(Items)
    BY SeqMonotonic DEF TypeInv, DataTypes, WriterTypes, Items
  <1>3. Records(queue) \in Seq(Items)
    BY <1>1, RemoveFirstTyped DEF Records
  <1>4. submitted \in Nat /\ InHand \in Seq(Items)
    <2>1. submitted \in Nat /\ (spc # "idle" => submitted \in Items)
      BY ParquetExporterAssumption
      DEF TypeInv, DataTypes, SubmitterTypes, InHandIsSubmitted, Items, Numbers
    <2> QED BY <2>1 DEF InHand
  <1>5. files \in Seq(Seq(Items))
    <2>1. Seq(Numbers) \subseteq Seq(Items)
      BY SeqMonotonic DEF Items
    <2> QED BY <2>1, SeqMonotonic DEF TypeInv, DataTypes, HistoryTypes
  <1> QED BY <1>1, <1>2, <1>3, <1>4, <1>5

\* What taking or putting an item does to the records of the queue.
LEMMA RecordsTaken ==
    ASSUME queue \in Seq(Items), OneSentinel, queue # <<>>, queue' = Tail(queue), UNCHANGED opc
    PROVE  /\ Head(queue) = Sentinel => Records(queue') = Records(queue)
           /\ Head(queue) # Sentinel =>
                 /\ Records(queue) # <<>>
                 /\ Head(Records(queue)) = Head(queue)
                 /\ Tail(Records(queue)) = Records(queue')
  <1>1. CASE Head(queue) = Sentinel
    <2>1. queue' \in Seq(Items) /\ Sentinel \notin ToSet(queue')
      BY <1>1, TailHasOne, Removed
    <2>2. RemoveFirst(queue', Sentinel) = queue'
      BY <2>1, RemoveFirstAbsent
    <2>3. RemoveFirst(queue, Sentinel) = queue'
      BY <1>1, RemoveFirstIsHead
    <2> QED BY <1>1, <2>2, <2>3 DEF Records
  <1>2. CASE Head(queue) # Sentinel
    BY <1>2, RemoveFirstInTail DEF Records
  <1> QED BY <1>1, <1>2

LEMMA RecordsPut ==
    ASSUME queue \in Seq(Items), NEW x \in Items, x # Sentinel
    PROVE  Records(Append(queue, x)) = Append(Records(queue), x)
  BY RemoveFirstAppended DEF Records

LEMMA SentinelPut ==
    ASSUME queue \in Seq(Items), OneSentinel, opc = "signal"
    PROVE  Records(Append(queue, Sentinel)) = Records(queue)
  <1>1. Sentinel \notin ToSet(queue) /\ Sentinel \in Items
    BY DEF OneSentinel, Items
  <1> QED BY <1>1, RemoveFirstOfAppended, RemoveFirstAbsent DEF Records

\* A flush, and a record collected, leave what waits as it was.
LEMMA FlushKeepsPending ==
    ASSUME TypeInv, WriterHolds, wpc # "flush", NEW isFinal, Flush(batch, isFinal),
           Records(queue') = Records(queue), UNCHANGED InHand
    PROVE  Pending' = Pending
  <1>1. writing = <<>> /\ writing' = batch /\ batch' = <<>>
    BY DEF WriterHolds, Flush
  <1>2. writing \o batch = writing' \o batch'
    BY <1>1, PartsTyped, ConcatEmptySeq
  <1> QED BY <1>2 DEF Pending

LEMMA CollectKeepsPending ==
    ASSUME TypeInv, OneSentinel, GetRecord, writing = <<>>,
           writing' \o batch' = Append(batch, Head(queue))
    PROVE  Pending' = Pending
  <1>1. /\ batch \in Seq(Items) /\ writing = <<>> /\ queue \in Seq(Items)
        /\ Records(queue) \in Seq(Items)
    BY PartsTyped
  <1>2. /\ queue # <<>> /\ queue' = Tail(queue) /\ opc' = opc /\ Head(queue) # Sentinel
        /\ InHand' = InHand
    BY DEF GetRecord, Get, ownerVars, submitterVars, InHand
  <1>3. /\ Records(queue) # <<>> /\ Head(Records(queue)) = Head(queue)
        /\ Tail(Records(queue)) = Records(queue')
    BY <1>1, <1>2, RecordsTaken
  <1>4. ASSUME NEW r \in Seq(Items), r # <<>>
        PROVE  Append(batch, Head(r)) \o Tail(r) = batch \o r
    <2>1. Head(r) \in Items /\ Tail(r) \in Seq(Items)
      BY <1>4, HeadTailProperties
    <2>2. Append(batch, Head(r)) = batch \o <<Head(r)>>
      BY <1>1, <2>1, AppendIsConcat
    <2>3. <<Head(r)>> \in Seq(Items) /\ r = <<Head(r)>> \o Tail(r)
      BY <1>4, <2>1
    <2>4. (batch \o <<Head(r)>>) \o Tail(r) = batch \o (<<Head(r)>> \o Tail(r))
      BY SMTT(30), <1>1, <2>1, <2>3, ItemsAssociate
    <2> QED BY <2>2, <2>3, <2>4
  <1>5. Append(batch, Head(queue)) \o Records(queue') = batch \o Records(queue)
    BY <1>1, <1>3, <1>4
  <1>6. writing \o batch = batch
    BY <1>1, ConcatEmptySeq
  <1> QED BY <1>2, <1>5, <1>6 DEF Pending
-------------------------------------------------------------------------------
\* Each step as a step of the archive.
RefInv == TypeInv /\ WriterHolds /\ Stopping /\ OneSentinel

LEMMA StepStutters ==
    ASSUME UNCHANGED <<submitted, Pending, files, spc, stopRequested, healthError>>
    PROVE  [Contract!Next]_(Contract!vars)
  BY DEF Contract!vars, Pending

LEMMA OwnerSteps ==
    ASSUME RefInv, Owner
    PROVE  [Contract!Next]_(Contract!vars)
  <1> USE DEF RefInv, sharedVars, submitterVars, writerVars, archiveVars, dropVars
  <1>1. CASE Start
    BY <1>1, StepStutters DEF Start, Pending, InHand
  <1>2. CASE StartFails
    <2>1. SubSeq(Pending, 1, Len(Pending)) = Pending /\ Len(Pending) \in Nat
      <3>1. Pending \in Seq(Items)
        BY PartsTyped, ConcatProperties DEF Pending
      <3> QED BY <3>1, SubSeqFull, LenProperties
    <2>2. Contract!Fail
      BY <1>2, <2>1 DEF StartFails, Contract!Fail, Pending, InHand
    <2> QED BY <2>2 DEF Contract!Next
  <1>3. CASE StopBegin
    <2>1. Contract!Close
      BY <1>3 DEF StopBegin, Contract!Close, InHand
    <2> QED BY <2>1 DEF Contract!Next
  <1>4. CASE StopSignal
    <2>1. Records(queue') = Records(queue)
      BY <1>4, SentinelPut, PartsTyped DEF StopSignal
    <2> QED BY <1>4, <2>1, StepStutters DEF StopSignal, Pending, InHand
  <1>5. CASE StopReturns
    BY <1>5, StepStutters DEF StopReturns, Pending, InHand
  <1> QED BY <1>1, <1>2, <1>3, <1>4, <1>5 DEF Owner

LEMMA SubmitterSteps ==
    ASSUME RefInv, Submitter
    PROVE  [Contract!Next]_(Contract!vars)
  <1> USE DEF RefInv, sharedVars, ownerVars, writerVars, archiveVars, dropVars
  <1> DEFINE front == writing \o batch
  <1>0. /\ queue \in Seq(Items) /\ Records(queue) \in Seq(Items) /\ front \in Seq(Items)
        /\ front \o Records(queue) \in Seq(Items) /\ InHand \in Seq(Items)
        /\ submitted \in Nat
    BY PartsTyped, ConcatProperties
  <1>1. CASE SubmitPut
    <2>1. /\ InHand = <<>> /\ submitted' = submitted + 1 /\ front' = front
          /\ submitted + 1 \in Items /\ submitted + 1 # Sentinel
      BY <1>1, ParquetExporterAssumption
      DEF SubmitPut, InHand, TypeInv, DataTypes, SubmitterTypes, Items, Numbers, Sentinel
    <2>2. Pending = front \o Records(queue)
      BY <1>0, <2>1, ConcatEmptySeq DEF Pending
    <2>3. Append(Pending, submitted + 1) = front \o Records(queue) \o <<submitted + 1>>
      BY <1>0, <2>1, <2>2, AppendIsConcat
    <2>4. CASE ~QueueFull
      <3>1. Records(queue') = Append(Records(queue), submitted + 1) /\ InHand' = <<>>
        BY <1>0, <1>1, <2>1, <2>4, RecordsPut DEF SubmitPut, InHand
      <3>2. Records(queue') = Records(queue) \o <<submitted + 1>>
        BY <1>0, <2>1, <3>1, AppendIsConcat
      <3>3. front \o (Records(queue) \o <<submitted + 1>>)
               = front \o Records(queue) \o <<submitted + 1>>
        BY SMTT(30), <1>0, <2>1, ConcatAssociative
      <3>4. Pending' = Append(Pending, submitted + 1)
        <4>1. front \o Records(queue') \o <<>> = front \o Records(queue')
          <5>1. front \o Records(queue') \in Seq(Items)
            BY <1>0, <2>1, <3>1, Appended, ConcatProperties
          <5> QED BY <5>1, ConcatEmptySeq
        <4> QED BY <2>1, <2>3, <3>1, <3>2, <3>3, <4>1 DEF Pending
      <3>5. Contract!Accept
        BY <1>1, <2>1, <2>4, <3>4 DEF SubmitPut, Contract!Accept, Pending
      <3> QED BY <3>5 DEF Contract!Next
    <2>5. CASE QueueFull
      <3>1. Pending' = Append(Pending, submitted + 1)
        BY <1>1, <2>1, <2>3, <2>5 DEF SubmitPut, Pending, InHand
      <3>2. Contract!NoPlace
        <4>1. /\ Len(Pending) = Len(front) + Len(Records(queue)) /\ Len(front) \in Nat
              /\ Len(queue) \in Nat /\ Len(Records(queue)) \in Nat
          BY <1>0, <2>2, ConcatProperties, LenProperties
        <4>2. CASE Sentinel \in ToSet(queue)
          BY <2>5, <4>2 DEF QueueFull, OneSentinel, Stopping, Contract!NoPlace
        <4>3. CASE Sentinel \notin ToSet(queue)
          <5>1. Len(Records(queue)) = Len(queue)
            BY <1>0, <4>3, RemoveFirstAbsent DEF Records
          <5>2. Len(Pending) >= QueueCapacity /\ QueueCapacity > 0
            BY <2>5, <4>1, <5>1, ParquetExporterAssumption DEF QueueFull
          <5> QED BY <5>2 DEF Contract!NoPlace, Pending
        <4> QED BY <4>2, <4>3
      <3>3. Contract!Accept
        <4>1. spc' # "idle" /\ spc = "idle" /\ UNCHANGED <<files, stopRequested, healthError>>
          BY <1>1, <2>5 DEF SubmitPut
        <4> QED BY <2>1, <3>1, <3>2, <4>1 DEF Contract!Accept, Pending
      <3> QED BY <3>3 DEF Contract!Next
    <2> QED BY <2>4, <2>5
  <1>2. CASE SubmitDrop
    <2>1. /\ spc = "drop" /\ spc' = "again" /\ InHand' = InHand /\ front' = front
          /\ UNCHANGED <<submitted, files, stopRequested, healthError, opc>>
      BY <1>2 DEF SubmitDrop, InHand
    <2>2. CASE queue = <<>> \/ Head(queue) = Sentinel
      <3>1. Records(queue') = Records(queue)
        BY <1>0, <1>2, <2>1, <2>2, RecordsTaken DEF SubmitDrop
      <3> QED BY <2>1, <3>1 DEF Contract!vars
    <2>3. CASE queue # <<>> /\ Head(queue) # Sentinel
      <3>1. /\ Records(queue) # <<>> /\ Tail(Records(queue)) = Records(queue')
        BY <1>0, <1>2, <2>1, <2>3, RecordsTaken DEF SubmitDrop
      <3>2. RemoveAt(Pending, Len(front) + 1) = Pending'
        <4> HIDE DEF front
        <4>1. \A r, h \in Seq(Items) : r # <<>> =>
                 RemoveAt(front \o r \o h, Len(front) + 1) = front \o Tail(r) \o h
          BY ZenonT(30), <1>0, RemovedInside
        <4>2. RemoveAt(front \o Records(queue) \o InHand, Len(front) + 1)
                 = front \o Records(queue') \o InHand
          BY <1>0, <3>1, <4>1
        <4>3. Pending = front \o Records(queue) \o InHand
          BY DEF Pending, front
        <4>4. Pending' = front \o Records(queue') \o InHand
          BY <2>1 DEF Pending, front
        <4> QED BY <4>2, <4>3, <4>4
      <3>3. Len(front) + 1 \in DOMAIN Pending
        <4>1. /\ Len(Pending) = Len(front) + Len(Records(queue)) + Len(InHand)
              /\ Len(front) \in Nat /\ Len(Records(queue)) \in Nat \ {0}
              /\ Len(InHand) \in Nat /\ DOMAIN Pending = 1 .. Len(Pending)
          BY <1>0, <3>1, ConcatProperties, LenProperties, EmptySeq DEF Pending
        <4> QED BY <4>1
      <3>4. Contract!Overflow
        BY <2>1, <3>2, <3>3 DEF Contract!Overflow, Contract!RemoveAt, RemoveAt, Pending
      <3> QED BY <3>4 DEF Contract!Next
    <2> QED BY <2>2, <2>3
  <1>3. CASE SubmitAgain
    <2>1. /\ InHand = <<submitted>> /\ InHand' = <<>> /\ front' = front
          /\ submitted \in Items /\ submitted # Sentinel /\ spc # "idle" /\ spc' = "idle"
          /\ UNCHANGED <<submitted, files, stopRequested, healthError>>
      BY <1>3, ParquetExporterAssumption
      DEF SubmitAgain, InHand, TypeInv, DataTypes, SubmitterTypes, InHandIsSubmitted, Items,
          Numbers, Sentinel
    <2>2. Pending = front \o Records(queue) \o <<submitted>>
      BY <2>1 DEF Pending
    <2>3. CASE ~QueueFull
      <3>1. Records(queue') = Append(Records(queue), submitted)
        BY <1>0, <1>3, <2>1, <2>3, RecordsPut DEF SubmitAgain
      <3>2. Records(queue') = Records(queue) \o <<submitted>>
        BY <1>0, <2>1, <3>1, AppendIsConcat
      <3>3. front \o (Records(queue) \o <<submitted>>) = front \o Records(queue) \o <<submitted>>
        BY SMTT(30), <1>0, <2>1, ConcatAssociative
      <3>4. Pending' = Pending
        <4>1. front \o Records(queue') \o <<>> = front \o Records(queue')
          <5>1. front \o Records(queue') \in Seq(Items)
            BY <1>0, <2>1, <3>1, Appended, ConcatProperties
          <5> QED BY <5>1, ConcatEmptySeq
        <4> QED BY <2>1, <2>2, <3>2, <3>3, <4>1 DEF Pending
      <3>5. Contract!Settle
        BY <2>1, <3>4 DEF Contract!Settle, Pending
      <3> QED BY <3>5 DEF Contract!Next
    <2>4. CASE QueueFull
      <3>1. Pending' = front \o Records(queue)
        <4>1. queue' = queue
          BY <1>3, <2>4 DEF SubmitAgain
        <4> QED BY <1>0, <2>1, <4>1, ConcatEmptySeq DEF Pending
      <3>2. RemoveAt(Pending, Len(front \o Records(queue)) + 1) = Pending'
        BY <1>0, <2>1, <2>2, <3>1, RemovedLast
      <3>3. Len(front \o Records(queue)) + 1 \in DOMAIN Pending
        <4>1. /\ <<submitted>> \in Seq(Items) /\ Len(<<submitted>>) = 1
              /\ Len(front \o Records(queue)) \in Nat
          BY <1>0, <2>1, LenProperties
        <4>2. /\ Len(Pending) = Len(front \o Records(queue)) + 1
              /\ DOMAIN Pending = 1 .. Len(Pending)
          BY <1>0, <2>2, <4>1, ConcatProperties, LenProperties
        <4> QED BY <4>1, <4>2
      <3>4. Contract!Overflow
        BY <2>1, <3>2, <3>3 DEF Contract!Overflow, Contract!RemoveAt, RemoveAt, Pending
      <3> QED BY <3>4 DEF Contract!Next
    <2> QED BY <2>3, <2>4
  <1> QED BY <1>1, <1>2, <1>3 DEF Submitter

LEMMA WriterSteps ==
    ASSUME RefInv, Writer
    PROVE  [Contract!Next]_(Contract!vars)
  <1> USE DEF RefInv, sharedVars, submitterVars, ownerVars, archiveVars, dropVars
  <1>0. /\ queue \in Seq(Items) /\ batch \in Seq(Items) /\ writing \in Seq(Items)
        /\ Records(queue) \in Seq(Items) /\ InHand \in Seq(Items)
    BY PartsTyped
  <1>1. CASE LoopGoesOn
    BY <1>1, StepStutters DEF LoopGoesOn, Pending, InHand
  <1>2. CASE GetRecord
    <2>1. /\ UNCHANGED <<submitted, files, spc, stopRequested, healthError>>
          /\ InHand' = InHand /\ opc' = opc /\ wpc = "get" /\ writing = <<>>
          /\ queue # <<>> /\ queue' = Tail(queue) /\ Head(queue) # Sentinel
      BY <1>2 DEF GetRecord, Get, InHand, WriterHolds
    <2>2. CASE healthError
      <3>1. /\ batch = <<>> /\ batch' = <<>> /\ writing' = <<>>
        BY <1>2, <2>1, <2>2 DEF GetRecord, Continue, WriterHolds
      <3>2. /\ Records(queue) # <<>> /\ Tail(Records(queue)) = Records(queue')
            /\ Records(queue') \in Seq(Items)
        BY <1>0, <2>1, RecordsTaken, Removed
      <3>3. ASSUME NEW r \in Seq(Items)
            PROVE  <<>> \o <<>> \o r = r
        <4>1. <<>> \o <<>> = <<>>
          OBVIOUS
        <4> QED BY <4>1, ConcatEmptySeq
      <3>4. Pending = Records(queue) \o InHand /\ Pending' = Records(queue') \o InHand
        BY <1>0, <2>1, <3>1, <3>2, <3>3 DEF Pending
      <3>5. Pending # <<>> /\ Tail(Pending) = Pending'
        <4>1. ASSUME NEW q \in Seq(Items), NEW h \in Seq(Items), q # <<>>
              PROVE  q \o h # <<>> /\ Tail(q \o h) = Tail(q) \o h
          BY <4>1
        <4>2. /\ Records(queue) \o InHand # <<>>
              /\ Tail(Records(queue) \o InHand) = Tail(Records(queue)) \o InHand
          BY <1>0, <3>2, <4>1
        <4> QED BY <3>2, <3>4, <4>2
      <3>6. Contract!Skip
        BY <2>1, <2>2, <3>5 DEF Contract!Skip, Pending
      <3> QED BY <3>6 DEF Contract!Next
    <2>3. CASE ~healthError
      <3>1. Append(batch, Head(queue)) \in Seq(Items)
        BY <1>0, <2>1, Removed, Appended
      <3>2. writing' \o batch' = Append(batch, Head(queue))
        <4>1. CASE Flush(Append(batch, Head(queue)), FALSE)
          BY <3>1, <4>1, ConcatEmptySeq DEF Flush
        <4>2. CASE batch' = Append(batch, Head(queue)) /\ Continue
          <5>1. writing' = <<>>
            BY <2>1, <4>2 DEF Continue
          <5> QED BY <3>1, <4>2, <5>1, ConcatEmptySeq
        <4> QED BY <1>2, <2>3, <4>1, <4>2 DEF GetRecord
      <3>3. Pending' = Pending
        BY <1>2, <2>1, <3>2, CollectKeepsPending
      <3> QED BY <2>1, <3>3, StepStutters
    <2> QED BY <2>2, <2>3
  <1>3. CASE GetSentinel
    <2>1. /\ UNCHANGED <<submitted, files, spc, stopRequested, healthError>>
          /\ InHand' = InHand /\ wpc # "flush"
          /\ Records(queue') = Records(queue)
      BY <1>0, <1>3, RecordsTaken DEF GetSentinel, Get, InHand
    <2>2. Pending' = Pending
      <3>1. CASE Flush(batch, FALSE)
        BY <2>1, <3>1, FlushKeepsPending
      <3>2. CASE Continue /\ UNCHANGED batch
        BY <2>1, <3>2 DEF Continue, Pending
      <3> QED BY <1>3, <3>1, <3>2 DEF GetSentinel
    <2> QED BY <2>1, <2>2, StepStutters
  <1>4. CASE GetTimesOut
    <2>1. /\ UNCHANGED <<submitted, files, spc, stopRequested, healthError, queue>>
          /\ InHand' = InHand /\ wpc # "flush"
      BY <1>4 DEF GetTimesOut, InHand
    <2>2. Pending' = Pending
      <3>1. CASE Flush(batch, FALSE)
        BY <2>1, <3>1, FlushKeepsPending
      <3>2. CASE Continue /\ UNCHANGED batch
        BY <2>1, <3>2 DEF Continue, Pending
      <3> QED BY <1>4, <3>1, <3>2 DEF GetTimesOut
    <2> QED BY <2>1, <2>2, StepStutters
  <1>5. CASE LoopEnds
    <2>1. /\ UNCHANGED <<submitted, files, spc, stopRequested, healthError, queue>>
          /\ InHand' = InHand /\ wpc # "flush"
      BY <1>5 DEF LoopEnds, InHand
    <2>2. Pending' = Pending
      <3>1. CASE Flush(batch, TRUE)
        BY <2>1, <3>1, FlushKeepsPending
      <3>2. CASE UNCHANGED <<batch, writing>>
        BY <2>1, <3>2 DEF Pending
      <3> QED BY <1>5, <3>1, <3>2 DEF LoopEnds
    <2> QED BY <2>1, <2>2, StepStutters
  <1>6. CASE FlushOk \/ FlushFails
    <2>1. /\ UNCHANGED <<submitted, spc, stopRequested>> /\ InHand' = InHand
          /\ queue' = queue /\ batch = <<>> /\ batch' = <<>> /\ writing' = <<>>
          /\ writing # <<>> /\ ~healthError
      BY <1>6 DEF FlushOk, FlushFails, AfterFlush, InHand, WriterHolds
    <2> DEFINE rest == Records(queue) \o InHand
    <2>2. rest \in Seq(Items) /\ Len(rest) \in Nat
      BY <1>0, ConcatProperties, LenProperties
    <2>3. Pending = writing \o rest
      <3>1. writing \o <<>> = writing
        BY <1>0, ConcatEmptySeq
      <3>2. (writing \o Records(queue)) \o InHand = writing \o (Records(queue) \o InHand)
        BY ZenonT(30), <1>0, ItemsAssociate
      <3> QED BY <2>1, <3>1, <3>2 DEF Pending
    <2>4. Pending' = rest
      <3>1. <<>> \o <<>> = <<>> /\ <<>> \o Records(queue) = Records(queue)
        BY <1>0, ConcatEmptySeq
      <3> QED BY <2>1, <3>1 DEF Pending
    <2>5. /\ SubSeq(Pending, 1, Len(writing)) = writing
          /\ SubSeq(Pending, Len(writing) + 1, Len(Pending)) = Pending'
      <3> HIDE DEF rest
      <3> QED BY <1>0, <2>2, <2>3, <2>4, SplitConcat
    <2>6. Len(writing) \in 1 .. Len(Pending)
      <3>1. Len(writing) \in Nat \ {0} /\ Len(Pending) = Len(writing) + Len(rest)
        <4> HIDE DEF rest
        <4> QED BY <1>0, <2>1, <2>2, <2>3, ConcatProperties, EmptySeq
      <3> QED BY <2>2, <3>1
    <2>7. CASE FlushOk
      <3>1. files' = Append(files, writing) /\ healthError' = healthError
        BY <2>7 DEF FlushOk
      <3>2. FlattenSeq(files') = FlattenSeq(files) \o writing
        BY <1>0, <3>1, PartsTyped, FlattenAppended
      <3>3. Contract!Write
        <4>1. FlattenSeq(files') = FlattenSeq(files) \o SubSeq(Pending, 1, Len(writing))
          BY <2>5, <3>2
        <4> QED BY <2>1, <2>5, <2>6, <3>1, <4>1 DEF Contract!Write, Pending
      <3> QED BY <3>3 DEF Contract!Next
    <2>8. CASE FlushFails
      <3>1. files' = files /\ healthError' = TRUE
        BY <2>8 DEF FlushFails
      <3>2. Contract!Fail
        <4>1. Len(writing) \in 0 .. Len(Pending)
          BY <2>6
        <4> QED BY <2>1, <2>5, <3>1, <4>1 DEF Contract!Fail, Pending
      <3> QED BY <3>2 DEF Contract!Next
    <2> QED BY <1>6, <2>7, <2>8
  <1> QED BY <1>1, <1>2, <1>3, <1>4, <1>5, <1>6 DEF Writer

LEMMA ArchiveStep ==
    ASSUME RefInv, [Next]_vars
    PROVE  [Contract!Next]_(Contract!vars)
  <1> USE DEF sharedVars, submitterVars, ownerVars, writerVars, archiveVars, dropVars
  <1>1. CASE Tick
    BY <1>1, StepStutters DEF Tick, Pending, InHand
  <1>2. CASE UNCHANGED vars
    BY <1>2, StepStutters DEF vars, Pending, InHand
  <1> QED BY <1>1, <1>2, OwnerSteps, SubmitterSteps, WriterSteps DEF Next

LEMMA ArchiveInit == Init => Contract!Init
  <1> SUFFICES ASSUME Init PROVE Contract!Init
    OBVIOUS
  <1>1. FlattenSeq(<<>>) = <<>>
    BY EmptySeq DEF FlattenSeq
  <1>2. RemoveFirst(<<>>, Sentinel) = <<>>
    BY EmptySeq, RemoveFirstAbsent, ToSetOfEmpty
  <1>3. <<>> \o <<>> = <<>>
    OBVIOUS
  <1> QED BY <1>1, <1>2, <1>3 DEF Init, Contract!Init, Records, InHand

LEMMA SentinelAlways == Spec => []OneSentinel
  <1>1. Init => OneSentinel
    BY ToSetOfEmpty, EmptySeq DEF Init, OneSentinel
  <1>2. ExporterInv /\ OneSentinel /\ [Next]_vars => OneSentinel'
    BY NextSentinel DEF ExporterInv
  <1> QED BY <1>1, <1>2, ExporterAlways, PTL DEF Spec

\* The exporter implements the archive: whatever overflows, fails or is stopped
\* in between, what the files hold is what the archive was given, in order, and
\* a record is lost only where the archive may lose one (parquet_export.py).
THEOREM ExporterIsArchive == Spec => ImplementsArchive
  <1>1. ExporterInv /\ OneSentinel => RefInv
    BY DEF ExporterInv, ControlInv, RefInv
  <1>2. RefInv /\ [Next]_vars => [Contract!Next]_(Contract!vars)
    BY ArchiveStep
  <1> QED BY <1>1, <1>2, ArchiveInit, SentinelAlways, ExporterAlways, PTL
          DEF Spec, ImplementsArchive, Contract!Spec
===============================================================================
