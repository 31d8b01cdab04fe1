---------------------------- MODULE ParquetExporter ---------------------------
(***************************************************************************)
(* ConsumerParquetExporter (src/kc_sensor_mock/parquet_export.py): the     *)
(* consumer's receiving thread submits records to a bounded queue, the     *)
(* writer thread collects them in batches and writes a file per batch, and *)
(* the owner's thread calls start() and stop() once each, as the consumer  *)
(* does with the exporter it makes.                                        *)
(*                                                                         *)
(* Records are numbered in the order of submission.  Time is counted in    *)
(* the 0.1 s that the writer's get() waits for an item.                    *)
(***************************************************************************)
EXTENDS Integers, Sequences, SequencesExt

CONSTANTS
    QueueCapacity,      \* parquet_queue_capacity; not positive: unbounded
    BatchMode,          \* parquet_batch_mode
    MaxPerFile,         \* parquet_max_records_per_file
    FlushInterval,      \* parquet_flush_interval_seconds, in ticks
    MaxRecords          \* bound: records submitted

ASSUME ParquetExporterAssumption ==
    /\ QueueCapacity \in Int
    /\ BatchMode \in {"volume", "time"}
    /\ MaxPerFile \in Int /\ (BatchMode = "volume" => MaxPerFile > 0)
    /\ FlushInterval \in Nat /\ (BatchMode = "time" => FlushInterval > 0)
    /\ MaxRecords \in Nat

VARIABLES
    \* shared by the threads
    queue,              \* _queue: records and flush sentinels
    stopRequested,      \* _stop_requested
    stopDone,           \* _stop_done
    healthError,        \* _health_error is not None
    \* the receiving thread
    submitted,          \* how many records it has submitted
    spc,                \* "idle", or the part of submit() it is in
    \* the writer thread
    wpc,                \* "off", "check", "get", "flush" (writing), "done"
    batch,              \* _current_file_records
    writing,            \* records, in _flush_batch
    final,              \* has the loop ended?
    sinceFlush,         \* now - last_flush_time, up to FlushInterval
    timedOut,           \* has get() waited its whole timeout?
    \* the owner's thread
    opc,                \* "new", "running", "failed", a part of stop(), "ended"
    outcome,            \* how stop() ended
    \* history
    files,              \* the files written, in order
    overflowed,         \* records dropped as the oldest of a full queue
    discarded,          \* records refused because the queue was still full
    lost,               \* records lost to a failed write, or skipped after one
    stopMark,           \* records queued when stop() was called
    expired,            \* did stop() give up waiting for the writer?
    batchAge            \* ticks the oldest record of the batch has waited

sharedVars    == <<stopRequested, stopDone, healthError>>
submitterVars == <<submitted, spc>>
writerVars    == <<wpc, batch, writing, final, sinceFlush, timedOut>>
ownerVars     == <<opc, outcome, stopMark, expired>>
archiveVars   == <<files, lost, batchAge>>
dropVars      == <<overflowed, discarded>>
vars == <<queue, sharedVars, submitterVars, writerVars, ownerVars, archiveVars,
          dropVars>>

Sentinel == 0           \* _FlushSentinel; records are 1, 2, ...

\* Mutation: the queue takes one item too many.
QueueFullLate == QueueCapacity > 0 /\ Len(queue) > QueueCapacity

\* queue.Queue(maxsize): a maxsize that is not positive is no bound.
QueueFull == QueueCapacity > 0 /\ Len(queue) >= QueueCapacity

Init ==
    /\ queue = <<>>
    /\ stopRequested = FALSE
    /\ stopDone = FALSE
    /\ healthError = FALSE
    /\ submitted = 0
    /\ spc = "idle"
    /\ wpc = "off"
    /\ batch = <<>>
    /\ writing = <<>>
    /\ final = FALSE
    /\ sinceFlush = 0
    /\ timedOut = FALSE
    /\ opc = "new"
    /\ outcome = "none"
    /\ files = <<>>
    /\ overflowed = {}
    /\ discarded = {}
    /\ lost = {}
    /\ stopMark = 0
    /\ expired = FALSE
    /\ batchAge = 0
-------------------------------------------------------------------------------
(***************************************************************************)
(* The owner's thread.                                                     *)
(***************************************************************************)

\* start(): the output directory is there and the writer thread begins.
Start ==
    /\ opc = "new"
    /\ opc' = "running"
    /\ wpc' = "check"
    /\ UNCHANGED <<queue, sharedVars, submitterVars, batch, writing, final,
                   sinceFlush, timedOut, outcome, stopMark, expired,
                   archiveVars, dropVars>>

\* start() that cannot make the directory stores the error and raises it.
StartFails ==
    /\ opc = "new"
    /\ opc' = "failed"
    /\ healthError' = TRUE
    /\ UNCHANGED <<queue, stopRequested, stopDone, submitterVars, writerVars,
                   outcome, stopMark, expired, archiveVars, dropVars>>

StopBegin ==
    /\ opc \in {"running", "failed"}
    /\ stopRequested' = TRUE
    /\ stopMark' = IF spc = "idle" THEN submitted ELSE submitted - 1
    /\ opc' = "signal"
    /\ UNCHANGED <<queue, stopDone, healthError, submitterVars, writerVars,
                   outcome, expired, archiveVars, dropVars>>

\* The sentinel that wakes the writer is left out if the queue is full.
StopSignal ==
    /\ opc = "signal"
    /\ queue' = IF QueueFull THEN queue ELSE Append(queue, Sentinel)
    /\ opc' = "wait"
    /\ UNCHANGED <<sharedVars, submitterVars, writerVars, outcome, stopMark,
                   expired, archiveVars, dropVars>>

\* stop() has waited for _stop_done (5 s) and the thread (1 s), in vain or not,
\* and raises the health error if there is one.
StopReturns ==
    /\ opc = "wait"
    /\ expired' = ~stopDone
    /\ outcome' = IF healthError THEN "raised" ELSE "returned"
    /\ opc' = "ended"
    /\ UNCHANGED <<queue, sharedVars, submitterVars, writerVars, stopMark,
                   archiveVars, dropVars>>
-------------------------------------------------------------------------------
(***************************************************************************)
(* The receiving thread: submit().  Each access to the queue is a step.    *)
(***************************************************************************)

\* put_nowait(record), which raises Full on a full queue.
SubmitPut ==
    /\ spc = "idle"
    /\ wpc # "off"
    /\ submitted < MaxRecords
    /\ submitted' = submitted + 1
    /\ \/ /\ ~QueueFull
          /\ queue' = Append(queue, submitted + 1)
          /\ UNCHANGED spc
       \/ /\ QueueFull
          /\ spc' = "drop"
          /\ UNCHANGED queue
    /\ UNCHANGED <<sharedVars, writerVars, ownerVars, archiveVars, dropVars>>

\* Mutation: the record takes the place at once, and is put again after it.
SubmitDropAndPut ==
    /\ spc = "drop"
    /\ queue # <<>>
    /\ queue' = Append(Tail(queue), submitted)
    /\ overflowed' = overflowed \cup ({Head(queue)} \ {Sentinel})
    /\ spc' = "again"
    /\ UNCHANGED <<submitted, sharedVars, writerVars, ownerVars, archiveVars,
                   discarded>>

\* get_nowait(): the oldest item, if the writer has not emptied the queue by
\* now; it may be the sentinel.
SubmitDrop ==
    /\ spc = "drop"
    /\ queue' = IF queue = <<>> THEN queue ELSE Tail(queue)
    /\ overflowed' =
          IF queue = <<>> THEN overflowed
                          ELSE overflowed \cup ({Head(queue)} \ {Sentinel})
    /\ spc' = "again"
    /\ UNCHANGED <<submitted, sharedVars, writerVars, ownerVars, archiveVars,
                   discarded>>

\* put_nowait(record) again; a record that meets a full queue is discarded.
SubmitAgain ==
    /\ spc = "again"
    /\ \/ /\ ~QueueFull
          /\ queue' = Append(queue, submitted)
          /\ UNCHANGED discarded
       \/ /\ QueueFull
          /\ discarded' = discarded \cup {submitted}
          /\ UNCHANGED queue
    /\ spc' = "idle"
    /\ UNCHANGED <<submitted, sharedVars, writerVars, ownerVars, archiveVars,
                   overflowed>>
-------------------------------------------------------------------------------
(***************************************************************************)
(* The writer thread: _write_loop and _flush_batch.                        *)
(***************************************************************************)

\* Time passes.  A get() that waits on an empty queue waits a tick at most.
Tick ==
    /\ wpc \in {"get", "flush"}
    /\ ~timedOut
    /\ timedOut' = (wpc = "get" /\ queue = <<>>)
    /\ sinceFlush' = IF sinceFlush < FlushInterval THEN sinceFlush + 1 ELSE sinceFlush
    /\ batchAge' =
          IF timedOut' /\ batch # <<>> /\ batchAge <= 2 * FlushInterval
          THEN batchAge + 1 ELSE batchAge
    /\ UNCHANGED <<queue, sharedVars, submitterVars, wpc, batch, writing, final,
                   ownerVars, files, lost, dropVars>>

\* Mutation: the attribute is emptied before its records are taken.
FlushEmptied(records, isFinal) ==
    /\ writing' = <<>>
    /\ batch' = <<>>
    /\ batchAge' = 0
    /\ final' = isFinal
    /\ wpc' = "flush"

\* _flush_batch takes the records of the batch and writes them next.
Flush(records, isFinal) ==
    /\ writing' = records
    /\ batch' = <<>>
    /\ batchAge' = 0
    /\ final' = isFinal
    /\ wpc' = "flush"

\* The loop goes on without a write.
Continue ==
    /\ wpc' = "check"
    /\ UNCHANGED <<writing, final, batchAge>>

\* The volume check.
BatchFull(records) == BatchMode = "volume" /\ Len(records) >= MaxPerFile

\* Mutation: the time check is made in time mode only.
FlushDueInTimeMode ==
    BatchMode = "time" /\ batch # <<>> /\ sinceFlush >= FlushInterval

\* The time check, in both modes.
FlushDue == batch # <<>> /\ sinceFlush >= FlushInterval

\* get() returns the oldest item.
Get ==
    /\ wpc = "get"
    /\ queue # <<>>
    /\ queue' = Tail(queue)
    /\ timedOut' = FALSE

\* A record is skipped after a failure, else collected; a batch that is full
\* is written.
GetRecord ==
    /\ Get
    /\ Head(queue) # Sentinel
    /\ LET collected == Append(batch, Head(queue))
       IN  \/ /\ healthError
              /\ lost' = lost \cup {Head(queue)}
              /\ Continue
              /\ UNCHANGED batch
           \/ /\ ~healthError /\ BatchFull(collected)
              /\ Flush(collected, FALSE)
              /\ UNCHANGED lost
           \/ /\ ~healthError /\ ~BatchFull(collected)
              /\ batch' = collected
              /\ Continue
              /\ UNCHANGED lost
    /\ UNCHANGED <<sharedVars, submitterVars, sinceFlush, ownerVars, files,
                   dropVars>>

\* The sentinel of stop() writes what the batch holds.
GetSentinel ==
    /\ Get
    /\ Head(queue) = Sentinel
    /\ \/ batch # <<>> /\ Flush(batch, FALSE)
       \/ batch = <<>> /\ Continue /\ UNCHANGED batch
    /\ sinceFlush' = 0
    /\ UNCHANGED <<sharedVars, submitterVars, ownerVars, files, lost, dropVars>>

\* get() raises Empty: the only place where the flush interval is looked at.
GetTimesOut ==
    /\ wpc = "get"
    /\ queue = <<>>
    /\ timedOut
    /\ timedOut' = FALSE
    /\ \/ FlushDue /\ Flush(batch, FALSE)
       \/ ~FlushDue /\ Continue /\ UNCHANGED batch
    /\ UNCHANGED <<queue, sharedVars, submitterVars, sinceFlush, ownerVars,
                   files, lost, dropVars>>

\* Mutation: the loop ends as soon as a stop is requested.
DrainedAtOnce == stopRequested

\* Mutation: the loop waits to see the sentinel, which may have been left out.
DrainedBySentinel == stopRequested /\ queue # <<>> /\ Head(queue) = Sentinel

\* The check at the top of the loop.
Drained == stopRequested /\ queue = <<>>

\* The loop ends, and what the batch holds is written last.
LoopEnds ==
    /\ wpc = "check"
    /\ Drained
    /\ \/ batch # <<>> /\ Flush(batch, TRUE) /\ UNCHANGED stopDone
       \/ /\ batch = <<>>
          /\ wpc' = "done"
          /\ final' = TRUE
          /\ stopDone' = TRUE
          /\ UNCHANGED <<batch, writing, batchAge>>
    /\ UNCHANGED <<queue, stopRequested, healthError, submitterVars, sinceFlush,
                   timedOut, ownerVars, files, lost, dropVars>>

\* The loop goes round: get() begins to wait.
LoopGoesOn ==
    /\ wpc = "check"
    /\ ~Drained
    /\ wpc' = "get"
    /\ UNCHANGED <<queue, sharedVars, submitterVars, batch, writing, final,
                   sinceFlush, timedOut, ownerVars, archiveVars, dropVars>>

\* _flush_batch is over and the writer goes on where it came from.
AfterFlush ==
    /\ writing' = <<>>
    /\ wpc' = IF final THEN "done" ELSE "check"
    /\ stopDone' = final
    /\ sinceFlush' = 0

FlushOk ==
    /\ wpc = "flush"
    /\ files' = Append(files, writing)
    /\ AfterFlush
    /\ UNCHANGED <<queue, stopRequested, healthError, submitterVars, batch, final,
                   timedOut, ownerVars, lost, batchAge, dropVars>>

\* No path could be reserved, or the write failed: the records are gone.
FlushFails ==
    /\ wpc = "flush"
    /\ healthError' = TRUE
    /\ lost' = lost \cup ToSet(writing)
    /\ AfterFlush
    /\ UNCHANGED <<queue, stopRequested, submitterVars, batch, final, timedOut,
                   ownerVars, files, batchAge, dropVars>>
-------------------------------------------------------------------------------
Owner == Start \/ StartFails \/ StopBegin \/ StopSignal \/ StopReturns

Submitter == SubmitPut \/ SubmitDrop \/ SubmitAgain

Writer ==
    \/ LoopGoesOn \/ GetRecord \/ GetSentinel \/ GetTimesOut \/ LoopEnds
    \/ FlushOk \/ FlushFails

Next == Owner \/ Submitter \/ Tick \/ Writer

Spec == Init /\ [][Next]_vars

\* The writer thread is scheduled, time passes, and the calls submit() and
\* stop() end: none of their steps blocks, and the waits of stop() expire.
Fairness ==
    /\ WF_vars(Tick)
    /\ WF_vars(Writer)
    /\ WF_vars(SubmitDrop)
    /\ WF_vars(SubmitAgain)
    /\ WF_vars(StopSignal)
    /\ WF_vars(StopReturns)

FairSpec == Spec /\ Fairness
-------------------------------------------------------------------------------
(***************************************************************************)
(* Properties.                                                             *)
(***************************************************************************)

Numbers == 1 .. MaxRecords

QueueTypes ==
    /\ queue \in Seq(Numbers \cup {Sentinel})
    /\ QueueCapacity > 0 => Len(queue) <= QueueCapacity

SubmitterTypes ==
    /\ submitted \in 0 .. MaxRecords
    /\ spc \in {"idle", "drop", "again"}

WriterTypes ==
    /\ wpc \in {"off", "check", "get", "flush", "done"}
    /\ batch \in Seq(Numbers)
    /\ writing \in Seq(Numbers)
    /\ sinceFlush \in 0 .. FlushInterval

OwnerTypes ==
    /\ opc \in {"new", "running", "failed", "signal", "wait", "ended"}
    /\ outcome \in {"none", "returned", "raised"}

HistoryTypes ==
    /\ files \in Seq(Seq(Numbers))
    /\ overflowed \subseteq Numbers
    /\ discarded \subseteq Numbers
    /\ lost \subseteq Numbers
    /\ stopMark \in 0 .. MaxRecords
    /\ batchAge \in 0 .. 2 * FlushInterval + 1

FlagTypes ==
    /\ stopRequested \in BOOLEAN
    /\ stopDone \in BOOLEAN
    /\ healthError \in BOOLEAN
    /\ final \in BOOLEAN
    /\ timedOut \in BOOLEAN
    /\ expired \in BOOLEAN

\* Every variable has its type, and the queue its bound.
TypeOK ==
    /\ QueueTypes
    /\ SubmitterTypes
    /\ WriterTypes
    /\ OwnerTypes
    /\ HistoryTypes
    /\ FlagTypes

InHand == IF spc = "idle" THEN <<>> ELSE <<submitted>>

Archived == UNION {ToSet(files[i]) : i \in DOMAIN files}

\* A submitted record is on its way, in a file, or accounted for: dropped or
\* refused by the queue, or hit by a failure.  None vanishes.
NothingVanishes ==
    1 .. submitted =
        Archived \cup ToSet(writing) \cup ToSet(batch)
            \cup (ToSet(queue) \ {Sentinel}) \cup ToSet(InHand)
            \cup overflowed \cup discarded \cup lost

\* A stop() that returned without error, and did not give up waiting, means
\* that every record queued before it is in a file, except for those that a
\* full queue dropped.
StopFlushes ==
    outcome = "returned" /\ ~expired =>
        /\ ~healthError
        /\ 1 .. stopMark \subseteq Archived \cup overflowed

\* The queue without its sentinel: stop() puts one at most.
Records(q) == RemoveFirst(q, Sentinel)

\* The exporter behaves like the abstract archive: whatever overflows, fails or
\* is stopped in between, files are only added, in the order of submission
\* within and across files, no record comes back that was lost or written, and
\* none is lost while there is room for all.
Contract == INSTANCE Archive WITH
                Room <- QueueCapacity,
                accepted <- submitted,
                pending <- writing \o batch \o Records(queue) \o InHand,
                archived <- FlattenSeq(files),
                owed <- spc # "idle",
                closing <- stopRequested,
                failed <- healthError

ImplementsArchive == Contract!Spec

\* A batch does not wait for ever when records stop coming, even in volume mode,
\* where it may never fill and only the flush interval writes it.
BatchIsWritten == batch # <<>> ~> batch = <<>>

\* The writer ends after stop(), even if its sentinel found no place, or was
\* itself dropped as the oldest item of a full queue.
WriterEnds == stopRequested /\ wpc # "off" ~> stopDone
-------------------------------------------------------------------------------
(***************************************************************************)
(* What the documents say and the code does not do.                        *)
(***************************************************************************)

\* "`time`: flushes a file every `parquet_flush_interval_seconds`": no record
\* waits for twice that time while the writer waits for more.
WrittenEveryInterval == BatchMode = "time" => batchAge <= 2 * FlushInterval
===============================================================================
