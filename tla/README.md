# kc-sensor-mock in TLA+

This directory holds a formal model of the sensor stream mock: TLA+ modules of
its components, TLC configurations that check them on small instances, and
proofs, checked by the TLA+ proof system, of what matters most. Paths below are
relative to the repository; `producer.py` and the like are in
`src/kc_sensor_mock/`, the C files in `c/src/`.

    tlc -workers 2 -config ProducerSessions.cfg SensorProducer
    tlapm SensorProducer_proofs.tla

The proofs are in the modules whose names end in `_proofs`, and in `DataLemmas`.

## 1. The system

A producer (Python, or a small C program) sends fixed-size binary records over
TCP to a consumer, which decodes them and may archive them in parquet files.

    generator -> ring buffer -> sender ==TCP==> server -> export queue -> files
      producer thread     sender thread     server thread      writer thread
                          + capture file

### Components

**Ring buffer** (`ring_buffer.py`). State: a deque `_items` of at most
`ring_buffer_capacity` records and the counter `_dropped_total`. Operations:
`push` (drops and counts the oldest record when full) and `pop`, each under the
buffer's lock. Correct if the pending records are always the newest ones
without a hole, and every record is exactly once popped, pending or counted as
dropped.

**Record generator** (`generator.py`). State: `_next_sequence_number` and the
last timestamp. `next_record(dropped_total)` numbers a record, stamps it with
the drop counter, both modulo 2^32, and with the clock, and scales the position.
Hard: the clock may stand still or be set back. Correct if a consumer can work
with the two counters it finds in a record, wrapped or not, if timestamps
increase strictly, and if no record fails to be encoded.

**Sensor producer** (`producer.py`). Three threads: the owner calls `start()`
and `stop()`, the producer thread generates and pushes, the sender thread
connects, pops, appends to the capture file and sends. Shared: `_stop_event`,
`_capture_file`, `_capture_error`, the thread handles, the ring buffer. Hard:
`stop()` joins the sender for 2 s only, and the sender may be longer in
`create_connection` or `sendall`; then the capture file is closed under it, and
after the next `start()`, which clears the stop event, it goes on next to the
new sender. A failed send must cut the capture file back. A capture call may
fail on the sender thread and has to be reported by `stop()` on another, which
may already have looked when the error is stored.
Correct if nothing is sent twice or out of order, the capture file is what was
sent, `stop()` ends, reports failures, and leaves nothing running that changes
what it left.

**Consumer server** (`consumer.py`). Two threads: the owner's `start()` and
`stop()`, and the server thread (`_accept_loop`, `_read_from_producer`,
`recv_exact`). Shared: `_stop_event`, `_listener`, `_exporter`,
`_server_thread`. Hard: TCP cuts records anywhere; `recv()` on an accepted
connection has no timeout, so a silent producer keeps the server thread beyond
the 2 s join of `stop()`, which then closes the exporter; that thread wakes up
in a later session; the exporter may fail between two looks at it. Correct if
records are the whole ones sent, in order, and none after a malformed one;
connections are closed before the next is accepted; when `stop()` ends, no
thread, connection or exporter of the session is left; `stop()` ends; nobody
waits for ever behind producers that leave.

**Parquet exporter** (`parquet_export.py`). Three threads: the owner, the
receiving thread in `submit()`, and the writer in `_write_loop`. Shared:
`queue.Queue`, `_stop_requested`, `_stop_done`, `_health_error`. Hard:
`submit()` on a full queue is three separate queue calls, in between which the
writer may empty the queue and `stop()` may put its sentinel; `stop()` leaves
the sentinel out of a full queue, and `submit()` may drop it as the oldest
item; a write may fail with more records queued. Correct if the archive is in
order, no record vanishes without being counted, every batch is written in the
end, and a `stop()` that returns cleanly means that what was queued is in a
file.

**C producer** (`main.c`, `tcp_client.c`, `csv_reader.c`, `serialize.c`).
Sequential: reads a whole CSV file into a growing array, then writes it to a
file or sends it over one connection. Hard: partial `send()`, `EINTR`, failure
at every call, and `strtoull`, which takes a sign and wraps. Correct if what
goes out is a beginning of the records, exit code 0 means all of a file without
a bad line, and a row arrives as it is written.

**Wire protocol** (`protocol.py`, `serialize.c`). No state: `validate_record`,
`encode_record`, `decode_record`, and the same layout written by hand in C.
Correct if all of them agree, at every limit of every field.

**Configuration** (`config.py`) and the options of **cli.py**. No state: a file
and a command line become a `MockConfig` or an error. Hard: values that Python
takes for false, a boolean that is an `int`, rounding at the ends of a range,
two sources for one key. Correct if an option does what the same value in the
file does, and what is accepted never fails later.

**Command line** (`cli.py`). State: an event that the `SIGTERM` handler and the
thread that watches stdin set, the handler itself, the exit code. Hard: a signal
at any moment, including before the handler is there, inside `stop()`, and while
the main thread, on which the handler runs, holds the lock of the event.
Correct if a request to shut down ends the process, and exit code 0 means that
no capture call failed.

**Sample data** (`sample_data.py`). A table of 296 values and a check.

### Interactions

- The producer thread and the sender thread share the ring buffer (a lock per
  call), the stop event and, with the owner, `_capture_file`.
- Producer and consumer share a TCP connection: bytes in order, cut anywhere,
  ended anywhere.
- The server thread calls `submit()` and then `check_health()` of the exporter
  it looked up; the writer reports through `_health_error`; the owner stops the
  server before the exporter.
- A connection that is broken or given up may wait in the listener's backlog,
  with records in it, while the producer has connected anew.
- Exporters of several processes share an output directory; `open("x")` is all
  that keeps them apart.
- The main thread of a program is the owner of its producer or consumer; the
  process takes the daemon threads with it when it ends.
- The C producer shares with the Python consumer nothing but the record layout.

## 2. Modules

| Module | Models | State and actions |
| --- | --- | --- |
| `RingBuffer` | `ring_buffer.py` | `items`, `droppedTotal`; `Push`, `Pop` |
| `LossyFifo` | the abstract promise of generator and buffer | `offered`, `oldest`, `taken`; `Offer`, `Take` |
| `SensorProducer` (extends `RingBuffer`) | `producer.py`, numbering of `generator.py` | per thread a program counter (`mpc`, `ppc`, `spc[s]`), the shared attributes, the capture file as a sequence of records |
| `Archive` | the abstract promise of the exporter to `submit()` | `pending`, `archived`, `failed`; `Accept`, `Overflow`, `Write`, `Fail` and others |
| `ParquetExporter` | `parquet_export.py` but for the file names | `queue`, the writer's locals, `files`; a step per queue call |
| `OutputFiles` | `_next_output_path` and the writing of `_flush_batch`, for exporters that share a directory | the directory `files`, per exporter a program counter, `counter`, `seed`, `path` |
| `ConsumerServer` | `consumer.py`, with producers and TCP as environment | the attributes, a program counter per server thread, byte counts per connection |
| `Delivery` | the abstract promise of producer and consumer together | `offers`, `archive`; `Offer`, `Restart`, `Deliver` |
| `StreamSystem` (uses `LossyFifo` and `Archive`) | `_send_loop`, the network, `_accept_loop`, the exporter, and the lives of both programs | `hand`, `link`, `conns`, `owner` (the part of the consumer's `stop()`), `server`, and the state of the two contracts |
| `CProducer` | the C program | a program counter, the locals of reader, emitter and sender |
| `WireFormat` | `protocol.py`, `sample_data.py`, the Parquet columns, `serialize.c`, the fields of `csv_reader.c` | operators: `ValidRecord`, `Encode`, `Decode`, `FitsRow`, `FieldOk`, `CsvRecord`, `Serialize` |
| `Config` (extends `WireFormat`) | `config.py`, the options of `cli.py` | operators: `LoadConfig`, `Overrides` |
| `RecordPath` (extends `Config`) | `generator.py`, and a record's way from a configuration or a CSV row to a row of the archive | `config`, `nextSeq`, `last`, `clock`, `record`, `payload`, `row` |
| `MCRecordPath` | | the inputs of its run |
| `ProducerCli` (extends `SensorProducer`) | `run_producer_cli`, `_wait_for_shutdown` | `main`, `handler`, `shutdown`, `sigterm`, `watcher`, `status`, `exitCode` |
| `SensorProducer_proofs` (of `SensorProducer` and `ProducerCli`), `ParquetExporter_proofs`, `OutputFiles_proofs`, `ConsumerServer_proofs`, `StreamSystem_proofs`, `CProducer_proofs`, `RecordPath_proofs` | | the theorems of section 6 |
| `DataLemmas` | | lemmas about sequences, removal and division that they share |

How they fit together: `SensorProducer` is shown to implement `LossyFifo` and
`ParquetExporter` to implement `Archive`, by proof. `StreamSystem`
takes the two contracts in place of the detailed modules, so that their queue
calls, sentinels, batches and files need not be explored again, and adds what is
between them; it is proved to implement `Delivery`. `RecordPath` justifies what
the others assume: the ranges of their constants, and that a record is never
refused by the encoder or the columns.

An action is what one thread does up to its next access to state that another
thread can see. So `_stream_to_consumer` is `StopStreaming`, `PopRecord`,
`CapturePosition`, `RecheckCapture`, `WriteCapture`, `SendOk`, `SendFails`,
`Rollback`: it looks at `self._capture_file` three times for one record, and
`stop()` may close the file between any two. A thread inside a capture call
when the file is closed dies of `ValueError` (`DieOfClosedFile`). A capture call
that fails, the storing of its error (`StoreError`) and the setting of the stop
event (`SetStop`) are three steps of the sender, as `stop()` closes the file
(`StopClose`), looks for an error (`StopCheck`) and raises it (`StopRaise`) in
three of its own, so a sender that `stop()` gave up on may come between them.
`submit()` is `SubmitPut`, `SubmitDrop`, `SubmitAgain`. In `ProducerCli` the
`threading.Event` of `_wait_for_shutdown` is taken apart as far as its lock
goes: `wait()` is `EnterWait`, `TestFlag`, `Notified`, `LeaveWait`, and holds the
lock in the states `entered` and `leaving` (`MainHoldsLock`); the handler of
`SIGTERM` is `HandlerLocks` and `HandlerSets`, runs on the main thread on top of
whatever that does, and holds it up until it has returned. Threads that outlive a `stop()` are
kept: senders, servers and exporters are numbered by the `start()` that made
them, and `overlapped`, `abandoned` and `expired` record that a join or wait
ran out.

Data are abstract where nothing depends on them: a record is its number with
the counters that were stamped on it, a CSV line is its kind, bytes are
numbered pieces of a record. Variables under "history" are not in the code;
they serve the properties and are never read by a guard (except to keep the
bounds, whose names begin with `Max`).

Definitions marked "Mutation:" are not part of any specification. Each is a
plausible bug in the definition after it; `PROJECT.json` pairs it with the
property that then fails, which shows that the property can.

## 3. Runs

Every run takes below two minutes with two workers.

| Run | Checks | Instance |
| --- | --- | --- |
| `ProducerSessions` | `CaptureFaithful`, `StopReportsCaptureFailure`, `StopJoins`, `FinalAfterStop`, `StopEnds`, `CaptureFailureEndsThreads`, `HeadMoves` | capacity 2, capture on, 2 sessions, 2 records |
| `ProducerQueue` | `TypeOK`, `StreamInOrder`, `NoDuplicates`, `BufferAccounting`, `DropCounterLag`, `ImplementsLossyFifo` | capacity 2, counters modulo 4 that start at 3, no capture file, 2 sessions, 5 records |
| `Exporter` | `TypeOK`, `NothingVanishes`, `StopFlushes`, `ImplementsArchive`, `BatchIsWritten`, `WriterEnds` | volume mode, queue of 2, files of 2, interval of 2 ticks, 5 records |
| `ConsumerStream` | `TypeOK`, `RecordsAreWhole`, `ServerStopEnds`, `PendingIsServed` | 2 connections of up to 2 records of 2 pieces, 5 pieces in all, 1 session |
| `ConsumerSessions` | `OneConnection`, `StopCloses`, `LateOnlyIfAbandoned` | 2 connections of 1 record, 2 sessions |
| `CProducer` | `OutputIsPrefix`, `ExitZeroIsComplete` | all files of at most 5 lines, both modes, 2 addresses, records of 3 pieces, first capacity 1 |
| `StreamSystem` | `GapsAreDrops`, `FaultFreeLossless`, `ImplementsDelivery`, `Drains` | buffer of 1, export queue of 1, 2 records in a connection, backlog of 2, 2 lives of 3 records, 3 faults |
| `RecordPath` | `AcceptedConfigRuns`, `RecordSurvives`, `FlagsAct`, `TimestampsIncrease` | digits of base 2, 2 values, files that differ from two base files in one key, up to 2 options, 2 records |
| `OutputFiles` | `WrittenStays`, `NothingLingers` | 2 exporters, 2 seeds, 2 seconds, 4 batches, 1 crash |
| `ProducerCli` | `ExitZeroIsClean`, `ShutdownEnds` | capacity 2, capture on, 3 records |
| `ExporterInterval`, `ConsumerFatal` | one statement of a document each, which the code does not meet | section 5 |

What they show, beyond one component at a time:

- *`ImplementsArchive`*: over every overflow, stop and failure, files hold
  records in the order of submission and none twice; a record is refused or
  lost only for want of room, at a stop, or after a failure; after a failed
  write nothing more is written.
- *`ImplementsDelivery`*: the same from generator to archive, over broken
  connections and crashes of either side. *`GapsAreDrops`* says where records
  go missing: never between two records of one connection, other than by the
  ring buffer, which counts them. *`FaultFreeLossless`*: without a fault or a
  stop nothing popped is lost at all, and a stop of the consumer keeps what it
  has received, if the writer is done within the 5 s and 1 s that the
  exporter's `stop()` waits for it.
- *`StopReportsCaptureFailure`*: a capture error is raised by the `stop()` of
  its session, or, where that gave up on a sender, is stored, or about to be,
  for the next one. *`StopCloses`*: a `stop()` of the consumer that gave up no
  thread leaves no thread, no connection and no running exporter.
- *`AcceptedConfigRuns`*: no accepted configuration makes `encode_record` or
  the building of a table raise, each of which would end a thread silently.
- *`ExitZeroIsClean`*: whoever ends the process and whenever, exit code 0 means
  a closed capture file, and that no capture call failed, unless `stop()` gave
  up on the sender. *`ShutdownEnds`*: a request to shut down ends the process,
  whatever comes together, but for a main thread that waits for a lock of its
  own (`SelfBlocked`).
- *`TimestampsIncrease`*: stamps increase, and none is earlier than the clock.

Why the bounds are enough to be interesting:

- *Capacity 2* has an empty, a partly full and a full buffer, with a record
  that is neither oldest nor newest in hand. With five records up to three are
  dropped, and the record whose drop counter lags most, by the whole capacity, is
  among them; with counters modulo 4 from 3 the sequence number wraps at once.
  (That the drop counter wraps too is left to the theorem, for any width.)
- What the capture file does depends on the calls that fail and not on what the
  buffer drops: *two records* are one to be sent and one whose send fails behind
  it, or one in each of two sessions, with a sender left behind by `stop()`
  next to the new one.
- *Two sessions* are what a stale thread needs: one to be left behind in and
  one to disturb. The proofs cover any number of them.
- The exporter's *queue of 2* can hold a record and a sentinel in either order,
  be full with and without the sentinel, and be emptied between the queue calls
  of `submit()`. Five records are two full files and a rest. The run is in volume
  mode, which has all the ways to a flush; time mode is the same loop without the
  check for a full file, and has only `ExporterInterval` to itself.
- *Two connections* are one being served and one waiting. Five pieces in
  records of two cover cuts inside, at the end of, and across records, a
  malformed record first or second, and a connection that ends inside a record.
- *Five lines* are a header, a record that fills the array, one that doubles
  it, and blank or bad lines before, between and after them.
- In the stream system *three faults* are enough for a connection given up with
  records in it, a restart of the producer while it waits, and a failed write;
  *two records in a connection* for one being read while the next is lost.
- *Base 2* keeps the widths of the record (2, 4 and 8 digits) and its offsets,
  with limits of 3, 15 and 255 in place of 65,535 and so on; the values tried
  are those around each limit, in units and half units, of each type. Nothing
  in the modules knows the base, but for it being even.
- *Two exporters with two seeds* include two of the same seed, and with one
  crash a third life that draws the seed, and so the name, of an earlier one.
- One session is all the command line has.

`CHECK_DEADLOCK FALSE` is set where the system may stop for good: the exporter
is used for one session, programs end, bounded inputs are used up, and after the
last session of a consumer nothing has to happen. The producer's runs check for deadlock: its
owner may always call `stop()` again.

## 4. Fairness

Safety properties need none. The runs with liveness properties use `FairSpec`.

- *Threads are scheduled* (`WF` of the next step of each thread): they are
  operating system threads, and no step waits for a lock that is held across a
  blocking call. The one lock that a thread may hold while it waits for itself
  is that of the event in `_wait_for_shutdown`, and it is modelled.
- *Calls with a timeout return*: `create_connection` and `sendall` of the
  producer (2 s), `accept` (0.2 s), `get` of the exporter's writer (0.1 s), the
  joins and waits of the `stop()`s. Which of the outcomes occurs is open.
- *`recv()` on an accepted connection has no timeout*, so nothing is assumed of
  it: `Recv` and `RecvEnds` are enabled only when bytes have arrived or the
  connection has ended.
- *Nobody has to* call `start()` or `stop()`, submit, send, connect,
  disconnect, or let a write fail.
- `SF` of `Accept(s)`: `accept()` is called again and again while a connection
  waits in the backlog, and then returns it.
- `StreamSystem` has one condition for all of the sender thread, one for the
  server thread and one for the exporter, whose own progress is
  `BatchIsWritten`. Its network delivers what was sent and the end of a
  connection. Connections that die without either side being told (a pulled
  cable) are left out: the consumer has no read timeout and would wait.
- `ProducerCli` schedules main, the handler, the watcher once stdin has ended,
  and the producer and sender threads. Nobody has to send a signal, and stdin
  need not end. Main has `SF`: signals that come again and again hold it up each
  time, but the interpreter runs the thread on between two of them.
- Three properties name an assumption about the environment as their antecedent:
  `HeadMoves` that the consumer can be reached (`ReachableConsumer`),
  `PendingIsServed` that every producer leaves in the end
  (`EveryProducerLeaves`: `WF` of `Disconnect`), and
  `Drains` that the consumer is up from some time on.
  Without them the code keeps no such promise: without the first it retries for
  ever, as the design says; without the second a producer that is silent, or one
  that streams without end, keeps the next one waiting, as one connection is
  served at a time.

## 5. Where documents and code disagree

Two statements are checked and found violated (`PROJECT.json`, "findings"):

- **`ExporterInterval`.** `README.md:63` says time mode flushes every
  `parquet_flush_interval_seconds`. The interval is looked at only when `get`
  times out after 0.1 s, so a stream that is faster than 10 Hz is not written
  until it pauses, and the batch grows without bound.
- **`ConsumerFatal`.** The design calls a failed parquet write fatal for the
  process. The error ends the connection only; the server accepts the next
  producer and takes a record from it, and from each one after.

Others were met while modelling; the properties carry them as premises, the
modules show them as actions, or they are outside the models:

- The producer design (2026-04-22, line 172) says a record whose send failed is
  retried on a later connection. `_stream_to_consumer` drops it, and does not
  count it as dropped either (`SendFails`; `GapsAreDrops` holds within a
  connection only).
- The same design, line 173: "If capture writing fails, the producer stops with
  an explicit error". `stop()` waits 2 s for the sender, and a `sendall` or a
  call on the capture file may use them up. The sender stores the error of a
  capture call when it gets it (`producer.py:137`, `150`, `166`), and that may be
  after `stop()` has looked for one (line 74): a rollback that fails after a
  `sendall` that timed out is the likely way. Then `stop()` returns, the process
  can end with exit code 0, and the error is raised by the `stop()` of a later
  session, if there is one (`StoreError` after `StopCheck`). So
  `StopReportsCaptureFailure` and `ExitZeroIsClean` promise less where `stop()`
  gave up on a sender (`abandoned`).
- "Producer CLI … handles shutdown cleanly" (the plan of 2026-04-23, line 151;
  line 188 says of the consumer, whose main waits in the same function, "Stops
  cleanly on EOF, SIGINT, and SIGTERM"). The handler of `SIGTERM` calls `set()`
  on the event that main waits on (`cli.py:209`, `216`). `set()` and `wait()`
  take one lock, which is not reentrant, and the handler runs on main: if main
  holds the lock, on its way into `wait()` or out of it after stdin has ended, or
  if an earlier handler does, the handler waits for a lock that only the thread
  it interrupts can release. `stop()` is not called, and only Ctrl-C or a kill
  ends the process. `ShutdownEnds` excepts exactly these states (`SelfBlocked`);
  without the exception TLC finds the hang in a few steps.
- Line 173 of the design again: after a failed capture call the producer's threads stop, but
  `_wait_for_shutdown` (`cli.py:216`) waits on an event of its own; the process
  stays, and reports the error when it is told to shut down (`ProducerCli`).
- A `SIGTERM` before the handler is in place or after it was taken back ends the
  process without `stop()`; a stdin that is at its end, such as `/dev/null`,
  ends it at once; Ctrl-C counts as a normal end with exit code 0.
- The files are named so that nothing is overwritten "even under concurrent
  writers" (`README.md:101`). `unlink(missing_ok=True)` after a failed write
  expects that the library may have removed the file itself; if it has, another
  exporter with the same seed, second and counter may have reserved the name by
  then, and loses its file. `WrittenStays` leaves out that case
  (`library = "removes"` with equal seeds), which depends on pyarrow.
- `--parquet-output-dir ""` is the current directory, and `""` in the file is no
  directory, since every `Path` is true (`OutputDir`).
- An altitude of `inf` raises `OverflowError`, and a number for `capture_path`
  or `parquet_output_dir` `TypeError`: `run_producer_cli` and
  `run_consumer_cli` catch neither, so the user sees a traceback and exit code
  1, not 2 (`LoadFails`).
- A minus sign in an unsigned CSV column is accepted and wraps modulo 2^64
  (`Strtoull`), so `-1` is a timestamp of 2^64 - 1; fields are cut at 4095
  characters.
- A failing `getline` (`csv_reader.c:155`) counts as the end of the file: what
  was read is emitted with exit code 0 (`readFailed`; `ExitZeroIsComplete` is
  about the rows that were read).
- A sender that outlives the join of `stop()` has its capture file closed
  before its send ends, so the file may hold a record that was never sent
  (`CaptureFaithful` excludes `abandoned` sessions; the design's "exact packed
  records sent to the TCP socket").
- After a restart such a sender may be connected next to the new one
  (`overlapped`; the plan of 2026-04-23, line 29: "at most one active TCP
  connection"). The same holds for the consumer's server thread, which may
  accept from the new listener next to the new thread (`OneConnection` excludes
  it).
- `stop()` of the exporter ignores that its waits ran out and returns without
  error while the last file is being written (`StopFlushes` excludes `expired`;
  the export design, line 182). The writer is a daemon, so if the process then
  ends, what it holds is lost: `README.md:110`, "flushes any remaining records
  … so partial batches are not lost", holds for writes of less than 6 s in all
  (`ConsumerStopped`; `FaultFreeLossless` counts it as a loss).
- The interval check runs in volume mode too, so a file may be written before
  it is full (the export design, line 135: no hybrid rotation).
- If `capture_file.close()` raises in the producer's `stop()`, a stored capture
  error is left for the next session, whose `stop()` raises it (`StopClose`).
- A `start()` of the producer or the consumer that fails has already cleared
  the stop event, which lets a thread left behind go on (`StartFails`,
  `StartFailsToBind`).
- If the exporter's `start()` fails, the listener is open without a server
  thread until `stop()` is called (`StartFailsToExport`; `PendingIsServed`
  excludes it).
- In `csv_reader.c` the early returns for a wrong number of columns (lines 186
  to 205) do not free the record array. The process ends anyway.

## 6. What is proved

Every safety and action property of the runs, and all three refinements, for
every value of the constants that the modules' assumptions allow:

| Module | Theorem | Statement |
| --- | --- | --- |
| `SensorProducer_proofs` | `TypeCorrect` | `Spec => []TypeOK` |
| | `BufferAccounted` | `Spec => []BufferAccounting` |
| | `StopHasJoined` | `Spec => []StopJoins` |
| | `BufferIsLossyFifo` | `Spec => ImplementsLossyFifo` |
| | `DropCounterBounded` | `Spec => []DropCounterLag` |
| | `CaptureFailureReported` | `Spec => []StopReportsCaptureFailure` |
| | `NothingAfterStop` | `Spec => FinalAfterStop` |
| | `NothingSentTwice` | `Spec => []NoDuplicates` |
| | `SentInOrder` | `Spec => []StreamInOrder` |
| | `CaptureIsWhatWasSent` | `Spec => []CaptureFaithful` |
| | `ExitCodeIsHonest` | `CliSpec => []ExitZeroIsClean` |
| `ParquetExporter_proofs` | `TypeCorrect` | `Spec => []TypeOK` |
| | `EachRecordAccounted` | `Spec => []NothingVanishes` |
| | `StopHasFlushed` | `Spec => []StopFlushes` |
| | `ExporterIsArchive` | `Spec => ImplementsArchive` |
| `OutputFiles_proofs` | `NoneLinger` | `Spec => []NothingLingers` |
| | `NoneOverwritten` | `Spec => []WrittenStays` |
| `ConsumerServer_proofs` | `TypeCorrect` | `Spec => []TypeOK` |
| | `LateIsAbandoned` | `Spec => []LateOnlyIfAbandoned` |
| | `StopHasClosed` | `Spec => []StopCloses` |
| | `OneAtATime` | `Spec => []OneConnection` |
| | `RecordsWhole` | `Spec => []RecordsAreWhole` |
| `StreamSystem_proofs` | `GapsAreCounted` | `Spec => []GapsAreDrops` |
| | `SystemDelivers` | `Spec => ImplementsDelivery` |
| | `LosslessWithoutFault` | `Spec => []FaultFreeLossless` |
| `CProducer_proofs` | `BeginningIsOut` | `Spec => []OutputIsPrefix` |
| | `SuccessIsComplete` | `Spec => []ExitZeroIsComplete` |
| `RecordPath_proofs` | `StampsIncrease` | `Spec => TimestampsIncrease` |
| | `OptionsActAsWritten` | `Spec => []FlagsAct` |
| | `AcceptedRuns` | `Spec => []AcceptedConfigRuns` |
| | `RecordsSurvive` | `Spec => []RecordSurvives` |

### Assumptions

Each is stated, and named, in the module that declares the constants, and TLC
evaluates it for the constants of every run. Most are the ranges that
constructors and `config.py` enforce (`CapacityAssumption`,
`SensorProducerAssumption`, `ParquetExporterAssumption`, `ConfigAssumption` and
so on). The bounds `Max...` may be any natural numbers, so that what is proved
holds for behaviours of any length. Five more belong to the way of a record:

- `WireFormatAssumption`: the number base is even and there are values at all.
- `PowersAssumption`: the recursion of `^`, `b^0 = 1` and `b^(k+1) = b * b^k`, up
  to the width of 8. A fact of arithmetic, stated because the provers know
  nothing of `^`.
- `RowsAssumption`: a CSV row has a number for every column. `load_csv` refuses
  a row with fewer or more (`TOTAL_COLUMNS`), or a field that is no number.
- `InputsAssumption`: a file holds what `tomllib` can return, and the options
  are those of the parser with arguments that it accepts.
- `ClockAssumption`: the clock leaves room for the records still to come below
  2^64 microseconds, which is the year 586,000. Without it `next_record` does
  overflow, and nobody should mind.

### The producer, and its process

A tower of inductive invariants, each proved with the ones below it:

1. `IInv`: types and accounting. Types alone are not inductive: `dropped_total`
   stays in its range only because the accounting balances, and what is pushed,
   written or sent is a record only because the thread holds one
   (`ProducerHolds`, `SendersHold`).
2. `ControlInv`: which threads can be alive in which part of the owner's
   program. It gives `StopJoins`, and that there is one producer thread at a
   time, which the refinement of `LossyFifo` and the counters need.
3. `LagInv`: what the counters of each buffered and popped record say before
   they are cut to the width of the wire. The bound survives the cut by
   `WireDifference`, a lemma about differences modulo any width, which rests on
   uniqueness of division with remainder.
4. `SessionInv`: where a capture error is, from the failing call over the hand
   of the sender (`HoldsError`) and the stored error to the exception.
5. `SentInv`: the number of a record in a sender's hand or on the wire is below
   those still in the buffer, no two hands hold the same one, and while only
   the last sender lives, what it holds is newer than all that was sent.
6. `FileInv`: the file is what was sent, and behind it the record that the one
   sender has written and not sent. The position that the sender remembers is
   where its own record begins, so `Rollback` cuts off that record and no other.

For the refinement, initial states map to initial states (`FifoInit`), and
every step to an `Offer`, a `Take` or a stutter (`FifoStep`).

`ExitCodeIsHonest` reuses the tower: every step of a living process is a step of
`SensorProducer` or leaves its variables alone, so the invariants hold in the
process too. What is added says where the main thread is in its one session
(`FirstSession`, `StageInv`), and what that says of the exit code.

### The exporter

`NothingVanishes` is inductive with the types and `ControlInv`, which says what
the writer holds where. `StopFlushes` needs more, namely that what the clean
`stop()` found in the queue was not lost in one of the two ways in which a
record may be lost after the sentinel: `RefusedIsNewer` (a record is refused
only where the sentinel took the place that `submit()` had made for it, so it is
newer than `stop()`) and `QueuedIsNewer` (once the writer has seen an empty
queue after `stop()`, so is everything that comes in). The refinement of
`Archive` maps what waits to `writing \o batch \o Records(queue) \o InHand`. It
needs `OneSentinel`: if the queue held two, taking one would not leave the same
records behind.

### The files

`FilesInv` says of every file that is not whole that a working writer has its
path *and that the file holds that writer's batch*. Without the batch this is
not inductive: when equal seeds bring two writers to one name, the file left
after one ends must still be the other's. `KeptInv` adds that a writer that
works has its own file under its path, so that what it overwrites or removes is
no batch written. After a failed write whose file the library removed, the name
is free, and only a writer with the same seed could take it: `PathsDiffer` rules
that out where `WrittenStays` promises something at all.

### The consumer

`TypeInv` adds to the types where a thread has a connection, and that no more
bytes are read than were sent. `LinkInv`: the open connections are those that a
thread reads from, one thread each, and the backlog holds waiting ones, each
once. `SessionInv`: a thread that is alive is the one that `stop()` waits for,
or was given up; while it is the former, it submits to the exporter of its own
`start()`, and that has not stopped. `LateGivenUp` states the property record by
record. `Released` follows the exporter through `stop()`: it is gone when `stop()`
ends, or has failed and has been stopped; with `SessionInv` and `LinkInv` that is
`StopCloses`. `ReadInv` is the argument for `RecordsWhole`: a thread holds exactly the
bytes that follow those of the records already received from its connection, and
by `LinkInv` no other thread reads it. That bytes fall into records whatever
`recv()` returns is arithmetic on `FrameAfter` (division with remainder).

### The stream system

The steps are first put into a few shapes (`Shapes`, `ArchiveSteps`: something is
offered, taken, sent, received, given up, restarted; the connections are thinned
or changed in one place; the archive loses, accepts or writes), and each
invariant is proved shape by shape. `ArchInv`: what is archived and what waits
are numbers of records that arrived, in order. `PlaceInv`: connections are
numbered as they are made and a record is on its own. `DoneInv`: only what was
taken is on the way. `OrderInv`: what has arrived, what is on the connections in
their order, and the sender's hand are in order, together. This is what makes
`SystemDelivers` true in spite of a connection that is given up with records in
it: it is served before the newer ones. `GapInv`: two records that follow each
other on one connection were popped one after the other. `LossInv` and `FreeInv`
keep account of every record while nothing goes wrong;
the stop of the consumer is one more way to thin the connections, and, where it
gives the writer up, one more way to lose records.

### The C program

`ReaderInv`: the array is the records of the lines read so far. `OutputInv`: what
is out is the encoding of the records before `i` and the first `sent` bytes of
record `i`. The properties follow because the records of a beginning of the
file are a beginning of the records of the file. `RecordsIn` is a recursive
function and the encoding a `FlattenSeq`; what is needed of them is proved by
induction over sets written down by hand (`SetInduction` in `DataLemmas`), since
the library's induction rules cannot be used.

### Configuration and generator

`OptionsActAsWritten`: a configuration depends on the merged data only up to
*alike* values, those with the same truth, text and number (the lemmas
`...Alike`), and what an option leads to is alike to what the file would have.
The two sources of `capture_path` are compared apart. `AcceptedRuns` follows each
field from the type and range that `load_config` checks, through scaling and
rounding (`DegreesFit`), to the range of its field on the wire (`ValidFits`:
what the encoder takes fits the columns). `StampInv` says that the generator's
`last` is the time stamp of the last record (a stamp is later than `last` and no
earlier than the clock, whichever of the two it is taken from), and `RunInv` that the clock has
still room for all records to come.

### The record on the wire

`RecordsSurvive` is an inductive invariant of a few lines (`PathInv`: the payload
is what `Serialize` makes of the record, which for the C program is what
`CsvRecord` makes of the row) over a theory of the format:

1. `DigitsRead`: the bytes of `v` in `n` places, read back, are
   `v - b^n * (v \div b^n)`, because dividing twice is dividing by the product
   (`DivDiv`). In the range of its field that is `v` (`UnsignedFits`), and two's
   complement takes care of the sign (`SignedFits`).
2. `FieldAtIs`, `FieldsApart`, `FieldsCover`: the places that `struct` adds up
   from the widths are the offsets written in the C code; no byte is in two
   fields, and none in no field. So `SerializeIs`: where each byte of each field
   and value is.
3. `EncodersAgree`: `struct.pack` puts one field behind the other, the C program
   computes for each byte what belongs there, and the results are equal.
   `FlattenIs` is the lemma: pieces that follow each other in a sequence are,
   flattened, a beginning of it.
4. `UnpackedIs`: the decoder cuts the same places out, hence `DecodedIs`.
5. `RowRead`: what `strtoull` and `strtoll` clamp is out of range of each field
   that has no check of `errno` (a power of the base is at least twice the power
   of half its width, `PowersGrow`), so what passes is the number as written,
   unless it has a minus sign where none belongs; and every valid record passes.

### Only model-checked

- *Liveness*: `StopEnds`, `CaptureFailureEndsThreads`, `HeadMoves`,
  `BatchIsWritten`, `WriterEnds`, `ServerStopEnds`, `PendingIsServed`, `Drains`
  and `ShutdownEnds`. Fairness and enabledness are out of the prover's reach.

## 7. What is not modelled

- *Texts*: TOML, CSV lines and options are given as the values they stand for.
  Which texts stand for a number is the libraries' business; strings that spell
  numbers in numeric keys of the file, which `int()` would take for the parquet
  fields, are left out, as are floats that are not multiples of half a unit.
- *The consumer's `main`* (`run_consumer_cli`) has the shape of the producer's
  over `ConsumerServer`, and waits in the same `_wait_for_shutdown`; it is not
  composed with it.
- *A restart inside one process* in the stream system: `ConsumerStopped` and
  `ConsumerRestart` are the end of the consumer's process and the next one.
  `ConsumerServer` has sessions that follow each other in one process, with the
  threads left behind.
- *The argument list of the C program* and its usage errors.
- *The parquet library*: a write succeeds, or fails at any moment and leaves or
  removes its file.
- *Sleep times*: a thread may take its next step at any time, which includes
  every rate. Time is modelled where it decides something: in the exporter, in
  ticks of the writer's 0.1 s wait, and in the timeouts, which may or may not
  expire.
- *Several producers at once* in the stream system: `ConsumerServer` has them.

## 8. Plan

Done: all components with their runs, the contracts and their composition, and
the proofs of section 6, which leave no safety or action property unproved. What
could be added:

1. Lemmas on the way to liveness that need no fairness: that a measure falls with
   each step that is counted on (the records in the buffer while a producer is
   stopping, the threads still to be joined).
2. The consumer's `main` composed with `ConsumerServer`, as the producer's is.

The modules have no RECURSIVE operators and keep their bounds in guards, so that
they can be proved about.
