---------------------------- MODULE SensorProducer ----------------------------
(***************************************************************************)
(* SensorProducerClient (src/kc_sensor_mock/producer.py): the producer     *)
(* thread numbers records and pushes them into the ring buffer, the sender *)
(* thread pops them, appends them to the capture file and sends them to    *)
(* the consumer, and the owner's thread calls start() and stop().          *)
(*                                                                         *)
(* A step is what one thread does up to its next access to shared state    *)
(* that another thread can observe.  A sender thread that outlives the     *)
(* join of stop() keeps running next to the threads of a later start(),    *)
(* so senders are numbered by the start() that made them.                  *)
(***************************************************************************)
EXTENDS RingBuffer

CONSTANTS
    Wrap,               \* 2^32: the width of the two counters of a record
    InitialSeq,         \* initial_sequence_number
    CaptureEnabled,     \* is capture_path configured?
    MaxStarts,          \* bound: calls of start() that succeed
    MaxRecords          \* bound: records generated

ASSUME SensorProducerAssumption ==
    /\ Wrap \in Nat \ {0}
    /\ InitialSeq \in 0 .. Wrap - 1
    /\ CaptureEnabled \in BOOLEAN
    /\ MaxStarts \in Nat
    /\ MaxRecords \in Nat

Senders == 1 .. MaxStarts

VARIABLES
    \* the producer thread
    nextSeq,            \* _generator._next_sequence_number
    ppc,                \* "loop", "push"; "off": no such thread runs
    made,               \* record: the record to push
    \* the sender threads
    spc,                \* "off", or what the thread does next
    payload,            \* payload: the record in hand
    position,           \* capture_position
    \* the owner's thread
    mpc,                \* "idle", or what stop() does next
    joining,            \* sender_thread of stop(); 0 is None
    running,            \* _producer_thread is not None
    starts,             \* how many start() calls succeeded
    outcome,            \* how the last stop() of a session ended
    \* shared by the threads
    stopEvent,          \* _stop_event
    captureOpen,        \* _capture_file is not None
    captureError,       \* _capture_error is not None
    capture,            \* what the file at capture_path holds
    \* history
    produced,           \* how many records have been pushed
    popped, sent,       \* the records popped and sent, in order
    sessionStart,       \* Len(sent) at the last start()
    abandoned,          \* senders whose join timed out
    overlapped,         \* did start() ever find an earlier sender alive?
    tainted             \* did a capture call of this session fail?

producerVars == <<nextSeq, ppc, made>>
senderVars   == <<spc, payload, position>>
ownerVars    == <<mpc, joining, running, starts, outcome>>
captureVars  == <<captureOpen, captureError, capture>>
historyVars  == <<produced, popped, sent, sessionStart, abandoned,
                  overlapped, tainted>>
vars == <<bufferVars, producerVars, senderVars, ownerVars, stopEvent,
          captureVars, historyVars>>

(***************************************************************************)
(* A record.  On the wire it carries seq and dropped, both modulo Wrap; n  *)
(* (its position in the order of generation) and drops (the Python integer *)
(* that dropped was cut from) are for the properties.                      *)
(***************************************************************************)
Record(n, drops) ==
    [n |-> n, drops |-> drops,
     seq |-> (InitialSeq + n) % Wrap, dropped |-> drops % Wrap]

NoRecord == [n |-> -1, drops |-> 0, seq |-> 0, dropped |-> 0]

\* What a failed or misplaced file operation leaves in place of a record.
Torn == [n |-> -2, drops |-> 0, seq |-> 0, dropped |-> 0]

NoPosition == -1        \* capture_position is None

\* The capture calls: the states in which a sender may hold the open file.
CaptureCalls == {"position", "write", "rollback"}

Init ==
    /\ BufferInit
    /\ nextSeq = InitialSeq
    /\ ppc = "off"
    /\ made = NoRecord
    /\ spc = [s \in Senders |-> "off"]
    /\ payload = [s \in Senders |-> NoRecord]
    /\ position = [s \in Senders |-> NoPosition]
    /\ mpc = "idle"
    /\ joining = 0
    /\ running = FALSE
    /\ starts = 0
    /\ outcome = "none"
    /\ stopEvent = FALSE
    /\ captureOpen = FALSE
    /\ captureError = FALSE
    /\ capture = <<>>
    /\ produced = 0
    /\ popped = <<>>
    /\ sent = <<>>
    /\ sessionStart = 0
    /\ abandoned = {}
    /\ overlapped = FALSE
    /\ tainted = FALSE
-------------------------------------------------------------------------------
(***************************************************************************)
(* The owner's thread: start() and stop().                                 *)
(***************************************************************************)

\* start(): both threads begin; the capture file is truncated ("wb").  The
\* ring buffer, the sequence numbers and _capture_error are kept.
Start ==
    /\ mpc = "idle"
    /\ ~running
    /\ starts < MaxStarts
    /\ stopEvent' = FALSE
    /\ captureOpen' = CaptureEnabled
    /\ capture' = IF CaptureEnabled THEN <<>> ELSE capture
    /\ running' = TRUE
    /\ starts' = starts + 1
    /\ ppc' = "loop"
    /\ spc' = [spc EXCEPT ![starts + 1] = "loop"]
    /\ sessionStart' = Len(sent)
    /\ overlapped' = (overlapped \/ \E s \in Senders : spc[s] # "off")
    /\ tainted' = FALSE
    /\ outcome' = "none"
    /\ UNCHANGED <<bufferVars, nextSeq, made, payload, position, mpc, joining,
                   captureError, produced, popped, sent, abandoned>>

\* start() whose mkdir or open raises: the stop event is already cleared.
StartFails ==
    /\ mpc = "idle"
    /\ ~running
    /\ CaptureEnabled
    /\ stopEvent' = FALSE
    /\ UNCHANGED <<bufferVars, producerVars, senderVars, ownerVars,
                   captureVars, historyVars>>

\* stop() sets the event and takes the thread handles (None if not started).
StopBegin ==
    /\ mpc = "idle"
    /\ stopEvent' = TRUE
    /\ mpc' = IF running THEN "joinProducer" ELSE "close"
    /\ joining' = IF running THEN starts ELSE 0
    /\ running' = FALSE
    /\ UNCHANGED <<bufferVars, producerVars, senderVars, starts, outcome,
                   captureVars, historyVars>>

\* Mutation: the join of the producer thread is dropped.
JoinProducerEarly ==
    /\ mpc = "joinProducer"
    /\ mpc' = "joinSender"
    /\ UNCHANGED <<bufferVars, producerVars, senderVars, joining, running,
                   starts, outcome, stopEvent, captureVars, historyVars>>

\* The producer thread sleeps at most 1 s, so its join of 2 s never expires.
JoinProducer ==
    /\ mpc = "joinProducer"
    /\ ppc = "off"
    /\ mpc' = "joinSender"
    /\ UNCHANGED <<bufferVars, producerVars, senderVars, joining, running,
                   starts, outcome, stopEvent, captureVars, historyVars>>

\* Mutation: the join of the sender thread is dropped.
JoinSenderEarly ==
    /\ mpc = "joinSender"
    /\ mpc' = "close"
    /\ UNCHANGED <<bufferVars, producerVars, senderVars, joining, running,
                   starts, outcome, stopEvent, captureVars, historyVars>>

\* join(timeout=2.0) returns when the thread has ended, or gives up on it: a
\* call that blocks for 2 s (create_connection, sendall, one on the capture
\* file) may have used up the time, wherever the thread has got to since.
JoinSender ==
    /\ mpc = "joinSender"
    /\ abandoned' = IF spc[joining] = "off"
                    THEN abandoned
                    ELSE abandoned \cup {joining}
    /\ mpc' = "close"
    /\ UNCHANGED <<bufferVars, producerVars, senderVars, joining, running,
                   starts, outcome, stopEvent, captureVars,
                   produced, popped, sent, sessionStart, overlapped, tainted>>

\* The senders in S die of the ValueError of a call on a closed file; the
\* finally clause of _send_loop closes their connections.
DieOfClosedFile(S) ==
    /\ spc' = [s \in Senders |-> IF s \in S THEN "off" ELSE spc[s]]
    /\ payload' = [s \in Senders |-> IF s \in S THEN NoRecord ELSE payload[s]]
    /\ position' = [s \in Senders |->
                        IF s \in S THEN NoPosition ELSE position[s]]

\* stop() returns, or raises; what it ends with is how the session ended, but
\* a stop() without a session that returns says nothing about the last one.
EndStop(how) ==
    /\ mpc' = "idle"
    /\ joining' = 0
    /\ outcome' = IF how = "returned" /\ joining = 0 THEN outcome ELSE how

\* stop() takes and closes the file, which catches any senders S in the middle
\* of a capture call.  (A call that a sender makes between the two is one it
\* could have made before them.)  A close() that raises ends stop() at once.
StopClose ==
    /\ mpc = "close"
    /\ captureOpen' = FALSE
    /\ \E S \in SUBSET {s \in Senders : spc[s] \in CaptureCalls /\ captureOpen} :
          DieOfClosedFile(S)
    /\ \/ /\ mpc' = "check"
          /\ UNCHANGED <<joining, outcome, tainted>>
       \/ /\ captureOpen
          /\ EndStop("raised")
          /\ tainted' = TRUE
    /\ UNCHANGED <<bufferVars, producerVars, running, starts, stopEvent,
                   captureError, capture, produced, popped, sent, sessionStart,
                   abandoned, overlapped>>

\* stop() looks for a stored error; one that comes later is not seen.
StopCheck ==
    /\ mpc = "check"
    /\ \/ captureError /\ mpc' = "raise" /\ UNCHANGED <<joining, outcome>>
       \/ ~captureError /\ EndStop("returned")
    /\ UNCHANGED <<bufferVars, producerVars, senderVars, running, starts,
                   stopEvent, captureVars, historyVars>>

\* The stored error is raised, once.
StopRaise ==
    /\ mpc = "raise"
    /\ captureError' = FALSE
    /\ EndStop("raised")
    /\ UNCHANGED <<bufferVars, producerVars, senderVars, running, starts,
                   stopEvent, captureOpen, capture, historyVars>>
-------------------------------------------------------------------------------
(***************************************************************************)
(* The producer thread: _produce.                                          *)
(***************************************************************************)

\* Mutation: the thread waits for the sender to drain the buffer.
ProducerExitWhenDrained ==
    /\ ppc = "loop"
    /\ stopEvent
    /\ items = <<>>
    /\ ppc' = "off"
    /\ UNCHANGED <<bufferVars, nextSeq, made, senderVars, ownerVars, stopEvent,
                   captureVars, historyVars>>

ProducerExit ==
    /\ ppc = "loop"
    /\ stopEvent
    /\ ppc' = "off"
    /\ UNCHANGED <<bufferVars, nextSeq, made, senderVars, ownerVars, stopEvent,
                   captureVars, historyVars>>

\* Mutation: the number after the largest is 1.
GenerateSkippingZero ==
    /\ ppc = "loop"
    /\ ~stopEvent
    /\ produced < MaxRecords
    /\ made' = [Record(produced, droppedTotal) EXCEPT !.seq = nextSeq]
    /\ nextSeq' = IF nextSeq = Wrap - 1 THEN 1 ELSE nextSeq + 1
    /\ ppc' = "push"
    /\ UNCHANGED <<bufferVars, senderVars, ownerVars, stopEvent, captureVars,
                   historyVars>>

\* dropped_total is read here and may be old when the record is pushed.
Generate ==
    /\ ppc = "loop"
    /\ ~stopEvent
    /\ produced < MaxRecords
    /\ made' = [Record(produced, droppedTotal) EXCEPT !.seq = nextSeq]
    /\ nextSeq' = (nextSeq + 1) % Wrap
    /\ ppc' = "push"
    /\ UNCHANGED <<bufferVars, senderVars, ownerVars, stopEvent, captureVars,
                   historyVars>>

PushRecord ==
    /\ ppc = "push"
    /\ Push(made)
    /\ produced' = produced + 1
    /\ made' = NoRecord
    /\ ppc' = "loop"
    /\ UNCHANGED <<nextSeq, senderVars, ownerVars, stopEvent, captureVars,
                   popped, sent, sessionStart, abandoned, overlapped,
                   tainted>>
-------------------------------------------------------------------------------
(***************************************************************************)
(* A sender thread: _send_loop, _stream_to_consumer and what they call.    *)
(***************************************************************************)

\* Sender s goes on at pc with its record and capture position; or it lets go
\* of both, as when _stream_to_consumer returns and the connection is closed.
GoOn(s, pc) ==
    /\ spc' = [spc EXCEPT ![s] = pc]
    /\ UNCHANGED <<payload, position>>

LetGo(s, pc) ==
    /\ spc' = [spc EXCEPT ![s] = pc]
    /\ payload' = [payload EXCEPT ![s] = NoRecord]
    /\ position' = [position EXCEPT ![s] = NoPosition]

\* A capture call raises OSError; left is what it leaves in the file.  The
\* handler of the exception has two steps to do, StoreError and SetStop.
CaptureFails(left) ==
    /\ captureOpen
    /\ capture' = left
    /\ tainted' = TRUE

\* Mutation: the error is not stored.
StoreNoError(s) ==
    /\ spc[s] \in {"failed", "tellFailed"}
    /\ GoOn(s, IF spc[s] = "failed" THEN "stored" ELSE "tellStored")
    /\ UNCHANGED <<bufferVars, producerVars, ownerVars, stopEvent, captureVars,
                   historyVars>>

\* _capture_error = exc.  By now stop() may have looked for it and returned.
StoreError(s) ==
    /\ spc[s] \in {"failed", "tellFailed"}
    /\ captureError' = TRUE
    /\ GoOn(s, IF spc[s] = "failed" THEN "stored" ELSE "tellStored")
    /\ UNCHANGED <<bufferVars, producerVars, ownerVars, stopEvent, captureOpen,
                   capture, historyVars>>

\* Mutation: the stop event is not set.
SetNoStop(s) ==
    /\ spc[s] \in {"stored", "tellStored"}
    /\ GoOn(s, IF spc[s] = "stored" THEN "loop" ELSE "recheck")
    /\ UNCHANGED <<bufferVars, producerVars, ownerVars, stopEvent, captureVars,
                   historyVars>>

\* _stop_event.set(), and back to _stream_to_consumer.  A thread that stop()
\* gave up on may set the event of a later session.
SetStop(s) ==
    /\ spc[s] \in {"stored", "tellStored"}
    /\ stopEvent' = TRUE
    /\ GoOn(s, IF spc[s] = "stored" THEN "loop" ELSE "recheck")
    /\ UNCHANGED <<bufferVars, producerVars, ownerVars, captureVars,
                   historyVars>>

\* The while of _send_loop.
SendLoop(s) ==
    /\ spc[s] = "loop"
    /\ GoOn(s, IF stopEvent THEN "off" ELSE "connecting")
    /\ UNCHANGED <<bufferVars, producerVars, ownerVars, stopEvent, captureVars,
                   historyVars>>

ConnectOk(s) ==
    /\ spc[s] = "connecting"
    /\ GoOn(s, "streaming")
    /\ UNCHANGED <<bufferVars, producerVars, ownerVars, stopEvent, captureVars,
                   historyVars>>

\* Mutation: the error of create_connection ends the thread.
ConnectFailsForGood(s) ==
    /\ spc[s] = "connecting"
    /\ GoOn(s, "off")
    /\ UNCHANGED <<bufferVars, producerVars, ownerVars, stopEvent, captureVars,
                   historyVars>>

ConnectFails(s) ==
    /\ spc[s] = "connecting"
    /\ GoOn(s, "loop")
    /\ UNCHANGED <<bufferVars, producerVars, ownerVars, stopEvent, captureVars,
                   historyVars>>

\* The while of _stream_to_consumer ends.
StopStreaming(s) ==
    /\ spc[s] = "streaming"
    /\ stopEvent
    /\ GoOn(s, "loop")
    /\ UNCHANGED <<bufferVars, producerVars, ownerVars, stopEvent, captureVars,
                   historyVars>>

PopRecord(s) ==
    /\ spc[s] = "streaming"
    /\ ~stopEvent
    /\ Pop
    /\ popped' = Append(popped, Head(items))
    /\ payload' = [payload EXCEPT ![s] = Head(items)]
    /\ spc' = [spc EXCEPT ![s] = "position"]
    /\ UNCHANGED <<producerVars, position, ownerVars, stopEvent, captureVars,
                   produced, sent, sessionStart, abandoned, overlapped,
                   tainted>>

\* _capture_position: tell(), or None; a None is looked at again.
CapturePosition(s) ==
    /\ spc[s] = "position"
    /\ \/ /\ captureOpen
          /\ position' = [position EXCEPT ![s] = Len(capture)]
          /\ spc' = [spc EXCEPT ![s] = "write"]
          /\ UNCHANGED <<capture, tainted>>
       \/ /\ ~captureOpen
          /\ GoOn(s, "recheck")
          /\ UNCHANGED <<capture, tainted>>
       \/ /\ CaptureFails(capture)
          /\ GoOn(s, "tellFailed")
    /\ UNCHANGED <<bufferVars, producerVars, payload, ownerVars, stopEvent,
                   captureOpen, captureError, produced, popped, sent,
                   sessionStart, abandoned, overlapped>>

\* No position, but by now there is a capture file: give up the connection.
RecheckCapture(s) ==
    /\ spc[s] = "recheck"
    /\ \/ captureOpen /\ LetGo(s, "loop")
       \/ ~captureOpen /\ GoOn(s, "write")
    /\ UNCHANGED <<bufferVars, producerVars, ownerVars, stopEvent, captureVars,
                   historyVars>>

\* _write_capture_payload: write and flush; the part written by a call that
\* fails is not taken back.
WriteCapture(s) ==
    /\ spc[s] = "write"
    /\ \/ /\ captureOpen
          /\ capture' = Append(capture, payload[s])
          /\ GoOn(s, "sending")
          /\ UNCHANGED tainted
       \/ /\ ~captureOpen
          /\ GoOn(s, "sending")
          /\ UNCHANGED <<capture, tainted>>
       \/ /\ \E left \in {capture, Append(capture, Torn)} : CaptureFails(left)
          /\ LetGo(s, "failed")
    /\ UNCHANGED <<bufferVars, producerVars, ownerVars, stopEvent, captureOpen,
                   captureError, produced, popped, sent, sessionStart,
                   abandoned, overlapped>>

\* sendall returned: the kernel has taken every byte of the record.
SendOk(s) ==
    /\ spc[s] = "sending"
    /\ sent' = Append(sent, payload[s])
    /\ LetGo(s, "streaming")
    /\ UNCHANGED <<bufferVars, producerVars, ownerVars, stopEvent, captureVars,
                   produced, popped, sessionStart, abandoned, overlapped,
                   tainted>>

\* Mutation: the bytes of a record that could not be sent stay in the file.
SendFailsKeepingCapture(s) ==
    /\ spc[s] = "sending"
    /\ LetGo(s, "loop")
    /\ UNCHANGED <<bufferVars, producerVars, ownerVars, stopEvent, captureVars,
                   historyVars>>

\* Mutation: the record goes back into the buffer, behind the newer ones.
SendFailsRequeueing(s) ==
    /\ spc[s] = "sending"
    /\ Push(payload[s])
    /\ LetGo(s, "loop")
    /\ UNCHANGED <<producerVars, ownerVars, stopEvent, captureVars, historyVars>>

\* sendall raised OSError (closed by the peer, or 2 s without progress).
SendFails(s) ==
    /\ spc[s] = "sending"
    /\ \/ position[s] # NoPosition /\ GoOn(s, "rollback")
       \/ position[s] = NoPosition /\ LetGo(s, "loop")
    /\ UNCHANGED <<bufferVars, producerVars, ownerVars, stopEvent, captureVars,
                   historyVars>>

\* truncate(p): a file that is shorter is filled up.
Truncated(p) ==
    IF p <= Len(capture)
    THEN SubSeq(capture, 1, p)
    ELSE capture \o [i \in 1 .. p - Len(capture) |-> Torn]

\* _rollback_capture_payload, and _stream_to_consumer returns.  The record
\* is in no one's hands from here on.
Rollback(s) ==
    /\ spc[s] = "rollback"
    /\ \/ /\ captureOpen
          /\ capture' = Truncated(position[s])
          /\ LetGo(s, "loop")
          /\ UNCHANGED tainted
       \/ /\ ~captureOpen
          /\ LetGo(s, "loop")
          /\ UNCHANGED <<capture, tainted>>
       \/ /\ \E left \in {capture, Truncated(position[s])} : CaptureFails(left)
          /\ LetGo(s, "failed")
    /\ UNCHANGED <<bufferVars, producerVars, ownerVars, stopEvent, captureOpen,
                   captureError, produced, popped, sent, sessionStart,
                   abandoned, overlapped>>
-------------------------------------------------------------------------------
\* stop() after its first line.
StopContinues ==
    JoinProducer \/ JoinSender \/ StopClose \/ StopCheck \/ StopRaise

Owner == Start \/ StartFails \/ StopBegin \/ StopContinues

Producer == ProducerExit \/ Generate \/ PushRecord

Sender(s) ==
    \/ SendLoop(s) \/ ConnectOk(s) \/ ConnectFails(s)
    \/ StopStreaming(s) \/ PopRecord(s)
    \/ CapturePosition(s) \/ RecheckCapture(s) \/ WriteCapture(s)
    \/ SendOk(s) \/ SendFails(s) \/ Rollback(s)
    \/ StoreError(s) \/ SetStop(s)

Next ==
    \/ Owner
    \/ Producer
    \/ \E s \in Senders : Sender(s)

Spec == Init /\ [][Next]_vars

\* The threads are scheduled, and every call in them returns: connect, send
\* and join have timeouts.  Nobody has to call start() or stop().
Fairness ==
    /\ WF_vars(StopContinues)
    /\ WF_vars(Producer)
    /\ \A s \in Senders : WF_vars(Sender(s))

FairSpec == Spec /\ Fairness
-------------------------------------------------------------------------------
(***************************************************************************)
(* Properties.                                                             *)
(***************************************************************************)

Records == [n : 0 .. MaxRecords - 1, drops : 0 .. MaxRecords,
            seq : 0 .. Wrap - 1, dropped : 0 .. Wrap - 1]

SenderStates == {"off", "loop", "connecting", "streaming", "position",
                 "recheck", "write", "sending", "rollback",
                 "tellFailed", "tellStored", "failed", "stored"}

BufferTypes ==
    /\ items \in Seq(Records)
    /\ Len(items) <= Capacity
    /\ droppedTotal \in 0 .. MaxRecords

ProducerTypes ==
    /\ nextSeq \in 0 .. Wrap - 1
    /\ ppc \in {"off", "loop", "push"}
    /\ made \in Records \cup {NoRecord}

SenderTypes ==
    /\ spc \in [Senders -> SenderStates]
    /\ payload \in [Senders -> Records \cup {NoRecord}]
    /\ position \in [Senders -> Nat \cup {NoPosition}]

OwnerTypes ==
    /\ mpc \in {"idle", "joinProducer", "joinSender", "close", "check", "raise"}
    /\ joining \in 0 .. MaxStarts
    /\ mpc \in {"joinProducer", "joinSender"} => joining \in Senders
    /\ starts \in 0 .. MaxStarts
    /\ outcome \in {"none", "returned", "raised"}

CaptureTypes == capture \in Seq(Records \cup {Torn})

HistoryTypes ==
    /\ produced \in 0 .. MaxRecords
    /\ popped \in Seq(Records)
    /\ sent \in Seq(Records)
    /\ sessionStart \in Nat
    /\ abandoned \subseteq Senders

FlagTypes ==
    /\ running \in BOOLEAN
    /\ stopEvent \in BOOLEAN
    /\ captureOpen \in BOOLEAN
    /\ captureError \in BOOLEAN
    /\ overlapped \in BOOLEAN
    /\ tainted \in BOOLEAN

\* Every variable has its type, the buffer never exceeds its capacity
\* (RingBuffer.push), and stop() joins a sender that exists.
TypeOK ==
    BufferTypes /\ ProducerTypes /\ SenderTypes /\ OwnerTypes
        /\ CaptureTypes /\ HistoryTypes /\ FlagTypes

\* The buffer holds the newest records without a hole, and dropped_total is
\* exactly the number of records that were neither taken nor are pending,
\* over any number of sessions and whatever the senders do.
BufferAccounting ==
    /\ \A i \in DOMAIN items : items[i].n = produced - Len(items) + i - 1
    /\ produced = droppedTotal + Len(popped) + Len(items)

\* What a consumer may conclude from the two counters of a record: the number
\* of records missing before it is its dropped_records_total, or more by at
\* most one buffer's worth, because the counter is read before the push
\* and the record waits while later pushes drop its predecessors.
\* (popped[i] is preceded by i - 1 records that left the buffer.)
DropCounterLag ==
    \A i \in DOMAIN popped :
        LET r == popped[i]
            missing == r.seq - InitialSeq - (i - 1)
        IN  (missing - r.dropped) % Wrap <= Capacity

\* Records reach the wire in the order of generation, over reconnections,
\* failed sends and restarts, unless a start() found an earlier sender that
\* stop() had given up on still alive.
StreamInOrder ==
    ~overlapped =>
        \A i, j \in DOMAIN sent : i < j => sent[i].n < sent[j].n

\* No record is sent twice, even by two senders at a time.
NoDuplicates ==
    \A i, j \in DOMAIN sent : sent[i].n = sent[j].n => i = j

\* What the senders have written to the capture file and not yet sent.
InFlight ==
    LET busy == {s \in Senders : spc[s] \in {"sending", "rollback"}}
    IN  IF busy = {} THEN <<>> ELSE <<payload[CHOOSE s \in busy : TRUE]>>

\* At every moment the capture file is what this session has sent, and the
\* record that is on its way; so a failed send leaves nothing behind.  It
\* takes that no capture call failed and that stop() did not close the file
\* under a sender it gave up on (_stream_to_consumer, stop).
CaptureFaithful ==
    CaptureEnabled /\ starts > 0 /\ ~tainted /\ ~overlapped
        /\ starts \notin abandoned
    => capture = SubSeq(sent, sessionStart + 1, Len(sent)) \o InFlight

\* Sender s has a capture error in hand that it has not stored yet.
HoldsError(s) == spc[s] \in {"failed", "tellFailed"}

\* A session in which a capture call failed, on whichever thread, does not
\* end in a stop() that returns as if nothing had happened; unless stop() gave
\* up on a sender, which may store its error after stop() has looked: then
\* the error is on its way to, or waits for, the next stop().
StopReportsCaptureFailure ==
    starts > 0 /\ tainted /\ ~running /\ mpc = "idle" =>
        \/ outcome = "raised"
        \/ /\ abandoned # {}
           /\ captureError \/ \E s \in abandoned : HoldsError(s)

\* When stop() has ended, the session's threads have, except for a sender it
\* gave up on.
StopJoins ==
    mpc = "idle" /\ ~running =>
        /\ ppc = "off"
        /\ \A s \in Senders \ abandoned : spc[s] = "off"

\* After stop() has ended, and until a later start(), the capture file is
\* final and nothing is generated, whatever a sender left behind does.
FinalAfterStop ==
    [][mpc = "idle" /\ ~running /\ starts' = starts =>
            capture' = capture /\ produced' = produced]_vars

\* The generator, the buffer and the pops behave like the abstract queue.
Fifo == INSTANCE LossyFifo WITH
            offered <- produced,
            oldest <- produced - Len(items),
            taken <- [i \in DOMAIN popped |-> popped[i].n]

ImplementsLossyFifo == Fifo!Spec

\* stop() always ends: a thread it joins sees the event, or its join expires.
StopEnds == mpc # "idle" ~> mpc = "idle"

\* A capture failure on the sender thread ends both threads by itself.  (The
\* antecedent is not captureError: one left behind by a stop() whose close()
\* raised is still set in the next session, and does not stop that.)
CaptureFailureEndsThreads ==
    tainted ~> /\ ppc = "off"
               /\ \A s \in Senders \ abandoned : spc[s] = "off"

Pending(n) == items # <<>> /\ Head(items).n = n

\* The consumer can be reached: a sender that keeps trying gets through.
ReachableConsumer == \A s \in Senders : SF_vars(ConnectOk(s))

\* If the consumer can be reached, no record waits at the head of the buffer
\* for ever while the session runs, after whatever failures.
HeadMoves ==
    ReachableConsumer =>
        \A n \in 0 .. MaxRecords - 1 :
            running /\ Pending(n) ~> ~Pending(n) \/ stopEvent
===============================================================================
