---------------------------- MODULE ConsumerServer ----------------------------
(***************************************************************************)
(* SensorConsumerServer (src/kc_sensor_mock/consumer.py): the server       *)
(* thread accepts one connection after the other, reads records from it    *)
(* and submits them to the exporter of its session; the owner's thread     *)
(* calls start() and stop().  The producers at the other end send, stall   *)
(* and disconnect as they like, and TCP hands over what they sent in       *)
(* pieces.                                                                 *)
(*                                                                         *)
(* The bytes of a connection are numbered, and RecordSize of them in a row *)
(* are a record.  Servers and exporters are numbered by the start() that   *)
(* made them, since a server thread that outlives the join of stop() runs  *)
(* on.  Of the exporter only what the server sees is modelled: that a      *)
(* write may fail at any time, and that stop() then raises.                *)
(***************************************************************************)
EXTENDS Integers, Sequences, FiniteSets, Functions

CONSTANTS
    Conns,              \* the connections producers may make
    NoConn,             \* no connection
    RecordSize,         \* RECORD_SIZE, in the pieces that recv() may return
    ExportEnabled,      \* parquet_enabled, with an output directory
    MaxStarts,          \* bound: calls of start()
    MaxFrames,          \* bound: records sent on a connection
    MaxBytes            \* bound: bytes sent on all of them

ASSUME ConsumerServerAssumption ==
    /\ IsFiniteSet(Conns)
    /\ NoConn \notin Conns
    /\ RecordSize \in Nat \ {0}
    /\ ExportEnabled \in BOOLEAN
    /\ MaxStarts \in Nat
    /\ {MaxFrames, MaxBytes} \subseteq Nat

Servers == 1 .. MaxStarts
Bytes == 1 .. RecordSize * MaxFrames

VARIABLES
    \* shared by the threads; 0 is None
    stopEvent,          \* _stop_event
    listener,           \* _listener
    exporter,           \* _exporter
    \* the server threads
    spc,                \* "off", what the thread does next, or "done"
    accepting,          \* listener, in _accept_loop
    conn,               \* producer_socket
    data,               \* data, in recv_exact: the bytes read so far
    using,              \* exporter, in _read_from_producer
    \* the owner's thread
    opc,                \* "idle", or the part of stop() it is in
    serverThread,       \* _server_thread
    starts,             \* calls of start() that got as far as the exporter
    \* the exporters
    failed,             \* exporters with a health error
    stopped,            \* exporters whose stop() has ended
    \* the connections
    link,               \* "new", "pending", "open", or "closed" by the server
    backlog,            \* the pending connections, in order
    sentBytes,          \* how many bytes the producer sent
    gotBytes,           \* how many of them the server has read
    malformed,          \* a record the producer sent malformed, or 0
    gone,               \* connections the producer has closed
    \* history
    received,           \* the records decoded from a connection, in order
    abandoned,          \* servers whose join timed out
    overlapped          \* did start() ever find an earlier server alive?

sharedVars == <<stopEvent, listener, exporter>>
serverVars == <<spc, accepting, conn, data, using>>
ownerVars == <<opc, serverThread, starts, abandoned, overlapped>>
exporterVars == <<failed, stopped>>
linkVars == <<link, backlog>>
wireVars == <<sentBytes, gotBytes, malformed, gone>>
vars == <<sharedVars, serverVars, ownerVars, exporterVars, linkVars, wireVars,
          received>>

Init ==
    /\ stopEvent = FALSE
    /\ listener = 0
    /\ exporter = 0
    /\ spc = [s \in Servers |-> "off"]
    /\ accepting = [s \in Servers |-> 0]
    /\ conn = [s \in Servers |-> NoConn]
    /\ data = [s \in Servers |-> <<>>]
    /\ using = [s \in Servers |-> 0]
    /\ opc = "idle"
    /\ serverThread = 0
    /\ starts = 0
    /\ failed = {}
    /\ stopped = {}
    /\ link = [c \in Conns |-> "new"]
    /\ backlog = <<>>
    /\ sentBytes = [c \in Conns |-> 0]
    /\ gotBytes = [c \in Conns |-> 0]
    /\ malformed = [c \in Conns |-> 0]
    /\ gone = {}
    /\ received = [c \in Conns |-> <<>>]
    /\ abandoned = {}
    /\ overlapped = FALSE

Alive == {s \in Servers : spc[s] \notin {"off", "done"}}
-------------------------------------------------------------------------------
(***************************************************************************)
(* The owner's thread.                                                     *)
(***************************************************************************)

CanStart == opc = "idle" /\ listener = 0 /\ starts < MaxStarts

\* start() that cannot bind its address has cleared the stop event already.
StartFailsToBind ==
    /\ CanStart
    /\ stopEvent' = FALSE
    /\ UNCHANGED <<listener, exporter, serverVars, ownerVars, exporterVars,
                   linkVars, wireVars, received>>

Start ==
    /\ CanStart
    /\ stopEvent' = FALSE
    /\ starts' = starts + 1
    /\ listener' = starts'
    /\ exporter' = IF ExportEnabled THEN starts' ELSE exporter
    /\ serverThread' = starts'
    /\ spc' = [spc EXCEPT ![starts'] = "accept"]
    /\ overlapped' = (overlapped \/ Alive # {})
    /\ UNCHANGED <<accepting, conn, data, using, opc, abandoned, exporterVars,
                   linkVars, wireVars, received>>

\* The exporter of start() has raised: the listener stays, without a thread.
StartFailsToExport ==
    /\ CanStart
    /\ ExportEnabled
    /\ stopEvent' = FALSE
    /\ starts' = starts + 1
    /\ listener' = starts'
    /\ exporter' = starts'
    /\ failed' = failed \cup {starts'}
    /\ UNCHANGED <<serverVars, opc, serverThread, abandoned, overlapped, stopped,
                   linkVars, wireVars, received>>

StopBegin ==
    /\ opc = "idle"
    /\ listener # 0 \/ exporter # 0
    /\ stopEvent' = TRUE
    /\ opc' = "listener"
    /\ UNCHANGED <<listener, exporter, serverVars, serverThread, starts,
                   abandoned, overlapped, exporterVars, linkVars, wireVars,
                   received>>

\* Mutation: the reference is dropped and the socket is not closed.
CloseListenerForgotten ==
    /\ opc = "listener"
    /\ listener' = 0
    /\ opc' = "join"
    /\ UNCHANGED <<stopEvent, exporter, serverVars, serverThread, starts,
                   abandoned, overlapped, exporterVars, linkVars, wireVars,
                   received>>

\* Closing the listener resets the connections that wait to be accepted.
CloseListener ==
    /\ opc = "listener"
    /\ listener' = 0
    /\ link' = [c \in Conns |-> IF link[c] = "pending" THEN "closed" ELSE link[c]]
    /\ backlog' = <<>>
    /\ opc' = "join"
    /\ UNCHANGED <<stopEvent, exporter, serverVars, serverThread, starts,
                   abandoned, overlapped, exporterVars, wireVars, received>>

\* Mutation: stop() does not wait for the server thread.
JoinServerEarly ==
    /\ opc = "join"
    /\ serverThread' = 0
    /\ opc' = "exporter"
    /\ UNCHANGED <<sharedVars, serverVars, starts, abandoned, overlapped,
                   exporterVars, linkVars, wireVars, received>>

\* Mutation: the join has no timeout.
JoinServerForEver ==
    /\ opc = "join"
    /\ serverThread \notin Alive
    /\ serverThread' = 0
    /\ opc' = "exporter"
    /\ UNCHANGED <<sharedVars, serverVars, starts, abandoned, overlapped,
                   exporterVars, linkVars, wireVars, received>>

\* join(timeout=2.0): the thread has ended, or it may be waiting in recv(),
\* which has no timeout, and stop() goes on without it.
JoinServer ==
    /\ opc = "join"
    /\ abandoned' = abandoned \cup ({serverThread} \cap Alive)
    /\ serverThread' = 0
    /\ opc' = "exporter"
    /\ UNCHANGED <<sharedVars, serverVars, starts, overlapped, exporterVars,
                   linkVars, wireVars, received>>

\* exporter.stop() raises the health error and so does stop(), and the exporter
\* stays where it is.
StopExporter ==
    /\ opc = "exporter"
    /\ stopped' = stopped \cup ({exporter} \ {0})
    /\ exporter' = IF exporter \in failed THEN exporter ELSE 0
    /\ opc' = "idle"
    /\ UNCHANGED <<stopEvent, listener, serverVars, serverThread, starts,
                   abandoned, overlapped, failed, linkVars, wireVars, received>>
-------------------------------------------------------------------------------
(***************************************************************************)
(* A server thread.                                                        *)
(***************************************************************************)

\* The `with` closes the connection and the thread goes back to accept.
Hangup(s) ==
    /\ spc' = [spc EXCEPT ![s] = "accept"]
    /\ link' = [link EXCEPT ![conn[s]] = "closed"]
    /\ conn' = [conn EXCEPT ![s] = NoConn]
    /\ data' = [data EXCEPT ![s] = <<>>]
    /\ using' = [using EXCEPT ![s] = 0]

\* The top of _accept_loop.
AcceptLoop(s) ==
    /\ spc[s] = "accept"
    /\ \/ /\ stopEvent \/ listener = 0
          /\ spc' = [spc EXCEPT ![s] = "done"]
          /\ accepting' = [accepting EXCEPT ![s] = 0]
       \/ /\ ~stopEvent /\ listener # 0
          /\ spc' = [spc EXCEPT ![s] = "accepting"]
          /\ accepting' = [accepting EXCEPT ![s] = listener]
    /\ UNCHANGED <<sharedVars, conn, data, using, ownerVars, exporterVars,
                   linkVars, wireVars, received>>

\* accept() returns the connection that has waited longest.
Accept(s) ==
    /\ spc[s] = "accepting"
    /\ accepting[s] = listener
    /\ backlog # <<>>
    /\ backlog' = Tail(backlog)
    /\ link' = [link EXCEPT ![Head(backlog)] = "open"]
    /\ conn' = [conn EXCEPT ![s] = Head(backlog)]
    /\ spc' = [spc EXCEPT ![s] = "read"]
    /\ UNCHANGED <<sharedVars, accepting, data, using, ownerVars, exporterVars,
                   wireVars, received>>

\* accept() times out (0.2 s), or its socket has been closed.
AcceptFails(s) ==
    /\ spc[s] = "accepting"
    /\ spc' = [spc EXCEPT ![s] = "accept"]
    /\ UNCHANGED <<sharedVars, accepting, conn, data, using, ownerVars,
                   exporterVars, linkVars, wireVars, received>>

\* The top of _read_from_producer's loop.
ReadLoop(s) ==
    /\ spc[s] = "read"
    /\ \/ stopEvent /\ Hangup(s)
       \/ /\ ~stopEvent
          /\ spc' = [spc EXCEPT ![s] = "recv"]
          /\ data' = [data EXCEPT ![s] = <<>>]
          /\ UNCHANGED <<conn, using, link>>
    /\ UNCHANGED <<sharedVars, accepting, ownerVars, exporterVars, backlog,
                   wireVars, received>>

\* Mutation: recv_exact asks for a whole record each time.
WantedWhole(s) == RecordSize

\* What recv_exact asks recv() for: the rest of the record.
Wanted(s) == RecordSize - Len(data[s])

\* recv_exact: recv() returns what has arrived, as far as it is asked for.
Recv(s) ==
    /\ spc[s] = "recv"
    /\ \E n \in 1 .. Wanted(s) :
        LET first == gotBytes[conn[s]] + 1
            read  == data[s] \o [i \in 1 .. n |-> first + i - 1]
        IN  /\ n <= sentBytes[conn[s]] - gotBytes[conn[s]]
            /\ gotBytes' = [gotBytes EXCEPT ![conn[s]] = @ + n]
            /\ data' = [data EXCEPT ![s] = read]
            /\ spc' = IF Len(read) < RecordSize
                      THEN spc ELSE [spc EXCEPT ![s] = "decode"]
    /\ UNCHANGED <<sharedVars, accepting, conn, using, ownerVars, exporterVars,
                   linkVars, sentBytes, malformed, gone, received>>

\* Mutation: a connection that has ended is read again.
RecvEndsUnseen(s) ==
    /\ spc[s] = "recv"
    /\ conn[s] \in gone
    /\ sentBytes[conn[s]] = gotBytes[conn[s]]
    /\ spc' = [spc EXCEPT ![s] = "read"]
    /\ data' = [data EXCEPT ![s] = <<>>]
    /\ UNCHANGED <<sharedVars, accepting, conn, using, ownerVars, exporterVars,
                   linkVars, wireVars, received>>

\* recv() returns nothing, or the connection was reset: what was read of a
\* record is given up.
RecvEnds(s) ==
    /\ spc[s] = "recv"
    /\ conn[s] \in gone
    /\ sentBytes[conn[s]] = gotBytes[conn[s]]
    /\ Hangup(s)
    /\ UNCHANGED <<sharedVars, accepting, ownerVars, exporterVars, backlog,
                   wireVars, received>>

\* The record that byte b belongs to.
FrameOf(b) == (b - 1) \div RecordSize + 1

\* Mutation: a malformed record is skipped.
DecodeFailsSkipping(s) ==
    /\ spc[s] = "decode"
    /\ FrameOf(data[s][1]) = malformed[conn[s]]
    /\ spc' = [spc EXCEPT ![s] = "read"]
    /\ UNCHANGED <<sharedVars, accepting, conn, data, using, ownerVars,
                   exporterVars, linkVars, wireVars, received>>

\* Mutation: the thread goes back to accept and leaves the connection open.
DecodeFailsLeavingOpen(s) ==
    /\ spc[s] = "decode"
    /\ FrameOf(data[s][1]) = malformed[conn[s]]
    /\ spc' = [spc EXCEPT ![s] = "accept"]
    /\ conn' = [conn EXCEPT ![s] = NoConn]
    /\ UNCHANGED <<sharedVars, accepting, data, using, ownerVars, exporterVars,
                   linkVars, wireVars, received>>

\* decode_record raises: the connection is closed.
DecodeFails(s) ==
    /\ spc[s] = "decode"
    /\ FrameOf(data[s][1]) = malformed[conn[s]]
    /\ Hangup(s)
    /\ UNCHANGED <<sharedVars, accepting, ownerVars, exporterVars, backlog,
                   wireVars, received>>

\* The record that has been read, as it is used.
Receive(s, isLate, hasFailed) ==
    received' = [received EXCEPT ![conn[s]] =
                    Append(@, [bytes |-> data[s], late |-> isLate,
                               failed |-> hasFailed, by |-> s])]

\* The record is decoded and _exporter is looked up; without an exporter the
\* record has no use.
Decode(s) ==
    /\ spc[s] = "decode"
    /\ FrameOf(data[s][1]) # malformed[conn[s]]
    /\ using' = [using EXCEPT ![s] = exporter]
    /\ spc' = [spc EXCEPT ![s] = IF exporter = 0 THEN "read" ELSE "submit"]
    /\ \/ exporter = 0 /\ Receive(s, FALSE, FALSE)
       \/ exporter # 0 /\ UNCHANGED received
    /\ UNCHANGED <<sharedVars, accepting, conn, data, ownerVars, exporterVars,
                   linkVars, wireVars>>

\* exporter.submit(record), to an exporter that may have failed or stopped.
Submit(s) ==
    /\ spc[s] = "submit"
    /\ Receive(s, using[s] \in stopped, using[s] \in failed)
    /\ spc' = [spc EXCEPT ![s] = "health"]
    /\ UNCHANGED <<sharedVars, accepting, conn, data, using, ownerVars,
                   exporterVars, linkVars, wireVars>>

\* exporter.check_health(): a failure closes the connection.
CheckHealth(s) ==
    /\ spc[s] = "health"
    /\ \/ using[s] \in failed /\ Hangup(s)
       \/ /\ using[s] \notin failed
          /\ spc' = [spc EXCEPT ![s] = "read"]
          /\ UNCHANGED <<conn, data, using, link>>
    /\ UNCHANGED <<sharedVars, accepting, ownerVars, exporterVars, backlog,
                   wireVars, received>>
-------------------------------------------------------------------------------
(***************************************************************************)
(* The environment: the writer of an exporter, the producers, TCP.         *)
(***************************************************************************)

\* The writer of an exporter that has not stopped fails to write a file.
WriteFails(e) ==
    /\ ExportEnabled
    /\ e \in 1 .. starts
    /\ e \notin failed \cup stopped
    /\ failed' = failed \cup {e}
    /\ UNCHANGED <<sharedVars, serverVars, ownerVars, stopped, linkVars,
                   wireVars, received>>

Connect(c) ==
    /\ link[c] = "new"
    /\ listener # 0
    /\ link' = [link EXCEPT ![c] = "pending"]
    /\ backlog' = Append(backlog, c)
    /\ UNCHANGED <<sharedVars, serverVars, ownerVars, exporterVars, wireVars,
                   received>>

\* The next byte arrives; it may begin a record that is malformed, as one of an
\* unknown measurement type is.
Send(c) ==
    /\ link[c] \in {"pending", "open"}
    /\ c \notin gone
    /\ sentBytes[c] < RecordSize * MaxFrames
    /\ SumFunction(sentBytes) < MaxBytes
    /\ sentBytes' = [sentBytes EXCEPT ![c] = @ + 1]
    /\ \/ UNCHANGED malformed
       \/ /\ sentBytes[c] % RecordSize = 0
          /\ malformed[c] = 0
          /\ malformed' = [malformed EXCEPT ![c] = FrameOf(sentBytes[c] + 1)]
    /\ UNCHANGED <<sharedVars, serverVars, ownerVars, exporterVars, linkVars,
                   gotBytes, gone, received>>

\* The producer closes the connection, or it breaks; what has not been read by
\* then may be lost.
Disconnect(c) ==
    /\ link[c] \in {"pending", "open"}
    /\ c \notin gone
    /\ gone' = gone \cup {c}
    /\ \E n \in gotBytes[c] .. sentBytes[c] :
          sentBytes' = [sentBytes EXCEPT ![c] = n]
    /\ UNCHANGED <<sharedVars, serverVars, ownerVars, exporterVars, linkVars,
                   gotBytes, malformed, received>>
-------------------------------------------------------------------------------
Owner ==
    \/ StartFailsToBind \/ Start \/ StartFailsToExport
    \/ StopBegin \/ CloseListener \/ JoinServer \/ StopExporter

Server(s) ==
    \/ AcceptLoop(s) \/ Accept(s) \/ AcceptFails(s)
    \/ ReadLoop(s) \/ Recv(s) \/ RecvEnds(s)
    \/ DecodeFails(s) \/ Decode(s) \/ Submit(s) \/ CheckHealth(s)

Producer(c) == Connect(c) \/ Send(c) \/ Disconnect(c)

Next ==
    \/ Owner
    \/ \E s \in Servers : Server(s)
    \/ \E e \in Servers : WriteFails(e)
    \/ \E c \in Conns : Producer(c)

Spec == Init /\ [][Next]_vars

\* The calls of stop() end, since both joins have a timeout; the server thread
\* runs; and accept() takes a connection that waits while it is being called.
Fairness ==
    /\ WF_vars(CloseListener \/ JoinServer \/ StopExporter)
    /\ \A s \in Servers : WF_vars(Server(s)) /\ SF_vars(Accept(s))

FairSpec == Spec /\ Fairness
-------------------------------------------------------------------------------
(***************************************************************************)
(* Properties.                                                             *)
(***************************************************************************)

OwnerTypes ==
    /\ stopEvent \in BOOLEAN
    /\ overlapped \in BOOLEAN
    /\ listener \in 0 .. MaxStarts
    /\ exporter \in 0 .. MaxStarts
    /\ opc \in {"idle", "listener", "join", "exporter"}
    /\ serverThread \in 0 .. MaxStarts
    /\ starts \in 0 .. MaxStarts
    /\ failed \subseteq Servers
    /\ stopped \subseteq Servers
    /\ abandoned \subseteq Servers

ServerTypes ==
    /\ spc \in [Servers -> {"off", "accept", "accepting", "read", "recv",
                            "decode", "submit", "health", "done"}]
    /\ accepting \in [Servers -> 0 .. MaxStarts]
    /\ conn \in [Servers -> Conns \cup {NoConn}]
    /\ using \in [Servers -> 0 .. MaxStarts]
    /\ data \in [Servers -> Seq(Bytes)]
    /\ \A s \in Servers : Len(data[s]) <= RecordSize

Records == [bytes : Seq(Bytes), late : BOOLEAN, failed : BOOLEAN, by : Servers]

WireTypes ==
    /\ link \in [Conns -> {"new", "pending", "open", "closed"}]
    /\ backlog \in Seq(Conns)
    /\ sentBytes \in [Conns -> 0 .. RecordSize * MaxFrames]
    /\ gotBytes \in [Conns -> 0 .. RecordSize * MaxFrames]
    /\ malformed \in [Conns -> 0 .. MaxFrames]
    /\ gone \subseteq Conns
    /\ received \in [Conns -> Seq(Records)]

\* Every variable has its type.
TypeOK == OwnerTypes /\ ServerTypes /\ WireTypes

\* However TCP cuts the stream, and whoever connected before, the records of a
\* connection are the first ones its producer sent, whole, in order and without
\* a gap, and none from its first malformed record on.
RecordsAreWhole ==
    \A c \in Conns : \A k \in DOMAIN received[c] :
        /\ received[c][k].bytes = [i \in 1 .. RecordSize |-> (k - 1) * RecordSize + i]
        /\ malformed[c] # 0 => k < malformed[c]

\* One connection is open at most, as long as no start() has found an earlier
\* server thread alive.
OneConnection ==
    ~overlapped => Cardinality({c \in Conns : link[c] = "open"}) <= 1

\* Once stop() has ended, if no server thread outlived one, nothing is left of
\* the session: no thread is alive, no connection is open or waits to be
\* accepted, and the exporter is gone, or has failed, and then it has been
\* stopped and stays for a stop() that is called again.
StopCloses ==
    opc = "idle" /\ listener = 0 /\ abandoned = {} =>
        /\ Alive = {}
        /\ \A c \in Conns : link[c] \notin {"pending", "open"}
        /\ exporter # 0 => exporter \in failed \cap stopped

\* A record is submitted to an exporter that has stopped, where nothing writes
\* it, only by a server thread that outlived the join.
LateOnlyIfAbandoned ==
    \A c \in Conns : \A k \in DOMAIN received[c] :
        received[c][k].late => received[c][k].by \in abandoned

\* stop() ends, whatever the producers and the server thread do.
ServerStopEnds == opc # "idle" ~> opc = "idle"

\* Every producer that has connected leaves in the end.  A server thread has no
\* other way out of a connection whose records are in order: recv() has no
\* timeout, and a producer that streams for ever is read for ever.
EveryProducerLeaves == \A c \in Conns : WF_vars(Disconnect(c))

\* If every producer leaves in the end, the server goes on accepting: a
\* connection does not wait for ever behind others, unless start() failed half
\* way and left the listener without a thread.  Without that premise nothing is
\* promised: one producer that streams on, or is silent, keeps the next waiting.
PendingIsServed ==
    EveryProducerLeaves =>
        \A c \in Conns :
            link[c] = "pending" /\ serverThread # 0 ~> link[c] # "pending"
-------------------------------------------------------------------------------
(***************************************************************************)
(* What the documents say and the code does not do.                        *)
(***************************************************************************)

\* "Treat the condition as fatal for the process": the record with which the
\* server notices a failed write is the last one it takes.
FailureIsFatal ==
    \A c, d \in Conns : \A k \in DOMAIN received[c], l \in DOMAIN received[d] :
        received[c][k].failed /\ received[d][l].failed => c = d /\ k = l
===============================================================================
