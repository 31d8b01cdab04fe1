----------------------------- MODULE StreamSystem -----------------------------
(***************************************************************************)
(* The producer and the consumer as one system: generator and ring buffer, *)
(* sender thread, TCP connections, server thread and parquet exporter, with *)
(* connections that break and programs that crash and are started again.   *)
(*                                                                         *)
(* The two ends are used by their contracts, which the detailed modules    *)
(* are shown to keep: SensorProducer implements LossyFifo, ParquetExporter *)
(* implements Archive.  Between them the steps are those of                *)
(* SensorProducer!_send_loop and ConsumerServer, a record at a time.       *)
(***************************************************************************)
EXTENDS Integers, Sequences, SequencesExt

CONSTANTS
    Capacity,           \* ring_buffer_capacity
    Room,               \* parquet_queue_capacity
    Window,             \* records a connection holds, sent and not yet received
    Backlog,            \* connections that wait for accept()
    MaxRecords,         \* bound: records offered in one life of the producer
    MaxLives,           \* bound: lives of the producer
    MaxFaults           \* bound: broken connections, failed writes and crashes

ASSUME StreamSystemAssumption ==
    /\ {Capacity, Window, Backlog, MaxLives} \subseteq Nat \ {0}
    /\ Room \in Int
    /\ {MaxRecords, MaxFaults} \subseteq Nat

VARIABLES
    \* the producer
    offered, oldest, taken,     \* the generator and the ring buffer: LossyFifo
    offersBefore,               \* history: what earlier lives have offered
    hand,                       \* payload: the record popped and not yet sent
    link,                       \* conn: number of its connection; 0 is none
    dialled,                    \* history: connections made
    \* the network
    conns,                      \* the connections the consumer's host has open
    \* the consumer
    owner,                      \* "up", the part of stop() it is in, or "down"
    server,                     \* "off", or what the server thread does next
    arrived,                    \* history: records submitted to the exporter
    pending, archived, owed, closing, failed,   \* the exporter: Archive
    \* history
    lossy,                      \* has the consumer ever lost a record it took?
    faults

producerVars == <<offered, oldest, taken, offersBefore, hand, link, dialled>>
exporterVars == <<arrived, pending, archived, owed, closing, failed, lossy>>
vars == <<producerVars, conns, owner, server, exporterVars, faults>>

Fifo == INSTANCE LossyFifo

Exporter == INSTANCE Archive WITH accepted <- Len(arrived)

NoRecord == [n |-> -1]

Life == Len(offersBefore) + 1

\* The record the sender pops: its number, and the number of the pop.
Popped == [life |-> Life, conn |-> link, n |-> oldest, nth |-> Len(taken)]

Init ==
    /\ Fifo!Init
    /\ offersBefore = <<>>
    /\ hand = NoRecord
    /\ link = 0
    /\ dialled = 0
    /\ conns = <<>>
    /\ owner = "up"
    /\ server = "accept"
    /\ arrived = <<>>
    /\ Exporter!Init
    /\ lossy = FALSE
    /\ faults = 0
-------------------------------------------------------------------------------
(***************************************************************************)
(* The producer.                                                           *)
(***************************************************************************)

Offer ==
    /\ offered < MaxRecords
    /\ Fifo!Offer
    /\ UNCHANGED <<offersBefore, hand, link, dialled, conns, owner, server,
                   exporterVars, faults>>

Listening == owner = "up"

\* create_connection succeeds as soon as the listener's backlog has a place,
\* whether or not the server thread is in accept().
Connect ==
    /\ link = 0
    /\ Listening
    /\ Len(SelectSeq(conns, LAMBDA c : ~c.accepted)) < Backlog
    /\ dialled' = dialled + 1
    /\ link' = dialled'
    /\ conns' = Append(conns, [id |-> dialled', data |-> <<>>, closed |-> FALSE,
                               accepted |-> FALSE])
    /\ UNCHANGED <<offered, oldest, taken, offersBefore, hand, owner, server,
                   exporterVars, faults>>

Take ==
    /\ link # 0
    /\ hand = NoRecord
    /\ Fifo!Take
    /\ hand' = Popped
    /\ UNCHANGED <<offersBefore, link, dialled, conns, owner, server,
                   exporterVars, faults>>

\* The connection of the sender, if the consumer's host still has it.
LinkAt == {i \in DOMAIN conns : conns[i].id = link}

\* sendall returns: the connection has room, or the consumer's end is gone
\* and the sender has not noticed yet.
SendOk ==
    /\ hand # NoRecord
    /\ \/ /\ LinkAt = {}
          /\ UNCHANGED conns
       \/ \E i \in LinkAt :
             /\ Len(conns[i].data) < Window
             /\ conns' = [conns EXCEPT ![i].data = Append(@, hand)]
    /\ hand' = NoRecord
    /\ UNCHANGED <<offered, oldest, taken, offersBefore, link, dialled, owner,
                   server, exporterVars, faults>>

\* What _send_loop does after a failed sendall: the record is forgotten and
\* the connection closed; what it holds can still be received.
LetGo ==
    /\ hand' = NoRecord
    /\ link' = 0
    /\ conns' = [i \in DOMAIN conns |->
                    IF i \in LinkAt THEN [conns[i] EXCEPT !.closed = TRUE]
                                    ELSE conns[i]]
    /\ UNCHANGED <<offered, oldest, taken, offersBefore, dialled, owner, server,
                   exporterVars>>

\* Mutation: the sender stays on its connection after the error.
SendFailsStaying ==
    /\ hand # NoRecord
    /\ hand' = NoRecord
    /\ UNCHANGED <<offered, oldest, taken, offersBefore, link, dialled, conns,
                   owner, server, exporterVars, faults>>

\* sendall raises because the consumer's end is gone.
SendFails ==
    /\ hand # NoRecord
    /\ LinkAt = {}
    /\ LetGo
    /\ UNCHANGED faults
-------------------------------------------------------------------------------
(***************************************************************************)
(* The consumer.                                                           *)
(***************************************************************************)

\* Mutation: the connection made last is served first.
AcceptConnNewest ==
    /\ server = "accept"
    /\ conns # <<>>
    /\ conns' = <<[Last(conns) EXCEPT !.accepted = TRUE]>> \o Front(conns)
    /\ server' = "recv"
    /\ UNCHANGED <<producerVars, owner, exporterVars, faults>>

\* The server thread serves the first connection, and only that.
AcceptConn ==
    /\ server = "accept"
    /\ conns # <<>>
    /\ conns' = [conns EXCEPT ![1].accepted = TRUE]
    /\ server' = "recv"
    /\ UNCHANGED <<producerVars, owner, exporterVars, faults>>

\* A whole record is received and submitted.
Receive ==
    /\ server = "recv"
    /\ conns[1].data # <<>>
    /\ conns' = [conns EXCEPT ![1].data = Tail(@)]
    /\ arrived' = Append(arrived, conns[1].data[1])
    /\ Exporter!Accept
    /\ server' = "check"
    /\ UNCHANGED <<producerVars, owner, lossy, faults>>

\* Where the server thread goes from a connection that is over.
NextAccept == IF owner = "up" THEN "accept" ELSE "off"

\* Leaving _read_from_producer closes the socket; the next one is accepted,
\* or the thread ends, as the stop event is set.
HangUp ==
    /\ conns' = Tail(conns)
    /\ server' = NextAccept

\* Mutation: the connection is given up after every record.
CheckHealthHangingUp ==
    /\ server = "check"
    /\ ~owed
    /\ HangUp
    /\ UNCHANGED <<producerVars, owner, exporterVars, faults>>

\* submit() has returned, check_health looks whether a write has failed, and
\* the loop whether the stop event is set.
CheckHealth ==
    /\ server = "check"
    /\ ~owed
    /\ \/ (failed \/ ~Listening) /\ HangUp
       \/ ~failed /\ Listening /\ server' = "recv" /\ UNCHANGED conns
    /\ UNCHANGED <<producerVars, owner, exporterVars, faults>>

\* Mutation: the end of a connection is taken for one that is only silent.
RecvEndsUnseen ==
    /\ server = "recv"
    /\ conns[1].data = <<>>
    /\ conns[1].closed
    /\ UNCHANGED vars

\* recv_exact meets the end of the connection.
RecvEnds ==
    /\ server = "recv"
    /\ conns[1].data = <<>>
    /\ conns[1].closed
    /\ HangUp
    /\ UNCHANGED <<producerVars, owner, exporterVars, faults>>

\* The rest of submit(), and the writer thread.
Export ==
    /\ UNCHANGED <<producerVars, conns, owner, server, arrived, faults>>
    /\ \/ Exporter!Overflow /\ lossy' = TRUE
       \/ (Exporter!Settle \/ Exporter!Write \/ Exporter!Skip)
            /\ UNCHANGED lossy

\* stop() sets the stop event and closes the listener, which resets the
\* connections that wait.  A thread in accept() ends; one in a connection reads
\* on until it comes to the loop again.
ConsumerStop ==
    /\ owner = "up"
    /\ owner' = "joining"
    /\ \/ /\ server = "accept"
          /\ server' = "off"
          /\ conns' = <<>>
       \/ /\ server \in {"recv", "check"}
          /\ conns' = <<conns[1]>>
          /\ UNCHANGED server
    /\ UNCHANGED <<producerVars, exporterVars>>

\* The server thread has ended, or the join gives it up after 2 s, and then it
\* may still submit what it reads.  The exporter is told to stop.
ConsumerJoined ==
    /\ owner = "joining"
    /\ owner' = "closing"
    /\ UNCHANGED <<producerVars, conns, server, arrived, lossy, faults>>
    /\ Exporter!Close

\* exporter.stop() has waited for the writer, but 6 s at most, and the process
\* ends, with the threads that are left: what is not written by then is lost.
ConsumerStopped ==
    /\ owner = "closing"
    /\ owner' = "down"
    /\ server' = "off"
    /\ conns' = <<>>
    /\ pending' = <<>>
    /\ owed' = FALSE
    /\ lossy' = (lossy \/ pending # <<>>)
    /\ UNCHANGED <<producerVars, arrived, archived, closing, failed, faults>>

\* The operator starts the consumer again, with an exporter that is new.
ConsumerRestart ==
    /\ owner = "down"
    /\ owner' = "up"
    /\ server' = "accept"
    /\ closing' = FALSE
    /\ failed' = FALSE
    /\ UNCHANGED <<producerVars, conns, arrived, pending, archived, owed, lossy,
                   faults>>
-------------------------------------------------------------------------------
(***************************************************************************)
(* Faults, and the stop of the consumer, which are bounded together.       *)
(***************************************************************************)

\* sendall gives up after 2 s on a connection that has no room.
SendTimesOut ==
    /\ hand # NoRecord
    /\ \E i \in LinkAt : Len(conns[i].data) = Window
    /\ LetGo

\* A connection is reset: what it holds is lost, and the server, if it reads
\* from it, goes on to the next.
Break ==
    /\ \E i \in DOMAIN conns :
          /\ conns' = RemoveAt(conns, i)
          /\ conns[i].accepted => server = "recv"
          /\ server' = IF conns[i].accepted THEN NextAccept ELSE server
    /\ UNCHANGED <<producerVars, owner, exporterVars>>

WriteFails ==
    /\ owner # "down"
    /\ ~failed
    /\ pending # <<>>
    /\ lossy' = TRUE
    /\ UNCHANGED <<producerVars, conns, owner, server, arrived>>
    /\ Exporter!Fail

\* The producer's process ends: the ring buffer is gone, the kernel closes
\* the connection.  Started again, it numbers its records from the beginning.
ProducerCrash ==
    /\ Life < MaxLives
    /\ offersBefore' = Append(offersBefore, offered)
    /\ offered' = 0
    /\ oldest' = 0
    /\ taken' = <<>>
    /\ hand' = NoRecord
    /\ link' = 0
    /\ conns' = [i \in DOMAIN conns |->
                    IF i \in LinkAt THEN [conns[i] EXCEPT !.closed = TRUE]
                                    ELSE conns[i]]
    /\ UNCHANGED <<dialled, owner, server, exporterVars>>

\* The consumer's process ends: connections, queue and batch are gone.
ConsumerCrash ==
    /\ owner # "down"
    /\ owner' = "down"
    /\ server' = "off"
    /\ conns' = <<>>
    /\ pending' = <<>>
    /\ owed' = FALSE
    /\ lossy' = TRUE
    /\ UNCHANGED <<producerVars, arrived, archived, closing, failed>>

Fault ==
    /\ faults < MaxFaults
    /\ faults' = faults + 1
    /\ \/ SendTimesOut \/ Break \/ WriteFails
       \/ ProducerCrash \/ ConsumerCrash \/ ConsumerStop
-------------------------------------------------------------------------------
Sender == Connect \/ Take \/ SendOk \/ SendFails

Server == AcceptConn \/ Receive \/ CheckHealth \/ RecvEnds

Owner == ConsumerJoined \/ ConsumerStopped \/ ConsumerRestart

Next == Offer \/ Sender \/ Server \/ Export \/ Owner \/ Fault

Spec == Init /\ [][Next]_vars

\* The threads are scheduled, the network carries what was sent, and a writer
\* that is not stuck writes what it holds (Exporter: BatchIsWritten).
FairSpec == Spec /\ WF_vars(Sender) /\ WF_vars(Server) /\ WF_vars(Export)
-------------------------------------------------------------------------------
(***************************************************************************)
(* Properties.                                                             *)
(***************************************************************************)

\* The system behaves like the abstract delivery: over any sequence of broken
\* connections, overflows, failed writes, crashes and restarts of either side,
\* nothing reaches the archive twice, out of order, or without being offered.
Promise == INSTANCE Delivery WITH
               offers <- Append(offersBefore, offered),
               archive <- [i \in DOMAIN archived |-> arrived[archived[i]]]

ImplementsDelivery == Promise!Spec

\* Two records that follow each other on one connection were popped one after
\* the other: what is missing between them was dropped by the ring buffer, and
\* so is counted in dropped_records_total.
GapsAreDrops ==
    \A i \in 2 .. Len(arrived) :
        arrived[i].conn = arrived[i - 1].conn => arrived[i].nth = arrived[i - 1].nth + 1

Wire == FlattenSeq([i \in DOMAIN conns |-> conns[i].data])

\* All that left the ring buffer and is not lost, from the archive to the hand.
Path ==
    [i \in DOMAIN (archived \o pending) |-> arrived[(archived \o pending)[i]]]
        \o Wire \o (IF hand = NoRecord THEN <<>> ELSE <<hand>>)

\* A consumer that has not crashed, failed to write or overflowed, and whose
\* stop() never gave the writer up with records to write, has archived what it
\* received, or is about to, stopped or not.  If there was no stop and no
\* connection broke either, every record popped from the ring buffer is archived
\* or on its way.
FaultFreeLossless ==
    ~lossy =>
        /\ archived \o pending = [k \in DOMAIN arrived |-> k]
        /\ faults = 0 =>
              /\ Len(Path) = Len(taken)
              /\ \A i \in DOMAIN Path : Path[i].nth = i - 1

Drained ==
    /\ oldest = offered
    /\ hand = NoRecord
    /\ Wire = <<>>
    /\ pending = <<>>

\* If the consumer is up from some time on, the system gets rid of everything
\* it holds, whatever has happened before: no connection that is dead, or that
\* waits in the backlog, blocks those after it.
Drains == <>[]Listening => <>[]Drained
===============================================================================
