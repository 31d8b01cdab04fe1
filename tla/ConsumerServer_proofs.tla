------------------------ MODULE ConsumerServer_proofs -------------------------
(***************************************************************************)
(* Proofs about ConsumerServer, for every set of connections, size of      *)
(* records, and number of starts, records and bytes.                       *)
(***************************************************************************)
EXTENDS ConsumerServer, DataLemmas, FiniteSetTheorems

(***************************************************************************)
(* What the actors leave alone.                                            *)
(***************************************************************************)

LEMMA OwnerFrame ==
    ASSUME Owner
    PROVE  UNCHANGED <<accepting, conn, data, using, sentBytes, gotBytes, malformed, gone,
                       received>>
  BY DEF Owner, StartFailsToBind, Start, StartFailsToExport, StopBegin, CloseListener,
         JoinServer, StopExporter, serverVars, wireVars

LEMMA ServerFrame ==
    ASSUME NEW s \in Servers, Server(s)
    PROVE  /\ UNCHANGED <<listener, exporter, opc, serverThread, starts, abandoned, failed,
                          stopped, sentBytes, malformed, gone>>
           /\ spc[s] \notin {"off", "done"}
  BY DEF Server, AcceptLoop, Accept, AcceptFails, ReadLoop, Recv, RecvEnds, DecodeFails,
         Decode, Submit, CheckHealth, sharedVars, ownerVars, exporterVars, wireVars

LEMMA ServerFlagsFrame ==
    ASSUME NEW s \in Servers, Server(s)
    PROVE  UNCHANGED <<stopEvent, overlapped>>
  BY DEF Server, AcceptLoop, Accept, AcceptFails, ReadLoop, Recv, RecvEnds, DecodeFails,
         Decode, Submit, CheckHealth, sharedVars, ownerVars

LEMMA WriteFailsFrame ==
    ASSUME NEW e \in Servers, WriteFails(e)
    PROVE  UNCHANGED <<sharedVars, serverVars, ownerVars, stopped, linkVars, wireVars, received>>
  BY DEF WriteFails

LEMMA ProducerFrame ==
    ASSUME NEW c \in Conns, Producer(c)
    PROVE  UNCHANGED <<sharedVars, serverVars, ownerVars, exporterVars, gotBytes, received>>
  BY DEF Producer, Connect, Send, Disconnect, wireVars
-------------------------------------------------------------------------------
(***************************************************************************)
(* Types.  A thread reads from a connection exactly where the code is in   *)
(* _read_from_producer.                                                    *)
(***************************************************************************)
Reading == {"read", "recv", "decode", "submit", "health"}

ReadsConn == \A s \in Servers : spc[s] \in Reading <=> conn[s] # NoConn

GotSent == \A c \in Conns : gotBytes[c] <= sentBytes[c]

NotStarted == \A s \in Servers : spc[s] = "off" \/ s <= starts

TypeInv == TypeOK /\ ReadsConn /\ GotSent /\ NotStarted

Total == RecordSize * MaxFrames

LEMMA Numbers ==
    /\ Total \in Nat
    /\ Bytes = 1 .. Total
    /\ RecordSize \in Nat \ {0} /\ MaxFrames \in Nat /\ MaxStarts \in Nat /\ MaxBytes \in Nat
    /\ Servers = 1 .. MaxStarts /\ NoConn \notin Conns
  BY ConsumerServerAssumption DEF Total, Bytes, Servers

LEMMA NextOwnerTypes ==
    ASSUME OwnerTypes, [Next]_vars
    PROVE  OwnerTypes'
  <1> USE Numbers DEF OwnerTypes
  <1>1. CASE Owner
    <2>1. CASE StartFailsToBind
      BY <2>1 DEF StartFailsToBind, ownerVars, exporterVars
    <2>2. CASE Start
      <3>1. starts' = starts + 1 /\ starts' \in Servers /\ listener' = starts'
        BY <2>2 DEF Start, CanStart
      <3>2. exporter' \in 0 .. MaxStarts /\ serverThread' = starts'
        BY <2>2, <3>1 DEF Start
      <3>3. stopEvent' \in BOOLEAN /\ overlapped' \in BOOLEAN
        BY <2>2 DEF Start
      <3>4. UNCHANGED <<opc, failed, stopped, abandoned>>
        BY <2>2 DEF Start, exporterVars
      <3> QED BY <3>1, <3>2, <3>3, <3>4
    <2>3. CASE StartFailsToExport
      <3>1. /\ starts' = starts + 1 /\ starts' \in Servers /\ listener' = starts'
            /\ exporter' = starts'
        BY <2>3 DEF StartFailsToExport, CanStart
      <3>2. failed' \subseteq Servers
        BY <2>3, <3>1 DEF StartFailsToExport
      <3>3. stopEvent' \in BOOLEAN /\ overlapped' \in BOOLEAN
        BY <2>3 DEF StartFailsToExport
      <3>4. UNCHANGED <<opc, serverThread, stopped, abandoned>>
        BY <2>3 DEF StartFailsToExport
      <3> QED BY <3>1, <3>2, <3>3, <3>4
    <2>4. CASE StopBegin
      BY <2>4 DEF StopBegin, exporterVars
    <2>5. CASE CloseListener
      BY <2>5 DEF CloseListener, exporterVars
    <2>6. CASE JoinServer
      <3>1. Alive \subseteq Servers
        BY DEF Alive
      <3>2. abandoned' \subseteq Servers /\ serverThread' = 0 /\ opc' = "exporter"
        BY <2>6, <3>1 DEF JoinServer
      <3> QED BY <2>6, <3>2 DEF JoinServer, sharedVars, exporterVars
    <2>7. CASE StopExporter
      BY <2>7 DEF StopExporter
    <2> QED BY <1>1, <2>1, <2>2, <2>3, <2>4, <2>5, <2>6, <2>7 DEF Owner
  <1>2. CASE \E s \in Servers : Server(s)
    <2>1. UNCHANGED <<listener, exporter, opc, serverThread, starts, abandoned, failed, stopped>>
      BY <1>2, ServerFrame
    <2>2. UNCHANGED <<stopEvent, overlapped>>
      BY <1>2, ServerFlagsFrame
    <2> QED BY <2>1, <2>2
  <1>3. CASE \E e \in Servers : WriteFails(e)
    BY <1>3 DEF WriteFails, sharedVars, ownerVars
  <1>4. CASE \E c \in Conns : Producer(c)
    <2>1. UNCHANGED <<sharedVars, ownerVars, exporterVars>>
      BY <1>4, ProducerFrame
    <2> QED BY <2>1 DEF sharedVars, ownerVars, exporterVars
  <1>5. CASE UNCHANGED vars
    BY <1>5 DEF vars, sharedVars, ownerVars, exporterVars
  <1> QED BY <1>1, <1>2, <1>3, <1>4, <1>5 DEF Next

\* The next n bytes after g, appended.
Piece(g, n) == [i \in 1 .. n |-> g + 1 + i - 1]

LEMMA PieceAppended ==
    ASSUME NEW d \in Seq(Bytes), NEW g \in Nat, NEW n \in Nat, g + n <= Total
    PROVE  /\ d \o Piece(g, n) \in Seq(Bytes)
           /\ Len(d \o Piece(g, n)) = Len(d) + n
           /\ \A i \in 1 .. Len(d) + n :
                 (d \o Piece(g, n))[i] = IF i <= Len(d) THEN d[i] ELSE g + (i - Len(d))
  <1>1. /\ Piece(g, n) \in [1 .. n -> Bytes]
        /\ \A i \in 1 .. n : Piece(g, n)[i] = g + i
    BY Numbers DEF Piece
  <1>2. Piece(g, n) \in Seq(Bytes) /\ Len(Piece(g, n)) = n
    BY <1>1
  <1>3. /\ d \o Piece(g, n) \in Seq(Bytes) /\ Len(d \o Piece(g, n)) = Len(d) + n
        /\ \A i \in 1 .. Len(d) + n :
              (d \o Piece(g, n))[i] = IF i <= Len(d) THEN d[i] ELSE Piece(g, n)[i - Len(d)]
    BY <1>2, ConcatProperties
  <1>4. Len(d) \in Nat
    BY LenProperties
  <1>5. ASSUME NEW i \in 1 .. Len(d) + n, ~(i <= Len(d))
        PROVE  (d \o Piece(g, n))[i] = g + (i - Len(d))
    <2>1. i - Len(d) \in 1 .. n
      BY <1>4, <1>5
    <2> QED BY <1>1, <1>3, <1>5, <2>1
  <1>6. \A i \in 1 .. Len(d) + n : i <= Len(d) => (d \o Piece(g, n))[i] = d[i]
    BY <1>3, <1>4
  <1> QED BY <1>3, <1>4, <1>5, <1>6

\* The sequence q is d and the n bytes after g.
Extended(q, d, g, n) ==
    \A i \in 1 .. Len(d) + n : q[i] = IF i <= Len(d) THEN d[i] ELSE g + (i - Len(d))

\* What recv() has read is of the connection, and no more than a record.
LEMMA RecvReads ==
    ASSUME TypeInv, NEW s \in Servers, spc[s] = "recv", NEW n \in 1 .. Wanted(s),
           n <= sentBytes[conn[s]] - gotBytes[conn[s]],
           NEW read, read = data[s] \o Piece(gotBytes[conn[s]], n)
    PROVE  /\ conn[s] \in Conns
           /\ n \in Nat \ {0}
           /\ read \in Seq(Bytes) /\ Len(read) = Len(data[s]) + n /\ Len(read) <= RecordSize
           /\ Extended(read, data[s], gotBytes[conn[s]], n)
           /\ gotBytes[conn[s]] + n \in 0 .. Total
           /\ gotBytes[conn[s]] + n <= sentBytes[conn[s]]
  <1>1. conn[s] \in Conns
    BY DEF ReadsConn, Reading, TypeInv, TypeOK, ServerTypes
  <1>2. data[s] \in Seq(Bytes) /\ Len(data[s]) \in Nat /\ Len(data[s]) <= RecordSize
    BY LenProperties DEF TypeInv, TypeOK, ServerTypes
  <1>3. gotBytes[conn[s]] \in 0 .. Total /\ sentBytes[conn[s]] \in 0 .. Total
    BY <1>1 DEF TypeInv, TypeOK, WireTypes, Total
  <1>4. n \in Nat \ {0} /\ Len(data[s]) + n <= RecordSize
    BY <1>2, Numbers DEF Wanted
  <1>5. gotBytes[conn[s]] + n <= Total /\ gotBytes[conn[s]] + n <= sentBytes[conn[s]]
    BY <1>3, <1>4, Numbers
  <1>6. PICK d \in Seq(Bytes), g \in Nat : d = data[s] /\ g = gotBytes[conn[s]]
    BY <1>2, <1>3, Numbers
  <1>7. g + n <= Total /\ n \in Nat
    BY <1>4, <1>5, <1>6
  <1>8. /\ d \o Piece(g, n) \in Seq(Bytes)
        /\ Len(d \o Piece(g, n)) = Len(d) + n
        /\ \A i \in 1 .. Len(d) + n :
              (d \o Piece(g, n))[i] = IF i <= Len(d) THEN d[i] ELSE g + (i - Len(d))
    BY <1>7, PieceAppended
  <1>9. read = d \o Piece(g, n)
    BY <1>6
  <1>10. /\ read \in Seq(Bytes) /\ Len(read) = Len(d) + n
         /\ \A i \in 1 .. Len(d) + n :
              read[i] = IF i <= Len(d) THEN d[i] ELSE g + (i - Len(d))
    BY <1>8, <1>9
  <1>11. /\ read \in Seq(Bytes) /\ Len(read) = Len(data[s]) + n
         /\ \A i \in 1 .. Len(data[s]) + n :
              read[i] = IF i <= Len(data[s]) THEN data[s][i]
                        ELSE gotBytes[conn[s]] + (i - Len(data[s]))
    BY <1>6, <1>10
  <1>12. Len(read) <= RecordSize
    BY <1>4, <1>11
  <1>13. gotBytes[conn[s]] + n \in 0 .. Total
    BY <1>3, <1>4, <1>5, Numbers
  <1> QED BY <1>1, <1>4, <1>5, <1>11, <1>12, <1>13 DEF Extended

\* A step of a thread changes where that thread is.
LEMMA ServerMoves ==
    ASSUME ServerTypes, NEW s \in Servers, Server(s)
    PROVE  \A t \in Servers : t # s => spc'[t] = spc[t]
  BY DEF ServerTypes, Server, AcceptLoop, Accept, AcceptFails, ReadLoop, Recv, RecvEnds,
         DecodeFails, Decode, Submit, CheckHealth, Hangup

LEMMA NextNotStarted ==
    ASSUME TypeInv, [Next]_vars
    PROVE  NotStarted'
  <1> USE DEF TypeInv, TypeOK, NotStarted
  <1>1. CASE Owner
    <2>1. CASE Start
      <3>1. starts' = starts + 1 /\ spc' = [spc EXCEPT ![starts + 1] = "accept"]
        BY <2>1 DEF Start
      <3> QED BY <3>1, Numbers DEF OwnerTypes, ServerTypes
    <2>2. CASE StartFailsToExport
      <3>1. starts' = starts + 1 /\ spc' = spc
        BY <2>2 DEF StartFailsToExport, serverVars
      <3> QED BY <3>1, Numbers DEF OwnerTypes
    <2>3. CASE UNCHANGED <<starts, spc>>
      BY <2>3
    <2> QED BY <1>1, <2>1, <2>2, <2>3 DEF Owner, StartFailsToBind, StopBegin,
            CloseListener, JoinServer, StopExporter, serverVars, ownerVars
  <1>2. ASSUME NEW s \in Servers, Server(s) PROVE NotStarted'
    <2>1. starts' = starts /\ spc[s] # "off" /\ \A t \in Servers : t # s => spc'[t] = spc[t]
      BY <1>2, ServerFrame, ServerMoves
    <2> QED BY <2>1
  <1>3. CASE \E e \in Servers : WriteFails(e)
    BY <1>3 DEF WriteFails, serverVars, ownerVars
  <1>4. CASE \E c \in Conns : Producer(c)
    <2>1. UNCHANGED <<serverVars, ownerVars>>
      BY <1>4, ProducerFrame
    <2> QED BY <2>1 DEF serverVars, ownerVars
  <1>5. CASE UNCHANGED vars
    BY <1>5 DEF vars, serverVars, ownerVars
  <1> QED BY <1>1, <1>2, <1>3, <1>4, <1>5 DEF Next

LEMMA NextServerTypes ==
    ASSUME TypeInv, [Next]_vars
    PROVE  ServerTypes' /\ ReadsConn'
  <1> USE Numbers DEF TypeInv, TypeOK, ServerTypes, ReadsConn, Reading
  <1>1. CASE Owner
    <2>0. UNCHANGED <<accepting, conn, data, using>>
      BY <1>1, OwnerFrame
    <2>1. CASE Start
      <3>1. starts + 1 \in Servers /\ spc' = [spc EXCEPT ![starts + 1] = "accept"]
        BY <2>1 DEF Start, CanStart, OwnerTypes
      <3>2. ServerTypes'
        BY <2>0, <3>1
      <3>3. conn[starts + 1] = NoConn
        <4>1. starts + 1 \in Servers /\ ~(starts + 1 <= starts)
          BY <3>1 DEF OwnerTypes
        <4>2. spc[starts + 1] = "off"
          BY <4>1 DEF NotStarted
        <4> QED BY <4>1, <4>2
      <3> QED BY <2>0, <3>1, <3>2, <3>3
    <2>2. CASE UNCHANGED spc
      BY <2>0, <2>2
    <2> QED BY <1>1, <2>1, <2>2 DEF Owner, StartFailsToBind, StartFailsToExport, StopBegin,
            CloseListener, JoinServer, StopExporter, serverVars
  <1>2. ASSUME NEW s \in Servers, Server(s) PROVE ServerTypes' /\ ReadsConn'
    <2>h. CASE Hangup(s) /\ UNCHANGED accepting /\ spc[s] \in Reading
      <3>1. <<>> \in Seq(Bytes) /\ Len(<<>>) = 0
        BY EmptySeq
      <3> QED BY <2>h, <3>1 DEF Hangup
    <2>1. CASE AcceptLoop(s)
      <3>1. spc' = [spc EXCEPT ![s] = "done"] \/ spc' = [spc EXCEPT ![s] = "accepting"]
        BY <2>1 DEF AcceptLoop
      <3>2. accepting' \in [Servers -> 0 .. MaxStarts]
        <4>1. \/ accepting' = [accepting EXCEPT ![s] = 0]
              \/ accepting' = [accepting EXCEPT ![s] = listener]
          BY <2>1 DEF AcceptLoop
        <4>2. listener \in 0 .. MaxStarts /\ 0 \in 0 .. MaxStarts
          BY DEF OwnerTypes
        <4> QED BY ZenonT(30), <4>1, <4>2
      <3>3. spc[s] = "accept" /\ UNCHANGED <<conn, data, using>>
        BY <2>1 DEF AcceptLoop
      <3> QED BY <3>1, <3>2, <3>3
    <2>2. CASE Accept(s)
      <3>1. Head(backlog) \in Conns
        BY <2>2, HeadTailProperties DEF Accept, WireTypes
      <3> QED BY <2>2, <3>1 DEF Accept
    <2>3. CASE AcceptFails(s)
      BY <2>3 DEF AcceptFails
    <2>4. CASE ReadLoop(s)
      <3>1. CASE Hangup(s)
        BY <2>h, <2>4, <3>1 DEF ReadLoop
      <3>2. CASE /\ spc' = [spc EXCEPT ![s] = "recv"] /\ data' = [data EXCEPT ![s] = <<>>]
                 /\ UNCHANGED <<conn, using, link>>
        <4>1. <<>> \in Seq(Bytes) /\ Len(<<>>) = 0
          BY EmptySeq
        <4> QED BY <2>4, <3>2, <4>1 DEF ReadLoop
      <3> QED BY <2>4, <3>1, <3>2 DEF ReadLoop
    <2>5. CASE Recv(s)
      <3>1. PICK n \in 1 .. Wanted(s) :
              /\ n <= sentBytes[conn[s]] - gotBytes[conn[s]]
              /\ data' = [data EXCEPT ![s] = data[s] \o Piece(gotBytes[conn[s]], n)]
              /\ \/ spc' = spc
                 \/ spc' = [spc EXCEPT ![s] = "decode"]
        BY <2>5 DEF Recv, Piece
      <3>2. /\ data'[s] \in Seq(Bytes) /\ Len(data'[s]) <= RecordSize
            /\ \A t \in Servers : t # s => data'[t] = data[t]
            /\ data' \in [Servers -> Seq(Bytes)]
        <4>1. spc[s] = "recv"
          BY <2>5 DEF Recv
        <4>2. ASSUME NEW read, read = data[s] \o Piece(gotBytes[conn[s]], n)
              PROVE  read \in Seq(Bytes) /\ Len(read) <= RecordSize
          BY <3>1, <4>1, <4>2, RecvReads
        <4> QED BY <3>1, <4>2
      <3> QED BY ZenonT(30), <2>5, <3>1, <3>2 DEF Recv
    <2>6. CASE RecvEnds(s)
      BY <2>h, <2>6 DEF RecvEnds
    <2>7. CASE DecodeFails(s)
      BY <2>h, <2>7 DEF DecodeFails
    <2>8. CASE Decode(s)
      BY <2>8 DEF Decode, OwnerTypes
    <2>9. CASE Submit(s)
      BY <2>9 DEF Submit
    <2>10. CASE CheckHealth(s)
      <3>1. CASE Hangup(s)
        BY <2>h, <2>10, <3>1 DEF CheckHealth
      <3>2. CASE ~Hangup(s)
        BY <2>10, <3>2 DEF CheckHealth
      <3> QED BY <3>1, <3>2
    <2> QED BY <1>2, <2>1, <2>2, <2>3, <2>4, <2>5, <2>6, <2>7, <2>8, <2>9, <2>10 DEF Server
  <1>3. CASE \E e \in Servers : WriteFails(e)
    BY <1>3 DEF WriteFails, serverVars
  <1>4. CASE \E c \in Conns : Producer(c)
    <2>1. UNCHANGED serverVars
      BY <1>4, ProducerFrame
    <2> QED BY <2>1 DEF serverVars
  <1>5. CASE UNCHANGED vars
    BY <1>5 DEF vars, serverVars
  <1> QED BY <1>1, <1>2, <1>3, <1>4, <1>5 DEF Next

\* A record that is used is appended to those of the connection.
LEMMA ReceiveAppends ==
    ASSUME TypeInv, NEW s \in Servers, spc[s] \in Reading,
           NEW isLate \in BOOLEAN, NEW hasFailed \in BOOLEAN, Receive(s, isLate, hasFailed)
    PROVE  /\ conn[s] \in Conns
           /\ received' \in [Conns -> Seq(Records)]
           /\ \A c \in Conns : c # conn[s] => received'[c] = received[c]
           /\ Len(received'[conn[s]]) = Len(received[conn[s]]) + 1
           /\ \A k \in 1 .. Len(received[conn[s]]) : received'[conn[s]][k] = received[conn[s]][k]
           /\ received'[conn[s]][Len(received[conn[s]]) + 1] =
                 [bytes |-> data[s], late |-> isLate, failed |-> hasFailed, by |-> s]
  <1> USE DEF TypeInv, TypeOK, ServerTypes, WireTypes
  <1>1. PICK r : r = [bytes |-> data[s], late |-> isLate, failed |-> hasFailed, by |-> s]
    OBVIOUS
  <1>2. r \in Records
    BY <1>1 DEF Records
  <1>3. conn[s] \in Conns
    BY DEF ReadsConn
  <1>4. received' = [received EXCEPT ![conn[s]] = Append(received[conn[s]], r)]
    BY <1>1 DEF Receive
  <1>5. PICK q \in Seq(Records) : q = received[conn[s]]
    BY <1>3
  <1>6. /\ Append(q, r) \in Seq(Records) /\ Len(Append(q, r)) = Len(q) + 1
        /\ \A k \in 1 .. Len(q) : Append(q, r)[k] = q[k]
        /\ Append(q, r)[Len(q) + 1] = r
    BY <1>2, AppendProperties
  <1>7. received'[conn[s]] = Append(q, r)
    BY <1>3, <1>4, <1>5
  <1>8. received' \in [Conns -> Seq(Records)]
    BY <1>3, <1>4, <1>5, <1>6
  <1>9. \A c \in Conns : c # conn[s] => received'[c] = received[c]
    BY <1>3, <1>4
  <1> QED BY <1>1, <1>3, <1>5, <1>6, <1>7, <1>8, <1>9

\* What a step of a thread does to the connections, the bytes and the records.
LEMMA ServerWire ==
    ASSUME TypeInv, NEW s \in Servers, Server(s)
    PROVE  /\ \/ UNCHANGED <<link, backlog>>
              \/ Accept(s)
              \/ Hangup(s) /\ UNCHANGED backlog /\ spc[s] \in Reading
           /\ UNCHANGED gotBytes \/ Recv(s)
           /\ \/ UNCHANGED received
              \/ Decode(s) /\ exporter = 0 /\ Receive(s, FALSE, FALSE)
              \/ Submit(s) /\ Receive(s, using[s] \in stopped, using[s] \in failed)
  BY DEF Server, AcceptLoop, Accept, AcceptFails, ReadLoop, Recv, RecvEnds, DecodeFails,
         Decode, Submit, CheckHealth, Reading, wireVars, linkVars

LEMMA ServerWireTypes ==
    ASSUME TypeInv, NEW s \in Servers, Server(s)
    PROVE  WireTypes' /\ GotSent'
  <1> USE DEF TypeInv, TypeOK, WireTypes
  <1>1. link' \in [Conns -> {"new", "pending", "open", "closed"}] /\ backlog' \in Seq(Conns)
    <2>1. CASE UNCHANGED <<link, backlog>>
      BY <2>1
    <2>2. CASE Accept(s)
      <3>1. Head(backlog) \in Conns /\ Tail(backlog) \in Seq(Conns)
        BY <2>2, HeadTailProperties DEF Accept
      <3> QED BY <2>2, <3>1 DEF Accept
    <2>3. CASE Hangup(s) /\ UNCHANGED backlog /\ spc[s] \in Reading
      BY <2>3 DEF Hangup
    <2> QED BY <2>1, <2>2, <2>3, ServerWire
  <1>2. UNCHANGED <<sentBytes, malformed, gone>>
    BY ServerFrame
  <1>3. gotBytes' \in [Conns -> 0 .. RecordSize * MaxFrames] /\ GotSent'
    <2>1. CASE UNCHANGED gotBytes
      BY <1>2, <2>1 DEF GotSent
    <2>2. CASE Recv(s)
      <3>1. PICK n \in 1 .. Wanted(s) :
              /\ n <= sentBytes[conn[s]] - gotBytes[conn[s]]
              /\ gotBytes' = [gotBytes EXCEPT ![conn[s]] = gotBytes[conn[s]] + n]
        BY <2>2 DEF Recv
      <3>2. spc[s] = "recv"
        BY <2>2 DEF Recv
      <3>3. /\ conn[s] \in Conns /\ gotBytes[conn[s]] + n \in 0 .. Total
            /\ gotBytes[conn[s]] + n <= sentBytes[conn[s]]
        BY <3>1, <3>2, RecvReads
      <3> QED BY <1>2, <3>1, <3>3 DEF GotSent, Total
    <2> QED BY <2>1, <2>2, ServerWire
  <1>4. received' \in [Conns -> Seq(Records)]
    <2>1. CASE UNCHANGED received
      BY <2>1
    <2>2. CASE Decode(s) /\ Receive(s, FALSE, FALSE)
      <3>1. spc[s] \in Reading
        BY <2>2 DEF Decode, Reading
      <3> QED BY <2>2, <3>1, ReceiveAppends
    <2>3. CASE Submit(s) /\ Receive(s, using[s] \in stopped, using[s] \in failed)
      <3>1. spc[s] \in Reading
        BY <2>3 DEF Submit, Reading
      <3>2. (using[s] \in stopped) \in BOOLEAN /\ (using[s] \in failed) \in BOOLEAN
        OBVIOUS
      <3> QED BY <2>3, <3>1, <3>2, ReceiveAppends
    <2> QED BY <2>1, <2>2, <2>3, ServerWire
  <1> QED BY <1>1, <1>2, <1>3, <1>4

\* A producer that sends a malformed record begins one of its records.
LEMMA FrameInRange ==
    ASSUME NEW b \in 0 .. Total - 1
    PROVE  FrameOf(b + 1) \in 1 .. MaxFrames
  <1>1. FrameOf(b + 1) = b \div RecordSize + 1
    BY DEF FrameOf
  <1>2. b \in Int /\ MaxFrames \in Int /\ b < RecordSize * MaxFrames /\ RecordSize * 0 <= b
    BY Numbers DEF Total
  <1>3. 0 <= b \div RecordSize /\ b \div RecordSize < MaxFrames
    BY <1>2, Numbers, DivBounds
  <1>4. b \div RecordSize \in Int
    BY <1>2, Numbers, Divided
  <1> QED BY <1>1, <1>3, <1>4, Numbers

LEMMA ProducerWireTypes ==
    ASSUME TypeInv, NEW c \in Conns, Producer(c)
    PROVE  WireTypes' /\ GotSent'
  <1> USE Numbers DEF TypeInv, TypeOK, WireTypes, GotSent
  <1>0. UNCHANGED <<gotBytes, received>>
    BY ProducerFrame
  <1>1. CASE Connect(c)
    BY <1>0, <1>1, AppendProperties DEF Connect, wireVars
  <1>2. CASE Send(c)
    <2>1. sentBytes[c] \in 0 .. Total - 1
      BY <1>2 DEF Send, Total
    <2>2. sentBytes' = [sentBytes EXCEPT ![c] = sentBytes[c] + 1]
      BY <1>2 DEF Send
    <2>3. FrameOf(sentBytes[c] + 1) \in 1 .. MaxFrames
      BY <2>1, FrameInRange
    <2>4. malformed' = malformed \/ malformed' = [malformed EXCEPT ![c] = FrameOf(sentBytes[c] + 1)]
      BY <1>2 DEF Send
    <2>5. malformed' \in [Conns -> 0 .. MaxFrames]
      <3>1. PICK f \in 0 .. MaxFrames : f = FrameOf(sentBytes[c] + 1)
        BY <2>3
      <3> QED BY <2>4, <3>1
    <2>6. sentBytes' \in [Conns -> 0 .. RecordSize * MaxFrames]
      BY <2>1, <2>2 DEF Total
    <2>7. UNCHANGED <<link, backlog, gone>>
      BY <1>2 DEF Send, linkVars
    <2>8. GotSent'
      BY <1>0, <2>2
    <2> QED BY <1>0, <2>5, <2>6, <2>7, <2>8
  <1>3. CASE Disconnect(c)
    <2>1. PICK n \in gotBytes[c] .. sentBytes[c] : sentBytes' = [sentBytes EXCEPT ![c] = n]
      BY <1>3 DEF Disconnect
    <2>2. n \in 0 .. RecordSize * MaxFrames /\ gotBytes[c] <= n
      BY <2>1
    <2> QED BY <1>0, <1>3, <2>1, <2>2 DEF Disconnect, linkVars
  <1> QED BY <1>1, <1>2, <1>3 DEF Producer

LEMMA NextWireTypes ==
    ASSUME TypeInv, [Next]_vars
    PROVE  WireTypes' /\ GotSent'
  <1> USE DEF TypeInv, TypeOK, WireTypes, GotSent
  <1>1. CASE Owner
    <2>1. UNCHANGED <<sentBytes, gotBytes, malformed, gone, received>>
      BY <1>1, OwnerFrame
    <2>2. \/ UNCHANGED <<link, backlog>>
          \/ /\ link' = [c \in Conns |-> IF link[c] = "pending" THEN "closed" ELSE link[c]]
             /\ backlog' = <<>>
      BY <1>1 DEF Owner, StartFailsToBind, Start, StartFailsToExport, StopBegin,
         CloseListener, JoinServer, StopExporter, linkVars
    <2>3. <<>> \in Seq(Conns)
      BY EmptySeq
    <2>4. link' \in [Conns -> {"new", "pending", "open", "closed"}] /\ backlog' \in Seq(Conns)
      BY <2>2, <2>3
    <2> QED BY <2>1, <2>4
  <1>2. CASE \E s \in Servers : Server(s)
    BY <1>2, ServerWireTypes
  <1>3. CASE \E e \in Servers : WriteFails(e)
    BY <1>3 DEF WriteFails, linkVars, wireVars
  <1>4. CASE \E c \in Conns : Producer(c)
    BY <1>4, ProducerWireTypes
  <1>5. CASE UNCHANGED vars
    BY <1>5 DEF vars, linkVars, wireVars
  <1> QED BY <1>1, <1>2, <1>3, <1>4, <1>5 DEF Next

LEMMA InitTypes == Init => TypeInv
  <1> SUFFICES ASSUME Init PROVE TypeInv
    OBVIOUS
  <1> USE Numbers DEF Init
  <1>1. OwnerTypes
    <2>1. stopEvent \in BOOLEAN /\ overlapped \in BOOLEAN
      OBVIOUS
    <2>2. /\ listener \in 0 .. MaxStarts /\ exporter \in 0 .. MaxStarts
          /\ serverThread \in 0 .. MaxStarts /\ starts \in 0 .. MaxStarts
      OBVIOUS
    <2>3. opc = "idle" /\ failed = {} /\ stopped = {} /\ abandoned = {}
      OBVIOUS
    <2> QED BY <2>1, <2>2, <2>3 DEF OwnerTypes
  <1>2. \A S : <<>> \in Seq(S) /\ Len(<<>>) = 0
    BY EmptySeq
  <1>3. ServerTypes
    BY <1>2 DEF ServerTypes
  <1>4. WireTypes /\ GotSent
    BY <1>2 DEF WireTypes, GotSent, Total
  <1>5. ReadsConn /\ NotStarted
    BY DEF ReadsConn, Reading, NotStarted
  <1> QED BY <1>1, <1>3, <1>4, <1>5 DEF TypeInv, TypeOK

LEMMA TypesInv == Spec => []TypeInv
  <1>1. ASSUME TypeInv, [Next]_vars PROVE TypeInv'
    BY <1>1, NextOwnerTypes, NextServerTypes, NextWireTypes, NextNotStarted DEF TypeInv, TypeOK
  <1> QED BY InitTypes, <1>1, PTL DEF Spec

\* Every variable has its type, whoever starts, connects, sends and stops.
THEOREM TypeCorrect == Spec => []TypeOK
  <1>1. TypeInv => TypeOK
    BY DEF TypeInv
  <1> QED BY TypesInv, <1>1, PTL
-------------------------------------------------------------------------------
(***************************************************************************)
(* The connections: the open ones are those that a thread reads from, one  *)
(* thread each, and the backlog holds waiting ones, each of them once.     *)
(***************************************************************************)
HeldIsOpen == \A s \in Servers : conn[s] # NoConn => link[conn[s]] = "open"

OpenIsHeld == \A c \in Conns : link[c] = "open" => \E s \in Servers : conn[s] = c

HeldByOne == \A s, t \in Servers : conn[s] = conn[t] /\ conn[s] # NoConn => s = t

Waiting == \A i \in 1 .. Len(backlog) : link[backlog[i]] = "pending"

WaitsOnce == \A i, j \in 1 .. Len(backlog) : backlog[i] = backlog[j] => i = j

Held == HeldIsOpen /\ OpenIsHeld /\ HeldByOne

Queued == Waiting /\ WaitsOnce

Listened == listener = 0 => \A c \in Conns : link[c] # "pending"

LinkInv == Held /\ Queued /\ Listened

\* accept() takes the first of the backlog.
LEMMA Accepts ==
    ASSUME TypeInv, Queued, NEW s \in Servers, Accept(s)
    PROVE  /\ Head(backlog) \in Conns /\ link[Head(backlog)] = "pending"
           /\ conn[s] = NoConn
           /\ link' = [link EXCEPT ![Head(backlog)] = "open"]
           /\ conn' = [conn EXCEPT ![s] = Head(backlog)]
           /\ Queued'
  <1> USE DEF TypeInv, TypeOK, WireTypes
  <1>1. /\ backlog \in Seq(Conns) /\ backlog # <<>>
        /\ link' = [link EXCEPT ![Head(backlog)] = "open"]
        /\ conn' = [conn EXCEPT ![s] = Head(backlog)]
        /\ backlog' = Tail(backlog) /\ spc[s] = "accepting"
    BY DEF Accept
  <1>2. /\ Head(backlog) \in Conns /\ Head(backlog) = backlog[1]
        /\ backlog' \in Seq(Conns) /\ Len(backlog') = Len(backlog) - 1
        /\ \A i \in 1 .. Len(backlog') : backlog'[i] = backlog[i + 1]
        /\ Len(backlog) \in Nat \ {0}
    BY <1>1, HeadTailProperties, LenProperties, EmptySeq
  <1>3. link[Head(backlog)] = "pending"
    BY <1>2 DEF Queued, Waiting
  <1>4. ASSUME NEW i \in 1 .. Len(backlog')
        PROVE  /\ i + 1 \in 1 .. Len(backlog) /\ backlog'[i] = backlog[i + 1]
               /\ backlog[i + 1] # Head(backlog)
               /\ backlog[i + 1] \in Conns
    <2>1. i + 1 \in 1 .. Len(backlog) /\ 1 \in 1 .. Len(backlog) /\ i + 1 # 1
      BY <1>2
    <2> QED BY <1>1, <1>2, <2>1, ElementOfSeq DEF Queued, WaitsOnce
  <1>5. Waiting'
    BY SMTT(30), <1>1, <1>4 DEF Waiting, Queued
  <1>6. WaitsOnce'
    <2> SUFFICES ASSUME NEW i \in 1 .. Len(backlog'), NEW j \in 1 .. Len(backlog'),
                        backlog'[i] = backlog'[j]
                 PROVE  i = j
      BY DEF WaitsOnce
    <2>1. i + 1 = j + 1
      BY <1>4 DEF Queued, WaitsOnce
    <2> QED BY <2>1
  <1>7. conn[s] = NoConn
    BY <1>1 DEF ReadsConn, Reading, ServerTypes
  <1> QED BY <1>1, <1>2, <1>3, <1>5, <1>6, <1>7 DEF Queued

\* A step of a thread takes a connection, gives up its own, or neither.
LEMMA ServerLinks ==
    ASSUME TypeInv, NEW s \in Servers, Server(s)
    PROVE  \/ UNCHANGED <<link, backlog, conn>>
           \/ Accept(s)
           \/ Hangup(s) /\ UNCHANGED backlog /\ spc[s] \in Reading
  BY DEF Server, AcceptLoop, Accept, AcceptFails, ReadLoop, Recv, RecvEnds, DecodeFails,
         Decode, Submit, CheckHealth, Reading, wireVars, linkVars

LEMMA ServerHeld ==
    ASSUME TypeInv, LinkInv, NEW s \in Servers, Server(s)
    PROVE  LinkInv'
  <1> USE DEF LinkInv
  <1>0. listener' = listener
    BY ServerFrame
  <1> USE DEF TypeInv, TypeOK, ServerTypes, WireTypes
  <1>1. CASE UNCHANGED <<link, backlog, conn>>
    BY <1>0, <1>1 DEF Held, HeldIsOpen, OpenIsHeld, HeldByOne, Queued, Waiting, WaitsOnce, Listened
  <1>2. CASE Accept(s)
    <2> DEFINE h == Head(backlog)
    <2>1. /\ h \in Conns /\ link[h] = "pending" /\ conn[s] = NoConn
          /\ link' = [link EXCEPT ![h] = "open"] /\ conn' = [conn EXCEPT ![s] = h]
          /\ Queued'
      BY <1>2, Accepts
    <2> HIDE DEF h
    <2>2. /\ conn'[s] = h /\ \A t \in Servers : t # s => conn'[t] = conn[t]
          /\ link'[h] = "open" /\ \A c \in Conns : c # h => link'[c] = link[c]
      BY <2>1
    <2>3. \A t \in Servers : conn[t] # h
      BY <2>1, Numbers DEF Held, HeldIsOpen
    <2>4. HeldIsOpen'
      <3> SUFFICES ASSUME NEW t \in Servers, conn'[t] # NoConn PROVE link'[conn'[t]] = "open"
        BY DEF HeldIsOpen
      <3>1. CASE t = s
        BY <2>2, <3>1
      <3>2. CASE t # s
        <4>1. conn'[t] = conn[t] /\ conn[t] \in Conns /\ conn[t] # h /\ link[conn[t]] = "open"
          BY <2>2, <2>3, <3>2 DEF Held, HeldIsOpen
        <4>2. link'[conn[t]] = link[conn[t]]
          BY <2>2, <4>1
        <4> QED BY <4>1, <4>2
      <3> QED BY <3>1, <3>2
    <2>5. OpenIsHeld'
      BY <2>1, <2>2, Numbers DEF Held, OpenIsHeld
    <2>6. HeldByOne'
      BY ZenonT(30), <2>2, <2>3 DEF Held, HeldByOne
    <2>7. Listened'
      BY <1>0, <2>2 DEF Listened
    <2> QED BY <2>1, <2>4, <2>5, <2>6, <2>7 DEF Held
  <1>3. CASE Hangup(s) /\ UNCHANGED backlog /\ spc[s] \in Reading
    <2> DEFINE c == conn[s]
    <2>1. c \in Conns /\ link[c] = "open"
      BY <1>3, Numbers DEF ReadsConn, Held, HeldIsOpen
    <2>2. /\ link' = [link EXCEPT ![c] = "closed"] /\ conn' = [conn EXCEPT ![s] = NoConn]
          /\ c = conn[s]
      BY <1>3 DEF Hangup
    <2> HIDE DEF c
    <2>3. /\ conn'[s] = NoConn /\ \A t \in Servers : t # s => conn'[t] = conn[t]
          /\ link'[c] = "closed" /\ \A d \in Conns : d # c => link'[d] = link[d]
      BY <2>1, <2>2
    <2>4. \A t \in Servers : t # s => conn[t] # c
      BY <2>1, <2>2, Numbers DEF Held, HeldByOne
    <2>5. HeldIsOpen'
      <3> SUFFICES ASSUME NEW t \in Servers, conn'[t] # NoConn PROVE link'[conn'[t]] = "open"
        BY DEF HeldIsOpen
      <3>1. conn'[t] = conn[t] /\ conn[t] \in Conns /\ conn[t] # c /\ link[conn[t]] = "open"
        BY <2>3, <2>4 DEF Held, HeldIsOpen
      <3>2. link'[conn[t]] = link[conn[t]]
        BY <2>3, <3>1
      <3> QED BY <3>1, <3>2
    <2>6. OpenIsHeld'
      <3> SUFFICES ASSUME NEW d \in Conns, link'[d] = "open" PROVE \E t \in Servers : conn'[t] = d
        BY DEF OpenIsHeld
      <3>1. d # c /\ link[d] = "open"
        BY <2>3
      <3>2. PICK t \in Servers : conn[t] = d
        BY <3>1 DEF Held, OpenIsHeld
      <3>3. t # s
        BY <2>2, <3>1, <3>2
      <3> QED BY <2>3, <3>2, <3>3
    <2>7. HeldByOne'
      BY ZenonT(30), <2>3 DEF Held, HeldByOne
    <2>8. Queued'
      BY ZenonT(30), <1>3, <2>1, <2>3, ElementOfSeq DEF Queued, Waiting, WaitsOnce
    <2>9. Listened'
      BY <1>0, <2>1, <2>3 DEF Listened
    <2> QED BY <2>5, <2>6, <2>7, <2>8, <2>9 DEF Held
  <1> QED BY <1>1, <1>2, <1>3, ServerLinks

LEMMA OwnerLinks ==
    ASSUME TypeInv, LinkInv, Owner
    PROVE  LinkInv'
  <1> USE DEF LinkInv, TypeInv, TypeOK, ServerTypes, WireTypes
  <1>0. UNCHANGED conn
    BY OwnerFrame
  <1>1. CASE CloseListener
    <2>1. /\ backlog' = <<>>
          /\ \A c \in Conns : link'[c] = IF link[c] = "pending" THEN "closed" ELSE link[c]
      BY <1>1 DEF CloseListener
    <2>2. Held'
      <3>1. HeldIsOpen'
        BY <1>0, <2>1, Numbers DEF Held, HeldIsOpen
      <3>2. OpenIsHeld'
        BY <1>0, <2>1 DEF Held, OpenIsHeld
      <3>3. HeldByOne'
        BY <1>0 DEF Held, HeldByOne
      <3> QED BY <3>1, <3>2, <3>3 DEF Held
    <2>3. Queued'
      <3>1. Len(backlog') = 0
        BY <2>1, EmptySeq
      <3>2. 1 .. Len(backlog') = {}
        BY <3>1
      <3> QED BY <3>2 DEF Queued, Waiting, WaitsOnce
    <2>4. Listened'
      BY <2>1 DEF Listened
    <2> QED BY <2>2, <2>3, <2>4
  <1>2. CASE UNCHANGED <<link, backlog>> /\ (listener' = listener \/ listener' # 0)
    BY <1>0, <1>2 DEF Held, HeldIsOpen, OpenIsHeld, HeldByOne, Queued, Waiting, WaitsOnce, Listened
  <1>3. starts + 1 # 0
    BY DEF OwnerTypes
  <1> QED BY <1>1, <1>2, <1>3 DEF Owner, StartFailsToBind, Start, StartFailsToExport,
             StopBegin, JoinServer, StopExporter, sharedVars, linkVars

LEMMA ProducerLinks ==
    ASSUME TypeInv, LinkInv, NEW c \in Conns, Producer(c)
    PROVE  LinkInv'
  <1> USE DEF LinkInv, TypeInv, TypeOK, ServerTypes, WireTypes
  <1>0. UNCHANGED <<conn, listener>>
    BY ProducerFrame DEF sharedVars, serverVars
  <1>1. CASE Connect(c)
    <2>1. /\ link[c] = "new" /\ listener # 0
          /\ link' = [link EXCEPT ![c] = "pending"] /\ backlog' = Append(backlog, c)
      BY <1>1 DEF Connect
    <2>2. link'[c] = "pending" /\ \A d \in Conns : d # c => link'[d] = link[d]
      BY <2>1
    <2>3. /\ Len(backlog') = Len(backlog) + 1
          /\ \A i \in 1 .. Len(backlog) : backlog'[i] = backlog[i]
          /\ backlog'[Len(backlog) + 1] = c
          /\ Len(backlog) \in Nat
      BY <2>1, AppendProperties, LenProperties
    <2>4. \A i \in 1 .. Len(backlog) : backlog[i] # c /\ backlog[i] \in Conns
      BY <2>1, ElementOfSeq DEF Queued, Waiting
    <2>5. Waiting'
      <3> SUFFICES ASSUME NEW i \in 1 .. Len(backlog') PROVE link'[backlog'[i]] = "pending"
        BY DEF Waiting
      <3>1. CASE i = Len(backlog) + 1
        BY <2>2, <2>3, <3>1
      <3>2. CASE i # Len(backlog) + 1
        <4>1. i \in 1 .. Len(backlog)
          BY <2>3, <3>2
        <4> QED BY ZenonT(30), <2>2, <2>3, <2>4, <4>1 DEF Queued, Waiting
      <3> QED BY <3>1, <3>2
    <2>6. WaitsOnce'
      <3> SUFFICES ASSUME NEW i \in 1 .. Len(backlog'), NEW j \in 1 .. Len(backlog'),
                          backlog'[i] = backlog'[j]
                   PROVE  i = j
        BY DEF WaitsOnce
      <3>1. i \in 1 .. Len(backlog) \/ i = Len(backlog) + 1
        <4>1. i \in 1 .. Len(backlog) + 1 /\ Len(backlog) \in Nat
          BY <2>3
        <4> QED BY <4>1
      <3>2. j \in 1 .. Len(backlog) \/ j = Len(backlog) + 1
        <4>1. j \in 1 .. Len(backlog) + 1 /\ Len(backlog) \in Nat
          BY <2>3
        <4> QED BY <4>1
      <3> QED BY <2>3, <2>4, <3>1, <3>2 DEF Queued, WaitsOnce
    <2>7. Held'
      BY <1>0, <2>1, <2>2, Numbers DEF Held, HeldIsOpen, OpenIsHeld, HeldByOne
    <2> QED BY <1>0, <2>1, <2>5, <2>6, <2>7 DEF Queued, Listened
  <1>2. CASE UNCHANGED <<link, backlog>>
    BY <1>0, <1>2 DEF Held, HeldIsOpen, OpenIsHeld, HeldByOne, Queued, Waiting, WaitsOnce, Listened
  <1> QED BY <1>1, <1>2 DEF Producer, Send, Disconnect, linkVars

LEMMA NextLinks ==
    ASSUME TypeInv, LinkInv, [Next]_vars
    PROVE  LinkInv'
  <1>1. CASE UNCHANGED <<conn, link, backlog, listener>>
    BY <1>1 DEF LinkInv, Held, HeldIsOpen, OpenIsHeld, HeldByOne, Queued, Waiting, WaitsOnce, Listened
  <1>2. CASE \E e \in Servers : WriteFails(e)
    BY <1>1, <1>2 DEF WriteFails, sharedVars, serverVars, linkVars
  <1>3. CASE UNCHANGED vars
    BY <1>1, <1>3 DEF vars, sharedVars, serverVars, linkVars
  <1> QED BY <1>2, <1>3, OwnerLinks, ServerHeld, ProducerLinks DEF Next

LEMMA InitLinks == Init => LinkInv
  <1> SUFFICES ASSUME Init PROVE LinkInv
    OBVIOUS
  <1> USE DEF Init
  <1>1. Held
    BY DEF Held, HeldIsOpen, OpenIsHeld, HeldByOne
  <1>2. Queued /\ Listened
    BY EmptySeq DEF Queued, Waiting, WaitsOnce, Listened
  <1> QED BY <1>1, <1>2 DEF LinkInv
-------------------------------------------------------------------------------
(***************************************************************************)
(* The sessions.  A thread that is alive was either given up by a stop()   *)
(* whose join timed out, or it is the one that stop() waits for, it        *)
(* submits to the exporter of its own start(), and that has not stopped.   *)
(***************************************************************************)
Working(s) == s \in Servers /\ spc[s] \notin {"off", "done"}

OneWorks == ~overlapped => \A s, t \in Servers : Working(s) /\ Working(t) => s = t

Closing == opc \in {"join", "exporter"} => listener = 0

Joined == (listener = 0 /\ opc # "join") \/ opc = "exporter" => serverThread = 0

InSession ==
    \A s \in Servers : Working(s) /\ s \notin abandoned =>
        /\ s = serverThread
        /\ exporter \in {0, s}
        /\ spc[s] = "submit" => using[s] = s
        /\ s \notin stopped

Own ==
    /\ exporter <= starts
    /\ \A e \in stopped : e <= starts
    /\ ~ExportEnabled => exporter = 0

LateGivenUp ==
    \A c \in Conns : \A k \in 1 .. Len(received[c]) :
        received[c][k].late => received[c][k].by \in abandoned

SessionInv == OneWorks /\ Closing /\ Joined /\ InSession /\ Own

\* Without a session, every thread still alive was given up.
LEMMA NoSession ==
    ASSUME SessionInv, serverThread = 0, NEW s \in Servers, Working(s)
    PROVE  s \in abandoned
  <1>1. s # 0
    BY Numbers
  <1> QED BY <1>1 DEF SessionInv, InSession

LEMMA OwnerSessions ==
    ASSUME TypeInv, SessionInv, Owner
    PROVE  SessionInv'
  <1> USE DEF SessionInv
  <1>0. UNCHANGED using
    BY OwnerFrame
  <1>1. CASE StartFailsToBind
    BY <1>0, <1>1 DEF StartFailsToBind, serverVars, ownerVars, exporterVars, OneWorks, Working,
       Closing, Joined, InSession, Own
  <1>2. CASE Start
    <2>1. /\ opc = "idle" /\ listener = 0
          /\ starts + 1 \in Servers /\ starts \in Nat
          /\ starts' = starts + 1 /\ listener' = starts + 1 /\ serverThread' = starts + 1
          /\ spc' = [spc EXCEPT ![starts + 1] = "accept"]
          /\ UNCHANGED <<opc, abandoned, stopped>>
      BY <1>2, Numbers DEF Start, CanStart, exporterVars, TypeInv, TypeOK, OwnerTypes
    <2>2. serverThread = 0
      BY <2>1 DEF Joined
    <2>3. /\ \A s \in Servers : s # starts + 1 => (Working(s)' <=> Working(s))
          /\ spc'[starts + 1] = "accept"
      BY <2>1 DEF Working, TypeInv, TypeOK, ServerTypes
    <2>4. OneWorks'
      <3>1. ~overlapped' => Alive = {}
        BY <1>2 DEF Start
      <3>2. Alive = {} => \A s \in Servers : ~Working(s)
        BY DEF Alive, Working
      <3> QED BY <2>3, <3>1, <3>2 DEF OneWorks, Working
    <2>5. exporter' = starts + 1 \/ exporter' = 0
      BY <1>2, <2>1 DEF Start, Own
    <2>6. InSession'
      <3> SUFFICES ASSUME NEW s \in Servers, Working(s)', s \notin abandoned'
                   PROVE  /\ s = serverThread' /\ exporter' \in {0, s}
                          /\ spc'[s] = "submit" => using'[s] = s
                          /\ s \notin stopped'
        BY DEF InSession
      <3>1. s = starts + 1
        BY <2>1, <2>2, <2>3, NoSession
      <3>2. s \notin stopped
        BY <2>1, <3>1 DEF Own
      <3> QED BY <2>1, <2>3, <2>5, <3>1, <3>2
    <2>7. Own'
      <3>1. ~ExportEnabled => exporter' = 0
        BY <1>2 DEF Start, Own
      <3>2. \A e \in stopped : e \in Nat
        BY Numbers DEF TypeInv, TypeOK, OwnerTypes
      <3> QED BY <2>1, <2>5, <3>1, <3>2 DEF Own
    <2>8. Closing' /\ Joined'
      BY <2>1 DEF Closing, Joined
    <2> QED BY <2>4, <2>6, <2>7, <2>8
  <1>3. CASE StartFailsToExport
    <2>1. /\ opc = "idle" /\ listener = 0 /\ ExportEnabled
          /\ starts + 1 \in Servers /\ starts \in Nat
          /\ starts' = starts + 1 /\ listener' = starts + 1 /\ exporter' = starts + 1
          /\ UNCHANGED <<opc, serverThread, abandoned, stopped, spc>>
      BY <1>3, Numbers DEF StartFailsToExport, CanStart, serverVars, TypeInv, TypeOK, OwnerTypes
    <2>2. serverThread = 0
      BY <2>1 DEF Joined
    <2>3. \A s \in Servers : Working(s)' => s \in abandoned'
      BY <2>1, <2>2, NoSession DEF Working
    <2>4. Own'
      <3>1. \A e \in stopped : e \in Nat
        BY Numbers DEF TypeInv, TypeOK, OwnerTypes
      <3> QED BY <2>1, <3>1 DEF Own
    <2>5. UNCHANGED overlapped
      BY <1>3 DEF StartFailsToExport
    <2> QED BY <2>1, <2>2, <2>3, <2>4, <2>5 DEF InSession, OneWorks, Working, Closing, Joined
  <1>4. CASE StopBegin
    <2>1. opc = "idle" /\ opc' = "listener"
          /\ UNCHANGED <<listener, exporter, spc, serverThread, starts, abandoned, stopped>>
      BY <1>4 DEF StopBegin, serverVars, exporterVars
    <2>2. UNCHANGED overlapped
      BY <1>4 DEF StopBegin
    <2> QED BY <1>0, <2>1, <2>2 DEF OneWorks, Working, Closing, Joined, InSession, Own
  <1>5. CASE CloseListener
    <2>1. opc = "listener" /\ opc' = "join" /\ listener' = 0
          /\ UNCHANGED <<exporter, spc, serverThread, starts, abandoned, stopped>>
      BY <1>5 DEF CloseListener, serverVars, exporterVars
    <2>2. UNCHANGED overlapped
      BY <1>5 DEF CloseListener
    <2> QED BY <1>0, <2>1, <2>2 DEF OneWorks, Working, Closing, Joined, InSession, Own
  <1>6. CASE JoinServer
    <2>1. opc = "join" /\ opc' = "exporter" /\ serverThread' = 0
          /\ UNCHANGED <<listener, exporter, spc, starts, stopped>>
          /\ abandoned' = abandoned \cup ({serverThread} \cap Alive)
      BY <1>6 DEF JoinServer, serverVars, sharedVars, exporterVars
    <2>2. UNCHANGED overlapped
      BY <1>6 DEF JoinServer
    <2>3. \A s \in Servers : Working(s)' => s \in abandoned'
      BY <2>1 DEF Working, Alive, InSession
    <2> QED BY <1>0, <2>1, <2>2, <2>3 DEF OneWorks, Working, Closing, Joined, InSession, Own
  <1>7. CASE StopExporter
    <2>1. opc = "exporter" /\ opc' = "idle" /\ serverThread = 0
          /\ UNCHANGED <<listener, serverThread, spc, starts, abandoned>>
          /\ stopped' = stopped \cup ({exporter} \ {0})
          /\ exporter' \in {0, exporter}
      BY <1>7 DEF StopExporter, serverVars, Joined
    <2>2. UNCHANGED overlapped
      BY <1>7 DEF StopExporter
    <2>3. \A s \in Servers : Working(s)' => s \in abandoned'
      BY <2>1, NoSession DEF Working
    <2>4. Own'
      BY <2>1 DEF Own, TypeInv, TypeOK, OwnerTypes
    <2> QED BY <2>1, <2>2, <2>3, <2>4 DEF OneWorks, Working, Closing, Joined, InSession
  <1> QED BY <1>1, <1>2, <1>3, <1>4, <1>5, <1>6, <1>7 DEF Owner

\* A thread looks the exporter up where it decodes, and uses it there.
LEMMA ServerUses ==
    ASSUME TypeInv, NEW s \in Servers, Server(s)
    PROVE  /\ Working(s)
           /\ \A t \in Servers : t # s => spc'[t] = spc[t] /\ using'[t] = using[t]
           /\ spc'[s] = "submit" => using'[s] = exporter /\ exporter # 0
  <1> USE DEF TypeInv, TypeOK, ServerTypes
  <1>1. Working(s)
    BY ServerFrame DEF Working
  <1>2. CASE Decode(s)
    <2>1. /\ using' = [using EXCEPT ![s] = exporter]
          /\ spc' = [spc EXCEPT ![s] = IF exporter = 0 THEN "read" ELSE "submit"]
      BY <1>2 DEF Decode
    <2> QED BY <1>1, <2>1
  <1>3. CASE Recv(s)
    <2>1. spc[s] = "recv" /\ UNCHANGED using
          /\ (spc' = spc \/ spc' = [spc EXCEPT ![s] = "decode"])
      BY <1>3 DEF Recv
    <2> QED BY <1>1, <2>1
  <1>4. CASE ~Decode(s) /\ ~Recv(s)
    <2>1. \A t \in Servers : t # s => spc'[t] = spc[t] /\ using'[t] = using[t]
      BY <1>4 DEF Server, AcceptLoop, Accept, AcceptFails, ReadLoop, RecvEnds, DecodeFails,
         Submit, CheckHealth, Hangup
    <2>2. spc'[s] # "submit"
      BY <1>4 DEF Server, AcceptLoop, Accept, AcceptFails, ReadLoop, RecvEnds, DecodeFails,
         Submit, CheckHealth, Hangup
    <2> QED BY <1>1, <2>1, <2>2
  <1> QED BY <1>2, <1>3, <1>4

LEMMA ServerSessions ==
    ASSUME TypeInv, SessionInv, NEW s \in Servers, Server(s)
    PROVE  SessionInv'
  <1> USE DEF SessionInv
  <1>1. UNCHANGED <<listener, exporter, opc, serverThread, starts, abandoned, stopped>>
    BY ServerFrame
  <1>2. UNCHANGED overlapped
    BY ServerFlagsFrame
  <1>3. /\ Working(s)
        /\ \A t \in Servers : t # s => spc'[t] = spc[t] /\ using'[t] = using[t]
        /\ spc'[s] = "submit" => using'[s] = exporter /\ exporter # 0
    BY ServerUses
  <1>4. \A t \in Servers : Working(t)' => Working(t)
    BY <1>3 DEF Working
  <1>5. OneWorks'
    BY <1>2, <1>4 DEF OneWorks
  <1>6. InSession'
    BY <1>1, <1>3, <1>4, Numbers DEF InSession
  <1> QED BY <1>1, <1>5, <1>6 DEF Closing, Joined, Own

\* Between the calls of the owner, without a listener, the exporter is gone, or
\* it has failed and stop() has raised its error.
Released == opc = "idle" /\ listener = 0 /\ exporter # 0 => exporter \in failed \cap stopped

LEMMA NextReleased ==
    ASSUME TypeInv, Released, [Next]_vars
    PROVE  Released'
  <1>1. CASE UNCHANGED <<listener, exporter, opc>> /\ failed \subseteq failed' /\ stopped' = stopped
    BY <1>1 DEF Released
  <1>2. CASE Owner
    <2>1. CASE Start \/ StartFailsToExport
      <3>1. starts \in Nat /\ listener' = starts + 1
        BY <2>1, Numbers DEF Start, StartFailsToExport, TypeInv, TypeOK, OwnerTypes
      <3> QED BY <3>1 DEF Released
    <2>2. CASE StartFailsToBind
      BY <1>1, <2>2 DEF StartFailsToBind, ownerVars, exporterVars
    <2>3. CASE StopBegin \/ CloseListener \/ JoinServer
      <3>1. opc' # "idle"
        BY <2>3 DEF StopBegin, CloseListener, JoinServer
      <3> QED BY <3>1 DEF Released
    <2>4. CASE StopExporter
      <3>1. /\ stopped' = stopped \cup ({exporter} \ {0}) /\ UNCHANGED failed
            /\ exporter' = IF exporter \in failed THEN exporter ELSE 0
        BY <2>4 DEF StopExporter
      <3> QED BY <3>1 DEF Released
    <2> QED BY <1>2, <2>1, <2>2, <2>3, <2>4 DEF Owner
  <1>3. CASE \E s \in Servers : Server(s)
    <2>1. UNCHANGED <<listener, exporter, opc, stopped, failed>>
      BY <1>3, ServerFrame
    <2> QED BY <1>1, <2>1
  <1>4. CASE \E e \in Servers : WriteFails(e)
    <2>1. UNCHANGED <<listener, exporter, opc, stopped>> /\ failed \subseteq failed'
      BY <1>4 DEF WriteFails, sharedVars, ownerVars
    <2> QED BY <1>1, <2>1
  <1>5. CASE \E c \in Conns : Producer(c)
    <2>1. UNCHANGED <<listener, exporter, opc, stopped, failed>>
      BY <1>5, ProducerFrame DEF sharedVars, ownerVars, exporterVars
    <2> QED BY <1>1, <2>1
  <1>6. CASE UNCHANGED vars
    BY <1>1, <1>6 DEF vars, sharedVars, ownerVars, exporterVars
  <1> QED BY <1>2, <1>3, <1>4, <1>5, <1>6 DEF Next

LEMMA NextSessions ==
    ASSUME TypeInv, SessionInv, [Next]_vars
    PROVE  SessionInv'
  <1>1. CASE UNCHANGED <<listener, exporter, spc, using, opc, serverThread, starts, abandoned, stopped>>
             /\ UNCHANGED overlapped
    BY <1>1 DEF SessionInv, OneWorks, Working, Closing, Joined, InSession, Own
  <1>2. CASE \E e \in Servers : WriteFails(e)
    BY <1>1, <1>2 DEF WriteFails, sharedVars, serverVars, ownerVars
  <1>3. CASE \E c \in Conns : Producer(c)
    <2>1. UNCHANGED <<sharedVars, serverVars, ownerVars, exporterVars>>
      BY <1>3, ProducerFrame
    <2> QED BY <1>1, <2>1 DEF sharedVars, serverVars, ownerVars, exporterVars
  <1>4. CASE UNCHANGED vars
    BY <1>1, <1>4 DEF vars, sharedVars, serverVars, ownerVars, exporterVars
  <1> QED BY <1>2, <1>3, <1>4, OwnerSessions, ServerSessions DEF Next

LEMMA InitSessions == Init => SessionInv
  BY Numbers DEF Init, SessionInv, OneWorks, Working, Closing, Joined, InSession, Own

\* abandoned only grows.
LEMMA AbandonedGrows ==
    ASSUME [Next]_vars
    PROVE  abandoned \subseteq abandoned'
  <1>1. CASE Owner
    BY <1>1 DEF Owner, StartFailsToBind, Start, StartFailsToExport, StopBegin, CloseListener,
       JoinServer, StopExporter, ownerVars
  <1>2. CASE \E s \in Servers : Server(s)
    BY <1>2, ServerFrame
  <1>3. CASE \E e \in Servers : WriteFails(e)
    BY <1>3 DEF WriteFails, ownerVars
  <1>4. CASE \E c \in Conns : Producer(c)
    BY <1>4, ProducerFrame DEF ownerVars
  <1>5. CASE UNCHANGED vars
    BY <1>5 DEF vars, ownerVars
  <1> QED BY <1>1, <1>2, <1>3, <1>4, <1>5 DEF Next

\* What a step does to the records: nothing, or one of a thread is appended.
LEMMA NextReceived ==
    ASSUME [Next]_vars, TypeInv
    PROVE  \/ UNCHANGED received
           \/ \E s \in Servers :
                 \/ Decode(s) /\ Receive(s, FALSE, FALSE)
                 \/ Submit(s) /\ Receive(s, using[s] \in stopped, using[s] \in failed)
  <1>1. CASE Owner
    BY <1>1, OwnerFrame
  <1>2. CASE \E s \in Servers : Server(s)
    BY <1>2, ServerWire
  <1>3. CASE \E e \in Servers : WriteFails(e)
    BY <1>3 DEF WriteFails
  <1>4. CASE \E c \in Conns : Producer(c)
    BY <1>4, ProducerFrame
  <1>5. CASE UNCHANGED vars
    BY <1>5 DEF vars
  <1> QED BY <1>1, <1>2, <1>3, <1>4, <1>5 DEF Next

LEMMA LateAppended ==
    ASSUME TypeInv, LateGivenUp, abandoned \subseteq abandoned', NEW s \in Servers,
           spc[s] \in Reading, NEW l \in BOOLEAN, NEW f \in BOOLEAN, Receive(s, l, f),
           l => s \in abandoned
    PROVE  LateGivenUp'
  <1>0. /\ \A d \in Conns : d # conn[s] => received'[d] = received[d]
        /\ Len(received'[conn[s]]) = Len(received[conn[s]]) + 1
        /\ \A k \in 1 .. Len(received[conn[s]]) : received'[conn[s]][k] = received[conn[s]][k]
        /\ received'[conn[s]][Len(received[conn[s]]) + 1] =
                 [bytes |-> data[s], late |-> l, failed |-> f, by |-> s]
    BY ReceiveAppends
  <1> SUFFICES ASSUME NEW c \in Conns, NEW k \in 1 .. Len(received'[c]), received'[c][k].late
               PROVE  received'[c][k].by \in abandoned'
    BY DEF LateGivenUp
  <1>1. CASE c # conn[s]
    <2>1. received'[c] = received[c]
      BY <1>0, <1>1
    <2> QED BY <2>1 DEF LateGivenUp
  <1>2. CASE c = conn[s]
    <2>1. /\ Len(received'[c]) = Len(received[c]) + 1
          /\ \A i \in 1 .. Len(received[c]) : received'[c][i] = received[c][i]
          /\ received'[c][Len(received[c]) + 1] =
                 [bytes |-> data[s], late |-> l, failed |-> f, by |-> s]
      BY <1>0, <1>2
    <2>2. Len(received[c]) \in Nat
      BY LenProperties DEF TypeInv, TypeOK, WireTypes
    <2>3. CASE k \in 1 .. Len(received[c])
      BY <2>1, <2>3 DEF LateGivenUp
    <2>4. CASE k = Len(received[c]) + 1
      <3>1. PICK x : x = [bytes |-> data[s], late |-> l, failed |-> f, by |-> s]
        OBVIOUS
      <3>2. x.late = l /\ x.by = s
        BY ONLY <3>1
      <3>3. received'[c][k] = x
        BY <2>1, <2>4, <3>1
      <3> QED BY <3>2, <3>3
    <2> QED BY <2>1, <2>2, <2>3, <2>4
  <1> QED BY <1>1, <1>2

LEMMA NextLate ==
    ASSUME TypeInv, SessionInv, LateGivenUp, [Next]_vars
    PROVE  LateGivenUp'
  <1>0. abandoned \subseteq abandoned'
    BY AbandonedGrows
  <1>1. CASE UNCHANGED received
    BY <1>0, <1>1 DEF LateGivenUp
  <1>2. ASSUME NEW s \in Servers, Decode(s), Receive(s, FALSE, FALSE) PROVE LateGivenUp'
    <2>1. spc[s] \in Reading
      BY <1>2 DEF Decode, Reading
    <2> QED BY <1>0, <1>2, <2>1, LateAppended
  <1>3. ASSUME NEW s \in Servers, Submit(s),
               Receive(s, using[s] \in stopped, using[s] \in failed)
        PROVE  LateGivenUp'
    <2>1. spc[s] = "submit" /\ spc[s] \in Reading
      BY <1>3 DEF Submit, Reading
    <2>2. using[s] \in stopped => s \in abandoned
      BY <2>1 DEF SessionInv, InSession, Working
    <2>3. (using[s] \in stopped) \in BOOLEAN /\ (using[s] \in failed) \in BOOLEAN
      OBVIOUS
    <2> QED BY <1>0, <1>3, <2>1, <2>2, <2>3, LateAppended
  <1> QED BY <1>1, <1>2, <1>3, NextReceived

LEMMA SessionsInv == Spec => [](TypeInv /\ LinkInv /\ SessionInv /\ LateGivenUp)
  <1>1. Init => TypeInv /\ LinkInv /\ SessionInv /\ LateGivenUp
    <2>1. Init => LateGivenUp
      BY EmptySeq DEF Init, LateGivenUp
    <2> QED BY <2>1, InitTypes, InitLinks, InitSessions
  <1>2. ASSUME TypeInv, LinkInv, SessionInv, LateGivenUp, [Next]_vars
        PROVE  LinkInv' /\ SessionInv' /\ LateGivenUp'
    BY <1>2, NextLinks, NextSessions, NextLate
  <1> QED BY <1>1, <1>2, TypesInv, PTL DEF Spec

\* A record goes to an exporter that has stopped only by a thread that outlived
\* the join: the exporter that a thread uses is that of its own session, and
\* stop() stops it after it has waited for the thread or given it up.
THEOREM LateIsAbandoned == Spec => []LateOnlyIfAbandoned
  <1>1. TypeInv /\ LateGivenUp => LateOnlyIfAbandoned
    <2>1. TypeInv => \A c \in Conns : DOMAIN received[c] = 1 .. Len(received[c])
      BY LenProperties DEF TypeInv, TypeOK, WireTypes
    <2> QED BY <2>1 DEF LateGivenUp, LateOnlyIfAbandoned
  <1> QED BY <1>1, SessionsInv, PTL

\* After stop(), without a thread that outlived it, nothing is left: the thread
\* that stop() waited for has ended, an open connection would have a thread,
\* closing the listener resets those that wait, and exporter.stop() has ended.
THEOREM StopHasClosed == Spec => []StopCloses
  <1>1. ASSUME TypeInv, LinkInv, SessionInv, Released PROVE StopCloses
    <2> SUFFICES ASSUME opc = "idle", listener = 0, abandoned = {}
                 PROVE  /\ Alive = {}
                        /\ \A c \in Conns : link[c] \notin {"pending", "open"}
                        /\ exporter # 0 => exporter \in failed \cap stopped
      BY DEF StopCloses
    <2>1. serverThread = 0
      BY <1>1 DEF SessionInv, Joined
    <2>2. \A s \in Servers : ~Working(s)
      BY <1>1, <2>1, NoSession
    <2>3. Alive = {}
      BY <2>2 DEF Alive, Working
    <2>4. ASSUME NEW c \in Conns PROVE link[c] # "pending" /\ link[c] # "open"
      <3>1. link[c] # "pending"
        BY <1>1 DEF LinkInv, Listened
      <3>2. ASSUME link[c] = "open" PROVE FALSE
        <4>1. PICK s \in Servers : conn[s] = c
          BY <1>1, <3>2 DEF LinkInv, Held, OpenIsHeld
        <4>2. Working(s)
          BY <1>1, <4>1, Numbers DEF Working, TypeInv, ReadsConn, Reading
        <4> QED BY <2>2, <4>2
      <3> QED BY <3>1, <3>2
    <2> QED BY <1>1, <2>3, <2>4 DEF Released
  <1>2. Init => Released
    BY DEF Init, Released
  <1>3. TypeInv /\ Released /\ [Next]_vars => Released'
    BY NextReleased
  <1> QED BY <1>1, <1>2, <1>3, SessionsInv, PTL DEF Spec

\* One connection is open at most, as long as no start() found a thread alive:
\* each open one has a thread, and one thread works.
THEOREM OneAtATime == Spec => []OneConnection
  <1>1. ASSUME TypeInv, LinkInv, SessionInv PROVE OneConnection
    <2> DEFINE open == {c \in Conns : link[c] = "open"}
    <2> SUFFICES ASSUME ~overlapped PROVE Cardinality(open) <= 1
      BY DEF OneConnection
    <2>1. ASSUME NEW c \in open, NEW d \in open PROVE c = d
      <3>1. PICK s \in Servers : conn[s] = c
        BY <1>1 DEF LinkInv, Held, OpenIsHeld
      <3>2. PICK t \in Servers : conn[t] = d
        BY <1>1 DEF LinkInv, Held, OpenIsHeld
      <3>3. Working(s) /\ Working(t)
        BY <1>1, <3>1, <3>2, Numbers DEF Working, TypeInv, ReadsConn, Reading
      <3>4. s = t
        BY <1>1, <3>3 DEF SessionInv, OneWorks
      <3> QED BY <3>1, <3>2, <3>4
    <2> HIDE DEF open
    <2>2. CASE open = {}
      BY <2>2, FS_EmptySet
    <2>3. CASE open # {}
      <3>1. PICK c : open = {c}
        BY <2>1, <2>3
      <3> QED BY <3>1, FS_Singleton
    <2> QED BY <2>2, <2>3
  <1> QED BY <1>1, SessionsInv, PTL
-------------------------------------------------------------------------------
(***************************************************************************)
(* The records.  A thread holds the bytes that follow those of the records *)
(* received from its connection, and no other thread reads it.             *)
(***************************************************************************)
Taken(c) == Len(received[c])

\* The bytes of the k-th record of a connection.
Frame(k) == [i \in 1 .. RecordSize |-> (k - 1) * RecordSize + i]

ThreadReads(s) ==
    /\ spc[s] \in {"read", "health"} => gotBytes[conn[s]] = RecordSize * Taken(conn[s])
    /\ spc[s] \in {"recv", "decode", "submit"} =>
          /\ gotBytes[conn[s]] = RecordSize * Taken(conn[s]) + Len(data[s])
          /\ \A i \in 1 .. Len(data[s]) : data[s][i] = RecordSize * Taken(conn[s]) + i
    /\ spc[s] = "recv" => Len(data[s]) < RecordSize
    /\ spc[s] \in {"decode", "submit"} => Len(data[s]) = RecordSize
    /\ spc[s] = "submit" => malformed[conn[s]] # Taken(conn[s]) + 1

ConnReads(c) ==
    /\ link[c] \in {"new", "pending"} => Taken(c) = 0 /\ gotBytes[c] = 0
    /\ RecordSize * Taken(c) <= gotBytes[c]
    /\ malformed[c] # 0 => Taken(c) < malformed[c]
    /\ \A k \in 1 .. Taken(c) : received[c][k].bytes = Frame(k)

ReadInv == (\A s \in Servers : ThreadReads(s)) /\ (\A c \in Conns : ConnReads(c))

\* A sequence of RecordSize bytes after those of n records is the next record.
LEMMA IsFrame ==
    ASSUME NEW n \in Nat, NEW d \in Seq(Bytes), Len(d) = RecordSize,
           \A i \in 1 .. RecordSize : d[i] = RecordSize * n + i
    PROVE  d = Frame(n + 1)
  <1>1. DOMAIN d = 1 .. RecordSize /\ d = [i \in 1 .. RecordSize |-> d[i]]
    BY LenProperties
  <1>2. \A i \in 1 .. RecordSize : Frame(n + 1)[i] = d[i]
    <2>1. (n + 1) - 1 = n /\ n * RecordSize = RecordSize * n
      BY Numbers
    <2> QED BY <2>1 DEF Frame
  <1>3. Frame(n + 1) = [i \in 1 .. RecordSize |-> Frame(n + 1)[i]]
    BY DEF Frame
  <1> QED BY <1>1, <1>2, <1>3

\* The record that the first byte after n records belongs to.
LEMMA FrameAfter ==
    ASSUME NEW n \in Nat
    PROVE  FrameOf(RecordSize * n + 1) = n + 1
  <1>1. RecordSize * n \in Int /\ (RecordSize * n + 1) - 1 = RecordSize * n + 0
    BY Numbers
  <1>2. 0 \in 0 .. RecordSize - 1
    BY Numbers
  <1>3. (RecordSize * n + 0) \div RecordSize = n
    BY <1>2, Numbers, DivUnique
  <1> QED BY <1>1, <1>3 DEF FrameOf

LEMMA Counts ==
    ASSUME TypeInv
    PROVE  /\ \A c \in Conns : Taken(c) \in Nat /\ gotBytes[c] \in Nat /\ malformed[c] \in Nat
           /\ \A s \in Servers : data[s] \in Seq(Bytes) /\ Len(data[s]) \in Nat
           /\ \A s \in Servers : spc[s] \in Reading => conn[s] \in Conns
  BY Numbers, LenProperties DEF Taken, TypeInv, TypeOK, WireTypes, ServerTypes, ReadsConn

\* A step that leaves the bytes and the records alone, and every thread that
\* reads where it is, leaves them as they are.
LEMMA ReadsKept ==
    ASSUME TypeInv, ReadInv, UNCHANGED <<gotBytes, malformed, received, conn, data>>,
           \A s \in Servers : spc'[s] = spc[s] \/ spc'[s] \notin Reading,
           \A c \in Conns : link'[c] \in {"new", "pending"} => link[c] \in {"new", "pending"}
    PROVE  ReadInv'
  <1>1. ASSUME NEW s \in Servers PROVE ThreadReads(s)'
    <2>1. CASE spc'[s] = spc[s]
      BY <2>1 DEF ReadInv, ThreadReads, Taken
    <2>2. CASE spc'[s] \notin Reading
      BY <2>2 DEF ThreadReads, Reading
    <2> QED BY <2>1, <2>2
  <1>2. ASSUME NEW c \in Conns PROVE ConnReads(c)'
    BY DEF ReadInv, ConnReads, Taken
  <1> QED BY <1>1, <1>2 DEF ReadInv

\* A thread does not disturb what another one reads.
LEMMA OtherReads ==
    ASSUME TypeInv, LinkInv, ReadInv, NEW s \in Servers,
           NEW t \in Servers, t # s,
           spc'[t] = spc[t], conn'[t] = conn[t], data'[t] = data[t],
           UNCHANGED malformed,
           \A c \in Conns : c # conn[s] => gotBytes'[c] = gotBytes[c] /\ received'[c] = received[c]
    PROVE  ThreadReads(t)'
  <1>1. CASE spc[t] \in Reading
    <2>1. conn[t] # conn[s] /\ conn[t] \in Conns
      BY <1>1, Counts, Numbers DEF LinkInv, Held, HeldByOne
    <2>2. gotBytes'[conn[t]] = gotBytes[conn[t]] /\ received'[conn[t]] = received[conn[t]]
      BY <2>1
    <2>3. malformed'[conn[t]] = malformed[conn[t]]
      OBVIOUS
    <2>4. Taken(conn[t])' = Taken(conn[t])
      BY <2>2 DEF Taken
    <2>5. ThreadReads(t)
      BY DEF ReadInv
    <2> QED BY <2>2, <2>3, <2>4, <2>5 DEF ThreadReads
  <1>2. CASE spc[t] \notin Reading
    BY <1>2 DEF ThreadReads, Reading
  <1> QED BY <1>1, <1>2

\* A step of a thread concerns that thread and its connection.
LEMMA ServerReadsFrame ==
    ASSUME TypeInv, NEW s \in Servers, Server(s)
    PROVE  /\ UNCHANGED malformed
           /\ \A t \in Servers : t # s =>
                 spc'[t] = spc[t] /\ conn'[t] = conn[t] /\ data'[t] = data[t]
           /\ \A c \in Conns : c # conn[s] =>
                 gotBytes'[c] = gotBytes[c] /\ received'[c] = received[c]
  <1> USE DEF TypeInv, TypeOK, ServerTypes, WireTypes
  <1>1. UNCHANGED malformed
    BY ServerFrame
  <1>2. \A t \in Servers : t # s => spc'[t] = spc[t]
    BY ServerMoves
  <1>3. \A t \in Servers : t # s => conn'[t] = conn[t] /\ data'[t] = data[t]
    BY DEF Server, AcceptLoop, Accept, AcceptFails, ReadLoop, Recv, RecvEnds, DecodeFails,
       Decode, Submit, CheckHealth, Hangup
  <1>4. \A c \in Conns : c # conn[s] => gotBytes'[c] = gotBytes[c]
    <2>1. CASE Recv(s)
      <3>1. PICK n : gotBytes' = [gotBytes EXCEPT ![conn[s]] = gotBytes[conn[s]] + n]
        BY <2>1 DEF Recv
      <3> QED BY <3>1
    <2> QED BY <2>1, ServerWire
  <1>5. \A c \in Conns : c # conn[s] => received'[c] = received[c]
    BY ServerWire DEF Receive
  <1> QED BY <1>1, <1>2, <1>3, <1>4, <1>5

\* So what it does is right if it is for that thread and its connection.
LEMMA ServerReadsHere ==
    ASSUME TypeInv, LinkInv, ReadInv, NEW s \in Servers, Server(s),
           NEW h, h = conn[s], ThreadReads(s)', h \in Conns => ConnReads(h)'
    PROVE  ReadInv'
  <1>1. /\ UNCHANGED malformed
        /\ \A t \in Servers : t # s =>
              spc'[t] = spc[t] /\ conn'[t] = conn[t] /\ data'[t] = data[t]
        /\ \A c \in Conns : c # conn[s] => gotBytes'[c] = gotBytes[c] /\ received'[c] = received[c]
    BY ServerReadsFrame
  <1>2. ASSUME NEW t \in Servers, t # s PROVE ThreadReads(t)'
    BY <1>1, <1>2, OtherReads
  <1>3. \A c \in Conns : link'[c] \in {"new", "pending"} => link[c] \in {"new", "pending"}
    <2>1. CASE UNCHANGED <<link, backlog>>
      BY <2>1
    <2>2. CASE Accept(s)
      <3>1. Head(backlog) \in Conns /\ link' = [link EXCEPT ![Head(backlog)] = "open"]
        BY <2>2, Accepts DEF LinkInv
      <3> QED BY <3>1 DEF TypeInv, TypeOK, WireTypes
    <2>3. CASE Hangup(s)
      BY <2>3 DEF Hangup, TypeInv, TypeOK, WireTypes
    <2> QED BY <2>1, <2>2, <2>3, ServerWire
  <1>4. ASSUME NEW c \in Conns, c # conn[s] PROVE ConnReads(c)'
    <2>1. gotBytes'[c] = gotBytes[c] /\ received'[c] = received[c] /\ malformed'[c] = malformed[c]
      BY <1>1, <1>4
    <2>2. Taken(c)' = Taken(c)
      BY <2>1 DEF Taken
    <2>3. ConnReads(c)
      BY DEF ReadInv
    <2> QED BY <1>3, <2>1, <2>2, <2>3 DEF ConnReads
  <1>5. \A t \in Servers : ThreadReads(t)'
    BY <1>2
  <1>6. \A c \in Conns : ConnReads(c)'
    <2> SUFFICES ASSUME NEW c \in Conns PROVE ConnReads(c)'
      OBVIOUS
    <2>1. CASE c = h
      BY <2>1
    <2>2. CASE c # h
      BY <1>4, <2>2
    <2> QED BY <2>1, <2>2
  <1> QED BY <1>5, <1>6 DEF ReadInv

LEMMA RecvReadsOn ==
    ASSUME TypeInv, LinkInv, ReadInv, NEW s \in Servers, Recv(s), Server(s)
    PROVE  ReadInv'
  <1>0. spc[s] = "recv" /\ UNCHANGED <<conn, received, malformed, link>>
    BY DEF Recv, linkVars
  <1>1. PICK n \in 1 .. Wanted(s) :
          /\ n <= sentBytes[conn[s]] - gotBytes[conn[s]]
          /\ gotBytes' = [gotBytes EXCEPT ![conn[s]] = gotBytes[conn[s]] + n]
          /\ data' = [data EXCEPT ![s] = data[s] \o Piece(gotBytes[conn[s]], n)]
          /\ spc' = IF Len(data[s] \o Piece(gotBytes[conn[s]], n)) < RecordSize
                    THEN spc ELSE [spc EXCEPT ![s] = "decode"]
    BY DEF Recv, Piece
  <1>2. PICK read : read = data[s] \o Piece(gotBytes[conn[s]], n)
    OBVIOUS
  <1>3. PICK c, m, l, g : c = conn[s] /\ m = RecordSize * Taken(c) /\ l = Len(data[s]) /\ g = gotBytes[c]
    OBVIOUS
  <1>4. /\ c \in Conns /\ n \in Nat \ {0}
        /\ read \in Seq(Bytes) /\ Len(read) = l + n /\ Len(read) <= RecordSize
        /\ Extended(read, data[s], g, n)
    BY <1>0, <1>1, <1>2, <1>3, RecvReads
  <1>5. gotBytes'[c] = g + n /\ data'[s] = read /\ conn'[s] = c
    BY <1>0, <1>1, <1>2, <1>3, <1>4 DEF TypeInv, TypeOK, WireTypes, ServerTypes
  <1>6. \/ spc'[s] = "recv" /\ Len(read) < RecordSize
        \/ spc'[s] = "decode" /\ Len(read) = RecordSize
    <2>1. Len(read) \in Nat
      BY <1>4, LenProperties
    <2>2. Len(read) < RecordSize \/ Len(read) = RecordSize
      BY <1>4, <2>1, Numbers
    <2>3. CASE Len(read) < RecordSize
      BY <1>0, <1>1, <1>2, <2>3
    <2>4. CASE Len(read) = RecordSize
      <3>1. spc' = [spc EXCEPT ![s] = "decode"]
        BY <1>1, <1>2, <2>4, Numbers
      <3> QED BY <2>4, <3>1 DEF TypeInv, TypeOK, ServerTypes
    <2> QED BY <2>2, <2>3, <2>4
  <1>7. ThreadReads(s) /\ ConnReads(c)
    BY <1>4 DEF ReadInv
  <1>8. g = m + l /\ \A i \in 1 .. l : data[s][i] = m + i
    BY <1>0, <1>3, <1>7 DEF ThreadReads
  <1>9. g \in Nat /\ l \in Nat /\ m \in Nat
    <2>1. RecordSize \in Nat /\ Taken(c) \in Nat
      BY <1>4, Counts, Numbers
    <2>2. RecordSize * Taken(c) \in Nat
      BY <2>1
    <2> QED BY <1>3, <1>4, <2>2, Counts
  <1>10. Taken(c)' = Taken(c)
    BY <1>0 DEF Taken
  <1>11. \A i \in 1 .. Len(read) : read[i] = m + i
    <2> TAKE i \in 1 .. Len(read)
    <2>1. i \in 1 .. l + n /\ i \in Nat
      BY <1>4, <1>9
    <2>2. CASE i <= l
      BY <1>3, <1>4, <1>8, <1>9, <2>1, <2>2 DEF Extended
    <2>3. CASE ~(i <= l)
      <3>1. read[i] = g + (i - l)
        BY <1>3, <1>4, <2>1, <2>3 DEF Extended
      <3> QED BY <1>8, <1>9, <2>1, <3>1
    <2> QED BY <2>2, <2>3
  <1>12. g + n = m + Len(read)
    BY <1>4, <1>8, <1>9
  <1>13. ThreadReads(s)'
    <2>1. Taken(conn[s])' = Taken(c)'
      BY <1>5 DEF Taken
    <2>2. RecordSize * Taken(conn[s])' = m
      BY <1>3, <1>10, <2>1
    <2> QED BY <1>5, <1>6, <1>11, <1>12, <2>2 DEF ThreadReads
  <1>14. ConnReads(c)'
    <2>1. received' = received /\ malformed' = malformed /\ link' = link
      BY <1>0
    <2>2. link[c] = "open"
      BY <1>3, <1>4, Numbers DEF LinkInv, Held, HeldIsOpen
    <2>3. RecordSize * Taken(c) <= gotBytes'[c]
      BY <1>3, <1>4, <1>5, <1>8, <1>9
    <2> QED BY <1>7, <1>10, <2>1, <2>2, <2>3 DEF ConnReads
  <1> QED BY <1>3, <1>13, <1>14, ServerReadsHere

\* The record that is used is the next one of its connection.
LEMMA ReceiveReadsOn ==
    ASSUME TypeInv, LinkInv, ReadInv, NEW s \in Servers, Server(s),
           spc[s] \in {"decode", "submit"}, malformed[conn[s]] # Taken(conn[s]) + 1,
           NEW l \in BOOLEAN, NEW f \in BOOLEAN, Receive(s, l, f),
           UNCHANGED <<conn, data, gotBytes, link, malformed>>,
           spc'[s] \in {"read", "health"}
    PROVE  ReadInv'
  <1>1. PICK c, n, d : c = conn[s] /\ n = Taken(c) /\ d = data[s]
    OBVIOUS
  <1>2. c \in Conns /\ n \in Nat /\ d \in Seq(Bytes) /\ malformed[c] \in Nat /\ gotBytes[c] \in Nat
    BY <1>1, Counts DEF Reading
  <1>3. ThreadReads(s) /\ ConnReads(c)
    BY <1>2 DEF ReadInv
  <1>4. /\ gotBytes[c] = RecordSize * n + Len(d) /\ Len(d) = RecordSize
        /\ \A i \in 1 .. Len(d) : d[i] = RecordSize * n + i
    BY <1>1, <1>3 DEF ThreadReads
  <1>5. d = Frame(n + 1)
    BY <1>2, <1>4, IsFrame
  <1>6. /\ Len(received'[c]) = n + 1
        /\ \A k \in 1 .. n : received'[c][k] = received[c][k]
        /\ received'[c][n + 1] = [bytes |-> data[s], late |-> l, failed |-> f, by |-> s]
    <2>1. spc[s] \in Reading
      BY DEF Reading
    <2>2. n = Len(received[conn[s]])
      BY <1>1 DEF Taken
    <2> QED BY <1>1, <2>1, <2>2, ReceiveAppends
  <1>7. received'[c][n + 1].bytes = d
    <2>1. PICK x : x = [bytes |-> data[s], late |-> l, failed |-> f, by |-> s]
      OBVIOUS
    <2>2. x.bytes = data[s]
      BY ONLY <2>1
    <2> QED BY <1>1, <1>6, <2>1, <2>2
  <1>8. RecordSize * (n + 1) = RecordSize * n + RecordSize /\ RecordSize \in Nat
    BY <1>2, Numbers
  <1>9. ThreadReads(s)'
    <2>1. gotBytes'[conn'[s]] = RecordSize * (n + 1)
      BY <1>1, <1>4, <1>8
    <2>2. Taken(conn[s])' = n + 1
      BY <1>1, <1>6 DEF Taken
    <2> QED BY <2>1, <2>2 DEF ThreadReads
  <1>10. ConnReads(c)'
    <2>1. Taken(c)' = n + 1
      BY <1>6 DEF Taken
    <2>2. link'[c] = "open"
      BY <1>1, <1>2, Numbers DEF LinkInv, Held, HeldIsOpen
    <2>3. RecordSize * (n + 1) <= gotBytes'[c]
      BY <1>2, <1>4, <1>8
    <2>4. malformed'[c] # 0 => n + 1 < malformed'[c]
      BY <1>1, <1>2, <1>3 DEF ConnReads
    <2>5. \A k \in 1 .. n + 1 : received'[c][k].bytes = Frame(k)
      <3> TAKE k \in 1 .. n + 1
      <3>1. CASE k \in 1 .. n
        BY <1>1, <1>3, <1>6, <3>1 DEF ConnReads
      <3>2. CASE k = n + 1
        BY <1>5, <1>7, <3>2
      <3> QED BY <1>2, <3>1, <3>2
    <2> QED BY <2>1, <2>2, <2>3, <2>4, <2>5 DEF ConnReads
  <1> QED BY <1>1, <1>9, <1>10, ServerReadsHere

\* The record that has been read is malformed, or it is not.
LEMMA NotMalformed ==
    ASSUME TypeInv, ReadInv, NEW s \in Servers, spc[s] = "decode"
    PROVE  FrameOf(data[s][1]) = Taken(conn[s]) + 1
  <1>1. conn[s] \in Conns /\ Taken(conn[s]) \in Nat
    BY Counts DEF Reading
  <1>2. ThreadReads(s)
    BY DEF ReadInv
  <1>3. data[s][1] = RecordSize * Taken(conn[s]) + 1
    BY <1>2, Numbers DEF ThreadReads
  <1> QED BY <1>1, <1>3, FrameAfter

LEMMA DecodeReadsOn ==
    ASSUME TypeInv, LinkInv, ReadInv, NEW s \in Servers, Decode(s), Server(s)
    PROVE  ReadInv'
  <1>0. /\ spc[s] = "decode" /\ FrameOf(data[s][1]) # malformed[conn[s]]
        /\ spc' = [spc EXCEPT ![s] = IF exporter = 0 THEN "read" ELSE "submit"]
        /\ UNCHANGED <<conn, data, gotBytes, link, malformed>>
    BY DEF Decode, linkVars, wireVars
  <1>1. malformed[conn[s]] # Taken(conn[s]) + 1
    BY <1>0, NotMalformed
  <1>2. CASE exporter = 0
    <2>1. Receive(s, FALSE, FALSE)
      BY <1>2 DEF Decode
    <2>2. spc'[s] = "read"
      BY <1>0, <1>2 DEF TypeInv, TypeOK, ServerTypes
    <2> QED BY <1>0, <1>1, <2>1, <2>2, ReceiveReadsOn
  <1>3. CASE exporter # 0
    <2>1. UNCHANGED received /\ spc'[s] = "submit"
      BY <1>0, <1>3 DEF Decode, TypeInv, TypeOK, ServerTypes
    <2>2. ThreadReads(s) /\ (conn[s] \in Conns => ConnReads(conn[s]))
      BY DEF ReadInv
    <2>3. Taken(conn[s])' = Taken(conn[s])
      BY <1>0, <2>1 DEF Taken
    <2>4. ThreadReads(s)'
      BY <1>0, <1>1, <2>1, <2>2, <2>3 DEF ThreadReads
    <2>5. PICK c : c = conn[s]
      OBVIOUS
    <2>6. c \in Conns => ConnReads(c)'
      <3>1. Taken(c)' = Taken(c)
        BY <2>1 DEF Taken
      <3> QED BY <1>0, <2>1, <2>2, <2>5, <3>1 DEF ConnReads
    <2> QED BY <2>4, <2>5, <2>6, ServerReadsHere
  <1> QED BY <1>2, <1>3

LEMMA SubmitReadsOn ==
    ASSUME TypeInv, LinkInv, ReadInv, NEW s \in Servers, Submit(s), Server(s)
    PROVE  ReadInv'
  <1>1. /\ spc[s] = "submit" /\ spc' = [spc EXCEPT ![s] = "health"]
        /\ Receive(s, using[s] \in stopped, using[s] \in failed)
        /\ UNCHANGED <<conn, data, gotBytes, link, malformed>>
    BY DEF Submit, linkVars, wireVars
  <1>2. ThreadReads(s)
    BY DEF ReadInv
  <1>3. malformed[conn[s]] # Taken(conn[s]) + 1
    BY <1>1, <1>2 DEF ThreadReads
  <1>4. spc'[s] = "health"
    BY <1>1 DEF TypeInv, TypeOK, ServerTypes
  <1>5. (using[s] \in stopped) \in BOOLEAN /\ (using[s] \in failed) \in BOOLEAN
    OBVIOUS
  <1> QED BY <1>1, <1>3, <1>4, <1>5, ReceiveReadsOn

LEMMA AcceptReadsOn ==
    ASSUME TypeInv, LinkInv, ReadInv, NEW s \in Servers, Accept(s), Server(s)
    PROVE  ReadInv'
  <1>1. PICK h : h = Head(backlog)
    OBVIOUS
  <1>2. /\ h \in Conns /\ link[h] = "pending" /\ conn[s] = NoConn
        /\ conn' = [conn EXCEPT ![s] = h]
    BY <1>1, Accepts DEF LinkInv
  <1>3. spc' = [spc EXCEPT ![s] = "read"] /\ UNCHANGED <<gotBytes, received>>
    BY DEF Accept, wireVars
  <1>4. ConnReads(h)
    BY <1>2 DEF ReadInv
  <1>5. gotBytes[h] = 0 /\ Taken(h) = 0
    BY <1>2, <1>4 DEF ConnReads
  <1>6. conn'[s] = h /\ spc'[s] = "read"
    BY <1>2, <1>3 DEF TypeInv, TypeOK, ServerTypes
  <1>7. Taken(conn[s])' = 0 /\ gotBytes'[conn'[s]] = 0
    BY <1>3, <1>5, <1>6 DEF Taken
  <1>8. RecordSize * 0 = 0
    BY Numbers
  <1>9. ThreadReads(s)'
    BY <1>6, <1>7, <1>8 DEF ThreadReads
  <1>10. conn[s] \notin Conns
    BY <1>2, Numbers
  <1> QED BY <1>9, <1>10, ServerReadsHere

\* A step that reads and uses nothing.
LEMMA QuietReadsOn ==
    ASSUME TypeInv, LinkInv, ReadInv, NEW s \in Servers, Server(s),
           UNCHANGED <<gotBytes, received>>,
           \/ spc'[s] \notin Reading
           \/ spc[s] = "read" /\ spc'[s] = "recv" /\ conn'[s] = conn[s] /\ data'[s] = <<>>
           \/ spc[s] = "health" /\ spc'[s] = "read" /\ conn'[s] = conn[s],
           link'[conn[s]] = link[conn[s]] \/ link'[conn[s]] = "closed"
    PROVE  ReadInv'
  <1>1. PICK c : c = conn[s]
    OBVIOUS
  <1>2. UNCHANGED malformed
    BY ServerFrame
  <1>3. c \in Conns => ConnReads(c)'
    <2>1. Taken(c)' = Taken(c)
      BY DEF Taken
    <2>2. c \in Conns => ConnReads(c)
      BY DEF ReadInv
    <2> QED BY <1>1, <1>2, <2>1, <2>2 DEF ConnReads
  <1>4. ThreadReads(s)'
    <2>1. CASE spc'[s] \notin Reading
      BY <2>1 DEF ThreadReads, Reading
    <2>2. CASE spc[s] = "read" /\ spc'[s] = "recv" /\ conn'[s] = conn[s] /\ data'[s] = <<>>
      <3>1. Len(data'[s]) = 0 /\ 1 .. 0 = {}
        BY <2>2, EmptySeq
      <3>2. gotBytes[conn[s]] = RecordSize * Taken(conn[s]) /\ gotBytes[conn[s]] \in Nat
        BY <2>2, Counts DEF ReadInv, ThreadReads, Reading
      <3>3. Taken(conn[s])' = Taken(conn[s])
        BY <2>2 DEF Taken
      <3>4. gotBytes'[conn'[s]] = RecordSize * Taken(conn[s])' + Len(data'[s])
        BY <2>2, <3>1, <3>2, <3>3
      <3> QED BY <2>2, <3>1, <3>4, Numbers DEF ThreadReads
    <2>3. CASE spc[s] = "health" /\ spc'[s] = "read" /\ conn'[s] = conn[s]
      <3>1. Taken(conn[s])' = Taken(conn[s])
        BY <2>3 DEF Taken
      <3> QED BY <2>3, <3>1 DEF ReadInv, ThreadReads
    <2> QED BY <2>1, <2>2, <2>3
  <1> QED BY <1>1, <1>3, <1>4, ServerReadsHere

LEMMA ServerReads ==
    ASSUME TypeInv, LinkInv, ReadInv, NEW s \in Servers, Server(s)
    PROVE  ReadInv'
  <1> USE DEF TypeInv, TypeOK, ServerTypes, WireTypes
  <1>h. ASSUME Hangup(s), UNCHANGED <<gotBytes, received>>, spc[s] \in Reading PROVE ReadInv'
    <2>1. spc'[s] \notin Reading
      BY <1>h DEF Hangup, Reading
    <2>2. link'[conn[s]] = "closed"
      BY <1>h DEF Hangup, ReadsConn
    <2> QED BY <1>h, <2>1, <2>2, QuietReadsOn
  <1>1. CASE AcceptLoop(s)
    <2>1. spc'[s] \notin Reading /\ UNCHANGED <<gotBytes, received, link>>
      BY <1>1 DEF AcceptLoop, Reading, wireVars, linkVars
    <2> QED BY <2>1, QuietReadsOn
  <1>2. CASE Accept(s)
    BY <1>2, AcceptReadsOn
  <1>3. CASE AcceptFails(s)
    <2>1. spc'[s] \notin Reading /\ UNCHANGED <<gotBytes, received, link>>
      BY <1>3 DEF AcceptFails, Reading, wireVars, linkVars
    <2> QED BY <2>1, QuietReadsOn
  <1>4. CASE ReadLoop(s)
    <2>1. spc[s] = "read" /\ UNCHANGED <<gotBytes, received>>
      BY <1>4 DEF ReadLoop, wireVars
    <2>2. CASE Hangup(s)
      BY <1>h, <2>1, <2>2 DEF Reading
    <2>3. CASE ~Hangup(s)
      <3>1. /\ spc'[s] = "recv" /\ data'[s] = <<>> /\ conn'[s] = conn[s]
            /\ link'[conn[s]] = link[conn[s]]
        BY <1>4, <2>3 DEF ReadLoop
      <3> QED BY <2>1, <3>1, QuietReadsOn
    <2> QED BY <2>2, <2>3
  <1>5. CASE Recv(s)
    BY <1>5, RecvReadsOn
  <1>6. CASE RecvEnds(s)
    BY <1>6, <1>h DEF RecvEnds, Reading, wireVars
  <1>7. CASE DecodeFails(s)
    BY <1>7, <1>h DEF DecodeFails, Reading, wireVars
  <1>8. CASE Decode(s)
    BY <1>8, DecodeReadsOn
  <1>9. CASE Submit(s)
    BY <1>9, SubmitReadsOn
  <1>10. CASE CheckHealth(s)
    <2>1. spc[s] = "health" /\ UNCHANGED <<gotBytes, received>>
      BY <1>10 DEF CheckHealth, wireVars
    <2>2. CASE Hangup(s)
      BY <1>h, <2>1, <2>2 DEF Reading
    <2>3. CASE ~Hangup(s)
      <3>1. spc'[s] = "read" /\ conn'[s] = conn[s] /\ link'[conn[s]] = link[conn[s]]
        BY <1>10, <2>3 DEF CheckHealth
      <3> QED BY <2>1, <3>1, QuietReadsOn
    <2> QED BY <2>2, <2>3
  <1> QED BY <1>1, <1>2, <1>3, <1>4, <1>5, <1>6, <1>7, <1>8, <1>9, <1>10 DEF Server

LEMMA OwnerReads ==
    ASSUME TypeInv, ReadInv, Owner
    PROVE  ReadInv'
  <1>1. UNCHANGED <<conn, data, gotBytes, malformed, received>>
    BY OwnerFrame
  <1>2. \A s \in Servers : spc'[s] = spc[s] \/ spc'[s] \notin Reading
    BY DEF Owner, StartFailsToBind, Start, StartFailsToExport, StopBegin, CloseListener,
       JoinServer, StopExporter, serverVars, Reading, TypeInv, TypeOK, ServerTypes
  <1>3. \A c \in Conns : link'[c] \in {"new", "pending"} => link[c] \in {"new", "pending"}
    BY DEF Owner, StartFailsToBind, Start, StartFailsToExport, StopBegin, CloseListener,
       JoinServer, StopExporter, linkVars, TypeInv, TypeOK, WireTypes
  <1> QED BY <1>1, <1>2, <1>3, ReadsKept

\* A malformed record is one that the server has not read.
LEMMA MalformedIsAhead ==
    ASSUME TypeInv, NEW c \in Conns, NEW n \in Nat, RecordSize * n <= gotBytes[c],
           NEW m, m = FrameOf(sentBytes[c] + 1)
    PROVE  m \in Nat /\ n < m
  <1>1. /\ sentBytes[c] \in Int /\ gotBytes[c] \in Int /\ gotBytes[c] <= sentBytes[c]
        /\ sentBytes[c] \in Nat
    BY Numbers DEF TypeInv, TypeOK, WireTypes, GotSent
  <1>2. RecordSize * n \in Int /\ RecordSize * n <= sentBytes[c] /\ RecordSize * 0 <= sentBytes[c]
    BY <1>1, Numbers
  <1>3. n <= sentBytes[c] \div RecordSize /\ 0 <= sentBytes[c] \div RecordSize
    BY <1>1, <1>2, Numbers, DivBounds
  <1>4. sentBytes[c] \div RecordSize \in Int
    BY <1>1, Numbers, Divided
  <1>5. m = sentBytes[c] \div RecordSize + 1
    <2>1. (sentBytes[c] + 1) - 1 = sentBytes[c]
      BY <1>1
    <2> QED BY <2>1 DEF FrameOf
  <1> QED BY <1>3, <1>4, <1>5

LEMMA SendReads ==
    ASSUME TypeInv, ReadInv, NEW c \in Conns, Send(c)
    PROVE  ReadInv'
  <1>1. /\ UNCHANGED <<spc, conn, data, link, gotBytes, received>>
        /\ \/ malformed' = malformed
           \/ malformed' = [malformed EXCEPT ![c] = FrameOf(sentBytes[c] + 1)]
    BY DEF Send, serverVars, linkVars
  <1>2. CASE malformed' = malformed
    BY <1>1, <1>2, ReadsKept
  <1>3. CASE malformed' = [malformed EXCEPT ![c] = FrameOf(sentBytes[c] + 1)]
    <2>1. PICK m : m = FrameOf(sentBytes[c] + 1)
      OBVIOUS
    <2>2. malformed'[c] = m /\ \A d \in Conns : d # c => malformed'[d] = malformed[d]
      BY <1>3, <2>1 DEF TypeInv, TypeOK, WireTypes
    <2>3. \A d : Taken(d)' = Taken(d)
      BY <1>1 DEF Taken
    <2>4. ASSUME NEW d \in Conns PROVE ConnReads(d)'
      <3>1. ConnReads(d)
        BY DEF ReadInv
      <3>2. CASE d = c
        <4>1. Taken(c) < m
          BY <2>1, <3>1, <3>2, Counts, MalformedIsAhead DEF ConnReads
        <4> QED BY <1>1, <2>2, <2>3, <3>1, <3>2, <4>1 DEF ConnReads
      <3>3. CASE d # c
        BY <1>1, <2>2, <2>3, <3>1, <3>3 DEF ConnReads
      <3> QED BY <3>2, <3>3
    <2>5. ASSUME NEW s \in Servers PROVE ThreadReads(s)'
      <3>1. ThreadReads(s) /\ spc'[s] = spc[s] /\ conn'[s] = conn[s] /\ data'[s] = data[s]
        BY <1>1 DEF ReadInv
      <3>2. Taken(conn[s])' = Taken(conn[s]) /\ gotBytes'[conn'[s]] = gotBytes[conn[s]]
        BY <1>1 DEF Taken
      <3>3. CASE spc[s] = "submit"
        <4>1. conn[s] \in Conns /\ Taken(conn[s]) \in Nat
          BY <3>3, Counts DEF Reading
        <4>2. gotBytes[conn[s]] = RecordSize * Taken(conn[s]) + RecordSize
          BY <3>1, <3>3 DEF ThreadReads
        <4>3. CASE conn[s] = c
          <5>1. PICK n \in Nat : n = Taken(c) + 1
            BY <4>1, <4>3
          <5>2. RecordSize * n = RecordSize * Taken(c) + RecordSize
            BY <4>1, <4>3, <5>1, Numbers
          <5>3. RecordSize * n <= gotBytes[c]
            BY <4>2, <4>3, <5>2, Counts
          <5>4. n < m /\ m \in Nat
            BY <2>1, <5>3, MalformedIsAhead
          <5> QED BY <2>2, <3>1, <3>2, <4>3, <5>1, <5>4 DEF ThreadReads
        <4>4. CASE conn[s] # c
          <5>1. malformed'[conn[s]] = malformed[conn[s]]
            BY <2>2, <4>1, <4>4
          <5> QED BY <3>1, <3>2, <5>1 DEF ThreadReads
        <4> QED BY <4>3, <4>4
      <3>4. CASE spc[s] # "submit"
        BY <3>1, <3>2, <3>4 DEF ThreadReads
      <3> QED BY <3>3, <3>4
    <2> QED BY <2>4, <2>5 DEF ReadInv
  <1> QED BY <1>1, <1>2, <1>3

LEMMA ProducerReads ==
    ASSUME TypeInv, ReadInv, NEW c \in Conns, Producer(c)
    PROVE  ReadInv'
  <1>1. CASE Send(c)
    BY <1>1, SendReads
  <1>2. CASE ~Send(c)
    <2>1. UNCHANGED <<serverVars, gotBytes, received>>
      BY ProducerFrame
    <2>2. UNCHANGED malformed
      BY <1>2 DEF Producer, Connect, Disconnect, wireVars
    <2>3. \A d \in Conns : link'[d] \in {"new", "pending"} => link[d] \in {"new", "pending"}
      BY <1>2 DEF Producer, Connect, Disconnect, linkVars, TypeInv, TypeOK, WireTypes
    <2> QED BY <2>1, <2>2, <2>3, ReadsKept DEF serverVars
  <1> QED BY <1>1, <1>2

LEMMA NextReads ==
    ASSUME TypeInv, LinkInv, ReadInv, [Next]_vars
    PROVE  ReadInv'
  <1>1. CASE UNCHANGED <<serverVars, linkVars, wireVars, received>>
    BY <1>1, ReadsKept DEF serverVars, linkVars, wireVars
  <1>2. CASE \E e \in Servers : WriteFails(e)
    BY <1>1, <1>2 DEF WriteFails
  <1>3. CASE UNCHANGED vars
    BY <1>1, <1>3 DEF vars
  <1> QED BY <1>2, <1>3, OwnerReads, ServerReads, ProducerReads DEF Next

LEMMA InitReads == Init => ReadInv
  <1> SUFFICES ASSUME Init PROVE ReadInv
    OBVIOUS
  <1>1. Len(<<>>) = 0 /\ RecordSize * 0 = 0
    BY EmptySeq, Numbers
  <1>2. ASSUME NEW c \in Conns PROVE ConnReads(c)
    BY <1>1 DEF Init, ConnReads, Taken
  <1>3. ASSUME NEW s \in Servers PROVE ThreadReads(s)
    BY DEF Init, ThreadReads
  <1> QED BY <1>2, <1>3 DEF ReadInv

\* The records of a connection are those its producer sent, whole and in order,
\* and end before its first malformed one, however recv() cuts the stream: the
\* thread that reads it is alone with it, and holds the bytes that come next.
THEOREM RecordsWhole == Spec => []RecordsAreWhole
  <1>1. ASSUME TypeInv, LinkInv, ReadInv, [Next]_vars PROVE ReadInv'
    BY <1>1, NextReads
  <1>2. ASSUME TypeInv, ReadInv PROVE RecordsAreWhole
    <2> SUFFICES ASSUME NEW c \in Conns, NEW k \in DOMAIN received[c]
                 PROVE  /\ received[c][k].bytes = Frame(k)
                        /\ malformed[c] # 0 => k < malformed[c]
      BY DEF RecordsAreWhole, Frame
    <2>1. DOMAIN received[c] = 1 .. Taken(c) /\ Taken(c) \in Nat /\ malformed[c] \in Nat
      BY <1>2, LenProperties, Counts DEF Taken, TypeInv, TypeOK, WireTypes
    <2>2. ConnReads(c)
      BY <1>2 DEF ReadInv
    <2> QED BY <2>1, <2>2 DEF ConnReads
  <1> QED BY <1>1, <1>2, InitReads, SessionsInv, PTL DEF Spec
===============================================================================
