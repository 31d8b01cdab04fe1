-------------------------- MODULE StreamSystem_proofs --------------------------
(***************************************************************************)
(* Proofs about StreamSystem, for every capacity, window and backlog, and  *)
(* any number of records, lives and faults.                                *)
(***************************************************************************)
EXTENDS StreamSystem, DataLemmas

(***************************************************************************)
(* Types.                                                                  *)
(***************************************************************************)
Rec == [life : Nat, conn : Nat, n : Nat, nth : Nat]

Connection == [id : Nat, data : Seq(Rec), closed : BOOLEAN, accepted : BOOLEAN]

ProducerTypes ==
    /\ offered \in Nat
    /\ oldest \in 0 .. offered
    /\ taken \in Seq(Nat)
    /\ offersBefore \in Seq(Nat)
    /\ hand \in Rec \cup {NoRecord}
    /\ link \in Nat
    /\ dialled \in Nat

ArchiveTypes ==
    /\ arrived \in Seq(Rec)
    /\ pending \in Seq(Nat)
    /\ archived \in Seq(Nat)

ServesFirst == server \in {"recv", "check"} => conns # <<>> /\ conns[1].accepted

TypeInv ==
    /\ ProducerTypes
    /\ ArchiveTypes
    /\ conns \in Seq(Connection)
    /\ ServesFirst

LEMMA Sizes ==
    /\ Capacity \in Nat \ {0} /\ Window \in Nat \ {0} /\ Backlog \in Nat \ {0}
    /\ MaxLives \in Nat \ {0} /\ MaxRecords \in Nat /\ MaxFaults \in Nat /\ Room \in Int
  BY StreamSystemAssumption

LEMMA ARecord == ASSUME NEW r \in Rec PROVE r # NoRecord
  BY DEF Rec, NoRecord

LEMMA PoppedIsRecord == ASSUME ProducerTypes PROVE Popped \in Rec
  BY LenProperties DEF ProducerTypes, Popped, Rec, Life

(***************************************************************************)
(* What a step does to the connections.                                    *)
(***************************************************************************)
Size == Len(conns)
Id(k) == conns[k].id
Data(k) == conns[k].data

\* Some connections are dropped, and the others hold what they held.
Thinned ==
    \E f \in [1 .. Size' -> 1 .. Size] :
        /\ \A k, l \in 1 .. Size' : k < l => f[k] < f[l]
        /\ \A k \in 1 .. Size' : Id(k)' = Id(f[k]) /\ Data(k)' = Data(f[k])

ClosesLink ==
    conns' = [i \in DOMAIN conns |->
                 IF i \in LinkAt THEN [conns[i] EXCEPT !.closed = TRUE] ELSE conns[i]]

LEMMA ConnTyped ==
    ASSUME conns \in Seq(Connection)
    PROVE  /\ Size \in Nat /\ DOMAIN conns = 1 .. Size
           /\ \A k \in 1 .. Size : conns[k] \in Connection /\ Id(k) \in Nat /\ Data(k) \in Seq(Rec)
  <1>1. Size \in Nat /\ DOMAIN conns = 1 .. Size /\ \A k \in 1 .. Size : conns[k] \in Connection
    BY LenProperties, ElementOfSeq DEF Size
  <1>2. \A c \in Connection : c.id \in Nat /\ c.data \in Seq(Rec)
    BY DEF Connection
  <1> QED BY <1>1, <1>2 DEF Id, Data

LEMMA ThinnedSame ==
    ASSUME conns \in Seq(Connection), conns' \in Seq(Connection), Size' = Size,
           \A k \in 1 .. Size : Id(k)' = Id(k) /\ Data(k)' = Data(k)
    PROVE  Thinned
  <1> DEFINE f == [k \in 1 .. Size |-> k]
  <1>1. Size \in Nat
    BY ConnTyped
  <1>2. f \in [1 .. Size' -> 1 .. Size] /\ \A k \in 1 .. Size' : f[k] = k
    BY <1>1
  <1> HIDE DEF f
  <1>3. \A k, l \in 1 .. Size' : k < l => f[k] < f[l]
    BY <1>2
  <1>4. \A k \in 1 .. Size' : Id(k)' = Id(f[k]) /\ Data(k)' = Data(f[k])
    BY <1>2
  <1> QED BY <1>2, <1>3, <1>4 DEF Thinned

LEMMA ThinnedNone ==
    ASSUME conns' = <<>>
    PROVE  conns' \in Seq(Connection) /\ Thinned
  <1> DEFINE f == [k \in {} |-> 1]
  <1>1. Size' = 0 /\ 1 .. 0 = {} /\ conns' \in Seq(Connection)
    BY EmptySeq DEF Size
  <1>2. f \in [1 .. Size' -> 1 .. Size]
    BY <1>1
  <1> HIDE DEF f
  <1> QED BY <1>1, <1>2 DEF Thinned

LEMMA ThinnedRemoved ==
    ASSUME conns \in Seq(Connection), NEW i \in 1 .. Size, conns' = RemoveAt(conns, i)
    PROVE  conns' \in Seq(Connection) /\ Thinned /\ Size' = Size - 1
  <1> DEFINE f == [k \in 1 .. Size - 1 |-> IF k < i THEN k ELSE k + 1]
  <1>1. Size \in Nat
    BY ConnTyped
  <1>2. /\ conns' \in Seq(Connection) /\ Size' = Size - 1
        /\ \A k \in 1 .. Size - 1 : conns'[k] = IF k < i THEN conns[k] ELSE conns[k + 1]
    BY RemovedAt DEF Size
  <1>3. f \in [1 .. Size' -> 1 .. Size]
    BY <1>1, <1>2
  <1>4. \A k \in 1 .. Size' : f[k] = IF k < i THEN k ELSE k + 1
    BY <1>2
  <1> HIDE DEF f
  <1>5. \A k, l \in 1 .. Size' : k < l => f[k] < f[l]
    BY <1>1, <1>2, <1>4
  <1>6. \A k \in 1 .. Size' : conns'[k] = conns[f[k]]
    BY <1>1, <1>2, <1>4
  <1>7. \A k \in 1 .. Size' : Id(k)' = Id(f[k]) /\ Data(k)' = Data(f[k])
    BY <1>6 DEF Id, Data
  <1> QED BY <1>2, <1>3, <1>5, <1>7 DEF Thinned

LEMMA ThinnedTail ==
    ASSUME conns \in Seq(Connection), conns # <<>>, conns' = Tail(conns)
    PROVE  conns' \in Seq(Connection) /\ Thinned
  <1> DEFINE f == [k \in 1 .. Size - 1 |-> k + 1]
  <1>1. Size \in Nat \ {0}
    BY ConnTyped, EmptySeq DEF Size
  <1>2. /\ conns' \in Seq(Connection) /\ Size' = Size - 1
        /\ \A k \in 1 .. Size - 1 : conns'[k] = conns[k + 1]
    BY HeadTailProperties DEF Size
  <1>3. f \in [1 .. Size' -> 1 .. Size] /\ \A k \in 1 .. Size' : f[k] = k + 1
    BY <1>1, <1>2
  <1> HIDE DEF f
  <1>4. \A k, l \in 1 .. Size' : k < l => f[k] < f[l]
    BY <1>1, <1>2, <1>3
  <1>5. \A k \in 1 .. Size' : conns'[k] = conns[f[k]]
    BY <1>1, <1>2, <1>3
  <1>6. \A k \in 1 .. Size' : Id(k)' = Id(f[k]) /\ Data(k)' = Data(f[k])
    BY <1>5 DEF Id, Data
  <1> QED BY <1>2, <1>3, <1>4, <1>6 DEF Thinned

LEMMA ThinnedClosed ==
    ASSUME conns \in Seq(Connection), ClosesLink
    PROVE  /\ conns' \in Seq(Connection) /\ Thinned
           /\ \A k \in 1 .. Size : conns'[k].accepted = conns[k].accepted
           /\ Size' = Size
  <1>1. Size \in Nat /\ DOMAIN conns = 1 .. Size /\ \A k \in 1 .. Size : conns[k] \in Connection
    BY ConnTyped
  <1>2. ASSUME NEW k \in 1 .. Size
        PROVE  /\ conns'[k] \in Connection /\ conns'[k].id = conns[k].id
               /\ conns'[k].data = conns[k].data /\ conns'[k].accepted = conns[k].accepted
    <2>1. conns'[k] = IF k \in LinkAt THEN [conns[k] EXCEPT !.closed = TRUE] ELSE conns[k]
      BY <1>1 DEF ClosesLink
    <2> QED BY <1>1, <2>1 DEF Connection
  <1>3. DOMAIN conns' = 1 .. Size
    BY <1>1 DEF ClosesLink
  <1>4. conns' \in [1 .. Size -> Connection]
    <2>1. conns' = [k \in 1 .. Size |-> conns'[k]]
      BY <1>1 DEF ClosesLink
    <2> QED BY <1>2, <2>1
  <1>5. conns' \in Seq(Connection) /\ Size' = Size
    BY <1>1, <1>4 DEF Size
  <1>6. \A k \in 1 .. Size : Id(k)' = Id(k) /\ Data(k)' = Data(k)
    BY <1>2 DEF Id, Data
  <1> QED BY <1>2, <1>5, <1>6, ThinnedSame

\* A connection is replaced by one that holds something else.
LEMMA Replaced ==
    ASSUME conns \in Seq(Connection), NEW i \in 1 .. Size, NEW c \in Connection,
           conns' = [conns EXCEPT ![i] = c]
    PROVE  /\ conns' \in Seq(Connection) /\ Size' = Size
           /\ Id(i)' = c.id /\ Data(i)' = c.data /\ conns'[i] = c
           /\ \A k \in 1 .. Size : k # i =>
                 Id(k)' = Id(k) /\ Data(k)' = Data(k) /\ conns'[k] = conns[k]
  <1>1. Size \in Nat /\ DOMAIN conns = 1 .. Size /\ \A k \in 1 .. Size : conns[k] \in Connection
    BY ConnTyped
  <1>2. conns' \in Seq(Connection) /\ Size' = Size
    <2>1. conns \in [1 .. Size -> Connection]
      BY <1>1, LenProperties DEF Size
    <2>2. conns' \in [1 .. Size -> Connection]
      BY <2>1
    <2> QED BY <1>1, <2>2 DEF Size
  <1>3. conns'[i] = c /\ \A k \in 1 .. Size : k # i => conns'[k] = conns[k]
    BY <1>1
  <1> QED BY <1>2, <1>3 DEF Id, Data

LEMMA AcceptKeeps ==
    ASSUME conns \in Seq(Connection), AcceptConn
    PROVE  conns' \in Seq(Connection) /\ Thinned /\ conns' # <<>> /\ conns'[1].accepted
  <1>1. Size \in Nat \ {0} /\ 1 \in 1 .. Size
    BY ConnTyped, EmptySeq DEF AcceptConn, Size
  <1>2. PICK c : c = [conns[1] EXCEPT !.accepted = TRUE]
    OBVIOUS
  <1>3. conns[1] \in Connection
    BY <1>1, ConnTyped
  <1>4. c \in Connection /\ c.id = Id(1) /\ c.data = Data(1) /\ c.accepted
    BY <1>2, <1>3 DEF Connection, Id, Data
  <1>5. conns' = [conns EXCEPT ![1] = c]
    BY <1>2 DEF AcceptConn
  <1>6. /\ conns' \in Seq(Connection) /\ Size' = Size /\ conns'[1] = c
        /\ \A k \in 1 .. Size : Id(k)' = Id(k) /\ Data(k)' = Data(k)
    <2>1. /\ conns' \in Seq(Connection) /\ Size' = Size
          /\ Id(1)' = c.id /\ Data(1)' = c.data /\ conns'[1] = c
          /\ \A k \in 1 .. Size : k # 1 => Id(k)' = Id(k) /\ Data(k)' = Data(k)
      BY ZenonT(30), <1>1, <1>4, <1>5, Replaced
    <2> QED BY <1>4, <2>1
  <1>7. conns' # <<>>
    BY <1>1, <1>6, EmptySeq DEF Size
  <1> QED BY <1>4, <1>6, <1>7, ThinnedSame

\* A record is sent on a connection.
SentOn(i) ==
    /\ Size' = Size
    /\ \A k \in 1 .. Size : Id(k)' = Id(k)
    /\ Data(i)' = Append(Data(i), hand)
    /\ \A k \in 1 .. Size : k # i => Data(k)' = Data(k)

LEMMA SendPuts ==
    ASSUME TypeInv, NEW i \in LinkAt, hand # NoRecord,
           conns' = [conns EXCEPT ![i].data = Append(conns[i].data, hand)]
    PROVE  /\ conns' \in Seq(Connection) /\ i \in 1 .. Size /\ SentOn(i)
           /\ conns'[1].accepted = conns[1].accepted
  <1>1. i \in 1 .. Size /\ conns[i] \in Connection /\ conns \in Seq(Connection)
    BY ConnTyped DEF LinkAt, TypeInv
  <1>2. PICK c : c = [conns[i] EXCEPT !.data = Append(conns[i].data, hand)]
    OBVIOUS
  <1>3. PICK d \in Seq(Rec) : d = conns[i].data
    BY <1>1 DEF Connection
  <1>4. Append(d, hand) \in Seq(Rec)
    BY AppendProperties DEF TypeInv, ProducerTypes
  <1>5. /\ c \in Connection /\ c.id = Id(i) /\ c.data = Append(Data(i), hand)
        /\ c.accepted = conns[i].accepted
    BY <1>1, <1>2, <1>3, <1>4 DEF Connection, Id, Data
  <1>6. conns' = [conns EXCEPT ![i] = c]
    BY <1>2
  <1>7. /\ conns' \in Seq(Connection) /\ Size' = Size
        /\ Id(i)' = c.id /\ Data(i)' = c.data /\ conns'[i] = c
        /\ \A k \in 1 .. Size : k # i =>
              Id(k)' = Id(k) /\ Data(k)' = Data(k) /\ conns'[k] = conns[k]
    BY <1>1, <1>5, <1>6, Replaced
  <1>8. conns'[1].accepted = conns[1].accepted
    <2>1. CASE i = 1
      BY <1>5, <1>7, <2>1
    <2>2. CASE i # 1
      <3>1. 1 \in 1 .. Size
        BY <1>1, ConnTyped
      <3> QED BY <1>7, <2>2, <3>1
    <2> QED BY <2>1, <2>2
  <1> QED BY <1>1, <1>5, <1>7, <1>8 DEF SentOn

\* The first record of the first connection is received.
Received ==
    /\ 1 \in 1 .. Size
    /\ Size' = Size
    /\ \A k \in 1 .. Size : Id(k)' = Id(k)
    /\ Data(1) # <<>>
    /\ Data(1)' = Tail(Data(1))
    /\ \A k \in 1 .. Size : k # 1 => Data(k)' = Data(k)
    /\ Data(1)[1] \in Rec
    /\ arrived' = Append(arrived, Data(1)[1])

LEMMA ReceiveTakes ==
    ASSUME TypeInv, Receive
    PROVE  /\ conns' \in Seq(Connection) /\ Received
           /\ conns' # <<>> /\ conns'[1].accepted
  <1>1. Size \in Nat \ {0} /\ 1 \in 1 .. Size /\ conns \in Seq(Connection) /\ conns[1].accepted
    BY ConnTyped, EmptySeq DEF TypeInv, ServesFirst, Receive, Size
  <1>2. conns[1] \in Connection
    BY <1>1, ConnTyped
  <1>3. PICK d \in Seq(Rec) : d = conns[1].data
    BY <1>2 DEF Connection
  <1>4. Tail(d) \in Seq(Rec) /\ d[1] \in Rec
    BY <1>3, HeadTailProperties DEF Receive
  <1>5. PICK c : c = [conns[1] EXCEPT !.data = Tail(conns[1].data)]
    OBVIOUS
  <1>6. c \in Connection /\ c.id = Id(1) /\ c.data = Tail(Data(1)) /\ c.accepted
    BY <1>1, <1>2, <1>3, <1>4, <1>5 DEF Connection, Id, Data
  <1>7. conns' = [conns EXCEPT ![1] = c]
    BY <1>5 DEF Receive
  <1>8. /\ conns' \in Seq(Connection) /\ Size' = Size
        /\ Id(1)' = c.id /\ Data(1)' = c.data /\ conns'[1] = c
        /\ \A k \in 1 .. Size : k # 1 => Id(k)' = Id(k) /\ Data(k)' = Data(k)
    BY ZenonT(30), <1>1, <1>6, <1>7, Replaced
  <1>9. conns' # <<>>
    BY <1>1, <1>8, EmptySeq DEF Size
  <1> QED BY <1>1, <1>3, <1>4, <1>6, <1>8, <1>9 DEF Received, Receive, Data

\* A connection is made.
Connected ==
    /\ Size' = Size + 1
    /\ \A k \in 1 .. Size : Id(k)' = Id(k) /\ Data(k)' = Data(k)
    /\ Id(Size)' = dialled'
    /\ Data(Size)' = <<>>

LEMMA ConnectMakes ==
    ASSUME TypeInv, Connect
    PROVE  /\ conns' \in Seq(Connection) /\ Connected /\ dialled' = dialled + 1 /\ link' = dialled + 1
           /\ conns # <<>> => conns' # <<>> /\ conns'[1] = conns[1]
  <1>1. Size \in Nat /\ conns \in Seq(Connection)
    BY ConnTyped DEF TypeInv
  <1>2. dialled' = dialled + 1 /\ link' = dialled + 1 /\ dialled + 1 \in Nat
    BY DEF Connect, TypeInv, ProducerTypes
  <1>3. PICK c : c = [id |-> dialled', data |-> <<>>, closed |-> FALSE, accepted |-> FALSE]
    OBVIOUS
  <1>4. c \in Connection /\ c.id = dialled' /\ c.data = <<>>
    <2>1. <<>> \in Seq(Rec)
      BY EmptySeq
    <2> QED BY <1>2, <1>3, <2>1 DEF Connection
  <1>5. conns' = Append(conns, c)
    BY <1>3 DEF Connect
  <1>6. /\ conns' \in Seq(Connection) /\ Len(conns') = Size + 1
        /\ \A k \in 1 .. Size : conns'[k] = conns[k]
        /\ conns'[Size + 1] = c
    BY <1>1, <1>4, <1>5, AppendProperties DEF Size
  <1>7. conns # <<>> => conns' # <<>> /\ conns'[1] = conns[1]
    BY <1>1, <1>6, EmptySeq DEF Size
  <1>8. Connected
    <2>1. Size' = Size + 1 /\ Id(Size)' = c.id /\ Data(Size)' = c.data
      <3>1. Size' = Size + 1
        BY <1>6 DEF Size
      <3>2. conns'[Size'] = c
        BY <1>6, <3>1
      <3> QED BY <3>1, <3>2 DEF Id, Data
    <2>2. \A k \in 1 .. Size : Id(k)' = Id(k) /\ Data(k)' = Data(k)
      BY <1>6 DEF Id, Data
    <2> QED BY <1>4, <2>1, <2>2 DEF Connected
  <1> QED BY <1>2, <1>6, <1>7, <1>8

LEMMA BreakThins ==
    ASSUME TypeInv, Break
    PROVE  /\ conns' \in Seq(Connection) /\ Thinned /\ UNCHANGED <<producerVars, exporterVars>>
           /\ ServesFirst'
  <1>1. PICK i \in DOMAIN conns :
          /\ conns' = RemoveAt(conns, i)
          /\ conns[i].accepted => server = "recv"
          /\ server' = IF conns[i].accepted THEN NextAccept ELSE server
    BY DEF Break
  <1>2. /\ i \in 1 .. Size /\ conns \in Seq(Connection) /\ Size \in Nat
        /\ \A k \in 1 .. Size : conns[k] \in Connection
    BY ConnTyped DEF TypeInv
  <1>3. conns' \in Seq(Connection) /\ Thinned /\ Size' = Size - 1
    BY <1>1, <1>2, ThinnedRemoved
  <1>4. ServesFirst'
    <2> SUFFICES ASSUME server' \in {"recv", "check"} PROVE conns' # <<>> /\ conns'[1].accepted
      BY DEF ServesFirst
    <2>1. server' = server /\ ~conns[i].accepted
      BY <1>1 DEF NextAccept
    <2>2. conns[1].accepted
      BY <2>1 DEF TypeInv, ServesFirst
    <2>3. i # 1 /\ 1 \in 1 .. Size - 1
      BY <1>2, <2>1, <2>2
    <2>4. \A k \in 1 .. Size - 1 : conns'[k] = IF k < i THEN conns[k] ELSE conns[k + 1]
      BY <1>1, <1>2, RemovedAt DEF Size
    <2>5. conns'[1] = conns[1]
      BY <1>2, <2>3, <2>4
    <2>6. conns' # <<>>
      BY <1>3, <2>3, EmptySeq DEF Size
    <2> QED BY <2>2, <2>5, <2>6
  <1> QED BY <1>3, <1>4 DEF Break

LEMMA LetGoThins ==
    ASSUME TypeInv, ClosesLink, UNCHANGED server
    PROVE  conns' \in Seq(Connection) /\ Thinned /\ ServesFirst'
  <1>1. conns \in Seq(Connection)
    BY DEF TypeInv
  <1>2. /\ conns' \in Seq(Connection) /\ Thinned /\ Size' = Size
        /\ \A k \in 1 .. Size : conns'[k].accepted = conns[k].accepted
    BY <1>1, ThinnedClosed
  <1>3. ASSUME conns # <<>> PROVE conns' # <<>> /\ conns'[1].accepted = conns[1].accepted
    <2>1. 1 \in 1 .. Size /\ Size \in Nat
      BY <1>1, <1>3, ConnTyped, EmptySeq DEF Size
    <2> QED BY <1>2, <2>1, EmptySeq DEF Size
  <1> QED BY <1>2, <1>3 DEF TypeInv, ServesFirst

LEMMA ServerThins ==
    ASSUME TypeInv, AcceptConn \/ CheckHealth \/ RecvEnds
    PROVE  conns' \in Seq(Connection) /\ Thinned /\ ServesFirst'
  <1> USE DEF TypeInv
  <1>1. CASE AcceptConn
    BY <1>1, AcceptKeeps DEF ServesFirst
  <1>2. CASE HangUp /\ conns # <<>>
    BY <1>2, ThinnedTail DEF HangUp, NextAccept, ServesFirst
  <1>3. CASE UNCHANGED conns /\ server = "check"
    <2>1. ServesFirst'
      BY <1>3 DEF ServesFirst
    <2>2. Size' = Size /\ \A k \in 1 .. Size : Id(k)' = Id(k) /\ Data(k)' = Data(k)
      BY <1>3 DEF Size, Id, Data
    <2> QED BY <1>3, <2>1, <2>2, ThinnedSame
  <1> QED BY <1>1, <1>2, <1>3 DEF CheckHealth, RecvEnds, ServesFirst

\* A stop leaves the connection that is being read, if there is one.
LEMMA StopThins ==
    ASSUME TypeInv, ConsumerStop
    PROVE  conns' \in Seq(Connection) /\ Thinned /\ ServesFirst'
  <1>1. CASE server' = "off" /\ conns' = <<>>
    BY <1>1, ThinnedNone DEF ServesFirst
  <1>2. CASE server \in {"recv", "check"} /\ conns' = <<conns[1]>>
    <2>1. conns # <<>> /\ conns[1].accepted /\ conns \in Seq(Connection)
      BY <1>2 DEF TypeInv, ServesFirst
    <2>2. Size \in Nat \ {0} /\ conns[1] \in Connection
      BY <2>1, ConnTyped, EmptySeq DEF Size
    <2>3. PICK c \in Connection : c = conns[1]
      BY <2>2
    <2>4. conns' \in Seq(Connection) /\ Len(conns') = 1 /\ conns'[1] = c /\ conns' # <<>>
      BY <1>2, <2>3
    <2> DEFINE f == [k \in 1 .. 1 |-> 1]
    <2>5. Size' = 1 /\ f \in [1 .. Size' -> 1 .. Size] /\ f[1] = 1
      BY <2>2, <2>4 DEF Size
    <2> HIDE DEF f
    <2>6. \A k, l \in 1 .. Size' : k < l => f[k] < f[l]
      BY <2>5
    <2>7. \A k \in 1 .. Size' : Id(k)' = Id(f[k]) /\ Data(k)' = Data(f[k])
      <3>1. Id(1)' = Id(1) /\ Data(1)' = Data(1)
        BY <2>3, <2>4 DEF Id, Data
      <3> QED BY <2>5, <3>1
    <2>8. Thinned
      BY <2>5, <2>6, <2>7 DEF Thinned
    <2> QED BY <2>1, <2>3, <2>4, <2>8 DEF ServesFirst
  <1> QED BY <1>1, <1>2 DEF ConsumerStop

(***************************************************************************)
(* What a step does to the archive.                                        *)
(***************************************************************************)

\* Records of pending are lost, and the others stay in order.
Lossy ==
    /\ UNCHANGED archived
    /\ pending' \in Seq(Nat)
    /\ \E f \in [1 .. Len(pending') -> 1 .. Len(pending)] :
          /\ \A k, l \in 1 .. Len(pending') : k < l => f[k] < f[l]
          /\ \A k \in 1 .. Len(pending') : pending'[k] = pending[f[k]]

\* The first k of them are archived.
Written(k) ==
    /\ k \in 1 .. Len(pending)
    /\ archived' = archived \o SubSeq(pending, 1, k)
    /\ pending' = SubSeq(pending, k + 1, Len(pending))

\* One more is accepted.
Accepted ==
    /\ UNCHANGED archived
    /\ pending' = Append(pending, Len(arrived) + 1)

LEMMA LossyByShift ==
    ASSUME ArchiveTypes, UNCHANGED archived, NEW k \in 0 .. Len(pending),
           pending' = SubSeq(pending, k + 1, Len(pending))
    PROVE  Lossy
  <1> DEFINE f == [i \in 1 .. Len(pending) - k |-> i + k]
  <1>1. Len(pending) \in Nat /\ k \in Nat /\ pending \in Seq(Nat)
    BY LenProperties DEF ArchiveTypes
  <1>2. /\ pending' \in Seq(Nat) /\ Len(pending') = Len(pending) - k
        /\ \A i \in 1 .. Len(pending) - k : pending'[i] = pending[i + k]
    <2>1. k + 1 \in 1 .. Len(pending) + 1
      BY <1>1
    <2>2. \A i \in 1 .. Len(pending) : pending[i] \in Nat
      BY <1>1, ElementOfSeq
    <2>3. /\ Len(pending') = Len(pending) - k
          /\ \A i \in 1 .. Len(pending') : pending'[i] = pending[k + 1 + i - 1]
          /\ pending' \in Seq(Nat)
      BY <1>1, <2>1, <2>2, SubSeqProperties
    <2>4. \A i \in 1 .. Len(pending') : k + 1 + i - 1 = i + k
      BY <1>1
    <2> QED BY <2>3, <2>4
  <1>3. f \in [1 .. Len(pending') -> 1 .. Len(pending)]
        /\ \A i \in 1 .. Len(pending') : f[i] = i + k
    BY <1>1, <1>2
  <1> HIDE DEF f
  <1>4. \A i, l \in 1 .. Len(pending') : i < l => f[i] < f[l]
    BY <1>1, <1>2, <1>3
  <1>5. \A i \in 1 .. Len(pending') : pending'[i] = pending[f[i]]
    BY <1>2, <1>3
  <1> QED BY <1>2, <1>3, <1>4, <1>5 DEF Lossy

LEMMA LossyByRemoval ==
    ASSUME ArchiveTypes, UNCHANGED archived, NEW i \in 1 .. Len(pending),
           pending' = RemoveAt(pending, i)
    PROVE  Lossy
  <1> DEFINE f == [k \in 1 .. Len(pending) - 1 |-> IF k < i THEN k ELSE k + 1]
  <1>1. Len(pending) \in Nat /\ pending \in Seq(Nat)
    BY LenProperties DEF ArchiveTypes
  <1>2. /\ pending' \in Seq(Nat) /\ Len(pending') = Len(pending) - 1
        /\ \A k \in 1 .. Len(pending) - 1 : pending'[k] = IF k < i THEN pending[k] ELSE pending[k + 1]
    BY <1>1, RemovedAt
  <1>3. f \in [1 .. Len(pending') -> 1 .. Len(pending)]
    BY SMTT(30), <1>1, <1>2
  <1>4. \A k \in 1 .. Len(pending') : f[k] = IF k < i THEN k ELSE k + 1
    BY <1>2
  <1> HIDE DEF f
  <1>5. \A k, l \in 1 .. Len(pending') : k < l => f[k] < f[l]
    <2> TAKE k, l \in 1 .. Len(pending')
    <2>1. k \in Int /\ l \in Int /\ i \in Int
      OBVIOUS
    <2>2. f[k] = (IF k < i THEN k ELSE k + 1) /\ f[l] = (IF l < i THEN l ELSE l + 1)
      BY <1>4
    <2> QED BY <2>1, <2>2
  <1>6. \A k \in 1 .. Len(pending') : pending'[k] = pending[f[k]]
    BY <1>1, <1>2, <1>4
  <1> QED BY <1>2, <1>3, <1>5, <1>6 DEF Lossy

LEMMA OverflowLoses ==
    ASSUME ArchiveTypes, Exporter!Overflow
    PROVE  Lossy
  <1>1. PICK i \in DOMAIN pending : pending' = RemoveAt(pending, i) /\ UNCHANGED archived
    BY DEF Exporter!Overflow, Exporter!RemoveAt, RemoveAt
  <1>2. i \in 1 .. Len(pending)
    BY LenProperties DEF ArchiveTypes
  <1> QED BY <1>1, <1>2, LossyByRemoval

LEMMA FailLoses ==
    ASSUME ArchiveTypes, Exporter!Fail
    PROVE  Lossy /\ failed'
  <1>1. PICK k \in 0 .. Len(pending) :
          pending' = SubSeq(pending, k + 1, Len(pending)) /\ UNCHANGED archived
    BY DEF Exporter!Fail
  <1> QED BY <1>1, LossyByShift DEF Exporter!Fail

LEMMA SkipLoses ==
    ASSUME ArchiveTypes, Exporter!Skip
    PROVE  Lossy
  <1>1. pending # <<>> /\ pending' = Tail(pending) /\ UNCHANGED archived /\ pending \in Seq(Nat)
    BY DEF Exporter!Skip, ArchiveTypes
  <1>2. Len(pending) \in Nat \ {0}
    BY <1>1, LenProperties, EmptySeq
  <1>3. pending' = SubSeq(pending, 1 + 1, Len(pending))
    BY <1>1 DEF Tail
  <1> QED BY <1>1, <1>2, <1>3, LossyByShift

LEMMA KeepsPending ==
    ASSUME ArchiveTypes, UNCHANGED <<pending, archived>>
    PROVE  Lossy
  <1>1. Len(pending) \in Nat /\ pending \in Seq(Nat)
    BY LenProperties DEF ArchiveTypes
  <1>2. pending' = SubSeq(pending, 0 + 1, Len(pending))
    BY <1>1, SubSeqFull
  <1> QED BY <1>1, <1>2, LossyByShift

\* After a crash nothing is pending.
LEMMA CrashLoses ==
    ASSUME ArchiveTypes, UNCHANGED archived, pending' = <<>>
    PROVE  Lossy
  <1>1. Len(pending) \in Nat /\ pending \in Seq(Nat)
    BY LenProperties DEF ArchiveTypes
  <1>2. pending' = SubSeq(pending, Len(pending) + 1, Len(pending))
    BY <1>1
  <1> QED BY <1>1, <1>2, LossyByShift

\* The steps of the archive, as the system takes them.
LEMMA ExportShapes ==
    ASSUME ArchiveTypes, Export
    PROVE  /\ Lossy \/ \E k \in 1 .. Len(pending) : Written(k) /\ ~failed
           /\ UNCHANGED <<producerVars, conns, owner, server, arrived, faults, failed>>
           /\ lossy => lossy'
           /\ ~lossy' => \/ UNCHANGED <<pending, archived>>
                         \/ \E k \in 1 .. Len(pending) : Written(k)
                         \/ failed
  <1>1. CASE Exporter!Overflow /\ lossy' = TRUE
    BY <1>1, OverflowLoses DEF Export, Exporter!Overflow
  <1>2. CASE Exporter!Settle /\ UNCHANGED lossy
    BY <1>2, KeepsPending DEF Export, Exporter!Settle
  <1>3. CASE Exporter!Write /\ UNCHANGED lossy
    BY <1>3 DEF Export, Exporter!Write, Written
  <1>4. CASE Exporter!Skip /\ UNCHANGED lossy
    BY <1>4, SkipLoses DEF Export, Exporter!Skip
  <1> QED BY <1>1, <1>2, <1>3, <1>4 DEF Export

LEMMA Joined ==
    ASSUME NEW S, NEW a \in Seq(S), NEW b \in Seq(S)
    PROVE  /\ a \o b \in Seq(S)
           /\ Len(a \o b) = Len(a) + Len(b)
           /\ \A i \in 1 .. Len(a) : (a \o b)[i] = a[i]
           /\ \A i \in 1 .. Len(b) : (a \o b)[Len(a) + i] = b[i]
  <1>1. /\ a \o b \in Seq(S) /\ Len(a \o b) = Len(a) + Len(b)
        /\ \A i \in 1 .. Len(a) + Len(b) : (a \o b)[i] = IF i <= Len(a) THEN a[i] ELSE b[i - Len(a)]
    BY ConcatProperties
  <1>2. Len(a) \in Nat /\ Len(b) \in Nat
    BY LenProperties
  <1>3. ASSUME NEW i \in 1 .. Len(a) PROVE (a \o b)[i] = a[i]
    <2>1. i \in 1 .. Len(a) + Len(b) /\ i <= Len(a)
      BY <1>2
    <2> QED BY <1>1, <2>1
  <1>4. ASSUME NEW i \in 1 .. Len(b) PROVE (a \o b)[Len(a) + i] = b[i]
    <2>1. /\ Len(a) + i \in 1 .. Len(a) + Len(b) /\ ~(Len(a) + i <= Len(a))
          /\ Len(a) + i - Len(a) = i
      BY <1>2
    <2> QED BY <1>1, <2>1
  <1> QED BY <1>1, <1>3, <1>4

LEMMA NatsJoined ==
    \A a, b \in Seq(Nat) :
        /\ a \o b \in Seq(Nat)
        /\ Len(a \o b) = Len(a) + Len(b)
        /\ \A i \in 1 .. Len(a) : (a \o b)[i] = a[i]
        /\ \A i \in 1 .. Len(b) : (a \o b)[Len(a) + i] = b[i]
  <1> TAKE a, b \in Seq(Nat)
  <1> QED BY Joined

LEMMA NatsAssociate ==
    \A a, b, c \in Seq(Nat) : (a \o b) \o c = a \o (b \o c)
  BY SMTT(30), ConcatAssociative

LEMMA WrittenTypes ==
    ASSUME ArchiveTypes, NEW k \in 1 .. Len(pending), Written(k)
    PROVE  /\ archived' \in Seq(Nat) /\ pending' \in Seq(Nat)
           /\ Len(archived') = Len(archived) + k
           /\ Len(pending') = Len(pending) - k
           /\ \A i \in 1 .. Len(archived) : archived'[i] = archived[i]
           /\ \A i \in 1 .. k : archived'[Len(archived) + i] = pending[i]
           /\ \A i \in 1 .. Len(pending) - k : pending'[i] = pending[i + k]
           /\ archived' \o pending' = archived \o pending
  <1>1. /\ Len(pending) \in Nat /\ Len(archived) \in Nat /\ k \in Nat
        /\ pending \in Seq(Nat) /\ archived \in Seq(Nat)
        /\ \A i \in 1 .. Len(pending) : pending[i] \in Nat
    BY LenProperties, ElementOfSeq DEF ArchiveTypes
  <1>2. PICK a, b : a = SubSeq(pending, 1, k) /\ b = SubSeq(pending, k + 1, Len(pending))
    OBVIOUS
  <1>3. /\ a \in Seq(Nat) /\ Len(a) = k /\ \A i \in 1 .. k : a[i] = pending[i]
    <2>1. \A i \in 1 .. k : pending[i] \in Nat
      BY <1>1
    <2>2. /\ a \in Seq(Nat) /\ Len(a) = k - 1 + 1
          /\ \A i \in 1 .. k - 1 + 1 : a[i] = pending[1 + i - 1]
      BY <1>1, <1>2, <2>1, SubSeqProperties
    <2> QED BY <1>1, <2>2
  <1>4. /\ b \in Seq(Nat) /\ Len(b) = Len(pending) - k
        /\ \A i \in 1 .. Len(pending) - k : b[i] = pending[i + k]
    <2>1. \A i \in k + 1 .. Len(pending) : pending[i] \in Nat
      BY <1>1
    <2>2. /\ b \in Seq(Nat)
          /\ Len(b) = IF k + 1 <= Len(pending) THEN Len(pending) - (k + 1) + 1 ELSE 0
          /\ \A i \in 1 .. Len(pending) - (k + 1) + 1 : b[i] = pending[k + 1 + i - 1]
      BY <1>1, <1>2, <2>1, SubSeqProperties
    <2>3. \A i \in 1 .. Len(pending) - k : k + 1 + i - 1 = i + k
      BY <1>1
    <2> QED BY <1>1, <2>2, <2>3
  <1>5. archived' = archived \o a /\ pending' = b
    BY <1>2 DEF Written
  <1>6. PICK c \in Seq(Nat) : c = archived
    BY <1>1
  <1>7. /\ c \o a \in Seq(Nat) /\ Len(c \o a) = Len(c) + Len(a)
        /\ \A i \in 1 .. Len(c) : (c \o a)[i] = c[i]
        /\ \A i \in 1 .. Len(a) : (c \o a)[Len(c) + i] = a[i]
    BY <1>3, <1>6, NatsJoined
  <1>8. /\ archived' \in Seq(Nat) /\ Len(archived') = Len(archived) + k
        /\ \A i \in 1 .. Len(archived) : archived'[i] = archived[i]
        /\ \A i \in 1 .. k : archived'[Len(archived) + i] = pending[i]
    BY <1>3, <1>5, <1>6, <1>7
  <1>9. archived' \o pending' = archived \o pending
    <2>1. a \o b = pending
      <3>1. /\ a \o b \in Seq(Nat) /\ Len(a \o b) = Len(pending)
            /\ \A i \in 1 .. k : (a \o b)[i] = a[i]
            /\ \A i \in 1 .. Len(pending) - k : (a \o b)[k + i] = b[i]
        <4>1. /\ a \o b \in Seq(Nat) /\ Len(a \o b) = Len(a) + Len(b)
              /\ \A i \in 1 .. Len(a) : (a \o b)[i] = a[i]
              /\ \A i \in 1 .. Len(b) : (a \o b)[Len(a) + i] = b[i]
          BY <1>3, <1>4, NatsJoined
        <4>2. Len(a \o b) = Len(pending)
          BY <1>1, <1>3, <1>4, <4>1
        <4>3. \A i \in 1 .. k : (a \o b)[i] = a[i]
          BY <1>3, <4>1
        <4>4. \A i \in 1 .. Len(pending) - k : (a \o b)[k + i] = b[i]
          BY <1>3, <1>4, <4>1
        <4> QED BY <4>1, <4>2, <4>3, <4>4
      <3>2. \A i \in 1 .. Len(pending) : (a \o b)[i] = pending[i]
        <4> TAKE i \in 1 .. Len(pending)
        <4>1. CASE i <= k
          BY <1>1, <1>3, <3>1, <4>1
        <4>2. CASE ~(i <= k)
          <5>1. PICK j \in 1 .. Len(pending) - k : j + k = i /\ k + j = i
            <6>1. i - k \in 1 .. Len(pending) - k /\ i - k + k = i /\ k + (i - k) = i
              BY <1>1, <4>2
            <6> QED BY <6>1
          <5> QED BY <1>4, <3>1, <5>1
        <4> QED BY <4>1, <4>2
      <3> QED BY <1>1, <3>1, <3>2, SeqEqual
    <2>2. (archived \o a) \o b = archived \o (a \o b)
      BY ZenonT(30), <1>1, <1>3, <1>4, NatsAssociate
    <2> QED BY <1>5, <2>1, <2>2
  <1> QED BY <1>4, <1>5, <1>8, <1>9

(***************************************************************************)
(* The steps, by what they do to the producer, the connections and the     *)
(* archive.                                                                *)
(***************************************************************************)
Offers ==
    /\ offered' = offered + 1
    /\ oldest' \in oldest .. offered'
    /\ UNCHANGED <<taken, offersBefore, hand, link, dialled>>

Takes ==
    /\ link # 0
    /\ hand = NoRecord
    /\ oldest < offered
    /\ hand' = Popped
    /\ taken' = Append(taken, oldest)
    /\ oldest' = oldest + 1
    /\ UNCHANGED <<offered, offersBefore, link, dialled>>

LetsGo ==
    /\ hand' = NoRecord
    /\ link' = 0
    /\ UNCHANGED <<offered, oldest, taken, offersBefore, dialled>>

Gives ==
    /\ hand # NoRecord
    /\ hand' = NoRecord
    /\ UNCHANGED <<offered, oldest, taken, offersBefore, link, dialled>>

Restarts ==
    /\ offersBefore' = Append(offersBefore, offered)
    /\ offered' = 0
    /\ oldest' = 0
    /\ taken' = <<>>
    /\ hand' = NoRecord
    /\ link' = 0
    /\ UNCHANGED dialled

Dials ==
    /\ link = 0
    /\ dialled' = dialled + 1
    /\ link' = dialled + 1
    /\ UNCHANGED <<offered, oldest, taken, offersBefore, hand>>

Still == UNCHANGED producerVars

\* No record is sent, and none received.
Quiet ==
    /\ Thinned
    /\ UNCHANGED arrived
    /\ Still \/ Offers \/ Takes \/ LetsGo \/ Restarts \/ (Gives /\ LinkAt = {})

Sends ==
    /\ \E i \in LinkAt : i \in 1 .. Size /\ SentOn(i)
    /\ Gives
    /\ UNCHANGED arrived

Connects == Connected /\ Dials /\ UNCHANGED arrived

ArchiveStep ==
    \/ Lossy /\ UNCHANGED arrived
    \/ (\E k \in 1 .. Len(pending) : Written(k)) /\ UNCHANGED arrived /\ Still
    \/ Accepted /\ Len(arrived') = Len(arrived) + 1 /\ Still

LEMMA Shapes ==
    ASSUME TypeInv, [Next]_vars
    PROVE  /\ conns' \in Seq(Connection) /\ ServesFirst'
           /\ Quiet \/ Sends \/ (Received /\ Still) \/ Connects
  <1>0. conns \in Seq(Connection) /\ ServesFirst
    BY DEF TypeInv
  <1>1. ASSUME UNCHANGED conns, UNCHANGED server \/ server' = "accept"
        PROVE  conns' \in Seq(Connection) /\ Thinned /\ ServesFirst'
    <2>1. Size' = Size /\ \A k \in 1 .. Size : Id(k)' = Id(k) /\ Data(k)' = Data(k)
      BY <1>1 DEF Size, Id, Data
    <2> QED BY <1>0, <1>1, <2>1, ThinnedSame DEF ServesFirst
  <1>2. CASE Offer
    <2>1. Offers
      <3>1. /\ offered' = offered + 1 /\ (oldest' = oldest + 1 \/ oldest' = oldest)
            /\ UNCHANGED <<taken, offersBefore, hand, link, dialled>>
        BY <1>2 DEF Offer, Fifo!Offer
      <3>2. offered \in Nat /\ oldest \in 0 .. offered
        BY DEF TypeInv, ProducerTypes
      <3> QED BY <3>1, <3>2 DEF Offers
    <2> QED BY <1>1, <1>2, <2>1 DEF Offer, Quiet, exporterVars
  <1>3. CASE Connect
    <2>1. conns' \in Seq(Connection) /\ Connected /\ (conns # <<>> => conns' # <<>> /\ conns'[1] = conns[1])
      BY <1>3, ConnectMakes
    <2>2. Dials /\ UNCHANGED arrived /\ UNCHANGED server
      BY <1>3 DEF Connect, Dials, exporterVars
    <2>3. ServesFirst'
      BY <1>0, <2>1, <2>2 DEF ServesFirst
    <2> QED BY <2>1, <2>2, <2>3 DEF Connects
  <1>4. CASE Take
    <2>1. Takes
      BY <1>4 DEF Take, Takes, Fifo!Take
    <2> QED BY <1>1, <1>4, <2>1 DEF Take, Quiet, exporterVars
  <1>5. CASE SendOk
    <2>1. Gives /\ UNCHANGED arrived /\ UNCHANGED server
      BY <1>5 DEF SendOk, Gives, exporterVars
    <2>2. CASE LinkAt = {} /\ UNCHANGED conns
      BY <1>1, <2>1, <2>2 DEF Quiet
    <2>3. ASSUME NEW i \in LinkAt, conns' = [conns EXCEPT ![i].data = Append(@, hand)]
          PROVE  conns' \in Seq(Connection) /\ ServesFirst' /\ Sends
      <3>1. conns' = [conns EXCEPT ![i].data = Append(conns[i].data, hand)] /\ hand # NoRecord
        BY <2>1, <2>3 DEF Gives
      <3>2. /\ conns' \in Seq(Connection) /\ i \in 1 .. Size /\ SentOn(i)
            /\ conns'[1].accepted = conns[1].accepted
        BY <3>1, SendPuts
      <3>3. conns' # <<>>
        BY <3>2, EmptySeq DEF SentOn, Size
      <3> QED BY <1>0, <2>1, <3>2, <3>3 DEF Sends, ServesFirst
    <2> QED BY <1>5, <2>2, <2>3 DEF SendOk
  <1>6. CASE SendFails
    <2>1. ClosesLink /\ LetsGo /\ UNCHANGED <<server, arrived>>
      BY <1>6 DEF SendFails, LetGo, ClosesLink, LetsGo, exporterVars
    <2> QED BY <2>1, LetGoThins DEF Quiet
  <1>7. CASE AcceptConn \/ CheckHealth \/ RecvEnds
    <2>1. Still /\ UNCHANGED arrived
      BY <1>7 DEF AcceptConn, CheckHealth, RecvEnds, Still, exporterVars
    <2> QED BY <1>7, <2>1, ServerThins DEF Quiet
  <1>8. CASE Receive
    BY <1>8, ReceiveTakes DEF Receive, Still, ServesFirst
  <1>9. CASE Export \/ ConsumerJoined \/ ConsumerRestart \/ UNCHANGED vars
    <2>1. Still /\ UNCHANGED arrived /\ UNCHANGED conns /\ (UNCHANGED server \/ server' = "accept")
      BY <1>9 DEF Export, ConsumerJoined, ConsumerRestart, vars, exporterVars, Still
    <2> QED BY <1>1, <2>1 DEF Quiet
  <1>10. ASSUME Still, UNCHANGED arrived, conns' = <<>>, server' = "off"
         PROVE  conns' \in Seq(Connection) /\ ServesFirst' /\ Quiet
    BY <1>10, ThinnedNone DEF Quiet, ServesFirst
  <1>11. CASE Fault
    <2>1. CASE SendTimesOut
      <3>1. ClosesLink /\ LetsGo /\ UNCHANGED <<server, arrived>>
        BY <2>1 DEF SendTimesOut, LetGo, ClosesLink, LetsGo, exporterVars
      <3> QED BY <3>1, LetGoThins DEF Quiet
    <2>2. CASE Break
      BY <2>2, BreakThins DEF Quiet, Still, exporterVars
    <2>3. CASE WriteFails
      BY <1>1, <2>3 DEF WriteFails, Quiet, Still
    <2>4. CASE ProducerCrash
      <3>1. ClosesLink /\ Restarts /\ UNCHANGED <<server, arrived>>
        BY <2>4 DEF ProducerCrash, ClosesLink, Restarts, exporterVars
      <3> QED BY <3>1, LetGoThins DEF Quiet
    <2>5. CASE ConsumerCrash
      BY <1>10, <2>5 DEF ConsumerCrash, Still
    <2>6. CASE ConsumerStop
      BY <2>6, StopThins DEF ConsumerStop, Quiet, Still, exporterVars
    <2> QED BY <1>11, <2>1, <2>2, <2>3, <2>4, <2>5, <2>6 DEF Fault
  <1>12. CASE ConsumerStopped
    BY <1>10, <1>12 DEF ConsumerStopped, Still
  <1> QED BY <1>2, <1>3, <1>4, <1>5, <1>6, <1>7, <1>8, <1>9, <1>11, <1>12
          DEF Next, Sender, Server, Owner

LEMMA ArchiveSteps ==
    ASSUME TypeInv, [Next]_vars
    PROVE  ArchiveStep
  <1>0. ArchiveTypes
    BY DEF TypeInv
  <1>1. CASE UNCHANGED <<pending, archived, arrived>>
    BY <1>0, <1>1, KeepsPending DEF ArchiveStep
  <1>2. CASE Receive
    <2>1. Accepted /\ Still
      BY <1>2 DEF Receive, Exporter!Accept, Accepted, Still
    <2>2. Len(arrived') = Len(arrived) + 1
      BY <1>0, <1>2, ReceiveTakes, AppendProperties DEF Received, ArchiveTypes
    <2> QED BY <2>1, <2>2 DEF ArchiveStep
  <1>3. CASE Export
    BY <1>0, <1>3, ExportShapes DEF ArchiveStep, Still
  <1>4. CASE WriteFails
    BY <1>0, <1>4, FailLoses DEF ArchiveStep, WriteFails
  <1>5. CASE ConsumerCrash \/ ConsumerStopped
    BY <1>0, <1>5, CrashLoses DEF ArchiveStep, ConsumerCrash, ConsumerStopped
  <1>6. CASE ConsumerStop \/ ConsumerJoined
    BY <1>1, <1>6 DEF ConsumerStop, ConsumerJoined, Exporter!Close, exporterVars
  <1>7. CASE Sender
    BY <1>1, <1>7 DEF Sender, Connect, Take, SendOk, SendFails, LetGo, exporterVars
  <1>8. CASE AcceptConn \/ CheckHealth \/ RecvEnds
    BY <1>1, <1>8 DEF AcceptConn, CheckHealth, RecvEnds, exporterVars
  <1>9. CASE Offer \/ ConsumerRestart \/ UNCHANGED vars
    BY <1>1, <1>9 DEF Offer, ConsumerRestart, vars, exporterVars
  <1>10. CASE SendTimesOut \/ Break \/ ProducerCrash
    BY <1>1, <1>10 DEF SendTimesOut, LetGo, Break, ProducerCrash, exporterVars
  <1> QED BY <1>2, <1>3, <1>4, <1>5, <1>6, <1>7, <1>8, <1>9, <1>10 DEF Next, Server, Owner, Fault

LEMMA StepTypes == TypeInv /\ [Next]_vars => TypeInv'
  <1> SUFFICES ASSUME TypeInv, [Next]_vars PROVE TypeInv'
    OBVIOUS
  <1> USE DEF TypeInv
  <1>1. /\ conns' \in Seq(Connection) /\ ServesFirst'
        /\ Quiet \/ Sends \/ (Received /\ Still) \/ Connects
    BY Shapes
  <1>2. ProducerTypes'
    <2> USE DEF ProducerTypes
    <2>1. CASE Still
      BY <2>1 DEF Still, producerVars
    <2>2. CASE Offers
      BY <2>2 DEF Offers
    <2>3. CASE Takes
      <3>1. Popped \in Rec
        BY PoppedIsRecord
      <3>2. Append(taken, oldest) \in Seq(Nat)
        BY AppendProperties
      <3> QED BY <2>3, <3>1, <3>2 DEF Takes
    <2>4. CASE LetsGo \/ Gives
      BY <2>4 DEF LetsGo, Gives
    <2>5. CASE Restarts
      <3>1. Append(offersBefore, offered) \in Seq(Nat) /\ <<>> \in Seq(Nat)
        BY AppendProperties, EmptySeq
      <3> QED BY <2>5, <3>1 DEF Restarts
    <2>6. CASE Dials
      BY <2>6 DEF Dials
    <2> QED BY <1>1, <2>1, <2>2, <2>3, <2>4, <2>5, <2>6 DEF Quiet, Sends, Connects
  <1>3. ArchiveTypes'
    <2> USE DEF ArchiveTypes
    <2>1. ArchiveStep
      BY ArchiveSteps
    <2>2. arrived' \in Seq(Rec)
      <3>1. CASE UNCHANGED arrived
        BY <3>1
      <3>2. CASE Received
        BY <3>2, AppendProperties DEF Received
      <3> QED BY <1>1, <3>1, <3>2 DEF Quiet, Sends, Connects
    <2>3. pending' \in Seq(Nat) /\ archived' \in Seq(Nat)
      <3>1. CASE Lossy
        BY <3>1 DEF Lossy
      <3>2. ASSUME NEW k \in 1 .. Len(pending), Written(k)
            PROVE  pending' \in Seq(Nat) /\ archived' \in Seq(Nat)
        BY <3>2, WrittenTypes
      <3>3. CASE Accepted
        <4>1. Len(arrived) + 1 \in Nat
          BY LenProperties
        <4> QED BY <3>3, <4>1, AppendProperties DEF Accepted
      <3> QED BY <2>1, <3>1, <3>2, <3>3 DEF ArchiveStep
    <2> QED BY <2>2, <2>3
  <1> QED BY <1>1, <1>2, <1>3
-------------------------------------------------------------------------------
(***************************************************************************)
(* The archive.                                                            *)
(***************************************************************************)
Rising(q) == \A i, j \in 1 .. Len(q) : i < j => q[i] < q[j]

\* What is archived and what waits are numbers of records, in order.
ArchInv ==
    /\ Rising(archived)
    /\ Rising(pending)
    /\ \A i \in 1 .. Len(archived) : archived[i] \in 1 .. Len(arrived)
    /\ \A j \in 1 .. Len(pending) : pending[j] \in 1 .. Len(arrived)
    /\ \A i \in 1 .. Len(archived), j \in 1 .. Len(pending) : archived[i] < pending[j]

LEMMA ArchLossy ==
    ASSUME ArchiveTypes, ArchInv, Lossy, UNCHANGED arrived
    PROVE  ArchInv'
  <1>1. PICK f \in [1 .. Len(pending') -> 1 .. Len(pending)] :
          /\ \A k, l \in 1 .. Len(pending') : k < l => f[k] < f[l]
          /\ \A k \in 1 .. Len(pending') : pending'[k] = pending[f[k]]
    BY DEF Lossy
  <1>2. \A k \in 1 .. Len(pending') : f[k] \in 1 .. Len(pending)
    BY <1>1
  <1>3. Rising(pending)'
    BY <1>1, <1>2 DEF ArchInv, Rising
  <1>4. Rising(archived)' /\ \A i \in 1 .. Len(archived)' : archived'[i] \in 1 .. Len(arrived)'
    BY DEF ArchInv, Lossy, Rising
  <1>5. \A j \in 1 .. Len(pending)' : pending'[j] \in 1 .. Len(arrived)'
    BY <1>1, <1>2 DEF ArchInv
  <1>6. \A i \in 1 .. Len(archived)', j \in 1 .. Len(pending)' : archived'[i] < pending'[j]
    BY <1>1, <1>2 DEF ArchInv, Lossy
  <1> QED BY <1>3, <1>4, <1>5, <1>6 DEF ArchInv

LEMMA ArchWritten ==
    ASSUME ArchiveTypes, ArchInv, NEW k \in 1 .. Len(pending), Written(k), UNCHANGED arrived
    PROVE  ArchInv'
  <1>1. /\ archived' \in Seq(Nat) /\ pending' \in Seq(Nat)
        /\ Len(archived') = Len(archived) + k
        /\ Len(pending') = Len(pending) - k
        /\ \A i \in 1 .. Len(archived) : archived'[i] = archived[i]
        /\ \A i \in 1 .. k : archived'[Len(archived) + i] = pending[i]
        /\ \A i \in 1 .. Len(pending) - k : pending'[i] = pending[i + k]
    BY WrittenTypes
  <1>2. /\ Len(pending) \in Nat /\ Len(archived) \in Nat /\ Len(arrived) \in Nat
        /\ \A i \in 1 .. Len(pending) : pending[i] \in Nat
        /\ \A i \in 1 .. Len(archived) : archived[i] \in Nat
    BY LenProperties, ElementOfSeq DEF ArchiveTypes
  <1>3. \A i \in 1 .. Len(archived)' :
          \/ i \in 1 .. Len(archived) /\ archived'[i] = archived[i]
          \/ \E j \in 1 .. k : i = Len(archived) + j /\ archived'[i] = pending[j]
    <2> TAKE i \in 1 .. Len(archived)'
    <2>1. CASE i <= Len(archived)
      BY SMTT(30), <1>1, <1>2, <2>1
    <2>2. CASE ~(i <= Len(archived))
      <3>1. i - Len(archived) \in 1 .. k /\ i = Len(archived) + (i - Len(archived))
        BY <1>1, <1>2, <2>2
      <3> QED BY <1>1, <3>1
    <2> QED BY <2>1, <2>2
  <1>4. \A j \in 1 .. Len(pending)' :
          j + k \in 1 .. Len(pending) /\ pending'[j] = pending[j + k]
    BY <1>1, <1>2
  <1>5. Rising(archived)'
    <2> SUFFICES ASSUME NEW i \in 1 .. Len(archived)', NEW j \in 1 .. Len(archived)', i < j
                 PROVE  archived'[i] < archived'[j]
      BY DEF Rising
    <2>1. CASE i <= Len(archived) /\ j <= Len(archived)
      BY <1>1, <1>2, <2>1 DEF ArchInv, Rising
    <2>2. CASE i <= Len(archived) /\ ~(j <= Len(archived))
      <3>1. archived'[i] = archived[i] /\ i \in 1 .. Len(archived)
        BY SMTT(30), <1>1, <1>2, <2>2
      <3>2. PICK l \in 1 .. k : archived'[j] = pending[l]
        BY <1>3, <2>2
      <3> QED BY <1>2, <3>1, <3>2 DEF ArchInv
    <2>3. CASE ~(i <= Len(archived))
      <3>1. PICK l \in 1 .. k : i = Len(archived) + l /\ archived'[i] = pending[l]
        BY <1>3, <2>3
      <3>2. PICK m \in 1 .. k : j = Len(archived) + m /\ archived'[j] = pending[m]
        <4>1. ~(j \in 1 .. Len(archived))
          BY <1>2, <2>3
        <4> QED BY <1>3, <4>1
      <3>3. l < m /\ l \in 1 .. Len(pending) /\ m \in 1 .. Len(pending)
        BY <1>2, <3>1, <3>2
      <3> QED BY <3>1, <3>2, <3>3 DEF ArchInv, Rising
    <2> QED BY <1>2, <2>1, <2>2, <2>3
  <1>6. Rising(pending)'
    <2> SUFFICES ASSUME NEW i \in 1 .. Len(pending)', NEW j \in 1 .. Len(pending)', i < j
                 PROVE  pending'[i] < pending'[j]
      BY DEF Rising
    <2>1. i + k < j + k
      OBVIOUS
    <2> QED BY <1>4, <2>1 DEF ArchInv, Rising
  <1>7. \A i \in 1 .. Len(archived)' : archived'[i] \in 1 .. Len(arrived)'
    <2> TAKE i \in 1 .. Len(archived)'
    <2>1. CASE i \in 1 .. Len(archived) /\ archived'[i] = archived[i]
      BY <2>1 DEF ArchInv
    <2>2. ASSUME NEW j \in 1 .. k, archived'[i] = pending[j]
          PROVE  archived'[i] \in 1 .. Len(arrived)'
      <3>1. j \in 1 .. Len(pending)
        BY <1>2
      <3> QED BY <2>2, <3>1 DEF ArchInv
    <2> QED BY <1>3, <2>1, <2>2
  <1>8. \A j \in 1 .. Len(pending)' : pending'[j] \in 1 .. Len(arrived)'
    BY <1>4 DEF ArchInv
  <1>9. \A i \in 1 .. Len(archived)', j \in 1 .. Len(pending)' : archived'[i] < pending'[j]
    <2> TAKE i \in 1 .. Len(archived)', j \in 1 .. Len(pending)'
    <2>1. pending'[j] = pending[j + k] /\ j + k \in 1 .. Len(pending)
      BY <1>4
    <2>2. CASE i \in 1 .. Len(archived) /\ archived'[i] = archived[i]
      BY <2>1, <2>2 DEF ArchInv
    <2>3. ASSUME NEW l \in 1 .. k, archived'[i] = pending[l] PROVE archived'[i] < pending'[j]
      <3>1. l < j + k /\ l \in 1 .. Len(pending)
        BY <1>2
      <3> QED BY <2>1, <2>3, <3>1 DEF ArchInv, Rising
    <2> QED BY <1>3, <2>2, <2>3
  <1> QED BY <1>5, <1>6, <1>7, <1>8, <1>9 DEF ArchInv

LEMMA ArchAccepted ==
    ASSUME ArchiveTypes, ArchInv, Accepted, Len(arrived') = Len(arrived) + 1
    PROVE  ArchInv'
  <1>1. /\ Len(arrived) \in Nat /\ Len(pending) \in Nat /\ pending \in Seq(Nat)
    BY LenProperties DEF ArchiveTypes
  <1>2. PICK x \in Nat : x = Len(arrived) + 1
    BY <1>1
  <1>3. /\ Len(pending') = Len(pending) + 1
        /\ \A i \in 1 .. Len(pending) : pending'[i] = pending[i]
        /\ pending'[Len(pending) + 1] = x
    BY <1>1, <1>2, AppendProperties DEF Accepted
  <1>4. \A j \in 1 .. Len(pending)' :
          \/ j \in 1 .. Len(pending) /\ pending'[j] = pending[j]
          \/ j = Len(pending) + 1 /\ pending'[j] = x
    BY <1>1, <1>3
  <1>5. Rising(pending)'
    <2> SUFFICES ASSUME NEW i \in 1 .. Len(pending)', NEW j \in 1 .. Len(pending)', i < j
                 PROVE  pending'[i] < pending'[j]
      BY DEF Rising
    <2>1. i \in 1 .. Len(pending) /\ pending'[i] = pending[i]
      BY <1>1, <1>3
    <2> QED BY <1>2, <1>4, <2>1 DEF ArchInv, Rising
  <1>6. Rising(archived)' /\ \A i \in 1 .. Len(archived)' : archived'[i] \in 1 .. Len(arrived)'
    BY <1>1 DEF ArchInv, Accepted, Rising
  <1>7. \A j \in 1 .. Len(pending)' : pending'[j] \in 1 .. Len(arrived)'
    BY <1>1, <1>2, <1>4 DEF ArchInv
  <1>8. \A i \in 1 .. Len(archived)', j \in 1 .. Len(pending)' : archived'[i] < pending'[j]
    BY <1>1, <1>2, <1>4 DEF ArchInv, Accepted
  <1> QED BY <1>5, <1>6, <1>7, <1>8 DEF ArchInv

LEMMA StepArchive == TypeInv /\ ArchInv /\ [Next]_vars => ArchInv'
  <1> SUFFICES ASSUME TypeInv, ArchInv, [Next]_vars PROVE ArchInv'
    OBVIOUS
  <1>1. ArchiveStep /\ ArchiveTypes
    BY ArchiveSteps DEF TypeInv
  <1> QED BY <1>1, ArchLossy, ArchWritten, ArchAccepted DEF ArchiveStep
-------------------------------------------------------------------------------
(***************************************************************************)
(* Where the records are.                                                  *)
(***************************************************************************)
OnWire(k) == ToSet(Data(k))
Arrived == ToSet(arrived)

LEMMA QuietSets ==
    ASSUME TypeInv, Quiet
    PROVE  /\ Arrived' = Arrived
           /\ \E f \in [1 .. Size' -> 1 .. Size] :
                 /\ \A k, l \in 1 .. Size' : k < l => f[k] < f[l]
                 /\ \A k \in 1 .. Size' :
                       /\ f[k] \in 1 .. Size /\ Id(k)' = Id(f[k])
                       /\ Data(k)' = Data(f[k]) /\ OnWire(k)' = OnWire(f[k])
  <1>1. PICK f \in [1 .. Size' -> 1 .. Size] :
          /\ \A k, l \in 1 .. Size' : k < l => f[k] < f[l]
          /\ \A k \in 1 .. Size' : Id(k)' = Id(f[k]) /\ Data(k)' = Data(f[k])
    BY DEF Quiet, Thinned
  <1>2. \A k \in 1 .. Size' : f[k] \in 1 .. Size /\ OnWire(k)' = OnWire(f[k])
    BY <1>1 DEF OnWire
  <1>3. Arrived' = Arrived
    BY DEF Quiet, Arrived
  <1> QED BY <1>1, <1>2, <1>3

LEMMA SendsSets ==
    ASSUME TypeInv, Sends
    PROVE  /\ Arrived' = Arrived /\ Gives /\ Size' = Size
           /\ \A k \in 1 .. Size : Id(k)' = Id(k)
           /\ \E i \in 1 .. Size :
                 /\ Id(i) = link /\ OnWire(i)' = OnWire(i) \cup {hand}
                 /\ \A k \in 1 .. Size : k # i => OnWire(k)' = OnWire(k)
  <1>1. PICK i \in LinkAt : i \in 1 .. Size /\ SentOn(i)
    BY DEF Sends
  <1>2. Id(i) = link
    BY DEF LinkAt, Id
  <1>3. PICK d \in Seq(Rec) : d = Data(i)
    BY <1>1, ConnTyped DEF TypeInv
  <1>4. hand \in Rec
    BY DEF Sends, Gives, TypeInv, ProducerTypes
  <1>5. ToSet(Append(d, hand)) = ToSet(d) \cup {hand}
    BY <1>4, Appended
  <1>6. OnWire(i)' = OnWire(i) \cup {hand}
    BY <1>1, <1>3, <1>5 DEF SentOn, OnWire
  <1>7. \A k \in 1 .. Size : k # i => OnWire(k)' = OnWire(k)
    BY <1>1 DEF SentOn, OnWire
  <1>8. Arrived' = Arrived
    BY DEF Sends, Arrived
  <1> QED BY <1>1, <1>2, <1>6, <1>7, <1>8 DEF Sends, SentOn

LEMMA ReceivedSets ==
    ASSUME TypeInv, Received
    PROVE  /\ Size' = Size /\ 1 \in 1 .. Size
           /\ \A k \in 1 .. Size : Id(k)' = Id(k)
           /\ \E x \in Rec :
                 /\ x = Data(1)[1] /\ Arrived' = Arrived \cup {x} /\ arrived' = Append(arrived, x)
                 /\ OnWire(1) = OnWire(1)' \cup {x}
                 /\ \A k \in 1 .. Size : k # 1 => OnWire(k)' = OnWire(k)
  <1>1. PICK x \in Rec : x = Data(1)[1]
    BY DEF Received
  <1>2. PICK d \in Seq(Rec) : d = Data(1)
    BY ConnTyped DEF TypeInv, Received
  <1>3. ToSet(d) = ToSet(Tail(d)) \cup {x}
    BY <1>1, <1>2, Removed, EmptySeq DEF Received
  <1>4. OnWire(1) = OnWire(1)' \cup {x}
    BY <1>2, <1>3 DEF Received, OnWire
  <1>5. Arrived' = Arrived \cup {x} /\ arrived' = Append(arrived, x)
    BY <1>1, Appended DEF Received, Arrived, TypeInv, ArchiveTypes
  <1>6. \A k \in 1 .. Size : k # 1 => OnWire(k)' = OnWire(k)
    BY DEF Received, OnWire
  <1> QED BY <1>1, <1>4, <1>5, <1>6 DEF Received

LEMMA ConnectsSets ==
    ASSUME TypeInv, Connects
    PROVE  /\ Arrived' = Arrived /\ Dials /\ Size' = Size + 1 /\ Size \in Nat
           /\ \A k \in 1 .. Size : Id(k)' = Id(k) /\ OnWire(k)' = OnWire(k)
           /\ \A k \in 1 .. Size' :
                 k \notin 1 .. Size => Id(k)' = dialled + 1 /\ Data(k)' = <<>> /\ OnWire(k)' = {}
  <1>1. Arrived' = Arrived /\ Dials /\ Size' = Size + 1 /\ Size \in Nat
    BY ConnTyped DEF Connects, Arrived, Connected, TypeInv
  <1>2. \A k \in 1 .. Size : Id(k)' = Id(k) /\ OnWire(k)' = OnWire(k)
    BY DEF Connects, Connected, OnWire
  <1>3. ASSUME NEW k \in 1 .. Size', k \notin 1 .. Size
        PROVE  Id(k)' = dialled + 1 /\ Data(k)' = <<>> /\ OnWire(k)' = {}
    <2>1. k = Size'
      BY <1>1, <1>3
    <2>2. Id(k)' = dialled + 1 /\ Data(k)' = <<>>
      BY <1>1, <2>1 DEF Connects, Connected, Dials
    <2> QED BY <2>2, ToSetOfEmpty DEF OnWire
  <1> QED BY <1>1, <1>2, <1>3

LEMMA SetsTyped ==
    ASSUME TypeInv
    PROVE  Arrived \subseteq Rec /\ \A k \in 1 .. Size : OnWire(k) \subseteq Rec
  <1>1. ASSUME NEW k \in 1 .. Size PROVE OnWire(k) \subseteq Rec
    BY ConnTyped, ToSetTyped DEF TypeInv, OnWire
  <1>2. Arrived \subseteq Rec
    BY ToSetTyped DEF TypeInv, ArchiveTypes, Arrived
  <1> QED BY <1>1, <1>2

\* Connections are numbered as they are made, and a record is on its own.
PlaceInv ==
    /\ link \in {0, dialled}
    /\ \A k \in 1 .. Size : Id(k) \in 1 .. dialled /\ \A r \in OnWire(k) : r.conn = Id(k)
    /\ \A k, l \in 1 .. Size : k < l => Id(k) < Id(l)
    /\ \A r \in Arrived : r.conn \in 1 .. dialled
    /\ hand # NoRecord =>
          /\ link # 0 /\ hand.conn = link
          /\ hand.life = Life /\ hand.n < oldest
          /\ hand.nth + 1 = Len(taken)

LEMMA HandStep ==
    ASSUME TypeInv, PlaceInv, Quiet \/ Sends \/ (Received /\ Still) \/ Connects
    PROVE  /\ link' \in {0, dialled'}
           /\ dialled \in Nat /\ dialled' \in Nat /\ dialled <= dialled'
           /\ hand' # NoRecord =>
                 /\ link' # 0 /\ hand'.conn = link'
                 /\ hand'.life = Life' /\ hand'.n < oldest'
                 /\ hand'.nth + 1 = Len(taken')
  <1> USE DEF TypeInv, ProducerTypes
  <1>1. CASE Still
    BY <1>1 DEF Still, producerVars, PlaceInv, Life
  <1>2. CASE Offers
    <2>1. hand' # NoRecord => hand.n \in Nat
      BY <1>2 DEF Offers, Rec
    <2> QED BY <1>2, <2>1 DEF Offers, PlaceInv, Life
  <1>3. CASE Takes
    <2>1. Len(taken') = Len(taken) + 1 /\ Len(taken) \in Nat
      BY <1>3, AppendProperties, LenProperties DEF Takes
    <2>2. Popped.conn = link /\ Popped.life = Life /\ Popped.n = oldest /\ Popped.nth = Len(taken)
      BY DEF Popped
    <2> QED BY <1>3, <2>1, <2>2 DEF Takes, PlaceInv, Life
  <1>4. CASE LetsGo
    BY <1>4 DEF LetsGo, PlaceInv
  <1>5. CASE Gives
    BY <1>5 DEF Gives, PlaceInv
  <1>6. CASE Restarts
    BY <1>6 DEF Restarts, PlaceInv
  <1>7. CASE Dials
    BY <1>7 DEF Dials, PlaceInv
  <1> QED BY <1>1, <1>2, <1>3, <1>4, <1>5, <1>6, <1>7 DEF Quiet, Sends, Connects

LEMMA StepPlace == TypeInv /\ PlaceInv /\ [Next]_vars => PlaceInv'
  <1> SUFFICES ASSUME TypeInv, PlaceInv, [Next]_vars PROVE PlaceInv'
    OBVIOUS
  <1>0. Quiet \/ Sends \/ (Received /\ Still) \/ Connects
    BY Shapes
  <1>h. /\ link' \in {0, dialled'}
        /\ dialled \in Nat /\ dialled' \in Nat /\ dialled <= dialled'
        /\ hand' # NoRecord =>
              /\ link' # 0 /\ hand'.conn = link'
              /\ hand'.life = Life' /\ hand'.n < oldest'
              /\ hand'.nth + 1 = Len(taken')
    BY <1>0, HandStep
  <1> SUFFICES
        /\ \A k \in 1 .. Size' : Id(k)' \in 1 .. dialled' /\ \A r \in OnWire(k)' : r.conn = Id(k)'
        /\ \A k, l \in 1 .. Size' : k < l => Id(k)' < Id(l)'
        /\ \A r \in Arrived' : r.conn \in 1 .. dialled'
    BY <1>h DEF PlaceInv
  <1>1. CASE Quiet
    <2>1. PICK f \in [1 .. Size' -> 1 .. Size] :
            /\ \A k, l \in 1 .. Size' : k < l => f[k] < f[l]
            /\ \A k \in 1 .. Size' :
                  /\ f[k] \in 1 .. Size /\ Id(k)' = Id(f[k])
                  /\ Data(k)' = Data(f[k]) /\ OnWire(k)' = OnWire(f[k])
      BY <1>1, QuietSets
    <2>2. Arrived' = Arrived
      BY <1>1, QuietSets
    <2> QED BY <1>h, <2>1, <2>2 DEF PlaceInv
  <1>2. CASE Sends
    <2>1. PICK i \in 1 .. Size :
            /\ Id(i) = link /\ OnWire(i)' = OnWire(i) \cup {hand}
            /\ \A k \in 1 .. Size : k # i => OnWire(k)' = OnWire(k)
      BY <1>2, SendsSets
    <2>2. Arrived' = Arrived /\ Gives /\ Size' = Size /\ \A k \in 1 .. Size : Id(k)' = Id(k)
      BY <1>2, SendsSets
    <2>3. hand.conn = link
      BY <2>2 DEF PlaceInv, Gives
    <2> QED BY <1>h, <2>1, <2>2, <2>3 DEF PlaceInv
  <1>3. CASE Received /\ Still
    <2>1. Size' = Size /\ 1 \in 1 .. Size /\ \A k \in 1 .. Size : Id(k)' = Id(k)
      BY <1>3, ReceivedSets
    <2>2. PICK x \in Rec :
            /\ x = Data(1)[1] /\ Arrived' = Arrived \cup {x} /\ arrived' = Append(arrived, x)
            /\ OnWire(1) = OnWire(1)' \cup {x}
            /\ \A k \in 1 .. Size : k # 1 => OnWire(k)' = OnWire(k)
      BY <1>3, ReceivedSets
    <2>3. x.conn = Id(1)
      BY <2>1, <2>2 DEF PlaceInv
    <2> QED BY <1>h, <2>1, <2>2, <2>3 DEF PlaceInv
  <1>4. CASE Connects
    <2>1. /\ Arrived' = Arrived /\ Dials /\ Size' = Size + 1 /\ Size \in Nat
          /\ \A k \in 1 .. Size : Id(k)' = Id(k) /\ OnWire(k)' = OnWire(k)
          /\ \A k \in 1 .. Size' :
                k \notin 1 .. Size => Id(k)' = dialled + 1 /\ Data(k)' = <<>> /\ OnWire(k)' = {}
      BY <1>4, ConnectsSets
    <2>2. dialled' = dialled + 1
      BY <2>1 DEF Dials
    <2>3. ASSUME NEW k \in 1 .. Size', NEW l \in 1 .. Size', k < l PROVE Id(k)' < Id(l)'
      <3>1. k \in 1 .. Size
        BY <2>1, <2>3
      <3> QED BY <1>h, <2>1, <2>3, <3>1 DEF PlaceInv
    <2> QED BY <1>h, <2>1, <2>2, <2>3 DEF PlaceInv
  <1> QED BY <1>0, <1>1, <1>2, <1>3, <1>4
-------------------------------------------------------------------------------
(***************************************************************************)
(* Only records that were taken from the ring buffer are on the way.       *)
(***************************************************************************)
Done(r) ==
    /\ r.life \in 1 .. Life
    /\ r.n < (IF r.life = Life THEN oldest ELSE offersBefore[r.life])

DoneInv ==
    /\ \A r \in Arrived : Done(r)
    /\ \A k \in 1 .. Size : \A r \in OnWire(k) : Done(r)

LEMMA LifeIsNumber == ASSUME TypeInv PROVE Life \in Nat \ {0}
  BY LenProperties DEF TypeInv, ProducerTypes, Life

LEMMA DoneStays ==
    ASSUME TypeInv, Quiet \/ Sends \/ (Received /\ Still) \/ Connects,
           NEW r \in Rec, Done(r)
    PROVE  Done(r)'
  <1> USE DEF TypeInv, ProducerTypes
  <1>0. Life \in Nat \ {0} /\ r.n \in Nat
    BY LifeIsNumber DEF Rec
  <1>1. CASE UNCHANGED <<offersBefore, oldest>>
    BY <1>1 DEF Done, Life
  <1>2. CASE UNCHANGED offersBefore /\ oldest' >= oldest /\ oldest' \in Nat
    BY <1>0, <1>2 DEF Done, Life
  <1>3. CASE Restarts
    <2>1. /\ Len(offersBefore') = Len(offersBefore) + 1 /\ Len(offersBefore) \in Nat
          /\ \A i \in 1 .. Len(offersBefore) : offersBefore'[i] = offersBefore[i]
          /\ offersBefore'[Len(offersBefore) + 1] = offered
      BY <1>3, AppendProperties, LenProperties DEF Restarts
    <2>2. Life' = Life + 1
      BY <2>1 DEF Life
    <2>3. r.life \in 1 .. Life' /\ r.life # Life'
      BY <1>0, <2>2 DEF Done
    <2>4. r.n < offersBefore'[r.life]
      <3>1. CASE r.life = Life
        <4>1. offersBefore'[r.life] = offered
          BY <2>1, <3>1 DEF Life
        <4> QED BY <1>0, <3>1, <4>1 DEF Done
      <3>2. CASE r.life # Life
        <4>1. r.life \in 1 .. Len(offersBefore)
          BY <2>1, <3>2 DEF Done, Life
        <4> QED BY <2>1, <3>2, <4>1 DEF Done
      <3> QED BY <3>1, <3>2
    <2> QED BY <2>3, <2>4 DEF Done
  <1>4. oldest \in Nat
    OBVIOUS
  <1> QED BY <1>1, <1>2, <1>3, <1>4
          DEF Quiet, Sends, Connects, Still, producerVars, Offers, Takes, LetsGo, Gives, Dials

LEMMA HandIsDone ==
    ASSUME TypeInv, PlaceInv, hand # NoRecord
    PROVE  hand \in Rec /\ Done(hand)
  BY LifeIsNumber DEF TypeInv, ProducerTypes, PlaceInv, Done

LEMMA StepDone == TypeInv /\ PlaceInv /\ DoneInv /\ [Next]_vars => DoneInv'
  <1> SUFFICES ASSUME TypeInv, PlaceInv, DoneInv, [Next]_vars PROVE DoneInv'
    OBVIOUS
  <1>0. Quiet \/ Sends \/ (Received /\ Still) \/ Connects
    BY Shapes
  <1>s. \A r \in Rec : Done(r) => Done(r)'
    BY <1>0, DoneStays
  <1>t. Arrived \subseteq Rec /\ \A k \in 1 .. Size : OnWire(k) \subseteq Rec
    BY SetsTyped
  <1>1. CASE Quiet
    BY <1>1, <1>s, <1>t, QuietSets DEF DoneInv
  <1>2. CASE Sends
    <2>1. PICK i \in 1 .. Size :
            /\ Id(i) = link /\ OnWire(i)' = OnWire(i) \cup {hand}
            /\ \A k \in 1 .. Size : k # i => OnWire(k)' = OnWire(k)
      BY <1>2, SendsSets
    <2>2. Arrived' = Arrived /\ Gives /\ Size' = Size
      BY <1>2, SendsSets
    <2>3. PICK h \in Rec : h = hand /\ Done(h)
      BY <2>2, HandIsDone DEF Gives
    <2>4. Done(h)'
      BY <1>s, <2>3
    <2> QED BY <1>s, <1>t, <2>1, <2>2, <2>3, <2>4 DEF DoneInv
  <1>3. CASE Received /\ Still
    BY <1>3, <1>s, <1>t, ReceivedSets DEF DoneInv
  <1>4. CASE Connects
    BY <1>4, <1>s, <1>t, ConnectsSets DEF DoneInv
  <1> QED BY <1>0, <1>1, <1>2, <1>3, <1>4
-------------------------------------------------------------------------------
(***************************************************************************)
(* The records that arrived, those on the connections in the order of the  *)
(* connections, and the one in the hand of the sender are in order.        *)
(***************************************************************************)
Earlier(A, B) == \A r \in A, s \in B : Promise!Before(r, s)

Ascending(q) == \A i, j \in 1 .. Len(q) : i < j => Promise!Before(q[i], q[j])

OrderInv ==
    /\ Ascending(arrived)
    /\ \A k \in 1 .. Size : Ascending(Data(k)) /\ Earlier(Arrived, OnWire(k))
    /\ \A k, l \in 1 .. Size : k < l => Earlier(OnWire(k), OnWire(l))
    /\ hand # NoRecord =>
          /\ Earlier(Arrived, {hand})
          /\ \A k \in 1 .. Size : Earlier(OnWire(k), {hand})

LEMMA AscendingAppended ==
    ASSUME NEW q \in Seq(Rec), NEW x \in Rec, Ascending(q), Earlier(ToSet(q), {x})
    PROVE  Ascending(Append(q, x))
  <1>1. PICK s : s = Append(q, x)
    OBVIOUS
  <1>2. /\ Len(q) \in Nat /\ Len(s) = Len(q) + 1
        /\ \A i \in 1 .. Len(q) : s[i] = q[i]
        /\ s[Len(q) + 1] = x
    BY <1>1, AppendProperties, LenProperties
  <1>3. \A i \in 1 .. Len(q) : Promise!Before(q[i], x)
    BY LenProperties DEF Earlier, ToSet
  <1>4. ASSUME NEW i \in 1 .. Len(s), NEW j \in 1 .. Len(s), i < j
        PROVE  Promise!Before(s[i], s[j])
    <2>1. i \in 1 .. Len(q) /\ s[i] = q[i]
      BY <1>2, <1>4
    <2>2. CASE j \in 1 .. Len(q)
      BY <1>2, <1>4, <2>1, <2>2 DEF Ascending
    <2>3. CASE j \notin 1 .. Len(q)
      <3>1. s[j] = x
        BY <1>2, <2>3
      <3> QED BY <1>3, <2>1, <3>1
    <2> QED BY <2>2, <2>3
  <1> QED BY <1>1, <1>4 DEF Ascending

LEMMA AscendingTail ==
    ASSUME NEW q \in Seq(Rec), q # <<>>, Ascending(q)
    PROVE  Ascending(Tail(q)) /\ Earlier({q[1]}, ToSet(Tail(q)))
  <1>1. PICK t : t = Tail(q)
    OBVIOUS
  <1>2. /\ Len(q) \in Nat \ {0} /\ t \in Seq(Rec) /\ Len(t) = Len(q) - 1
        /\ \A i \in 1 .. Len(t) : t[i] = q[i + 1] /\ i + 1 \in 1 .. Len(q)
    BY <1>1, HeadTailProperties, EmptySeq
  <1>3. Ascending(t)
    BY <1>2 DEF Ascending
  <1>4. ASSUME NEW i \in 1 .. Len(t) PROVE Promise!Before(q[1], t[i])
    <2>1. 1 < i + 1 /\ 1 \in 1 .. Len(q)
      BY <1>2
    <2> QED BY <1>2, <2>1 DEF Ascending
  <1>5. DOMAIN t = 1 .. Len(t)
    BY <1>2, LenProperties
  <1>6. Earlier({q[1]}, ToSet(t))
    BY <1>4, <1>5 DEF Earlier, ToSet
  <1> QED BY <1>1, <1>3, <1>6

\* What is taken now comes after everything that was taken before.
LEMMA PoppedIsLater ==
    ASSUME TypeInv, NEW r \in Rec, Done(r)
    PROVE  Promise!Before(r, Popped)
  <1>1. Popped.life = Life /\ Popped.n = oldest
    BY DEF Popped
  <1>2. Life \in Nat /\ r.n \in Nat /\ r.life \in Nat
    BY LifeIsNumber DEF Rec
  <1> QED BY <1>1, <1>2 DEF Done, Promise!Before

LEMMA StepOrder == TypeInv /\ PlaceInv /\ DoneInv /\ OrderInv /\ [Next]_vars => OrderInv'
  <1> SUFFICES ASSUME TypeInv, PlaceInv, DoneInv, OrderInv, [Next]_vars PROVE OrderInv'
    OBVIOUS
  <1>0. Quiet \/ Sends \/ (Received /\ Still) \/ Connects
    BY Shapes
  <1>t. Arrived \subseteq Rec /\ \A k \in 1 .. Size : OnWire(k) \subseteq Rec
    BY SetsTyped
  <1>1. CASE Quiet
    <2>1. PICK f \in [1 .. Size' -> 1 .. Size] :
            /\ \A k, l \in 1 .. Size' : k < l => f[k] < f[l]
            /\ \A k \in 1 .. Size' :
                  /\ f[k] \in 1 .. Size /\ Id(k)' = Id(f[k])
                  /\ Data(k)' = Data(f[k]) /\ OnWire(k)' = OnWire(f[k])
      BY <1>1, QuietSets
    <2>2. Arrived' = Arrived /\ arrived' = arrived
      BY <1>1, QuietSets DEF Quiet
    <2>3. Ascending(arrived)'
      BY <2>2 DEF OrderInv, Ascending
    <2>4. \A k \in 1 .. Size' : Ascending(Data(k))' /\ Earlier(Arrived, OnWire(k))'
      BY <2>1, <2>2 DEF OrderInv, Ascending, Earlier
    <2>5. \A k, l \in 1 .. Size' : k < l => Earlier(OnWire(k), OnWire(l))'
      BY <2>1 DEF OrderInv, Earlier
    <2>6. ASSUME hand' # NoRecord
          PROVE  /\ Earlier(Arrived, {hand})'
                 /\ \A k \in 1 .. Size' : Earlier(OnWire(k), {hand})'
      <3>1. CASE UNCHANGED hand
        BY <2>1, <2>2, <2>6, <3>1 DEF OrderInv, Earlier
      <3>2. CASE Takes
        <4>1. hand' = Popped
          BY <3>2 DEF Takes
        <4>2. \A r \in Arrived : Promise!Before(r, hand')
          BY <1>t, <4>1, PoppedIsLater DEF DoneInv
        <4>3. \A k \in 1 .. Size : \A r \in OnWire(k) : Promise!Before(r, hand')
          BY <1>t, <4>1, PoppedIsLater DEF DoneInv
        <4> QED BY <2>1, <2>2, <4>2, <4>3 DEF Earlier
      <3> QED BY <1>1, <2>6, <3>1, <3>2
              DEF Quiet, Still, producerVars, Offers, LetsGo, Restarts, Gives
    <2> QED BY <2>3, <2>4, <2>5, <2>6 DEF OrderInv
  <1>2. CASE Sends
    <2>0. PICK i \in LinkAt : i \in 1 .. Size /\ SentOn(i)
      BY <1>2 DEF Sends
    <2>1. Arrived' = Arrived /\ Size' = Size /\ arrived' = arrived /\ hand' = NoRecord /\ hand # NoRecord
      BY <1>2, SendsSets DEF Sends, Gives
    <2>2. PICK h \in Rec : h = hand
      BY <2>1 DEF TypeInv, ProducerTypes
    <2>3. PICK d \in Seq(Rec) : d = Data(i)
      BY <2>0, ConnTyped DEF TypeInv
    <2>4. OnWire(i)' = OnWire(i) \cup {h} /\ \A k \in 1 .. Size : k # i => OnWire(k)' = OnWire(k)
      <3>1. ToSet(Append(d, h)) = ToSet(d) \cup {h}
        BY Appended
      <3> QED BY <2>0, <2>2, <2>3, <3>1 DEF SentOn, OnWire
    <2>5. i = Size
      <3>1. Id(i) = link /\ link \in {0, dialled}
        BY DEF LinkAt, Id, PlaceInv
      <3>2. ~(i < Size)
        <4> SUFFICES ASSUME i < Size PROVE FALSE
          OBVIOUS
        <4>1. Size \in 1 .. Size /\ Id(i) < Id(Size) /\ Id(Size) \in 1 .. dialled /\ Id(i) \in 1 .. dialled
          BY <2>0, ConnTyped DEF PlaceInv, TypeInv
        <4> QED BY <3>1, <4>1
      <3>3. Size \in Nat
        BY ConnTyped DEF TypeInv
      <3> QED BY <2>0, <3>2, <3>3
    <2>6. Ascending(arrived)'
      BY <2>1 DEF OrderInv, Ascending
    <2>7. ASSUME NEW k \in 1 .. Size'
          PROVE  Ascending(Data(k))' /\ Earlier(Arrived, OnWire(k))'
      <3>1. CASE k = i
        <4>1. Earlier(OnWire(i), {h}) /\ Ascending(Data(i)) /\ Earlier(Arrived, {h}) /\ Earlier(Arrived, OnWire(i))
          BY <2>0, <2>1, <2>2 DEF OrderInv
        <4>2. Ascending(Append(d, h))
          BY <2>3, <4>1, AscendingAppended DEF OnWire
        <4>3. Data(k)' = Append(d, h)
          BY <2>0, <2>2, <2>3, <3>1 DEF SentOn
        <4>4. Ascending(Data(k))'
          BY <4>2, <4>3 DEF Ascending
        <4>5. Earlier(Arrived, OnWire(k))'
          BY <2>1, <2>4, <3>1, <4>1 DEF Earlier
        <4> QED BY <4>4, <4>5
      <3>2. CASE k # i
        <4>1. Data(k)' = Data(k) /\ OnWire(k)' = OnWire(k) /\ k \in 1 .. Size
          BY <2>0, <2>1, <2>4, <3>2 DEF SentOn
        <4>2. Ascending(Data(k)) /\ Earlier(Arrived, OnWire(k))
          BY <4>1 DEF OrderInv
        <4> QED BY <2>1, <4>1, <4>2 DEF Ascending, Earlier
      <3> QED BY <3>1, <3>2
    <2>8. ASSUME NEW k \in 1 .. Size', NEW l \in 1 .. Size', k < l
          PROVE  Earlier(OnWire(k), OnWire(l))'
      <3>1. k # i /\ k \in 1 .. Size /\ l \in 1 .. Size
        BY <2>0, <2>1, <2>5, <2>8
      <3>2. Earlier(OnWire(k), OnWire(l)) /\ Earlier(OnWire(k), {h})
        BY <2>1, <2>2, <2>8, <3>1 DEF OrderInv
      <3>3. OnWire(k)' = OnWire(k) /\ OnWire(l)' \subseteq OnWire(l) \cup {h}
        BY <2>4, <3>1
      <3> QED BY <3>2, <3>3 DEF Earlier
    <2> QED BY <2>1, <2>6, <2>7, <2>8 DEF OrderInv
  <1>3. CASE Received /\ Still
    <2>1. Size' = Size /\ 1 \in 1 .. Size /\ \A k \in 1 .. Size : Id(k)' = Id(k)
      BY <1>3, ReceivedSets
    <2>2. PICK x \in Rec :
            /\ x = Data(1)[1] /\ Arrived' = Arrived \cup {x} /\ arrived' = Append(arrived, x)
            /\ OnWire(1) = OnWire(1)' \cup {x}
            /\ \A k \in 1 .. Size : k # 1 => OnWire(k)' = OnWire(k)
      BY <1>3, ReceivedSets
    <2>3. PICK d \in Seq(Rec) : d = Data(1) /\ d # <<>> /\ Data(1)' = Tail(d)
      BY <1>3, ConnTyped DEF TypeInv, Received
    <2>4. Ascending(d) /\ Earlier(Arrived, {x})
      BY <2>1, <2>2, <2>3 DEF OrderInv, Earlier
    <2>5. Ascending(Tail(d)) /\ Earlier({x}, OnWire(1)')
      BY <2>2, <2>3, <2>4, AscendingTail DEF OnWire
    <2>6. Ascending(arrived)'
      <3>1. Ascending(Append(arrived, x))
        BY <2>4, AscendingAppended DEF OrderInv, TypeInv, ArchiveTypes, Arrived
      <3> QED BY <2>2, <3>1 DEF Ascending
    <2>7. ASSUME NEW k \in 1 .. Size'
          PROVE  Ascending(Data(k))' /\ Earlier(Arrived, OnWire(k))'
      <3>1. CASE k = 1
        <4>1. Earlier(Arrived, OnWire(1))
          BY <2>1 DEF OrderInv
        <4> QED BY <2>2, <2>3, <2>5, <3>1, <4>1 DEF Ascending, Earlier
      <3>2. CASE k # 1
        <4>1. Data(k)' = Data(k) /\ OnWire(k)' = OnWire(k) /\ k \in 1 .. Size /\ 1 < k
          BY <1>3, <2>1, <2>2, <3>2 DEF Received
        <4>2. Ascending(Data(k)) /\ Earlier(Arrived, OnWire(k)) /\ Earlier(OnWire(1), OnWire(k))
          BY <2>1, <4>1 DEF OrderInv
        <4> QED BY <2>2, <4>1, <4>2 DEF Ascending, Earlier
      <3> QED BY <3>1, <3>2
    <2>8. ASSUME NEW k \in 1 .. Size', NEW l \in 1 .. Size', k < l
          PROVE  Earlier(OnWire(k), OnWire(l))'
      <3>1. Earlier(OnWire(k), OnWire(l)) /\ k \in 1 .. Size /\ l \in 1 .. Size
        BY <2>1, <2>8 DEF OrderInv
      <3>2. OnWire(k)' \subseteq OnWire(k) /\ OnWire(l)' \subseteq OnWire(l)
        BY <2>2, <3>1
      <3> QED BY <3>1, <3>2 DEF Earlier
    <2>9. ASSUME hand' # NoRecord
          PROVE  /\ Earlier(Arrived, {hand})'
                 /\ \A k \in 1 .. Size' : Earlier(OnWire(k), {hand})'
      <3>1. hand' = hand
        BY <1>3 DEF Still, producerVars
      <3>2. Earlier(Arrived, {hand}) /\ \A k \in 1 .. Size : Earlier(OnWire(k), {hand})
        BY <2>9, <3>1 DEF OrderInv
      <3>3. \A k \in 1 .. Size : OnWire(k)' \subseteq OnWire(k)
        BY <2>2
      <3>4. x \in OnWire(1)
        BY <2>2
      <3> QED BY <2>1, <2>2, <3>1, <3>2, <3>3, <3>4 DEF Earlier
    <2> QED BY <2>6, <2>7, <2>8, <2>9 DEF OrderInv
  <1>4. CASE Connects
    <2>1. /\ Arrived' = Arrived /\ Dials /\ Size' = Size + 1 /\ Size \in Nat
          /\ \A k \in 1 .. Size : Id(k)' = Id(k) /\ OnWire(k)' = OnWire(k)
          /\ \A k \in 1 .. Size' :
                k \notin 1 .. Size => Id(k)' = dialled + 1 /\ Data(k)' = <<>> /\ OnWire(k)' = {}
      BY <1>4, ConnectsSets
    <2>2. arrived' = arrived /\ hand' = hand /\ \A k \in 1 .. Size : Data(k)' = Data(k)
      BY <1>4 DEF Connects, Connected, Dials
    <2>3. Ascending(arrived)'
      BY <2>2 DEF OrderInv, Ascending
    <2>4. ASSUME NEW k \in 1 .. Size'
          PROVE  Ascending(Data(k))' /\ Earlier(Arrived, OnWire(k))'
      <3>1. CASE k \in 1 .. Size
        BY <2>1, <2>2, <3>1 DEF OrderInv, Ascending, Earlier
      <3>2. CASE k \notin 1 .. Size
        <4>1. Len(<<>>) = 0
          OBVIOUS
        <4> QED BY <2>1, <3>2, <4>1 DEF Ascending, Earlier
      <3> QED BY <3>1, <3>2
    <2>5. ASSUME NEW k \in 1 .. Size', NEW l \in 1 .. Size', k < l
          PROVE  Earlier(OnWire(k), OnWire(l))'
      BY <2>1, <2>5 DEF OrderInv, Earlier
    <2>6. ASSUME hand' # NoRecord
          PROVE  /\ Earlier(Arrived, {hand})'
                 /\ \A k \in 1 .. Size' : Earlier(OnWire(k), {hand})'
      BY <2>1, <2>2, <2>6 DEF OrderInv, Earlier
    <2> QED BY <2>3, <2>4, <2>5, <2>6 DEF OrderInv
  <1> QED BY <1>0, <1>1, <1>2, <1>3, <1>4
-------------------------------------------------------------------------------
(***************************************************************************)
(* Two records that follow each other on a connection were popped one      *)
(* after the other.                                                        *)
(***************************************************************************)

\* The record of pop n may follow the sequence q on connection c.
MayFollow(q, c, n) == q # <<>> /\ q[Len(q)].conn = c => n = q[Len(q)].nth + 1

Consecutive(q) ==
    \A i \in 2 .. Len(q) : q[i].conn = q[i - 1].conn => q[i].nth = q[i - 1].nth + 1

\* The pop whose record is sent next.
NextPop == IF hand = NoRecord THEN Len(taken) ELSE hand.nth

GapInv ==
    /\ Consecutive(arrived)
    /\ \A k \in 1 .. Size :
          /\ Consecutive(Data(k))
          /\ Data(k) # <<>> => MayFollow(arrived, Id(k), Data(k)[1].nth)
          /\ Id(k) = link => /\ Data(k) = <<>> => MayFollow(arrived, link, NextPop)
                             /\ MayFollow(Data(k), link, NextPop)

LEMMA ConsecutiveAppended ==
    ASSUME NEW q \in Seq(Rec), NEW x \in Rec, Consecutive(q), MayFollow(q, x.conn, x.nth)
    PROVE  /\ Consecutive(Append(q, x))
           /\ \A c, n : MayFollow(Append(q, x), c, n) <=> (x.conn = c => n = x.nth + 1)
  <1>1. PICK s : s = Append(q, x)
    OBVIOUS
  <1>2. /\ Len(q) \in Nat /\ Len(s) = Len(q) + 1 /\ s # <<>>
        /\ \A i \in 1 .. Len(q) : s[i] = q[i]
        /\ s[Len(q) + 1] = x
    BY <1>1, AppendProperties, LenProperties
  <1>3. ASSUME NEW i \in 2 .. Len(s), s[i].conn = s[i - 1].conn
        PROVE  s[i].nth = s[i - 1].nth + 1
    <2>1. i - 1 \in 1 .. Len(q) /\ s[i - 1] = q[i - 1]
      BY <1>2
    <2>2. CASE i \in 2 .. Len(q)
      BY <1>2, <1>3, <2>1, <2>2 DEF Consecutive
    <2>3. CASE i \notin 2 .. Len(q)
      <3>1. i = Len(q) + 1 /\ i - 1 = Len(q) /\ q # <<>>
        BY <1>2, <2>1, <2>3, EmptySeq
      <3> QED BY <1>2, <1>3, <2>1, <3>1 DEF MayFollow
    <2> QED BY <2>2, <2>3
  <1>4. s[Len(s)] = x
    BY <1>2
  <1>5. Consecutive(s) /\ \A c, n : MayFollow(s, c, n) <=> (x.conn = c => n = x.nth + 1)
    BY <1>2, <1>3, <1>4 DEF Consecutive, MayFollow
  <1> QED BY <1>1, <1>5

LEMMA ConsecutiveTail ==
    ASSUME NEW q \in Seq(Rec), q # <<>>, Consecutive(q), NEW c, \A i \in 1 .. Len(q) : q[i].conn = c
    PROVE  /\ Consecutive(Tail(q))
           /\ Tail(q) # <<>> => Tail(q)[1].nth = q[1].nth + 1
           /\ \A n : MayFollow(q, c, n) => MayFollow(Tail(q), c, n)
           /\ \A n : Tail(q) = <<>> /\ MayFollow(q, c, n) => n = q[1].nth + 1
  <1>1. PICK t : t = Tail(q)
    OBVIOUS
  <1>2. /\ Len(q) \in Nat \ {0} /\ t \in Seq(Rec) /\ Len(t) = Len(q) - 1
        /\ \A i \in 1 .. Len(t) : t[i] = q[i + 1]
    BY <1>1, HeadTailProperties, EmptySeq
  <1>3. ASSUME NEW i \in 2 .. Len(t), t[i].conn = t[i - 1].conn
        PROVE  t[i].nth = t[i - 1].nth + 1
    <2>1. /\ t[i] = q[i + 1] /\ t[i - 1] = q[i - 1 + 1] /\ i - 1 + 1 = i /\ i + 1 - 1 = i
          /\ i + 1 \in 2 .. Len(q)
      BY <1>2
    <2> QED BY <1>3, <2>1 DEF Consecutive
  <1>4. ASSUME t # <<>> PROVE t[1].nth = q[1].nth + 1
    <2>1. t[1] = q[2] /\ 2 \in 2 .. Len(q) /\ 1 \in 1 .. Len(q) /\ 2 \in 1 .. Len(q) /\ 2 - 1 = 1
      <3>1. Len(t) # 0
        BY <1>2, <1>4, EmptySeq
      <3>2. 1 \in 1 .. Len(t) /\ 1 + 1 = 2
        BY <1>2, <3>1
      <3> QED BY <1>2, <3>1, <3>2
    <2> QED BY <2>1 DEF Consecutive
  <1>5. ASSUME NEW n, MayFollow(q, c, n) PROVE MayFollow(t, c, n)
    <2> SUFFICES ASSUME t # <<>> PROVE n = t[Len(t)].nth + 1
      BY DEF MayFollow
    <2>1. Len(t) # 0
      BY <1>2, EmptySeq
    <2>2. t[Len(t)] = q[Len(q)] /\ Len(q) \in 1 .. Len(q)
      <3>1. Len(t) \in 1 .. Len(t) /\ Len(t) + 1 = Len(q)
        BY <1>2, <2>1
      <3> QED BY <1>2, <3>1
    <2> QED BY <1>5, <2>2 DEF MayFollow
  <1>6. ASSUME NEW n, t = <<>>, MayFollow(q, c, n) PROVE n = q[1].nth + 1
    <2>1. Len(q) = 1 /\ 1 \in 1 .. Len(q)
      BY <1>2, <1>6, EmptySeq
    <2> QED BY <1>6, <2>1 DEF MayFollow
  <1> QED BY <1>1, <1>3, <1>4, <1>5, <1>6 DEF Consecutive

LEMMA OnItsOwn ==
    ASSUME TypeInv, PlaceInv, NEW k \in 1 .. Size
    PROVE  \A i \in 1 .. Len(Data(k)) : Data(k)[i].conn = Id(k)
  BY ConnTyped, LenProperties DEF TypeInv, PlaceInv, OnWire, ToSet

LEMMA StepGaps == TypeInv /\ PlaceInv /\ GapInv /\ [Next]_vars => GapInv'
  <1> SUFFICES ASSUME TypeInv, PlaceInv, GapInv, [Next]_vars PROVE GapInv'
    OBVIOUS
  <1>0. Quiet \/ Sends \/ (Received /\ Still) \/ Connects
    BY Shapes
  <1>1. CASE Quiet
    <2>1. PICK f \in [1 .. Size' -> 1 .. Size] :
            \A k \in 1 .. Size' :
                  /\ f[k] \in 1 .. Size /\ Id(k)' = Id(f[k]) /\ Data(k)' = Data(f[k])
      BY <1>1, QuietSets
    <2>2. arrived' = arrived
      BY <1>1 DEF Quiet
    <2>3. Consecutive(arrived)'
      BY <2>2 DEF GapInv, Consecutive
    <2>4. ASSUME NEW k \in 1 .. Size'
          PROVE  /\ Consecutive(Data(k))'
                 /\ (Data(k) # <<>> => MayFollow(arrived, Id(k), Data(k)[1].nth))'
      BY <2>1, <2>2 DEF GapInv, Consecutive, MayFollow
    <2>5. ASSUME NEW k \in 1 .. Size', Id(k)' = link'
          PROVE  /\ (Data(k) = <<>> => MayFollow(arrived, link, NextPop))'
                 /\ MayFollow(Data(k), link, NextPop)'
      <3>1. /\ f[k] \in 1 .. Size /\ Id(k)' = Id(f[k]) /\ Data(k)' = Data(f[k])
            /\ Id(f[k]) \in Nat \ {0}
        BY <2>1, ConnTyped DEF PlaceInv, TypeInv
      <3>2. link' = link /\ NextPop' = NextPop
        <4>1. CASE Still
          BY <4>1 DEF Still, producerVars, NextPop
        <4>2. CASE Offers
          BY <4>2 DEF Offers, NextPop
        <4>3. CASE Takes
          <5>1. Popped.nth = Len(taken) /\ Popped # NoRecord
            BY PoppedIsRecord, ARecord DEF Popped, TypeInv
          <5> QED BY <4>3, <5>1 DEF Takes, NextPop
        <4>4. CASE LetsGo \/ Restarts
          BY <2>5, <3>1, <4>4 DEF LetsGo, Restarts
        <4>5. CASE Gives /\ LinkAt = {}
          <5>1. f[k] \in LinkAt
            BY <2>5, <3>1, <4>5, ConnTyped DEF LinkAt, Id, Gives, TypeInv
          <5> QED BY <4>5, <5>1
        <4> QED BY <1>1, <4>1, <4>2, <4>3, <4>4, <4>5 DEF Quiet
      <3> QED BY <2>2, <2>5, <3>1, <3>2 DEF GapInv, MayFollow
    <2> QED BY <2>3, <2>4, <2>5 DEF GapInv
  <1>2. CASE Sends
    <2>0. PICK i \in LinkAt : i \in 1 .. Size /\ SentOn(i)
      BY <1>2 DEF Sends
    <2>1. /\ Size' = Size /\ arrived' = arrived /\ hand' = NoRecord /\ hand # NoRecord
          /\ link' = link /\ taken' = taken /\ Id(i) = link
      BY <1>2, <2>0, SendsSets DEF Sends, Gives, LinkAt, Id
    <2>2. PICK h \in Rec : h = hand
      BY <2>1 DEF TypeInv, ProducerTypes
    <2>3. PICK d \in Seq(Rec) : d = Data(i)
      BY <2>0, ConnTyped DEF TypeInv
    <2>4. h.conn = link /\ NextPop = h.nth /\ NextPop' = h.nth + 1
      BY <2>1, <2>2 DEF PlaceInv, NextPop
    <2>5. Consecutive(d) /\ MayFollow(d, h.conn, h.nth) /\ (d = <<>> => MayFollow(arrived, link, h.nth))
      BY <2>0, <2>1, <2>3, <2>4 DEF GapInv
    <2>6. PICK s : s = Append(d, h)
      OBVIOUS
    <2>7. /\ Consecutive(s) /\ MayFollow(s, link, h.nth + 1) /\ s # <<>>
          /\ s[1] = IF d = <<>> THEN h ELSE d[1]
      <3>1. s # <<>> /\ s[1] = IF d = <<>> THEN h ELSE d[1]
        <4>1. /\ Len(d) \in Nat /\ \A j \in 1 .. Len(d) : s[j] = d[j]
              /\ s[Len(d) + 1] = h /\ s # <<>> /\ (d = <<>> <=> Len(d) = 0)
          BY <2>6, AppendProperties, LenProperties, EmptySeq
        <4> QED BY <4>1
      <3> QED BY <2>4, <2>5, <2>6, <3>1, ConsecutiveAppended
    <2>8. Data(i)' = s /\ Id(i)' = link
      BY <2>0, <2>1, <2>2, <2>3, <2>6 DEF SentOn
    <2>9. Consecutive(arrived)'
      BY <2>1 DEF GapInv, Consecutive
    <2>10. ASSUME NEW k \in 1 .. Size'
           PROVE  /\ Consecutive(Data(k))'
                  /\ (Data(k) # <<>> => MayFollow(arrived, Id(k), Data(k)[1].nth))'
                  /\ (Id(k) = link => /\ Data(k) = <<>> => MayFollow(arrived, link, NextPop)
                                      /\ MayFollow(Data(k), link, NextPop))'
      <3>1. CASE k = i
        <4>1. MayFollow(arrived, link, s[1].nth)
          <5>1. CASE d = <<>>
            BY <2>5, <2>7, <5>1
          <5>2. CASE d # <<>>
            BY <2>0, <2>1, <2>3, <2>7, <5>2 DEF GapInv
          <5> QED BY <5>1, <5>2
        <4> QED BY <2>1, <2>4, <2>7, <2>8, <3>1, <4>1 DEF Consecutive, MayFollow
      <3>2. CASE k # i
        <4>1. Data(k)' = Data(k) /\ Id(k)' = Id(k) /\ k \in 1 .. Size
          BY <2>0, <2>1, <3>2 DEF SentOn
        <4>2. Id(k) # link
          BY <2>0, <2>1, <3>2, <4>1, ConnTyped DEF PlaceInv, TypeInv
        <4>3. Consecutive(Data(k)) /\ (Data(k) # <<>> => MayFollow(arrived, Id(k), Data(k)[1].nth))
          BY <4>1 DEF GapInv
        <4> QED BY <2>1, <4>1, <4>2, <4>3 DEF Consecutive, MayFollow
      <3> QED BY <3>1, <3>2
    <2> QED BY <2>9, <2>10 DEF GapInv
  <1>3. CASE Received /\ Still
    <2>1. Size' = Size /\ 1 \in 1 .. Size /\ \A k \in 1 .. Size : Id(k)' = Id(k)
      BY <1>3, ReceivedSets
    <2>2. PICK x \in Rec : x = Data(1)[1] /\ arrived' = Append(arrived, x)
      BY <1>3, ReceivedSets
    <2>3. PICK d \in Seq(Rec) : d = Data(1) /\ d # <<>> /\ Data(1)' = Tail(d)
      BY <1>3, ConnTyped DEF TypeInv, Received
    <2>4. PICK t : t = Tail(d)
      OBVIOUS
    <2>5. PICK a \in Seq(Rec) : a = arrived
      BY DEF TypeInv, ArchiveTypes
    <2>6. PICK b : b = Append(a, x)
      OBVIOUS
    <2>7. \A i \in 1 .. Len(d) : d[i].conn = Id(1)
      BY <2>1, <2>3, OnItsOwn
    <2>8. x = d[1] /\ x.conn = Id(1)
      BY <2>2, <2>3, <2>7, EmptySeq, LenProperties
    <2>9. Consecutive(d) /\ Consecutive(a) /\ MayFollow(a, x.conn, x.nth)
      BY <2>1, <2>3, <2>5, <2>8 DEF GapInv
    <2>10. Consecutive(b) /\ \A c, n : MayFollow(b, c, n) <=> (x.conn = c => n = x.nth + 1)
      BY <2>6, <2>9, ConsecutiveAppended
    <2>11. /\ Consecutive(t)
           /\ t # <<>> => t[1].nth = x.nth + 1
           /\ \A n : MayFollow(d, Id(1), n) => MayFollow(t, Id(1), n)
           /\ \A n : t = <<>> /\ MayFollow(d, Id(1), n) => n = x.nth + 1
      BY <2>3, <2>4, <2>7, <2>8, <2>9, ConsecutiveTail
    <2>12. arrived' = b /\ Data(1)' = t /\ link' = link /\ NextPop' = NextPop
      BY <1>3, <2>2, <2>3, <2>4, <2>5, <2>6 DEF Still, producerVars, NextPop
    <2>13. Consecutive(arrived)'
      BY <2>10, <2>12 DEF Consecutive
    <2>14. ASSUME NEW k \in 1 .. Size'
           PROVE  /\ Consecutive(Data(k))'
                  /\ (Data(k) # <<>> => MayFollow(arrived, Id(k), Data(k)[1].nth))'
                  /\ (Id(k) = link => /\ Data(k) = <<>> => MayFollow(arrived, link, NextPop)
                                      /\ MayFollow(Data(k), link, NextPop))'
      <3>1. CASE k = 1
        <4>1. Id(k)' = Id(1) /\ Data(k)' = t
          BY <2>1, <2>12, <3>1
        <4>2. Id(1) = link => MayFollow(d, link, NextPop)
          BY <2>1, <2>3 DEF GapInv
        <4>3. Id(1) = link => /\ t = <<>> => MayFollow(b, link, NextPop)
                              /\ MayFollow(t, link, NextPop)
          BY <2>8, <2>10, <2>11, <4>2
        <4>4. t # <<>> => MayFollow(b, Id(1), t[1].nth)
          BY <2>8, <2>10, <2>11
        <4>5. Consecutive(Data(k))'
          BY <2>11, <4>1 DEF Consecutive
        <4>6. (Data(k) # <<>> => MayFollow(arrived, Id(k), Data(k)[1].nth))'
          BY <2>12, <4>1, <4>4 DEF MayFollow
        <4>7. (Id(k) = link => /\ Data(k) = <<>> => MayFollow(arrived, link, NextPop)
                               /\ MayFollow(Data(k), link, NextPop))'
          BY <2>12, <4>1, <4>3 DEF MayFollow
        <4> QED BY <4>5, <4>6, <4>7
      <3>2. CASE k # 1
        <4>1. Data(k)' = Data(k) /\ Id(k)' = Id(k) /\ k \in 1 .. Size
          BY <1>3, <2>1, <3>2 DEF Received
        <4>2. Id(k) # x.conn
          BY <2>1, <2>8, <3>2, <4>1, ConnTyped DEF PlaceInv, TypeInv
        <4>3. \A n : MayFollow(b, Id(k), n)
          BY <2>10, <4>2
        <4>4. Consecutive(Data(k)) /\ (Id(k) = link => MayFollow(Data(k), link, NextPop))
          BY <4>1 DEF GapInv
        <4>5. Consecutive(Data(k))'
          BY <4>1, <4>4 DEF Consecutive
        <4>6. (Data(k) # <<>> => MayFollow(arrived, Id(k), Data(k)[1].nth))'
          BY <2>12, <4>1, <4>3 DEF MayFollow
        <4>7. (Id(k) = link => /\ Data(k) = <<>> => MayFollow(arrived, link, NextPop)
                               /\ MayFollow(Data(k), link, NextPop))'
          BY <2>12, <4>1, <4>3, <4>4 DEF MayFollow
        <4> QED BY <4>5, <4>6, <4>7
      <3> QED BY <3>1, <3>2
    <2> QED BY <2>13, <2>14 DEF GapInv
  <1>4. CASE Connects
    <2>1. /\ Dials /\ Size' = Size + 1 /\ Size \in Nat
          /\ \A k \in 1 .. Size' :
                k \notin 1 .. Size => Id(k)' = dialled + 1 /\ Data(k)' = <<>>
      BY <1>4, ConnectsSets
    <2>2. arrived' = arrived /\ \A k \in 1 .. Size : Data(k)' = Data(k) /\ Id(k)' = Id(k)
      BY <1>4 DEF Connects, Connected
    <2>3. link' = dialled + 1
      BY <2>1 DEF Dials
    <2>4. Consecutive(arrived)'
      BY <2>2 DEF GapInv, Consecutive
    <2>5. ASSUME NEW k \in 1 .. Size'
          PROVE  /\ Consecutive(Data(k))'
                 /\ (Data(k) # <<>> => MayFollow(arrived, Id(k), Data(k)[1].nth))'
                 /\ (Id(k) = link => /\ Data(k) = <<>> => MayFollow(arrived, link, NextPop)
                                     /\ MayFollow(Data(k), link, NextPop))'
      <3>1. CASE k \in 1 .. Size
        <4>1. Id(k) # dialled + 1
          BY <3>1 DEF PlaceInv, TypeInv, ProducerTypes
        <4> QED BY <2>2, <2>3, <3>1, <4>1 DEF GapInv, Consecutive, MayFollow
      <3>2. CASE k \notin 1 .. Size
        <4>1. Id(k)' = dialled + 1 /\ Data(k)' = <<>> /\ Len(<<>>) = 0
          BY <2>1, <3>2
        <4>2. ~(arrived # <<>> /\ arrived[Len(arrived)].conn = dialled + 1)
          <5> SUFFICES ASSUME arrived # <<>> PROVE arrived[Len(arrived)].conn \in 1 .. dialled
            BY DEF TypeInv, ProducerTypes
          <5>1. arrived[Len(arrived)] \in Arrived
            BY LenProperties, EmptySeq DEF TypeInv, ArchiveTypes, Arrived, ToSet
          <5> QED BY <5>1 DEF PlaceInv
        <4>3. Consecutive(Data(k))'
          BY <4>1 DEF Consecutive
        <4>4. MayFollow(arrived, link, NextPop)'
          BY <2>2, <2>3, <4>2 DEF MayFollow
        <4>5. MayFollow(Data(k), link, NextPop)'
          BY <4>1 DEF MayFollow
        <4> QED BY <4>1, <4>3, <4>4, <4>5
      <3> QED BY <3>1, <3>2
    <2> QED BY <2>4, <2>5 DEF GapInv
  <1> QED BY <1>0, <1>1, <1>2, <1>3, <1>4
-------------------------------------------------------------------------------
(***************************************************************************)
(* The invariant.                                                          *)
(***************************************************************************)
StreamInv == TypeInv /\ ArchInv /\ PlaceInv /\ DoneInv /\ OrderInv /\ GapInv

LEMMA StartsWithInv == Init => StreamInv
  <1> SUFFICES ASSUME Init PROVE StreamInv
    OBVIOUS
  <1>1. /\ offered = 0 /\ oldest = 0 /\ taken = <<>> /\ offersBefore = <<>> /\ hand = NoRecord
        /\ link = 0 /\ dialled = 0 /\ conns = <<>> /\ server = "accept"
        /\ arrived = <<>> /\ pending = <<>> /\ archived = <<>>
    BY DEF Init, Fifo!Init, Exporter!Init
  <1>2. /\ <<>> \in Seq(Nat) /\ <<>> \in Seq(Rec) /\ <<>> \in Seq(Connection)
        /\ Len(<<>>) = 0 /\ 1 .. 0 = {} /\ 2 .. 0 = {}
    BY EmptySeq
  <1>3. TypeInv
    BY <1>1, <1>2 DEF TypeInv, ProducerTypes, ArchiveTypes, ServesFirst
  <1>4. ArchInv
    BY <1>1, <1>2 DEF ArchInv, Rising
  <1>5. Size = 0 /\ 1 .. Size = {} /\ Arrived = {}
    BY <1>1, <1>2, ToSetOfEmpty DEF Size, Arrived
  <1>6. PlaceInv
    BY <1>1, <1>5 DEF PlaceInv
  <1>7. DoneInv
    BY <1>5 DEF DoneInv
  <1>8. OrderInv
    BY <1>1, <1>2, <1>5 DEF OrderInv, Ascending
  <1>9. GapInv
    BY <1>1, <1>2, <1>5 DEF GapInv, Consecutive
  <1> QED BY <1>3, <1>4, <1>6, <1>7, <1>8, <1>9 DEF StreamInv

LEMMA StepKeepsInv == StreamInv /\ [Next]_vars => StreamInv'
  BY StepTypes, StepArchive, StepPlace, StepDone, StepOrder, StepGaps DEF StreamInv

LEMMA InvHolds == Spec => []StreamInv
  BY StartsWithInv, StepKeepsInv, PTL DEF Spec

(***************************************************************************)
(* Records that follow each other on a connection without one between were *)
(* popped one after the other (_send_loop): a gap is a drop of the ring    *)
(* buffer, whatever breaks and whoever crashes.                            *)
(***************************************************************************)
THEOREM GapsAreCounted == Spec => []GapsAreDrops
  <1>1. StreamInv => GapsAreDrops
    BY DEF StreamInv, GapInv, Consecutive, GapsAreDrops
  <1> QED BY <1>1, InvHolds, PTL
-------------------------------------------------------------------------------
(***************************************************************************)
(* The system implements Delivery.                                         *)
(***************************************************************************)
Promised == Append(offersBefore, offered)
Book == [i \in DOMAIN archived |-> arrived[archived[i]]]

BookType ==
    /\ Book \in Seq(Rec)
    /\ Len(Book) = Len(archived) /\ Len(archived) \in Nat
    /\ \A i \in 1 .. Len(archived) : Book[i] = arrived[archived[i]]

LEMMA BookTyped == TypeInv /\ ArchInv => BookType
  <1> SUFFICES ASSUME TypeInv, ArchInv PROVE BookType
    OBVIOUS
  <1>1. DOMAIN archived = 1 .. Len(archived) /\ Len(archived) \in Nat
    BY LenProperties DEF TypeInv, ArchiveTypes
  <1>2. \A i \in 1 .. Len(archived) : arrived[archived[i]] \in Rec
    BY ElementOfSeq DEF ArchInv, TypeInv, ArchiveTypes
  <1>3. Book \in [1 .. Len(archived) -> Rec]
    BY <1>1, <1>2 DEF Book
  <1> QED BY <1>1, <1>3 DEF Book, BookType

LEMMA BookTypedNext == TypeInv' /\ ArchInv' => BookType'
  BY BookTyped, PTL

LEMMA BookSame ==
    ASSUME TypeInv, ArchInv, UNCHANGED archived,
           UNCHANGED arrived \/ Received
    PROVE  Book' = Book
  <1>1. CASE UNCHANGED arrived
    BY <1>1 DEF Book
  <1>2. CASE Received
    <2>1. \A i \in 1 .. Len(arrived) : arrived'[i] = arrived[i]
      BY <1>2, AppendProperties DEF Received, TypeInv, ArchiveTypes
    <2>2. \A i \in DOMAIN archived : arrived'[archived[i]] = arrived[archived[i]]
      BY <2>1, LenProperties DEF ArchInv, TypeInv, ArchiveTypes
    <2> QED BY <2>2 DEF Book
  <1> QED BY <1>1, <1>2

LEMMA DoneIsOffered ==
    ASSUME TypeInv, NEW r \in Rec, Done(r)
    PROVE  Promise!Offered(r)
  <1>1. /\ Len(Promised) = Len(offersBefore) + 1 /\ Len(offersBefore) \in Nat
        /\ \A i \in 1 .. Len(offersBefore) : Promised[i] = offersBefore[i]
        /\ Promised[Len(offersBefore) + 1] = offered
        /\ DOMAIN Promised = 1 .. Len(Promised)
    BY AppendProperties, LenProperties DEF Promised, TypeInv, ProducerTypes
  <1>2. r.life \in 1 .. Len(Promised)
    BY <1>1 DEF Done, Life
  <1>3. r.n < Promised[r.life]
    <2>1. CASE r.life = Life
      <3>1. Promised[r.life] = offered
        BY <1>1, <2>1 DEF Life
      <3>2. r.n \in Nat /\ oldest \in 0 .. offered /\ offered \in Nat
        BY DEF Rec, TypeInv, ProducerTypes
      <3> QED BY <2>1, <3>1, <3>2 DEF Done
    <2>2. CASE r.life # Life
      <3>1. r.life \in 1 .. Len(offersBefore)
        BY <1>1, <2>2 DEF Done, Life
      <3> QED BY <1>1, <2>2, <3>1 DEF Done
    <2> QED BY <2>1, <2>2
  <1> QED BY <1>1, <1>2, <1>3 DEF Promise!Offered, Promised

LEMMA OfferIsOffer ==
    ASSUME TypeInv, Offers, UNCHANGED Book
    PROVE  Promise!Offer
  <1>1. PICK p : p = Promised
    OBVIOUS
  <1>2. PICK n \in Nat : n = offered
    BY DEF TypeInv, ProducerTypes
  <1>3. PICK b \in Seq(Nat) : b = offersBefore
    BY DEF TypeInv, ProducerTypes
  <1>4. p \in Seq(Nat) /\ Len(p) = Len(b) + 1 /\ Len(b) \in Nat
        /\ (\A i \in 1 .. Len(b) : p[i] = b[i]) /\ p[Len(b) + 1] = n
    BY <1>1, <1>2, <1>3, AppendProperties, LenProperties DEF Promised
  <1>5. PICK q : q = Append(b, n + 1)
    OBVIOUS
  <1>6. q \in Seq(Nat) /\ Len(q) = Len(b) + 1
        /\ (\A i \in 1 .. Len(b) : q[i] = b[i]) /\ q[Len(b) + 1] = n + 1
    BY <1>5, AppendProperties
  <1>7. PICK e : e = [p EXCEPT ![Len(p)] = @ + 1]
    OBVIOUS
  <1>8. e \in Seq(Nat) /\ Len(e) = Len(p) /\ \A i \in 1 .. Len(p) : e[i] = IF i = Len(p) THEN p[i] + 1 ELSE p[i]
    <2>1. /\ DOMAIN p = 1 .. Len(p) /\ \A i \in 1 .. Len(p) : p[i] \in Nat
          /\ Len(p) \in 1 .. Len(p)
      BY <1>4, LenProperties, ElementOfSeq
    <2>2. \A i \in 1 .. Len(p) : e[i] = IF i = Len(p) THEN p[i] + 1 ELSE p[i]
      BY <1>7, <2>1
    <2>3. e \in [1 .. Len(p) -> Nat]
      <3>1. DOMAIN e = 1 .. Len(p) /\ e = [i \in 1 .. Len(p) |-> e[i]]
        BY <1>7, <2>1
      <3>2. \A i \in 1 .. Len(p) : e[i] \in Nat
        <4> TAKE i \in 1 .. Len(p)
        <4>1. p[i] \in Nat /\ p[i] + 1 \in Nat
          BY <2>1
        <4> QED BY <2>2, <4>1
      <3> QED BY <3>1, <3>2
    <2> QED BY <1>4, <2>2, <2>3
  <1>9. \A i \in 1 .. Len(e) : e[i] = q[i]
    <2> TAKE i \in 1 .. Len(e)
    <2>1. CASE i = Len(p)
      BY <1>4, <1>6, <1>8, <2>1
    <2>2. CASE i # Len(p)
      <3>1. i \in 1 .. Len(b)
        BY <1>4, <1>8, <2>2
      <3> QED BY <1>4, <1>6, <1>8, <2>2, <3>1
    <2> QED BY <2>1, <2>2
  <1>10. e = q
    BY <1>4, <1>6, <1>8, <1>9, SeqEqual
  <1>11. Promised' = q
    BY <1>2, <1>3, <1>5 DEF Promised, Offers
  <1> QED BY <1>1, <1>7, <1>10, <1>11 DEF Promise!Offer, Promised, Book

LEMMA WriteIsDeliver ==
    ASSUME StreamInv, StreamInv', NEW k \in 1 .. Len(pending), Written(k),
           UNCHANGED arrived, Still
    PROVE  Promise!Deliver
  <1>1. /\ Len(archived') = Len(archived) + k /\ k \in Nat \ {0}
        /\ \A i \in 1 .. Len(archived) : archived'[i] = archived[i]
    BY WrittenTypes DEF StreamInv, TypeInv
  <1>2. PICK a \in Seq(Nat) : a = archived'
    BY DEF StreamInv, TypeInv, ArchiveTypes
  <1>3. PICK b \in Seq(Rec) : b = Book
    BY BookTyped DEF StreamInv, BookType
  <1>4. PICK c \in Seq(Rec) : c = Book'
    BY BookTypedNext DEF StreamInv, BookType
  <1>5. /\ Len(b) = Len(archived) /\ Len(b) \in Nat /\ Len(c) = Len(b) + k
        /\ \A i \in 1 .. Len(b) : b[i] = arrived[archived[i]]
        /\ \A i \in 1 .. Len(c) : c[i] = arrived[a[i]]
    <2>1. BookType /\ BookType'
      BY BookTyped, BookTypedNext DEF StreamInv
    <2> QED BY <1>1, <1>2, <1>3, <1>4, <2>1 DEF BookType
  <1>6. \A i \in 1 .. Len(b) : c[i] = b[i]
    BY <1>1, <1>2, <1>5
  <1>7. SubSeq(c, 1, Len(b)) = b
    <2>1. \A i \in 1 .. Len(b) : c[i] \in Rec
      BY <1>1, <1>5, ElementOfSeq
    <2>2. /\ SubSeq(c, 1, Len(b)) \in Seq(Rec)
          /\ Len(SubSeq(c, 1, Len(b))) = IF 1 <= Len(b) THEN Len(b) - 1 + 1 ELSE 0
          /\ \A i \in 1 .. Len(b) - 1 + 1 : SubSeq(c, 1, Len(b))[i] = c[1 + i - 1]
      BY <1>5, <2>1, SubSeqProperties
    <2>3. PICK s \in Seq(Rec) : s = SubSeq(c, 1, Len(b))
      BY <2>2
    <2>4. Len(s) = Len(b) /\ \A i \in 1 .. Len(s) : s[i] = b[i]
      <3>1. Len(b) - 1 + 1 = Len(b) /\ Len(s) = Len(b) /\ \A i \in 1 .. Len(b) : 1 + i - 1 = i
        BY <1>5, <2>2, <2>3
      <3>2. \A i \in 1 .. Len(b) : s[i] = c[i]
        BY <2>2, <2>3, <3>1
      <3> QED BY <1>6, <3>1, <3>2
    <2> QED BY <2>3, <2>4, SeqEqual
  <1>8. ASSUME NEW i \in Len(b) + 1 .. Len(c)
        PROVE  (i > 1 => Promise!Before(c[i - 1], c[i])) /\ Promise!Offered(c[i])
    <2>1. i \in 1 .. Len(c) /\ Len(c) = Len(a) /\ a[i] \in 1 .. Len(arrived) /\ c[i] = arrived[a[i]]
      <3>1. i \in 1 .. Len(c) /\ Len(c) = Len(a)
        BY <1>1, <1>2, <1>5
      <3>2. a[i] \in 1 .. Len(arrived)
        BY <1>2, <3>1 DEF StreamInv, ArchInv
      <3> QED BY <1>5, <3>1, <3>2
    <2>2. Promise!Offered(c[i])
      <3>1. c[i] \in Arrived
        BY <2>1, LenProperties DEF Arrived, ToSet, StreamInv, TypeInv, ArchiveTypes
      <3>2. c[i] \in Rec /\ Done(c[i])
        BY <3>1, SetsTyped DEF StreamInv, DoneInv
      <3> QED BY <3>2, DoneIsOffered DEF StreamInv
    <2>3. ASSUME i > 1 PROVE Promise!Before(c[i - 1], c[i])
      <3>1. i - 1 \in 1 .. Len(a) /\ i - 1 < i /\ i \in 1 .. Len(a)
        BY <2>1, <2>3
      <3>2. a[i - 1] \in 1 .. Len(arrived) /\ a[i - 1] < a[i] /\ c[i - 1] = arrived[a[i - 1]]
        <4>1. Rising(a) /\ \A j \in 1 .. Len(a) : a[j] \in 1 .. Len(arrived)
          BY <1>2 DEF StreamInv, ArchInv, Rising
        <4>2. a[i - 1] < a[i]
          BY <3>1, <4>1 DEF Rising
        <4>3. c[i - 1] = arrived[a[i - 1]]
          BY <1>5, <2>1, <3>1
        <4> QED BY <3>1, <4>1, <4>2, <4>3
      <3>3. Ascending(arrived)
        BY DEF StreamInv, OrderInv
      <3> QED BY <2>1, <3>2, <3>3 DEF Ascending
    <2> QED BY <2>2, <2>3
  <1>9. UNCHANGED Promised
    BY DEF Still, producerVars, Promised
  <1>10. Len(c) > Len(b)
    BY <1>1, <1>5
  <1> QED BY <1>3, <1>4, <1>7, <1>8, <1>9, <1>10 DEF Promise!Deliver, Promised, Book

LEMMA StepImplements ==
    ASSUME StreamInv, StreamInv', [Next]_vars
    PROVE  [Promise!Next]_(Promise!vars)
  <1>1. /\ Quiet \/ Sends \/ (Received /\ Still) \/ Connects
        /\ ArchiveStep
    BY Shapes, ArchiveSteps DEF StreamInv
  <1>2. CASE UNCHANGED archived
    <2>1. UNCHANGED Book
      BY <1>1, <1>2, BookSame DEF StreamInv, Quiet, Sends, Connects
    <2>2. CASE UNCHANGED Promised
      BY <2>1, <2>2 DEF Promise!vars, Promised, Book
    <2>3. CASE Offers
      BY <2>1, <2>3, OfferIsOffer DEF Promise!Next, StreamInv
    <2>4. CASE Restarts
      <3>1. Promised' = Append(Promised, 0)
        BY <2>4 DEF Restarts, Promised
      <3>2. Promise!Restart
        BY <2>1, <3>1 DEF Promise!Restart, Promised, Book
      <3> QED BY <3>2 DEF Promise!Next
    <2>5. Still \/ Takes \/ LetsGo \/ Gives \/ Dials => UNCHANGED Promised
      BY DEF Still, producerVars, Takes, LetsGo, Gives, Dials, Promised
    <2> QED BY <1>1, <2>2, <2>3, <2>4, <2>5 DEF Quiet, Sends, Connects
  <1>3. ASSUME NEW k \in 1 .. Len(pending), Written(k), UNCHANGED arrived, Still
        PROVE  [Promise!Next]_(Promise!vars)
    BY <1>3, WriteIsDeliver DEF Promise!Next
  <1> QED BY <1>1, <1>2, <1>3 DEF ArchiveStep, Lossy, Accepted

(***************************************************************************)
(* Whatever breaks, overflows, fails or is restarted, the archive only     *)
(* grows, and holds records that were offered, each once and in order: the *)
(* two programs implement Delivery, for any bounds.                        *)
(***************************************************************************)
THEOREM SystemDelivers == Spec => ImplementsDelivery
  <1>1. Init => Promise!Init
    <2> SUFFICES ASSUME Init PROVE Promise!Init
      OBVIOUS
    <2>1. offersBefore = <<>> /\ offered = 0 /\ archived = <<>>
      BY DEF Init, Fifo!Init, Exporter!Init
    <2>2. Promised = <<0>>
      BY <2>1 DEF Promised
    <2>3. Book = <<>>
      BY <2>1 DEF Book
    <2> QED BY <2>2, <2>3 DEF Promise!Init, Promised, Book
  <1>2. StreamInv /\ StreamInv' /\ [Next]_vars => [Promise!Next]_(Promise!vars)
    BY StepImplements
  <1> QED BY <1>1, <1>2, InvHolds, PTL DEF Spec, ImplementsDelivery, Promise!Spec
-------------------------------------------------------------------------------
(***************************************************************************)
(* Without a fault.                                                        *)
(***************************************************************************)

\* While no record was lost, all that arrived is archived or pending.
LossInv ==
    /\ failed => lossy
    /\ ~lossy => archived \o pending = [k \in DOMAIN arrived |-> k]

LEMMA AcceptedJoins ==
    ASSUME ArchiveTypes, Accepted, NEW r \in Rec, arrived' = Append(arrived, r),
           archived \o pending = [k \in DOMAIN arrived |-> k]
    PROVE  archived' \o pending' = [k \in DOMAIN arrived' |-> k]
  <1>1. PICK a \in Seq(Nat), p \in Seq(Nat), n \in Nat :
          a = archived /\ p = pending /\ n = Len(arrived)
    BY LenProperties DEF ArchiveTypes
  <1>2. PICK x \in Nat : x = n + 1
    BY <1>1
  <1>3. DOMAIN arrived = 1 .. n /\ DOMAIN arrived' = 1 .. n + 1
    <2>1. arrived' \in Seq(Rec) /\ Len(arrived') = n + 1
      BY <1>1, AppendProperties DEF ArchiveTypes
    <2> QED BY <1>1, <2>1, LenProperties DEF ArchiveTypes
  <1>4. PICK q : q = [k \in 1 .. n |-> k]
    OBVIOUS
  <1>5. q = a \o p /\ q \in Seq(Nat) /\ Len(q) = n /\ \A k \in 1 .. n : q[k] = k
    <2>1. q \in [1 .. n -> Nat] /\ \A k \in 1 .. n : q[k] = k
      BY <1>4
    <2>2. q = a \o p
      BY <1>1, <1>3, <1>4
    <2> QED BY <2>1, <2>2
  <1>6. PICK s : s = Append(q, x)
    OBVIOUS
  <1>7. s \in Seq(Nat) /\ Len(s) = n + 1 /\ (\A k \in 1 .. n : s[k] = k) /\ s[n + 1] = n + 1
    <2>1. /\ s \in Seq(Nat) /\ Len(s) = Len(q) + 1 /\ s[Len(q) + 1] = x
          /\ \A k \in 1 .. Len(q) : s[k] = q[k]
      BY <1>5, <1>6, AppendProperties
    <2>2. s \in Seq(Nat) /\ Len(s) = n + 1 /\ s[n + 1] = n + 1
      BY <1>2, <1>5, <2>1
    <2>3. \A k \in 1 .. n : s[k] = k
      BY <1>5, <2>1
    <2> QED BY <2>2, <2>3
  <1>8. s = [k \in 1 .. n + 1 |-> k]
    <2>1. DOMAIN s = 1 .. n + 1 /\ s = [k \in 1 .. n + 1 |-> s[k]]
      BY <1>7, LenProperties
    <2>2. \A k \in 1 .. n + 1 : s[k] = k
      BY <1>7
    <2> QED BY <2>1, <2>2
  <1>9. a \o Append(p, x) = s
    <2>1. <<x>> \in Seq(Nat) /\ Append(p, x) = p \o <<x>> /\ Append(q, x) = q \o <<x>>
      BY SMTT(30), <1>5, AppendIsConcat
    <2>2. (a \o p) \o <<x>> = a \o (p \o <<x>>)
      BY <2>1, NatsAssociate
    <2> QED BY <1>5, <1>6, <2>1, <2>2
  <1>10. archived' = a /\ pending' = Append(p, x)
    BY <1>1, <1>2 DEF Accepted
  <1> QED BY <1>3, <1>8, <1>9, <1>10

LEMMA StepLoss == TypeInv /\ LossInv /\ [Next]_vars => LossInv'
  <1> SUFFICES ASSUME TypeInv, LossInv, [Next]_vars PROVE LossInv'
    OBVIOUS
  <1>1. CASE /\ UNCHANGED <<arrived, pending, archived>>
             /\ lossy => lossy'
             /\ failed' => failed
    BY <1>1 DEF LossInv
  <1>2. CASE Receive
    <2>1. Accepted /\ UNCHANGED <<lossy, failed>>
      BY <1>2 DEF Receive, Exporter!Accept, Accepted
    <2>2. PICK r \in Rec : arrived' = Append(arrived, r)
      BY <1>2, ReceiveTakes DEF Received
    <2> QED BY <2>1, <2>2, AcceptedJoins DEF LossInv, TypeInv
  <1>3. CASE Export
    <2>1. /\ UNCHANGED <<arrived, failed>> /\ (lossy => lossy')
          /\ ~lossy' => \/ UNCHANGED <<pending, archived>>
                        \/ \E k \in 1 .. Len(pending) : Written(k)
                        \/ failed
      BY <1>3, ExportShapes DEF TypeInv
    <2>2. ASSUME NEW k \in 1 .. Len(pending), Written(k)
          PROVE  archived' \o pending' = archived \o pending
      BY <2>2, WrittenTypes DEF TypeInv
    <2>3. ASSUME ~lossy' PROVE archived' \o pending' = archived \o pending
      BY <2>1, <2>2, <2>3 DEF LossInv
    <2> QED BY <2>1, <2>3 DEF LossInv
  <1>4. CASE WriteFails \/ ConsumerCrash
    BY <1>4 DEF WriteFails, ConsumerCrash, LossInv
  <1>5. CASE ConsumerStop \/ ConsumerJoined
    BY <1>1, <1>5 DEF ConsumerStop, ConsumerJoined, Exporter!Close, exporterVars
  <1>6. CASE ConsumerRestart
    BY <1>1, <1>6 DEF ConsumerRestart
  <1>7. CASE UNCHANGED exporterVars
    BY <1>1, <1>7 DEF exporterVars
  <1>8. CASE Sender
    BY <1>7, <1>8 DEF Sender, Connect, Take, SendOk, SendFails, LetGo
  <1>9. CASE AcceptConn \/ CheckHealth \/ RecvEnds
    BY <1>7, <1>9 DEF AcceptConn, CheckHealth, RecvEnds
  <1>10. CASE ConsumerStopped
    <2>1. /\ UNCHANGED <<arrived, archived, failed>> /\ pending' = <<>>
          /\ ~lossy' => ~lossy /\ pending = <<>>
      BY <1>10 DEF ConsumerStopped
    <2> QED BY <2>1 DEF LossInv
  <1>11. CASE Offer \/ UNCHANGED vars
    BY <1>7, <1>11 DEF Offer, vars
  <1>12. CASE SendTimesOut \/ Break \/ ProducerCrash
    BY <1>7, <1>12 DEF SendTimesOut, LetGo, Break, ProducerCrash
  <1> QED BY <1>2, <1>3, <1>4, <1>5, <1>6, <1>8, <1>9, <1>10, <1>11, <1>12
          DEF Next, Server, Owner, Fault

\* Without a fault there is one connection, and on it, in the archive and in
\* the hand of the sender are all records that were popped, in order.
OneStream ==
    /\ Size = 1 /\ Id(1) = link /\ ~conns[1].closed
    /\ \A i \in 1 .. Len(arrived) : arrived[i].nth = i - 1
    /\ \A m \in 1 .. Len(Data(1)) : Data(1)[m].nth = Len(arrived) + m - 1
    /\ NextPop = Len(arrived) + Len(Data(1))

FreeInv ==
    /\ faults \in Nat
    /\ faults = 0 =>
          /\ ~failed
          /\ owner = "up"
          /\ link = 0 => conns = <<>> /\ hand = NoRecord /\ arrived = <<>> /\ taken = <<>>
          /\ link # 0 => OneStream

\* The one connection stays, and holds what it held.
LEMMA StreamStays ==
    ASSUME OneStream, UNCHANGED <<link, arrived>>, NextPop' = NextPop, Size' = 1,
           Id(1)' = Id(1), Data(1)' = Data(1), conns'[1].closed = conns[1].closed
    PROVE  OneStream'
  BY DEF OneStream

LEMMA StreamSends ==
    ASSUME TypeInv, PlaceInv, OneStream, hand # NoRecord,
           NEW i \in LinkAt, conns' = [conns EXCEPT ![i].data = Append(conns[i].data, hand)],
           hand' = NoRecord, UNCHANGED <<link, arrived, taken>>
    PROVE  OneStream'
  <1>1. i = 1 /\ i \in 1 .. Size /\ SentOn(i)
    <2>1. i \in 1 .. Size /\ SentOn(i)
      BY SendPuts
    <2> QED BY <2>1 DEF OneStream
  <1>2. conns'[1].closed = conns[1].closed
    <2>1. conns[1] \in Connection /\ 1 \in DOMAIN conns
      BY <1>1, ConnTyped DEF TypeInv
    <2> QED BY <1>1, <2>1 DEF Connection
  <1>3. PICK d \in Seq(Rec), h \in Rec, n \in Nat : d = Data(1) /\ h = hand /\ n = Len(arrived)
    BY <1>1, ConnTyped, LenProperties DEF TypeInv, ProducerTypes, ArchiveTypes
  <1>4. h.nth = n + Len(d) /\ h.nth + 1 = Len(taken)
    BY <1>3 DEF OneStream, NextPop, PlaceInv
  <1>5. PICK s : s = Append(d, h)
    OBVIOUS
  <1>6. Len(d) \in Nat /\ Len(s) = Len(d) + 1 /\ (\A m \in 1 .. Len(d) : s[m] = d[m]) /\ s[Len(d) + 1] = h
    BY <1>5, AppendProperties, LenProperties
  <1>7. Data(1)' = s
    BY <1>1, <1>3, <1>5 DEF SentOn
  <1>8. \A m \in 1 .. Len(d) : d[m].nth = n + m - 1
    BY <1>3 DEF OneStream
  <1>9. \A m \in 1 .. Len(s) : s[m].nth = n + m - 1
    <2> TAKE m \in 1 .. Len(s)
    <2>1. CASE m \in 1 .. Len(d)
      BY <1>6, <1>8, <2>1
    <2>2. CASE m \notin 1 .. Len(d)
      <3>1. m = Len(d) + 1
        BY <1>6, <2>2
      <3> QED BY <1>3, <1>4, <1>6, <3>1
    <2> QED BY <2>1, <2>2
  <1>10. NextPop' = n + Len(s)
    <2>1. NextPop' = Len(taken)
      BY DEF NextPop
    <2> QED BY <1>3, <1>4, <1>6, <2>1
  <1>11. Size' = 1 /\ Id(1)' = link'
    BY <1>1 DEF OneStream, SentOn
  <1> QED BY <1>2, <1>3, <1>7, <1>9, <1>10, <1>11 DEF OneStream

LEMMA StreamReceives ==
    ASSUME TypeInv, OneStream, Receive
    PROVE  OneStream'
  <1>1. Received
    BY ReceiveTakes
  <1>2. conns'[1].closed = conns[1].closed
    <2>1. conns[1] \in Connection /\ 1 \in DOMAIN conns
      BY <1>1, ConnTyped DEF TypeInv, Received
    <2> QED BY <2>1 DEF Connection, Receive
  <1>3. PICK d \in Seq(Rec), a \in Seq(Rec) : d = Data(1) /\ a = arrived
    BY <1>1, ConnTyped DEF Received, TypeInv, ArchiveTypes
  <1>4. PICK x \in Rec : x = d[1]
    BY <1>1, <1>3 DEF Received
  <1>5. PICK t, b : t = Tail(d) /\ b = Append(a, x)
    OBVIOUS
  <1>6. /\ Len(d) \in Nat \ {0} /\ Len(t) = Len(d) - 1
        /\ \A m \in 1 .. Len(t) : t[m] = d[m + 1]
    BY <1>1, <1>3, <1>5, HeadTailProperties, EmptySeq DEF Received
  <1>7. /\ Len(a) \in Nat /\ Len(b) = Len(a) + 1
        /\ (\A i \in 1 .. Len(a) : b[i] = a[i]) /\ b[Len(a) + 1] = x
    BY <1>5, AppendProperties, LenProperties
  <1>8. /\ \A i \in 1 .. Len(a) : a[i].nth = i - 1
        /\ \A m \in 1 .. Len(d) : d[m].nth = Len(a) + m - 1
        /\ NextPop = Len(a) + Len(d)
    BY <1>3 DEF OneStream
  <1>9. \A i \in 1 .. Len(b) : b[i].nth = i - 1
    <2> TAKE i \in 1 .. Len(b)
    <2>1. CASE i \in 1 .. Len(a)
      BY <1>7, <1>8, <2>1
    <2>2. CASE i \notin 1 .. Len(a)
      <3>1. i = Len(a) + 1 /\ 1 \in 1 .. Len(d) /\ i - 1 = Len(a) + 1 - 1
        BY <1>6, <1>7, <2>2
      <3> QED BY <1>4, <1>7, <1>8, <3>1
    <2> QED BY <2>1, <2>2
  <1>10. \A m \in 1 .. Len(t) : t[m].nth = Len(b) + m - 1
    <2> TAKE m \in 1 .. Len(t)
    <2>1. m + 1 \in 1 .. Len(d) /\ Len(a) + (m + 1) - 1 = Len(b) + m - 1
      BY <1>6, <1>7
    <2> QED BY <1>6, <1>8, <2>1
  <1>11. Data(1)' = t /\ arrived' = b /\ Size' = 1 /\ Id(1)' = Id(1)
    BY <1>1, <1>3, <1>4, <1>5 DEF Received, OneStream
  <1>12. link' = link /\ NextPop' = NextPop
    BY DEF Receive, producerVars, NextPop
  <1>13. NextPop' = Len(b) + Len(t)
    BY <1>6, <1>7, <1>8, <1>12
  <1> QED BY <1>2, <1>9, <1>10, <1>11, <1>12, <1>13 DEF OneStream

LEMMA StreamStarts ==
    ASSUME TypeInv, Connect, conns = <<>>, hand = NoRecord, arrived = <<>>, taken = <<>>
    PROVE  OneStream'
  <1>1. Connected /\ link' = dialled'
    BY ConnectMakes DEF Connect
  <1>2. Size = 0 /\ Size' = 1
    BY <1>1, EmptySeq DEF Connected, Size
  <1>3. Id(1)' = link' /\ Data(1)' = <<>>
    BY <1>1, <1>2 DEF Connected
  <1>4. PICK c : c = [id |-> dialled', data |-> <<>>, closed |-> FALSE, accepted |-> FALSE]
    OBVIOUS
  <1>5. ~c.closed
    BY ONLY <1>4
  <1>6. conns'[1] = c
    BY <1>4 DEF Connect
  <1>7. arrived' = <<>> /\ NextPop' = 0
    BY DEF Connect, exporterVars, NextPop
  <1>8. Len(<<>>) = 0
    OBVIOUS
  <1> QED BY <1>2, <1>3, <1>5, <1>6, <1>7, <1>8 DEF OneStream

LEMMA StepFree == TypeInv /\ PlaceInv /\ FreeInv /\ [Next]_vars => FreeInv'
  <1> SUFFICES ASSUME TypeInv, PlaceInv, FreeInv, [Next]_vars PROVE FreeInv'
    OBVIOUS
  <1> DEFINE Started == link' # 0 => OneStream'
             Unstarted == link' = 0 => conns' = <<>> /\ hand' = NoRecord /\ arrived' = <<>> /\ taken' = <<>>
  <1>1. faults' \in Nat
    <2>1. Fault \/ UNCHANGED faults
      BY DEF Next, Offer, Sender, Connect, Take, SendOk, SendFails, Server, AcceptConn, Receive,
             CheckHealth, RecvEnds, Owner, ConsumerJoined, ConsumerStopped, Export, ConsumerRestart, vars
    <2> QED BY <2>1 DEF Fault, FreeInv
  <1> SUFFICES ASSUME faults' = 0
               PROVE  ~failed' /\ owner' = "up" /\ Started /\ Unstarted
    BY <1>1 DEF FreeInv
  <1>2. ~Fault
    BY DEF Fault, FreeInv
  <1>3. faults = 0
    BY <1>2 DEF Next, Offer, Sender, Connect, Take, SendOk, SendFails, Server, AcceptConn, Receive,
                CheckHealth, RecvEnds, Owner, ConsumerJoined, ConsumerStopped, Export, ConsumerRestart, vars
  <1>4. /\ ~failed
        /\ owner = "up"
        /\ link = 0 => conns = <<>> /\ hand = NoRecord /\ arrived = <<>> /\ taken = <<>>
        /\ link # 0 => OneStream
    BY <1>3 DEF FreeInv
  <1>5. link # 0 => 1 \in LinkAt
    BY <1>4, ConnTyped DEF OneStream, LinkAt, Id, TypeInv
  <1>6. ASSUME UNCHANGED <<link, arrived, conns>>, NextPop' = NextPop,
               link = 0 => UNCHANGED <<hand, taken>>
        PROVE  Started /\ Unstarted
    <2>1. Size' = Size /\ Id(1)' = Id(1) /\ Data(1)' = Data(1)
      BY <1>6 DEF Size, Id, Data
    <2>2. Started
      BY <1>4, <1>6, <2>1, StreamStays DEF OneStream
    <2> QED BY <1>4, <1>6, <2>2
  <1>7. ASSUME UNCHANGED <<link, arrived, conns, hand, taken>> PROVE Started /\ Unstarted
    BY <1>6, <1>7 DEF NextPop
  <1>8. server = "recv" => link # 0
    BY <1>4 DEF TypeInv, ServesFirst
  <1> HIDE DEF Started, Unstarted
  <1>9. CASE Offer
    BY <1>4, <1>7, <1>9 DEF Offer, Fifo!Offer, exporterVars
  <1>10. CASE Connect
    <2>1. link' # 0
      BY <1>10, ConnectMakes DEF TypeInv, ProducerTypes
    <2>2. OneStream'
      BY <1>4, <1>10, StreamStarts DEF Connect
    <2>3. UNCHANGED owner /\ (failed' <=> failed)
      BY <1>10 DEF Connect, exporterVars
    <2> QED BY <1>4, <2>1, <2>2, <2>3 DEF Started, Unstarted
  <1>11. CASE Take
    <2>1. Popped.nth = Len(taken) /\ Popped # NoRecord
      BY PoppedIsRecord, ARecord DEF Popped, TypeInv
    <2>2. NextPop' = NextPop
      BY <1>11, <2>1 DEF Take, NextPop
    <2> QED BY <1>4, <1>6, <1>11, <2>2 DEF Take, exporterVars
  <1>12. CASE SendOk
    <2>1. /\ hand # NoRecord /\ hand' = NoRecord /\ UNCHANGED <<link, arrived, taken, owner>>
          /\ failed' <=> failed
      BY <1>12 DEF SendOk, exporterVars
    <2>2. link # 0
      BY <2>1 DEF PlaceInv
    <2>3. PICK i \in LinkAt : conns' = [conns EXCEPT ![i].data = Append(conns[i].data, hand)]
      BY <1>5, <1>12, <2>2 DEF SendOk
    <2>4. OneStream'
      BY <1>4, <2>1, <2>2, <2>3, StreamSends
    <2> QED BY <1>4, <2>1, <2>2, <2>4 DEF Started, Unstarted
  <1>13. ~SendFails
    BY <1>5 DEF SendFails, PlaceInv
  <1>14. CASE AcceptConn
    <2>1. /\ conns # <<>> /\ conns' = [conns EXCEPT ![1].accepted = TRUE]
          /\ UNCHANGED <<link, arrived, owner>> /\ NextPop' = NextPop
          /\ failed' <=> failed
      BY <1>14 DEF AcceptConn, producerVars, exporterVars, NextPop
    <2>2. link # 0 /\ OneStream
      BY <1>4, <2>1
    <2>3. Size = 1 /\ 1 \in DOMAIN conns /\ conns[1] \in Connection
      BY <2>2, ConnTyped DEF OneStream, TypeInv
    <2>4. PICK c : c = [conns[1] EXCEPT !.accepted = TRUE]
      OBVIOUS
    <2>5. c \in Connection /\ c.id = Id(1) /\ c.data = Data(1) /\ c.closed = conns[1].closed
      BY <2>3, <2>4 DEF Connection, Id, Data
    <2>6. conns' = [conns EXCEPT ![1] = c]
      BY <2>1, <2>4
    <2>7. Size' = Size /\ Id(1)' = c.id /\ Data(1)' = c.data /\ conns'[1] = c
      <3>1. 1 \in 1 .. Size /\ conns \in Seq(Connection)
        BY <2>3 DEF TypeInv
      <3> QED BY <2>5, <2>6, <3>1, Replaced
    <2>8. OneStream'
      BY <2>1, <2>2, <2>3, <2>5, <2>7, StreamStays
    <2> QED BY <1>4, <2>1, <2>2, <2>8 DEF Started, Unstarted
  <1>15. CASE CheckHealth
    <2>1. /\ UNCHANGED <<owner, conns, link, arrived, hand, taken>>
          /\ failed' <=> failed
      BY <1>4, <1>15 DEF CheckHealth, Listening, producerVars, exporterVars
    <2> QED BY <1>4, <1>7, <2>1
  <1>16. ~RecvEnds /\ ~Owner
    BY <1>4, <1>8 DEF RecvEnds, Owner, ConsumerJoined, ConsumerStopped, ConsumerRestart, OneStream
  <1>17. CASE Receive
    <2>1. /\ server = "recv" /\ UNCHANGED <<owner, link>>
          /\ failed' <=> failed
      BY <1>17 DEF Receive, producerVars, Exporter!Accept
    <2>2. OneStream'
      BY <1>4, <1>8, <1>17, <2>1, StreamReceives
    <2> QED BY <1>4, <1>8, <2>1, <2>2 DEF Started, Unstarted
  <1>18. CASE Export \/ UNCHANGED vars
    <2>1. UNCHANGED <<link, arrived, conns, hand, taken, owner>> /\ (failed' <=> failed)
      BY <1>18, ExportShapes DEF TypeInv, producerVars, exporterVars, vars
    <2> QED BY <1>4, <1>7, <2>1
  <1> QED BY <1>2, <1>9, <1>10, <1>11, <1>12, <1>13, <1>14, <1>15, <1>16, <1>17, <1>18
          DEF Next, Sender, Server
-------------------------------------------------------------------------------
(***************************************************************************)
(* What is on the way, without a fault.                                    *)
(***************************************************************************)
Queued == archived \o pending
OffWire == [i \in DOMAIN Queued |-> arrived[Queued[i]]]
InHand == IF hand = NoRecord THEN <<>> ELSE <<hand>>

LEMMA PathInParts == Path = (OffWire \o Wire) \o InHand
  BY DEF Path, OffWire, Queued, InHand

LEMMA QueuedIsArrived ==
    ASSUME TypeInv, Queued = [k \in DOMAIN arrived |-> k]
    PROVE  OffWire = arrived
  <1>1. DOMAIN arrived = 1 .. Len(arrived) /\ arrived = [i \in DOMAIN arrived |-> arrived[i]]
    BY LenProperties DEF TypeInv, ArchiveTypes
  <1>2. DOMAIN Queued = DOMAIN arrived /\ \A i \in DOMAIN arrived : Queued[i] = i
    OBVIOUS
  <1>3. OffWire = [i \in DOMAIN arrived |-> arrived[i]]
    BY <1>2 DEF OffWire
  <1> QED BY <1>1, <1>3

LEMMA NothingOnWire == ASSUME conns = <<>> PROVE Wire = <<>>
  <1>1. [i \in DOMAIN conns |-> conns[i].data] = <<>>
    OBVIOUS
  <1> QED BY <1>1, EmptySeq DEF Wire, FlattenSeq

LEMMA OneWire ==
    ASSUME TypeInv, Size = 1
    PROVE  Wire = Data(1)
  <1>1. PICK w : w = [i \in DOMAIN conns |-> conns[i].data]
    OBVIOUS
  <1>2. DOMAIN conns = 1 .. 1
    BY ConnTyped DEF TypeInv
  <1>3. Len(w) = 1 /\ w[1] = Data(1)
    <2>1. w \in [1 .. 1 -> {w[1]}] /\ w[1] = Data(1)
      BY <1>1, <1>2 DEF Data
    <2> QED BY <2>1
  <1>4. PICK f : Flattens(f, w, 1) /\ FlattenSeq(w) = f[1]
    <2>1. Len(w) \in Nat \ {0}
      BY <1>3
    <2>2. \E f : Flattens(f, w, Len(w)) /\ FlattenSeq(w) = f[Len(w)]
      BY <2>1, FlattenedBy
    <2> QED BY <1>3, <2>2
  <1>5. f[1] = w[1]
    BY <1>4, FlattensAt
  <1> QED BY <1>1, <1>3, <1>4, <1>5 DEF Wire

LEMMA LosslessPath ==
    ASSUME StreamInv, LossInv, FreeInv, ~lossy, faults = 0
    PROVE  Len(Path) = Len(taken) /\ \A i \in DOMAIN Path : Path[i].nth = i - 1
  <1>1. TypeInv /\ PlaceInv
    BY DEF StreamInv
  <1>2. PICK a \in Seq(Rec) : a = arrived
    BY <1>1 DEF TypeInv, ArchiveTypes
  <1>3. OffWire = a
    BY <1>1, <1>2, QueuedIsArrived DEF LossInv, Queued
  <1>4. CASE link = 0
    <2>1. conns = <<>> /\ hand = NoRecord /\ a = <<>> /\ taken = <<>>
      BY <1>2, <1>4 DEF FreeInv
    <2>2. Wire = <<>> /\ InHand = <<>>
      BY <2>1, NothingOnWire DEF InHand
    <2>3. Path = (<<>> \o <<>>) \o <<>>
      BY <1>3, <2>1, <2>2, PathInParts
    <2>4. (<<>> \o <<>>) \o <<>> = <<>> /\ DOMAIN <<>> = {} /\ Len(<<>>) = 0
      OBVIOUS
    <2> QED BY <2>1, <2>3, <2>4
  <1>5. CASE link # 0
    <2>1. OneStream
      BY <1>5 DEF FreeInv
    <2>2. PICK d \in Seq(Rec) : d = Data(1)
      BY <1>1, <2>1, ConnTyped DEF OneStream, TypeInv
    <2>3. PICK h \in Seq(Rec) : h = InHand /\ (h = <<>> <=> hand = NoRecord)
                                 /\ (hand # NoRecord => h = <<hand>>)
      <3>1. CASE hand = NoRecord
        <4>1. InHand = <<>> /\ <<>> \in Seq(Rec)
          BY <3>1, EmptySeq DEF InHand
        <4> QED BY <3>1, <4>1
      <3>2. CASE hand # NoRecord
        <4>1. PICK x \in Rec : x = hand
          BY <1>1, <3>2 DEF TypeInv, ProducerTypes
        <4>2. <<x>> \in Seq(Rec) /\ <<x>> # <<>> /\ InHand = <<x>>
          BY <3>2, <4>1 DEF InHand
        <4> QED BY <3>2, <4>1, <4>2
      <3> QED BY <3>1, <3>2
    <2>4. Wire = d
      BY <1>1, <2>1, <2>2, OneWire DEF OneStream
    <2>5. Path = (a \o d) \o h
      BY <1>3, <2>3, <2>4, PathInParts
    <2>6. /\ a \o d \in Seq(Rec) /\ Len(a \o d) = Len(a) + Len(d)
          /\ \A i \in 1 .. Len(a) : (a \o d)[i] = a[i]
          /\ \A i \in 1 .. Len(d) : (a \o d)[Len(a) + i] = d[i]
      BY Joined
    <2>7. PICK b \in Seq(Rec) : b = a \o d
      BY <2>6
    <2>8. /\ b \o h \in Seq(Rec) /\ Len(b \o h) = Len(b) + Len(h)
          /\ \A i \in 1 .. Len(b) : (b \o h)[i] = b[i]
          /\ \A i \in 1 .. Len(h) : (b \o h)[Len(b) + i] = h[i]
      BY Joined
    <2>9. Len(a) \in Nat /\ Len(d) \in Nat /\ Len(h) \in Nat /\ Len(b) = Len(a) + Len(d)
      BY <2>6, <2>7, LenProperties
    <2>10. /\ \A i \in 1 .. Len(a) : a[i].nth = i - 1
           /\ \A m \in 1 .. Len(d) : d[m].nth = Len(a) + m - 1
           /\ NextPop = Len(b)
      BY <1>2, <2>1, <2>2, <2>9 DEF OneStream
    <2>11. \A i \in 1 .. Len(b) : b[i].nth = i - 1
      <3> TAKE i \in 1 .. Len(b)
      <3>1. CASE i \in 1 .. Len(a)
        BY <2>6, <2>7, <2>10, <3>1
      <3>2. CASE i \notin 1 .. Len(a)
        <4>1. PICK m \in 1 .. Len(d) : i = Len(a) + m
          <5>1. i - Len(a) \in 1 .. Len(d) /\ i = Len(a) + (i - Len(a))
            BY <2>9, <3>2
          <5> QED BY <5>1
        <4> QED BY <2>6, <2>7, <2>10, <4>1
      <3> QED BY <3>1, <3>2
    <2>12. Len(taken) = Len(b) + Len(h) /\ \A i \in 1 .. Len(h) : h[i].nth = Len(b) + i - 1
      <3>1. CASE hand = NoRecord
        <4>1. Len(h) = 0 /\ 1 .. 0 = {}
          BY <2>3, <3>1, EmptySeq
        <4> QED BY <2>9, <2>10, <3>1, <4>1 DEF NextPop
      <3>2. CASE hand # NoRecord
        <4>1. hand.nth + 1 = Len(taken) /\ hand.nth = Len(b)
          BY <1>1, <2>10, <3>2 DEF PlaceInv, NextPop
        <4>2. PICK x : x = hand
          OBVIOUS
        <4>3. Len(h) = 1 /\ h[1] = x
          BY <2>3, <3>2, <4>2
        <4> QED BY <2>9, <4>1, <4>2, <4>3
      <3> QED BY <3>1, <3>2
    <2>13. PICK p \in Seq(Rec) : p = Path /\ p = b \o h
      BY <2>5, <2>7, <2>8
    <2>14. \A i \in 1 .. Len(p) : p[i].nth = i - 1
      <3> TAKE i \in 1 .. Len(p)
      <3>1. CASE i \in 1 .. Len(b)
        BY <2>8, <2>11, <2>13, <3>1
      <3>2. CASE i \notin 1 .. Len(b)
        <4>1. PICK m \in 1 .. Len(h) : i = Len(b) + m
          <5>1. i - Len(b) \in 1 .. Len(h) /\ i = Len(b) + (i - Len(b))
            BY <2>8, <2>9, <2>13, <3>2
          <5> QED BY <5>1
        <4> QED BY <2>8, <2>12, <2>13, <4>1
      <3> QED BY <3>1, <3>2
    <2>15. Len(p) = Len(taken) /\ DOMAIN p = 1 .. Len(p)
      BY <2>8, <2>12, <2>13, LenProperties
    <2> QED BY <2>13, <2>14, <2>15
  <1> QED BY <1>4, <1>5

(***************************************************************************)
(* Nothing is lost where nothing goes wrong: a consumer that has never     *)
(* dropped or lost a record, in a stop() that gave the writer up or        *)
(* otherwise, has archived all that it received, or is about to; and       *)
(* without a broken connection, a crash or a stop, every record            *)
(* the sender ever popped is archived, on its way, or in the sender's      *)
(* hand, in order.                                                         *)
(***************************************************************************)
THEOREM LosslessWithoutFault == Spec => []FaultFreeLossless
  <1>1. Init => LossInv /\ FreeInv
    <2> SUFFICES ASSUME Init PROVE LossInv /\ FreeInv
      OBVIOUS
    <2>1. /\ faults = 0 /\ failed = FALSE /\ owner = "up" /\ link = 0 /\ conns = <<>>
          /\ hand = NoRecord /\ arrived = <<>> /\ taken = <<>> /\ pending = <<>> /\ archived = <<>>
      BY DEF Init, Fifo!Init, Exporter!Init
    <2>2. <<>> \o <<>> = [k \in DOMAIN <<>> |-> k]
      OBVIOUS
    <2>3. LossInv
      BY <2>1, <2>2 DEF LossInv
    <2> QED BY <2>1, <2>3 DEF FreeInv
  <1>2. StreamInv /\ LossInv /\ FreeInv /\ [Next]_vars => (LossInv /\ FreeInv)'
    BY StepLoss, StepFree DEF StreamInv
  <1>3. StreamInv /\ LossInv /\ FreeInv => FaultFreeLossless
    BY LosslessPath DEF FaultFreeLossless, LossInv
  <1> QED BY <1>1, <1>2, <1>3, InvHolds, PTL DEF Spec
===============================================================================
