------------------------ MODULE SensorProducer_proofs -------------------------
(***************************************************************************)
(* Proofs about SensorProducer, for every capacity, counter width, number  *)
(* of sessions and number of records, and at the end about ProducerCli,    *)
(* the process whose main thread is the owner.                             *)
(***************************************************************************)
EXTENDS ProducerCli, DataLemmas

(***************************************************************************)
(* The inductive invariant.  TypeOK is not inductive alone: droppedTotal   *)
(* stays in its range because the accounting balances, and what a thread   *)
(* pushes, writes or sends is a record because it holds one.               *)
(***************************************************************************)
Holding == {"position", "tellFailed", "tellStored", "recheck", "write", "sending",
            "rollback"}

ProducerHolds ==
    ppc = "push" =>
        /\ made \in Records
        /\ made.n = produced
        /\ produced < MaxRecords

RunningHasSender == running => starts \in Senders

SendersHold == \A s \in Senders : spc[s] \in Holding => payload[s] \in Records

\* The provers do arithmetic and sets with one tool, Boolean variables with
\* another, so the Boolean part of TypeOK is kept apart.
DataInv ==
    /\ BufferTypes
    /\ ProducerTypes
    /\ SenderTypes
    /\ OwnerTypes
    /\ CaptureTypes
    /\ HistoryTypes
    /\ BufferAccounting
    /\ ProducerHolds
    /\ SendersHold
    /\ RunningHasSender

IInv == DataInv /\ FlagTypes
-------------------------------------------------------------------------------
\* The fields of a record are numbers.
LEMMA RecordFields ==
    ASSUME NEW r \in Records
    PROVE  r.n \in Int /\ r.drops \in Nat /\ r.seq \in Int /\ r.dropped \in Int
BY SensorProducerAssumption DEF Records

\* What the buffer's push does to a buffer of elements of S.
LEMMA PushItems ==
    ASSUME NEW S, items \in Seq(S), Len(items) <= Capacity,
           NEW item \in S, Push(item)
    PROVE  /\ items' \in Seq(S)
           /\ Len(items') = IF IsFull THEN Len(items) ELSE Len(items) + 1
           /\ Len(items') <= Capacity
           /\ items'[Len(items')] = item
           /\ \A i \in 1 .. Len(items') - 1 :
                 items'[i] = items[IF IsFull THEN i + 1 ELSE i]
<1>1. CASE IsFull
  <2>1. items # <<>> /\ Len(items) = Capacity
    BY <1>1, EmptySeq, LenProperties, CapacityAssumption DEF IsFull
  <2>2. /\ Tail(items) \in Seq(S)
        /\ Len(Tail(items)) = Len(items) - 1
        /\ \A i \in 1 .. Len(items) - 1 : Tail(items)[i] = items[i + 1]
    BY <2>1, HeadTailProperties
  <2>3. items' = Append(Tail(items), item)
    BY <1>1 DEF Push
  <2>4. /\ items' \in Seq(S)
        /\ Len(items') = Len(items)
        /\ \A i \in 1 .. Len(items) - 1 : items'[i] = Tail(items)[i]
        /\ items'[Len(items)] = item
    BY <2>1, <2>2, <2>3, AppendProperties, LenProperties
  <2>. QED
    BY <1>1, <2>1, <2>2, <2>4
<1>2. CASE ~IsFull
  <2>1. items' = Append(items, item)
    BY <1>2 DEF Push
  <2>2. Len(items) \in Nat /\ Len(items) < Capacity
    BY <1>2, LenProperties, CapacityAssumption DEF IsFull
  <2>3. /\ items' \in Seq(S)
        /\ Len(items') = Len(items) + 1
        /\ \A i \in 1 .. Len(items) : items'[i] = items[i]
        /\ items'[Len(items) + 1] = item
    BY <2>1, AppendProperties
  <2>. QED
    BY <1>2, <2>2, <2>3, CapacityAssumption
<1>. QED
    BY <1>1, <1>2

\* What it does with the accounting of the buffer (the items are numbered
\* records): the first disjunct of push, then the second.
LEMMA PushAccounting ==
    ASSUME BufferTypes, BufferAccounting, ProducerHolds, HistoryTypes,
           PushRecord
    PROVE  /\ BufferTypes'
           /\ BufferAccounting'
           /\ produced' \in 0 .. MaxRecords
<1>. USE SensorProducerAssumption, CapacityAssumption
<1>1. made \in Records /\ made.n = produced /\ produced < MaxRecords
  BY DEF PushRecord, ProducerHolds
<1>2. produced \in Nat /\ droppedTotal \in Nat /\ Len(popped) \in Nat
      /\ items \in Seq(Records) /\ Len(items) <= Capacity
  BY LenProperties DEF BufferTypes, HistoryTypes
<1>3. Push(made) /\ produced' = produced + 1 /\ popped' = popped
  BY DEF PushRecord
<1>4. /\ items' \in Seq(Records)
      /\ Len(items') = IF IsFull THEN Len(items) ELSE Len(items) + 1
      /\ Len(items') <= Capacity
      /\ items'[Len(items')] = made
      /\ \A i \in 1 .. Len(items') - 1 :
            items'[i] = items[IF IsFull THEN i + 1 ELSE i]
  BY <1>1, <1>2, <1>3, PushItems
<1>5. droppedTotal' = IF IsFull THEN droppedTotal + 1 ELSE droppedTotal
  BY <1>3 DEF Push
<1>6. Len(items) \in Nat /\ Len(items') \in Nat
  BY <1>2, <1>4, LenProperties
<1>7. produced' = droppedTotal' + Len(popped') + Len(items')
  BY <1>2, <1>3, <1>4, <1>5, <1>6 DEF BufferAccounting
<1>8. \A i \in DOMAIN items' : items'[i].n = produced' - Len(items') + i - 1
  <2>. SUFFICES ASSUME NEW i \in 1 .. Len(items')
                PROVE  items'[i].n = produced' - Len(items') + i - 1
    BY <1>4, LenProperties
  <2>1. CASE i = Len(items')
    BY <2>1, <1>1, <1>2, <1>3, <1>4, <1>6
  <2>2. CASE i # Len(items')
    <3>. DEFINE j == IF IsFull THEN i + 1 ELSE i
    <3>1. i \in 1 .. Len(items') - 1 /\ j \in 1 .. Len(items)
      BY <2>2, <1>4, <1>6
    <3>2. items'[i] = items[j]
      BY <3>1, <1>4
    <3>3. items[j].n = produced - Len(items) + j - 1
      BY <3>1, <1>2, LenProperties DEF BufferAccounting
    <3>4. j \in Int /\ Len(items') = Len(items) + 1 + i - j
      <4>1. CASE IsFull
        BY <4>1, <1>4, <1>6
      <4>2. CASE ~IsFull
        BY <4>2, <1>4, <1>6
      <4>. QED
        BY <4>1, <4>2
    <3>. HIDE DEF j
    <3>. QED
      BY ONLY <3>2, <3>3, <3>4, <1>2, <1>3, <1>6
  <2>. QED
    BY <2>1, <2>2
<1>9. droppedTotal' \in 0 .. MaxRecords /\ produced' \in 0 .. MaxRecords
  BY <1>1, <1>2, <1>3, <1>5, <1>6, <1>7
<1>. QED
  BY <1>4, <1>7, <1>8, <1>9 DEF BufferTypes, BufferAccounting

\* A pop takes the oldest of the numbered records.
LEMMA PopAccounting ==
    ASSUME BufferTypes, BufferAccounting, HistoryTypes,
           NEW s \in Senders, PopRecord(s)
    PROVE  /\ Head(items) \in Records
           /\ Head(items).n = produced - Len(items)
           /\ BufferTypes'
           /\ BufferAccounting'
           /\ popped' \in Seq(Records)
<1>. USE SensorProducerAssumption, CapacityAssumption
<1>1. /\ items # <<>> /\ items' = Tail(items) /\ droppedTotal' = droppedTotal
      /\ popped' = Append(popped, Head(items)) /\ produced' = produced
  BY DEF PopRecord, Pop
<1>2. /\ items \in Seq(Records) /\ Len(items) \in Nat \ {0}
      /\ popped \in Seq(Records) /\ Len(popped) \in Nat
      /\ produced \in Nat /\ droppedTotal \in Nat
  BY <1>1, EmptySeq, LenProperties DEF BufferTypes, HistoryTypes
<1>3. /\ Head(items) \in Records /\ Head(items) = items[1]
      /\ Tail(items) \in Seq(Records)
      /\ Len(Tail(items)) = Len(items) - 1
      /\ \A i \in 1 .. Len(items) - 1 : Tail(items)[i] = items[i + 1]
  BY <1>1, <1>2, HeadTailProperties
<1>4. popped' \in Seq(Records) /\ Len(popped') = Len(popped) + 1
  BY <1>1, <1>2, <1>3, AppendProperties
<1>5. \A i \in 1 .. Len(items) : items[i].n = produced - Len(items) + i - 1
  BY <1>2, LenProperties DEF BufferAccounting
<1>6. \A i \in DOMAIN items' : items'[i].n = produced' - Len(items') + i - 1
  <2>. SUFFICES ASSUME NEW i \in 1 .. Len(items) - 1
                PROVE  items'[i].n = produced' - Len(items') + i - 1
    BY <1>1, <1>3, LenProperties
  <2>1. i + 1 \in 1 .. Len(items) /\ items'[i] = items[i + 1]
    BY <1>1, <1>2, <1>3
  <2>2. items[i + 1].n = produced - Len(items) + (i + 1) - 1
    BY <2>1, <1>5
  <2>3. Len(items') = Len(items) - 1
    BY <1>1, <1>3
  <2>. QED
    BY <2>1, <2>2, <2>3, <1>1, <1>2
<1>7. produced' = droppedTotal' + Len(popped') + Len(items')
  BY <1>1, <1>2, <1>3, <1>4 DEF BufferAccounting
<1>8. BufferTypes'
  BY <1>1, <1>2, <1>3 DEF BufferTypes
<1>. QED
  BY <1>2, <1>3, <1>4, <1>5, <1>6, <1>7, <1>8 DEF BufferAccounting

\* The generator makes a record of the number it is at.
LEMMA GenerateMakes ==
    ASSUME BufferTypes, ProducerTypes, HistoryTypes, Generate
    PROVE  /\ made' \in Records
           /\ made'.n = produced
           /\ made'.drops = droppedTotal
           /\ nextSeq' \in 0 .. Wrap - 1
<1>. USE SensorProducerAssumption
<1>1. \A a \in Nat : a % Wrap \in 0 .. Wrap - 1
  OBVIOUS
<1>2. made' = [n |-> produced, drops |-> droppedTotal, seq |-> nextSeq,
               dropped |-> droppedTotal % Wrap]
  BY DEF Generate, Record
<1>3. produced \in 0 .. MaxRecords - 1 /\ droppedTotal \in 0 .. MaxRecords
      /\ nextSeq \in 0 .. Wrap - 1
  BY DEF BufferTypes, ProducerTypes, HistoryTypes, Generate
<1>4. droppedTotal % Wrap \in 0 .. Wrap - 1 /\ nextSeq' \in 0 .. Wrap - 1
  BY <1>1, <1>3 DEF Generate
<1>. QED
  BY <1>2, <1>3, <1>4 DEF Records

\* truncate() leaves a file of records, whatever the position.
LEMMA TruncatedType ==
    ASSUME CaptureTypes, NEW p \in Int
    PROVE  Truncated(p) \in Seq(Records \cup {Torn})
<1>. DEFINE S == Records \cup {Torn}
<1>1. capture \in Seq(S) /\ Len(capture) \in Nat
  BY LenProperties DEF CaptureTypes
<1>2. CASE p <= Len(capture)
  <2>1. \A i \in 1 .. p : capture[i] \in S
    BY <1>1, <1>2, ElementOfSeq
  <2>2. SubSeq(capture, 1, p) \in Seq(S)
    BY <2>1, SubSeqProperties
  <2>. QED
    BY <1>2, <2>2 DEF Truncated
<1>3. CASE ~(p <= Len(capture))
  <2>1. [i \in 1 .. p - Len(capture) |-> Torn] \in Seq(S)
    <3>1. p - Len(capture) \in Nat
      BY <1>1, <1>3
    <3>. QED
      BY <3>1
  <2>2. capture \o [i \in 1 .. p - Len(capture) |-> Torn] \in Seq(S)
    BY <1>1, <2>1, ConcatProperties
  <2>. QED
    BY <1>3, <2>2 DEF Truncated
<1>. QED
  BY <1>2, <1>3

\* The inductive invariant holds at the start.
LEMMA InitIInv == Init => IInv
<1>. SUFFICES ASSUME Init PROVE IInv
  OBVIOUS
<1>. USE CapacityAssumption, SensorProducerAssumption
<1>1. /\ <<>> \in Seq(Records)
      /\ <<>> \in Seq(Records \cup {Torn})
      /\ Len(<<>>) = 0
  BY EmptySeq
<1>2. BufferTypes /\ CaptureTypes /\ HistoryTypes
  BY <1>1 DEF Init, BufferInit, BufferTypes, CaptureTypes, HistoryTypes
<1>3. ProducerTypes /\ OwnerTypes
  BY DEF Init, ProducerTypes, OwnerTypes
<1>4. SenderTypes
  BY DEF Init, SenderTypes, SenderStates
<1>5. BufferAccounting
  BY DEF Init, BufferInit, BufferAccounting
<1>6. ProducerHolds /\ SendersHold /\ RunningHasSender
  BY DEF Init, ProducerHolds, SendersHold, RunningHasSender, Holding
<1>7. FlagTypes
  BY DEF Init, FlagTypes
<1>. QED
  BY <1>1, <1>2, <1>3, <1>4, <1>5, <1>6, <1>7 DEF IInv, DataInv

\* Every action of every thread keeps the inductive invariant, which is what
\* makes the types and the accounting hold over all interleavings.
LEMMA NextIInv == IInv /\ [Next]_vars => IInv'
<1>. SUFFICES ASSUME IInv, [Next]_vars PROVE IInv'
  OBVIOUS
<1>. USE CapacityAssumption, SensorProducerAssumption
         DEF IInv, DataInv, BufferTypes, ProducerTypes, SenderTypes, OwnerTypes,
             CaptureTypes, HistoryTypes, BufferAccounting, ProducerHolds,
             SendersHold, RunningHasSender, Holding, Senders, SenderStates,
             bufferVars, producerVars, senderVars, ownerVars, captureVars,
             historyVars
<1>1. ASSUME Start PROVE IInv'
  <2>1. BufferTypes' /\ BufferAccounting'
    BY <1>1 DEF Start
  <2>2. ProducerTypes'
    BY <1>1 DEF Start, Records
  <2>3. SenderTypes'
    BY <1>1 DEF Start, Records
  <2>4. OwnerTypes'
    BY <1>1 DEF Start, Records
  <2>5. CaptureTypes'
    BY <1>1 DEF Start, Records
  <2>6. HistoryTypes'
    BY <1>1 DEF Start, Records
  <2>7. ProducerHolds'
    BY <1>1 DEF Start, Records
  <2>8. SendersHold'
    BY <1>1 DEF Start, Records
  <2>9. RunningHasSender'
    BY <1>1 DEF Start, Records
  <2>10. FlagTypes'
    BY <1>1 DEF FlagTypes, Start
  <2>. QED
    BY <2>1, <2>2, <2>3, <2>4, <2>5, <2>6, <2>7, <2>8, <2>9, <2>10
<1>2. ASSUME StartFails PROVE IInv'
  <2>1. DataInv'
    BY <1>2 DEF StartFails
  <2>2. FlagTypes'
    BY <1>2 DEF FlagTypes, StartFails
  <2>. QED
    BY <2>1, <2>2
<1>3. ASSUME StopBegin PROVE IInv'
  <2>1. DataInv'
    BY <1>3 DEF StopBegin
  <2>2. FlagTypes'
    BY <1>3 DEF FlagTypes, StopBegin
  <2>. QED
    BY <2>1, <2>2
<1>4. ASSUME JoinProducer PROVE IInv'
  <2>1. DataInv'
    BY <1>4 DEF JoinProducer
  <2>2. FlagTypes'
    BY <1>4 DEF FlagTypes, JoinProducer
  <2>. QED
    BY <2>1, <2>2
<1>5. ASSUME JoinSender PROVE IInv'
  <2>1. DataInv'
    BY <1>5 DEF JoinSender
  <2>2. FlagTypes'
    BY <1>5 DEF FlagTypes, JoinSender
  <2>. QED
    BY <2>1, <2>2
<1>6. ASSUME StopClose PROVE IInv'
  <2>1. DataInv'
    BY <1>6 DEF StopClose, DieOfClosedFile, EndStop
  <2>2. FlagTypes'
    BY <1>6 DEF FlagTypes, StopClose, DieOfClosedFile, EndStop
  <2>. QED
    BY <2>1, <2>2
<1>23. ASSUME StopCheck \/ StopRaise PROVE IInv'
  <2>1. DataInv'
    <3>1. CASE StopCheck
      BY SMTT(30), <3>1 DEF StopCheck, EndStop
    <3>2. CASE StopRaise
      BY <3>2 DEF StopRaise, EndStop
    <3>. QED
      BY <1>23, <3>1, <3>2
  <2>2. FlagTypes'
    BY <1>23 DEF FlagTypes, StopCheck, StopRaise, EndStop
  <2>. QED
    BY <2>1, <2>2
<1>7. ASSUME ProducerExit PROVE IInv'
  <2>1. DataInv'
    BY <1>7 DEF ProducerExit
  <2>2. FlagTypes'
    BY <1>7 DEF FlagTypes, ProducerExit
  <2>. QED
    BY <2>1, <2>2
<1>8. ASSUME Generate PROVE IInv'
  <2>1. BufferTypes' /\ SenderTypes' /\ OwnerTypes' /\ CaptureTypes' /\ HistoryTypes' /\ BufferAccounting' /\ SendersHold' /\ RunningHasSender'
    BY <1>8 DEF Generate, Record
  <2>2. made' \in Records /\ made'.n = produced /\ nextSeq' \in 0 .. Wrap - 1
    BY <1>8, GenerateMakes
  <2>3. ProducerTypes' /\ ProducerHolds'
    BY <1>8, <2>2 DEF Generate
  <2>4. FlagTypes'
    BY <1>8 DEF FlagTypes, Generate, Record
  <2>. QED
    BY <2>1, <2>2, <2>3, <2>4
<1>9. ASSUME PushRecord PROVE IInv'
  <2>1. SenderTypes' /\ OwnerTypes' /\ CaptureTypes' /\ SendersHold' /\ RunningHasSender'
    BY <1>9 DEF PushRecord
  <2>2. BufferTypes' /\ BufferAccounting' /\ produced' \in 0 .. MaxRecords
    BY <1>9, PushAccounting
  <2>3. ProducerTypes' /\ ProducerHolds' /\ HistoryTypes'
    BY <1>9, <2>2 DEF PushRecord
  <2>4. FlagTypes'
    BY <1>9 DEF FlagTypes, PushRecord
  <2>. QED
    BY <2>1, <2>2, <2>3, <2>4
<1>10. ASSUME NEW s \in Senders, SendLoop(s) PROVE IInv'
  <2>1. DataInv'
    BY <1>10 DEF SendLoop, GoOn
  <2>2. FlagTypes'
    BY <1>10 DEF FlagTypes, SendLoop, GoOn
  <2>. QED
    BY <2>1, <2>2
<1>11. ASSUME NEW s \in Senders, ConnectOk(s) PROVE IInv'
  <2>1. DataInv'
    BY <1>11 DEF ConnectOk, GoOn
  <2>2. FlagTypes'
    BY <1>11 DEF FlagTypes, ConnectOk, GoOn
  <2>. QED
    BY <2>1, <2>2
<1>12. ASSUME NEW s \in Senders, ConnectFails(s) PROVE IInv'
  <2>1. DataInv'
    BY <1>12 DEF ConnectFails, GoOn
  <2>2. FlagTypes'
    BY <1>12 DEF FlagTypes, ConnectFails, GoOn
  <2>. QED
    BY <2>1, <2>2
<1>13. ASSUME NEW s \in Senders, StopStreaming(s) PROVE IInv'
  <2>1. DataInv'
    BY <1>13 DEF StopStreaming, GoOn
  <2>2. FlagTypes'
    BY <1>13 DEF FlagTypes, StopStreaming, GoOn
  <2>. QED
    BY <2>1, <2>2
<1>14. ASSUME NEW s \in Senders, PopRecord(s) PROVE IInv'
  <2>1. ProducerTypes' /\ OwnerTypes' /\ CaptureTypes' /\ ProducerHolds' /\ RunningHasSender'
    BY <1>14 DEF PopRecord
  <2>2. /\ Head(items) \in Records /\ popped' \in Seq(Records)
        /\ BufferTypes' /\ BufferAccounting'
    BY <1>14, PopAccounting
  <2>3. SenderTypes' /\ SendersHold' /\ HistoryTypes'
    BY <1>14, <2>2 DEF PopRecord
  <2>4. FlagTypes'
    BY <1>14 DEF FlagTypes, PopRecord
  <2>. QED
    BY <2>1, <2>2, <2>3, <2>4
<1>15. ASSUME NEW s \in Senders, CapturePosition(s) PROVE IInv'
  <2>1. BufferTypes' /\ ProducerTypes' /\ OwnerTypes' /\ HistoryTypes' /\ BufferAccounting' /\ ProducerHolds' /\ RunningHasSender'
    BY <1>15 DEF CapturePosition, CaptureFails
  <2>2. SenderTypes'
    <3>1. Len(capture) \in Nat
      BY LenProperties
    <3>. QED
      BY ZenonT(60), <1>15, <3>1 DEF CapturePosition, GoOn
  <2>3. CaptureTypes'
    BY <1>15 DEF CapturePosition, CaptureFails, GoOn, Records
  <2>4. SendersHold'
    BY <1>15 DEF CapturePosition, CaptureFails, GoOn, Records
  <2>5. FlagTypes'
    BY <1>15 DEF FlagTypes, CapturePosition, CaptureFails
  <2>. QED
    BY <2>1, <2>2, <2>3, <2>4, <2>5
<1>16. ASSUME NEW s \in Senders, RecheckCapture(s) PROVE IInv'
  <2>1. DataInv'
    <3>1. CASE captureOpen /\ LetGo(s, "loop")
      BY SMTT(30), <1>16, <3>1 DEF RecheckCapture, LetGo
    <3>2. CASE ~captureOpen /\ GoOn(s, "write")
      BY <1>16, <3>2 DEF RecheckCapture, GoOn
    <3>. QED
      BY <1>16, <3>1, <3>2 DEF RecheckCapture
  <2>2. FlagTypes'
    BY <1>16 DEF FlagTypes, RecheckCapture, GoOn, LetGo
  <2>. QED
    BY <2>1, <2>2
<1>17. ASSUME NEW s \in Senders, WriteCapture(s) PROVE IInv'
  <2>1. BufferTypes' /\ ProducerTypes' /\ OwnerTypes' /\ HistoryTypes' /\ BufferAccounting' /\ ProducerHolds' /\ RunningHasSender'
    BY <1>17 DEF WriteCapture, GoOn, LetGo, CaptureFails
  <2>2. SenderTypes'
    BY ZenonT(30), <1>17 DEF WriteCapture, GoOn, LetGo, CaptureFails, Records
  <2>3. CaptureTypes'
    <3>1. payload[s] \in Records \cup {Torn} /\ Torn \in Records \cup {Torn}
      BY <1>17 DEF WriteCapture
    <3>2. /\ Append(capture, payload[s]) \in Seq(Records \cup {Torn})
          /\ Append(capture, Torn) \in Seq(Records \cup {Torn})
      BY <3>1, AppendProperties
    <3>. QED
      BY <1>17, <3>2 DEF WriteCapture, CaptureFails
  <2>4. SendersHold'
    BY ZenonT(30), <1>17 DEF WriteCapture, GoOn, LetGo, CaptureFails, Records
  <2>5. FlagTypes'
    BY <1>17 DEF FlagTypes, WriteCapture, GoOn, LetGo, CaptureFails
  <2>. QED
    BY <2>1, <2>2, <2>3, <2>4, <2>5
<1>18. ASSUME NEW s \in Senders, SendOk(s) PROVE IInv'
  <2>1. BufferTypes' /\ ProducerTypes' /\ OwnerTypes' /\ CaptureTypes' /\ BufferAccounting' /\ ProducerHolds' /\ RunningHasSender'
    BY <1>18 DEF SendOk, LetGo
  <2>2. SenderTypes'
    BY <1>18 DEF SendOk, LetGo, Records
  <2>3. HistoryTypes'
    BY <1>18 DEF SendOk, LetGo, Records
  <2>4. SendersHold'
    BY <1>18 DEF SendOk, LetGo, Records
  <2>5. FlagTypes'
    BY <1>18 DEF FlagTypes, SendOk, LetGo
  <2>. QED
    BY <2>1, <2>2, <2>3, <2>4, <2>5
<1>19. ASSUME NEW s \in Senders, SendFails(s) PROVE IInv'
  <2>1. DataInv'
    <3>1. CASE position[s] # NoPosition /\ GoOn(s, "rollback")
      BY <1>19, <3>1 DEF SendFails, GoOn
    <3>2. CASE position[s] = NoPosition /\ LetGo(s, "loop")
      BY <1>19, <3>2 DEF SendFails, LetGo
    <3>. QED
      BY <1>19, <3>1, <3>2 DEF SendFails
  <2>2. FlagTypes'
    BY <1>19 DEF FlagTypes, SendFails, GoOn, LetGo
  <2>. QED
    BY <2>1, <2>2
<1>20. ASSUME NEW s \in Senders, Rollback(s) PROVE IInv'
  <2>1. BufferTypes' /\ ProducerTypes' /\ OwnerTypes' /\ HistoryTypes' /\ BufferAccounting' /\ ProducerHolds' /\ RunningHasSender'
    BY <1>20 DEF Rollback, LetGo, CaptureFails
  <2>2. SenderTypes'
    BY <1>20 DEF Rollback, LetGo, CaptureFails, Records
  <2>3. CaptureTypes'
    <3>1. position[s] \in Int
      <4>1. position[s] \in Nat \cup {NoPosition}
        BY Zenon
      <4>. QED
        BY <4>1 DEF NoPosition
    <3>2. Truncated(position[s]) \in Seq(Records \cup {Torn})
      BY <3>1, TruncatedType
    <3>. QED
      BY <1>20, <3>2 DEF Rollback, CaptureFails
  <2>4. SendersHold'
    BY ZenonT(60), <1>20 DEF Rollback, LetGo, CaptureFails, Records
  <2>5. FlagTypes'
    BY <1>20 DEF FlagTypes, Rollback, LetGo, CaptureFails
  <2>. QED
    BY <2>1, <2>2, <2>3, <2>4, <2>5
<1>24. ASSUME NEW s \in Senders, StoreError(s) \/ SetStop(s) PROVE IInv'
  <2>1. DataInv'
    <3>1. CASE StoreError(s)
      BY <3>1 DEF StoreError, GoOn
    <3>2. CASE SetStop(s)
      BY <3>2 DEF SetStop, GoOn
    <3>. QED
      BY <1>24, <3>1, <3>2
  <2>2. FlagTypes'
    BY <1>24 DEF FlagTypes, StoreError, SetStop, GoOn
  <2>. QED
    BY <2>1, <2>2
<1>21. CASE UNCHANGED vars
  <2>1. DataInv'
    BY SMTT(30), <1>21 DEF vars
  <2>2. FlagTypes'
    BY <1>21 DEF vars, FlagTypes
  <2>. QED
    BY <2>1, <2>2
<1>22. CASE Next
  <2>1. CASE Owner
    BY <2>1, <1>1, <1>2, <1>3, <1>4, <1>5, <1>6, <1>23 DEF Owner, StopContinues
  <2>2. CASE Producer
    BY <2>2, <1>7, <1>8, <1>9 DEF Producer
  <2>3. ASSUME NEW s \in Senders, Sender(s) PROVE IInv'
    BY <2>3, <1>10, <1>11, <1>12, <1>13, <1>14, <1>15, <1>16, <1>17,
       <1>18, <1>19, <1>20, <1>24 DEF Sender
  <2>. QED
    BY <1>22, <2>1, <2>2, <2>3 DEF Next
<1>. QED
  BY <1>21, <1>22

\* Every variable keeps its type and the buffer its bound, whatever the
\* interleaving of the threads, the failures and the restarts.
THEOREM TypeCorrect == Spec => []TypeOK
<1>1. IInv => TypeOK
  BY DEF IInv, DataInv, TypeOK
<1>. QED
  BY <1>1, InitIInv, NextIInv, PTL DEF Spec

\* The pending records are the newest, without a hole, and dropped_total counts
\* exactly the records that were overtaken (RingBuffer.push and pop).
THEOREM BufferAccounted == Spec => []BufferAccounting
<1>1. IInv => BufferAccounting
  BY DEF IInv, DataInv
<1>. QED
  BY <1>1, InitIInv, NextIInv, PTL DEF Spec
-------------------------------------------------------------------------------
(***************************************************************************)
(* Which threads are alive.  The producer thread lives until it is joined; *)
(* a sender is the one of this session until stop() has joined it, or it   *)
(* was given up on; and as long as no start() has met an old sender, the   *)
(* only one alive is the last.                                             *)
(***************************************************************************)
ControlInv ==
    /\ ppc # "off" => running \/ mpc = "joinProducer"
    /\ running => mpc = "idle"
    /\ mpc \in {"joinProducer", "joinSender"} => joining = starts
    /\ \A s \in Senders : spc[s] # "off" =>
            \/ s \in abandoned
            \/ s = starts /\ (running \/ mpc \in {"joinProducer", "joinSender"})
    /\ ~overlapped => \A s \in Senders : spc[s] # "off" => s = starts

\* No thread runs before the first start().
LEMMA InitControlInv == Init => ControlInv
BY DEF Init, ControlInv

\* No action lets stop() end with a thread alive whose join did not expire,
\* or lets two senders run unless a start() found one alive.
LEMMA NextControlInv == IInv /\ ControlInv /\ [Next]_vars => ControlInv'
<1>. SUFFICES ASSUME IInv, ControlInv, [Next]_vars PROVE ControlInv'
  OBVIOUS
<1>. USE DEF IInv, DataInv, SenderTypes, OwnerTypes, RunningHasSender,
             ControlInv, Senders, SenderStates, CaptureCalls,
             producerVars, senderVars, ownerVars, historyVars
<1>1. ASSUME Start PROVE ControlInv'
  BY <1>1 DEF Start
<1>2. ASSUME StartFails PROVE ControlInv'
  BY <1>2 DEF StartFails
<1>3. ASSUME StopBegin PROVE ControlInv'
  BY <1>3 DEF StopBegin
<1>4. ASSUME JoinProducer PROVE ControlInv'
  BY <1>4 DEF JoinProducer
<1>5. ASSUME JoinSender PROVE ControlInv'
  BY <1>5 DEF JoinSender
<1>6. ASSUME StopClose PROVE ControlInv'
  BY <1>6 DEF StopClose, DieOfClosedFile, EndStop
<1>23. ASSUME StopCheck \/ StopRaise PROVE ControlInv'
  <2>1. CASE StopCheck
    BY <2>1 DEF StopCheck, EndStop
  <2>2. CASE StopRaise
    BY <2>2 DEF StopRaise, EndStop
  <2>. QED
    BY <1>23, <2>1, <2>2
<1>7. ASSUME ProducerExit PROVE ControlInv'
  BY <1>7 DEF ProducerExit
<1>8. ASSUME Generate PROVE ControlInv'
  BY <1>8 DEF Generate
<1>9. ASSUME PushRecord PROVE ControlInv'
  BY <1>9 DEF PushRecord
<1>10. ASSUME NEW s \in Senders, SendLoop(s) PROVE ControlInv'
  BY <1>10 DEF SendLoop, GoOn
<1>11. ASSUME NEW s \in Senders, ConnectOk(s) PROVE ControlInv'
  BY <1>11 DEF ConnectOk, GoOn
<1>12. ASSUME NEW s \in Senders, ConnectFails(s) PROVE ControlInv'
  BY <1>12 DEF ConnectFails, GoOn
<1>13. ASSUME NEW s \in Senders, StopStreaming(s) PROVE ControlInv'
  BY <1>13 DEF StopStreaming, GoOn
<1>14. ASSUME NEW s \in Senders, PopRecord(s) PROVE ControlInv'
  BY <1>14 DEF PopRecord
<1>15. ASSUME NEW s \in Senders, CapturePosition(s) PROVE ControlInv'
  BY <1>15 DEF CapturePosition, GoOn
<1>16. ASSUME NEW s \in Senders, RecheckCapture(s) PROVE ControlInv'
  BY <1>16 DEF RecheckCapture, GoOn, LetGo
<1>17. ASSUME NEW s \in Senders, WriteCapture(s) PROVE ControlInv'
  BY <1>17 DEF WriteCapture, GoOn, LetGo
<1>18. ASSUME NEW s \in Senders, SendOk(s) PROVE ControlInv'
  BY <1>18 DEF SendOk, LetGo
<1>19. ASSUME NEW s \in Senders, SendFails(s) PROVE ControlInv'
  BY <1>19 DEF SendFails, GoOn, LetGo
<1>20. ASSUME NEW s \in Senders, Rollback(s) PROVE ControlInv'
  BY <1>20 DEF Rollback, LetGo
<1>24. ASSUME NEW s \in Senders, StoreError(s) \/ SetStop(s) PROVE ControlInv'
  <2>1. CASE StoreError(s)
    BY <2>1 DEF StoreError, GoOn
  <2>2. CASE SetStop(s)
    BY <2>2 DEF SetStop, GoOn
  <2>. QED
    BY <1>24, <2>1, <2>2
<1>21. CASE UNCHANGED vars
  BY <1>21 DEF vars
<1>22. CASE Next
  <2>1. CASE Owner
    BY <2>1, <1>1, <1>2, <1>3, <1>4, <1>5, <1>6, <1>23 DEF Owner, StopContinues
  <2>2. CASE Producer
    BY <2>2, <1>7, <1>8, <1>9 DEF Producer
  <2>3. ASSUME NEW s \in Senders, Sender(s) PROVE ControlInv'
    BY <2>3, <1>10, <1>11, <1>12, <1>13, <1>14, <1>15, <1>16, <1>17,
       <1>18, <1>19, <1>20, <1>24 DEF Sender
  <2>. QED
    BY <1>22, <2>1, <2>2, <2>3 DEF Next
<1>. QED
  BY <1>21, <1>22

\* When stop() has ended, so have the threads of the session, except a sender
\* whose join expired.
THEOREM StopHasJoined == Spec => []StopJoins
<1>1. ControlInv => StopJoins
  BY DEF ControlInv, StopJoins
<1>. QED
  BY <1>1, InitIInv, NextIInv, InitControlInv, NextControlInv, PTL DEF Spec
-------------------------------------------------------------------------------
(***************************************************************************)
(* Only three actions concern the generator, the buffer and the pops.      *)
(***************************************************************************)
GeneratorVars == <<items, droppedTotal, produced, popped, nextSeq, made>>

\* The buffer, the generator and the pops change in three ways only: a record
\* is generated, pushed, or popped by a sender.
LEMMA GeneratorSteps ==
    ASSUME ControlInv, [Next]_vars
    PROVE  \/ Generate
           \/ PushRecord
           \/ \E s \in Senders : PopRecord(s)
           \/ UNCHANGED GeneratorVars /\ (ppc' = "push" <=> ppc = "push")
<1>. USE DEF GeneratorVars, bufferVars, producerVars, historyVars
<1>1. CASE Owner
  <2>1. CASE Start
    BY <2>1 DEF Start, ControlInv
  <2>2. CASE StartFails \/ StopBegin \/ StopContinues
    BY <2>2 DEF StartFails, StopBegin, StopContinues, JoinProducer, JoinSender,
       StopClose, StopCheck, StopRaise
  <2>. QED
    BY <1>1, <2>1, <2>2 DEF Owner
<1>2. CASE Producer
  BY <1>2 DEF Producer, ProducerExit
<1>3. ASSUME NEW s \in Senders, Sender(s)
      PROVE  \/ PopRecord(s)
             \/ UNCHANGED GeneratorVars /\ (ppc' = "push" <=> ppc = "push")
  <2>1. CASE SendLoop(s) \/ ConnectOk(s) \/ ConnectFails(s) \/ StopStreaming(s)
    BY <2>1 DEF SendLoop, ConnectOk, ConnectFails, StopStreaming
  <2>2. CASE CapturePosition(s) \/ RecheckCapture(s) \/ WriteCapture(s)
    BY <2>2 DEF CapturePosition, RecheckCapture, WriteCapture
  <2>3. CASE SendOk(s) \/ SendFails(s) \/ Rollback(s) \/ StoreError(s) \/ SetStop(s)
    BY <2>3 DEF SendOk, SendFails, Rollback, StoreError, SetStop
  <2>. QED
    BY <1>3, <2>1, <2>2, <2>3 DEF Sender
<1>4. CASE UNCHANGED vars
  BY <1>4 DEF vars
<1>. QED
  BY <1>1, <1>2, <1>3, <1>4 DEF Next

\* The first state is one of the abstract queue.
LEMMA FifoInit == Init => Fifo!Init
<1>. SUFFICES ASSUME Init PROVE Fifo!Init
  OBVIOUS
<1>1. items = <<>> /\ popped = <<>> /\ produced = 0 /\ Len(<<>>) = 0
  BY EmptySeq DEF Init, BufferInit
<1>2. [i \in DOMAIN popped |-> popped[i].n] = <<>>
  BY <1>1
<1>3. produced - Len(items) = 0
  <2>1. produced = 0 /\ Len(items) = 0
    BY <1>1, Zenon
  <2>. QED
    BY <2>1
<1>. QED
  BY <1>1, <1>2, <1>3 DEF Fifo!Init

\* Every step is a step of the abstract queue, or does not concern it.
LEMMA FifoStep == IInv /\ ControlInv /\ [Next]_vars => [Fifo!Next]_(Fifo!vars)
<1>. SUFFICES ASSUME IInv, ControlInv, [Next]_vars
              PROVE  [Fifo!Next]_(Fifo!vars)
  OBVIOUS
<1>. USE CapacityAssumption, SensorProducerAssumption
<1>1. /\ items \in Seq(Records) /\ Len(items) \in Nat /\ Len(items) <= Capacity
      /\ popped \in Seq(Records) /\ Len(popped) \in Nat /\ produced \in Nat
  BY LenProperties DEF IInv, DataInv, BufferTypes, HistoryTypes
<1>2. CASE PushRecord
  <2>1. made \in Records /\ Push(made) /\ produced' = produced + 1
        /\ popped' = popped
    BY <1>2 DEF PushRecord, IInv, DataInv, ProducerHolds
  <2>2. Len(items') = IF IsFull THEN Len(items) ELSE Len(items) + 1
    BY <1>1, <2>1, PushItems
  <2>. QED
    BY <1>1, <2>1, <2>2 DEF IsFull, Fifo!Next, Fifo!Offer
<1>3. ASSUME NEW s \in Senders, PopRecord(s) PROVE Fifo!Take
  <2>1. /\ Head(items) \in Records
        /\ Head(items).n = produced - Len(items)
    BY <1>3, PopAccounting DEF IInv, DataInv
  <2>2. /\ items # <<>> /\ items' = Tail(items) /\ produced' = produced
        /\ popped' = Append(popped, Head(items))
    BY <1>3 DEF PopRecord, Pop
  <2>3. Len(items') = Len(items) - 1 /\ Len(items) > 0
    BY <1>1, <2>2, HeadTailProperties, EmptySeq
  <2>4. [i \in DOMAIN popped' |-> popped'[i].n]
            = Append([i \in DOMAIN popped |-> popped[i].n], Head(items).n)
    <3>. DEFINE old == [i \in DOMAIN popped |-> popped[i].n]
                new == [i \in DOMAIN popped' |-> popped'[i].n]
    <3>1. /\ popped' \in Seq(Records)
          /\ Len(popped') = Len(popped) + 1
          /\ \A i \in 1 .. Len(popped) : popped'[i] = popped[i]
          /\ popped'[Len(popped) + 1] = Head(items)
      BY <1>1, <2>1, <2>2, AppendProperties
    <3>2. DOMAIN popped = 1 .. Len(popped) /\ DOMAIN popped' = 1 .. Len(popped) + 1
      BY <1>1, <3>1, LenProperties
    <3>3. old \in Seq(Int) /\ Len(old) = Len(popped)
      <4>1. \A i \in 1 .. Len(popped) : popped[i].n \in Int
        BY <1>1, ElementOfSeq, RecordFields
      <4>2. old = [i \in 1 .. Len(popped) |-> popped[i].n]
        BY <3>2
      <4>. QED
        BY <1>1, <4>1, <4>2
    <3>4. new \in Seq(Int) /\ Len(new) = Len(popped) + 1
      <4>1. \A i \in 1 .. Len(popped) + 1 : popped'[i].n \in Int
        BY <3>1, ElementOfSeq, RecordFields
      <4>2. new = [i \in 1 .. Len(popped) + 1 |-> popped'[i].n]
        BY <3>2
      <4>. QED
        BY <1>1, <4>1, <4>2
    <3>5. Head(items).n \in Int
      BY <2>1 DEF Records
    <3>6. /\ Append(old, Head(items).n) \in Seq(Int)
          /\ Len(Append(old, Head(items).n)) = Len(popped) + 1
          /\ \A i \in 1 .. Len(popped) : Append(old, Head(items).n)[i] = old[i]
          /\ Append(old, Head(items).n)[Len(popped) + 1] = Head(items).n
      BY <3>3, <3>5, AppendProperties
    <3>7. \A i \in 1 .. Len(new) : new[i] = Append(old, Head(items).n)[i]
      BY <1>1, <3>1, <3>2, <3>4, <3>6
    <3>. QED
      BY <3>4, <3>6, <3>7, SeqEqual
  <2>. QED
    BY <1>1, <2>1, <2>2, <2>3, <2>4 DEF Fifo!Take
<1>4. CASE Generate
  BY <1>4 DEF Generate, Fifo!vars, bufferVars, historyVars
<1>5. CASE UNCHANGED GeneratorVars
  BY <1>5 DEF GeneratorVars, Fifo!vars
<1>. QED
  BY <1>2, <1>3, <1>4, <1>5, GeneratorSteps DEF Fifo!Next

\* The generator, the ring buffer and the senders' pops implement the abstract
\* queue: whatever is lost is lost by being overtaken, oldest first.
THEOREM BufferIsLossyFifo == Spec => ImplementsLossyFifo
BY FifoInit, FifoStep, InitIInv, NextIInv, InitControlInv, NextControlInv, PTL
   DEF Spec, ImplementsLossyFifo, Fifo!Spec
-------------------------------------------------------------------------------
(***************************************************************************)
(* What the drop counter of a record says.  The counter is read before the *)
(* record is pushed: by then r.drops records were dropped, and every push  *)
(* from r's own to the latest has dropped one more at most.                *)
(***************************************************************************)
OnWire(r) ==
    /\ r.seq = (InitialSeq + r.n) % Wrap
    /\ r.dropped = r.drops % Wrap

Generated == IF ppc = "push" THEN produced + 1 ELSE produced

LagInv ==
    /\ nextSeq = (InitialSeq + Generated) % Wrap
    /\ ppc = "push" => OnWire(made) /\ made.drops = droppedTotal
    /\ \A i \in DOMAIN items :
            /\ OnWire(items[i])
            /\ items[i].drops <= droppedTotal
            /\ droppedTotal <= items[i].drops + Len(items) - i + 1
    /\ \A i \in DOMAIN popped :
            /\ OnWire(popped[i])
            /\ popped[i].drops <= popped[i].n - (i - 1)
            /\ popped[i].n - (i - 1) <= popped[i].drops + Capacity

\* Division with remainder, which the prover knows, and that it is unique.
LEMMA ModDef ==
    ASSUME NEW W \in Nat \ {0}, NEW a \in Int
    PROVE  /\ a = W * (a \div W) + (a % W)
           /\ a % W \in 0 .. W - 1
           /\ a \div W \in Int
OBVIOUS

\* The remainder of a division is the only number below the divisor that
\* differs from the dividend by a multiple of it.
LEMMA ModUnique ==
    ASSUME NEW W \in Nat \ {0}, NEW q \in Int, NEW r \in 0 .. W - 1
    PROVE  (W * q + r) % W = r
<1>. DEFINE a == W * q + r
            p == a \div W
            m == a % W
<1>1. a \in Int /\ p \in Int /\ m \in 0 .. W - 1 /\ a = W * p + m
  BY ModDef
<1>2. W * q + r = W * p + m
  BY <1>1
<1>. HIDE DEF a, p, m
<1>3. CASE p > q
  <2>1. W * p >= W * (q + 1) /\ W * (q + 1) = W * q + W
    BY <1>1, <1>3
  <2>. QED
    BY <1>1, <1>2, <2>1
<1>4. CASE p < q
  <2>1. W * q >= W * (p + 1) /\ W * (p + 1) = W * p + W
    BY <1>1, <1>4
  <2>. QED
    BY <1>1, <1>2, <2>1
<1>5. CASE p = q
  BY <1>1, <1>2, <1>5 DEF m, a
<1>. QED
  BY <1>1, <1>3, <1>4, <1>5

\* So a number that wraps twice on its way is the number wrapped once.
LEMMA ModSuccessor ==
    ASSUME NEW W \in Nat \ {0}, NEW a \in Int
    PROVE  ((a % W) + 1) % W = (a + 1) % W
<1>. DEFINE q == a \div W
            m == a % W
            k == (m + 1) \div W
            r == (m + 1) % W
<1>1. q \in Int /\ m \in 0 .. W - 1 /\ a = W * q + m
  BY ModDef
<1>2. k \in Int /\ r \in 0 .. W - 1 /\ m + 1 = W * k + r
  BY <1>1, ModDef
<1>. HIDE DEF q, k, m, r
<1>3. a + 1 = W * (q + k) + r
  BY <1>1, <1>2
<1>4. (W * (q + k) + r) % W = r
  BY <1>1, <1>2, ModUnique
<1>. QED
  BY <1>3, <1>4 DEF r, m

\* The counters as they are on the wire say what the full numbers say.
LEMMA WireDifference ==
    ASSUME NEW W \in Nat \ {0}, NEW I \in Int, NEW n \in Int, NEW k \in Int,
           NEW drops \in Int, NEW c \in Nat,
           drops <= n - k, n - k <= drops + c
    PROVE  (((I + n) % W) - I - k - (drops % W)) % W <= c
<1>. DEFINE d == n - k - drops
            q1 == (I + n) \div W
            m1 == (I + n) % W
            q2 == drops \div W
            m2 == drops % W
            q == q2 - q1
            x == m1 - I - k - m2
<1>1. /\ I + n = W * q1 + m1 /\ q1 \in Int /\ m1 \in Int
      /\ drops = W * q2 + m2 /\ q2 \in Int /\ m2 \in Int
  <2>1. I + n \in Int
    OBVIOUS
  <2>. QED
    BY <2>1, ModDef
<1>. HIDE DEF q1, m1, q2, m2
<1>2. x = W * q + d /\ q \in Int /\ d \in 0 .. c /\ x \in Int
  <2>1. W * q = W * q2 - W * q1
    BY <1>1
  <2>2. q \in Int /\ d \in 0 .. c /\ x \in Int
    BY <1>1
  <2>3. W * q1 \in Int /\ W * q2 \in Int
    BY <1>1
  <2>. QED
    BY <1>1, <2>1, <2>2, <2>3
<1>. HIDE DEF x, q, d
<1>3. CASE c < W
  <2>1. d \in 0 .. W - 1
    BY <1>2, <1>3
  <2>2. x % W = d
    BY <1>2, <2>1, ModUnique
  <2>. QED
    BY <1>2, <2>2 DEF x, m1, m2
<1>4. CASE c >= W
  <2>1. x % W \in 0 .. W - 1
    BY <1>2, ModDef
  <2>. QED
    BY <1>4, <2>1 DEF x, m1, m2
<1>. QED
  BY <1>3, <1>4

\* No record has been stamped with a drop counter at the start.
LEMMA InitLagInv == Init => LagInv
<1>. SUFFICES ASSUME Init PROVE LagInv
  OBVIOUS
<1>. USE SensorProducerAssumption
<1>1. nextSeq = (InitialSeq + Generated) % Wrap
  <2>1. nextSeq = InitialSeq /\ Generated = 0
    BY DEF Init, Generated
  <2>2. (Wrap * 0 + InitialSeq) % Wrap = InitialSeq
    BY ModUnique
  <2>. QED
    BY <2>1, <2>2
<1>. QED
  BY <1>1 DEF Init, BufferInit, LagInv

\* The drop counter a record is stamped with falls behind by the records that
\* are dropped while it waits, and these are a bufferful at most.
LEMMA NextLagInv == IInv /\ ControlInv /\ LagInv /\ [Next]_vars => LagInv'
<1>. SUFFICES ASSUME IInv, ControlInv, LagInv, [Next]_vars PROVE LagInv'
  OBVIOUS
<1>. USE CapacityAssumption, SensorProducerAssumption
<1>1. /\ items \in Seq(Records) /\ Len(items) \in Nat /\ Len(items) <= Capacity
      /\ popped \in Seq(Records) /\ Len(popped) \in Nat
      /\ produced \in Nat /\ droppedTotal \in Nat
  BY LenProperties DEF IInv, DataInv, BufferTypes, HistoryTypes
<1>2. DOMAIN items = 1 .. Len(items) /\ DOMAIN popped = 1 .. Len(popped)
  BY <1>1, LenProperties
<1>3. ASSUME Generate PROVE LagInv'
  <2>1. made' = [n |-> produced, drops |-> droppedTotal, seq |-> nextSeq,
                 dropped |-> droppedTotal % Wrap]
    BY <1>3 DEF Generate, Record
  <2>2. /\ ppc' = "push" /\ ppc = "loop" /\ nextSeq' = (nextSeq + 1) % Wrap
        /\ UNCHANGED <<items, droppedTotal, produced, popped>>
    BY <1>3 DEF Generate, bufferVars, historyVars
  <2>3. nextSeq = (InitialSeq + produced) % Wrap
    BY <2>2 DEF LagInv, Generated
  <2>4. nextSeq' = (InitialSeq + produced + 1) % Wrap
    <3>1. InitialSeq + produced \in Int
      BY <1>1
    <3>2. (((InitialSeq + produced) % Wrap) + 1) % Wrap
              = (InitialSeq + produced + 1) % Wrap
      BY <3>1, ModSuccessor
    <3>. QED
      BY <2>2, <2>3, <3>2
  <2>5. nextSeq' = (InitialSeq + Generated') % Wrap
    BY <1>1, <2>2, <2>4 DEF Generated
  <2>6. OnWire(made') /\ made'.drops = droppedTotal'
    BY <2>1, <2>2, <2>3 DEF OnWire
  <2>. QED
    BY <2>2, <2>5, <2>6 DEF LagInv, OnWire
<1>4. ASSUME PushRecord PROVE LagInv'
  <2>1. /\ made \in Records /\ Push(made) /\ produced' = produced + 1
        /\ ppc = "push" /\ ppc' = "loop" /\ UNCHANGED <<nextSeq, popped>>
    BY <1>4 DEF PushRecord, IInv, DataInv, ProducerHolds
  <2>2. /\ items' \in Seq(Records)
        /\ Len(items') = IF IsFull THEN Len(items) ELSE Len(items) + 1
        /\ items'[Len(items')] = made
        /\ \A i \in 1 .. Len(items') - 1 :
              items'[i] = items[IF IsFull THEN i + 1 ELSE i]
    BY <1>1, <2>1, PushItems
  <2>3. droppedTotal' = IF IsFull THEN droppedTotal + 1 ELSE droppedTotal
    BY <2>1 DEF Push
  <2>4. OnWire(made) /\ made.drops = droppedTotal
    BY <2>1 DEF LagInv
  <2>5. nextSeq' = (InitialSeq + Generated') % Wrap
    BY <2>1 DEF LagInv, Generated
  <2>6. ASSUME NEW i \in 1 .. Len(items')
        PROVE  /\ OnWire(items'[i])
               /\ items'[i].drops <= droppedTotal'
               /\ droppedTotal' <= items'[i].drops + Len(items') - i + 1
    <3>1. CASE i = Len(items')
      BY <3>1, <1>1, <2>2, <2>3, <2>4
    <3>2. CASE i # Len(items')
      <4>. DEFINE j == IF IsFull THEN i + 1 ELSE i
      <4>1. i \in 1 .. Len(items') - 1 /\ j \in 1 .. Len(items)
        BY <3>2, <1>1, <2>2
      <4>2. items'[i] = items[j]
        BY <4>1, <2>2
      <4>3. /\ OnWire(items[j])
            /\ items[j].drops <= droppedTotal
            /\ droppedTotal <= items[j].drops + Len(items) - j + 1
        BY <4>1, <1>2 DEF LagInv
      <4>4. items[j].drops \in Nat
        BY <4>1, <1>1, ElementOfSeq, RecordFields
      <4>5. /\ items[j].drops <= droppedTotal'
            /\ droppedTotal' <= items[j].drops + Len(items') - i + 1
        <5>1. CASE IsFull
          BY <5>1, <4>1, <4>3, <4>4, <1>1, <2>2, <2>3
        <5>2. CASE ~IsFull
          BY <5>2, <4>1, <4>3, <4>4, <1>1, <2>2, <2>3
        <5>. QED
          BY <5>1, <5>2
      <4>. QED
        BY <4>2, <4>3, <4>5
    <3>. QED
      BY <3>1, <3>2
  <2>7. DOMAIN items' = 1 .. Len(items')
    BY <2>2, LenProperties
  <2>8. \A i \in DOMAIN popped' :
            /\ OnWire(popped'[i])
            /\ popped'[i].drops <= popped'[i].n - (i - 1)
            /\ popped'[i].n - (i - 1) <= popped'[i].drops + Capacity
    BY <2>1 DEF LagInv
  <2>. QED
    BY <2>1, <2>5, <2>6, <2>7, <2>8 DEF LagInv, OnWire
<1>5. ASSUME NEW s \in Senders, PopRecord(s) PROVE LagInv'
  <2>1. /\ Head(items) \in Records
        /\ Head(items).n = produced - Len(items)
    BY <1>5, PopAccounting DEF IInv, DataInv
  <2>2. /\ items # <<>> /\ items' = Tail(items)
        /\ popped' = Append(popped, Head(items))
        /\ UNCHANGED <<droppedTotal, produced, nextSeq, made, ppc>>
    BY <1>5 DEF PopRecord, Pop, producerVars
  <2>3. /\ Len(items) > 0 /\ Head(items) = items[1]
        /\ items' \in Seq(Records) /\ Len(items') = Len(items) - 1
        /\ \A i \in 1 .. Len(items) - 1 : items'[i] = items[i + 1]
    BY <1>1, <2>2, HeadTailProperties, EmptySeq
  <2>4. /\ popped' \in Seq(Records) /\ Len(popped') = Len(popped) + 1
        /\ \A i \in 1 .. Len(popped) : popped'[i] = popped[i]
        /\ popped'[Len(popped) + 1] = Head(items)
    BY <1>1, <2>1, <2>2, AppendProperties
  <2>5. DOMAIN items' = 1 .. Len(items) - 1 /\ DOMAIN popped' = 1 .. Len(popped) + 1
    BY <2>3, <2>4, LenProperties
  <2>6. ASSUME NEW i \in 1 .. Len(items) - 1
        PROVE  /\ OnWire(items'[i])
               /\ items'[i].drops <= droppedTotal'
               /\ droppedTotal' <= items'[i].drops + Len(items') - i + 1
    <3>1. i + 1 \in 1 .. Len(items) /\ items'[i] = items[i + 1]
      BY <1>1, <2>3
    <3>2. /\ OnWire(items[i + 1])
          /\ items[i + 1].drops <= droppedTotal
          /\ droppedTotal <= items[i + 1].drops + Len(items) - (i + 1) + 1
      BY <3>1, <1>2 DEF LagInv
    <3>3. items[i + 1].drops \in Nat
      BY <3>1, <1>1, ElementOfSeq, RecordFields
    <3>. QED
      BY <3>1, <3>2, <3>3, <1>1, <2>2, <2>3
  <2>7. /\ OnWire(Head(items))
        /\ Head(items).drops <= Head(items).n - Len(popped)
        /\ Head(items).n - Len(popped) <= Head(items).drops + Capacity
    <3>1. /\ OnWire(items[1])
          /\ items[1].drops <= droppedTotal
          /\ droppedTotal <= items[1].drops + Len(items) - 1 + 1
      <4>1. 1 \in DOMAIN items
        BY <2>3
      <4>. QED
        BY <4>1, Zenon DEF LagInv
    <3>2. Head(items).n - Len(popped) = droppedTotal
      BY <1>1, <2>1 DEF IInv, DataInv, BufferAccounting
    <3>3. Head(items).drops \in Nat
      BY <2>1, RecordFields
    <3>. QED
      BY <3>1, <3>2, <3>3, <1>1, <2>3
  <2>8. ASSUME NEW i \in 1 .. Len(popped) + 1
        PROVE  /\ OnWire(popped'[i])
               /\ popped'[i].drops <= popped'[i].n - (i - 1)
               /\ popped'[i].n - (i - 1) <= popped'[i].drops + Capacity
    <3>1. CASE i = Len(popped) + 1
      <4>1. i - 1 = Len(popped) /\ popped'[i] = Head(items)
        BY <3>1, <1>1, <2>4
      <4>. QED
        BY <4>1, <2>7
    <3>2. CASE i # Len(popped) + 1
      <4>1. i \in 1 .. Len(popped) /\ popped'[i] = popped[i]
        BY <3>2, <1>1, <2>4
      <4>. QED
        BY <4>1, <1>2 DEF LagInv
    <3>. QED
      BY <3>1, <3>2
  <2>. QED
    BY <2>2, <2>5, <2>6, <2>8 DEF LagInv, OnWire, Generated
<1>6. CASE UNCHANGED GeneratorVars /\ (ppc' = "push" <=> ppc = "push")
  BY <1>6 DEF GeneratorVars, LagInv, OnWire, Generated
<1>. QED
  BY <1>3, <1>4, <1>5, <1>6, GeneratorSteps

\* A consumer that subtracts the drop counter of a record from the gap its
\* sequence number shows is never off by more than one buffer, for every
\* capacity, every first sequence number and every width of the counters.
THEOREM DropCounterBounded == Spec => []DropCounterLag
<1>1. IInv /\ LagInv => DropCounterLag
  <2>. SUFFICES ASSUME IInv, LagInv, NEW i \in DOMAIN popped
                PROVE  (popped[i].seq - InitialSeq - (i - 1) - popped[i].dropped)
                            % Wrap <= Capacity
    BY DEF DropCounterLag
  <2>. DEFINE r == popped[i]
  <2>1. popped \in Seq(Records)
    BY DEF IInv, DataInv, HistoryTypes
  <2>2. i \in Nat /\ r \in Records
    BY <2>1, LenProperties, ElementOfSeq
  <2>3. r.n \in Int /\ r.drops \in Int
    BY <2>2, RecordFields
  <2>4. /\ r.seq = (InitialSeq + r.n) % Wrap /\ r.dropped = r.drops % Wrap
        /\ r.drops <= r.n - (i - 1) /\ r.n - (i - 1) <= r.drops + Capacity
    BY DEF LagInv, OnWire
  <2>5. (((InitialSeq + r.n) % Wrap) - InitialSeq - (i - 1) - (r.drops % Wrap))
            % Wrap <= Capacity
    <3>1. i - 1 \in Int /\ InitialSeq \in Int /\ Capacity \in Nat
          /\ Wrap \in Nat \ {0}
      BY <2>2, CapacityAssumption, SensorProducerAssumption
    <3>. HIDE DEF r
    <3>. QED
      BY <2>3, <2>4, <3>1, WireDifference
  <2>. QED
    BY <2>4, <2>5
<1>. QED
  BY <1>1, InitIInv, NextIInv, InitControlInv, NextControlInv, InitLagInv,
     NextLagInv, PTL DEF Spec
-------------------------------------------------------------------------------
(***************************************************************************)
(* What becomes of an error of the capture file.  From the call that fails *)
(* on it is in a sender's hand, or stored, or raised; and a sender that    *)
(* has ended has stored it.  So if stop() gave up on no one, it finds it.  *)
(***************************************************************************)
SomeoneHoldsError == \E s \in Senders : HoldsError(s)

SessionInv ==
    /\ mpc = "idle" => joining = 0
    /\ captureOpen => \/ running
                      \/ joining # 0 /\ mpc \in {"joinProducer", "joinSender", "close"}
    /\ running \/ joining # 0 => outcome = "none"
    /\ tainted => outcome = "raised" \/ captureError \/ SomeoneHoldsError
    /\ tainted /\ ~running /\ mpc = "idle" /\ abandoned = {} => outcome = "raised"

\* No capture call has failed at the start.
LEMMA InitSessionInv == Init => SessionInv
BY DEF Init, SessionInv

\* The steps that leave the owner, the file and the verdict on it alone, and
\* after which the senders with an error in hand are the same.
LEMMA SessionFrame ==
    ASSUME SessionInv,
           UNCHANGED <<mpc, joining, running, outcome, captureOpen, captureError,
                       tainted, abandoned>>,
           SomeoneHoldsError => SomeoneHoldsError'
    PROVE  SessionInv'
BY DEF SessionInv

\* No one holds an error when all senders have ended.
LEMMA EndedHoldNothing ==
    ASSUME \A s \in Senders : spc[s] = "off"
    PROVE  ~SomeoneHoldsError
BY DEF SomeoneHoldsError, HoldsError

\* A sender in any other state than spc[t] does not change when t moves.
LEMMA HoldersStay ==
    ASSUME spc \in [Senders -> SenderStates], NEW t \in Senders, NEW pc,
           spc' = [spc EXCEPT ![t] = pc], ~HoldsError(t), SomeoneHoldsError
    PROVE  SomeoneHoldsError'
BY DEF SomeoneHoldsError, HoldsError

\* A capture error is stored by the sender that met it, and kept until stop()
\* raises it; with no sender left behind, that is the stop() of its session.
LEMMA NextSessionInv ==
    IInv /\ ControlInv /\ SessionInv /\ [Next]_vars => SessionInv'
<1>. SUFFICES ASSUME IInv, ControlInv, SessionInv, [Next]_vars
              PROVE  SessionInv'
  OBVIOUS
<1>1. spc \in [Senders -> SenderStates]
  BY DEF IInv, DataInv, SenderTypes
<1>2. CASE Start
  <2>1. starts + 1 # 0
    BY <1>2, SensorProducerAssumption DEF Start, IInv, DataInv, OwnerTypes
  <2>. QED
    BY <1>2, <2>1 DEF Start, SessionInv
<1>3. CASE StartFails
  BY <1>3, SessionFrame
     DEF StartFails, senderVars, ownerVars, captureVars, historyVars,
         SomeoneHoldsError, HoldsError
<1>4. CASE StopBegin
  <2>1. UNCHANGED <<spc, outcome, captureOpen, captureError, tainted, abandoned>>
    BY <1>4 DEF StopBegin, senderVars, captureVars, historyVars
  <2>2. SomeoneHoldsError => SomeoneHoldsError'
    BY <2>1 DEF SomeoneHoldsError, HoldsError
  <2>3. running => starts # 0
    BY DEF IInv, DataInv, RunningHasSender, Senders
  <2>. QED
    BY <1>4, <2>1, <2>2, <2>3 DEF StopBegin, SessionInv
<1>5. CASE JoinProducer \/ JoinSender
  <2>1. UNCHANGED <<spc, joining, running, outcome, captureOpen, captureError, tainted>>
    BY <1>5 DEF JoinProducer, JoinSender, senderVars, captureVars, historyVars
  <2>2. SomeoneHoldsError => SomeoneHoldsError'
    BY <2>1 DEF SomeoneHoldsError, HoldsError
  <2>3. joining # 0 /\ mpc' \in {"joinSender", "close"}
    BY <1>5 DEF JoinProducer, JoinSender, IInv, DataInv, OwnerTypes, Senders
  <2>. QED
    BY <2>1, <2>2, <2>3 DEF SessionInv
<1>6. CASE StopClose
  <2>1. PICK S \in SUBSET {s \in Senders : spc[s] \in CaptureCalls /\ captureOpen} :
              DieOfClosedFile(S)
    BY <1>6 DEF StopClose
  <2>2. SomeoneHoldsError => SomeoneHoldsError'
    BY <1>1, <2>1 DEF DieOfClosedFile, SomeoneHoldsError, HoldsError, CaptureCalls
  <2>3. /\ ~captureOpen'
        /\ UNCHANGED <<running, captureError, abandoned>>
        /\ \/ mpc' = "check" /\ UNCHANGED <<joining, outcome, tainted>>
           \/ captureOpen /\ mpc' = "idle" /\ joining' = 0 /\ outcome' = "raised"
    BY <1>6 DEF StopClose, EndStop
  <2>4. captureOpen => ~running
    BY <1>6 DEF StopClose, ControlInv
  <2>. QED
    BY <2>2, <2>3, <2>4 DEF SessionInv, ControlInv
<1>7. CASE StopCheck
  <2>1. UNCHANGED <<spc, running, captureOpen, captureError, tainted, abandoned>>
    BY <1>7 DEF StopCheck, senderVars, captureVars, historyVars
  <2>2. SomeoneHoldsError => SomeoneHoldsError'
    BY <2>1 DEF SomeoneHoldsError, HoldsError
  <2>3. mpc = "check" /\ ~running /\ ~captureOpen
    BY <1>7 DEF StopCheck, SessionInv, ControlInv
  <2>4. CASE captureError /\ mpc' = "raise" /\ UNCHANGED <<joining, outcome>>
    BY <2>1, <2>2, <2>3, <2>4 DEF SessionInv
  <2>5. CASE ~captureError /\ EndStop("returned")
    <3>1. /\ mpc' = "idle" /\ joining' = 0
          /\ outcome' = IF joining = 0 THEN outcome ELSE "returned"
      BY <2>5 DEF EndStop
    <3>2. tainted => outcome = "raised" \/ SomeoneHoldsError
      BY <2>5 DEF SessionInv
    <3>3. outcome = "raised" => outcome' = "raised"
      BY <3>1 DEF SessionInv
    <3>4. abandoned = {} => ~SomeoneHoldsError
      BY <2>3, EndedHoldNothing DEF ControlInv
    <3>. QED
      BY <2>1, <2>2, <2>3, <3>1, <3>2, <3>3, <3>4 DEF SessionInv
  <2>. QED
    BY <1>7, <2>4, <2>5 DEF StopCheck
<1>8. CASE StopRaise
  <2>1. /\ mpc' = "idle" /\ joining' = 0 /\ outcome' = "raised"
        /\ UNCHANGED <<running, captureOpen>> /\ ~running /\ ~captureOpen
    BY <1>8 DEF StopRaise, EndStop, SessionInv, ControlInv
  <2>. QED
    BY <2>1 DEF SessionInv
<1>9. CASE Producer
  BY <1>9, SessionFrame
     DEF Producer, ProducerExit, Generate, PushRecord, senderVars, ownerVars,
         captureVars, historyVars, SomeoneHoldsError, HoldsError
<1>10. ASSUME NEW t \in Senders,
              \/ SendLoop(t) \/ ConnectOk(t) \/ ConnectFails(t) \/ StopStreaming(t)
              \/ PopRecord(t) \/ RecheckCapture(t) \/ SendOk(t) \/ SendFails(t)
              \/ SetStop(t)
       PROVE  SessionInv'
  <2>1. UNCHANGED <<mpc, joining, running, outcome, captureOpen, captureError,
                    tainted, abandoned>>
    BY <1>10 DEF SendLoop, ConnectOk, ConnectFails, StopStreaming, PopRecord,
       RecheckCapture, SendOk, SendFails, SetStop, ownerVars, captureVars,
       historyVars
  <2>2. PICK pc : spc' = [spc EXCEPT ![t] = pc]
    BY <1>10 DEF SendLoop, ConnectOk, ConnectFails, StopStreaming, PopRecord,
       RecheckCapture, SendOk, SendFails, SetStop, GoOn, LetGo
  <2>3. ~HoldsError(t)
    BY <1>10 DEF SendLoop, ConnectOk, ConnectFails, StopStreaming, PopRecord,
       RecheckCapture, SendOk, SendFails, SetStop, HoldsError
  <2>. QED
    BY <1>1, <2>1, <2>2, <2>3, HoldersStay, SessionFrame
<1>11. ASSUME NEW t \in Senders,
              CapturePosition(t) \/ WriteCapture(t) \/ Rollback(t)
       PROVE  SessionInv'
  <2>1. UNCHANGED <<mpc, joining, running, outcome, captureOpen, captureError,
                    abandoned>>
    BY <1>11 DEF CapturePosition, WriteCapture, Rollback, ownerVars
  <2>2. \E pc : /\ spc' = [spc EXCEPT ![t] = pc]
               /\ \/ tainted' = tainted
                  \/ captureOpen /\ pc \in {"failed", "tellFailed"}
    <3>1. CASE CapturePosition(t)
      BY <3>1 DEF CapturePosition, GoOn, CaptureFails
    <3>2. CASE WriteCapture(t)
      BY <3>2 DEF WriteCapture, GoOn, LetGo, CaptureFails
    <3>3. CASE Rollback(t)
      BY <3>3 DEF Rollback, LetGo, CaptureFails
    <3>. QED
      BY <1>11, <3>1, <3>2, <3>3
  <2>3. PICK pc : /\ spc' = [spc EXCEPT ![t] = pc]
                  /\ \/ tainted' = tainted
                     \/ captureOpen /\ pc \in {"failed", "tellFailed"}
    BY <2>2
  <2>4. ~HoldsError(t)
    BY <1>11 DEF CapturePosition, WriteCapture, Rollback, HoldsError
  <2>5. SomeoneHoldsError => SomeoneHoldsError'
    BY <1>1, <2>3, <2>4, HoldersStay
  <2>6. CASE tainted' = tainted
    BY <2>1, <2>5, <2>6, SessionFrame
  <2>7. CASE captureOpen /\ pc \in {"failed", "tellFailed"}
    <3>1. spc'[t] = pc
      BY <1>1, <2>3
    <3>2. SomeoneHoldsError'
      BY <2>7, <3>1 DEF SomeoneHoldsError, HoldsError
    <3>. QED
      BY <2>1, <2>7, <3>2 DEF SessionInv, ControlInv
  <2>. QED
    BY <2>3, <2>6, <2>7
<1>12. ASSUME NEW t \in Senders, StoreError(t) PROVE SessionInv'
  <2>1. /\ captureError'
        /\ UNCHANGED <<mpc, joining, running, outcome, captureOpen, tainted, abandoned>>
    BY <1>12 DEF StoreError, ownerVars, historyVars
  <2>. QED
    BY <2>1 DEF SessionInv
<1>13. CASE UNCHANGED vars
  BY <1>13, SessionFrame
     DEF vars, senderVars, ownerVars, captureVars, historyVars,
         SomeoneHoldsError, HoldsError
<1>. QED
  BY <1>2, <1>3, <1>4, <1>5, <1>6, <1>7, <1>8, <1>9, <1>10, <1>11, <1>12, <1>13
     DEF Next, Owner, StopContinues, Sender

\* A session whose capture file failed ends in a stop() that raises; only an
\* error of a sender that stop() gave up on may miss it, and then it is kept,
\* or about to be stored, for the next stop().
THEOREM CaptureFailureReported == Spec => []StopReportsCaptureFailure
<1>1. ControlInv /\ SessionInv => StopReportsCaptureFailure
  <2>. SUFFICES ASSUME ControlInv, SessionInv, tainted, ~running, mpc = "idle",
                       outcome # "raised"
                PROVE  /\ abandoned # {}
                       /\ captureError \/ \E s \in abandoned : HoldsError(s)
    BY DEF StopReportsCaptureFailure
  <2>1. abandoned # {}
    BY DEF SessionInv
  <2>2. \A s \in Senders : HoldsError(s) => s \in abandoned
    BY DEF ControlInv, HoldsError
  <2>3. captureError \/ SomeoneHoldsError
    BY DEF SessionInv
  <2>. QED
    BY <2>1, <2>2, <2>3 DEF SomeoneHoldsError
<1>. QED
  BY <1>1, InitIInv, NextIInv, InitControlInv, NextControlInv, InitSessionInv,
     NextSessionInv, PTL DEF Spec

\* Between the end of stop() and the next start(), a sender left behind
\* changes neither the capture file nor the number of records generated.
THEOREM NothingAfterStop == Spec => FinalAfterStop
<1>1. IInv /\ ControlInv /\ SessionInv /\ [Next]_vars =>
          [mpc = "idle" /\ ~running /\ starts' = starts =>
               capture' = capture /\ produced' = produced]_vars
  <2>. SUFFICES ASSUME ControlInv, SessionInv, Next,
                       mpc = "idle", ~running, starts' = starts, IInv
                PROVE  capture' = capture /\ produced' = produced
    OBVIOUS
  <2>1. ~captureOpen /\ ppc = "off"
    BY DEF ControlInv, SessionInv
  <2>2. CASE Owner
    <3>1. starts \in Nat
      BY SensorProducerAssumption DEF IInv, DataInv, OwnerTypes
    <3>2. ~Start
      BY <3>1 DEF Start
    <3>. QED
      BY <2>2, <3>2 DEF Owner, StartFails, StopBegin, StopContinues, JoinProducer,
         JoinSender, StopClose, StopCheck, StopRaise, captureVars, historyVars
  <2>3. CASE Producer
    BY <2>1, <2>3 DEF Producer, ProducerExit, Generate, PushRecord
  <2>4. ASSUME NEW s \in Senders, Sender(s)
        PROVE  capture' = capture /\ produced' = produced
    BY <2>1, <2>4 DEF Sender, SendLoop, ConnectOk, ConnectFails, StopStreaming,
       PopRecord, CapturePosition, RecheckCapture, WriteCapture, SendOk,
       SendFails, Rollback, CaptureFails, StoreError, SetStop, captureVars,
       historyVars
  <2>. QED
    BY <2>2, <2>3, <2>4 DEF Next
<1>. QED
  BY <1>1, InitIInv, NextIInv, InitControlInv, NextControlInv, InitSessionInv,
     NextSessionInv, PTL DEF Spec, FinalAfterStop
-------------------------------------------------------------------------------
(***************************************************************************)
(* What is sent.  A record in a sender's hand or on the wire has left the  *)
(* buffer, so its number is below those still in it; no two hands hold the *)
(* same one, and none holds one already sent.  While only the last sender  *)
(* lives, what it holds is newer than all that was sent.                   *)
(***************************************************************************)
Oldest == produced - Len(items)

Holds(s) == spc[s] \in Holding

SentInv ==
    /\ \A i \in DOMAIN sent : sent[i].n < Oldest
    /\ \A s \in Senders : Holds(s) => payload[s].n < Oldest
    /\ \A s, u \in Senders :
            Holds(s) /\ Holds(u) /\ payload[s].n = payload[u].n => s = u
    /\ \A s \in Senders, i \in DOMAIN sent : Holds(s) => sent[i].n # payload[s].n
    /\ ~overlapped =>
            \A s \in Senders, i \in DOMAIN sent : Holds(s) => sent[i].n < payload[s].n
    /\ NoDuplicates
    /\ StreamInOrder

\* Nothing has been sent at the start.
LEMMA InitSentInv == Init => SentInv
BY DEF Init, SentInv, Holds, Holding, NoDuplicates, StreamInOrder

\* The oldest pending record never becomes an older one.
LEMMA OldestGrows ==
    ASSUME IInv, ControlInv, [Next]_vars
    PROVE  Oldest \in Int /\ Oldest' \in Int /\ Oldest <= Oldest'
<1>. USE CapacityAssumption, SensorProducerAssumption DEF Oldest
<1>1. /\ items \in Seq(Records) /\ Len(items) \in Nat /\ Len(items) <= Capacity
      /\ produced \in Nat
  BY LenProperties DEF IInv, DataInv, BufferTypes, HistoryTypes
<1>2. CASE PushRecord
  <2>1. made \in Records /\ Push(made) /\ produced' = produced + 1
    BY <1>2 DEF PushRecord, IInv, DataInv, ProducerHolds
  <2>2. Len(items') = IF IsFull THEN Len(items) ELSE Len(items) + 1
    BY <1>1, <2>1, PushItems
  <2>. QED
    BY <1>1, <2>1, <2>2
<1>3. ASSUME NEW s \in Senders, PopRecord(s)
      PROVE  Oldest \in Int /\ Oldest' \in Int /\ Oldest <= Oldest'
  <2>1. items # <<>> /\ items' = Tail(items) /\ produced' = produced
    BY <1>3 DEF PopRecord, Pop
  <2>2. Len(items') = Len(items) - 1
    BY <1>1, <2>1, HeadTailProperties
  <2>. QED
    BY <1>1, <2>1, <2>2
<1>4. CASE Generate
  BY <1>1, <1>4 DEF Generate, bufferVars, historyVars
<1>5. CASE UNCHANGED GeneratorVars
  BY <1>1, <1>5 DEF GeneratorVars
<1>. QED
  BY <1>2, <1>3, <1>4, <1>5, GeneratorSteps

\* The steps that leave sent and overlapped alone, in which no sender takes up
\* a record it did not hold.
LEMMA SentFrame ==
    ASSUME IInv, ControlInv, SentInv, [Next]_vars,
           UNCHANGED <<sent, overlapped>>,
           \A s \in Senders : Holds(s)' => Holds(s) /\ payload'[s] = payload[s]
    PROVE  SentInv'
<1>1. Oldest \in Int /\ Oldest' \in Int /\ Oldest <= Oldest'
  BY OldestGrows
<1>2. /\ \A i \in DOMAIN sent : sent[i].n \in Int
      /\ \A s \in Senders : Holds(s) => payload[s].n \in Int
  <2>1. sent \in Seq(Records)
    BY DEF IInv, DataInv, HistoryTypes
  <2>2. \A i \in DOMAIN sent : sent[i] \in Records
    BY <2>1, LenProperties, ElementOfSeq
  <2>3. \A s \in Senders : Holds(s) => payload[s] \in Records
    BY DEF Holds, IInv, DataInv, SendersHold
  <2>. QED
    BY <2>2, <2>3, RecordFields
<1>3. \A i \in DOMAIN sent : sent[i].n < Oldest'
  BY <1>1, <1>2 DEF SentInv
<1>4. \A s \in Senders : Holds(s)' => payload'[s].n < Oldest'
  BY <1>1, <1>2 DEF SentInv
<1>. HIDE DEF Oldest, Holds
<1>5. /\ \A s, u \in Senders :
            Holds(s)' /\ Holds(u)' /\ payload'[s].n = payload'[u].n => s = u
      /\ \A s \in Senders, i \in DOMAIN sent :
            Holds(s)' => sent[i].n # payload'[s].n
      /\ ~overlapped =>
            \A s \in Senders, i \in DOMAIN sent :
                Holds(s)' => sent[i].n < payload'[s].n
  BY DEF SentInv
<1>6. NoDuplicates' /\ StreamInOrder'
  BY DEF SentInv, NoDuplicates, StreamInOrder
<1>. QED
  BY <1>3, <1>4, <1>5, <1>6 DEF SentInv

\* A sender holds a record that is older than the pending ones and that no one
\* else holds or has sent.
LEMMA NextSentInv == IInv /\ ControlInv /\ SentInv /\ [Next]_vars => SentInv'
<1>. SUFFICES ASSUME IInv, ControlInv, SentInv, [Next]_vars PROVE SentInv'
  OBVIOUS
<1>. USE DEF bufferVars, producerVars, senderVars, ownerVars, captureVars,
             historyVars
<1>1. /\ sent \in Seq(Records) /\ Len(sent) \in Nat
      /\ DOMAIN sent = 1 .. Len(sent)
      /\ \A i \in 1 .. Len(sent) : sent[i].n \in Int
      /\ spc \in [Senders -> SenderStates]
      /\ payload \in [Senders -> Records \cup {NoRecord}]
      /\ \A s \in Senders : Holds(s) => payload[s] \in Records
  <2>1. sent \in Seq(Records)
    BY DEF IInv, DataInv, HistoryTypes
  <2>2. \A i \in 1 .. Len(sent) : sent[i].n \in Int
    BY <2>1, ElementOfSeq, RecordFields
  <2>. QED
    BY <2>1, <2>2, LenProperties DEF IInv, DataInv, SenderTypes, SendersHold, Holds
<1>2. Oldest \in Int /\ Oldest' \in Int /\ Oldest <= Oldest'
  BY OldestGrows
<1>3. ASSUME Start PROVE SentInv'
  <2>1. \A s \in Senders : Holds(s)' => Holds(s) /\ payload'[s] = payload[s]
    BY <1>1, <1>3 DEF Start, Holds, Holding
  <2>2. sent' = sent /\ items' = items /\ produced' = produced
        /\ (~overlapped' => ~overlapped)
    BY <1>3 DEF Start
  <2>3. Oldest' = Oldest
    BY <2>2 DEF Oldest
  <2>. HIDE DEF Oldest, Holds
  <2>. QED
    BY <2>1, <2>2, <2>3 DEF SentInv, NoDuplicates, StreamInOrder
<1>4. ASSUME NEW t \in Senders, PopRecord(t) PROVE SentInv'
  <2>1. Head(items) \in Records /\ Head(items).n = Oldest
    BY <1>4, PopAccounting DEF IInv, DataInv, Oldest
  <2>2. Oldest' = Oldest + 1
    <3>1. items # <<>> /\ items' = Tail(items) /\ produced' = produced
      BY <1>4 DEF PopRecord, Pop
    <3>2. items \in Seq(Records) /\ Len(items) \in Nat /\ produced \in Nat
      BY LenProperties, SensorProducerAssumption
         DEF IInv, DataInv, BufferTypes, HistoryTypes
    <3>3. Len(items') = Len(items) - 1
      BY <3>1, <3>2, HeadTailProperties
    <3>. QED
      BY <3>1, <3>2, <3>3 DEF Oldest
  <2>3. /\ sent' = sent /\ overlapped' = overlapped
        /\ payload' = [payload EXCEPT ![t] = Head(items)]
        /\ spc[t] = "streaming" /\ spc' = [spc EXCEPT ![t] = "position"]
    BY <1>4 DEF PopRecord
  <2>4. /\ Holds(t)' /\ ~Holds(t) /\ payload'[t] = Head(items)
        /\ \A s \in Senders \ {t} :
                (Holds(s)' <=> Holds(s)) /\ payload'[s] = payload[s]
    BY <1>1, <2>3 DEF Holds, Holding
  <2>5. \A s \in Senders : Holds(s) => payload[s].n \in Int
    BY <1>1, RecordFields
  <2>. HIDE DEF Oldest, Holds
  <2>6. \A i \in DOMAIN sent : sent[i].n < Oldest'
    BY <1>1, <1>2, <2>2 DEF SentInv
  <2>7. \A s \in Senders : Holds(s)' => payload'[s].n < Oldest'
    BY <1>2, <2>1, <2>2, <2>4, <2>5 DEF SentInv
  <2>8. \A s, u \in Senders :
            Holds(s)' /\ Holds(u)' /\ payload'[s].n = payload'[u].n => s = u
    BY <1>2, <2>1, <2>4, <2>5 DEF SentInv
  <2>9. \A s \in Senders, i \in DOMAIN sent :
            Holds(s)' => sent[i].n # payload'[s].n
    BY <1>1, <1>2, <2>1, <2>4 DEF SentInv
  <2>10. ~overlapped => \A s \in Senders, i \in DOMAIN sent :
                            Holds(s)' => sent[i].n < payload'[s].n
    BY <1>1, <1>2, <2>1, <2>4 DEF SentInv
  <2>11. NoDuplicates' /\ StreamInOrder'
    BY <2>3 DEF SentInv, NoDuplicates, StreamInOrder
  <2>. QED
    BY <2>3, <2>6, <2>7, <2>8, <2>9, <2>10, <2>11 DEF SentInv
<1>5. ASSUME NEW t \in Senders, SendOk(t) PROVE SentInv'
  <2>1. /\ spc[t] = "sending" /\ sent' = Append(sent, payload[t])
        /\ spc' = [spc EXCEPT ![t] = "streaming"]
        /\ payload' = [payload EXCEPT ![t] = NoRecord]
        /\ UNCHANGED <<items, produced, overlapped>>
    BY <1>5 DEF SendOk, LetGo
  <2>2. Holds(t) /\ payload[t] \in Records /\ payload[t].n \in Int
    BY <1>1, <2>1, RecordFields DEF Holds, Holding
  <2>3. /\ ~Holds(t)'
        /\ \A s \in Senders \ {t} :
                (Holds(s)' <=> Holds(s)) /\ payload'[s] = payload[s]
    BY <1>1, <2>1 DEF Holds, Holding
  <2>4. /\ sent' \in Seq(Records) /\ Len(sent') = Len(sent) + 1
        /\ \A i \in 1 .. Len(sent) : sent'[i] = sent[i]
        /\ sent'[Len(sent) + 1] = payload[t]
    BY <1>1, <2>1, <2>2, AppendProperties
  <2>5. DOMAIN sent' = 1 .. Len(sent) + 1
    BY <2>4, LenProperties
  <2>6. Oldest' = Oldest
    BY <2>1 DEF Oldest
  <2>7. ~overlapped => \A s \in Senders : Holds(s) => s = t
    BY <1>1, <2>2 DEF ControlInv, Holds, Holding
  <2>. HIDE DEF Oldest, Holds
  <2>8. \A i \in 1 .. Len(sent) + 1 :
            i \in 1 .. Len(sent) \/ sent'[i] = payload[t]
    BY <1>1, <2>4
  <2>9. \A i \in DOMAIN sent' : sent'[i].n < Oldest'
    BY <1>1, <2>2, <2>4, <2>5, <2>6, <2>8 DEF SentInv
  <2>10. \A s \in Senders : Holds(s)' => payload'[s].n < Oldest'
    BY <2>3, <2>6 DEF SentInv
  <2>11. \A s, u \in Senders :
            Holds(s)' /\ Holds(u)' /\ payload'[s].n = payload'[u].n => s = u
    BY <2>3 DEF SentInv
  <2>12. \A s \in Senders, i \in DOMAIN sent' :
            Holds(s)' => sent'[i].n # payload'[s].n
    BY <1>1, <2>2, <2>3, <2>4, <2>5, <2>8 DEF SentInv
  <2>13. ~overlapped => \A s \in Senders : ~Holds(s)'
    BY <2>3, <2>7
  <2>14. NoDuplicates'
    <3>. SUFFICES ASSUME NEW i \in 1 .. Len(sent) + 1,
                         NEW j \in 1 .. Len(sent) + 1,
                         sent'[i].n = sent'[j].n
                  PROVE  i = j
      BY <2>5 DEF NoDuplicates
    <3>1. \A k \in 1 .. Len(sent) : sent'[k].n # payload[t].n
      BY <1>1, <2>2, <2>4 DEF SentInv
    <3>2. CASE i \in 1 .. Len(sent) /\ j \in 1 .. Len(sent)
      BY <3>2, <1>1, <2>4 DEF SentInv, NoDuplicates
    <3>3. CASE i = Len(sent) + 1 \/ j = Len(sent) + 1
      BY <3>1, <3>3, <1>1, <2>4
    <3>. QED
      BY <3>2, <3>3, <1>1
  <2>15. StreamInOrder'
    <3>. SUFFICES ASSUME ~overlapped, NEW i \in 1 .. Len(sent) + 1,
                         NEW j \in 1 .. Len(sent) + 1, i < j
                  PROVE  sent'[i].n < sent'[j].n
      BY <2>1, <2>5 DEF StreamInOrder
    <3>1. i \in 1 .. Len(sent) /\ sent'[i] = sent[i]
      BY <1>1, <2>4
    <3>2. CASE j \in 1 .. Len(sent)
      BY <3>1, <3>2, <1>1, <2>4 DEF SentInv, StreamInOrder
    <3>3. CASE j = Len(sent) + 1
      BY <3>1, <3>3, <1>1, <2>2, <2>4 DEF SentInv
    <3>. QED
      BY <3>2, <3>3, <1>1
  <2>. QED
    BY <2>1, <2>9, <2>10, <2>11, <2>12, <2>13, <2>14, <2>15 DEF SentInv
<1>6. CASE \/ StartFails \/ StopBegin \/ JoinProducer \/ JoinSender
           \/ StopCheck \/ StopRaise
  <2>1. UNCHANGED <<sent, overlapped, spc, payload>>
    BY <1>6 DEF StartFails, StopBegin, JoinProducer, JoinSender, StopCheck, StopRaise
  <2>. QED
    BY <2>1, SentFrame DEF Holds
<1>7. CASE StopClose
  <2>1. UNCHANGED <<sent, overlapped>>
    BY <1>7 DEF StopClose
  <2>2. \A s \in Senders : Holds(s)' => Holds(s) /\ payload'[s] = payload[s]
    BY <1>1, <1>7 DEF StopClose, DieOfClosedFile, Holds, Holding
  <2>. QED
    BY <2>1, <2>2, SentFrame
<1>8. CASE Producer
  <2>1. UNCHANGED <<sent, overlapped, spc, payload>>
    BY <1>8 DEF Producer, ProducerExit, Generate, PushRecord
  <2>. QED
    BY <2>1, SentFrame DEF Holds
<1>9. ASSUME NEW t \in Senders,
             \/ SendLoop(t) \/ ConnectOk(t) \/ ConnectFails(t)
             \/ StopStreaming(t) \/ CapturePosition(t) \/ RecheckCapture(t)
             \/ WriteCapture(t) \/ SendFails(t) \/ Rollback(t)
             \/ StoreError(t) \/ SetStop(t)
      PROVE  SentInv'
  <2>1. UNCHANGED <<sent, overlapped>>
    BY <1>9 DEF SendLoop, ConnectOk, ConnectFails, StopStreaming,
       CapturePosition, RecheckCapture, WriteCapture, SendFails, Rollback,
       StoreError, SetStop
  <2>2. \A s \in Senders : Holds(s)' => Holds(s) /\ payload'[s] = payload[s]
    <3>1. CASE SendLoop(t) \/ ConnectOk(t) \/ ConnectFails(t) \/ StopStreaming(t)
      BY <3>1, <1>1 DEF SendLoop, ConnectOk, ConnectFails, StopStreaming, GoOn,
         Holds, Holding
    <3>2. CASE CapturePosition(t)
      BY <3>2, <1>1 DEF CapturePosition, GoOn, Holds, Holding
    <3>3. CASE RecheckCapture(t)
      BY <3>3, <1>1 DEF RecheckCapture, GoOn, LetGo, Holds, Holding
    <3>4. CASE WriteCapture(t)
      BY <3>4, <1>1 DEF WriteCapture, GoOn, LetGo, Holds, Holding
    <3>5. CASE SendFails(t) \/ Rollback(t)
      BY <3>5, <1>1 DEF SendFails, Rollback, GoOn, LetGo, Holds, Holding
    <3>6. CASE StoreError(t) \/ SetStop(t)
      BY <3>6, <1>1 DEF StoreError, SetStop, GoOn, Holds, Holding
    <3>. QED
      BY <1>9, <3>1, <3>2, <3>3, <3>4, <3>5, <3>6
  <2>. QED
    BY <2>1, <2>2, SentFrame
<1>10. CASE UNCHANGED vars
  BY <1>10, SentFrame DEF vars, Holds
<1>. QED
  BY <1>3, <1>4, <1>5, <1>6, <1>7, <1>8, <1>9, <1>10
     DEF Next, Owner, StopContinues, Sender

\* No record is sent twice, even when two senders run at a time.
THEOREM NothingSentTwice == Spec => []NoDuplicates
<1>1. SentInv => NoDuplicates
  BY DEF SentInv
<1>. QED
  BY <1>1, InitIInv, NextIInv, InitControlInv, NextControlInv, InitSentInv,
     NextSentInv, PTL DEF Spec

\* Over reconnections, failed sends and restarts the records are sent in the
\* order of generation, as long as no start() met a sender still alive.
THEOREM SentInOrder == Spec => []StreamInOrder
<1>1. SentInv => StreamInOrder
  BY DEF SentInv
<1>. QED
  BY <1>1, InitIInv, NextIInv, InitControlInv, NextControlInv, InitSentInv,
     NextSentInv, PTL DEF Spec
-------------------------------------------------------------------------------
(***************************************************************************)
(* What the capture file holds.  CaptureFaithful is not inductive: that a  *)
(* rollback leaves exactly what was sent takes that the position the       *)
(* sender has remembered is where its own record begins, that the file was *)
(* open when it looked, and that no one else has written since.            *)
(***************************************************************************)
SessionSent == SubSeq(sent, sessionStart + 1, Len(sent))

InHand(s) == IF spc[s] \in {"sending", "rollback"} THEN <<payload[s]>> ELSE <<>>

Placed == {"write", "sending", "rollback"}

\* A sender that has a record and no position in the file.
Placeless == {"tellFailed", "tellStored", "recheck"}

Undisturbed ==
    CaptureEnabled /\ starts > 0 /\ ~tainted /\ ~overlapped /\ starts \notin abandoned

SessionBook ==
    /\ sessionStart <= Len(sent)
    /\ abandoned \subseteq 1 .. starts
    /\ CaptureEnabled /\ (running \/ mpc \in {"joinProducer", "joinSender"})
          => captureOpen

FileInv ==
    Undisturbed =>
        /\ capture = SessionSent \o InHand(starts)
        /\ spc[starts] \notin Placeless
        /\ spc[starts] \in Placed => position[starts] = Len(SessionSent)

\* Before the first session there is none to hold anything.
LEMMA InitCaptureInv == Init => SessionBook /\ FileInv
BY EmptySeq DEF Init, SessionBook, FileInv, Undisturbed

\* The file is open as long as the session lasts; whoever is given up on was
\* the sender of some session.
LEMMA NextSessionBook ==
    IInv /\ ControlInv /\ SessionBook /\ [Next]_vars => SessionBook'
<1>. SUFFICES ASSUME IInv, ControlInv, SessionBook, [Next]_vars
              PROVE  SessionBook'
  OBVIOUS
<1>1. /\ sent \in Seq(Records) /\ Len(sent) \in Nat /\ sessionStart \in Nat
      /\ starts \in Nat
      /\ \A s \in Senders : payload[s] \in Records \cup {NoRecord}
      /\ \A s \in Senders : spc[s] \in Holding => payload[s] \in Records
  BY LenProperties, SensorProducerAssumption
     DEF IInv, DataInv, HistoryTypes, OwnerTypes, SendersHold, SenderTypes
<1>. USE DEF ControlInv, SessionBook, ownerVars, captureVars, historyVars
<1>2. CASE Start
  BY <1>1, <1>2 DEF Start
<1>3. CASE StartFails
  BY <1>3 DEF StartFails
<1>4. CASE StopBegin
  BY <1>4 DEF StopBegin
<1>5. CASE JoinProducer
  BY <1>5 DEF JoinProducer
<1>6. CASE JoinSender
  <2>1. abandoned' \subseteq abandoned \cup {starts} /\ starts' = starts
        /\ starts \in 1 .. starts
    <3>1. starts \in 1 .. starts
      BY <1>1, <1>6 DEF JoinSender, IInv, DataInv, OwnerTypes, Senders
    <3>. QED
      BY <1>6, <3>1 DEF JoinSender
  <2>. QED
    BY <1>6, <2>1 DEF JoinSender
<1>7. CASE StopClose \/ StopCheck \/ StopRaise
  <2>1. /\ UNCHANGED <<sent, sessionStart, abandoned, starts, running>>
        /\ ~running /\ mpc' \notin {"joinProducer", "joinSender"}
    BY <1>7 DEF StopClose, StopCheck, StopRaise, EndStop
  <2>. QED
    BY <2>1
<1>8. CASE Producer
  BY <1>8 DEF Producer, ProducerExit, Generate, PushRecord
<1>9. ASSUME NEW s \in Senders, SendOk(s) PROVE SessionBook'
  <2>1. /\ sent' = Append(sent, payload[s]) /\ payload[s] \in Records
        /\ UNCHANGED <<sessionStart, abandoned, starts, running, mpc, captureOpen>>
    BY <1>1, <1>9 DEF SendOk, Holding
  <2>2. Len(sent') = Len(sent) + 1
    BY <1>1, <2>1, AppendProperties
  <2>3. sessionStart' <= Len(sent')
    BY <1>1, <2>1, <2>2
  <2>. QED
    BY <2>1, <2>3
<1>10. ASSUME NEW s \in Senders, Sender(s), ~SendOk(s) PROVE SessionBook'
  <2>1. UNCHANGED <<sent, sessionStart, abandoned, starts, running, mpc, captureOpen>>
    BY <1>10 DEF Sender, SendLoop, ConnectOk, ConnectFails, StopStreaming,
       PopRecord, CapturePosition, RecheckCapture, WriteCapture, SendFails,
       Rollback, CaptureFails, StoreError, SetStop
  <2>. QED
    BY <2>1
<1>11. CASE UNCHANGED vars
  BY <1>11 DEF vars
<1>. QED
  BY <1>2, <1>3, <1>4, <1>5, <1>6, <1>7, <1>8, <1>9, <1>10, <1>11
     DEF Next, Owner, StopContinues

\* The only sender alive is the last one, and it has the file.
LEMMA AliveHasFile ==
    ASSUME ControlInv, SessionBook, Undisturbed, NEW s \in Senders, spc[s] # "off"
    PROVE  s = starts /\ captureOpen
BY DEF ControlInv, SessionBook, Undisturbed

\* The records that this session has sent.
LEMMA SessionSentTyped ==
    ASSUME IInv, SessionBook
    PROVE  /\ SessionSent \in Seq(Records)
           /\ Len(SessionSent) = Len(sent) - sessionStart
           /\ Len(SessionSent) \in Nat
           /\ sent \in Seq(Records) /\ Len(sent) \in Nat /\ sessionStart \in Nat
           /\ \A j \in 1 .. Len(sent) - sessionStart :
                 SessionSent[j] = sent[sessionStart + j]
<1>1. /\ sent \in Seq(Records) /\ Len(sent) \in Nat /\ sessionStart \in Nat
      /\ sessionStart <= Len(sent)
  BY LenProperties DEF IInv, DataInv, HistoryTypes, SessionBook
<1>2. \A j \in sessionStart + 1 .. Len(sent) : sent[j] \in Records
  BY <1>1, ElementOfSeq
<1>3. /\ SessionSent \in Seq(Records)
      /\ Len(SessionSent) = IF sessionStart + 1 <= Len(sent)
                            THEN Len(sent) - (sessionStart + 1) + 1 ELSE 0
      /\ \A j \in 1 .. Len(sent) - (sessionStart + 1) + 1 :
            SessionSent[j] = sent[sessionStart + 1 + j - 1]
  BY <1>1, <1>2, SubSeqProperties DEF SessionSent
<1>4. Len(SessionSent) = Len(sent) - sessionStart
  BY <1>1, <1>3
<1>5. \A j \in 1 .. Len(sent) - sessionStart : SessionSent[j] = sent[sessionStart + j]
  BY <1>1, <1>3
<1>. QED
  BY <1>1, <1>3, <1>4, <1>5

\* The steps that neither write nor send, and after which the last sender has
\* the same record on its way as before.
LEMMA FileFrame ==
    ASSUME FileInv,
           UNCHANGED <<capture, sent, sessionStart>>,
           Undisturbed' =>
              /\ Undisturbed
              /\ starts' = starts
              /\ InHand(starts)' = InHand(starts)
              /\ spc'[starts] \notin Placeless
              /\ spc'[starts] \in Placed =>
                    /\ spc[starts] \in Placed
                    /\ position'[starts] = position[starts]
    PROVE  FileInv'
<1>. SUFFICES ASSUME Undisturbed' PROVE FileInv'
  BY DEF FileInv
<1>1. SessionSent' = SessionSent
  BY DEF SessionSent
<1>2. InHand(starts)' = InHand(starts) /\ starts' = starts
  OBVIOUS
<1>. QED
  BY <1>1, <1>2 DEF FileInv

\* The sender that wrote a record sends it, or takes back what it wrote and
\* nothing else.
LEMMA NextFileInv ==
    IInv /\ ControlInv /\ SessionBook /\ FileInv /\ [Next]_vars => FileInv'
<1>. SUFFICES ASSUME IInv, ControlInv, SessionBook, FileInv, [Next]_vars
              PROVE  FileInv'
  OBVIOUS
<1>. USE DEF bufferVars, producerVars, senderVars, ownerVars, captureVars,
             historyVars
<1>1. /\ spc \in [Senders -> SenderStates]
      /\ payload \in [Senders -> Records \cup {NoRecord}]
      /\ position \in [Senders -> Nat \cup {NoPosition}]
      /\ \A s \in Senders : Holds(s) => payload[s] \in Records
      /\ capture \in Seq(Records \cup {Torn})
      /\ starts \in Nat
      /\ starts > 0 => starts \in Senders
  BY SensorProducerAssumption
     DEF IInv, DataInv, SenderTypes, SendersHold, Holds, CaptureTypes, OwnerTypes,
         Senders
<1>2. /\ SessionSent \in Seq(Records) /\ Len(SessionSent) \in Nat
      /\ sent \in Seq(Records) /\ Len(sent) \in Nat /\ sessionStart \in Nat
      /\ sessionStart <= Len(sent)
  BY SessionSentTyped DEF SessionBook
<1>3. CASE Start
  <2>. SUFFICES ASSUME Undisturbed' PROVE FileInv'
    BY DEF FileInv
  <2>1. /\ capture' = <<>> /\ sent' = sent /\ sessionStart' = Len(sent)
        /\ starts' = starts + 1 /\ spc' = [spc EXCEPT ![starts + 1] = "loop"]
    BY <1>3 DEF Start, Undisturbed
  <2>2. starts' \in Senders /\ spc'[starts'] = "loop"
    BY <1>1, <1>3, <2>1, SensorProducerAssumption DEF Start, Senders
  <2>3. SessionSent' = <<>>
    <3>1. Len(sent) + 1 \in Int /\ Len(sent) \in Int /\ Len(sent) < Len(sent) + 1
      BY <1>2
    <3>2. SubSeq(sent, Len(sent) + 1, Len(sent)) = <<>>
      BY <3>1, SubSeqEmpty
    <3>. QED
      BY <2>1, <3>2 DEF SessionSent
  <2>4. InHand(starts)' = <<>>
    BY <2>2 DEF InHand
  <2>5. <<>> \o <<>> = <<>>
    OBVIOUS
  <2>. QED
    BY <2>1, <2>2, <2>3, <2>4, <2>5 DEF FileInv, Placed, Placeless
<1>4. CASE \/ StartFails \/ StopBegin \/ JoinProducer \/ JoinSender
           \/ StopCheck \/ StopRaise
  <2>1. /\ UNCHANGED <<capture, sent, sessionStart, spc, payload, position, starts>>
        /\ Undisturbed' => Undisturbed
    BY <1>4 DEF StartFails, StopBegin, JoinProducer, JoinSender, StopCheck,
       StopRaise, Undisturbed
  <2>. QED
    BY <2>1, FileFrame, Zenon DEF InHand, FileInv
<1>5. CASE StopClose
  <2>1. UNCHANGED <<capture, sent, sessionStart, starts, overlapped, abandoned>>
    BY <1>5 DEF StopClose
  <2>2. Undisturbed' => Undisturbed
    BY <1>5 DEF StopClose, Undisturbed
  <2>3. ASSUME Undisturbed
        PROVE  /\ spc'[starts] = spc[starts] /\ payload'[starts] = payload[starts]
               /\ position'[starts] = position[starts]
    <3>1. spc[starts] = "off" /\ starts \in Senders
      BY <1>1, <1>5, <2>3 DEF StopClose, ControlInv, Undisturbed
    <3>. QED
      BY <1>1, <1>5, <3>1 DEF StopClose, DieOfClosedFile, CaptureCalls
  <2>. QED
    BY <2>1, <2>2, <2>3, FileFrame DEF InHand, FileInv
<1>6. CASE Producer
  <2>1. /\ UNCHANGED <<capture, sent, sessionStart, spc, payload, position, starts>>
        /\ Undisturbed' => Undisturbed
    BY <1>6 DEF Producer, ProducerExit, Generate, PushRecord, Undisturbed
  <2>. QED
    BY <2>1, FileFrame, Zenon DEF InHand, FileInv
<1>7. CASE UNCHANGED vars
  <2>1. /\ UNCHANGED <<capture, sent, sessionStart, spc, payload, position, starts>>
        /\ Undisturbed' => Undisturbed
    BY <1>7 DEF vars, Undisturbed
  <2>. QED
    BY <2>1, FileFrame, Zenon DEF InHand, FileInv
<1>8. ASSUME NEW t \in Senders,
             \/ SendLoop(t) \/ ConnectOk(t) \/ ConnectFails(t)
             \/ StopStreaming(t) \/ PopRecord(t) \/ RecheckCapture(t) \/ SendFails(t)
             \/ StoreError(t) \/ SetStop(t)
      PROVE  FileInv'
  <2>1. /\ UNCHANGED <<capture, sent, sessionStart, starts>>
        /\ Undisturbed' => Undisturbed
        /\ spc[t] # "off"
    BY <1>8 DEF SendLoop, ConnectOk, ConnectFails, StopStreaming, PopRecord,
       RecheckCapture, SendFails, StoreError, SetStop, Undisturbed
  <2>2. ASSUME Undisturbed
        PROVE  /\ InHand(starts)' = InHand(starts)
               /\ spc'[starts] \notin Placeless
               /\ spc'[starts] \in Placed =>
                     /\ spc[starts] \in Placed
                     /\ position'[starts] = position[starts]
    <3>1. t = starts /\ spc[t] \notin Placeless
      BY <2>1, <2>2, AliveHasFile DEF FileInv
    <3>2. CASE SendLoop(t) \/ ConnectOk(t) \/ ConnectFails(t) \/ StopStreaming(t)
      BY <1>1, <2>1, <3>1, <3>2 DEF SendLoop, ConnectOk, ConnectFails,
         StopStreaming, GoOn, InHand, Placed, Placeless
    <3>3. CASE PopRecord(t)
      BY <1>1, <2>1, <3>1, <3>3 DEF PopRecord, InHand, Placed, Placeless
    <3>4. CASE RecheckCapture(t)
      BY <3>1, <3>4 DEF RecheckCapture, Placeless
    <3>5. CASE SendFails(t)
      <4>1. position[t] = Len(SessionSent) /\ spc[t] = "sending"
        BY <2>2, <3>1, <3>5 DEF SendFails, FileInv, Placed
      <4>2. position[t] # NoPosition
        BY <1>2, <4>1 DEF NoPosition
      <4>3. spc' = [spc EXCEPT ![t] = "rollback"] /\ UNCHANGED <<payload, position>>
        BY <3>5, <4>2 DEF SendFails, GoOn
      <4>4. spc'[t] = "rollback"
        BY <1>1, <4>3
      <4>. QED
        BY <2>1, <3>1, <4>1, <4>3, <4>4 DEF InHand, Placed, Placeless
    <3>6. CASE StoreError(t) \/ SetStop(t)
      <4>1. UNCHANGED <<payload, position>>
        BY <3>6 DEF StoreError, SetStop, GoOn
      <4>2. /\ spc[t] \in {"failed", "stored"}
            /\ spc' = [spc EXCEPT ![t] = IF spc[t] = "failed" THEN "stored" ELSE "loop"]
        BY <3>1, <3>6 DEF StoreError, SetStop, GoOn, Placeless
      <4>3. starts \in Senders /\ spc[starts] \in {"failed", "stored"}
        BY <3>1, <4>2
      <4>4. spc'[starts] \in {"stored", "loop"}
        BY <1>1, <3>1, <4>2, <4>3
      <4>5. InHand(starts) = <<>> /\ InHand(starts)' = <<>>
        BY <2>1, <4>3, <4>4 DEF InHand
      <4>. QED
        BY <4>4, <4>5 DEF Placed, Placeless
    <3>. QED
      BY <1>8, <3>2, <3>3, <3>4, <3>5, <3>6
  <2>. QED
    BY <2>1, <2>2, FileFrame
<1>9. ASSUME NEW t \in Senders, CapturePosition(t) PROVE FileInv'
  <2>. SUFFICES ASSUME Undisturbed' PROVE FileInv'
    BY DEF FileInv
  <2>1. /\ spc[t] = "position" /\ UNCHANGED <<sent, sessionStart, starts, payload>>
        /\ Undisturbed
    BY <1>9 DEF CapturePosition, Undisturbed, CaptureFails, GoOn
  <2>2. t = starts /\ captureOpen
    BY <2>1, AliveHasFile
  <2>3. /\ position' = [position EXCEPT ![t] = Len(capture)]
        /\ spc' = [spc EXCEPT ![t] = "write"] /\ capture' = capture
    BY <1>9, <2>2 DEF CapturePosition, CaptureFails, GoOn, Undisturbed
  <2>4. capture = SessionSent \o <<>> /\ SessionSent \o <<>> = SessionSent
    <3>1. capture = SessionSent \o InHand(starts)
      BY <2>1 DEF FileInv
    <3>. QED
      BY <1>2, <2>1, <2>2, <3>1, ConcatEmptySeq DEF InHand
  <2>5. spc'[starts] = "write" /\ position'[starts] = Len(SessionSent)
    BY <1>1, <2>2, <2>3, <2>4
  <2>6. SessionSent' = SessionSent
    BY <2>1 DEF SessionSent
  <2>7. InHand(starts)' = <<>>
    BY <2>1, <2>5 DEF InHand
  <2>. QED
    BY <2>1, <2>3, <2>4, <2>5, <2>6, <2>7 DEF FileInv, Placeless
<1>10. ASSUME NEW t \in Senders, WriteCapture(t) PROVE FileInv'
  <2>. SUFFICES ASSUME Undisturbed' PROVE FileInv'
    BY DEF FileInv
  <2>1. /\ spc[t] = "write" /\ UNCHANGED <<sent, sessionStart, starts>>
        /\ Undisturbed
    BY <1>10 DEF WriteCapture, Undisturbed, CaptureFails
  <2>2. t = starts /\ captureOpen
    BY <2>1, AliveHasFile
  <2>3. /\ capture' = Append(capture, payload[t])
        /\ spc' = [spc EXCEPT ![t] = "sending"] /\ UNCHANGED <<payload, position>>
    BY <1>10, <2>2 DEF WriteCapture, CaptureFails, Undisturbed, GoOn
  <2>4. capture = SessionSent
    <3>1. capture = SessionSent \o InHand(starts)
      BY <2>1 DEF FileInv
    <3>2. InHand(starts) = <<>>
      BY <2>1, <2>2 DEF InHand
    <3>. QED
      BY <1>2, <3>1, <3>2, ConcatEmptySeq
  <2>5. payload[t] \in Records
    BY <1>1, <2>1 DEF Holds, Holding
  <2>6. capture' = SessionSent \o <<payload[t]>>
    BY <1>2, <2>3, <2>4, <2>5, AppendIsConcat
  <2>7. spc'[starts] = "sending" /\ position'[starts] = Len(SessionSent)
    <3>1. position[starts] = Len(SessionSent)
      BY <2>1, <2>2 DEF FileInv, Placed
    <3>. QED
      BY <1>1, <2>2, <2>3, <3>1
  <2>8. SessionSent' = SessionSent
    BY <2>1 DEF SessionSent
  <2>9. InHand(starts)' = <<payload[t]>>
    BY <2>1, <2>2, <2>3, <2>7 DEF InHand
  <2>. QED
    BY <2>1, <2>6, <2>7, <2>8, <2>9 DEF FileInv, Placeless
<1>11. ASSUME NEW t \in Senders, SendOk(t) PROVE FileInv'
  <2>. SUFFICES ASSUME Undisturbed' PROVE FileInv'
    BY DEF FileInv
  <2>1. /\ spc[t] = "sending" /\ sent' = Append(sent, payload[t])
        /\ UNCHANGED <<sessionStart, starts, capture>>
        /\ spc' = [spc EXCEPT ![t] = "streaming"]
        /\ Undisturbed
    BY <1>11 DEF SendOk, LetGo, Undisturbed
  <2>2. t = starts
    BY <2>1, AliveHasFile
  <2>3. capture = SessionSent \o <<payload[t]>>
    BY <2>1, <2>2 DEF FileInv, InHand
  <2>4. payload[t] \in Records
    BY <1>1, <2>1 DEF Holds, Holding
  <2>5. PICK x \in Records : x = payload[t]
    BY <2>4
  <2>6. PICK u : u = Append(sent, x)
    OBVIOUS
  <2>7. PICK l : l = sessionStart
    OBVIOUS
  <2>8. SubSeq(u, l + 1, Len(u)) = SessionSent \o <<x>>
    <3>1. /\ u \in Seq(Records) /\ Len(u) = Len(sent) + 1
          /\ \A j \in 1 .. Len(sent) : u[j] = sent[j]
          /\ u[Len(sent) + 1] = x
      BY <1>2, <2>5, <2>6, AppendProperties
    <3>2. \A j \in l + 1 .. Len(u) : u[j] \in Records
      BY <1>2, <2>7, <3>1, ElementOfSeq
    <3>3. PICK v : v = SubSeq(u, l + 1, Len(u))
      OBVIOUS
    <3>4. /\ v \in Seq(Records)
          /\ Len(v) = IF l + 1 <= Len(u) THEN Len(u) - (l + 1) + 1 ELSE 0
          /\ \A j \in 1 .. Len(u) - (l + 1) + 1 : v[j] = u[l + 1 + j - 1]
      <4>1. l + 1 \in Int /\ Len(u) \in Int
        BY <1>2, <2>7, <3>1
      <4>. QED
        BY <3>2, <3>3, <4>1, SubSeqProperties
    <3>5. PICK m : m = SessionSent
      OBVIOUS
    <3>6. /\ m \in Seq(Records) /\ Len(m) = Len(sent) - l
          /\ \A j \in 1 .. Len(sent) - l : m[j] = sent[l + j]
      BY <2>7, <3>5, SessionSentTyped
    <3>7. PICK w : w = Append(m, x)
      OBVIOUS
    <3>8. /\ w \in Seq(Records) /\ Len(w) = Len(m) + 1
          /\ \A j \in 1 .. Len(m) : w[j] = m[j]
          /\ w[Len(m) + 1] = x
      BY <2>5, <3>6, <3>7, AppendProperties
    <3>9. Len(v) = Len(w)
      BY <1>2, <2>7, <3>1, <3>4, <3>6, <3>8
    <3>10. \A j \in 1 .. Len(v) : v[j] = w[j]
      <4>. TAKE j \in 1 .. Len(v)
      <4>1. Len(v) = Len(sent) - l + 1 /\ l \in Nat /\ Len(sent) \in Nat
        BY <1>2, <2>7, <3>6, <3>8, <3>9
      <4>2. v[j] = u[l + j]
        <5>1. j \in 1 .. Len(u) - (l + 1) + 1 /\ l + 1 + j - 1 = l + j
          BY <3>1, <4>1
        <5>. QED
          BY <3>4, <5>1
      <4>3. CASE j = Len(sent) - l + 1
        BY <3>1, <3>6, <3>8, <4>1, <4>2, <4>3
      <4>4. CASE j # Len(sent) - l + 1
        <5>1. j \in 1 .. Len(sent) - l /\ l + j \in 1 .. Len(sent) /\ j \in 1 .. Len(m)
          BY <3>6, <4>1, <4>4
        <5>. QED
          BY <3>1, <3>6, <3>8, <4>2, <5>1
      <4>. QED
        BY <4>3, <4>4
    <3>11. v = w
      BY <3>4, <3>8, <3>9, <3>10, SeqEqual
    <3>12. w = m \o <<x>>
      BY <2>5, <3>6, <3>7, AppendIsConcat
    <3>. QED
      BY <3>3, <3>5, <3>11, <3>12
  <2>9. SessionSent' = SessionSent \o <<payload[t]>>
    <3>1. sent' = u /\ sessionStart' = l
      BY <2>1, <2>5, <2>6, <2>7
    <3>2. SessionSent' = SubSeq(u, l + 1, Len(u))
      BY <3>1 DEF SessionSent
    <3>. QED
      BY <2>5, <2>8, <3>2
  <2>10. spc'[starts] = "streaming"
    BY <1>1, <2>1, <2>2
  <2>11. InHand(starts)' = <<>>
    BY <2>1, <2>10 DEF InHand
  <2>12. capture \o <<>> = capture
    BY <1>1, ConcatEmptySeq
  <2>. QED
    BY <2>1, <2>3, <2>9, <2>10, <2>11, <2>12 DEF FileInv, Placed, Placeless
<1>12. ASSUME NEW t \in Senders, Rollback(t) PROVE FileInv'
  <2>. SUFFICES ASSUME Undisturbed' PROVE FileInv'
    BY DEF FileInv
  <2>1. /\ spc[t] = "rollback" /\ UNCHANGED <<sent, sessionStart, starts>>
        /\ spc' = [spc EXCEPT ![t] = "loop"]
        /\ Undisturbed
    BY <1>12 DEF Rollback, LetGo, Undisturbed, CaptureFails
  <2>2. t = starts /\ captureOpen
    BY <2>1, AliveHasFile
  <2>3. capture' = Truncated(position[t])
    BY <1>12, <2>2 DEF Rollback, CaptureFails, Undisturbed
  <2>4. capture = SessionSent \o <<payload[t]>> /\ position[t] = Len(SessionSent)
    BY <2>1, <2>2 DEF FileInv, InHand, Placed
  <2>5. payload[t] \in Records
    BY <1>1, <2>1 DEF Holds, Holding
  <2>6. PICK m \in Seq(Records) : m = SessionSent
    BY <1>2
  <2>7. PICK x \in Records : x = payload[t]
    BY <2>5
  <2>8. PICK c : c = capture
    OBVIOUS
  <2>9. c = m \o <<x>> /\ position[t] = Len(m) /\ Len(m) \in Nat
    BY <1>2, <2>4, <2>6, <2>7, <2>8
  <2>10. <<x>> \in Seq(Records) /\ Len(<<x>>) = 1
    BY <2>7
  <2>11. Len(c) = Len(m) + 1 /\ SubSeq(c, 1, Len(m)) = m
    <3>1. Len(m \o <<x>>) = Len(m) + Len(<<x>>)
      BY <2>6, <2>10, ConcatProperties
    <3>2. SubSeq(m \o <<x>>, 1, Len(m)) = m
      BY <2>6, <2>10, SplitConcat
    <3>. QED
      BY <2>9, <2>10, <3>1, <3>2
  <2>12. capture' = SessionSent
    <3>1. position[t] <= Len(capture)
      BY <2>8, <2>9, <2>11
    <3>2. Truncated(position[t]) = SubSeq(capture, 1, position[t])
      BY <3>1 DEF Truncated
    <3>. QED
      BY <2>3, <2>6, <2>8, <2>9, <2>11, <3>2
  <2>13. SessionSent' = SessionSent
    BY <2>1 DEF SessionSent
  <2>14. spc'[starts] = "loop"
    BY <1>1, <2>1, <2>2
  <2>15. InHand(starts)' = <<>>
    BY <2>1, <2>14 DEF InHand
  <2>16. SessionSent \o <<>> = SessionSent
    BY <1>2, ConcatEmptySeq
  <2>. QED
    BY <2>1, <2>12, <2>13, <2>14, <2>15, <2>16 DEF FileInv, Placed, Placeless
<1>. QED
  BY <1>3, <1>4, <1>5, <1>6, <1>7, <1>8, <1>9, <1>10, <1>11, <1>12
     DEF Next, Owner, StopContinues, Sender

\* CaptureFaithful.  As long as no capture call failed, no start() met an old
\* sender and the session's own sender was not given up on, the capture file is
\* byte for byte what the session has sent, and the one record on its way.
THEOREM CaptureIsWhatWasSent == Spec => []CaptureFaithful
<1>1. IInv /\ ControlInv /\ FileInv => CaptureFaithful
  <2>. SUFFICES ASSUME IInv, ControlInv, FileInv, Undisturbed
                PROVE  capture = SubSeq(sent, sessionStart + 1, Len(sent)) \o InFlight
    BY DEF CaptureFaithful, Undisturbed
  <2>1. capture = SessionSent \o InHand(starts)
    BY DEF FileInv
  <2>2. \A s \in Senders : spc[s] # "off" => s = starts
    BY DEF ControlInv, Undisturbed
  <2>3. starts \in Senders
    BY SensorProducerAssumption DEF IInv, DataInv, OwnerTypes, Senders, Undisturbed
  <2>4. CASE spc[starts] \in {"sending", "rollback"}
    <3>1. {s \in Senders : spc[s] \in {"sending", "rollback"}} = {starts}
      BY <2>2, <2>3, <2>4
    <3>2. (CHOOSE s \in {starts} : TRUE) = starts
      OBVIOUS
    <3>3. InFlight = <<payload[starts]>>
      BY <3>1, <3>2 DEF InFlight
    <3>. QED
      BY <2>1, <2>4, <3>3 DEF SessionSent, InHand
  <2>5. CASE spc[starts] \notin {"sending", "rollback"}
    <3>1. {s \in Senders : spc[s] \in {"sending", "rollback"}} = {}
      BY <2>2, <2>5
    <3>2. InFlight = <<>>
      BY <3>1 DEF InFlight
    <3>. QED
      BY <2>1, <2>5, <3>2 DEF SessionSent, InHand
  <2>. QED
    BY <2>4, <2>5
<1>. QED
  BY <1>1, InitIInv, NextIInv, InitControlInv, NextControlInv, InitCaptureInv,
     NextSessionBook, NextFileInv, PTL DEF Spec
-------------------------------------------------------------------------------
(***************************************************************************)
(* The process.  While it lives each of its steps is one of SensorProducer *)
(* or leaves it alone, so what holds of any owner holds of main.  What has *)
(* to be added is that main calls start() once, and where stop() stands at *)
(* each of its stages, from the file that never was to the exit code.      *)
(***************************************************************************)
ProducerInv == IInv /\ ControlInv /\ SessionInv /\ SessionBook /\ FileInv

FirstSession ==
    /\ sessionStart = 0
    /\ ~overlapped
    /\ starts = 0 =>
        /\ ~running
        /\ joining = 0
        /\ mpc \in {"idle", "close", "check", "raise"}
        /\ capture = <<>>
        /\ sent = <<>>
        /\ abandoned = {}

StageInv ==
    /\ status \in 0 .. 2
    /\ main \in {"load", "start"} => starts = 0 /\ outcome = "none"
    /\ main # "stopping" => mpc = "idle"
    /\ main \in {"stopping", "exit"} => ~running
    /\ main = "exit" /\ status = 0 => outcome # "raised"

CliInv ==
    /\ Alive => ProducerInv /\ FirstSession /\ StageInv
    /\ ExitZeroIsClean

\* The process begins with a producer that was never started.
LEMMA InitCliInv == CliInit => CliInv
<1>. SUFFICES ASSUME CliInit PROVE CliInv
  OBVIOUS
<1>1. ProducerInv
  BY InitIInv, InitControlInv, InitSessionInv, InitCaptureInv
     DEF CliInit, ProducerInv
<1>. QED
  BY <1>1 DEF CliInit, Init, CliInv, FirstSession, StageInv, ExitZeroIsClean

\* A living process is an owner like any other.
LEMMA NextProducerInv == ProducerInv /\ [Next]_vars => ProducerInv'
BY NextIInv, NextControlInv, NextSessionInv, NextSessionBook, NextFileInv
   DEF ProducerInv

\* While nothing has been started, no thread is there to send or write.
LEMMA NoThreadYet ==
    ASSUME ProducerInv, FirstSession, starts = 0
    PROVE  ppc = "off" /\ \A s \in Senders : spc[s] = "off"
BY DEF ProducerInv, ControlInv, FirstSession, Senders

\* The threads of the producer leave main and its view of stop() alone.
LEMMA ThreadsKeepStage ==
    ASSUME ProducerInv, FirstSession, StageInv,
           Producer \/ \E s \in Senders : Sender(s),
           UNCHANGED cliVars
    PROVE  FirstSession' /\ StageInv'
<1>1. UNCHANGED ownerVars /\ UNCHANGED <<sessionStart, abandoned, overlapped>>
  BY DEF Producer, ProducerExit, Generate, PushRecord, Sender, SendLoop, ConnectOk,
     ConnectFails, StopStreaming, PopRecord, CapturePosition, RecheckCapture,
     WriteCapture, SendOk, SendFails, Rollback, CaptureFails, StoreError, SetStop,
     captureVars, historyVars
<1>2. ASSUME starts = 0 PROVE FALSE
  BY <1>2, NoThreadYet
     DEF Producer, ProducerExit, Generate, PushRecord, Sender, SendLoop, ConnectOk,
     ConnectFails, StopStreaming, PopRecord, CapturePosition, RecheckCapture,
     WriteCapture, SendOk, SendFails, Rollback, StoreError, SetStop
<1>. QED
  BY <1>1, <1>2 DEF FirstSession, StageInv, ownerVars, cliVars

\* A step that does not touch the producer only has to keep main's stages.
LEMMA FirstSessionKept ==
    ASSUME FirstSession, UNCHANGED vars
    PROVE  FirstSession'
BY DEF FirstSession, vars, ownerVars, captureVars, historyVars

\* main starts and stops the producer, once each.
LEMMA OwnerKeepsStage ==
    ASSUME ProducerInv, FirstSession, StageInv, StartProducer \/ StopProducer
    PROVE  FirstSession' /\ StageInv' /\ [Next]_vars /\ exitCode' = exitCode
<1>. USE DEF FirstSession, StageInv, ownerVars, historyVars, captureVars
<1>1. CASE main = "start" /\ Start /\ main' = "print" /\ UNCHANGED status
           /\ UNCHANGED <<handler, shutdown, sigterm, watcher, exitCode>>
  <2>1. \A s \in Senders : spc[s] = "off"
    BY <1>1, NoThreadYet
  <2>2. ~overlapped'
    BY <1>1, <2>1 DEF Start
  <2>3. starts' = 1 /\ sessionStart' = 0
    <3>1. starts = 0 /\ sent = <<>>
      BY <1>1
    <3>2. starts' = starts + 1 /\ sessionStart' = Len(sent)
      BY <1>1 DEF Start
    <3>. QED
      BY <3>1, <3>2, EmptySeq
  <2>. QED
    BY <1>1, <2>2, <2>3 DEF Start, Next, Owner
<1>2. CASE main = "start" /\ StartFails /\ main' = "stop" /\ status' = 2
           /\ UNCHANGED <<handler, shutdown, sigterm, watcher, exitCode>>
  BY <1>2 DEF StartFails, Next, Owner
<1>3. CASE main = "stop" /\ StopBegin /\ main' = "stopping"
           /\ UNCHANGED <<handler, status, shutdown, sigterm, watcher, exitCode>>
  BY <1>3 DEF StopBegin, Next, Owner
<1>4. CASE /\ main = "stopping" /\ StopContinues
           /\ IF mpc' = "idle"
              THEN /\ main' = "exit"
                   /\ status' = IF outcome' = "raised" THEN 1 ELSE status
              ELSE UNCHANGED <<main, status>>
           /\ UNCHANGED <<handler, shutdown, sigterm, watcher, exitCode>>
  <2>1. /\ UNCHANGED <<running, starts, sessionStart, overlapped, capture, sent>>
        /\ ~running
        /\ [Next]_vars
    BY <1>4 DEF StopContinues, JoinProducer, JoinSender, StopClose, StopCheck,
       StopRaise, Next, Owner
  <2>2. starts = 0 => /\ joining' = 0 /\ abandoned' = {}
                      /\ mpc' \in {"idle", "close", "check", "raise"}
    BY <1>4 DEF StopContinues, JoinProducer, JoinSender, StopClose, StopCheck,
       StopRaise, EndStop
  <2>3. FirstSession'
    BY <2>1, <2>2
  <2>4. StageInv'
    BY <1>4, <2>1
  <2>. QED
    BY <1>4, <2>1, <2>3, <2>4
<1>. QED
  BY <1>1, <1>2, <1>3, <1>4 DEF StartProducer, StopProducer

\* Inside _wait_for_shutdown; and the stages in which a KeyboardInterrupt ends
\* the process.
WaitSteps == EnterWait \/ TestFlag \/ Notified \/ LeaveWait \/ RestoreHandler

LastStages == {"stop", "stopping", "exit", "ended"}

\* The rest of main, stdin and the signals leave the producer alone, or end
\* the process.
LEMMA OthersKeepStage ==
    ASSUME ProducerInv, FirstSession, StageInv,
           \/ LoadOk \/ LoadFails \/ PrintEndpoint \/ StartWatcher
           \/ InstallHandler \/ WaitSteps \/ StdinEnds \/ WatcherSets \/ Handler
           \/ Sigterm /\ sigterm = "handle"
           \/ Interrupt /\ main \notin LastStages
    PROVE  FirstSession' /\ StageInv' /\ UNCHANGED vars /\ exitCode' = exitCode
<1>. USE DEF WaitSteps, EnterWait, TestFlag, Notified, LeaveWait, RestoreHandler,
             Handler, HandlerLocks, HandlerSets, LastStages
<1>1. UNCHANGED vars /\ exitCode' = exitCode
  BY DEF LoadOk, LoadFails, PrintEndpoint, StartWatcher, InstallHandler, StdinEnds,
     WatcherSets, Sigterm, Interrupt
<1>2. FirstSession'
  BY <1>1, FirstSessionKept
<1>3. mpc' = mpc /\ running' = running /\ outcome' = outcome /\ starts' = starts
  BY <1>1 DEF vars, ownerVars
<1>4. StageInv'
  BY <1>3 DEF StageInv, FirstSession, LoadOk, LoadFails, PrintEndpoint, StartWatcher,
     InstallHandler, StdinEnds, WatcherSets, Sigterm, Interrupt
<1>. QED
  BY <1>1, <1>2, <1>4

\* At its last stage, with 0 in hand, the process has nothing to hide.
LEMMA ExitIsClean ==
    ASSUME ProducerInv, FirstSession, StageInv, main = "exit", status = 0
    PROVE  /\ ~captureOpen
           /\ abandoned = {} => ~tainted /\ (CaptureEnabled => capture = sent)
<1>1. mpc = "idle" /\ ~running /\ joining = 0 /\ outcome # "raised"
  BY DEF ProducerInv, SessionInv, StageInv
<1>2. ~captureOpen /\ (abandoned = {} => ~tainted)
  BY <1>1 DEF ProducerInv, SessionInv
<1>3. ASSUME CaptureEnabled, abandoned = {} PROVE capture = sent
  <2>1. CASE starts = 0
    BY <2>1 DEF FirstSession
  <2>2. CASE starts # 0
    <3>1. starts \in Senders
      BY <2>2, SensorProducerAssumption
         DEF ProducerInv, IInv, DataInv, OwnerTypes, Senders
    <3>2. Undisturbed
      BY <1>2, <1>3, <3>1 DEF Undisturbed, FirstSession, Senders
    <3>3. spc[starts] = "off"
      BY <1>1, <1>3, <3>1 DEF ProducerInv, ControlInv
    <3>4. capture = SessionSent \o <<>>
      BY <3>2, <3>3 DEF ProducerInv, FileInv, InHand
    <3>5. sent \in Seq(Records)
      BY DEF ProducerInv, IInv, DataInv, HistoryTypes
    <3>6. SessionSent = sent
      BY <3>5, SubSeqProperties, LenProperties DEF SessionSent, FirstSession
    <3>. QED
      BY <3>4, <3>5, <3>6, ConcatEmptySeq
  <2>. QED
    BY <2>1, <2>2
<1>. QED
  BY <1>2, <1>3

\* Only main, at its last stage, ends the process with what it has in hand; a
\* signal that ends it shows in the exit code.
LEMMA EndIsClean ==
    ASSUME ProducerInv, FirstSession, StageInv,
           \/ ExitProcess
           \/ EndProcess(Killed + 15)
           \/ EndProcess(Killed + 2)
    PROVE  exitCode' # -1 /\ ExitZeroIsClean'
<1>1. CASE ExitProcess
  <2>1. /\ exitCode' = status
        /\ main = "exit"
        /\ UNCHANGED <<tainted, captureOpen, abandoned, capture, sent>>
    BY <1>1 DEF ExitProcess, EndProcess, captureVars, historyVars
  <2>2. exitCode' # -1
    BY <2>1 DEF StageInv
  <2>3. status = 0 =>
           /\ ~captureOpen
           /\ abandoned = {} => ~tainted /\ (CaptureEnabled => capture = sent)
    BY <2>1, ExitIsClean
  <2>. QED
    BY <2>1, <2>2, <2>3 DEF ExitZeroIsClean
<1>2. CASE EndProcess(Killed + 15) \/ EndProcess(Killed + 2)
  <2>1. exitCode' = 143 \/ exitCode' = 130
    BY <1>2 DEF EndProcess, Killed
  <2>. QED
    BY <2>1 DEF ExitZeroIsClean
<1>. QED
  BY <1>1, <1>2

\* Each step of the process keeps CliInv.
LEMMA NextCliInv == CliInv /\ [CliNext]_allVars => CliInv'
<1>. SUFFICES ASSUME CliInv, [CliNext]_allVars PROVE CliInv'
  OBVIOUS
<1>1. CASE UNCHANGED allVars
  <2>1. UNCHANGED vars /\ UNCHANGED cliVars
    BY <1>1 DEF allVars
  <2>2. ProducerInv => ProducerInv'
    BY <2>1, NextProducerInv
  <2>3. FirstSession => FirstSession'
    BY <2>1, FirstSessionKept
  <2>4. /\ StageInv => StageInv'
        /\ ExitZeroIsClean => ExitZeroIsClean'
        /\ Alive' => Alive
    BY <2>1 DEF vars, cliVars, ownerVars, captureVars, historyVars, StageInv,
       ExitZeroIsClean, Alive
  <2>. QED
    BY <2>2, <2>3, <2>4 DEF CliInv
<1>2. CASE CliNext
  <2>1. Alive /\ ProducerInv /\ FirstSession /\ StageInv
    BY <1>2 DEF CliNext, CliInv
  <2>2. ASSUME FirstSession', StageInv', [Next]_vars, exitCode' = exitCode
        PROVE  CliInv'
    <3>1. ProducerInv'
      BY <2>1, <2>2, NextProducerInv
    <3>2. ExitZeroIsClean'
      BY <2>1, <2>2 DEF Alive, ExitZeroIsClean
    <3>. QED
      BY <2>2, <3>1, <3>2 DEF CliInv
  <2>3. ASSUME exitCode' # -1, ExitZeroIsClean' PROVE CliInv'
    BY <2>3 DEF CliInv, Alive
  <2>4. CASE StartProducer \/ StopProducer
    BY <2>1, <2>2, <2>4, OwnerKeepsStage
  <2>5. CASE \/ LoadOk \/ LoadFails \/ PrintEndpoint \/ StartWatcher
             \/ InstallHandler \/ WaitSteps \/ StdinEnds \/ WatcherSets \/ Handler
             \/ Sigterm /\ sigterm = "handle"
             \/ Interrupt /\ main \notin LastStages
    BY <2>1, <2>2, <2>5, OthersKeepStage
  <2>6. CASE ExitProcess \/ EndProcess(Killed + 15) \/ EndProcess(Killed + 2)
    BY <2>1, <2>3, <2>6, EndIsClean
  <2>7. CASE ProducerThread \/ \E s \in Senders : SenderThread(s)
    <3>1. UNCHANGED cliVars /\ (Producer \/ \E s \in Senders : Sender(s))
      BY <2>7 DEF ProducerThread, SenderThread
    <3>2. FirstSession' /\ StageInv'
      BY <2>1, <3>1, ThreadsKeepStage
    <3>. QED
      BY <2>2, <3>1, <3>2 DEF Next, cliVars
  <2>8. Sigterm => \/ Sigterm /\ sigterm = "handle"
                   \/ EndProcess(Killed + 15)
    BY DEF Sigterm
  <2>9. Interrupt => \/ Interrupt /\ main \notin LastStages
                     \/ EndProcess(Killed + 2)
    BY DEF Interrupt, LastStages
  <2>. QED
    BY <1>2, <2>4, <2>5, <2>6, <2>7, <2>8, <2>9
       DEF CliNext, Main, WaitSteps
<1>. QED
  BY <1>1, <1>2

\* ExitZeroIsClean.  Whoever ends the process and whenever, exit code 0 comes
\* after a stop() that closed the capture file; and if stop() gave up on no
\* sender, no capture call failed and the file holds what was sent.
THEOREM ExitCodeIsHonest == CliSpec => []ExitZeroIsClean
<1>1. CliInv => ExitZeroIsClean
  BY DEF CliInv
<1>. QED
  BY <1>1, InitCliInv, NextCliInv, PTL DEF CliSpec
===============================================================================
