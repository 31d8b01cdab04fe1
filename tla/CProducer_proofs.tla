--------------------------- MODULE CProducer_proofs ---------------------------
(***************************************************************************)
(* Proofs about CProducer, for every record size, number of lines, first   *)
(* capacity and number of addresses.                                       *)
(***************************************************************************)
EXTENDS CProducer, DataLemmas

LEMMA Sizes ==
    /\ RecordSize \in Nat \ {0} /\ InitialCapacity \in Nat \ {0}
    /\ Candidates \in Nat /\ MaxLines \in Nat
  BY CProducerAssumption
-------------------------------------------------------------------------------
(***************************************************************************)
(* The records of the file, from their recursive definition.               *)
(***************************************************************************)

\* f is the function RecordsIn, for the first n of the lines.
Lists(f, lines, n) ==
    f = [k \in 0 .. n |-> IF k = 0 THEN <<>>
                          ELSE IF lines[k] = "record" THEN Append(f[k - 1], k)
                          ELSE f[k - 1]]

LEMMA ListsAt ==
    ASSUME NEW f, NEW lines, NEW n \in Nat, Lists(f, lines, n), NEW k \in 0 .. n
    PROVE  f[k] = IF k = 0 THEN <<>>
                  ELSE IF lines[k] = "record" THEN Append(f[k - 1], k)
                  ELSE f[k - 1]
  BY Zenon DEF Lists

LEMMA ListsExists ==
    ASSUME NEW lines, NEW n \in Nat
    PROVE  \E f : Lists(f, lines, n)
  <1> DEFINE P == {k \in Nat : \E f : Lists(f, lines, k)}
  <1>1. 0 \in P
    <2>1. PICK f : f = [k \in 0 .. 0 |-> <<>>]
      OBVIOUS
    <2>2. \A k \in 0 .. 0 : (IF k = 0 THEN <<>>
                             ELSE IF lines[k] = "record" THEN Append(f[k - 1], k)
                             ELSE f[k - 1]) = <<>>
      OBVIOUS
    <2>3. Lists(f, lines, 0)
      BY <2>1, <2>2, Zenon DEF Lists
    <2> QED BY <2>3
  <1>2. ASSUME NEW k \in P PROVE k + 1 \in P
    <2>1. PICK f : Lists(f, lines, k)
      OBVIOUS
    <2>2. ASSUME NEW g,
                 g = [j \in 0 .. k + 1 |->
                        IF j = k + 1 THEN IF lines[j] = "record" THEN Append(f[k], j) ELSE f[k]
                        ELSE f[j]]
          PROVE  Lists(g, lines, k + 1)
      <3>1. \A j \in 0 .. k : f[j] = IF j = 0 THEN <<>>
                                     ELSE IF lines[j] = "record" THEN Append(f[j - 1], j)
                                     ELSE f[j - 1]
        BY <2>1, ListsAt
      <3>2. \A j \in 0 .. k : g[j] = f[j]
        BY <2>2
      <3>3. ASSUME NEW j \in 0 .. k + 1
            PROVE  (IF j = k + 1 THEN IF lines[j] = "record" THEN Append(f[k], j) ELSE f[k] ELSE f[j])
                     = IF j = 0 THEN <<>>
                       ELSE IF lines[j] = "record" THEN Append(g[j - 1], j)
                       ELSE g[j - 1]
        <4>1. CASE j = k + 1
          <5>1. j - 1 = k /\ j # 0 /\ k \in 0 .. k
            BY <4>1
          <5>2. g[j - 1] = f[k]
            BY <3>2, <5>1
          <5> QED BY <4>1, <5>1, <5>2
        <4>2. CASE j # k + 1
          <5>1. j \in 0 .. k
            BY <4>2
          <5>2. CASE j = 0
            BY <3>1, <4>2, <5>1, <5>2
          <5>3. CASE j # 0
            <6>1. j - 1 \in 0 .. k /\ g[j - 1] = f[j - 1]
              BY <3>2, <5>1, <5>3
            <6> QED BY <3>1, <4>2, <5>1, <5>3, <6>1
          <5> QED BY <5>2, <5>3
        <4> QED BY <4>1, <4>2
      <3>4. g = [j \in 0 .. k + 1 |-> IF j = 0 THEN <<>>
                                      ELSE IF lines[j] = "record" THEN Append(g[j - 1], j)
                                      ELSE g[j - 1]]
        BY <2>2, <3>3, Zenon
      <3> QED BY <3>4, Zenon DEF Lists
    <2>3. \E g : g = [j \in 0 .. k + 1 |->
                        IF j = k + 1 THEN IF lines[j] = "record" THEN Append(f[k], j) ELSE f[k]
                        ELSE f[j]]
      OBVIOUS
    <2>4. \E g : Lists(g, lines, k + 1)
      BY <2>2, <2>3, Zenon
    <2> QED BY <2>4
  <1> HIDE DEF P
  <1>3. P \in SUBSET Nat
    BY DEF P
  <1>4. P = Nat
    BY <1>1, <1>2, <1>3, SetInduction
  <1> QED BY <1>4 DEF P

LEMMA RecordsInIs ==
    ASSUME Len(file) \in Nat
    PROVE  Lists(RecordsIn, file, Len(file))
  <1>1. \E f : Lists(f, file, Len(file))
    BY ListsExists
  <1>2. Lists(CHOOSE f : Lists(f, file, Len(file)), file, Len(file))
    BY <1>1, Zenon
  <1>3. RecordsIn = CHOOSE f : Lists(f, file, Len(file))
    BY Zenon DEF RecordsIn, Lists
  <1> QED BY <1>2, <1>3

\* One list is the beginning of the next, and each names records of the file.
LEMMA ListsGrow ==
    ASSUME NEW f, NEW lines, NEW n \in Nat, Lists(f, lines, n)
    PROVE  \A k \in 0 .. n :
              /\ f[k] \in Seq(Nat) /\ Len(f[k]) \in Nat
              /\ \A m \in 0 .. k :
                    /\ Len(f[m]) <= Len(f[k])
                    /\ \A j \in 1 .. Len(f[m]) : f[k][j] = f[m][j]
  <1> DEFINE ListGrown(k) == /\ f[k] \in Seq(Nat) /\ Len(f[k]) \in Nat
                             /\ \A m \in 0 .. k :
                                   /\ Len(f[m]) <= Len(f[k])
                                   /\ \A j \in 1 .. Len(f[m]) : f[k][j] = f[m][j]
             P == {k \in Nat : k \in 0 .. n => ListGrown(k)}
  <1>1. 0 \in P
    <2>0. 0 \in 0 .. n
      OBVIOUS
    <2>1. f[0] = <<>>
      BY <2>0, ListsAt
    <2>2. <<>> \in Seq(Nat) /\ Len(<<>>) = 0
      BY EmptySeq
    <2>3. \A m \in 0 .. 0 : m = 0
      OBVIOUS
    <2>4. f[0] \in Seq(Nat) /\ Len(f[0]) = 0
      BY <2>1, <2>2
    <2>5. \A m \in 0 .. 0 : f[m] = f[0]
      BY <2>3
    <2>6. ListGrown(0)
      BY <2>4, <2>5
    <2> QED BY <2>6
  <1>2. ASSUME NEW k \in P PROVE k + 1 \in P
    <2> SUFFICES ASSUME k + 1 \in 0 .. n PROVE ListGrown(k + 1)
      OBVIOUS
    <2>0. k \in Nat /\ k \in 0 .. n /\ k + 1 - 1 = k /\ k + 1 # 0
      OBVIOUS
    <2>1. PICK q : q = f[k]
      OBVIOUS
    <2>2. /\ q \in Seq(Nat) /\ Len(q) \in Nat
          /\ \A m \in 0 .. k : /\ Len(f[m]) <= Len(q)
                               /\ \A j \in 1 .. Len(f[m]) : q[j] = f[m][j]
      BY <2>0, <2>1
    <2>3. f[k + 1] = IF lines[k + 1] = "record" THEN Append(q, k + 1) ELSE q
      BY <2>0, <2>1, ListsAt
    <2>4. PICK s : s = f[k + 1]
      OBVIOUS
    <2>5. s \in Seq(Nat) /\ Len(s) \in Nat /\ Len(q) <= Len(s) /\ \A j \in 1 .. Len(q) : s[j] = q[j]
      <3>1. CASE s = q
        BY <2>2, <3>1
      <3>2. CASE s = Append(q, k + 1)
        <4>1. /\ s \in Seq(Nat) /\ Len(s) = Len(q) + 1
              /\ \A j \in 1 .. Len(q) : s[j] = q[j]
          BY <2>0, <2>2, <3>2, AppendProperties
        <4> QED BY <2>2, <4>1
      <3> QED BY <2>3, <2>4, <3>1, <3>2
    <2>6. ASSUME NEW m \in 0 .. k + 1
          PROVE  Len(f[m]) <= Len(s) /\ \A j \in 1 .. Len(f[m]) : s[j] = f[m][j]
      <3>1. CASE m = k + 1
        BY <2>4, <2>5, <3>1
      <3>2. CASE m # k + 1
        <4>1. m \in 0 .. k
          BY <2>0, <3>2
        <4>2. Len(f[m]) <= Len(q) /\ \A j \in 1 .. Len(f[m]) : q[j] = f[m][j]
          BY <2>2, <4>1
        <4>3. Len(f[m]) \in Nat
          BY <2>2, <4>1
        <4> QED BY <2>2, <2>5, <4>2, <4>3
      <3> QED BY <3>1, <3>2
    <2> QED BY <2>4, <2>5, <2>6
  <1> HIDE DEF P
  <1>3. P \in SUBSET Nat
    BY DEF P
  <1>4. P = Nat
    BY <1>1, <1>2, <1>3, SetInduction
  <1>5. ASSUME NEW k \in 0 .. n PROVE ListGrown(k)
    <2>1. k \in P
      BY <1>4
    <2> QED BY <2>1 DEF P
  <1> QED BY <1>5

LEMMA RecordsGrow ==
    ASSUME Len(file) \in Nat, NEW n \in 0 .. Len(file)
    PROVE  /\ RecordsIn[n] \in Seq(Nat)
           /\ Len(RecordsIn[n]) <= Len(RecordLines)
           /\ \A j \in 1 .. Len(RecordsIn[n]) : RecordLines[j] = RecordsIn[n][j]
           /\ n = 0 => RecordsIn[n] = <<>>
           /\ n < Len(file) =>
                 RecordsIn[n + 1] = IF file[n + 1] = "record"
                                    THEN Append(RecordsIn[n], n + 1) ELSE RecordsIn[n]
  <1>1. Lists(RecordsIn, file, Len(file))
    BY RecordsInIs
  <1>2. \A k \in 0 .. Len(file) :
              /\ RecordsIn[k] \in Seq(Nat) /\ Len(RecordsIn[k]) \in Nat
              /\ \A m \in 0 .. k :
                    /\ Len(RecordsIn[m]) <= Len(RecordsIn[k])
                    /\ \A j \in 1 .. Len(RecordsIn[m]) : RecordsIn[k][j] = RecordsIn[m][j]
    BY <1>1, ListsGrow
  <1>3. \A k \in 0 .. Len(file) :
          RecordsIn[k] = IF k = 0 THEN <<>>
                         ELSE IF file[k] = "record" THEN Append(RecordsIn[k - 1], k)
                         ELSE RecordsIn[k - 1]
    BY <1>1, ListsAt
  <1>4. Len(file) \in 0 .. Len(file) /\ n \in 0 .. Len(file)
    OBVIOUS
  <1>5. n < Len(file) => n + 1 \in 0 .. Len(file) /\ n + 1 # 0 /\ n + 1 - 1 = n
    OBVIOUS
  <1>6. n < Len(file) =>
           RecordsIn[n + 1] = IF file[n + 1] = "record"
                              THEN Append(RecordsIn[n], n + 1) ELSE RecordsIn[n]
    <2> SUFFICES ASSUME n < Len(file)
                 PROVE  RecordsIn[n + 1] = IF file[n + 1] = "record"
                                           THEN Append(RecordsIn[n], n + 1) ELSE RecordsIn[n]
      OBVIOUS
    <2>1. RecordsIn[n + 1] = IF n + 1 = 0 THEN <<>>
                             ELSE IF file[n + 1] = "record" THEN Append(RecordsIn[n + 1 - 1], n + 1)
                             ELSE RecordsIn[n + 1 - 1]
      BY <1>3, <1>5
    <2> QED BY <1>5, <2>1
  <1>7. n = 0 => RecordsIn[n] = <<>>
    BY <1>3, <1>4
  <1> QED BY <1>2, <1>4, <1>6, <1>7 DEF RecordLines
-------------------------------------------------------------------------------
(***************************************************************************)
(* The invariant of the reader: what has been read is the beginning of the *)
(* records of the file, and all of them if the end was reached.            *)
(***************************************************************************)
ReaderTypes ==
    /\ file \in Seq(Kinds)
    /\ mode \in {"emit", "send"}
    /\ lineNo \in 0 .. Len(file)
    /\ records \in Seq(Nat)

\* The lines that were read are as they should be.
WellRead == \A k \in 1 .. lineNo : file[k] \in {"header", "record", "blank"}

ReaderInv ==
    /\ ReaderTypes
    /\ Len(records) <= Len(RecordLines)
    /\ \A j \in 1 .. Len(records) : records[j] = RecordLines[j]
    /\ pc \in {"open", "read"} =>
          /\ records = RecordsIn[lineNo]
          /\ WellRead
    /\ pc = "open" => lineNo = 0
    /\ pc \notin {"open", "read"} /\ (pc = "done" => exit = 0) /\ ~readFailed =>
          /\ records = RecordLines
          /\ lineNo = Len(file)
          /\ WellRead
    /\ pc \in {"open", "read"} => exit # 0

(***************************************************************************)
(* The invariant of emitter and sender: what is out is a beginning of the  *)
(* records that were read, and i and sent say how far it goes.             *)
(***************************************************************************)
AreOut(o, recs) ==
    /\ Len(o) <= Len(recs) * RecordSize
    /\ \A k \in 1 .. Len(o) :
          o[k] = <<recs[(k - 1) \div RecordSize + 1], ((k - 1) % RecordSize) + 1>>

OutputInv ==
    /\ output \in Seq(Nat \X Nat)
    /\ AreOut(output, records)
    /\ pc \in {"open", "read", "emit", "send", "connect", "write", "transmit", "done"}
    /\ pc \in {"open", "read", "emit", "send", "connect"} =>
          output = <<>> /\ i = 0 /\ sentPieces = 0
    /\ pc \in {"emit", "write"} => mode = "emit"
    /\ pc \in {"connect", "transmit"} => records # <<>>
    /\ pc \in {"write", "transmit"} =>
          /\ i \in 0 .. Len(records)
          /\ sentPieces \in 0 .. RecordSize - 1
          /\ i = Len(records) => sentPieces = 0
          /\ Len(output) = RecordSize * i + sentPieces
    /\ pc = "write" => sentPieces = 0
    /\ pc # "done" => exit # 0
    /\ exit = 0 =>
          /\ Len(output) = RecordSize * Len(records)
          /\ mode = "send" => records # <<>>
-------------------------------------------------------------------------------
(***************************************************************************)
(* The reader keeps its invariant.                                         *)
(***************************************************************************)

LEMMA InputKept ==
    ASSUME [Next]_vars
    PROVE  file' = file /\ mode' = mode
  BY DEF Next, Reader, Emitter, Sender, vars, inputVars, readerVars, senderVars,
         OpenCsv, OpenCsvFails, LineIs, SkipBlank, ReadHeader, RejectLine,
         ReadRecord, ReadRecordFails, ReadEnd, EmitOpen, EmitRecord, EmitShort,
         EmitClose, SendBegin, ConnectOk, ConnectNext, ConnectFails, Send,
         SendInterrupted, SendFails, SendEnd

LEMMA RecordsKept ==
    ASSUME file' = file
    PROVE  RecordsIn' = RecordsIn /\ RecordLines' = RecordLines
  <1>1. RecordsIn' = RecordsIn
    BY Zenon DEF RecordsIn
  <1> QED BY <1>1 DEF RecordLines

LEMMA ReaderInit ==
    ASSUME Init
    PROVE  ReaderInv
  <1>1. PICK n \in 0 .. MaxLines : file \in [1 .. n -> Kinds]
    BY DEF Init
  <1>2. n \in Nat
    BY Sizes
  <1>3. file \in Seq(Kinds) /\ Len(file) = n
    BY <1>1, <1>2
  <1>4. RecordsIn[0] = <<>> /\ Len(<<>>) <= Len(RecordLines)
    <2>1. 0 \in 0 .. Len(file) /\ Len(file) \in Nat
      BY <1>2, <1>3
    <2>2. RecordsIn[0] = <<>> /\ Len(RecordsIn[0]) <= Len(RecordLines)
      BY <2>1, RecordsGrow
    <2> QED BY <2>2
  <1>5. <<>> \in Seq(Nat) /\ Len(<<>>) = 0
    BY EmptySeq
  <1>6. lineNo = 0 /\ records = <<>> /\ pc = "open" /\ exit = -1
    BY DEF Init
  <1>7. ReaderTypes
    BY <1>2, <1>3, <1>5 DEF Init, ReaderTypes
  <1>8. WellRead
    BY <1>6 DEF WellRead
  <1>9. Len(records) <= Len(RecordLines)
        /\ \A j \in 1 .. Len(records) : records[j] = RecordLines[j]
    BY <1>4, <1>5, <1>6
  <1> QED BY <1>4, <1>6, <1>7, <1>8, <1>9 DEF ReaderInv

\* getline() returns another line, of which a record is kept.
LEMMA LineKept ==
    ASSUME ReaderInv, file' = file, mode' = mode, pc = "read", pc' = pc,
           exit' = exit, lineNo < Len(file), lineNo' = lineNo + 1,
           file[lineNo + 1] \in {"header", "record", "blank"},
           records' = IF file[lineNo + 1] = "record" THEN Append(records, lineNo')
                      ELSE records
    PROVE  ReaderInv'
  <1>1. RecordsIn' = RecordsIn /\ RecordLines' = RecordLines
    BY RecordsKept
  <1>2. /\ ReaderTypes /\ records = RecordsIn[lineNo] /\ WellRead /\ exit # 0
    BY DEF ReaderInv
  <1>3. /\ lineNo \in Nat /\ Len(file) \in Nat /\ lineNo \in 0 .. Len(file)
        /\ lineNo + 1 \in 0 .. Len(file)
    BY <1>2, LenProperties DEF ReaderTypes
  <1>4. records' = RecordsIn[lineNo + 1]
    <2>1. RecordsIn[lineNo + 1] = IF file[lineNo + 1] = "record"
                                  THEN Append(RecordsIn[lineNo], lineNo + 1)
                                  ELSE RecordsIn[lineNo]
      BY <1>3, RecordsGrow
    <2> QED BY <1>2, <2>1
  <1>5. /\ RecordsIn[lineNo + 1] \in Seq(Nat)
        /\ Len(RecordsIn[lineNo + 1]) <= Len(RecordLines)
        /\ \A j \in 1 .. Len(RecordsIn[lineNo + 1]) : RecordLines[j] = RecordsIn[lineNo + 1][j]
    BY <1>3, RecordsGrow
  <1>6. ReaderTypes'
    BY <1>2, <1>3, <1>4, <1>5 DEF ReaderTypes
  <1>7. WellRead'
    BY <1>2, <1>3 DEF WellRead
  <1>8. records' = RecordsIn'[lineNo']
    BY <1>1, <1>4
  <1>9. Len(records') <= Len(RecordLines')
        /\ \A j \in 1 .. Len(records') : records'[j] = RecordLines'[j]
    BY <1>1, <1>4, <1>5
  <1> QED BY <1>2, <1>6, <1>7, <1>8, <1>9 DEF ReaderInv

\* The reader is done, or main goes on with what it has read.
LEMMA ReadKept ==
    ASSUME ReaderInv, file' = file, mode' = mode, records' = records,
           lineNo' = lineNo, pc' \notin {"open", "read"}, pc' = "done" => exit' # 0,
           readFailed' = (lineNo < Len(file)), pc = "read"
    PROVE  ReaderInv'
  <1>1. RecordsIn' = RecordsIn /\ RecordLines' = RecordLines
    BY RecordsKept
  <1>2. /\ ReaderTypes /\ records = RecordsIn[lineNo] /\ WellRead
        /\ Len(records) <= Len(RecordLines)
        /\ \A j \in 1 .. Len(records) : records[j] = RecordLines[j]
    BY DEF ReaderInv
  <1>3. lineNo \in Nat /\ Len(file) \in Nat /\ lineNo <= Len(file)
    BY <1>2, LenProperties DEF ReaderTypes
  <1>4. ReaderTypes'
    BY <1>2 DEF ReaderTypes
  <1>5. WellRead'
    BY <1>2 DEF WellRead
  <1>6. ~readFailed' => lineNo = Len(file)
    <2>1. ~readFailed' => ~(lineNo < Len(file))
      BY Zenon
    <2> QED BY <1>3, <2>1
  <1>7. ~readFailed' => records' = RecordLines' /\ lineNo' = Len(file')
    BY <1>1, <1>2, <1>6 DEF RecordLines
  <1> QED BY <1>1, <1>2, <1>4, <1>5, <1>7 DEF ReaderInv

\* Nothing is read.
LEMMA ReaderQuiet ==
    ASSUME ReaderInv, file' = file, mode' = mode, records' = records,
           \/ pc' = "done" /\ exit' # 0 /\ lineNo' \in {lineNo, lineNo + 1} /\ lineNo' <= Len(file)
           \/ lineNo' = lineNo /\ readFailed' = readFailed /\ pc' = pc /\ exit' = exit
           \/ /\ lineNo' = lineNo /\ readFailed' = readFailed
              /\ pc \notin {"open", "read", "done"} /\ pc' \notin {"open", "read"}
           \/ pc = "open" /\ pc' = "read" /\ lineNo' = lineNo /\ exit' = exit
    PROVE  ReaderInv'
  <1>1. RecordsIn' = RecordsIn /\ RecordLines' = RecordLines
    BY RecordsKept
  <1>2. /\ ReaderTypes
        /\ Len(records) <= Len(RecordLines)
        /\ \A j \in 1 .. Len(records) : records[j] = RecordLines[j]
    BY DEF ReaderInv
  <1>3. lineNo \in Nat /\ Len(file) \in Nat /\ lineNo <= Len(file)
    BY <1>2, LenProperties DEF ReaderTypes
  <1>4. lineNo' \in 0 .. Len(file)
    BY <1>3
  <1>5. ReaderTypes'
    BY <1>2, <1>4 DEF ReaderTypes
  <1>6. /\ Len(records') <= Len(RecordLines')
        /\ \A j \in 1 .. Len(records') : records'[j] = RecordLines'[j]
    BY <1>1, <1>2
  <1>7. CASE pc' = "done" /\ exit' # 0
    BY <1>5, <1>6, <1>7 DEF ReaderInv
  <1>8. CASE lineNo' = lineNo
    <2>1. WellRead' <=> WellRead
      BY <1>8 DEF WellRead
    <2>2. CASE readFailed' = readFailed /\ pc' = pc /\ exit' = exit
      BY <1>1, <1>5, <1>6, <1>8, <2>1, <2>2 DEF ReaderInv
    <2>3. CASE /\ readFailed' = readFailed
               /\ pc \notin {"open", "read", "done"} /\ pc' \notin {"open", "read"}
      BY <1>1, <1>5, <1>6, <1>8, <2>1, <2>3 DEF ReaderInv
    <2>4. CASE pc = "open" /\ pc' = "read" /\ exit' = exit
      BY <1>1, <1>5, <1>6, <1>8, <2>1, <2>4 DEF ReaderInv
    <2> QED BY <1>7, <1>8, <2>2, <2>3, <2>4
  <1> QED BY <1>7, <1>8

LEMMA ReaderStep ==
    ASSUME ReaderInv, OutputInv, [Next]_vars
    PROVE  ReaderInv'
  <1>1. file' = file /\ mode' = mode
    BY InputKept
  <1>2. /\ ReaderTypes
        /\ pc \in {"open", "read", "emit", "send", "connect", "write", "transmit", "done"}
    BY DEF ReaderInv, OutputInv
  <1>3. lineNo \in Nat /\ Len(file) \in Nat /\ lineNo <= Len(file)
        /\ mode \in {"emit", "send"}
    BY <1>2, LenProperties DEF ReaderTypes
  <1>4. CASE OpenCsv
    <2>1. records' = records /\ lineNo' = lineNo /\ exit' = exit /\ pc = "open" /\ pc' = "read"
      BY <1>4 DEF OpenCsv
    <2> QED BY <1>1, <2>1, ReaderQuiet
  <1>5. CASE OpenCsvFails \/ RejectLine \/ ReadRecordFails
    <2>1. records' = records /\ pc' = "done" /\ exit' # 0 /\ lineNo' \in {lineNo, lineNo + 1}
      BY <1>5 DEF OpenCsvFails, RejectLine, ReadRecordFails, LineIs, Exit, readerVars
    <2>2. lineNo' <= Len(file)
      BY <1>3, <1>5 DEF OpenCsvFails, RejectLine, ReadRecordFails, LineIs, readerVars
    <2> QED BY <1>1, <2>1, <2>2, ReaderQuiet
  <1>6. CASE SkipBlank \/ ReadHeader
    <2>1. /\ pc = "read" /\ pc' = pc /\ exit' = exit /\ lineNo < Len(file)
          /\ lineNo' = lineNo + 1 /\ records' = records
          /\ file[lineNo + 1] \in {"header", "blank"}
      BY <1>6 DEF SkipBlank, ReadHeader, LineIs
    <2>2. /\ file[lineNo + 1] \in {"header", "record", "blank"}
          /\ records' = IF file[lineNo + 1] = "record" THEN Append(records, lineNo')
                        ELSE records
      BY <2>1
    <2> QED BY <1>1, <2>1, <2>2, LineKept
  <1>7. CASE ReadRecord
    <2>1. /\ pc = "read" /\ pc' = pc /\ exit' = exit /\ lineNo < Len(file)
          /\ lineNo' = lineNo + 1 /\ records' = Append(records, lineNo')
          /\ file[lineNo + 1] = "record"
      BY <1>7 DEF ReadRecord, LineIs
    <2>2. /\ file[lineNo + 1] \in {"header", "record", "blank"}
          /\ records' = IF file[lineNo + 1] = "record" THEN Append(records, lineNo')
                        ELSE records
      BY <2>1
    <2> QED BY <1>1, <2>1, <2>2, LineKept
  <1>8. CASE ReadEnd
    <2>1. /\ pc = "read" /\ readFailed' = (lineNo < Len(file)) /\ records' = records
          /\ lineNo' = lineNo
      BY <1>8 DEF ReadEnd
    <2>2. (pc' = "done" /\ exit' = 1) \/ pc' = mode
      BY <1>8 DEF ReadEnd, Exit
    <2>3. pc' \notin {"open", "read"} /\ (pc' = "done" => exit' # 0)
      BY <1>3, <2>2
    <2> QED BY <1>1, <2>1, <2>3, ReadKept
  <1>9. CASE Emitter
    <2>1. records' = records /\ lineNo' = lineNo /\ readFailed' = readFailed
      BY <1>9 DEF Emitter, EmitOpen, EmitRecord, EmitShort, EmitClose, readerVars
    <2>2. pc \notin {"open", "read", "done"} /\ pc' \notin {"open", "read"}
      BY <1>9 DEF Emitter, EmitOpen, EmitRecord, EmitShort, EmitClose, Exit
    <2> QED BY <1>1, <2>1, <2>2, ReaderQuiet
  <1>10. CASE Sender
    <2>1. records' = records /\ lineNo' = lineNo /\ readFailed' = readFailed
      BY <1>10 DEF Sender, SendBegin, ConnectOk, ConnectNext, ConnectFails, Send,
                   SendInterrupted, SendFails, SendEnd, readerVars, vars
    <2>2. pc \notin {"open", "read", "done"} /\ pc' \notin {"open", "read"}
      BY <1>10 DEF Sender, SendBegin, ConnectOk, ConnectNext, ConnectFails, Send,
                   SendInterrupted, SendFails, SendEnd, Exit, vars
    <2> QED BY <1>1, <2>1, <2>2, ReaderQuiet
  <1>11. CASE UNCHANGED vars
    <2>1. /\ records' = records /\ lineNo' = lineNo /\ readFailed' = readFailed
          /\ pc' = pc /\ exit' = exit
      BY <1>11 DEF vars, readerVars
    <2> QED BY <1>1, <2>1, ReaderQuiet
  <1> QED BY <1>4, <1>5, <1>6, <1>7, <1>8, <1>9, <1>10, <1>11 DEF Next, Reader
-------------------------------------------------------------------------------
(***************************************************************************)
(* What is out.                                                            *)
(***************************************************************************)

\* p are the next n pieces of record j + 1, behind the first s of them in o.
NextPieces(r, o, j, s, n, p) ==
    /\ r \in Seq(Nat) /\ o \in Seq(Nat \X Nat) /\ p \in Seq(Nat \X Nat)
    /\ j \in Nat /\ j < Len(r)
    /\ s \in 0 .. RecordSize - 1 /\ n \in 0 .. RecordSize - s
    /\ Len(o) = RecordSize * j + s
    /\ AreOut(o, r)
    /\ Len(p) = n
    /\ \A k \in 1 .. n : p[k] = <<r[j + 1], s + k>>

LEMMA PiecesAppended ==
    ASSUME NEW r, NEW o, NEW j, NEW s, NEW n, NEW p, NextPieces(r, o, j, s, n, p)
    PROVE  /\ o \o p \in Seq(Nat \X Nat)
           /\ Len(o \o p) = RecordSize * j + (s + n)
           /\ AreOut(o \o p, r)
  <1> SUFFICES ASSUME r \in Seq(Nat), o \in Seq(Nat \X Nat), p \in Seq(Nat \X Nat),
                      j \in Nat, j < Len(r),
                      s \in 0 .. RecordSize - 1, n \in 0 .. RecordSize - s,
                      Len(o) = RecordSize * j + s, AreOut(o, r), Len(p) = n,
                      \A k \in 1 .. n : p[k] = <<r[j + 1], s + k>>
               PROVE  /\ o \o p \in Seq(Nat \X Nat)
                      /\ Len(o \o p) = RecordSize * j + (s + n)
                      /\ AreOut(o \o p, r)
    BY Zenon DEF NextPieces
  <1>1. RecordSize \in Nat \ {0} /\ s \in Nat /\ n \in Nat /\ s + n <= RecordSize
    BY Sizes
  <1>2. Len(r) \in Nat /\ j + 1 \in 1 .. Len(r)
    <2>1. Len(r) \in Nat
      BY LenProperties
    <2> QED BY <2>1
  <1>3. PICK l \in Nat : l = Len(o)
    BY LenProperties
  <1>4. PICK q : q = o \o p
    OBVIOUS
  <1>5. /\ q \in Seq(Nat \X Nat) /\ Len(q) = l + n
        /\ \A k \in 1 .. l + n : q[k] = IF k <= l THEN o[k] ELSE p[k - l]
    <2>1. /\ o \o p \in Seq(Nat \X Nat) /\ Len(o \o p) = Len(o) + Len(p)
          /\ \A k \in 1 .. Len(o) + Len(p) :
                (o \o p)[k] = IF k <= Len(o) THEN o[k] ELSE p[k - Len(o)]
      BY ConcatProperties
    <2>2. /\ q \in Seq(Nat \X Nat) /\ Len(q) = Len(o) + Len(p)
          /\ \A k \in 1 .. Len(o) + Len(p) :
                q[k] = IF k <= Len(o) THEN o[k] ELSE p[k - Len(o)]
      BY <1>4, <2>1, Zenon
    <2>3. Len(o) = l /\ Len(p) = n
      BY <1>3
    <2> QED BY <2>2, <2>3
  <1>6. PICK b \in Nat : b = RecordSize * j
    BY <1>1
  <1>7. l = b + s /\ Len(q) = b + (s + n)
    BY <1>1, <1>3, <1>5, <1>6
  <1>8. Len(q) <= Len(r) * RecordSize
    <2>1. PICK d \in Nat : Len(r) = j + 1 + d
      <3>1. Len(r) - (j + 1) \in Nat /\ Len(r) = j + 1 + (Len(r) - (j + 1))
        BY <1>2
      <3> QED BY <3>1
    <2>2. PICK c \in Nat : c = RecordSize * d
      BY <1>1, <2>1
    <2>3. (j + 1 + d) * RecordSize = RecordSize * j + RecordSize + RecordSize * d
      BY <1>1, <2>1
    <2>4. Len(r) * RecordSize = b + RecordSize + c
      BY <1>6, <2>1, <2>2, <2>3
    <2>5. b \in Nat /\ c \in Nat
      BY <1>6, <2>2
    <2>6. b + (s + n) <= b + RecordSize + c
      BY <1>1, <2>5
    <2> QED BY <1>7, <2>4, <2>6
  <1>9. ASSUME NEW k \in 1 .. Len(q)
        PROVE  q[k] = <<r[(k - 1) \div RecordSize + 1], ((k - 1) % RecordSize) + 1>>
    <2>1. k \in 1 .. l + n
      BY <1>5
    <2>2. CASE k <= l
      <3>1. q[k] = o[k] /\ k \in 1 .. l
        <4>1. k \in 1 .. l
          BY <1>3, <2>1, <2>2
        <4>2. q[k] = IF k <= l THEN o[k] ELSE p[k - l]
          BY <1>5, <2>1
        <4> QED BY <2>2, <4>1, <4>2
      <3>2. k \in 1 .. Len(o)
        BY <1>3, <3>1
      <3> QED BY <3>1, <3>2 DEF AreOut
    <2>3. CASE ~(k <= l)
      <3>1. PICK m \in 1 .. n : m = k - l
        BY <1>1, <2>1, <2>3
      <3>2. q[k] = <<r[j + 1], s + m>>
        BY <1>5, <2>1, <2>3, <3>1
      <3>3. PICK e \in 0 .. RecordSize - 1 : e = s + m - 1
        BY <1>1
      <3>4. k - 1 = RecordSize * j + e
        BY <1>1, <1>6, <1>7, <3>1, <3>3
      <3>5. (RecordSize * j + e) \div RecordSize = j /\ (RecordSize * j + e) % RecordSize = e
        BY <1>1, <3>3, DivUnique, j \in Int, Zenon
      <3>6. e + 1 = s + m
        BY <1>1, <3>3
      <3> QED BY <3>2, <3>4, <3>5, <3>6
    <2> QED BY <2>2, <2>3
  <1>10. AreOut(q, r)
    BY <1>8, <1>9 DEF AreOut
  <1>11. Len(q) = RecordSize * j + (s + n)
    BY <1>6, <1>7
  <1> QED BY <1>4, <1>5, <1>10, <1>11

\* A beginning of what is out.
LEMMA CutOut ==
    ASSUME NEW r, NEW o \in Seq(Nat \X Nat), NEW n \in 0 .. Len(o), AreOut(o, r),
           Len(r) * RecordSize \in Nat
    PROVE  SubSeq(o, 1, n) \in Seq(Nat \X Nat) /\ AreOut(SubSeq(o, 1, n), r)
  <1>1. Len(o) \in Nat /\ \A k \in 1 .. Len(o) : o[k] \in Nat \X Nat
    BY LenProperties, ElementOfSeq
  <1>2. \A k \in 1 .. n : o[k] \in Nat \X Nat
    BY <1>1
  <1>3. /\ SubSeq(o, 1, n) \in Seq(Nat \X Nat)
        /\ Len(SubSeq(o, 1, n)) = IF 1 <= n THEN n - 1 + 1 ELSE 0
        /\ \A k \in 1 .. n - 1 + 1 : SubSeq(o, 1, n)[k] = o[1 + k - 1]
    BY <1>1, <1>2, SubSeqProperties
  <1>4. PICK q : q = SubSeq(o, 1, n)
    OBVIOUS
  <1>5. Len(q) = n /\ \A k \in 1 .. n : q[k] = o[k]
    BY <1>1, <1>3, <1>4
  <1>6. Len(q) <= Len(r) * RecordSize
    <2>1. Len(o) <= Len(r) * RecordSize
      BY DEF AreOut
    <2> QED BY <1>1, <1>5, <2>1
  <1>7. \A k \in 1 .. Len(q) : k \in 1 .. Len(o) /\ q[k] = o[k]
    BY <1>1, <1>5
  <1> QED BY <1>3, <1>4, <1>6, <1>7, Zenon DEF AreOut

Before == {"open", "read", "emit", "send", "connect"}
Out == {"write", "transmit"}

LEMMA NothingOut ==
    ASSUME NEW r \in Seq(Nat)
    PROVE  <<>> \in Seq(Nat \X Nat) /\ Len(<<>>) = 0 /\ AreOut(<<>>, r)
           /\ Len(r) \in Nat /\ Len(r) * RecordSize \in Nat
  <1>1. Len(r) \in Nat /\ RecordSize \in Nat
    BY Sizes, LenProperties
  <1>2. Len(r) * RecordSize \in Nat
    BY <1>1
  <1>3. <<>> \in Seq(Nat \X Nat) /\ Len(<<>>) = 0
    BY EmptySeq
  <1> QED BY <1>1, <1>2, <1>3 DEF AreOut

LEMMA OutputInit ==
    ASSUME Init
    PROVE  OutputInv
  <1>1. ReaderInv
    BY ReaderInit
  <1>2. records \in Seq(Nat)
    BY <1>1 DEF ReaderInv, ReaderTypes
  <1>3. /\ output = <<>> /\ i = 0 /\ sentPieces = 0 /\ pc = "open" /\ exit = -1
    BY DEF Init
  <1>4. output \in Seq(Nat \X Nat) /\ AreOut(output, records)
    BY <1>2, <1>3, NothingOut
  <1> QED BY <1>3, <1>4 DEF OutputInv

\* Nothing is out, and nothing goes out.
LEMMA OutputBefore ==
    ASSUME OutputInv, ReaderInv', pc \in Before,
           output' = output, i' = i, sentPieces' = sentPieces,
           \/ pc' = "done" /\ exit' # 0
           \/ /\ exit' = exit
              /\ pc' \in Before \cup Out
              /\ pc' \in {"emit", "write"} => mode' = "emit"
              /\ pc' \in {"connect", "transmit"} => records' # <<>>
    PROVE  OutputInv'
  <1>1. records' \in Seq(Nat)
    BY DEF ReaderInv, ReaderTypes
  <1>2. output' = <<>> /\ i' = 0 /\ sentPieces' = 0 /\ exit # 0
    BY DEF OutputInv, Before
  <1>3. /\ output' \in Seq(Nat \X Nat) /\ AreOut(output', records') /\ Len(output') = 0
        /\ Len(records') \in Nat
    BY <1>1, <1>2, NothingOut
  <1>4. exit' # 0
    BY <1>2
  <1>5. RecordSize * 0 + 0 = 0 /\ 0 \in 0 .. Len(records') /\ 0 \in 0 .. RecordSize - 1
    BY <1>3, Sizes
  <1>6. CASE pc' = "done"
    BY <1>2, <1>3, <1>4, <1>6 DEF OutputInv
  <1>7. CASE /\ pc' \in Before \cup Out
             /\ pc' \in {"emit", "write"} => mode' = "emit"
             /\ pc' \in {"connect", "transmit"} => records' # <<>>
    BY <1>2, <1>3, <1>4, <1>5, <1>7 DEF OutputInv, Before, Out
  <1> QED BY <1>6, <1>7

\* The program ends with an error, whatever a beginning of a record is out.
LEMMA OutputFailed ==
    ASSUME NEW o \in Seq(Nat \X Nat), AreOut(o, records), output' = o,
           records' = records, pc' = "done", exit' # 0
    PROVE  OutputInv'
  <1>1. output' \in Seq(Nat \X Nat) /\ AreOut(output', records')
    BY Zenon
  <1> QED BY <1>1 DEF OutputInv

\* The last record is out.
LEMMA OutputComplete ==
    ASSUME OutputInv, ReaderInv, pc \in Out, i = Len(records), output' = output,
           records' = records, mode' = mode, pc' = "done"
    PROVE  OutputInv'
  <1>1. output \in Seq(Nat \X Nat) /\ AreOut(output, records)
    BY DEF OutputInv
  <1>2. output' \in Seq(Nat \X Nat) /\ AreOut(output', records')
    BY <1>1, Zenon
  <1>3. /\ Len(output) = RecordSize * i + sentPieces /\ sentPieces = 0
        /\ pc = "write" => mode = "emit"
        /\ pc = "transmit" => records # <<>>
    BY DEF OutputInv, Out
  <1>4. Len(output') = RecordSize * Len(records')
    <2>1. RecordSize * Len(records) + 0 = RecordSize * Len(records)
      <3>1. Len(records) \in Nat /\ RecordSize \in Nat
        BY Sizes, LenProperties DEF ReaderInv, ReaderTypes
      <3> QED BY <3>1
    <2> QED BY <1>3, <2>1
  <1>5. mode' = "send" => records' # <<>>
    BY <1>3 DEF Out
  <1> QED BY <1>2, <1>4, <1>5 DEF OutputInv

\* The next n pieces go out.
LEMMA OutputGrown ==
    ASSUME OutputInv, ReaderInv, pc \in Out, i < Len(records),
           NEW n \in 0 .. RecordSize - sentPieces,
           NEW p, p = [k \in 1 .. n |-> <<records[i + 1], sentPieces + k>>],
           NEW o, o = output \o p
    PROVE  /\ o \in Seq(Nat \X Nat)
           /\ Len(o) = RecordSize * i + (sentPieces + n)
           /\ AreOut(o, records)
  <1>1. /\ records \in Seq(Nat) /\ output \in Seq(Nat \X Nat)
        /\ i \in Nat /\ sentPieces \in 0 .. RecordSize - 1
        /\ Len(output) = RecordSize * i + sentPieces /\ AreOut(output, records)
    <2>1. records \in Seq(Nat)
      BY DEF ReaderInv, ReaderTypes
    <2>2. Len(records) \in Nat
      BY <2>1, LenProperties
    <2> QED BY <2>1, <2>2 DEF OutputInv, Out
  <1>2. PICK rec : rec = records
    OBVIOUS
  <1>3. PICK j : j = i
    OBVIOUS
  <1>4. PICK s : s = sentPieces
    OBVIOUS
  <1>5. PICK b : b = output
    OBVIOUS
  <1>6. /\ rec \in Seq(Nat) /\ b \in Seq(Nat \X Nat) /\ j \in Nat /\ j < Len(rec)
        /\ s \in 0 .. RecordSize - 1 /\ n \in 0 .. RecordSize - s
        /\ Len(b) = RecordSize * j + s /\ AreOut(b, rec)
    BY <1>1, <1>2, <1>3, <1>4, <1>5
  <1>7. p = [k \in 1 .. n |-> <<rec[j + 1], s + k>>]
    BY <1>2, <1>3, <1>4, Zenon
  <1>8. n \in Nat /\ s \in Nat
    BY <1>6, Sizes
  <1>9. rec[j + 1] \in Nat
    <2>1. Len(rec) \in Nat
      BY <1>6, LenProperties
    <2>2. j + 1 \in 1 .. Len(rec)
      BY <1>6, <2>1
    <2> QED BY <1>6, <2>2, ElementOfSeq
  <1>10. p \in Seq(Nat \X Nat) /\ Len(p) = n /\ \A k \in 1 .. n : p[k] = <<rec[j + 1], s + k>>
    <2>1. \A k \in 1 .. n : <<rec[j + 1], s + k>> \in Nat \X Nat
      BY <1>8, <1>9
    <2>2. p \in [1 .. n -> Nat \X Nat]
      BY <1>7, <2>1
    <2>3. p \in Seq(Nat \X Nat)
      BY <1>8, <2>2, SeqDef
    <2>4. Len(p) = n
      BY <1>8, <2>2, <2>3, LenProperties
    <2>5. \A k \in 1 .. n : p[k] = <<rec[j + 1], s + k>>
      BY <1>7
    <2> QED BY <2>3, <2>4, <2>5
  <1>11. NextPieces(rec, b, j, s, n, p)
    BY <1>6, <1>10, Zenon DEF NextPieces
  <1>12. /\ b \o p \in Seq(Nat \X Nat)
         /\ Len(b \o p) = RecordSize * j + (s + n)
         /\ AreOut(b \o p, rec)
    BY ONLY <1>11, PiecesAppended
  <1> QED BY <1>2, <1>3, <1>4, <1>5, <1>12

\* The next record begins, or goes on.
LEMMA OutputGoesOn ==
    ASSUME OutputInv, ReaderInv, pc \in Out, i < Len(records),
           records' = records, mode' = mode, pc' = pc, exit' = exit,
           NEW n \in 1 .. RecordSize - sentPieces,
           NEW p, p = [k \in 1 .. n |-> <<records[i + 1], sentPieces + k>>],
           output' = output \o p,
           \/ sentPieces + n < RecordSize /\ sentPieces' = sentPieces + n /\ i' = i /\ pc = "transmit"
           \/ sentPieces + n = RecordSize /\ sentPieces' = 0 /\ i' = i + 1
    PROVE  OutputInv'
  <1>1. /\ output' \in Seq(Nat \X Nat)
        /\ Len(output') = RecordSize * i + (sentPieces + n)
        /\ AreOut(output', records')
    <2>1. n \in 0 .. RecordSize - sentPieces
      OBVIOUS
    <2>2. PICK o : o = output \o p
      OBVIOUS
    <2>3. o \in Seq(Nat \X Nat) /\ Len(o) = RecordSize * i + (sentPieces + n)
          /\ AreOut(o, records)
      BY <2>1, <2>2, OutputGrown
    <2>4. output' = o
      BY <2>2
    <2> QED BY <2>3, <2>4
  <1>2. /\ i \in 0 .. Len(records) /\ sentPieces \in 0 .. RecordSize - 1 /\ Len(records) \in Nat
        /\ RecordSize \in Nat \ {0}
    <2>1. Len(records) \in Nat
      BY LenProperties DEF ReaderInv, ReaderTypes
    <2> QED BY <2>1, Sizes DEF OutputInv, Out
  <1>3. /\ i' \in 0 .. Len(records) /\ sentPieces' \in 0 .. RecordSize - 1
        /\ i' = Len(records) => sentPieces' = 0
        /\ pc = "write" => sentPieces' = 0
    BY <1>2 DEF Out
  <1>4. Len(output') = RecordSize * i' + sentPieces'
    <2>1. CASE sentPieces' = sentPieces + n /\ i' = i
      BY <1>1, <2>1
    <2>2. CASE sentPieces + n = RecordSize /\ sentPieces' = 0 /\ i' = i + 1
      <3>1. RecordSize * i + RecordSize = RecordSize * (i + 1) + 0
        BY <1>2
      <3> QED BY <1>1, <2>2, <3>1
    <2> QED BY <2>1, <2>2
  <1>5. /\ pc \in {"emit", "write"} => mode = "emit"
        /\ pc \in {"connect", "transmit"} => records # <<>>
        /\ exit # 0
    BY DEF OutputInv, Out
  <1>6. exit' # 0
    BY <1>5
  <1>7. pc' \in Out
    OBVIOUS
  <1> QED BY <1>1, <1>3, <1>4, <1>5, <1>6, <1>7 DEF OutputInv, Out

LEMMA OutputStep ==
    ASSUME ReaderInv, OutputInv, [Next]_vars
    PROVE  OutputInv'
  <1>1. file' = file /\ mode' = mode
    BY InputKept
  <1>2. ReaderInv'
    BY ReaderStep
  <1>3. /\ records \in Seq(Nat) /\ Len(records) \in Nat /\ mode \in {"emit", "send"}
        /\ RecordSize \in Nat \ {0}
    BY Sizes, LenProperties DEF ReaderInv, ReaderTypes
  <1>4. /\ output \in Seq(Nat \X Nat) /\ AreOut(output, records)
        /\ pc # "done" => exit # 0
        /\ pc = "emit" => mode = "emit"
        /\ pc = "connect" => records # <<>>
    BY DEF OutputInv
  <1>5. CASE OpenCsv \/ OpenCsvFails \/ RejectLine \/ SkipBlank \/ ReadHeader
             \/ ReadRecord \/ ReadRecordFails
    <2>1. output' = output /\ i' = i /\ sentPieces' = sentPieces /\ pc \in Before
      BY <1>5 DEF OpenCsv, OpenCsvFails, RejectLine, SkipBlank, ReadHeader, ReadRecord,
                  ReadRecordFails, LineIs, senderVars, Before
    <2>2. \/ pc' = "done" /\ exit' # 0
          \/ exit' = exit /\ pc' = "read"
      BY <1>5 DEF OpenCsv, OpenCsvFails, RejectLine, SkipBlank, ReadHeader, ReadRecord,
                  ReadRecordFails, LineIs, Exit
    <2> QED BY <1>2, <2>1, <2>2, OutputBefore DEF Before
  <1>6. CASE ReadEnd
    <2>1. output' = output /\ i' = i /\ sentPieces' = sentPieces /\ pc \in Before
      BY <1>6 DEF ReadEnd, senderVars, Before
    <2>2. \/ pc' = "done" /\ exit' # 0
          \/ exit' = exit /\ pc' = mode
      BY <1>6 DEF ReadEnd, Exit
    <2>3. CASE pc' = "done" /\ exit' # 0
      BY <1>2, <2>1, <2>3, OutputBefore
    <2>4. CASE exit' = exit /\ pc' = mode
      <3>1. pc' \in Before /\ (pc' \in {"emit", "write"} => mode' = "emit")
            /\ pc' \notin {"connect", "transmit"}
        BY <1>1, <1>3, <2>4 DEF Before
      <3> QED BY <1>2, <2>1, <2>4, <3>1, OutputBefore
    <2> QED BY <2>2, <2>3, <2>4
  <1>7. CASE EmitOpen \/ SendBegin \/ ConnectOk \/ ConnectNext \/ ConnectFails
    <2>1. output' = output /\ i' = i /\ sentPieces' = sentPieces /\ pc \in Before
          /\ records' = records
      BY <1>7 DEF EmitOpen, SendBegin, ConnectOk, ConnectNext, ConnectFails,
                  senderVars, readerVars, Before
    <2>2. \/ pc' = "done" /\ exit' # 0
          \/ exit' = exit /\ pc = "emit" /\ pc' = "write"
          \/ exit' = exit /\ pc' = "connect" /\ records # <<>>
          \/ exit' = exit /\ pc' = "transmit" /\ records # <<>>
      BY <1>4, <1>7 DEF EmitOpen, SendBegin, ConnectOk, ConnectNext, ConnectFails, Exit
    <2>3. CASE pc' = "done" /\ exit' # 0
      BY <1>2, <2>1, <2>3, OutputBefore
    <2>4. CASE exit' = exit /\ pc = "emit" /\ pc' = "write"
      <3>1. pc' \in Before \cup Out /\ (pc' \in {"emit", "write"} => mode' = "emit")
            /\ pc' \notin {"connect", "transmit"}
        BY <1>1, <1>4, <2>4 DEF Out
      <3> QED BY <1>2, <2>1, <2>4, <3>1, OutputBefore
    <2>5. CASE exit' = exit /\ pc' \in {"connect", "transmit"} /\ records # <<>>
      <3>1. pc' \in Before \cup Out /\ pc' \notin {"emit", "write"} /\ records' # <<>>
        BY <2>1, <2>5 DEF Out, Before
      <3> QED BY <1>2, <2>1, <2>5, <3>1, OutputBefore
    <2> QED BY <2>2, <2>3, <2>4, <2>5
  <1>8. CASE EmitRecord
    <2>1. /\ pc = "write" /\ i < Len(records) /\ records' = records /\ pc' = pc
          /\ exit' = exit /\ i' = i + 1 /\ sentPieces' = sentPieces
          /\ output' = output \o Pieces(records[i + 1], RecordSize)
      BY <1>8 DEF EmitRecord, readerVars, senderVars
    <2>2. sentPieces = 0
      BY <2>1 DEF OutputInv
    <2>3. PICK p : p = [k \in 1 .. RecordSize |-> <<records[i + 1], sentPieces + k>>]
      OBVIOUS
    <2>4. Pieces(records[i + 1], RecordSize) = p
      BY <1>3, <2>2, <2>3 DEF Pieces
    <2>5. output' = output \o p
      BY <2>1, <2>4
    <2>6. RecordSize \in 1 .. RecordSize - sentPieces /\ sentPieces + RecordSize = RecordSize
          /\ sentPieces' = 0
      BY <1>3, <2>1, <2>2
    <2>7. pc \in Out
      BY <2>1 DEF Out
    <2> QED BY <1>1, <2>1, <2>3, <2>5, <2>6, <2>7, OutputGoesOn
  <1>9. CASE EmitShort
    <2>1. /\ pc = "write" /\ i < Len(records) /\ records' = records /\ pc' = "done"
          /\ exit' # 0
      BY <1>9 DEF EmitShort, readerVars, Exit
    <2>2. PICK n \in 0 .. RecordSize - 1 : output' = output \o Pieces(records[i + 1], n)
      BY <1>9 DEF EmitShort
    <2>3. sentPieces = 0
      BY <2>1 DEF OutputInv
    <2>4. PICK p : p = [k \in 1 .. n |-> <<records[i + 1], sentPieces + k>>]
      OBVIOUS
    <2>5. Pieces(records[i + 1], n) = p
      BY <1>3, <2>3, <2>4 DEF Pieces
    <2>6. PICK o : o = output \o p
      OBVIOUS
    <2>7. n \in 0 .. RecordSize - sentPieces /\ pc \in Out
      BY <1>3, <2>1, <2>3 DEF Out
    <2>8. o \in Seq(Nat \X Nat) /\ AreOut(o, records)
      BY <2>1, <2>4, <2>6, <2>7, OutputGrown
    <2>9. output' = o
      BY <2>2, <2>5, <2>6
    <2> QED BY <2>1, <2>8, <2>9, OutputFailed
  <1>10. CASE EmitClose
    <2>1. /\ pc = "write" /\ i = Len(records) /\ records' = records /\ pc' = "done"
      BY <1>10 DEF EmitClose, readerVars, Exit
    <2>2. \/ output' = output
          \/ exit' # 0 /\ \E n \in 0 .. Len(output) : output' = SubSeq(output, 1, n)
      BY <1>10 DEF EmitClose, Exit
    <2>3. CASE output' = output
      <3>1. pc \in Out
        BY <2>1 DEF Out
      <3> QED BY <1>1, <2>1, <2>3, <3>1, OutputComplete
    <2>4. CASE exit' # 0 /\ \E n \in 0 .. Len(output) : output' = SubSeq(output, 1, n)
      <3>1. PICK n \in 0 .. Len(output) : output' = SubSeq(output, 1, n)
        BY <2>4
      <3>2. Len(records) * RecordSize \in Nat
        BY <1>3, NothingOut
      <3>3. SubSeq(output, 1, n) \in Seq(Nat \X Nat) /\ AreOut(SubSeq(output, 1, n), records)
        BY <1>4, <3>2, CutOut
      <3>4. PICK o : o = SubSeq(output, 1, n)
        OBVIOUS
      <3>5. o \in Seq(Nat \X Nat) /\ AreOut(o, records) /\ output' = o
        BY <3>1, <3>3, <3>4
      <3> QED BY <2>1, <2>4, <3>5, OutputFailed
    <2> QED BY <2>2, <2>3, <2>4
  <1>11. CASE Send
    <2>1. /\ pc = "transmit" /\ i < Len(records) /\ records' = records /\ pc' = pc
          /\ exit' = exit
      BY <1>11 DEF Send, readerVars
    <2>2. PICK n \in 1 .. RecordSize - sentPieces :
            /\ output' = output \o [k \in 1 .. n |-> <<records[i + 1], sentPieces + k>>]
            /\ AfterSend(n)
      BY <1>11 DEF Send
    <2>3. PICK p : p = [k \in 1 .. n |-> <<records[i + 1], sentPieces + k>>]
      OBVIOUS
    <2>4. output' = output \o p
      BY <2>2, <2>3
    <2>5. sentPieces \in 0 .. RecordSize - 1
      BY <2>1 DEF OutputInv
    <2>6. \/ sentPieces + n < RecordSize /\ sentPieces' = sentPieces + n /\ i' = i
          \/ sentPieces + n = RecordSize /\ sentPieces' = 0 /\ i' = i + 1
      BY <1>3, <2>2, <2>5 DEF AfterSend
    <2>7. pc \in Out
      BY <2>1 DEF Out
    <2> QED BY <1>1, <2>1, <2>2, <2>3, <2>4, <2>6, <2>7, OutputGoesOn
  <1>12. CASE SendFails
    <2>1. output' = output /\ records' = records /\ pc' = "done" /\ exit' # 0
      BY <1>12 DEF SendFails, Exit, readerVars
    <2> QED BY <1>4, <2>1, OutputFailed
  <1>13. CASE SendEnd
    <2>1. /\ output' = output /\ records' = records /\ pc' = "done" /\ i = Len(records)
          /\ pc \in Out
      BY <1>13 DEF SendEnd, Exit, readerVars, Out
    <2> QED BY <1>1, <2>1, OutputComplete
  <1>14. CASE UNCHANGED vars
    BY <1>14 DEF OutputInv, AreOut, vars, readerVars, senderVars, inputVars
  <1>15. CASE SendInterrupted
    BY <1>14, <1>15 DEF SendInterrupted
  <1> QED BY <1>5, <1>6, <1>7, <1>8, <1>9, <1>10, <1>11, <1>12, <1>13, <1>14, <1>15
          DEF Next, Reader, Emitter, Sender
-------------------------------------------------------------------------------
(***************************************************************************)
(* The theorems.                                                           *)
(***************************************************************************)

LEMMA ProgramInv == Spec => [](ReaderInv /\ OutputInv)
  <1>1. Init => ReaderInv /\ OutputInv
    BY ReaderInit, OutputInit
  <1>2. ReaderInv /\ OutputInv /\ [Next]_vars => (ReaderInv /\ OutputInv)'
    BY ReaderStep, OutputStep
  <1> QED BY <1>1, <1>2, PTL DEF Spec

\* The records of the file, and where the bytes of them are.
LEMMA RecordsTyped ==
    ASSUME ReaderInv
    PROVE  RecordLines \in Seq(Nat) /\ Len(RecordLines) \in Nat
  <1>1. Len(file) \in Nat
    BY LenProperties DEF ReaderInv, ReaderTypes
  <1>2. RecordLines \in Seq(Nat)
    BY <1>1, RecordsGrow DEF RecordLines
  <1> QED BY <1>2, LenProperties

LEMMA PieceOf ==
    ASSUME NEW n \in Nat, NEW k \in 1 .. n * RecordSize
    PROVE  /\ (k - 1) \div RecordSize + 1 \in 1 .. n
           /\ ((k - 1) % RecordSize) + 1 \in Nat
  <1>1. RecordSize \in Nat \ {0} /\ n * RecordSize \in Nat /\ n * RecordSize = RecordSize * n
    BY Sizes
  <1>2. PICK a \in Int : a = k - 1
    BY <1>1
  <1>3. RecordSize * 0 <= a /\ a < RecordSize * n
    BY <1>1, <1>2
  <1>4. PICK q : q = a \div RecordSize
    OBVIOUS
  <1>5. q \in Int /\ a % RecordSize \in 0 .. RecordSize - 1
    BY <1>1, <1>2, <1>4, Divided, Zenon
  <1>6. 0 <= a \div RecordSize
    BY <1>1, <1>2, <1>3, DivBounds, 0 \in Int, Zenon
  <1>7. a \div RecordSize < n
    BY <1>1, <1>2, <1>3, DivBounds, n \in Int, Zenon
  <1>8. q + 1 \in 1 .. n /\ (a % RecordSize) + 1 \in Nat
    BY <1>1, <1>4, <1>5, <1>6, <1>7
  <1> QED BY <1>2, <1>4, <1>8

LEMMA EncodingTyped ==
    ASSUME ReaderInv, NEW n \in Nat, n = Len(RecordLines)
    PROVE  /\ Encoding(n) \in Seq(Nat \X Nat) /\ Len(Encoding(n)) = n * RecordSize
           /\ n * RecordSize \in Nat
           /\ \A k \in 1 .. n * RecordSize :
                 Encoding(n)[k] = <<RecordLines[(k - 1) \div RecordSize + 1],
                                    ((k - 1) % RecordSize) + 1>>
  <1>1. n * RecordSize \in Nat
    BY Sizes
  <1>2. RecordLines \in Seq(Nat)
    BY RecordsTyped
  <1>3. \A k \in 1 .. n * RecordSize :
          <<RecordLines[(k - 1) \div RecordSize + 1], ((k - 1) % RecordSize) + 1>> \in Nat \X Nat
    <2> TAKE k \in 1 .. n * RecordSize
    <2>1. (k - 1) \div RecordSize + 1 \in 1 .. n /\ ((k - 1) % RecordSize) + 1 \in Nat
      BY PieceOf
    <2>2. RecordLines[(k - 1) \div RecordSize + 1] \in Nat
      BY <1>2, <2>1, ElementOfSeq
    <2> QED BY <2>1, <2>2
  <1>4. Encoding(n) \in [1 .. n * RecordSize -> Nat \X Nat]
    BY <1>3 DEF Encoding
  <1>5. Encoding(n) \in Seq(Nat \X Nat)
    BY <1>1, <1>4, SeqDef
  <1>6. Len(Encoding(n)) = n * RecordSize
    BY <1>1, <1>4, <1>5, LenProperties
  <1>7. \A k \in 1 .. n * RecordSize :
          Encoding(n)[k] = <<RecordLines[(k - 1) \div RecordSize + 1],
                             ((k - 1) % RecordSize) + 1>>
    BY DEF Encoding
  <1> QED BY <1>1, <1>5, <1>6, <1>7

\* What goes out has been read, and what was read begins the records of the file.
LEMMA OutOfFile ==
    ASSUME ReaderInv, OutputInv
    PROVE  /\ output \in Seq(Nat \X Nat) /\ Len(output) \in Nat
           /\ Len(output) <= Len(RecordLines) * RecordSize
           /\ \A k \in 1 .. Len(output) :
                 output[k] = <<RecordLines[(k - 1) \div RecordSize + 1],
                               ((k - 1) % RecordSize) + 1>>
  <1>1. /\ Len(records) \in Nat /\ RecordSize \in Nat \ {0}
        /\ Len(records) <= Len(RecordLines)
        /\ \A j \in 1 .. Len(records) : records[j] = RecordLines[j]
    BY Sizes, LenProperties DEF ReaderInv, ReaderTypes
  <1>2. /\ output \in Seq(Nat \X Nat) /\ Len(output) \in Nat
        /\ Len(output) <= Len(records) * RecordSize
        /\ \A k \in 1 .. Len(output) :
              output[k] = <<records[(k - 1) \div RecordSize + 1], ((k - 1) % RecordSize) + 1>>
    BY LenProperties DEF OutputInv, AreOut
  <1>3. Len(RecordLines) \in Nat
    BY RecordsTyped
  <1>4. Len(records) * RecordSize <= Len(RecordLines) * RecordSize
    <2>1. PICK d \in Nat : Len(RecordLines) = Len(records) + d
      <3>1. Len(RecordLines) - Len(records) \in Nat
            /\ Len(RecordLines) = Len(records) + (Len(RecordLines) - Len(records))
        BY <1>1, <1>3
      <3> QED BY <3>1
    <2>2. (Len(records) + d) * RecordSize = Len(records) * RecordSize + d * RecordSize
          /\ d * RecordSize \in Nat /\ Len(records) * RecordSize \in Nat
      BY <1>1, <2>1
    <2> QED BY <2>1, <2>2
  <1>5. Len(records) * RecordSize \in Nat /\ Len(RecordLines) * RecordSize \in Nat
    BY <1>1, <1>3
  <1>6. ASSUME NEW k \in 1 .. Len(output)
        PROVE  records[(k - 1) \div RecordSize + 1] = RecordLines[(k - 1) \div RecordSize + 1]
    <2>1. k \in 1 .. Len(records) * RecordSize
      BY <1>2, <1>5
    <2>2. (k - 1) \div RecordSize + 1 \in 1 .. Len(records)
      BY <1>1, <2>1, PieceOf
    <2> QED BY <1>1, <2>2
  <1>7. Len(output) <= Len(RecordLines) * RecordSize
    BY <1>2, <1>4, <1>5
  <1> QED BY <1>2, <1>6, <1>7

\* OutputIsPrefix.  What goes out is a beginning of the records of the file in
\* their order, byte for byte, whatever send() takes at a time, is interrupted or
\* fails, and whichever write, close or allocation fails.
THEOREM BeginningIsOut == Spec => []OutputIsPrefix
  <1>1. ReaderInv /\ OutputInv => OutputIsPrefix
    <2> SUFFICES ASSUME ReaderInv, OutputInv PROVE OutputIsPrefix
      OBVIOUS
    <2>1. PICK n \in Nat : n = Len(RecordLines)
      BY RecordsTyped
    <2>2. PICK e : e = Encoding(n)
      OBVIOUS
    <2>3. /\ e \in Seq(Nat \X Nat) /\ Len(e) = n * RecordSize /\ n * RecordSize \in Nat
          /\ \A k \in 1 .. n * RecordSize :
                e[k] = <<RecordLines[(k - 1) \div RecordSize + 1],
                         ((k - 1) % RecordSize) + 1>>
      BY <2>1, <2>2, EncodingTyped
    <2>4. PICK m \in Nat : m = Len(output)
      BY OutOfFile
    <2>5. /\ output \in Seq(Nat \X Nat) /\ m <= n * RecordSize
          /\ \A k \in 1 .. m :
                output[k] = <<RecordLines[(k - 1) \div RecordSize + 1],
                              ((k - 1) % RecordSize) + 1>>
      BY <2>1, <2>4, OutOfFile
    <2>6. \A k \in 1 .. m : k \in 1 .. n * RecordSize /\ e[k] \in Nat \X Nat
      <3>1. \A k \in 1 .. m : k \in 1 .. n * RecordSize
        BY <2>3, <2>4, <2>5
      <3>2. \A k \in 1 .. n * RecordSize : e[k] \in Nat \X Nat
        BY <2>3, ElementOfSeq
      <3> QED BY <3>1, <3>2
    <2>7. PICK c : c = SubSeq(e, 1, m)
      OBVIOUS
    <2>8. c \in Seq(Nat \X Nat) /\ Len(c) = m /\ \A k \in 1 .. m : c[k] = e[k]
      <3>1. /\ SubSeq(e, 1, m) \in Seq(Nat \X Nat)
            /\ Len(SubSeq(e, 1, m)) = IF 1 <= m THEN m - 1 + 1 ELSE 0
            /\ \A k \in 1 .. m - 1 + 1 : SubSeq(e, 1, m)[k] = e[1 + k - 1]
        BY SMTT(30), <2>3, <2>4, <2>6, SubSeqProperties
      <3> QED BY <2>4, <2>7, <3>1
    <2>9. \A k \in 1 .. Len(output) : output[k] = c[k]
      <3> TAKE k \in 1 .. Len(output)
      <3>1. k \in 1 .. m /\ k \in 1 .. n * RecordSize
        BY <2>4, <2>6
      <3> QED BY <2>3, <2>5, <2>8, <3>1
    <2>10. output = c
      BY <2>4, <2>5, <2>8, <2>9, SeqEqual
    <2> QED BY <2>1, <2>2, <2>4, <2>5, <2>7, <2>10 DEF OutputIsPrefix
  <1> QED BY <1>1, ProgramInv, PTL

\* ExitZeroIsComplete.  If the file could be read to its end, exit code 0 means
\* that every record of it is out, that no line was skipped for being malformed
\* and, when sending, that there was one.
THEOREM SuccessIsComplete == Spec => []ExitZeroIsComplete
  <1>1. ReaderInv /\ OutputInv => ExitZeroIsComplete
    <2> SUFFICES ASSUME ReaderInv, OutputInv, exit = 0, ~readFailed
                 PROVE  /\ output = Encoding(Len(RecordLines))
                        /\ \A k \in DOMAIN file : file[k] \in {"header", "record", "blank"}
                        /\ mode = "send" => output # <<>>
      BY DEF ExitZeroIsComplete
    <2>1. pc = "done"
      BY DEF OutputInv
    <2>2. records = RecordLines /\ lineNo = Len(file) /\ WellRead
      BY <2>1 DEF ReaderInv
    <2>3. Len(output) = RecordSize * Len(RecordLines) /\ (mode = "send" => RecordLines # <<>>)
      BY <2>2 DEF OutputInv
    <2>4. PICK n \in Nat : n = Len(RecordLines)
      BY RecordsTyped
    <2>5. RecordSize * n = n * RecordSize /\ RecordSize \in Nat \ {0}
      BY Sizes
    <2>6. PICK e : e = Encoding(n)
      OBVIOUS
    <2>7. /\ e \in Seq(Nat \X Nat) /\ Len(e) = n * RecordSize
          /\ \A k \in 1 .. n * RecordSize :
                e[k] = <<RecordLines[(k - 1) \div RecordSize + 1],
                         ((k - 1) % RecordSize) + 1>>
      BY <2>4, <2>6, EncodingTyped
    <2>8. Len(output) = n * RecordSize
      BY <2>3, <2>4, <2>5
    <2>9. output \in Seq(Nat \X Nat) /\ \A k \in 1 .. Len(output) : output[k] = e[k]
      <3>1. /\ output \in Seq(Nat \X Nat)
            /\ \A k \in 1 .. Len(output) :
                  output[k] = <<RecordLines[(k - 1) \div RecordSize + 1],
                                ((k - 1) % RecordSize) + 1>>
        BY OutOfFile
      <3> QED BY <2>7, <2>8, <3>1
    <2>10. output = e
      BY <2>7, <2>8, <2>9, SeqEqual
    <2>11. \A k \in DOMAIN file : file[k] \in {"header", "record", "blank"}
      <3>1. DOMAIN file = 1 .. Len(file)
        BY LenProperties DEF ReaderInv, ReaderTypes
      <3> QED BY <2>2, <3>1 DEF WellRead
    <2>12. mode = "send" => output # <<>>
      <3> SUFFICES ASSUME mode = "send" PROVE Len(output) # 0
        BY EmptySeq
      <3>1. n # 0
        BY <2>3, <2>4, RecordsTyped, EmptySeq
      <3>2. n * RecordSize # 0
        BY <2>5, <3>1
      <3> QED BY <2>8, <3>2
    <2> QED BY <2>4, <2>6, <2>10, <2>11, <2>12
  <1> QED BY <1>1, ProgramInv, PTL
===============================================================================
