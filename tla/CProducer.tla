------------------------------- MODULE CProducer ------------------------------
(***************************************************************************)
(* The C producer (c/src): main reads the whole CSV file into records and  *)
(* then either writes them to a file or sends them over one connection.    *)
(* The environment chooses the lines of the file, fails any call, and lets *)
(* send() take a part of what it is given.                                 *)
(*                                                                         *)
(* A line is of a kind, and a record is the number of the line it was read *)
(* from.  On the wire a record is RecordSize pieces, <<line, 1>>, ...      *)
(***************************************************************************)
EXTENDS Integers, Sequences

CONSTANTS
    RecordSize,         \* SENSOR_RECORD_SIZE, in pieces
    InitialCapacity,    \* 16: the first size of the record array
    Candidates,         \* addresses that getaddrinfo may return
    MaxLines            \* bound: lines of the file

ASSUME CProducerAssumption ==
    /\ RecordSize \in Nat \ {0}
    /\ InitialCapacity \in Nat \ {0}
    /\ Candidates \in Nat
    /\ MaxLines \in Nat

\* "columns": not 305 of them; "field": one is empty, no number or out of range,
\* as every field of a header line is.
Kinds == {"blank", "header", "record", "columns", "field"}

VARIABLES
    file,               \* the lines of the CSV file
    mode,               \* "emit" (--emit-binary) or "send" (--host, --port)
    pc,                 \* what main does next
    lineNo,             \* line_no
    headerSeen,         \* header_seen
    records,            \* records[0 .. count - 1]
    capacity,           \* capacity
    readFailed,         \* history: has getline() failed before the end?
    csvOpen,            \* fp
    outOpen,            \* out
    sockets,            \* how many sockets are open
    candidate,          \* p: addresses not tried yet
    i,                  \* i: records that are out
    sentPieces,         \* sent, in send_all
    output,             \* what the output file or the connection was given
    exit                \* the exit code, or -1

inputVars == <<file, mode>>
readerVars == <<lineNo, headerSeen, records, capacity, readFailed, csvOpen>>
senderVars == <<sockets, candidate, sentPieces>>
vars == <<inputVars, pc, readerVars, outOpen, senderVars, i, output, exit>>

Init ==
    /\ \E n \in 0 .. MaxLines : file \in [1 .. n -> Kinds]
    /\ mode \in {"emit", "send"}
    /\ pc = "open"
    /\ lineNo = 0
    /\ headerSeen = FALSE
    /\ records = <<>>
    /\ capacity = 0
    /\ readFailed = FALSE
    /\ csvOpen = FALSE
    /\ outOpen = FALSE
    /\ sockets = 0
    /\ candidate = 0
    /\ i = 0
    /\ sentPieces = 0
    /\ output = <<>>
    /\ exit = -1

Exit(code) == pc' = "done" /\ exit' = code
-------------------------------------------------------------------------------
(***************************************************************************)
(* read_csv_records.                                                       *)
(***************************************************************************)

OpenCsv ==
    /\ pc = "open"
    /\ csvOpen' = TRUE
    /\ pc' = "read"
    /\ UNCHANGED <<inputVars, lineNo, headerSeen, records, capacity, readFailed,
                   outOpen, senderVars, i, output, exit>>

OpenCsvFails ==
    /\ pc = "open"
    /\ Exit(1)
    /\ UNCHANGED <<inputVars, readerVars, outOpen, senderVars, i, output>>

\* The line getline() returns next is of this kind.
LineIs(kinds) ==
    /\ pc = "read"
    /\ lineNo < Len(file)
    /\ file[lineNo + 1] \in kinds
    /\ lineNo' = lineNo + 1

\* A blank line counts, so a header after it is not on line 1.
SkipBlank ==
    /\ LineIs({"blank"})
    /\ UNCHANGED <<inputVars, pc, headerSeen, records, capacity, readFailed,
                   csvOpen, outOpen, senderVars, i, output, exit>>

ReadHeader ==
    /\ LineIs({"header"})
    /\ lineNo = 0
    /\ headerSeen' = TRUE
    /\ UNCHANGED <<inputVars, pc, records, capacity, readFailed, csvOpen,
                   outOpen, senderVars, i, output, exit>>

\* Line 1 is not the header, or a later line is not a record.
RejectLine ==
    /\ LineIs(Kinds \ {"blank"})
    /\ \/ lineNo = 0 /\ file[1] # "header"
       \/ lineNo > 0 /\ file[lineNo + 1] # "record"
    /\ csvOpen' = FALSE
    /\ Exit(1)
    /\ UNCHANGED <<inputVars, headerSeen, records, capacity, readFailed, outOpen,
                   senderVars, i, output>>

\* The array doubles when it is full.
Grown == IF Len(records) < capacity THEN capacity
         ELSE IF capacity = 0 THEN InitialCapacity ELSE 2 * capacity

ReadRecord ==
    /\ LineIs({"record"})
    /\ lineNo > 0
    /\ capacity' = Grown
    /\ records' = Append(records, lineNo')
    /\ UNCHANGED <<inputVars, pc, headerSeen, readFailed, csvOpen, outOpen,
                   senderVars, i, output, exit>>

\* realloc fails.
ReadRecordFails ==
    /\ LineIs({"record"})
    /\ lineNo > 0
    /\ Grown # capacity
    /\ csvOpen' = FALSE
    /\ Exit(1)
    /\ UNCHANGED <<inputVars, headerSeen, records, capacity, readFailed, outOpen,
                   senderVars, i, output>>

\* The check after the loop.
HeaderMissing == ~headerSeen

\* getline() returns -1, at the end of the file or because reading failed,
\* which the code does not tell apart.
ReadEnd ==
    /\ pc = "read"
    /\ readFailed' = (lineNo < Len(file))
    /\ csvOpen' = FALSE
    /\ \/ HeaderMissing /\ Exit(1)
       \/ ~HeaderMissing /\ pc' = mode /\ UNCHANGED exit
    /\ UNCHANGED <<inputVars, lineNo, headerSeen, records, capacity, outOpen,
                   senderVars, i, output>>
-------------------------------------------------------------------------------
(***************************************************************************)
(* main, with --emit-binary.                                               *)
(***************************************************************************)

Pieces(line, n) == [k \in 1 .. n |-> <<line, k>>]

EmitOpen ==
    /\ pc = "emit"
    /\ \/ outOpen' = TRUE /\ pc' = "write" /\ UNCHANGED exit
       \/ UNCHANGED outOpen /\ Exit(1)
    /\ UNCHANGED <<inputVars, readerVars, senderVars, i, output>>

EmitRecord ==
    /\ pc = "write"
    /\ i < Len(records)
    /\ output' = output \o Pieces(records[i + 1], RecordSize)
    /\ i' = i + 1
    /\ UNCHANGED <<inputVars, pc, readerVars, outOpen, senderVars, exit>>

\* fwrite writes less than a record.
EmitShort ==
    /\ pc = "write"
    /\ i < Len(records)
    /\ \E n \in 0 .. RecordSize - 1 :
          output' = output \o Pieces(records[i + 1], n)
    /\ outOpen' = FALSE
    /\ Exit(1)
    /\ UNCHANGED <<inputVars, readerVars, senderVars, i>>

\* fclose, which may fail to write what fwrite has buffered.
EmitClose ==
    /\ pc = "write"
    /\ i = Len(records)
    /\ outOpen' = FALSE
    /\ \/ Exit(0) /\ UNCHANGED output
       \/ /\ Exit(1)
          /\ \E n \in 0 .. Len(output) : output' = SubSeq(output, 1, n)
    /\ UNCHANGED <<inputVars, readerVars, senderVars, i>>
-------------------------------------------------------------------------------
(***************************************************************************)
(* send_records_to_endpoint and send_all.                                  *)
(***************************************************************************)

\* No record is an error here; getaddrinfo finds some addresses, or fails.
SendBegin ==
    /\ pc = "send"
    /\ \/ /\ records # <<>>
          /\ candidate' \in 1 .. Candidates
          /\ pc' = "connect"
          /\ UNCHANGED exit
       \/ Exit(1) /\ UNCHANGED candidate
    /\ UNCHANGED <<inputVars, readerVars, outOpen, sockets, sentPieces, i, output>>

ConnectOk ==
    /\ pc = "connect"
    /\ candidate > 0
    /\ sockets' = sockets + 1
    /\ pc' = "transmit"
    /\ UNCHANGED <<inputVars, readerVars, outOpen, candidate, sentPieces, i,
                   output, exit>>

\* socket() fails, or connect() does and the socket is closed again.
ConnectNext ==
    /\ pc = "connect"
    /\ candidate > 0
    /\ candidate' = candidate - 1
    /\ UNCHANGED <<inputVars, pc, readerVars, outOpen, sockets, sentPieces, i,
                   output, exit>>

ConnectFails ==
    /\ pc = "connect"
    /\ candidate = 0
    /\ Exit(1)
    /\ UNCHANGED <<inputVars, readerVars, outOpen, senderVars, i, output>>

\* Mutation: what send() did not take is given up.
AfterSendDropping(n) == sentPieces' = 0 /\ i' = i + 1

\* send() has taken n pieces; the record is out when it has taken them all.
AfterSend(n) ==
    IF sentPieces + n < RecordSize
    THEN sentPieces' = sentPieces + n /\ UNCHANGED i
    ELSE sentPieces' = 0 /\ i' = i + 1

\* send() takes a part of the rest of the record.
Send ==
    /\ pc = "transmit"
    /\ i < Len(records)
    /\ \E n \in 1 .. RecordSize - sentPieces :
        /\ output' = output \o [k \in 1 .. n |-> <<records[i + 1], sentPieces + k>>]
        /\ AfterSend(n)
    /\ UNCHANGED <<inputVars, pc, readerVars, outOpen, sockets, candidate, exit>>

\* Mutation: a send() that was interrupted begins the record again.
SendInterruptedRestarting ==
    /\ pc = "transmit"
    /\ i < Len(records)
    /\ sentPieces' = 0
    /\ UNCHANGED <<inputVars, pc, readerVars, outOpen, sockets, candidate, i,
                   output, exit>>

\* send() is interrupted and called again (EINTR).
SendInterrupted ==
    /\ pc = "transmit"
    /\ i < Len(records)
    /\ UNCHANGED vars

\* send() fails: the connection is closed with a part of the records out.
SendFails ==
    /\ pc = "transmit"
    /\ i < Len(records)
    /\ sockets' = sockets - 1
    /\ Exit(1)
    /\ UNCHANGED <<inputVars, readerVars, outOpen, candidate, sentPieces, i, output>>

SendEnd ==
    /\ pc = "transmit"
    /\ i = Len(records)
    /\ sockets' = sockets - 1
    /\ Exit(0)
    /\ UNCHANGED <<inputVars, readerVars, outOpen, candidate, sentPieces, i, output>>
-------------------------------------------------------------------------------
Reader ==
    \/ OpenCsv \/ OpenCsvFails \/ SkipBlank \/ ReadHeader \/ RejectLine
    \/ ReadRecord \/ ReadRecordFails \/ ReadEnd

Emitter == EmitOpen \/ EmitRecord \/ EmitShort \/ EmitClose

Sender ==
    \/ SendBegin \/ ConnectOk \/ ConnectNext \/ ConnectFails
    \/ Send \/ SendInterrupted \/ SendFails \/ SendEnd

Next == Reader \/ Emitter \/ Sender

Spec == Init /\ [][Next]_vars
-------------------------------------------------------------------------------
(***************************************************************************)
(* Properties.                                                             *)
(***************************************************************************)

\* Those of the first n lines of the file that are records, in order.
RecordsIn[n \in 0 .. Len(file)] ==
    IF n = 0 THEN <<>>
    ELSE IF file[n] = "record" THEN Append(RecordsIn[n - 1], n)
    ELSE RecordsIn[n - 1]

RecordLines == RecordsIn[Len(file)]

\* The bytes of the first n record lines of the file.
Encoding(n) ==
    [k \in 1 .. n * RecordSize |->
        <<RecordLines[(k - 1) \div RecordSize + 1], ((k - 1) % RecordSize) + 1>>]

\* What goes out is a beginning of the records of the file, whatever send()
\* takes at a time, is interrupted or fails: a consumer never loses the framing.
OutputIsPrefix ==
    /\ Len(output) <= Len(RecordLines) * RecordSize
    /\ output = SubSeq(Encoding(Len(RecordLines)), 1, Len(output))

\* Exit code 0 means that all the lines of a well formed file are out, provided
\* that it could be read to its end; a file without records fails when sending.
ExitZeroIsComplete ==
    exit = 0 /\ ~readFailed =>
        /\ output = Encoding(Len(RecordLines))
        /\ \A k \in DOMAIN file : file[k] \in {"header", "record", "blank"}
        /\ mode = "send" => output # <<>>
===============================================================================
