------------------------------- MODULE RecordPath ------------------------------
(***************************************************************************)
(* The way of the data: from a configuration file and a command line to a  *)
(* program that runs or refuses to, and from the record that its generator *)
(* makes (generator.py), over its encoding, to the row of the archive.     *)
(* The C program makes its records from CSV rows instead.                  *)
(*                                                                         *)
(* Threads, queues and connections are those of the other modules; here    *)
(* one record is on its way at a time.                                     *)
(***************************************************************************)
EXTENDS Config

CONSTANTS
    Inputs,             \* the files and options to start a program with
    Rows,               \* the CSV rows to send
    Clock,              \* what epoch_us_now() may return
    DroppedTotals,      \* what dropped_total may be
    MaxRecords          \* bound: records generated

ASSUME RecordPathAssumption ==
    /\ Clock \subseteq Nat /\ DroppedTotals \subseteq Nat
    /\ MaxRecords \in Nat
    /\ \A in \in Inputs : in.program \in {"producer", "consumer"}

\* In Inputs, file is a TOML file, and args the options given to the program.
ASSUME InputsAssumption ==
    \A in \in Inputs :
        LET flags == IF in.program = "producer" THEN ProducerFlags ELSE ConsumerFlags
        IN  /\ \A key \in DOMAIN in.file : TomlValue(in.file[key])
            /\ DOMAIN in.args \subseteq DOMAIN flags
            /\ \A f \in DOMAIN in.args : ArgValue(flags[f], in.args[f])

\* A row has a number for every field, and one for every value.
ASSUME RowsAssumption ==
    \A r \in Rows :
        /\ r = [f \in ToSet(Fields) \cup {"values"} |-> r[f]]
        /\ \A k \in DOMAIN Fields : r[Fields[k]] \in Int
        /\ r.values \in [1 .. ValuesCount -> Int]

\* In the code 2^64 microseconds are 584,000 years.
ASSUME ClockAssumption == \A now \in Clock : now + MaxRecords < Byte ^ 8

VARIABLES
    pc,                 \* "start", "refused", "ready", "generate", "encode",
                        \* "receive", "archived", "hungup", "dead"
    input,              \* a member of Inputs; for the C program, of Rows
    config,             \* the MockConfig
    nextSeq,            \* _next_sequence_number
    last,               \* _last_timestamp_us; -1 is None
    clock,              \* current_timestamp_us, in next_record
    count,              \* records generated
    record,             \* the record under way
    payload,            \* its bytes
    row                 \* the row archived last

vars == <<pc, input, config, nextSeq, last, clock, count, record, payload, row>>

CProgram == "c"

Init ==
    /\ pc = "start"
    /\ input \in Inputs \cup [program : {CProgram}, row : Rows]
    /\ config = Refused
    /\ nextSeq = 0
    /\ last = -1
    /\ clock = 0
    /\ count = 0
    /\ record = <<>>
    /\ payload = <<>>
    /\ row = <<>>
-------------------------------------------------------------------------------
Names == IF input.program = "producer" THEN ProducerNames ELSE ConsumerNames

\* run_producer_cli, run_consumer_cli up to the constructor of the program.
Load ==
    /\ pc = "start"
    /\ input.program # CProgram
    /\ config' = LoadConfig(input.file, Overrides(Names, input.args))
    /\ pc' = IF config'.accepted THEN "ready" ELSE "refused"
    /\ UNCHANGED <<input, nextSeq, last, clock, count, record, payload, row>>

\* RecordGenerator(config); what it does not read of config is left out.
StartGenerator ==
    /\ pc = "ready"
    /\ input.program = "producer"
    /\ config' = [key \in {"device_id", "measurement_type", "gps_latitude",
                           "gps_longitude", "gps_altitude_m"} |-> config[key]]
    /\ nextSeq' = config.initial_sequence_number
    /\ input' = [program |-> "producer"]
    /\ pc' = "generate"
    /\ UNCHANGED <<last, clock, count, record, payload, row>>

\* Mutation: the clock is taken as it is.
StampOfClock(now) == now

\* Mutation: from the second record on the clock is not looked at.
StampCounting(now) == IF last # -1 THEN last + 1 ELSE now

\* The clock may stand still or be set back.
Stamp(now) == IF last # -1 /\ now <= last THEN last + 1 ELSE now

\* next_record(dropped_total)
Generate ==
    /\ pc = "generate"
    /\ count < MaxRecords
    /\ \E now \in Clock, dropped \in DroppedTotals :
          /\ clock' = now
          /\ last' = Stamp(now)
          /\ record' =
                [device_id |-> config.device_id,
                 measurement_type |-> config.measurement_type,
                 sequence_number |-> nextSeq,
                 dropped_records_total |-> dropped % Byte ^ 4,
                 sensor_timestamp_us |-> last',
                 gps_timestamp_us |-> last',
                 gps_latitude_e7 |-> Scaled(config.gps_latitude, DegreeE7),
                 gps_longitude_e7 |-> Scaled(config.gps_longitude, DegreeE7),
                 gps_altitude_mm |-> Scaled(config.gps_altitude_m, MetreMm),
                 values |-> SampleValues]
    /\ nextSeq' = (nextSeq + 1) % Byte ^ 4
    /\ count' = count + 1
    /\ pc' = "encode"
    /\ UNCHANGED <<input, config, payload, row>>

\* encode_record in the producer thread, which a ValueError would end.
EncodeRecord ==
    /\ pc = "encode"
    /\ \/ ValidRecord(record) /\ payload' = Encode(record) /\ pc' = "receive"
       \/ ~ValidRecord(record) /\ pc' = "dead" /\ UNCHANGED payload
    /\ UNCHANGED <<input, config, nextSeq, last, clock, count, record, row>>

\* The C program reads a row and serializes it, or refuses the file.
ConvertRow ==
    /\ pc = "start"
    /\ input.program = CProgram
    /\ \/ /\ CsvRowOk(input.row)
          /\ record' = CsvRecord(input.row)
          /\ payload' = Serialize(record')
          /\ pc' = "receive"
       \/ ~CsvRowOk(input.row) /\ pc' = "refused" /\ UNCHANGED <<record, payload>>
    /\ UNCHANGED <<input, config, nextSeq, last, clock, count, row>>

\* The consumer decodes and archives.  A payload that is malformed costs the
\* connection; a row that fits no column would end the writer thread, because
\* the table is built outside of the try.
Receive ==
    /\ pc = "receive"
    /\ LET decoded == Decode(payload)
       IN  \/ ~decoded.valid /\ pc' = "hungup" /\ UNCHANGED row
           \/ decoded.valid /\ ~FitsRow(decoded.record) /\ pc' = "dead" /\ UNCHANGED row
           \/ /\ decoded.valid /\ FitsRow(decoded.record)
              /\ row' = Row(decoded.record)
              /\ pc' = "archived"
    /\ UNCHANGED <<input, config, nextSeq, last, clock, count, record, payload>>

NextRecord ==
    /\ pc = "archived"
    /\ input.program = "producer"
    /\ pc' = "generate"
    /\ UNCHANGED <<input, config, nextSeq, last, clock, count, record, payload, row>>

Next ==
    \/ Load \/ StartGenerator \/ Generate \/ EncodeRecord
    \/ ConvertRow \/ Receive \/ NextRecord

Spec == Init /\ [][Next]_vars
-------------------------------------------------------------------------------
(***************************************************************************)
(* Properties.                                                             *)
(***************************************************************************)

\* The configuration keeps what the other modules assume of their constants.
Runnable(c) ==
    /\ c.ring_buffer_capacity > 0 /\ c.rate_hz > 0
    /\ c.initial_sequence_number \in Uint(4)
    /\ c.parquet_enabled =>
          /\ HasExporter(c)
          /\ ExporterMode(c) = "volume" => c.parquet_max_records_per_file > 0
          /\ ExporterMode(c) = "time" => c.parquet_flush_interval_seconds > 0

\* A configuration that load_config accepts, from whatever file and options,
\* never ends a thread later: every record made from it can be encoded, decoded
\* and put into the columns of the archive, and the exporter has what it needs.
AcceptedConfigRuns ==
    /\ pc = "ready" => Runnable(config)
    /\ pc # "dead"

\* The record that was meant: in C, the row as it is written.
Meant == IF input.program = CProgram THEN input.row ELSE record

\* A number without a sign in a column without a sign.
NoMinus(r) ==
    /\ \A k \in DOMAIN Fields : Fields[k] \notin Signed => r[Fields[k]] >= 0
    /\ \A i \in DOMAIN r.values : r.values[i] >= 0

\* The Python encoder, the C serializer, the decoder and the columns agree: the
\* row archived is the record generated, or the CSV row with all its numbers,
\* and a row is refused only if it is no record.  (A minus sign in an unsigned
\* column is another matter: strtoull takes it and wraps.)
RecordSurvives ==
    /\ pc = "archived" /\ NoMinus(Meant) => row = Meant
    /\ pc = "refused" /\ input.program = CProgram => ~ValidRecord(input.row)
    /\ pc # "hungup"

\* The time stamps of successive records increase, whatever the clock does,
\* and a record is never stamped earlier than the clock says.
TimestampsIncrease ==
    [][count' # count =>
          /\ record # <<>> => record'.sensor_timestamp_us > record.sensor_timestamp_us
          /\ record'.sensor_timestamp_us >= clock'
          /\ record'.gps_timestamp_us = record'.sensor_timestamp_us]_vars

NoOverrides == [key \in {} |-> None]

\* An option does what the same value in the file does, for every option of
\* both parsers, also for 0 and the empty string, and whatever the file says;
\* only a relative capture path is taken from elsewhere.
FlagsAct ==
    pc \in {"ready", "refused"} /\ input.program # CProgram =>
        LET args == input.args
            captures == "capture_path" \in DOMAIN args
            InFile(key) ==
                IF key = "capture_path" /\ args[key] # Str("") THEN Str("/absolute")
                ELSE IF args[key].type = "path" THEN Str(PathText(args[key]))
                ELSE args[key]
            written == LoadConfig(
                          Updated(input.file, [key \in DOMAIN args |-> InFile(key)]),
                          NoOverrides)
        IN  config = IF written.accepted /\ captures
                     THEN Updated(written, [capture_path |-> args["capture_path"].text])
                     ELSE written
===============================================================================
