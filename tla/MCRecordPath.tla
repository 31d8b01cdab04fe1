------------------------------ MODULE MCRecordPath -----------------------------
(***************************************************************************)
(* The inputs that the model checker starts RecordPath with.               *)
(***************************************************************************)
EXTENDS RecordPath, TLC

\* configs/default.toml, with numbers for a Byte of 2.
DefaultFile ==
    [bind_host |-> Str("host"), bind_port |-> Integer(3),
     consumer_host |-> Str("host"), consumer_port |-> Integer(3),
     device_id |-> Integer(1), measurement_type |-> Integer(1),
     rate_hz |-> Integer(1000), mode |-> Str("rate-controlled"),
     ring_buffer_capacity |-> Integer(4096),
     initial_sequence_number |-> Integer(15),
     gps_latitude |-> Float(3), gps_longitude |-> Float(-5),
     gps_altitude_m |-> Integer(3), capture_path |-> Str(""),
     parquet_enabled |-> Bool(FALSE), parquet_output_dir |-> Str(""),
     parquet_batch_mode |-> Str(""),
     parquet_max_records_per_file |-> Integer(1000),
     parquet_flush_interval_seconds |-> Float(2),
     parquet_queue_capacity |-> Integer(256)]

ExportingFile ==
    [DefaultFile EXCEPT !.parquet_enabled = Bool(TRUE),
                        !.parquet_output_dir = Str("out"),
                        !.parquet_batch_mode = Str("time"),
                        !.capture_path = Str("capture")]

BaseFiles == {DefaultFile, ExportingFile}

\* Values around every limit, in units and in halves, of every type.
RawValues ==
    {Integer(n) : n \in {-5, -4, -3, -2, -1, 0, 1, 2, 3, 4, 15, 16}}
        \cup {Float(n) : n \in {-18, -17, -16, -13, -12, -9, -8, -1, 0, 1, 8, 9,
                                12, 13, 14, 15}}
        \cup {Bool(b) : b \in BOOLEAN}
        \cup {Str(s) : s \in {"", "burst", "volume", "time", "/absolute"}}

Without(file, key) == [k \in DOMAIN file \ {key} |-> file[k]]

With(file, key, v) == [k \in {key} |-> v] @@ file

\* The files that differ from a base file in one key.
NearFiles ==
    UNION {{Without(f, key) : key \in DOMAIN f}
            \cup {With(f, key, v) : key \in DOMAIN f \cup {"host", "port"}, v \in RawValues} :
              f \in BaseFiles}

FlagValues(type) ==
    CASE type = "str" -> {Str(""), Str("typed"), Str("/absolute")}
      [] type = "int" -> {Integer(n) : n \in {-1, 0, 2, 3, 4}}
      [] type = "float" -> {Float(n) : n \in {-1, 0, 3}}
      [] type = "mode" -> {Str("rate-controlled"), Str("burst")}
      [] type = "batch mode" -> {Str("volume"), Str("time")}
      [] type = "path" -> {PathArg(""), PathArg("typed")}
      [] type = "switch" -> {Bool(TRUE)}

\* Up to two options of a parser.
ArgsOf(flags) ==
    LET One == UNION {[{f} -> FlagValues(flags[f])] : f \in DOMAIN flags}
    IN  {NoOverrides} \cup One
            \cup {a @@ b : a, b \in One}

\* A base file with up to two options, or a file near it with an option for
\* the key that differs, or without options.
InputsOf(program, flags) ==
    [program : {program}, file : BaseFiles, args : ArgsOf(flags)]
        \cup [program : {program}, file : NearFiles, args : {NoOverrides}]
        \cup UNION {[program : {program},
                     file : {With(b, f, v) : b \in BaseFiles, v \in RawValues},
                     args : [{f} -> FlagValues(flags[f])]] : f \in DOMAIN flags}

MCInputs ==
    InputsOf("producer", ProducerFlags) \cup InputsOf("consumer", ConsumerFlags)

BaseRow ==
    [device_id |-> 2, measurement_type |-> 1, sequence_number |-> 9,
     dropped_records_total |-> 5, sensor_timestamp_us |-> 150,
     gps_timestamp_us |-> 77, gps_latitude_e7 |-> -3, gps_longitude_e7 |-> 6,
     gps_altitude_mm |-> -8, values |-> <<1, 2>>]

Numbers ==
    {-Byte ^ 8, 1 - Byte ^ 8, -Byte ^ 7 - 1, -9, -8, -1, 0, 1, 2, 3, 4, 7, 8, 15, 16,
     Byte ^ 8 - 1, Byte ^ 8}

MCRows ==
    {[BaseRow EXCEPT ![Fields[k]] = n] : k \in DOMAIN Fields, n \in Numbers}
        \cup {[BaseRow EXCEPT !.values[i] = n] : i \in {1, 2}, n \in Numbers}

MCClock == 0 .. 2

MCDroppedTotals == {0, Byte ^ 4 - 1, Byte ^ 4 + 1}
===============================================================================
