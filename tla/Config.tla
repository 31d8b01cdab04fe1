--------------------------------- MODULE Config --------------------------------
(***************************************************************************)
(* From a TOML file and a command line to a MockConfig: the parsers and    *)
(* _producer_overrides, _consumer_overrides of cli.py, load_config and its *)
(* validators of config.py, and the exporter's part of the configuration,  *)
(* which consumer.py passes on.                                            *)
(*                                                                         *)
(* A raw value is a TOML value with its type.  A float num stands for      *)
(* num/2, of the wire's units for a position, and is finite; no string     *)
(* spells a number.                                                        *)
(***************************************************************************)
EXTENDS WireFormat

CONSTANTS
    DegreeE7, MetreMm,          \* 10^7 and 10^3: the scales of a position
    MaxLatitude, MaxLongitude   \* 90 and 180 degrees

ASSUME ConfigAssumption ==
    /\ {DegreeE7, MetreMm, MaxLatitude, MaxLongitude} \subseteq Nat \ {0}
    /\ {MaxLatitude * DegreeE7, MaxLongitude * DegreeE7} \subseteq Sint(4)

Raw(type, num, text) == [type |-> type, num |-> num, text |-> text]

Integer(n) == Raw("int", n, "")
Float(n) == Raw("float", n, "")
Bool(b) == Raw("bool", IF b THEN 1 ELSE 0, "")
Str(s) == Raw("str", 0, s)
PathArg(s) == Raw("path", 0, s)     \* a Path, which only the parser makes
None == Raw("none", 0, "")

\* What tomllib makes of a value.
TomlValue(v) ==
    /\ v \in [type : {"int", "float", "bool", "str"}, num : Int, text : STRING]
    /\ IF v.type = "str" THEN v.num = 0 ELSE v.text = ""

Get(data, key, default) == IF key \in DOMAIN data THEN data[key] ELSE default

\* data.update(new)
Updated(data, new) ==
    [key \in DOMAIN data \cup DOMAIN new |->
        IF key \in DOMAIN new THEN new[key] ELSE data[key]]

\* Python's truth of a value; every Path is true.
Truthy(v) == v.num # 0 \/ v.text # "" \/ v.type = "path"

\* str(v), which is some other text for a number.
Text(v) == IF v.type \in {"str", "path", "none"} THEN v.text ELSE "number"

\* Path(v).  The empty path is the current directory.
IsPath(v) == v.type \in {"str", "path"}
PathText(v) == IF v.text = "" THEN "." ELSE v.text

IsNumber(v) == v.type \in {"int", "float", "bool"}

\* int(v), which cuts towards zero.
IntOf(v) == IF v.type # "float" THEN v.num
            ELSE IF v.num < 0 THEN -(-v.num \div 2) ELSE v.num \div 2
-------------------------------------------------------------------------------
(***************************************************************************)
(* Positions.                                                              *)
(***************************************************************************)

\* Twice the number of units; an int is a number of degrees or metres.
Halves(v, scale) == IF v.type = "float" THEN v.num ELSE 2 * scale * v.num

\* _round_half_away_from_zero
Rounded(halves) == IF halves < 0 THEN -((1 - halves) \div 2) ELSE (halves + 1) \div 2

Scaled(v, scale) == Rounded(Halves(v, scale))

\* _validate_numeric: no bool.
Numeric(v) == v.type \in {"int", "float"}

ValidDegrees(v, limit) ==
    Numeric(v) /\ Magnitude(Halves(v, DegreeE7)) <= 2 * limit * DegreeE7

\* Mutation: the altitude is cut to whole millimetres for the check.
ValidAltitudeCut(v) ==
    Numeric(v) /\ Halves(v, MetreMm) < Byte ^ 4
               /\ Halves(v, MetreMm) > -Byte ^ 4 - 2

ValidAltitude(v) == Numeric(v) /\ Scaled(v, MetreMm) \in Sint(4)
-------------------------------------------------------------------------------
(***************************************************************************)
(* load_config.                                                            *)
(***************************************************************************)

ExactInt(v, ints) == v.type = "int" /\ v.num \in ints

Positive(v) == v.type = "int" /\ v.num > 0

ValidPort(v) == ExactInt(v, Uint(2) \ {0})

Required == {"device_id", "measurement_type", "rate_hz", "mode",
             "ring_buffer_capacity", "initial_sequence_number", "gps_latitude",
             "gps_longitude", "gps_altitude_m"}

ValidSensor(data) ==
    /\ Required \subseteq DOMAIN data
    /\ {"host", "port"} \cap DOMAIN data = {}
    /\ \A key \in {"bind_port", "consumer_port"} \cap DOMAIN data : ValidPort(data[key])
    /\ ExactInt(data["device_id"], Uint(2))
    /\ ExactInt(data["measurement_type"], ValidMeasurementTypes)
    /\ Positive(data["rate_hz"])
    /\ Text(data["mode"]) \in {"rate-controlled", "burst"}
    /\ Positive(data["ring_buffer_capacity"])
    /\ ExactInt(data["initial_sequence_number"], Uint(4))
    /\ ValidDegrees(data["gps_latitude"], MaxLatitude)
    /\ ValidDegrees(data["gps_longitude"], MaxLongitude)
    /\ ValidAltitude(data["gps_altitude_m"])

Enabled(data) == Truthy(Get(data, "parquet_enabled", Bool(FALSE)))

\* Path(raw) if raw else None: "" is no directory, and a number no path.
OutputDir(data) ==
    LET raw == Get(data, "parquet_output_dir", None)
    IN  IF Truthy(raw) THEN PathText(raw) ELSE ""

\* None is "".  An empty mode counts as none only while export is disabled.
BatchMode(data) ==
    LET raw == Get(data, "parquet_batch_mode", None)
    IN  IF raw = None THEN (IF Enabled(data) THEN "volume" ELSE "")
        ELSE IF raw = Str("") /\ Enabled(data) THEN "invalid" ELSE Text(raw)

MaxPerFile(data) == Get(data, "parquet_max_records_per_file", Integer(1000))
FlushInterval(data) == Get(data, "parquet_flush_interval_seconds", Float(2))
QueueCapacity(data) == Get(data, "parquet_queue_capacity", Integer(256))

\* The checks on the parquet fields; int() and float() refuse a string.
ValidParquet(data) ==
    /\ Truthy(Get(data, "parquet_output_dir", None)) => IsPath(data["parquet_output_dir"])
    /\ \A v \in {MaxPerFile(data), FlushInterval(data), QueueCapacity(data)} : IsNumber(v)
    /\ BatchMode(data) \in {"", "volume", "time"}
    /\ Enabled(data) =>
          /\ OutputDir(data) # ""
          /\ BatchMode(data) = "volume" => IntOf(MaxPerFile(data)) > 0
          /\ BatchMode(data) = "time" => Halves(FlushInterval(data), 1) > 0

\* _resolve_capture_path; "" is None.  A relative path in the file is taken
\* from the file's directory, one from the command line is taken as it is.
CapturePath(raw, fromOverride) ==
    IF raw \in {Str(""), None} THEN ""
    ELSE IF fromOverride \/ PathText(raw) = "/absolute" THEN PathText(raw)
    ELSE "config_dir/" \o PathText(raw)

Refused == [accepted |-> FALSE]

\* The MockConfig of valid data, but for its capture path.
MockConfig(data) ==
    [accepted |-> TRUE,
     bind_host |-> Text(Get(data, "bind_host", None)),
     bind_port |-> Get(data, "bind_port", None).num,
     consumer_host |-> Text(Get(data, "consumer_host", None)),
     consumer_port |-> Get(data, "consumer_port", None).num,
     device_id |-> data["device_id"].num,
     measurement_type |-> data["measurement_type"].num,
     rate_hz |-> data["rate_hz"].num,
     mode |-> Text(data["mode"]),
     ring_buffer_capacity |-> data["ring_buffer_capacity"].num,
     initial_sequence_number |-> data["initial_sequence_number"].num,
     gps_latitude |-> data["gps_latitude"],
     gps_longitude |-> data["gps_longitude"],
     gps_altitude_m |-> data["gps_altitude_m"],
     parquet_enabled |-> Enabled(data),
     parquet_output_dir |-> OutputDir(data),
     parquet_batch_mode |-> BatchMode(data),
     parquet_max_records_per_file |-> IntOf(MaxPerFile(data)),
     parquet_flush_interval_seconds |-> Halves(FlushInterval(data), 1),
     parquet_queue_capacity |-> IntOf(QueueCapacity(data))]

\* The file with the overrides, but for the capture path.
Merged(file, overrides) ==
    Updated(file, [key \in DOMAIN overrides \ {"capture_path"} |-> overrides[key]])

\* load_config(path, overrides).  An exception of any kind is a refusal.
LoadConfig(file, overrides) ==
    LET data == Merged(file, overrides)
        fromOverride == "capture_path" \in DOMAIN overrides
        capture == IF fromOverride THEN overrides["capture_path"]
                                   ELSE Get(file, "capture_path", None)
        ok == /\ ValidSensor(data)
              /\ ValidParquet(data)
              /\ IsPath(capture) \/ capture = None
        path == CapturePath(capture, fromOverride)
    IN  IF ok THEN Updated(MockConfig(data), [capture_path |-> path]) ELSE Refused
-------------------------------------------------------------------------------
(***************************************************************************)
(* The command lines: the options of each parser with the type of their    *)
(* argument, and the names that are looked up in what it returns.          *)
(***************************************************************************)

ProducerFlags ==
    [consumer_host |-> "str", consumer_port |-> "int", device_id |-> "int",
     measurement_type |-> "int", rate_hz |-> "int", mode |-> "mode",
     ring_buffer_capacity |-> "int", capture_path |-> "str"]

ConsumerFlags ==
    [bind_host |-> "str", bind_port |-> "int", device_id |-> "int",
     measurement_type |-> "int", rate_hz |-> "int", mode |-> "mode",
     ring_buffer_capacity |-> "int", capture_path |-> "str",
     parquet_enabled |-> "switch", parquet_output_dir |-> "path",
     parquet_batch_mode |-> "batch mode", parquet_max_records_per_file |-> "int",
     parquet_flush_interval_seconds |-> "float", parquet_queue_capacity |-> "int"]

ProducerNames ==
    {"consumer_host", "consumer_port", "device_id", "measurement_type", "rate_hz",
     "mode", "ring_buffer_capacity", "capture_path"}

ConsumerNames ==
    {"bind_host", "bind_port", "device_id", "measurement_type", "rate_hz", "mode",
     "ring_buffer_capacity", "capture_path", "parquet_output_dir",
     "parquet_batch_mode", "parquet_max_records_per_file",
     "parquet_flush_interval_seconds", "parquet_queue_capacity"}

\* What argparse makes of the argument of an option.
ArgValue(type, v) ==
    CASE type \in {"str", "mode", "batch mode"} -> TomlValue(v) /\ v.type = "str"
      [] type \in {"int", "float"} -> TomlValue(v) /\ v.type = type
      [] type = "switch" -> v = Bool(TRUE)
      [] type = "path" -> v \in [type : {"path"}, num : {0}, text : STRING]

\* Mutation: a value that is false counts as not given.
OverridesIfTrue(names, args) ==
    [name \in {n \in names \cap DOMAIN args : Truthy(args[n])} |->
        IF name = "capture_path" THEN PathArg(args[name].text) ELSE args[name]]

\* _producer_overrides, _consumer_overrides: args holds the options given.
\* The switch parquet_enabled is looked up by the consumer only, where names
\* does not hold it: it can enable export but not disable it.
Overrides(names, args) ==
    [name \in (names \cup {"parquet_enabled"}) \cap DOMAIN args |->
        IF name = "capture_path" /\ args[name] # Str("")
        THEN PathArg(args[name].text) ELSE args[name]]

\* What SensorConsumerServer.start hands to its exporter, if there is one.
HasExporter(config) == config.parquet_enabled /\ config.parquet_output_dir # ""

ExporterMode(config) ==
    IF config.parquet_batch_mode = "" THEN "volume" ELSE config.parquet_batch_mode
===============================================================================
