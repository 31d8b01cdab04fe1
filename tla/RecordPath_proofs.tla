--------------------------- MODULE RecordPath_proofs ---------------------------
(***************************************************************************)
(* Proofs about RecordPath, for every clock, configuration, CSV row and    *)
(* number of records: the time stamps, then the configuration, then the    *)
(* bytes of a record.                                                      *)
(***************************************************************************)
EXTENDS RecordPath, DataLemmas

(***************************************************************************)
(* What the generator remembers of the clock is the time stamp of its last *)
(* record, which the property compares with the next.                      *)
(***************************************************************************)
StampInv ==
    /\ last \in Nat \cup {-1}
    /\ pc = "generate" => input.program # CProgram
    /\ input.program # CProgram /\ record # <<>> =>
          last # -1 /\ record.sensor_timestamp_us = last

\* The next time stamp is a number, not earlier than the clock, and beyond the
\* one before it.
LEMMA StampIncreases ==
    ASSUME last \in Nat \cup {-1}, NEW now \in Clock
    PROVE  /\ Stamp(now) \in Nat
           /\ Stamp(now) >= now
           /\ last # -1 => Stamp(now) > last
  BY RecordPathAssumption DEF Stamp

\* A step of Generate, with what it writes into the record.
LEMMA GenerateStamps ==
    ASSUME StampInv, Generate
    PROVE  /\ last' \in Nat
           /\ last # -1 => last' > last
           /\ last' >= clock'
           /\ record'.sensor_timestamp_us = last'
           /\ record'.gps_timestamp_us = last'
           /\ UNCHANGED input /\ pc' = "encode"
  <1>1. PICK now \in Clock : last' = Stamp(now) /\ clock' = now
    BY DEF Generate
  <1>2. /\ record'.sensor_timestamp_us = last'
        /\ record'.gps_timestamp_us = last'
    BY DEF Generate
  <1>3. last' \in Nat /\ (last # -1 => last' > last) /\ last' >= clock'
    BY <1>1, StampIncreases DEF StampInv
  <1> QED BY <1>2, <1>3 DEF Generate

LEMMA InitStamp == Init => StampInv
  BY DEF Init, StampInv

LEMMA NextStamp ==
    ASSUME StampInv, [Next]_vars
    PROVE  StampInv'
  <1>1. CASE Load
    BY <1>1 DEF Load, StampInv
  <1>2. CASE StartGenerator
    BY <1>2 DEF StartGenerator, StampInv, CProgram
  <1>3. CASE Generate
    BY <1>3, GenerateStamps DEF StampInv
  <1>4. CASE EncodeRecord
    BY <1>4 DEF EncodeRecord, StampInv
  <1>5. CASE ConvertRow
    BY <1>5 DEF ConvertRow, StampInv
  <1>6. CASE Receive
    BY <1>6 DEF Receive, StampInv
  <1>7. CASE NextRecord
    BY <1>7 DEF NextRecord, StampInv, CProgram
  <1>8. CASE UNCHANGED vars
    BY <1>8 DEF vars, StampInv
  <1> QED BY <1>1, <1>2, <1>3, <1>4, <1>5, <1>6, <1>7, <1>8 DEF Next

\* Only the generator counts a record, and it has stamped it later than the
\* last one and not earlier than the clock.
LEMMA StepIncreases ==
    ASSUME StampInv, [Next]_vars, count' # count
    PROVE  /\ record # <<>> => record'.sensor_timestamp_us > record.sensor_timestamp_us
           /\ record'.sensor_timestamp_us >= clock'
           /\ record'.gps_timestamp_us = record'.sensor_timestamp_us
  <1>1. Generate
    BY DEF Next, vars, Load, StartGenerator, EncodeRecord, ConvertRow, Receive,
           NextRecord
  <1>2. record # <<>> => last # -1 /\ record.sensor_timestamp_us = last
    BY <1>1 DEF Generate, StampInv
  <1> QED BY <1>1, <1>2, GenerateStamps

\* The time stamps of successive records increase, whatever the clock does, and
\* none is earlier than the clock says (RecordGenerator.next_record).
THEOREM StampsIncrease == Spec => TimestampsIncrease
  <1>1. Init => StampInv
    BY InitStamp
  <1>2. StampInv /\ [Next]_vars => StampInv'
    BY NextStamp
  <1>3. StampInv /\ [Next]_vars =>
            [count' # count =>
                /\ record # <<>> =>
                      record'.sensor_timestamp_us > record.sensor_timestamp_us
                /\ record'.sensor_timestamp_us >= clock'
                /\ record'.gps_timestamp_us = record'.sensor_timestamp_us]_vars
    BY StepIncreases
  <1> QED BY <1>1, <1>2, <1>3, PTL DEF Spec, TimestampsIncrease
-------------------------------------------------------------------------------
(***************************************************************************)
(* What the options do.  load_config looks at the keys of its data one by  *)
(* one, but for two: the capture path, which it takes from elsewhere, and  *)
(* the output directory, of which only the path counts.  So it makes the   *)
(* same of two sets of data that are alike but for these.                  *)
(***************************************************************************)
OutputKey == "parquet_output_dir"

Alike(c, d) ==
    /\ DOMAIN c \ {"capture_path"} = DOMAIN d \ {"capture_path"}
    /\ \A key \in DOMAIN c \ {"capture_path", OutputKey} : c[key] = d[key]
    /\ OutputKey \in DOMAIN c =>
          /\ Truthy(c[OutputKey]) <=> Truthy(d[OutputKey])
          /\ IsPath(c[OutputKey]) <=> IsPath(d[OutputKey])
          /\ Truthy(c[OutputKey]) => PathText(c[OutputKey]) = PathText(d[OutputKey])

LEMMA AlikeGet ==
    ASSUME NEW c, NEW d, Alike(c, d), NEW key, NEW default,
           key \notin {"capture_path", OutputKey}
    PROVE  Get(c, key, default) = Get(d, key, default)
BY DEF Alike, Get

LEMMA AlikeDir ==
    ASSUME NEW c, NEW d, Alike(c, d)
    PROVE  /\ OutputDir(c) = OutputDir(d)
           /\ (Truthy(Get(c, OutputKey, None)) => IsPath(c[OutputKey]))
              <=> (Truthy(Get(d, OutputKey, None)) => IsPath(d[OutputKey]))
<1>1. OutputKey \in DOMAIN c <=> OutputKey \in DOMAIN d
  BY DEF Alike, OutputKey
<1>2. CASE OutputKey \in DOMAIN c
  <2>1. Get(c, OutputKey, None) = c[OutputKey] /\ Get(d, OutputKey, None) = d[OutputKey]
    BY <1>1, <1>2 DEF Get
  <2>. HIDE DEF OutputKey
  <2>. QED
    BY <1>2, <2>1 DEF Alike, OutputDir, OutputKey
<1>3. CASE OutputKey \notin DOMAIN c
  <2>1. Get(c, OutputKey, None) = None /\ Get(d, OutputKey, None) = None
    BY <1>1, <1>3 DEF Get
  <2>2. ~Truthy(None)
    BY DEF Truthy, None, Raw
  <2>. QED
    BY <2>1, <2>2 DEF OutputDir, OutputKey
<1>. QED
  BY <1>2, <1>3

\* The other parquet fields.
LEMMA AlikeParquet ==
    ASSUME NEW c, NEW d, Alike(c, d)
    PROVE  /\ Enabled(c) = Enabled(d)
           /\ BatchMode(c) = BatchMode(d)
           /\ MaxPerFile(c) = MaxPerFile(d)
           /\ FlushInterval(c) = FlushInterval(d)
           /\ QueueCapacity(c) = QueueCapacity(d)
<1>1. \A v : /\ Get(c, "parquet_enabled", v) = Get(d, "parquet_enabled", v)
            /\ Get(c, "parquet_batch_mode", v) = Get(d, "parquet_batch_mode", v)
  BY AlikeGet DEF OutputKey
<1>2. Enabled(c) = Enabled(d)
  BY <1>1 DEF Enabled
<1>3. MaxPerFile(c) = MaxPerFile(d)
  BY AlikeGet DEF MaxPerFile, OutputKey
<1>4. FlushInterval(c) = FlushInterval(d)
  BY AlikeGet DEF FlushInterval, OutputKey
<1>5. QueueCapacity(c) = QueueCapacity(d)
  BY AlikeGet DEF QueueCapacity, OutputKey
<1>. QED
  BY <1>1, <1>2, <1>3, <1>4, <1>5 DEF BatchMode

LEMMA AlikeValid ==
    ASSUME NEW c, NEW d, Alike(c, d)
    PROVE  /\ ValidSensor(c) <=> ValidSensor(d)
           /\ ValidParquet(c) <=> ValidParquet(d)
<1>1. ValidSensor(c) <=> ValidSensor(d)
  BY DEF Alike, ValidSensor, Required, OutputKey
<1>2. ValidParquet(c) <=> ValidParquet(d)
  BY AlikeDir, AlikeParquet DEF ValidParquet, OutputKey
<1>. QED
  BY <1>1, <1>2

LEMMA AlikeConfig ==
    ASSUME NEW c, NEW d, Alike(c, d), ValidSensor(c)
    PROVE  MockConfig(c) = MockConfig(d)
<1>1. \A key \in Required : c[key] = d[key]
  BY DEF Alike, ValidSensor, Required, OutputKey
<1>2. /\ Get(c, "bind_host", None) = Get(d, "bind_host", None)
      /\ Get(c, "bind_port", None) = Get(d, "bind_port", None)
      /\ Get(c, "consumer_host", None) = Get(d, "consumer_host", None)
      /\ Get(c, "consumer_port", None) = Get(d, "consumer_port", None)
  BY AlikeGet DEF OutputKey
<1>3. OutputDir(c) = OutputDir(d)
  BY AlikeDir
<1>. QED
  BY <1>1, <1>2, <1>3, AlikeParquet DEF MockConfig, Required

\* The data that the options of FlagsAct make as keys of the file.
Written(args) ==
    [key \in DOMAIN args |->
        IF key = "capture_path" /\ args[key] # Str("") THEN Str("/absolute")
        ELSE IF args[key].type = "path" THEN Str(PathText(args[key]))
        ELSE args[key]]

\* The options given, and what is known of them.
GivenArgs(args) ==
    /\ \A key \in DOMAIN args \ {OutputKey} : args[key].type # "path"
    /\ "capture_path" \in DOMAIN args => \E text : args["capture_path"] = Str(text)
    /\ OutputKey \in DOMAIN args => \E text : args[OutputKey] = PathArg(text)

\* Texts, paths and the value that is missing.
LEMMA Texts ==
    ASSUME NEW text
    PROVE  /\ Str(text).type = "str" /\ Str(text).num = 0 /\ Str(text).text = text
           /\ PathArg(text).type = "path" /\ PathArg(text).num = 0
           /\ PathArg(text).text = text
           /\ None.type = "none"
BY DEF Str, PathArg, None, Raw

LEMMA TextsArePaths ==
    ASSUME NEW text
    PROVE  IsPath(Str(text)) /\ IsPath(PathArg(text))
BY Texts DEF IsPath

LEMMA StrsDiffer ==
    ASSUME NEW a, NEW b
    PROVE  Str(a) = Str(b) <=> a = b
<1>1. Str(a).text = a /\ Str(b).text = b
  BY Texts
<1>. QED
  BY <1>1

PlainFlags == {"str", "int", "float", "mode", "batch mode", "switch"}

\* Of both parsers only one option is a path.
LEMMA FlagTypes ==
    /\ \A f \in DOMAIN ProducerFlags : ProducerFlags[f] \in PlainFlags
    /\ ProducerFlags["capture_path"] = "str"
    /\ OutputKey \notin DOMAIN ProducerFlags
    /\ \A f \in DOMAIN ConsumerFlags \ {OutputKey} : ConsumerFlags[f] \in PlainFlags
    /\ ConsumerFlags["capture_path"] = "str" /\ ConsumerFlags[OutputKey] = "path"
<1>1. /\ \A f \in DOMAIN ProducerFlags : ProducerFlags[f] \in {"str", "int", "mode"}
      /\ ProducerFlags["capture_path"] = "str"
      /\ OutputKey \notin DOMAIN ProducerFlags
  BY DEF ProducerFlags, OutputKey
<1>2. /\ ConsumerFlags["bind_host"] = "str" /\ ConsumerFlags["capture_path"] = "str"
      /\ ConsumerFlags["bind_port"] = "int" /\ ConsumerFlags["device_id"] = "int"
      /\ ConsumerFlags["measurement_type"] = "int" /\ ConsumerFlags["rate_hz"] = "int"
      /\ ConsumerFlags["ring_buffer_capacity"] = "int"
      /\ ConsumerFlags["parquet_max_records_per_file"] = "int"
      /\ ConsumerFlags["parquet_queue_capacity"] = "int"
      /\ ConsumerFlags["parquet_flush_interval_seconds"] = "float"
      /\ ConsumerFlags["parquet_enabled"] = "switch"
      /\ ConsumerFlags["mode"] = "mode"
      /\ ConsumerFlags["parquet_batch_mode"] = "batch mode"
      /\ ConsumerFlags[OutputKey] = "path"
  BY DEF ConsumerFlags, OutputKey
<1>3. DOMAIN ConsumerFlags = ConsumerNames \cup {"parquet_enabled"}
  BY DEF ConsumerFlags, ConsumerNames
<1>4. \A f \in DOMAIN ConsumerFlags \ {OutputKey} : ConsumerFlags[f] \in PlainFlags
  BY ZenonT(30), <1>2, <1>3 DEF ConsumerNames, OutputKey, PlainFlags
<1>. QED
  BY <1>1, <1>2, <1>4 DEF PlainFlags

\* Both parsers have names for all of their options, one that is a path, and
\* take the capture path as a text.
LEMMA InputArgs ==
    ASSUME NEW in \in Inputs, NEW names,
           names = IF in.program = "producer" THEN ProducerNames ELSE ConsumerNames
    PROVE  /\ DOMAIN Overrides(names, in.args) = DOMAIN in.args
           /\ GivenArgs(in.args)
<1>. DEFINE flags == IF in.program = "producer" THEN ProducerFlags ELSE ConsumerFlags
<1>1. /\ DOMAIN in.args \subseteq DOMAIN flags
      /\ \A f \in DOMAIN in.args : ArgValue(flags[f], in.args[f])
  BY InputsAssumption
<1>2. DOMAIN flags \subseteq names \cup {"parquet_enabled"}
  BY DEF ProducerFlags, ConsumerFlags, ProducerNames, ConsumerNames
<1>3. DOMAIN Overrides(names, in.args) = DOMAIN in.args
  BY <1>1, <1>2 DEF Overrides
<1>4. /\ \A f \in DOMAIN flags \ {OutputKey} : flags[f] \in PlainFlags
      /\ OutputKey \in DOMAIN flags => flags[OutputKey] = "path"
      /\ flags["capture_path"] = "str"
  BY FlagTypes
<1>. HIDE DEF flags
<1>5. ASSUME NEW key \in DOMAIN in.args \ {OutputKey} PROVE in.args[key].type # "path"
  <2>1. flags[key] \in PlainFlags
    BY <1>1, <1>4, <1>5
  <2>2. TomlValue(in.args[key]) \/ in.args[key] = Bool(TRUE)
    BY <1>1, <2>1 DEF ArgValue, PlainFlags
  <2>3. Bool(TRUE).type = "bool"
    BY DEF Bool, Raw
  <2>. QED
    BY <2>2, <2>3 DEF TomlValue
<1>6. ASSUME "capture_path" \in DOMAIN in.args
      PROVE  \E text : in.args["capture_path"] = Str(text)
  <2>. DEFINE v == in.args["capture_path"]
  <2>1. /\ v \in [type : {"int", "float", "bool", "str"}, num : Int, text : STRING]
        /\ v.type = "str" /\ v.num = 0
    BY <1>1, <1>4, <1>6 DEF ArgValue, TomlValue
  <2>2. v = Str(v.text)
    BY <2>1 DEF Str, Raw
  <2>. QED
    BY <2>1, <2>2
<1>7. ASSUME OutputKey \in DOMAIN in.args
      PROVE  \E text : in.args[OutputKey] = PathArg(text)
  <2>. DEFINE v == in.args[OutputKey]
  <2>1. v \in [type : {"path"}, num : {0}, text : STRING]
    BY <1>1, <1>4, <1>7 DEF ArgValue
  <2>2. v = PathArg(v.text)
    BY <2>1 DEF PathArg, Raw
  <2>. QED
    BY <2>1, <2>2
<1>. QED
  BY <1>3, <1>5, <1>6, <1>7 DEF GivenArgs

\* The data from the options and from the file they would be written into.
LEMMA WrittenAlike ==
    ASSUME NEW names, NEW args, NEW file, GivenArgs(args),
           DOMAIN Overrides(names, args) = DOMAIN args
    PROVE  Alike(Merged(file, Overrides(names, args)),
                 Merged(Updated(file, Written(args)), NoOverrides))
<1>. DEFINE c == Merged(file, Overrides(names, args))
            d == Merged(Updated(file, Written(args)), NoOverrides)
            given == DOMAIN args \ {"capture_path"}
<1>1. /\ DOMAIN c = given \cup DOMAIN file
      /\ \A key \in given : c[key] = args[key]
      /\ \A key \in DOMAIN file \ given : c[key] = file[key]
  BY DEF Merged, Overrides, Updated
<1>2. /\ DOMAIN d = DOMAIN args \cup DOMAIN file
      /\ \A key \in DOMAIN args : d[key] = Written(args)[key]
      /\ \A key \in DOMAIN file \ DOMAIN args : d[key] = file[key]
  BY DEF Merged, NoOverrides, Written, Updated
<1>3. \A key \in given \ {OutputKey} : Written(args)[key] = args[key]
  BY DEF Written, GivenArgs
<1>4. ASSUME OutputKey \in DOMAIN args
      PROVE  LET v == args[OutputKey]
                 w == Written(args)[OutputKey]
             IN  Truthy(v) /\ Truthy(w) /\ IsPath(v) /\ IsPath(w)
                 /\ PathText(v) = PathText(w)
  <2>1. PICK text : args[OutputKey] = PathArg(text)
    BY <1>4 DEF GivenArgs
  <2>2. Written(args)[OutputKey] = Str(PathText(args[OutputKey]))
    BY <1>4, <2>1 DEF Written, OutputKey, PathArg, Raw
  <2>3. PathText(args[OutputKey]) # ""
    BY DEF PathText
  <2>4. PathText(Str(PathText(args[OutputKey]))) = PathText(args[OutputKey])
    BY ZenonT(30), <2>3, Texts DEF PathText
  <2>. QED
    <3>1. Truthy(args[OutputKey]) /\ IsPath(args[OutputKey])
      <4>1. args[OutputKey].type = "path"
        BY <2>1, Texts
      <4>. QED
        BY <2>1, <4>1, TextsArePaths DEF Truthy
    <3>2. Str(PathText(args[OutputKey])).text # ""
      BY <2>3, Texts
    <3>. QED
      BY <2>2, <2>4, <3>1, <3>2, TextsArePaths DEF Truthy
<1>. HIDE DEF c, d
<1>5. DOMAIN c \ {"capture_path"} = DOMAIN d \ {"capture_path"}
  BY <1>1, <1>2
<1>6. ASSUME NEW key \in DOMAIN c \ {"capture_path", OutputKey} PROVE c[key] = d[key]
  BY <1>1, <1>2, <1>3
<1>7. CASE OutputKey \in DOMAIN args
  <2>1. c[OutputKey] = args[OutputKey] /\ d[OutputKey] = Written(args)[OutputKey]
    BY <1>1, <1>2, <1>7 DEF OutputKey
  <2>. QED
    BY <1>4, <1>5, <1>6, <1>7, <2>1 DEF Alike, c, d
<1>8. CASE OutputKey \notin DOMAIN args
  <2>1. OutputKey \in DOMAIN c => c[OutputKey] = d[OutputKey]
    BY <1>1, <1>2, <1>8
  <2>. QED
    BY <1>5, <1>6, <2>1 DEF Alike, c, d
<1>. QED
  BY <1>7, <1>8

WithPath(conf, path) == Updated(conf, [capture_path |-> path])

\* A capture path that is not an option's.
FilePath(raw) ==
    IF raw \in {Str(""), None} THEN ""
    ELSE IF PathText(raw) = "/absolute" THEN PathText(raw)
    ELSE "config_dir/" \o PathText(raw)

LEMMA LoadFile ==
    ASSUME NEW file, NEW overrides, "capture_path" \notin DOMAIN overrides,
           NEW data, data = Merged(file, overrides),
           NEW raw, raw = Get(file, "capture_path", None)
    PROVE  LoadConfig(file, overrides)
              = IF ValidSensor(data) /\ ValidParquet(data) /\ (IsPath(raw) \/ raw = None)
                THEN WithPath(MockConfig(data), FilePath(raw)) ELSE Refused
<1>. QED
  BY DEF LoadConfig, CapturePath, FilePath, WithPath

LEMMA PathReplaced ==
    ASSUME NEW conf, NEW p, NEW q
    PROVE  WithPath(WithPath(conf, p), q) = WithPath(conf, q)
BY DEF WithPath, Updated

LEMMA MockConfigAccepted ==
    ASSUME NEW d, NEW p
    PROVE  WithPath(MockConfig(d), p).accepted
BY DEF WithPath, Updated, MockConfig

\* An option does what the same value in the file does.
LEMMA OptionsAct ==
    ASSUME NEW names, NEW args, NEW file, GivenArgs(args),
           DOMAIN Overrides(names, args) = DOMAIN args,
           NEW written, written = LoadConfig(Updated(file, Written(args)), NoOverrides)
    PROVE  LoadConfig(file, Overrides(names, args))
              = IF written.accepted /\ "capture_path" \in DOMAIN args
                THEN WithPath(written, args["capture_path"].text)
                ELSE written
<1>. DEFINE c == Merged(file, Overrides(names, args))
            d == Merged(Updated(file, Written(args)), NoOverrides)
            fromFile == Get(file, "capture_path", None)
<1>1. Alike(c, d)
  BY WrittenAlike
<1>. HIDE DEF c, d
<1>2. /\ ValidSensor(c) <=> ValidSensor(d)
      /\ ValidParquet(c) <=> ValidParquet(d)
      /\ ValidSensor(c) => MockConfig(c) = MockConfig(d)
  BY <1>1, AlikeValid, AlikeConfig
<1>3. \A p, q : /\ WithPath(MockConfig(d), p).accepted
                /\ WithPath(WithPath(MockConfig(d), p), q) = WithPath(MockConfig(d), q)
  BY PathReplaced, MockConfigAccepted
<1>4. ~Refused.accepted
  BY DEF Refused
<1>5. DOMAIN NoOverrides = {}
  BY DEF NoOverrides
<1>6. CASE "capture_path" \notin DOMAIN args
  <2>1. Get(Updated(file, Written(args)), "capture_path", None) = fromFile
    BY <1>6 DEF Get, Written, Updated
  <2>2. LoadConfig(file, Overrides(names, args))
           = IF ValidSensor(c) /\ ValidParquet(c) /\ (IsPath(fromFile) \/ fromFile = None)
             THEN WithPath(MockConfig(c), FilePath(fromFile)) ELSE Refused
    BY <1>6, LoadFile DEF c
  <2>3. written
           = IF ValidSensor(d) /\ ValidParquet(d) /\ (IsPath(fromFile) \/ fromFile = None)
             THEN WithPath(MockConfig(d), FilePath(fromFile)) ELSE Refused
    BY <1>5, <2>1, LoadFile DEF d
  <2>. QED
    BY <1>2, <1>6, <2>2, <2>3
<1>7. CASE "capture_path" \in DOMAIN args
  <2>. DEFINE mine == Overrides(names, args)["capture_path"]
              its == Written(args)["capture_path"]
  <2>1. PICK text : args["capture_path"] = Str(text)
    BY <1>7 DEF GivenArgs
  <2>2. /\ text = "" => mine = Str("") /\ its = Str("")
        /\ text # "" => mine = PathArg(text) /\ its = Str("/absolute")
    <3>1. Str(text) = Str("") <=> text = ""
      BY StrsDiffer
    <3>2. Str(text).text = text /\ Str(text).type # "path"
      BY Texts
    <3>3. mine = IF args["capture_path"] # Str("") THEN PathArg(args["capture_path"].text)
                 ELSE args["capture_path"]
      BY <1>7 DEF Overrides
    <3>4. its = IF args["capture_path"] # Str("") THEN Str("/absolute")
                ELSE IF args["capture_path"].type = "path"
                     THEN Str(PathText(args["capture_path"]))
                     ELSE args["capture_path"]
      BY <1>7 DEF Written
    <3>. HIDE DEF mine, its
    <3>5. CASE text = ""
      BY <2>1, <3>1, <3>2, <3>3, <3>4, <3>5
    <3>6. CASE text # ""
      BY <2>1, <3>1, <3>2, <3>3, <3>4, <3>6
    <3>. QED
      BY <3>5, <3>6
  <2>3. Get(Updated(file, Written(args)), "capture_path", None) = its
    BY <1>7 DEF Get, Written, Updated
  <2>4. IsPath(mine) /\ IsPath(its)
    BY <2>2, TextsArePaths
  <2>5. CapturePath(mine, TRUE) = text
    <3>1. CASE text = ""
      BY <2>2, <3>1 DEF CapturePath
    <3>2. CASE text # ""
      <4>1. PathArg(text) # Str("") /\ PathArg(text) # None
        BY ZenonT(30), Texts
      <4>2. PathText(PathArg(text)) = text
        <5>1. PathArg(text).text = text
          BY Texts
        <5>. QED
          BY <3>2, <5>1 DEF PathText
      <4>. QED
        BY <2>2, <3>2, <4>1, <4>2 DEF CapturePath
    <3>. QED
      BY <3>1, <3>2
  <2>6. args["capture_path"].text = text
    BY <2>1, Texts
  <2>7. LoadConfig(file, Overrides(names, args))
           = IF ValidSensor(c) /\ ValidParquet(c) THEN WithPath(MockConfig(c), text) ELSE Refused
    BY <1>7, <2>4, <2>5 DEF LoadConfig, WithPath, c
  <2>8. written = IF ValidSensor(d) /\ ValidParquet(d)
                  THEN WithPath(MockConfig(d), FilePath(its)) ELSE Refused
    BY <1>5, <2>3, <2>4, LoadFile DEF d
  <2>. QED
    BY <1>2, <1>3, <1>4, <1>7, <2>6, <2>7, <2>8
<1>. QED
  BY <1>6, <1>7
-------------------------------------------------------------------------------
(***************************************************************************)
(* A configuration is what load_config made of the input.                  *)
(***************************************************************************)
LoadedInv ==
    /\ pc = "start" /\ input.program # CProgram => input \in Inputs
    /\ pc \in {"ready", "refused"} /\ input.program # CProgram =>
          /\ input \in Inputs
          /\ config = LoadConfig(input.file, Overrides(Names, input.args))

LEMMA InitLoaded == Init => LoadedInv
  BY DEF Init, LoadedInv

LEMMA NextLoaded ==
    ASSUME LoadedInv, [Next]_vars
    PROVE  LoadedInv'
  <1>1. CASE Load
    <2>1. config' = LoadConfig(input.file, Overrides(Names, input.args))
      BY <1>1 DEF Load
    <2>2. UNCHANGED input /\ pc' \in {"ready", "refused"} /\ input \in Inputs
      BY <1>1 DEF Load, LoadedInv
    <2>3. Names' = Names
      BY <2>2 DEF Names
    <2> QED BY <2>1, <2>2, <2>3 DEF LoadedInv
  <1>2. CASE StartGenerator
    BY <1>2 DEF StartGenerator, LoadedInv
  <1>3. CASE Generate
    BY <1>3 DEF Generate, LoadedInv
  <1>4. CASE EncodeRecord
    BY <1>4 DEF EncodeRecord, LoadedInv
  <1>5. CASE ConvertRow
    BY <1>5 DEF ConvertRow, LoadedInv
  <1>6. CASE Receive
    BY <1>6 DEF Receive, LoadedInv
  <1>7. CASE NextRecord
    BY <1>7 DEF NextRecord, LoadedInv
  <1>8. CASE UNCHANGED vars
    BY <1>8 DEF vars, LoadedInv, Names
  <1> QED BY <1>1, <1>2, <1>3, <1>4, <1>5, <1>6, <1>7, <1>8 DEF Next

\* FlagsAct.  Every option of both parsers does what the same value in the file
\* does, whatever the file and the other options say.
THEOREM OptionsActAsWritten == Spec => []FlagsAct
  <1>1. LoadedInv => FlagsAct
    <2> SUFFICES ASSUME LoadedInv, pc \in {"ready", "refused"}, input.program # CProgram
                 PROVE  LET written == LoadConfig(
                                           Updated(input.file, Written(input.args)),
                                           NoOverrides)
                        IN  config = IF written.accepted
                                          /\ "capture_path" \in DOMAIN input.args
                                     THEN WithPath(written,
                                                   input.args["capture_path"].text)
                                     ELSE written
      BY DEF FlagsAct, Written, WithPath
    <2>1. /\ input \in Inputs
          /\ config = LoadConfig(input.file, Overrides(Names, input.args))
      BY DEF LoadedInv
    <2>2. /\ DOMAIN Overrides(Names, input.args) = DOMAIN input.args
          /\ GivenArgs(input.args)
      BY <2>1, InputArgs DEF Names
    <2> QED BY <2>1, <2>2, OptionsAct
  <1> QED BY <1>1, InitLoaded, NextLoaded, PTL DEF Spec
-------------------------------------------------------------------------------
(***************************************************************************)
(* What an accepted configuration is good for.  First, that it holds what  *)
(* the exporter and the encoder need.                                      *)
(***************************************************************************)

\* What is known of data that come from a file and options.
TypedData(data) ==
    /\ \A key \in {"gps_latitude", "gps_longitude"} \cap DOMAIN data :
          data[key].num \in Int
    /\ "parquet_batch_mode" \in DOMAIN data => TomlValue(data["parquet_batch_mode"])

LEMMA InputData ==
    ASSUME NEW in \in Inputs, NEW names,
           names = IF in.program = "producer" THEN ProducerNames ELSE ConsumerNames
    PROVE  TypedData(Merged(in.file, Overrides(names, in.args)))
<1>. DEFINE flags == IF in.program = "producer" THEN ProducerFlags ELSE ConsumerFlags
            data == Merged(in.file, Overrides(names, in.args))
            given == DOMAIN in.args \ {"capture_path"}
<1>1. /\ \A key \in DOMAIN in.file : TomlValue(in.file[key])
      /\ DOMAIN in.args \subseteq DOMAIN flags
      /\ \A f \in DOMAIN in.args : ArgValue(flags[f], in.args[f])
  BY InputsAssumption
<1>2. DOMAIN Overrides(names, in.args) = DOMAIN in.args
  BY InputArgs
<1>3. /\ \A key \in DOMAIN data \ given : key \in DOMAIN in.file /\ data[key] = in.file[key]
      /\ \A key \in given : data[key] = in.args[key]
  BY <1>2 DEF Merged, Updated, Overrides
<1>4. /\ "gps_latitude" \notin DOMAIN flags /\ "gps_longitude" \notin DOMAIN flags
      /\ "parquet_batch_mode" \in DOMAIN flags => flags["parquet_batch_mode"] = "batch mode"
  BY DEF ProducerFlags, ConsumerFlags
<1>. HIDE DEF data, flags
<1>5. ASSUME NEW key \in {"gps_latitude", "gps_longitude"} \cap DOMAIN data
      PROVE  data[key].num \in Int
  BY <1>1, <1>3, <1>4, <1>5 DEF TomlValue
<1>6. ASSUME "parquet_batch_mode" \in DOMAIN data
      PROVE  TomlValue(data["parquet_batch_mode"])
  <2>1. CASE "parquet_batch_mode" \in DOMAIN in.args
    BY <1>1, <1>3, <1>4, <2>1 DEF ArgValue
  <2>2. CASE "parquet_batch_mode" \notin DOMAIN in.args
    BY <1>1, <1>3, <1>6, <2>2
  <2>. QED
    BY <2>1, <2>2
<1>. QED
  BY <1>5, <1>6 DEF TypedData, data

\* A batch mode that is accepted while export is enabled is a mode.
LEMMA ModeIsGiven ==
    ASSUME NEW data, TypedData(data), ValidParquet(data), Enabled(data)
    PROVE  BatchMode(data) \in {"volume", "time"}
<1>. DEFINE raw == Get(data, "parquet_batch_mode", None)
<1>1. SUFFICES ASSUME BatchMode(data) = "" PROVE FALSE
  BY DEF ValidParquet
<1>2. raw # None /\ raw # Str("") /\ Text(raw) = ""
  BY <1>1 DEF BatchMode
<1>3. TomlValue(raw)
  BY <1>2 DEF Get, TypedData
<1>. HIDE DEF raw
<1>4. raw.type = "str"
  BY <1>2, <1>3 DEF TomlValue, Text
<1>5. raw.text = "" /\ raw.num = 0
  BY <1>2, <1>3, <1>4 DEF Text, TomlValue
<1>6. raw = Str("")
  BY <1>3, <1>4, <1>5 DEF TomlValue, Str, Raw
<1>. QED
  BY <1>2, <1>6

LEMMA DataRuns ==
    ASSUME NEW data, TypedData(data), ValidSensor(data), ValidParquet(data), NEW path
    PROVE  Runnable(WithPath(MockConfig(data), path))
<1>. DEFINE c == WithPath(MockConfig(data), path)
<1>1. /\ c.ring_buffer_capacity = data["ring_buffer_capacity"].num
      /\ c.rate_hz = data["rate_hz"].num
      /\ c.initial_sequence_number = data["initial_sequence_number"].num
      /\ c.parquet_output_dir = OutputDir(data)
      /\ c.parquet_batch_mode = BatchMode(data)
      /\ c.parquet_max_records_per_file = IntOf(MaxPerFile(data))
      /\ c.parquet_flush_interval_seconds = Halves(FlushInterval(data), 1)
  BY DEF WithPath, Updated, MockConfig
<1>2. c.parquet_enabled = Enabled(data)
  BY DEF WithPath, Updated, MockConfig
<1>. HIDE DEF c
<1>3. c.ring_buffer_capacity > 0 /\ c.rate_hz > 0 /\ c.initial_sequence_number \in Uint(4)
  BY <1>1 DEF ValidSensor, Positive, ExactInt
<1>4. ASSUME Enabled(data)
      PROVE  /\ HasExporter(c)
             /\ ExporterMode(c) = "volume" => c.parquet_max_records_per_file > 0
             /\ ExporterMode(c) = "time" => c.parquet_flush_interval_seconds > 0
  <2>1. BatchMode(data) \in {"volume", "time"}
    BY <1>4, ModeIsGiven
  <2>2. ExporterMode(c) = BatchMode(data)
    BY <1>1, <2>1 DEF ExporterMode
  <2>3. HasExporter(c)
    BY <1>1, <1>2, <1>4 DEF HasExporter, ValidParquet
  <2>. QED
    BY <1>1, <1>4, <2>2, <2>3 DEF ValidParquet
<1>. QED
  BY <1>2, <1>3, <1>4 DEF Runnable, c

(***************************************************************************)
(* Powers of the number base.                                              *)
(***************************************************************************)
LEMMA PowerNext ==
    ASSUME NEW k \in 0 .. 7
    PROVE  Byte ^ (k + 1) = Byte * Byte ^ k
  BY PowersAssumption

LEMMA Powers == \A k \in 0 .. 8 : Byte ^ k \in Nat \ {0}
  <1> DEFINE P == {k \in Nat : k \in 0 .. 8 => Byte ^ k \in Nat \ {0}}
  <1>1. 0 \in P
    BY PowersAssumption
  <1>2. ASSUME NEW k \in P PROVE k + 1 \in P
    <2> SUFFICES ASSUME k + 1 \in 0 .. 8 PROVE Byte ^ (k + 1) \in Nat \ {0}
      OBVIOUS
    <2>1. k \in 0 .. 7 /\ Byte \in Nat \ {0}
      BY WireFormatAssumption
    <2>2. \A x, y \in Nat \ {0} : x * y \in Nat \ {0}
      OBVIOUS
    <2>3. Byte ^ k \in Nat \ {0}
      BY <2>1
    <2> QED BY <2>1, <2>2, <2>3, PowerNext
  <1>3. P \in SUBSET Nat
    OBVIOUS
  <1> HIDE DEF P
  <1>4. P = Nat
    BY <1>1, <1>2, <1>3, SetInduction
  <1> QED BY <1>4 DEF P

\* A power of the base is even, and above those before it.
LEMMA PowersGrow ==
    /\ Byte >= 2 /\ Byte \in Nat
    /\ \A bytes \in {2, 4, 8} : Byte ^ bytes \in Nat /\ Byte ^ bytes > Byte
    /\ 2 * Byte ^ 2 <= Byte ^ 4 /\ 2 * Byte ^ 4 <= Byte ^ 8
  <1>1. Byte >= 2 /\ Byte \in Nat
    BY WireFormatAssumption
  <1>2. \A x, y \in Nat : x >= 2 => x * y >= 2 * y
    OBVIOUS
  <1> DEFINE P(k) == Byte ^ k
  <1>3. P(1) = Byte * P(0) /\ P(0) = 1 /\ P(2) = Byte * P(1) /\ P(3) = Byte * P(2) /\ P(4) = Byte * P(3)
        /\ P(5) = Byte * P(4) /\ P(6) = Byte * P(5) /\ P(7) = Byte * P(6) /\ P(8) = Byte * P(7)
    <2>1. /\ Byte ^ (0 + 1) = Byte * P(0) /\ Byte ^ (1 + 1) = Byte * P(1) /\ Byte ^ (2 + 1) = Byte * P(2)
          /\ Byte ^ (3 + 1) = Byte * P(3) /\ Byte ^ (4 + 1) = Byte * P(4) /\ Byte ^ (5 + 1) = Byte * P(5)
          /\ Byte ^ (6 + 1) = Byte * P(6) /\ Byte ^ (7 + 1) = Byte * P(7)
      BY PowerNext
    <2> QED BY <2>1, PowersAssumption
  <1>4. /\ P(0) \in Nat \ {0} /\ P(1) \in Nat \ {0} /\ P(2) \in Nat \ {0} /\ P(3) \in Nat \ {0}
        /\ P(4) \in Nat \ {0} /\ P(5) \in Nat \ {0} /\ P(6) \in Nat \ {0} /\ P(7) \in Nat \ {0}
        /\ P(8) \in Nat \ {0}
    BY Powers
  <1> HIDE DEF P
  <1>5. P(1) = Byte
    BY <1>1, <1>3
  <1>6. /\ P(2) >= 2 * P(1) /\ P(3) >= 2 * P(2) /\ P(4) >= 2 * P(3) /\ P(5) >= 2 * P(4)
        /\ P(6) >= 2 * P(5) /\ P(7) >= 2 * P(6) /\ P(8) >= 2 * P(7)
    BY <1>1, <1>2, <1>3, <1>4
  <1>7. /\ P(2) > Byte /\ P(4) > Byte /\ P(8) > Byte
        /\ 2 * P(2) <= P(4) /\ 2 * P(4) <= P(8)
    BY <1>1, <1>4, <1>5, <1>6
  <1> QED BY <1>1, <1>4, <1>7 DEF P

\* A position in range is rounded into its field.
LEMMA DegreesFit ==
    ASSUME NEW v, v.num \in Int, NEW limit \in Nat, limit * DegreeE7 \in Sint(4),
           ValidDegrees(v, limit)
    PROVE  Scaled(v, DegreeE7) \in Sint(4)
<1>. DEFINE h == Halves(v, DegreeE7)
            units == limit * DegreeE7
            half == Byte ^ 4 \div 2
<1>1. DegreeE7 \in Nat
  BY ConfigAssumption
<1>2. h \in Int
  BY <1>1 DEF Halves
<1>3. units \in Nat /\ 2 * limit * DegreeE7 = 2 * units
  BY <1>1
<1>4. Magnitude(h) <= 2 * units
  BY <1>3 DEF ValidDegrees
<1>5. half \in Int /\ units <= half - 1 /\ Sint(4) = -half .. half - 1
  BY PowersGrow DEF Sint
<1>. HIDE DEF h, units, half
<1>6. Rounded(h) \in -units .. units
  BY <1>2, <1>3, <1>4 DEF Rounded, Magnitude
<1>7. Rounded(h) \in Sint(4)
  BY <1>3, <1>5, <1>6
<1>. QED
  BY <1>7 DEF Scaled, h

(***************************************************************************)
(* Then, that the generator makes records of it that can be encoded, and   *)
(* that what a decoder accepts fits the columns.                           *)
(***************************************************************************)

\* What the generator reads of its configuration.
GeneratorConfig(c) ==
    /\ c.device_id \in Uint(2)
    /\ c.measurement_type \in ValidMeasurementTypes
    /\ Scaled(c.gps_latitude, DegreeE7) \in Sint(4)
    /\ Scaled(c.gps_longitude, DegreeE7) \in Sint(4)
    /\ Scaled(c.gps_altitude_m, MetreMm) \in Sint(4)

LEMMA DataGenerates ==
    ASSUME NEW data, TypedData(data), ValidSensor(data), NEW path
    PROVE  /\ GeneratorConfig(WithPath(MockConfig(data), path))
           /\ WithPath(MockConfig(data), path).initial_sequence_number \in Uint(4)
<1>. DEFINE c == WithPath(MockConfig(data), path)
<1>1. /\ c.device_id = data["device_id"].num
      /\ c.measurement_type = data["measurement_type"].num
      /\ c.initial_sequence_number = data["initial_sequence_number"].num
      /\ c.gps_latitude = data["gps_latitude"]
      /\ c.gps_longitude = data["gps_longitude"]
      /\ c.gps_altitude_m = data["gps_altitude_m"]
  BY DEF WithPath, Updated, MockConfig
<1>. HIDE DEF c
<1>2. /\ c.device_id \in Uint(2)
      /\ c.measurement_type \in ValidMeasurementTypes
      /\ c.initial_sequence_number \in Uint(4)
  BY <1>1 DEF ValidSensor, ExactInt
<1>3. Scaled(c.gps_altitude_m, MetreMm) \in Sint(4)
  BY <1>1 DEF ValidSensor, ValidAltitude
<1>4. /\ MaxLatitude \in Nat /\ MaxLatitude * DegreeE7 \in Sint(4)
      /\ MaxLongitude \in Nat /\ MaxLongitude * DegreeE7 \in Sint(4)
  BY ConfigAssumption
<1>5. /\ c.gps_latitude.num \in Int /\ ValidDegrees(c.gps_latitude, MaxLatitude)
      /\ c.gps_longitude.num \in Int /\ ValidDegrees(c.gps_longitude, MaxLongitude)
  BY <1>1 DEF ValidSensor, Required, TypedData
<1>. QED
  BY <1>2, <1>3, <1>4, <1>5, DegreesFit DEF GeneratorConfig, c

\* The sample values are values of a record.
LEMMA SamplesValid == ValidValues(SampleValues)
<1>. DEFINE B == Byte ^ 2
<1>1. B \in Nat \ {0} /\ ValuesCount \in Nat
  BY PowersGrow, WireFormatAssumption
<1>2. Uint(2) = 0 .. B - 1 /\ SampleValues = [i \in 1 .. ValuesCount |-> (B - i) % B]
  BY DEF Uint, SampleValues
<1>. HIDE DEF B
<1>3. \A i \in 1 .. ValuesCount : (B - i) % B \in 0 .. B - 1
  BY <1>1
<1>4. SampleValues \in [1 .. ValuesCount -> Uint(2)]
  BY <1>2, <1>3
<1>5. SampleValues \in Seq(Uint(2)) /\ Len(SampleValues) = ValuesCount
  BY <1>1, <1>4, IsASeq, LenProperties
<1>6. ToSet(SampleValues) \subseteq Uint(2)
  BY <1>4 DEF ToSet, SampleValues
<1>. QED
  BY <1>5, <1>6 DEF ValidValues

\* A record of fields in range is valid, and fits the columns.
LEMMA FieldsValid ==
    ASSUME NEW r, r.device_id \in Uint(2), r.measurement_type \in Uint(2),
           r.measurement_type \in ValidMeasurementTypes,
           r.sequence_number \in Uint(4), r.dropped_records_total \in Uint(4),
           r.sensor_timestamp_us \in Uint(8), r.gps_timestamp_us \in Uint(8),
           r.gps_latitude_e7 \in Sint(4), r.gps_longitude_e7 \in Sint(4),
           r.gps_altitude_mm \in Sint(4), ValidValues(r.values)
    PROVE  ValidRecord(r)
BY DEF ValidRecord, Fields, FieldSet, Widths, Signed

LEMMA ValidFits ==
    ASSUME NEW r, ValidRecord(r)
    PROVE  FitsRow(r)
BY DEF ValidRecord, ValidValues, FitsRow, Fields, FieldSet, Widths, Signed, ColumnTypes

LEMMA TypesAreNumbers == ValidMeasurementTypes \subseteq Uint(2)
<1>1. Byte \in Nat /\ Byte >= 2
  BY WireFormatAssumption
<1>2. Byte ^ 2 \in Nat /\ Byte ^ 2 > Byte
  BY PowersGrow
<1>. QED
  BY <1>1, <1>2 DEF ValidMeasurementTypes, Uint

(***************************************************************************)
(* The stages of a record.  A time stamp stays below its limit because the *)
(* generator runs ahead of the clock by one for each record at most.       *)
(***************************************************************************)
RunInv ==
    /\ pc # "dead"
    /\ pc = "ready" => input.program # CProgram /\ config.accepted
    /\ count \in 0 .. MaxRecords
    /\ last # -1 => last + (MaxRecords - count) < Byte ^ 8
    /\ input.program # CProgram /\ pc \in {"generate", "encode", "receive", "archived"} =>
          GeneratorConfig(config) /\ nextSeq \in Uint(4)
    /\ pc = "encode" => input.program # CProgram /\ ValidRecord(record)

LEMMA ReadyRuns ==
    ASSUME LoadedInv, RunInv, pc = "ready"
    PROVE  /\ Runnable(config)
           /\ GeneratorConfig(config) /\ config.initial_sequence_number \in Uint(4)
<1>. DEFINE overrides == Overrides(Names, input.args)
            data == Merged(input.file, overrides)
<1>1. input \in Inputs /\ config = LoadConfig(input.file, overrides) /\ config.accepted
  BY DEF LoadedInv, RunInv
<1>2. TypedData(data)
  BY <1>1, InputData DEF Names
<1>3. ~Refused.accepted
  BY DEF Refused
<1>. HIDE DEF data
<1>4. PICK path : /\ ValidSensor(data) /\ ValidParquet(data)
                  /\ config = WithPath(MockConfig(data), path)
  BY <1>1, <1>3 DEF LoadConfig, WithPath, data
<1>. QED
  BY <1>2, <1>4, DataRuns, DataGenerates

\* A clock that leaves room for every record still has room when some of them
\* are already counted.
LEMMA RoomLeft ==
    ASSUME NEW max \in Nat, NEW done \in 0 .. max, NEW limit \in Nat, NEW now \in Nat
    PROVE  /\ now + max < limit => now + (max - done) < limit
           /\ now + (max - done) < limit => now < limit
  OBVIOUS

\* What the generator makes is a record.
LEMMA GeneratesValid ==
    ASSUME StampInv, RunInv, Generate
    PROVE  /\ ValidRecord(record')
           /\ last' + (MaxRecords - count') < Byte ^ 8 /\ last' # -1
           /\ count' \in 0 .. MaxRecords
           /\ nextSeq' \in Uint(4)
<1>. DEFINE B4 == Byte ^ 4
            B8 == Byte ^ 8
<1>1. B4 \in Nat \ {0} /\ B8 \in Nat \ {0} /\ Uint(4) = 0 .. B4 - 1 /\ Uint(8) = 0 .. B8 - 1
  BY WireFormatAssumption, PowersGrow DEF Uint
<1>2. GeneratorConfig(config) /\ nextSeq \in Uint(4)
  BY DEF Generate, StampInv, RunInv
<1>3. PICK now \in Clock, dropped \in DroppedTotals :
          /\ last' = Stamp(now)
          /\ record' =
                [device_id |-> config.device_id,
                 measurement_type |-> config.measurement_type,
                 sequence_number |-> nextSeq,
                 dropped_records_total |-> dropped % B4,
                 sensor_timestamp_us |-> last',
                 gps_timestamp_us |-> last',
                 gps_latitude_e7 |-> Scaled(config.gps_latitude, DegreeE7),
                 gps_longitude_e7 |-> Scaled(config.gps_longitude, DegreeE7),
                 gps_altitude_mm |-> Scaled(config.gps_altitude_m, MetreMm),
                 values |-> SampleValues]
  BY DEF Generate
<1>4. count < MaxRecords /\ count' = count + 1 /\ nextSeq' = (nextSeq + 1) % B4
  BY DEF Generate
<1>5. now + MaxRecords < B8 /\ now \in Nat /\ dropped \in Nat /\ MaxRecords \in Nat
  BY ClockAssumption, RecordPathAssumption
<1>6. count \in 0 .. MaxRecords /\ last \in Nat \cup {-1}
      /\ (last # -1 => last + (MaxRecords - count) < B8)
  BY DEF RunInv, StampInv
<1>. HIDE DEF B4, B8
<1>7. last' \in Nat
  BY GenerateStamps
<1>8. last' + (MaxRecords - count') < B8 /\ last' # -1 /\ count' \in 0 .. MaxRecords
  <2>1. /\ count \in Nat /\ count < MaxRecords /\ count' = count + 1
        /\ last' = Stamp(now)
    BY <1>3, <1>4, <1>6
  <2>2. last' # -1
    BY <1>7
  <2>3. count' \in 0 .. MaxRecords
    BY <2>1, <1>5
  <2>4. CASE last # -1 /\ now <= last
    <3>1. last' = last + 1
      BY <2>1, <2>4 DEF Stamp
    <3>2. last \in Nat /\ last + (MaxRecords - count) < B8
      BY <1>6, <2>4
    <3>. QED
      BY <3>1, <3>2, <2>1, <2>2, <2>3, <1>1, <1>5
  <2>5. CASE ~(last # -1 /\ now <= last)
    <3>1. last' = now
      BY <2>1, <2>5 DEF Stamp
    <3>2. now \in Nat /\ MaxRecords \in Nat /\ B8 \in Nat
      BY <1>1, <1>5
    <3>3. now + MaxRecords < B8
      BY <1>5
    <3>4. now + (MaxRecords - count') < B8
      BY <3>2, <3>3, <2>3, RoomLeft
    <3>. QED
      BY <3>1, <3>4, <2>2, <2>3
  <2>. QED
    BY <2>4, <2>5
<1>9. last' \in Uint(8)
  <2>1. last' < B8
    BY <1>1, <1>5, <1>7, <1>8, RoomLeft
  <2>. QED
    BY <2>1, <1>1, <1>7
<1>10. dropped % B4 \in Uint(4) /\ nextSeq' \in Uint(4)
  BY SMTT(30), <1>1, <1>2, <1>4, <1>5
<1>11. ValidRecord(record')
  <2>1. /\ record'.device_id = config.device_id
        /\ record'.measurement_type = config.measurement_type
        /\ record'.sequence_number = nextSeq
        /\ record'.dropped_records_total = dropped % B4
        /\ record'.sensor_timestamp_us = last'
        /\ record'.gps_timestamp_us = last'
        /\ record'.gps_latitude_e7 = Scaled(config.gps_latitude, DegreeE7)
        /\ record'.gps_longitude_e7 = Scaled(config.gps_longitude, DegreeE7)
        /\ record'.gps_altitude_mm = Scaled(config.gps_altitude_m, MetreMm)
        /\ record'.values = SampleValues
    BY <1>3
  <2>. QED
    BY <1>2, <1>9, <1>10, <2>1, SamplesValid, TypesAreNumbers, FieldsValid
       DEF GeneratorConfig
<1>. QED
  BY <1>8, <1>10, <1>11 DEF B8

LEMMA InitRun == Init => RunInv
  BY RecordPathAssumption DEF Init, RunInv

LEMMA NextRun ==
    ASSUME StampInv, LoadedInv, RunInv, [Next]_vars
    PROVE  RunInv'
  <1>1. CASE Load
    BY <1>1 DEF Load, RunInv
  <1>2. CASE StartGenerator
    <2>1. /\ GeneratorConfig(config) /\ config.initial_sequence_number \in Uint(4)
          /\ pc' = "generate" /\ nextSeq' = config.initial_sequence_number
          /\ UNCHANGED <<last, count>>
      BY <1>2, ReadyRuns DEF StartGenerator
    <2>2. /\ config'.device_id = config.device_id
          /\ config'.measurement_type = config.measurement_type
          /\ config'.gps_latitude = config.gps_latitude
          /\ config'.gps_longitude = config.gps_longitude
          /\ config'.gps_altitude_m = config.gps_altitude_m
      BY <1>2 DEF StartGenerator
    <2>3. GeneratorConfig(config)'
      BY <2>1, <2>2 DEF GeneratorConfig
    <2> QED BY <2>1, <2>3 DEF RunInv
  <1>3. CASE Generate
    <2>1. pc' = "encode" /\ UNCHANGED <<input, config>> /\ input.program # CProgram
      BY <1>3 DEF Generate, StampInv
    <2>2. GeneratorConfig(config)'
      BY <1>3, <2>1 DEF RunInv, GeneratorConfig, Generate
    <2>3. ValidRecord(record)'
      BY <1>3, GeneratesValid
    <2> QED BY <1>3, <2>1, <2>2, <2>3, GeneratesValid DEF RunInv
  <1>4. CASE EncodeRecord
    BY <1>4 DEF EncodeRecord, RunInv
  <1>5. CASE ConvertRow
    BY <1>5 DEF ConvertRow, RunInv
  <1>6. CASE Receive
    <2>1. ~(Decode(payload).valid /\ ~FitsRow(Decode(payload).record))
      BY ValidFits DEF Decode, Invalid
    <2> QED BY <1>6, <2>1 DEF Receive, RunInv
  <1>7. CASE NextRecord
    BY <1>7 DEF NextRecord, RunInv, CProgram
  <1>8. CASE UNCHANGED vars
    BY <1>8 DEF vars, RunInv
  <1> QED BY <1>1, <1>2, <1>3, <1>4, <1>5, <1>6, <1>7, <1>8 DEF Next

\* AcceptedConfigRuns.  No configuration that load_config accepts ends a thread
\* later: the encoder takes every record made of it, whatever is decoded fits
\* the columns of the archive, and the exporter has what it needs.
THEOREM AcceptedRuns == Spec => []AcceptedConfigRuns
  <1>1. LoadedInv /\ RunInv => AcceptedConfigRuns
    BY ReadyRuns DEF AcceptedConfigRuns, RunInv
  <1> QED BY <1>1, InitStamp, NextStamp, InitLoaded, NextLoaded, InitRun, NextRun,
             PTL DEF Spec
-------------------------------------------------------------------------------
(***************************************************************************)
(* The digits of a number, and back.                                       *)
(***************************************************************************)

\* Dividing twice is dividing by the product.
LEMMA DivDiv ==
    ASSUME NEW v \in Int, NEW m \in Nat \ {0}, NEW n \in Nat \ {0}
    PROVE  (v \div m) \div n = v \div (n * m)
  <1> DEFINE q == v \div m
             r == v % m
             p == q \div n
             s == q % n
  <1>1. q \in Int /\ r \in 0 .. m - 1 /\ v = m * q + r
    BY Divided
  <1>2. p \in Int /\ s \in 0 .. n - 1 /\ q = n * p + s
    BY <1>1, Divided
  <1> HIDE DEF q, r, p, s
  <1>3. n * m \in Nat \ {0}
    OBVIOUS
  <1>4. m * s \in 0 .. m * (n - 1) /\ m * (n - 1) = n * m - m
    BY <1>2
  <1>5. m * s + r \in 0 .. n * m - 1
    BY <1>1, <1>3, <1>4
  <1>6. v = (n * m) * p + (m * s + r)
    <2>1. m * (n * p + s) = (n * m) * p + m * s
      BY <1>2
    <2> QED BY <1>1, <1>2, <2>1
  <1>7. v \div (n * m) = p
    BY <1>2, <1>3, <1>5, <1>6, DivUnique
  <1> QED BY <1>7 DEF p, q

\* f is the function by which Unsigned is defined, for n bytes.
Reads(f, bytes, n) ==
    f = [k \in 1 .. n + 1 |-> IF k > n THEN 0 ELSE bytes[k] + Byte * f[k + 1]]

LEMMA ReadsAt ==
    ASSUME NEW f, NEW bytes, NEW n \in Nat, Reads(f, bytes, n), NEW k \in 1 .. n + 1
    PROVE  f[k] = IF k > n THEN 0 ELSE bytes[k] + Byte * f[k + 1]
  BY Zenon DEF Reads

LEMMA ReadsUnique ==
    ASSUME NEW bytes, NEW n \in Nat, NEW f, NEW g,
           Reads(f, bytes, n), Reads(g, bytes, n)
    PROVE  f[1] = g[1]
  <1> DEFINE P == {j \in Nat : j \in 0 .. n => f[n + 1 - j] = g[n + 1 - j]}
  <1>1. 0 \in P
    <2>1. n + 1 \in 1 .. n + 1 /\ n + 1 > n /\ n + 1 - 0 = n + 1
      OBVIOUS
    <2>2. f[n + 1] = 0 /\ g[n + 1] = 0
      BY <2>1, ReadsAt
    <2> QED BY <2>1, <2>2
  <1>2. ASSUME NEW j \in P PROVE j + 1 \in P
    <2> SUFFICES ASSUME j + 1 \in 0 .. n PROVE f[n + 1 - (j + 1)] = g[n + 1 - (j + 1)]
      OBVIOUS
    <2> DEFINE k == n + 1 - (j + 1)
    <2>1. k \in 1 .. n + 1 /\ ~(k > n) /\ k + 1 = n + 1 - j
      OBVIOUS
    <2>2. f[k + 1] = g[k + 1]
      BY <2>1
    <2> HIDE DEF k
    <2>3. f[k] = bytes[k] + Byte * f[k + 1] /\ g[k] = bytes[k] + Byte * g[k + 1]
      BY <2>1, ReadsAt
    <2>4. f[k] = g[k]
      BY <2>2, <2>3
    <2> QED BY <2>4 DEF k
  <1>3. P \in SUBSET Nat
    OBVIOUS
  <1> HIDE DEF P
  <1>4. P = Nat
    BY <1>1, <1>2, <1>3, SetInduction
  <1>5. n \in P
    BY <1>4
  <1>6. n \in 0 .. n /\ n + 1 - n = 1
    OBVIOUS
  <1>7. f[n + 1 - n] = g[n + 1 - n]
    BY <1>5, <1>6 DEF P
  <1> QED BY <1>6, <1>7

LEMMA UnsignedIs ==
    ASSUME NEW bytes, NEW n \in Nat, Len(bytes) = n, NEW f, Reads(f, bytes, n)
    PROVE  Unsigned(bytes) = f[1]
  <1> DEFINE g == CHOOSE h : Reads(h, bytes, n)
  <1>1. Reads(g, bytes, n)
    BY Zenon
  <1>2. Unsigned(bytes) = g[1]
    BY Zenon DEF Unsigned, Reads
  <1> HIDE DEF g
  <1> QED BY <1>1, <1>2, ReadsUnique

LEMMA LittleEndianTyped ==
    ASSUME NEW v \in Int, NEW n \in 0 .. 8
    PROVE  /\ LittleEndian(v, n) \in Seq(Nat) /\ Len(LittleEndian(v, n)) = n
           /\ \A k \in 1 .. n : LittleEndian(v, n)[k] = (v \div Byte ^ (k - 1)) % Byte
  <1> DEFINE digits == LittleEndian(v, n)
  <1>1. digits = [k \in 1 .. n |-> (v \div Byte ^ (k - 1)) % Byte]
    BY DEF LittleEndian
  <1>2. \A k \in 1 .. n : (v \div Byte ^ (k - 1)) % Byte \in Nat
    <2> SUFFICES ASSUME NEW k \in 1 .. n PROVE (v \div Byte ^ (k - 1)) % Byte \in Nat
      OBVIOUS
    <2>1. Byte ^ (k - 1) \in Nat \ {0} /\ Byte \in Nat \ {0}
      BY Powers, WireFormatAssumption
    <2> QED BY <2>1, Divided
  <1> HIDE DEF digits
  <1>3. digits \in [1 .. n -> Nat]
    BY <1>1, <1>2, Zenon
  <1>4. digits \in Seq(Nat) /\ Len(digits) = n
    BY <1>3
  <1>5. \A k \in 1 .. n : digits[k] = (v \div Byte ^ (k - 1)) % Byte
    BY <1>1, Zenon
  <1> QED BY <1>4, <1>5 DEF digits

\* What the digits say is the number modulo the width.
LEMMA DigitsRead ==
    ASSUME NEW v \in Int, NEW n \in 0 .. 8
    PROVE  Unsigned(LittleEndian(v, n)) = v - Byte ^ n * (v \div Byte ^ n)
  <1> DEFINE P(k) == Byte ^ k
             D(k) == v \div P(k)
             bytes == LittleEndian(v, n)
             f == [k \in 1 .. n + 1 |-> D(k - 1) - P(n - (k - 1)) * D(n)]
  <1>1. \A k \in 0 .. 8 : P(k) \in Nat \ {0} /\ D(k) \in Int
    <2> SUFFICES ASSUME NEW k \in 0 .. 8 PROVE P(k) \in Nat \ {0} /\ D(k) \in Int
      OBVIOUS
    <2>1. P(k) \in Nat \ {0}
      BY Powers
    <2> QED BY <2>1, Divided
  <1>2. P(0) = 1 /\ D(0) = v
    <2>1. P(0) = 1
      BY PowersAssumption
    <2>2. v \div 1 = v
      OBVIOUS
    <2> QED BY <2>1, <2>2
  <1>3. \A k \in 0 .. 7 : P(k + 1) = Byte * P(k)
    BY PowerNext
  <1>4. ASSUME NEW k \in 0 .. 7
        PROVE  D(k) = (D(k) % Byte) + Byte * D(k + 1) /\ D(k) % Byte \in Int
    <2>1. P(k) \in Nat \ {0} /\ D(k) \in Int /\ Byte \in Nat \ {0} /\ P(k + 1) = Byte * P(k)
      BY <1>1, <1>3, WireFormatAssumption
    <2>2. D(k) = Byte * (D(k) \div Byte) + (D(k) % Byte) /\ D(k) % Byte \in Int
          /\ D(k) \div Byte \in Int
      BY <2>1, Divided
    <2>3. D(k) \div Byte = D(k + 1)
      <3>1. P(k) \in Nat \ {0} /\ Byte \in Nat \ {0}
        BY <2>1
      <3>2. (v \div P(k)) \div Byte = v \div (Byte * P(k))
        BY <3>1, DivDiv, Zenon
      <3> QED BY <2>1, <3>2, Zenon
    <2> QED BY <2>1, <2>2, <2>3
  <1>5. Len(bytes) = n /\ \A k \in 1 .. n : bytes[k] = D(k - 1) % Byte
    BY LittleEndianTyped
  <1>6. \A k \in 1 .. n + 1 : f[k] = D(k - 1) - P(n - (k - 1)) * D(n)
    OBVIOUS
  <1> HIDE DEF P, D, bytes
  <1>7. ASSUME NEW k \in 1 .. n + 1
        PROVE  f[k] = IF k > n THEN 0 ELSE bytes[k] + Byte * f[k + 1]
    <2>1. CASE k > n
      <3>1. k - 1 = n /\ n - (k - 1) = 0 /\ D(n) \in Int
        BY <1>1, <2>1
      <3>2. f[k] = D(n) - 1 * D(n)
        BY <1>2, <1>6, <3>1
      <3> QED BY <2>1, <3>1, <3>2
    <2>2. CASE ~(k > n)
      <3>1. k - 1 \in 0 .. 7 /\ n - k \in 0 .. 7 /\ (n - k) + 1 = n - (k - 1) /\ k + 1 \in 1 .. n + 1
            /\ k + 1 - 1 = k /\ k - 1 + 1 = k /\ k \in 1 .. n
        BY <2>2
      <3>2. f[k + 1] = D(k) - P(n - k) * D(n) /\ f[k] = D(k - 1) - P(n - (k - 1)) * D(n)
        BY <1>6, <3>1
      <3>3. P(n - (k - 1)) = Byte * P(n - k)
        BY <1>3, <3>1
      <3>4. D(k - 1) = (D(k - 1) % Byte) + Byte * D(k) /\ D(k - 1) % Byte \in Int
        BY <1>4, <3>1
      <3>5. D(k) \in Int /\ D(n) \in Int /\ P(n - k) \in Nat /\ Byte \in Nat
        BY <1>1, <3>1, WireFormatAssumption
      <3>6. \A c \in Int, d \in Int, e \in Int, p \in Nat, b \in Nat :
              (c + b * d) - (b * p) * e = c + b * (d - p * e)
        OBVIOUS
      <3>7. ((D(k - 1) % Byte) + Byte * D(k)) - (Byte * P(n - k)) * D(n)
              = (D(k - 1) % Byte) + Byte * (D(k) - P(n - k) * D(n))
        BY <3>4, <3>5, <3>6
      <3>8. bytes[k] = D(k - 1) % Byte
        BY <1>5, <3>1
      <3>9. f[k] = bytes[k] + Byte * f[k + 1]
        BY <3>2, <3>3, <3>4, <3>7, <3>8
      <3> QED BY <2>2, <3>9
    <2> QED BY <2>1, <2>2
  <1>8. Reads(f, bytes, n)
    <2>1. \A k \in 1 .. n + 1 : f[k] = IF k > n THEN 0 ELSE bytes[k] + Byte * f[k + 1]
      BY <1>7
    <2>2. f = [k \in 1 .. n + 1 |-> f[k]]
      BY Zenon
    <2> HIDE DEF f
    <2>3. f = [k \in 1 .. n + 1 |-> IF k > n THEN 0 ELSE bytes[k] + Byte * f[k + 1]]
      BY <2>1, <2>2, Zenon
    <2> QED BY <2>3, Zenon DEF Reads
  <1>9. f[1] = v - P(n) * D(n)
    <2>1. 1 \in 1 .. n + 1 /\ 1 - 1 = 0 /\ n - (1 - 1) = n
      OBVIOUS
    <2>2. f[1] = D(1 - 1) - P(n - (1 - 1)) * D(n)
      BY <1>6, <2>1
    <2> QED BY <1>2, <2>1, <2>2
  <1> HIDE DEF f
  <1>10. Unsigned(bytes) = f[1]
    BY <1>5, <1>8, UnsignedIs
  <1>11. Unsigned(bytes) = v - P(n) * D(n)
    BY <1>9, <1>10
  <1> QED BY <1>11, Zenon DEF P, D, bytes

LEMMA UnsignedFits ==
    ASSUME NEW n \in {2, 4, 8}, NEW v \in Uint(n)
    PROVE  Unsigned(LittleEndian(v, n)) = v
  <1>1. n \in 0 .. 8 /\ Byte ^ n \in Nat \ {0} /\ v \in 0 .. Byte ^ n - 1
    BY Powers DEF Uint
  <1>2. (Byte ^ n * 0 + v) \div Byte ^ n = 0
    BY <1>1, DivUnique
  <1>3. Byte ^ n * 0 + v = v /\ Byte ^ n * 0 = 0
    BY <1>1
  <1>4. v \div Byte ^ n = 0
    BY <1>2, <1>3
  <1>5. Unsigned(LittleEndian(v, n)) = v - Byte ^ n * (v \div Byte ^ n)
    BY <1>1, DigitsRead
  <1> QED BY <1>1, <1>3, <1>4, <1>5

LEMMA SignedFits ==
    ASSUME NEW n \in {2, 4, 8}, NEW v \in Sint(n)
    PROVE  TwosComplement(LittleEndian(v, n)) = v
  <1> DEFINE W == Byte ^ n
             h == W \div 2
  <1>1. n \in 0 .. 8 /\ W \in Nat \ {0}
    BY Powers
  <1>2. h \in Int /\ W - h >= h /\ h >= 0 /\ W - h <= h + 1 /\ W > 1
    <2>1. W > 1
      BY PowersGrow
    <2> HIDE DEF W
    <2>2. W = 2 * h + (W % 2) /\ W % 2 \in 0 .. 1 /\ h \in Int
      BY <1>1, Divided
    <2> HIDE DEF h
    <2> QED BY <1>1, <2>1, <2>2
  <1>3. v \in -h .. h - 1 /\ Sint(n) = -h .. h - 1
    BY DEF Sint
  <1>4. Unsigned(LittleEndian(v, n)) = v - W * (v \div W) /\ Len(LittleEndian(v, n)) = n
    <2>1. v \in Int
      BY <1>2, <1>3
    <2> QED BY <1>1, <2>1, DigitsRead, LittleEndianTyped
  <1> HIDE DEF h
  <1>5. TwosComplement(LittleEndian(v, n))
          = IF v - W * (v \div W) \in -h .. h - 1 THEN v - W * (v \div W)
            ELSE v - W * (v \div W) - W
    BY <1>3, <1>4, Zenon DEF TwosComplement
  <1> HIDE DEF W
  <1>6. CASE v >= 0
    <2>1. v \in 0 .. W - 1
      BY <1>1, <1>2, <1>3, <1>6
    <2>2. (W * 0 + v) \div W = 0 /\ W * 0 + v = v
      BY <1>1, <2>1, DivUnique
    <2>3. v \div W = 0 /\ v - W * (v \div W) = v
      BY <2>2, <1>1, <2>1
    <2> QED BY <1>3, <1>5, <2>3
  <1>7. CASE v < 0
    <2>1. v + W \in 0 .. W - 1
      BY <1>1, <1>2, <1>3, <1>7
    <2>2. (W * (-1) + (v + W)) \div W = -1 /\ W * (-1) + (v + W) = v
      BY <1>1, <1>3, <2>1, DivUnique
    <2>3. v - W * (v \div W) = v + W
      BY <2>2, <1>1, <1>3
    <2>4. v + W \notin -h .. h - 1
      BY <1>1, <1>2, <1>3
    <2> QED BY <1>1, <1>3, <1>5, <2>3, <2>4
  <1> QED BY <1>2, <1>3, <1>6, <1>7
-------------------------------------------------------------------------------
(***************************************************************************)
(* Where the fields are.                                                   *)
(***************************************************************************)
LEMMA NineFields == Len(Fields) = 9 /\ DOMAIN Fields = 1 .. 9
  BY DEF Fields

LEMMA WidthsAre ==
    /\ Widths[1] = 2 /\ Widths[2] = 2 /\ Widths[3] = 4 /\ Widths[4] = 4 /\ Widths[5] = 8
    /\ Widths[6] = 8 /\ Widths[7] = 4 /\ Widths[8] = 4 /\ Widths[9] = 4
    /\ \A k \in 1 .. 9 : Widths[k] \in {2, 4, 8}
  BY DEF Widths

Places == <<0, 2, 4, 8, 12, 20, 28, 32, 36, 40>>

LEMMA PlacesAre ==
    /\ Places[1] = 0 /\ Places[2] = 2 /\ Places[3] = 4 /\ Places[4] = 8 /\ Places[5] = 12
    /\ Places[6] = 20 /\ Places[7] = 28 /\ Places[8] = 32 /\ Places[9] = 36 /\ Places[10] = 40
  BY DEF Places

LEMMA OneOfNine ==
    ASSUME NEW k \in 1 .. 9
    PROVE  k = 1 \/ k = 2 \/ k = 3 \/ k = 4 \/ k = 5 \/ k = 6 \/ k = 7 \/ k = 8 \/ k = 9
  OBVIOUS

LEMMA PlacesAdd ==
    \A k \in 1 .. 9 : Places[k] + Widths[k] = Places[k + 1] /\ Places[k] \in 0 .. 36
  <1> SUFFICES ASSUME NEW k \in 1 .. 9
               PROVE  Places[k] + Widths[k] = Places[k + 1] /\ Places[k] \in 0 .. 36
    OBVIOUS
  <1> QED BY OneOfNine, PlacesAre, WidthsAre

Lays(f) == f = [k \in 1 .. 10 |-> IF k = 1 THEN 0 ELSE f[k - 1] + Widths[k - 1]]

LEMMA LaysAt ==
    ASSUME NEW f, Lays(f), NEW k \in 1 .. 10
    PROVE  f[k] = IF k = 1 THEN 0 ELSE f[k - 1] + Widths[k - 1]
  BY Zenon DEF Lays

LEMMA FieldAtIs == \A k \in 1 .. 10 : FieldAt[k] = Places[k]
  <1>1. \E f : Lays(f)
    <2> DEFINE f == [k \in 1 .. 10 |-> Places[k]]
    <2>1. \A k \in 1 .. 10 : f[k] = IF k = 1 THEN 0 ELSE f[k - 1] + Widths[k - 1]
      <3> SUFFICES ASSUME NEW k \in 1 .. 10
                   PROVE  f[k] = IF k = 1 THEN 0 ELSE f[k - 1] + Widths[k - 1]
        OBVIOUS
      <3>1. CASE k = 1
        BY <3>1, PlacesAre
      <3>2. CASE k # 1
        <4>1. k - 1 \in 1 .. 9 /\ k - 1 \in 1 .. 10 /\ k - 1 + 1 = k
          BY <3>2
        <4>2. Places[k - 1] + Widths[k - 1] = Places[k]
          BY <4>1, PlacesAdd
        <4> QED BY <3>2, <4>1, <4>2
      <3> QED BY <3>1, <3>2
    <2>2. f = [k \in 1 .. 10 |-> f[k]]
      BY Zenon
    <2> HIDE DEF f
    <2>3. f = [k \in 1 .. 10 |-> IF k = 1 THEN 0 ELSE f[k - 1] + Widths[k - 1]]
      BY <2>1, <2>2, Zenon
    <2> QED BY <2>3, Zenon DEF Lays
  <1>2. FieldAt = CHOOSE f : Lays(f)
    <2>1. Len(Fields) + 1 = 10
      BY NineFields
    <2> QED BY <2>1, Zenon DEF FieldAt, Lays
  <1>3. Lays(FieldAt)
    BY <1>1, <1>2, Zenon
  <1> DEFINE P == {k \in Nat : k \in 1 .. 10 => FieldAt[k] = Places[k]}
  <1>4. 0 \in P
    OBVIOUS
  <1>5. ASSUME NEW k \in P PROVE k + 1 \in P
    <2> SUFFICES ASSUME k + 1 \in 1 .. 10 PROVE FieldAt[k + 1] = Places[k + 1]
      OBVIOUS
    <2>1. FieldAt[k + 1] = IF k + 1 = 1 THEN 0 ELSE FieldAt[k + 1 - 1] + Widths[k + 1 - 1]
      BY <1>3, LaysAt
    <2>2. CASE k = 0
      BY <2>1, <2>2, PlacesAre
    <2>3. CASE k # 0
      <3>1. k \in 1 .. 9 /\ k + 1 - 1 = k /\ k + 1 # 1 /\ k \in 1 .. 10
        BY <2>3
      <3>2. FieldAt[k] = Places[k]
        BY <3>1
      <3> QED BY <2>1, <3>1, <3>2, PlacesAdd
    <2> QED BY <2>2, <2>3
  <1>6. P \in SUBSET Nat
    OBVIOUS
  <1> HIDE DEF P
  <1>7. P = Nat
    BY <1>4, <1>5, <1>6, SetInduction
  <1> QED BY <1>7 DEF P

LEMMA SizesAre ==
    /\ HeaderSize = 40 /\ RecordSize = 40 + 2 * ValuesCount
    /\ ValuesCount \in Nat \ {0} /\ RecordSize \in Nat
  BY FieldAtIs, PlacesAre, NineFields, WireFormatAssumption DEF HeaderSize, RecordSize

LEMMA OffsetsAre == DOMAIN Offsets = 1 .. 9 /\ \A k \in 1 .. 9 : Offsets[k] = Places[k]
  <1>1. DOMAIN Offsets = 1 .. 9
    BY DEF Offsets
  <1>2. ASSUME NEW k \in 1 .. 9 PROVE Offsets[k] = Places[k]
    BY OneOfNine, PlacesAre DEF Offsets
  <1> QED BY <1>1, <1>2

\* No byte of the header is in two fields, and each is in one.
LEMMA FieldsApart ==
    ASSUME NEW k \in 1 .. 9, NEW m \in 1 .. 9, NEW b \in Int,
           b - Offsets[k] \in 1 .. Widths[k], b - Offsets[m] \in 1 .. Widths[m]
    PROVE  k = m
  <1>1. /\ Offsets[1] = 0 /\ Offsets[2] = 2 /\ Offsets[3] = 4 /\ Offsets[4] = 8 /\ Offsets[5] = 12
        /\ Offsets[6] = 20 /\ Offsets[7] = 28 /\ Offsets[8] = 32 /\ Offsets[9] = 36
    BY DEF Offsets
  <1>2. k < m => Offsets[k] + Widths[k] <= Offsets[m]
    BY <1>1, OneOfNine, WidthsAre
  <1>3. m < k => Offsets[m] + Widths[m] <= Offsets[k]
    BY <1>1, OneOfNine, WidthsAre
  <1>4. /\ Offsets[k] \in Nat /\ Offsets[m] \in Nat /\ Widths[k] \in Nat /\ Widths[m] \in Nat
    BY OffsetsAre, PlacesAdd, WidthsAre
  <1> QED BY <1>2, <1>3, <1>4

LEMMA FieldsCover ==
    ASSUME NEW b \in 1 .. 40
    PROVE  \E k \in 1 .. 9 : b - Offsets[k] \in 1 .. Widths[k]
  <1>1. /\ Offsets[1] = 0 /\ Offsets[2] = 2 /\ Offsets[3] = 4 /\ Offsets[4] = 8 /\ Offsets[5] = 12
        /\ Offsets[6] = 20 /\ Offsets[7] = 28 /\ Offsets[8] = 32 /\ Offsets[9] = 36
    BY DEF Offsets
  <1>2. CASE b <= 8
    BY <1>1, <1>2, WidthsAre
  <1>3. CASE b > 8 /\ b <= 28
    BY <1>1, <1>3, WidthsAre
  <1>4. CASE b > 28
    BY <1>1, <1>4, WidthsAre
  <1> QED BY <1>2, <1>3, <1>4
-------------------------------------------------------------------------------
(***************************************************************************)
(* The bytes of a record.                                                  *)
(***************************************************************************)
Codable(r) ==
    /\ \A k \in 1 .. 9 : r[Fields[k]] \in Int
    /\ r.values \in Seq(Int) /\ Len(r.values) = ValuesCount

\* The bytes of field k, and of value i.
FieldBytes(r, k) == LittleEndian(r[Fields[k]], Widths[k])

ValueBytes(r, i) == LittleEndian(r.values[i], 2)

LEMMA FieldBytesTyped ==
    ASSUME NEW r, Codable(r), NEW k \in 1 .. 9
    PROVE  FieldBytes(r, k) \in Seq(Nat) /\ Len(FieldBytes(r, k)) = Widths[k]
  <1>1. Widths[k] \in 0 .. 8
    BY WidthsAre
  <1>2. r[Fields[k]] \in Int
    BY DEF Codable
  <1> QED BY <1>1, <1>2, LittleEndianTyped DEF FieldBytes

LEMMA ValueBytesTyped ==
    ASSUME NEW r, Codable(r), NEW i \in 1 .. ValuesCount
    PROVE  ValueBytes(r, i) \in Seq(Nat) /\ Len(ValueBytes(r, i)) = 2
  <1>1. r.values[i] \in Int /\ 2 \in 0 .. 8
    BY ElementOfSeq DEF Codable
  <1> QED BY <1>1, LittleEndianTyped DEF ValueBytes

\* Which byte of which value byte b is.
LEMMA ValueAt ==
    ASSUME NEW b \in 41 .. RecordSize
    PROVE  /\ (b - 41) \div 2 + 1 \in 1 .. ValuesCount
           /\ ((b - 41) % 2) + 1 \in 1 .. 2
           /\ b = 40 + 2 * ((b - 41) \div 2) + (((b - 41) % 2) + 1)
  <1> DEFINE q == (b - 41) \div 2
             r == (b - 41) % 2
  <1>1. b - 41 = 2 * q + r /\ r \in 0 .. 1 /\ q \in Int
    OBVIOUS
  <1> HIDE DEF q, r
  <1>2. b \in Int /\ b <= 40 + 2 * ValuesCount /\ b >= 41 /\ ValuesCount \in Nat
    BY SizesAre
  <1>3. q + 1 \in 1 .. ValuesCount /\ r + 1 \in 1 .. 2 /\ b = 40 + 2 * q + (r + 1)
    BY <1>1, <1>2
  <1> QED BY <1>3 DEF q, r

LEMMA ValuePlace ==
    ASSUME NEW i \in 1 .. ValuesCount, NEW j \in 1 .. 2, NEW b \in Int, b = 40 + 2 * (i - 1) + j
    PROVE  /\ b \in 41 .. RecordSize
           /\ (b - 41) \div 2 + 1 = i /\ ((b - 41) % 2) + 1 = j
  <1>1. b - 41 = 2 * (i - 1) + (j - 1) /\ i - 1 \in Int /\ j - 1 \in 0 .. 1
    OBVIOUS
  <1>2. (b - 41) \div 2 = i - 1 /\ (b - 41) % 2 = j - 1
    BY <1>1, DivUnique
  <1>3. b \in 41 .. RecordSize
    BY SizesAre
  <1> QED BY <1>2, <1>3

LEMMA SerializeAt ==
    ASSUME NEW r, NEW b \in 1 .. RecordSize
    PROVE  /\ b > 40 => Serialize(r)[b] = ValueBytes(r, (b - 41) \div 2 + 1)[((b - 41) % 2) + 1]
           /\ \A k \in 1 .. 9 :
                 b - Offsets[k] \in 1 .. Widths[k] /\ ~(b > 40) =>
                    Serialize(r)[b] = FieldBytes(r, k)[b - Offsets[k]]
  <1> DEFINE Here == CHOOSE j \in DOMAIN Offsets : b - Offsets[j] \in 1 .. Widths[j]
  <1>1. Serialize(r)[b] =
          IF b > 40 THEN ValueBytes(r, (b - 41) \div 2 + 1)[((b - 41) % 2) + 1]
          ELSE FieldBytes(r, Here)[b - Offsets[Here]]
    BY Zenon DEF Serialize, FieldBytes, ValueBytes
  <1>2. ASSUME NEW k \in 1 .. 9, b - Offsets[k] \in 1 .. Widths[k]
        PROVE  Here = k
    <2>1. k \in DOMAIN Offsets
      BY OffsetsAre
    <2>2. Here \in DOMAIN Offsets /\ b - Offsets[Here] \in 1 .. Widths[Here]
      BY <1>2, <2>1, Zenon
    <2> HIDE DEF Here
    <2>3. Here \in 1 .. 9 /\ b \in Int
      BY <2>2, OffsetsAre
    <2> QED BY <1>2, <2>2, <2>3, FieldsApart
  <1> HIDE DEF Here
  <1> QED BY <1>1, <1>2

\* The bytes that the C program writes.
LEMMA SerializeIs ==
    ASSUME NEW r, Codable(r)
    PROVE  /\ Serialize(r) \in Seq(Nat) /\ Len(Serialize(r)) = RecordSize
           /\ \A k \in 1 .. 9 : \A j \in 1 .. Widths[k] :
                 Serialize(r)[FieldAt[k] + j] = FieldBytes(r, k)[j]
           /\ \A i \in 1 .. ValuesCount : \A j \in 1 .. 2 :
                 Serialize(r)[40 + 2 * (i - 1) + j] = ValueBytes(r, i)[j]
  <1> DEFINE s == Serialize(r)
  <1>0. RecordSize \in Nat /\ RecordSize > 40
    BY SizesAre
  <1>1. ASSUME NEW k \in 1 .. 9, NEW j \in 1 .. Widths[k]
        PROVE  s[FieldAt[k] + j] = FieldBytes(r, k)[j]
    <2> DEFINE b == FieldAt[k] + j
    <2>1. Offsets[k] = Places[k] /\ FieldAt[k] = Places[k] /\ Places[k] \in 0 .. 36
          /\ Widths[k] \in Nat /\ Places[k] + Widths[k] = Places[k + 1]
      BY OffsetsAre, FieldAtIs, PlacesAdd, WidthsAre
    <2>2. Places[k + 1] <= 40
      BY OneOfNine, PlacesAre
    <2>3. b \in 1 .. 40 /\ b - Offsets[k] = j
      BY <2>1, <2>2
    <2> HIDE DEF b
    <2>4. b \in 1 .. RecordSize /\ ~(b > 40) /\ b - Offsets[k] \in 1 .. Widths[k]
      BY <1>0, <2>3
    <2>5. s[b] = FieldBytes(r, k)[b - Offsets[k]]
      BY <2>4, SerializeAt
    <2> QED BY <2>3, <2>5 DEF b
  <1>2. ASSUME NEW i \in 1 .. ValuesCount, NEW j \in 1 .. 2
        PROVE  s[40 + 2 * (i - 1) + j] = ValueBytes(r, i)[j]
    <2> DEFINE b == 40 + 2 * (i - 1) + j
    <2>0. b \in Int /\ b = 40 + 2 * (i - 1) + j
      OBVIOUS
    <2> HIDE DEF b
    <2>1. b \in 41 .. RecordSize /\ (b - 41) \div 2 + 1 = i /\ ((b - 41) % 2) + 1 = j
      BY <2>0, ValuePlace
    <2>2. b \in 1 .. RecordSize /\ b > 40
      BY <1>0, <2>1
    <2>3. s[b] = ValueBytes(r, (b - 41) \div 2 + 1)[((b - 41) % 2) + 1]
      BY <2>2, SerializeAt
    <2>4. s[b] = ValueBytes(r, i)[j]
      BY <2>1, <2>3
    <2> QED BY <2>4 DEF b
  <1>3. ASSUME NEW b \in 1 .. RecordSize PROVE s[b] \in Nat
    <2>1. CASE b > 40
      <3>1. b \in 41 .. RecordSize
        BY <1>0, <2>1
      <3>2. /\ (b - 41) \div 2 + 1 \in 1 .. ValuesCount
            /\ ((b - 41) % 2) + 1 \in 1 .. 2
        BY <3>1, ValueAt
      <3>3. ValueBytes(r, (b - 41) \div 2 + 1)[((b - 41) % 2) + 1] \in Nat
        BY <3>2, ValueBytesTyped, ElementOfSeq
      <3> QED BY <2>1, <3>3, SerializeAt
    <2>2. CASE ~(b > 40)
      <3>0. b \in 1 .. 40
        BY <1>0, <2>2
      <3>1. PICK k \in 1 .. 9 : b - Offsets[k] \in 1 .. Widths[k]
        BY <3>0, FieldsCover
      <3>2. FieldBytes(r, k)[b - Offsets[k]] \in Nat
        BY <3>1, FieldBytesTyped, ElementOfSeq
      <3> QED BY <2>2, <3>1, <3>2, SerializeAt
    <2> QED BY <2>1, <2>2
  <1>4. s = [b \in 1 .. RecordSize |-> s[b]]
    BY DEF Serialize
  <1> HIDE DEF s
  <1>5. s \in [1 .. RecordSize -> Nat]
    BY <1>3, <1>4, Zenon
  <1>6. s \in Seq(Nat) /\ Len(s) = RecordSize
    BY <1>0, <1>5
  <1> QED BY <1>1, <1>2, <1>6 DEF s

\* A part of a sequence, from its elements.
LEMMA PartIs ==
    ASSUME NEW s \in Seq(Nat), NEW t \in Seq(Nat), NEW from \in Nat, NEW n \in Nat,
           Len(t) = n, from + n <= Len(s), \A j \in 1 .. n : s[from + j] = t[j]
    PROVE  SubSeq(s, from + 1, from + n) = t
  <1> DEFINE p == SubSeq(s, from + 1, from + n)
  <1>1. \A i \in from + 1 .. from + n : s[i] \in Nat
    <2>1. \A i \in 1 .. Len(s) : s[i] \in Nat
      BY ElementOfSeq
    <2>2. Len(s) \in Nat
      BY LenProperties
    <2> QED BY <2>1, <2>2
  <1>2. from + 1 \in Int /\ from + n \in Int
    OBVIOUS
  <1>3. /\ p \in Seq(Nat)
        /\ Len(p) = IF from + 1 <= from + n THEN (from + n) - (from + 1) + 1 ELSE 0
        /\ \A i \in 1 .. (from + n) - (from + 1) + 1 : p[i] = s[(from + 1) + i - 1]
    BY <1>1, <1>2, SubSeqProperties
  <1> HIDE DEF p
  <1>4. Len(p) = n
    BY <1>3
  <1>5. \A i \in 1 .. n : p[i] = t[i]
    <2> SUFFICES ASSUME NEW i \in 1 .. n PROVE p[i] = t[i]
      OBVIOUS
    <2>1. i \in 1 .. (from + n) - (from + 1) + 1 /\ (from + 1) + i - 1 = from + i
      OBVIOUS
    <2> QED BY <1>3, <2>1
  <1>6. p = t
    BY <1>3, <1>4, <1>5, SeqEqual
  <1> QED BY <1>6 DEF p

\* The n pieces follow each other in s, and piece i ends at ends[i].
Follow(pieces, n, s, ends) ==
    /\ Len(pieces) = n
    /\ ends[0] = 0
    /\ \A i \in 0 .. n : ends[i] \in 0 .. Len(s)
    /\ \A i \in 1 .. n :
          /\ pieces[i] \in Seq(Nat)
          /\ ends[i] = ends[i - 1] + Len(pieces[i])
          /\ \A j \in 1 .. Len(pieces[i]) : s[ends[i - 1] + j] = pieces[i][j]

\* What FlattenSeq makes of them.
LEMMA FlattenIs ==
    ASSUME NEW n \in Nat \ {0}, NEW s \in Seq(Nat), NEW pieces, NEW ends,
           Follow(pieces, n, s, ends)
    PROVE  FlattenSeq(pieces) = SubSeq(s, 1, ends[n])
  <1>f. /\ Len(pieces) = n
        /\ ends[0] = 0
        /\ \A i \in 0 .. n : ends[i] \in 0 .. Len(s)
        /\ \A i \in 1 .. n :
              /\ pieces[i] \in Seq(Nat)
              /\ ends[i] = ends[i - 1] + Len(pieces[i])
              /\ \A j \in 1 .. Len(pieces[i]) : s[ends[i - 1] + j] = pieces[i][j]
    BY Zenon DEF Follow
  <1> DEFINE f == [i \in 1 .. n |-> SubSeq(s, 1, ends[i])]
  <1>0. Len(s) \in Nat /\ \A i \in 1 .. Len(s) : s[i] \in Nat
    BY LenProperties, ElementOfSeq
  <1>1. ASSUME NEW i \in 0 .. n
        PROVE  /\ SubSeq(s, 1, ends[i]) \in Seq(Nat)
               /\ Len(SubSeq(s, 1, ends[i])) = ends[i]
               /\ \A j \in 1 .. ends[i] : SubSeq(s, 1, ends[i])[j] = s[j]
               /\ ends[i] \in Nat
    <2> DEFINE e == ends[i]
    <2>1. e \in Nat /\ e <= Len(s)
      BY <1>0, <1>f
    <2> HIDE DEF e
    <2>2. \A j \in 1 .. e : s[j] \in Nat
      BY <1>0, <2>1
    <2>3. /\ SubSeq(s, 1, e) \in Seq(Nat)
          /\ Len(SubSeq(s, 1, e)) = IF 1 <= e THEN e - 1 + 1 ELSE 0
          /\ \A j \in 1 .. e - 1 + 1 : SubSeq(s, 1, e)[j] = s[1 + j - 1]
      BY <2>1, <2>2, SubSeqProperties
    <2>4. Len(SubSeq(s, 1, e)) = e
      BY <2>1, <2>3
    <2>5. \A j \in 1 .. e : SubSeq(s, 1, e)[j] = s[j]
      <3> SUFFICES ASSUME NEW j \in 1 .. e PROVE SubSeq(s, 1, e)[j] = s[j]
        OBVIOUS
      <3>1. j \in 1 .. e - 1 + 1 /\ 1 + j - 1 = j
        BY <2>1
      <3> QED BY <2>3, <3>1
    <2> QED BY <2>1, <2>3, <2>4, <2>5 DEF e
  <1>2. ASSUME NEW i \in 1 .. n
        PROVE  SubSeq(s, 1, ends[i]) = SubSeq(s, 1, ends[i - 1]) \o pieces[i]
    <2> DEFINE a == SubSeq(s, 1, ends[i - 1])
               b == pieces[i]
               c == SubSeq(s, 1, ends[i])
               m == ends[i - 1]
    <2>0. i - 1 \in 0 .. n /\ i \in 0 .. n
      OBVIOUS
    <2>1. /\ a \in Seq(Nat) /\ Len(a) = m /\ m \in Nat
          /\ \A j \in 1 .. m : a[j] = s[j]
      BY <1>1, <2>0
    <2>2. /\ b \in Seq(Nat) /\ Len(b) \in Nat /\ ends[i] = m + Len(b)
          /\ \A j \in 1 .. Len(b) : s[m + j] = b[j]
      BY <1>f, LenProperties
    <2>3. /\ c \in Seq(Nat) /\ Len(c) = m + Len(b)
          /\ \A j \in 1 .. m + Len(b) : c[j] = s[j]
      BY <1>1, <2>0, <2>2
    <2> HIDE DEF a, b, c, m
    <2>4. /\ a \o b \in Seq(Nat) /\ Len(a \o b) = m + Len(b)
          /\ \A j \in 1 .. m + Len(b) : (a \o b)[j] = IF j <= m THEN a[j] ELSE b[j - m]
      <3>1. /\ a \o b \in Seq(Nat) /\ Len(a \o b) = Len(a) + Len(b)
            /\ \A j \in 1 .. Len(a) + Len(b) :
                  (a \o b)[j] = IF j <= Len(a) THEN a[j] ELSE b[j - Len(a)]
        <4>1. a \in Seq(Nat) /\ b \in Seq(Nat)
          BY <2>1, <2>2
        <4> QED BY <4>1, ConcatProperties
      <3> QED BY <2>1, <3>1, Zenon
    <2>5. ASSUME NEW j \in 1 .. m + Len(b) PROVE c[j] = (a \o b)[j]
      <3>1. CASE j <= m
        <4>1. j \in 1 .. m
          BY <2>1, <3>1
        <4> QED BY <2>1, <2>3, <2>4, <3>1, <4>1
      <3>2. CASE ~(j <= m)
        <4>1. j - m \in 1 .. Len(b) /\ m + (j - m) = j
          BY <2>1, <2>2, <3>2
        <4>2. s[j] = b[j - m]
          BY <2>2, <4>1
        <4> QED BY <2>3, <2>4, <3>2, <4>2
      <3> QED BY <3>1, <3>2
    <2>6. c = a \o b
      <3>1. Len(c) = Len(a \o b) /\ \A j \in 1 .. Len(c) : c[j] = (a \o b)[j]
        BY <2>3, <2>4, <2>5
      <3> QED BY <2>3, <2>4, <3>1, SeqEqual
    <2> QED BY <2>6 DEF a, b, c
  <1>3. SubSeq(s, 1, ends[1]) = pieces[1]
    <2>1. 1 \in 1 .. n /\ 1 - 1 = 0 /\ 0 + 1 = 1
      OBVIOUS
    <2>2. /\ pieces[1] \in Seq(Nat) /\ Len(pieces[1]) \in Nat /\ ends[1] = 0 + Len(pieces[1])
          /\ \A j \in 1 .. Len(pieces[1]) : s[0 + j] = pieces[1][j]
      <3>1. /\ pieces[1] \in Seq(Nat) /\ ends[1] = ends[1 - 1] + Len(pieces[1])
            /\ \A j \in 1 .. Len(pieces[1]) : s[ends[1 - 1] + j] = pieces[1][j]
        BY <1>f, <2>1, Zenon
      <3>2. Len(pieces[1]) \in Nat
        BY <3>1, LenProperties
      <3>3. ends[1 - 1] = 0
        BY <1>f, <2>1, Zenon
      <3> QED BY <3>1, <3>2, <3>3, Zenon
    <2>3. 0 + Len(pieces[1]) <= Len(s)
      BY <1>f, <2>1, <2>2, <1>0
    <2>4. SubSeq(s, 0 + 1, 0 + Len(pieces[1])) = pieces[1]
      <3> DEFINE t == pieces[1]
                 m == Len(pieces[1])
      <3>1. t \in Seq(Nat) /\ m \in Nat /\ Len(t) = m /\ 0 \in Nat /\ 0 + m <= Len(s)
            /\ \A j \in 1 .. m : s[0 + j] = t[j]
        BY <2>2, <2>3
      <3> HIDE DEF t, m
      <3>2. SubSeq(s, 0 + 1, 0 + m) = t
        BY <3>1, PartIs
      <3> QED BY <3>2 DEF t, m
    <2> QED BY <2>1, <2>2, <2>4
  <1>4. Flattens(f, pieces, n)
    <2>1. ASSUME NEW i \in 1 .. n
          PROVE  f[i] = IF i = 1 THEN pieces[i] ELSE f[i - 1] \o pieces[i]
      <3>1. CASE i = 1
        BY <1>3, <3>1
      <3>2. CASE i # 1
        <4>1. i - 1 \in 1 .. n
          BY <3>2
        <4> QED BY <1>2, <3>2, <4>1
      <3> QED BY <3>1, <3>2
    <2>2. f = [i \in 1 .. n |-> f[i]]
      BY Zenon
    <2> HIDE DEF f
    <2>3. f = [i \in 1 .. n |-> IF i = 1 THEN pieces[i] ELSE f[i - 1] \o pieces[i]]
      BY <2>1, <2>2, Zenon
    <2> QED BY <2>3, Zenon DEF Flattens
  <1>5. PICK g : Flattens(g, pieces, n) /\ FlattenSeq(pieces) = g[n]
    BY <1>f, FlattenedBy
  <1>6. f[n] = SubSeq(s, 1, ends[n])
    <2>1. n \in 1 .. n
      OBVIOUS
    <2> QED BY <2>1, Zenon
  <1> HIDE DEF f
  <1>7. \A i \in 1 .. n : f[i] = g[i]
    <2>1. n \in Nat /\ n <= n /\ \A i \in 1 .. n : pieces[i] = pieces[i]
      OBVIOUS
    <2> QED BY <1>4, <1>5, <2>1, FlattensUnique
  <1> QED BY <1>5, <1>6, <1>7

\* The encoders agree: what struct.pack makes is what the C program writes.
LEMMA EncodersAgree ==
    ASSUME NEW r, Codable(r), DOMAIN r.values = 1 .. ValuesCount
    PROVE  Encode(r) = Serialize(r)
  <1> DEFINE s == Serialize(r)
             fields == [k \in DOMAIN Fields |-> LittleEndian(r[Fields[k]], Widths[k])]
             vals == [i \in DOMAIN r.values |-> LittleEndian(r.values[i], 2)]
             fieldEnds == [k \in 0 .. 9 |-> Places[k + 1]]
             valEnds == [i \in 0 .. ValuesCount |-> 2 * i]
             tail == SubSeq(s, 41, RecordSize)
  <1>0. ValuesCount \in Nat \ {0} /\ RecordSize = 40 + 2 * ValuesCount /\ RecordSize \in Nat
    BY SizesAre
  <1>1. Encode(r) = FlattenSeq(fields) \o FlattenSeq(vals)
    BY Zenon DEF Encode
  <1>2. /\ s \in Seq(Nat) /\ Len(s) = RecordSize
        /\ \A k \in 1 .. 9 : \A j \in 1 .. Widths[k] : s[FieldAt[k] + j] = FieldBytes(r, k)[j]
        /\ \A i \in 1 .. ValuesCount : \A j \in 1 .. 2 :
              s[40 + 2 * (i - 1) + j] = ValueBytes(r, i)[j]
    BY SerializeIs
  <1>3. \A k \in 1 .. 9 : fields[k] = FieldBytes(r, k)
    BY NineFields, Zenon DEF FieldBytes
  <1>4. Len(fields) = 9
    BY NineFields
  <1>5. \A i \in 1 .. ValuesCount : vals[i] = ValueBytes(r, i)
    BY Zenon DEF ValueBytes
  <1>6. Len(vals) = ValuesCount
    BY <1>0
  <1>7. \A k \in 0 .. 9 : fieldEnds[k] = Places[k + 1]
    OBVIOUS
  <1>8. \A i \in 0 .. ValuesCount : valEnds[i] = 2 * i
    OBVIOUS
  <1> HIDE DEF s, fields, vals, fieldEnds, valEnds
  <1>9. FlattenSeq(fields) = SubSeq(s, 1, 40)
    <2>1. fieldEnds[0] = 0 /\ fieldEnds[9] = 40
      BY <1>7, PlacesAre
    <2>2. \A k \in 0 .. 9 : fieldEnds[k] \in 0 .. Len(s)
      <3> SUFFICES ASSUME NEW k \in 0 .. 9 PROVE fieldEnds[k] \in 0 .. Len(s)
        OBVIOUS
      <3>1. CASE k = 0
        <4>1. 0 \in 0 .. Len(s)
          BY <1>0, <1>2
        <4> QED BY <2>1, <3>1, <4>1, Zenon
      <3>2. CASE k # 0
        <4>1. k \in 1 .. 9
          BY <3>2
        <4>3. fieldEnds[k] = Places[k + 1]
          BY <1>7
        <4>4. Len(s) \in Nat /\ Len(s) >= 40
          BY <1>0, <1>2
        <4>6. Places[k + 1] \in 0 .. 40
          <5>1. CASE k = 9
            BY <5>1, PlacesAre
          <5>2. CASE k # 9
            <6>1. k + 1 \in 1 .. 9
              BY <4>1, <5>2
            <6>2. Places[k + 1] \in 0 .. 36
              BY <6>1, PlacesAdd, Zenon
            <6>3. \A x \in 0 .. 36 : x \in 0 .. 40
              OBVIOUS
            <6> QED BY <6>2, <6>3, Zenon
          <5> QED BY <5>1, <5>2
        <4>7. \A x \in 0 .. 40 : x \in 0 .. Len(s)
          BY <4>4
        <4> QED BY <4>3, <4>6, <4>7
      <3> QED BY <3>1, <3>2
    <2>3. ASSUME NEW k \in 1 .. 9
          PROVE  /\ fields[k] \in Seq(Nat)
                 /\ fieldEnds[k] = fieldEnds[k - 1] + Len(fields[k])
                 /\ \A j \in 1 .. Len(fields[k]) : s[fieldEnds[k - 1] + j] = fields[k][j]
      <3>1. fields[k] \in Seq(Nat) /\ Len(fields[k]) = Widths[k] /\ fields[k] = FieldBytes(r, k)
        BY <1>3, FieldBytesTyped
      <3>2. k - 1 \in 0 .. 9 /\ k \in 0 .. 9 /\ k - 1 + 1 = k /\ k \in 1 .. 10
        OBVIOUS
      <3>3. fieldEnds[k - 1] = Places[k] /\ fieldEnds[k] = Places[k + 1]
        BY <1>7, <3>2
      <3>4. FieldAt[k] = Places[k] /\ Places[k] + Widths[k] = Places[k + 1]
        BY <3>2, FieldAtIs, PlacesAdd
      <3>5. \A j \in 1 .. Widths[k] : s[Places[k] + j] = fields[k][j]
        BY <1>2, <3>1, <3>4
      <3> QED BY <3>1, <3>3, <3>4, <3>5
    <2>4. FlattenSeq(fields) = SubSeq(s, 1, fieldEnds[9])
      <3>1. PICK n \in Nat \ {0} : n = 9
        OBVIOUS
      <3>2. Follow(fields, n, s, fieldEnds)
        BY <1>4, <2>1, <2>2, <2>3, <3>1, Zenon DEF Follow
      <3>3. s \in Seq(Nat)
        BY <1>2
      <3>4. FlattenSeq(fields) = SubSeq(s, 1, fieldEnds[n])
        BY <3>2, <3>3, FlattenIs, Zenon
      <3> QED BY <3>1, <3>4
    <2> QED BY <2>1, <2>4
  <1>10. /\ tail \in Seq(Nat) /\ Len(tail) = 2 * ValuesCount
         /\ \A j \in 1 .. 2 * ValuesCount : tail[j] = s[40 + j]
    <2>1. \A i \in 1 .. RecordSize : s[i] \in Nat
      BY <1>2, ElementOfSeq
    <2>2. 41 \in Int /\ RecordSize \in Int /\ \A i \in 41 .. RecordSize : s[i] \in Nat
      BY <1>0, <2>1
    <2>3. /\ tail \in Seq(Nat)
          /\ Len(tail) = IF 41 <= RecordSize THEN RecordSize - 41 + 1 ELSE 0
          /\ \A j \in 1 .. RecordSize - 41 + 1 : tail[j] = s[41 + j - 1]
      BY <2>2, SubSeqProperties
    <2> HIDE DEF tail
    <2>4. Len(tail) = 2 * ValuesCount
      BY <1>0, <2>3
    <2>5. ASSUME NEW j \in 1 .. 2 * ValuesCount PROVE tail[j] = s[40 + j]
      <3>1. j \in 1 .. RecordSize - 41 + 1 /\ 41 + j - 1 = 40 + j
        BY <1>0
      <3> QED BY <2>3, <3>1
    <2> QED BY <2>3, <2>4, <2>5
  <1>11. SubSeq(s, 1, 40) \o tail = s
    <2>1. /\ SubSeq(s, 1, 40) \in Seq(Nat) /\ Len(SubSeq(s, 1, 40)) = 40
          /\ \A j \in 1 .. 40 : SubSeq(s, 1, 40)[j] = s[j]
      <3>1. \A i \in 1 .. RecordSize : s[i] \in Nat
        BY <1>2, ElementOfSeq
      <3>2. 1 \in Int /\ 40 \in Int /\ \A i \in 1 .. 40 : s[i] \in Nat
        <4>1. \A i \in 1 .. 40 : i \in 1 .. RecordSize
          BY <1>0
        <4> QED BY <3>1, <4>1
      <3>3. /\ SubSeq(s, 1, 40) \in Seq(Nat)
            /\ Len(SubSeq(s, 1, 40)) = IF 1 <= 40 THEN 40 - 1 + 1 ELSE 0
            /\ \A j \in 1 .. 40 - 1 + 1 : SubSeq(s, 1, 40)[j] = s[1 + j - 1]
        BY <3>2, SubSeqProperties
      <3>4. \A j \in 1 .. 40 : j \in 1 .. 40 - 1 + 1 /\ 1 + j - 1 = j
        OBVIOUS
      <3> QED BY <3>3, <3>4
    <2> DEFINE a == SubSeq(s, 1, 40)
    <2> HIDE DEF a, tail
    <2>2. /\ a \o tail \in Seq(Nat) /\ Len(a \o tail) = Len(a) + Len(tail)
          /\ \A j \in 1 .. Len(a) + Len(tail) :
                (a \o tail)[j] = IF j <= Len(a) THEN a[j] ELSE tail[j - Len(a)]
      <3>1. a \in Seq(Nat) /\ tail \in Seq(Nat)
        BY <1>10, <2>1 DEF a
      <3> QED BY <3>1, ConcatProperties, Zenon
    <2>3. Len(a) = 40 /\ \A j \in 1 .. 40 : a[j] = s[j]
      BY <2>1 DEF a
    <2>4. Len(a \o tail) = RecordSize
      BY <1>0, <1>10, <2>2, <2>3
    <2>5. ASSUME NEW j \in 1 .. RecordSize PROVE (a \o tail)[j] = s[j]
      <3>1. (a \o tail)[j] = IF j <= 40 THEN a[j] ELSE tail[j - 40]
        BY <1>0, <1>10, <2>2, <2>3
      <3>2. CASE j <= 40
        <4>1. j \in 1 .. 40
          BY <1>0, <3>2
        <4> QED BY <2>3, <3>1, <3>2, <4>1
      <3>3. CASE ~(j <= 40)
        <4>1. j - 40 \in 1 .. 2 * ValuesCount /\ 40 + (j - 40) = j
          BY <1>0, <3>3
        <4>2. tail[j - 40] = s[j]
          BY <1>10, <4>1
        <4> QED BY <3>1, <3>3, <4>2
      <3> QED BY <3>2, <3>3
    <2>6. Len(a \o tail) = Len(s) /\ \A j \in 1 .. Len(a \o tail) : (a \o tail)[j] = s[j]
      BY <1>2, <2>4, <2>5
    <2>7. a \o tail = s
      BY <1>2, <2>2, <2>6, SeqEqual
    <2> QED BY <2>7 DEF a
  <1>12. FlattenSeq(vals) = tail
    <2> HIDE DEF tail
    <2>1. valEnds[0] = 0 /\ valEnds[ValuesCount] = 2 * ValuesCount
      BY <1>0, <1>8
    <2>2. \A i \in 0 .. ValuesCount : valEnds[i] \in 0 .. Len(tail)
      BY <1>0, <1>8, <1>10
    <2>3. ASSUME NEW i \in 1 .. ValuesCount
          PROVE  /\ vals[i] \in Seq(Nat)
                 /\ valEnds[i] = valEnds[i - 1] + Len(vals[i])
                 /\ \A j \in 1 .. Len(vals[i]) : tail[valEnds[i - 1] + j] = vals[i][j]
      <3>1. vals[i] \in Seq(Nat) /\ Len(vals[i]) = 2 /\ vals[i] = ValueBytes(r, i)
        BY <1>5, ValueBytesTyped
      <3>2. i - 1 \in 0 .. ValuesCount /\ i \in 0 .. ValuesCount /\ i \in Int
        BY <1>0
      <3>3. valEnds[i - 1] = 2 * (i - 1) /\ valEnds[i] = 2 * i
        BY <1>8, <3>2
      <3>4. ASSUME NEW j \in 1 .. 2 PROVE tail[2 * (i - 1) + j] = vals[i][j]
        <4>1. 2 * (i - 1) + j \in 1 .. 2 * ValuesCount
              /\ 40 + (2 * (i - 1) + j) = 40 + 2 * (i - 1) + j
          BY <1>0
        <4>2. tail[2 * (i - 1) + j] = s[40 + 2 * (i - 1) + j]
          BY <1>10, <4>1
        <4>3. s[40 + 2 * (i - 1) + j] = ValueBytes(r, i)[j]
          BY <1>2
        <4> QED BY <3>1, <4>2, <4>3
      <3> QED BY <3>1, <3>2, <3>3, <3>4
    <2>4. FlattenSeq(vals) = SubSeq(tail, 1, valEnds[ValuesCount])
      <3>1. Follow(vals, ValuesCount, tail, valEnds)
        BY <1>6, <2>1, <2>2, <2>3, Zenon DEF Follow
      <3> QED BY <1>0, <1>10, <3>1, FlattenIs, Zenon
    <2>5. SubSeq(tail, 0 + 1, 0 + 2 * ValuesCount) = tail
      <3>1. 0 \in Nat /\ 2 * ValuesCount \in Nat /\ 0 + 2 * ValuesCount <= Len(tail)
            /\ \A j \in 1 .. 2 * ValuesCount : tail[0 + j] = tail[j]
        BY <1>0, <1>10
      <3> QED BY <1>10, <3>1, PartIs
    <2>6. 0 + 1 = 1 /\ 0 + 2 * ValuesCount = 2 * ValuesCount
      BY <1>0
    <2> QED BY <2>1, <2>4, <2>5, <2>6
  <1> QED BY <1>1, <1>9, <1>11, <1>12 DEF s
-------------------------------------------------------------------------------
(***************************************************************************)
(* What the decoder makes of the bytes.                                    *)
(***************************************************************************)
Keys == ToSet(Fields) \cup {"values"}

LEMMA FieldsDiffer ==
    /\ ToSet(Fields) = {Fields[k] : k \in 1 .. 9}
    /\ \A k \in 1 .. 9 : \A m \in 1 .. 9 : Fields[k] = Fields[m] => k = m
    /\ \A k \in 1 .. 9 : Fields[k] # "values"
  <1>1. ToSet(Fields) = {Fields[k] : k \in 1 .. 9}
    BY NineFields DEF ToSet
  <1>2. ASSUME NEW k \in 1 .. 9, NEW m \in 1 .. 9, Fields[k] = Fields[m] PROVE k = m
    BY <1>2, OneOfNine DEF Fields
  <1>3. ASSUME NEW k \in 1 .. 9 PROVE Fields[k] # "values"
    BY OneOfNine DEF Fields
  <1> QED BY <1>1, <1>2, <1>3

LEMMA FieldChosen ==
    ASSUME NEW k \in 1 .. 9
    PROVE  (CHOOSE m \in DOMAIN Fields : Fields[m] = Fields[k]) = k
  <1> DEFINE c == CHOOSE m \in DOMAIN Fields : Fields[m] = Fields[k]
  <1>1. k \in DOMAIN Fields
    BY NineFields
  <1>2. c \in DOMAIN Fields /\ Fields[c] = Fields[k]
    BY <1>1, Zenon
  <1> HIDE DEF c
  <1>3. c \in 1 .. 9
    BY <1>2, NineFields
  <1>4. c = k
    BY <1>2, <1>3, FieldsDiffer
  <1> QED BY <1>4 DEF c

\* A record with the fields of a record and no more.
IsRecord(r) ==
    /\ r = [f \in Keys |-> r[f]]
    /\ r.values = [i \in 1 .. ValuesCount |-> r.values[i]]

\* The record that was encoded comes back.
LEMMA UnpackedIs ==
    ASSUME NEW r, IsRecord(r), Codable(r), ValidRecord(r)
    PROVE  Unpacked(Serialize(r)) = r
  <1> DEFINE s == Serialize(r)
             u == Unpacked(s)
             Part(from, bytes) == SubSeq(s, from + 1, from + bytes)
             Field(k) == IF Fields[k] \in Signed
                         THEN TwosComplement(Part(FieldAt[k], Widths[k]))
                         ELSE Unsigned(Part(FieldAt[k], Widths[k]))
  <1>1. u = [f \in Keys |->
                IF f = "values"
                THEN [i \in 1 .. ValuesCount |-> Unsigned(Part(HeaderSize + 2 * (i - 1), 2))]
                ELSE Field(CHOOSE k \in DOMAIN Fields : Fields[k] = f)]
    BY Zenon DEF Unpacked, Keys
  <1>2. /\ s \in Seq(Nat) /\ Len(s) = RecordSize
        /\ \A k \in 1 .. 9 : \A j \in 1 .. Widths[k] : s[FieldAt[k] + j] = FieldBytes(r, k)[j]
        /\ \A i \in 1 .. ValuesCount : \A j \in 1 .. 2 :
              s[40 + 2 * (i - 1) + j] = ValueBytes(r, i)[j]
    BY SerializeIs
  <1>3. ASSUME NEW k \in 1 .. 9
        PROVE  Part(FieldAt[k], Widths[k]) = FieldBytes(r, k)
    <2> DEFINE from == FieldAt[k]
               n == Widths[k]
               t == FieldBytes(r, k)
    <2>1. from = Places[k] /\ Places[k] \in 0 .. 36 /\ n \in Nat
          /\ Places[k] + n = Places[k + 1]
      BY FieldAtIs, PlacesAdd, WidthsAre
    <2>2. Places[k + 1] <= 40
      BY OneOfNine, PlacesAre
    <2>3. from \in Nat /\ from + n <= Len(s)
      <3>1. Len(s) \in Nat /\ 40 <= Len(s)
        BY <1>2, SizesAre
      <3>2. \A x \in 0 .. 36, m \in Nat, l \in Nat :
              x + m <= 40 /\ 40 <= l => x \in Nat /\ x + m <= l
        OBVIOUS
      <3>3. from \in 0 .. 36 /\ n \in Nat /\ from + n <= 40
        BY <2>1, <2>2, Zenon
      <3> HIDE DEF from, n, s
      <3> QED BY <3>1, <3>2, <3>3
    <2>4. t \in Seq(Nat) /\ Len(t) = n /\ \A j \in 1 .. n : s[from + j] = t[j]
      BY <1>2, FieldBytesTyped
    <2>5. s \in Seq(Nat)
      BY <1>2
    <2> HIDE DEF from, n, t, s
    <2>6. SubSeq(s, from + 1, from + n) = t
      BY <2>1, <2>3, <2>4, <2>5, PartIs
    <2> QED BY <2>6 DEF from, n, t
  <1>4. ASSUME NEW i \in 1 .. ValuesCount
        PROVE  Part(HeaderSize + 2 * (i - 1), 2) = ValueBytes(r, i)
    <2> DEFINE from == HeaderSize + 2 * (i - 1)
               t == ValueBytes(r, i)
    <2>1. from = 40 + 2 * (i - 1) /\ from \in Nat /\ from + 2 <= Len(s)
      BY <1>2, SizesAre
    <2>2. t \in Seq(Nat) /\ Len(t) = 2 /\ \A j \in 1 .. 2 : s[from + j] = t[j]
      <3>1. t \in Seq(Nat) /\ Len(t) = 2
        BY ValueBytesTyped
      <3>2. \A j \in 1 .. 2 : s[40 + 2 * (i - 1) + j] = t[j]
        BY <1>2
      <3> HIDE DEF t, s, from
      <3> QED BY <2>1, <3>1, <3>2
    <2>3. s \in Seq(Nat) /\ 2 \in Nat
      BY <1>2
    <2> HIDE DEF from, t, s
    <2>4. SubSeq(s, from + 1, from + 2) = t
      BY <2>1, <2>2, <2>3, PartIs
    <2> QED BY <2>4 DEF from, t
  <1> HIDE DEF s, Part
  <1>5. ASSUME NEW k \in 1 .. 9 PROVE Field(k) = r[Fields[k]]
    <2>1. r[Fields[k]] \in FieldSet(k) /\ Widths[k] \in {2, 4, 8}
      BY NineFields, WidthsAre DEF ValidRecord
    <2>2. CASE Fields[k] \in Signed
      <3>1. r[Fields[k]] \in Sint(Widths[k])
        BY <2>1, <2>2, Zenon DEF FieldSet
      <3>2. TwosComplement(FieldBytes(r, k)) = r[Fields[k]]
        BY <2>1, <3>1, SignedFits, Zenon DEF FieldBytes
      <3> QED BY <1>3, <2>2, <3>2, Zenon
    <2>3. CASE Fields[k] \notin Signed
      <3>1. r[Fields[k]] \in Uint(Widths[k])
        BY <2>1, <2>3, Zenon DEF FieldSet
      <3>2. Unsigned(FieldBytes(r, k)) = r[Fields[k]]
        BY <2>1, <3>1, UnsignedFits, Zenon DEF FieldBytes
      <3> QED BY <1>3, <2>3, <3>2, Zenon
    <2> QED BY <2>2, <2>3, Zenon
  <1>6. ASSUME NEW i \in 1 .. ValuesCount
        PROVE  Unsigned(Part(HeaderSize + 2 * (i - 1), 2)) = r.values[i]
    <2>1. r.values[i] \in Uint(2)
      <3>1. DOMAIN r.values = 1 .. ValuesCount
        BY DEF IsRecord
      <3>2. r.values[i] \in ToSet(r.values)
        BY <3>1 DEF ToSet
      <3> QED BY <3>2 DEF ValidRecord, ValidValues
    <2>2. 2 \in {2, 4, 8}
      OBVIOUS
    <2>3. Unsigned(ValueBytes(r, i)) = r.values[i]
      BY <2>1, <2>2, UnsignedFits, Zenon DEF ValueBytes
    <2> QED BY <1>4, <2>3, Zenon
  <1>7. ASSUME NEW f \in Keys PROVE u[f] = r[f]
    <2>1. CASE f = "values"
      <3>1. u[f] = [i \in 1 .. ValuesCount |-> Unsigned(Part(HeaderSize + 2 * (i - 1), 2))]
        BY <1>1, <2>1, Zenon
      <3>2. [i \in 1 .. ValuesCount |-> Unsigned(Part(HeaderSize + 2 * (i - 1), 2))]
              = [i \in 1 .. ValuesCount |-> r.values[i]]
        BY <1>6, Zenon
      <3>3. r.values = [i \in 1 .. ValuesCount |-> r.values[i]]
        BY Zenon DEF IsRecord
      <3> QED BY <2>1, <3>1, <3>2, <3>3, Zenon
    <2>2. CASE f # "values"
      <3>1. PICK k \in 1 .. 9 : f = Fields[k]
        BY <2>2, FieldsDiffer DEF Keys
      <3>2. u[f] = Field(CHOOSE m \in DOMAIN Fields : Fields[m] = f)
        BY <1>1, <2>2, Zenon
      <3> HIDE DEF Field, u
      <3>3. (CHOOSE m \in DOMAIN Fields : Fields[m] = f) = k
        BY <3>1, FieldChosen, Zenon
      <3> QED BY <1>5, <3>1, <3>2, <3>3, Zenon
    <2> QED BY <2>1, <2>2, Zenon
  <1>8. u = [f \in Keys |-> u[f]]
    BY <1>1, Zenon
  <1> HIDE DEF u, Field
  <1>9. u = [f \in Keys |-> r[f]]
    BY <1>7, <1>8, Zenon
  <1> QED BY <1>9, Zenon DEF IsRecord, u, s

\* The consumer decodes what either program encodes, and archives it.
LEMMA DecodedIs ==
    ASSUME NEW r, IsRecord(r), Codable(r), ValidRecord(r)
    PROVE  /\ Decode(Serialize(r)) = [valid |-> TRUE, record |-> r]
           /\ Encode(r) = Serialize(r)
           /\ Row(r) = r
  <1>1. Unpacked(Serialize(r)) = r
    BY UnpackedIs
  <1>2. Len(Serialize(r)) = RecordSize
    BY SerializeIs
  <1>3. DOMAIN r.values = 1 .. ValuesCount
    BY DEF IsRecord
  <1>4. Row(r) = r
    BY Zenon DEF Row, IsRecord, Keys
  <1>5. Encode(r) = Serialize(r)
    BY <1>3, EncodersAgree
  <1>6. Decode(Serialize(r)) = [valid |-> TRUE, record |-> r]
    BY <1>1, <1>2, Zenon DEF Decode
  <1> QED BY <1>4, <1>5, <1>6
-------------------------------------------------------------------------------
(***************************************************************************)
(* What the C program reads of a row.                                      *)
(***************************************************************************)
LEMMA StrtoullIs ==
    ASSUME NEW t \in Int
    PROVE  /\ t >= 0 /\ (Strtoull(t) \in Uint(2) \/ Strtoull(t) \in Uint(4) \/ ULLong(t))
                => Strtoull(t) = t
           /\ t \in Uint(2) \/ t \in Uint(4) \/ t \in Uint(8) =>
                 Strtoull(t) = t /\ ULLong(t)
  <1> DEFINE P(k) == Byte ^ k
  <1>1. P(2) \in Nat /\ P(4) \in Nat /\ P(8) \in Nat /\ P(2) > 2
        /\ 2 * P(2) <= P(4) /\ 2 * P(4) <= P(8)
    BY PowersGrow
  <1>2. /\ Uint(2) = 0 .. P(2) - 1 /\ Uint(4) = 0 .. P(4) - 1 /\ Uint(8) = 0 .. P(8) - 1
    BY DEF Uint
  <1>3. Strtoull(t) = IF ULLong(t) THEN t % P(8) ELSE P(8) - 1
    BY DEF Strtoull
  <1>4. t >= 0 => (ULLong(t) <=> t \in 0 .. P(8) - 1)
    <2>1. t >= 0 => Magnitude(t) = t
      BY DEF Magnitude
    <2> HIDE DEF P
    <2> QED BY <1>2, <2>1, Zenon DEF ULLong
  <1> HIDE DEF P
  <1>5. t \in 0 .. P(8) - 1 => t % P(8) = t
    <2> SUFFICES ASSUME t \in 0 .. P(8) - 1 PROVE t % P(8) = t
      OBVIOUS
    <2>1. P(8) \in Nat \ {0} /\ P(8) * 0 + t = t
      BY <1>1
    <2>2. (P(8) * 0 + t) % P(8) = t
      BY <2>1, DivUnique
    <2> QED BY <2>1, <2>2
  <1>6. CASE t >= 0
    BY <1>1, <1>2, <1>3, <1>4, <1>5, <1>6
  <1>7. CASE ~(t >= 0)
    BY <1>1, <1>2, <1>7
  <1> QED BY <1>6, <1>7

LEMMA StrtollIs ==
    ASSUME NEW t \in Int, Strtoll(t) \in Sint(4) \/ t \in Sint(4)
    PROVE  Strtoll(t) = t
  <1> DEFINE h4 == Byte ^ 4 \div 2
             h8 == Byte ^ 8 \div 2
  <1>1. h4 \in Int /\ h8 \in Int /\ h4 < h8
    <2> DEFINE p4 == Byte ^ 4
               p8 == Byte ^ 8
    <2>1. p4 \in Nat /\ p8 \in Nat /\ p4 > 2 /\ 2 * p4 <= p8
      BY PowersGrow
    <2> HIDE DEF p4, p8
    <2>2. p4 \div 2 \in Int /\ p8 \div 2 \in Int /\ p4 \div 2 < p8 \div 2
      BY <2>1
    <2> QED BY <2>2 DEF p4, p8
  <1>2. Sint(4) = -h4 .. h4 - 1 /\ Sint(8) = -h8 .. h8 - 1
    BY DEF Sint
  <1>3. Strtoll(t) = IF t \in Sint(8) THEN t ELSE IF t < 0 THEN -h8 ELSE h8 - 1
    BY DEF Strtoll
  <1> HIDE DEF h4, h8
  <1> QED BY <1>1, <1>2, <1>3

\* A field of the row that passes its checks is read as it is written, unless a
\* minus sign stands in a column without a sign; and a field in range passes.
LEMMA ParsedIs ==
    ASSUME NEW k \in 1 .. 9, NEW t \in Int
    PROVE  /\ Parsed(k, t) \in FieldSet(k) /\ (Widths[k] = 8 => ULLong(t))
              /\ (Fields[k] \notin Signed => t >= 0) => Parsed(k, t) = t
           /\ t \in FieldSet(k) => Parsed(k, t) = t /\ (Widths[k] = 8 => ULLong(t))
  <1>1. CASE Fields[k] \in Signed
    <2>1. Widths[k] = 4
      BY <1>1, OneOfNine DEF Fields, Signed, Widths
    <2>2. FieldSet(k) = Sint(4) /\ Parsed(k, t) = Strtoll(t)
      BY <1>1, <2>1 DEF FieldSet, Parsed
    <2>3. Strtoll(t) \in Sint(4) \/ t \in Sint(4) => Strtoll(t) = t
      BY StrtollIs
    <2> QED BY <2>1, <2>2, <2>3
  <1>2. CASE Fields[k] \notin Signed
    <2>1. FieldSet(k) = Uint(Widths[k]) /\ Parsed(k, t) = Strtoull(t)
      BY <1>2 DEF FieldSet, Parsed
    <2>2. Widths[k] = 2 \/ Widths[k] = 4 \/ Widths[k] = 8
      BY WidthsAre
    <2> QED BY <1>2, <2>1, <2>2, StrtoullIs
  <1> QED BY <1>1, <1>2

\* A row of the file: numbers, as many as a record has.
IsRow(r) ==
    /\ IsRecord(r)
    /\ \A k \in 1 .. 9 : r[Fields[k]] \in Int
    /\ \A i \in 1 .. ValuesCount : r.values[i] \in Int

LEMMA CsvRecordAt ==
    ASSUME NEW r, IsRow(r)
    PROVE  /\ IsRecord(CsvRecord(r))
           /\ \A k \in 1 .. 9 : CsvRecord(r)[Fields[k]] = Parsed(k, r[Fields[k]])
           /\ \A i \in 1 .. ValuesCount : CsvRecord(r).values[i] = Strtoull(r.values[i])
  <1> DEFINE c == CsvRecord(r)
             Read(f) == Parsed(CHOOSE k \in DOMAIN Fields : Fields[k] = f, r[f])
  <1>1. c = [f \in Keys |->
                IF f = "values" THEN [i \in DOMAIN r.values |-> Strtoull(r.values[i])]
                ELSE Read(f)]
    BY Zenon DEF CsvRecord, Keys
  <1>2. DOMAIN r.values = 1 .. ValuesCount
    BY DEF IsRow, IsRecord
  <1>3. "values" \in Keys
    BY DEF Keys
  <1>4. c["values"] = [i \in 1 .. ValuesCount |-> Strtoull(r.values[i])]
    BY <1>1, <1>2, <1>3, Zenon
  <1>5. ASSUME NEW k \in 1 .. 9 PROVE c[Fields[k]] = Parsed(k, r[Fields[k]])
    <2>1. Fields[k] \in Keys /\ Fields[k] # "values"
      BY FieldsDiffer DEF Keys
    <2>2. c[Fields[k]] = Read(Fields[k])
      BY <1>1, <2>1, Zenon
    <2>3. (CHOOSE m \in DOMAIN Fields : Fields[m] = Fields[k]) = k
      BY FieldChosen
    <2> QED BY <2>2, <2>3, Zenon
  <1>6. c = [f \in Keys |-> c[f]]
    BY <1>1, Zenon
  <1> HIDE DEF c, Read
  <1>7. c.values = [i \in 1 .. ValuesCount |-> c.values[i]]
    BY <1>4, Zenon
  <1>8. \A i \in 1 .. ValuesCount : c.values[i] = Strtoull(r.values[i])
    BY <1>4, Zenon
  <1>9. IsRecord(c)
    BY <1>6, <1>7, Zenon DEF IsRecord
  <1> QED BY <1>5, <1>8, <1>9, Zenon DEF c

LEMMA RowRead ==
    ASSUME NEW r, IsRow(r)
    PROVE  /\ CsvRowOk(r) => IsRecord(CsvRecord(r)) /\ ValidRecord(CsvRecord(r))
           /\ CsvRowOk(r) /\ NoMinus(r) => CsvRecord(r) = r
           /\ ValidRecord(r) => CsvRowOk(r)
  <1> DEFINE c == CsvRecord(r)
  <1>1. /\ IsRecord(c)
        /\ \A k \in 1 .. 9 : c[Fields[k]] = Parsed(k, r[Fields[k]])
        /\ \A i \in 1 .. ValuesCount : c.values[i] = Strtoull(r.values[i])
    BY CsvRecordAt
  <1>2. /\ DOMAIN r.values = 1 .. ValuesCount /\ DOMAIN c.values = 1 .. ValuesCount
        /\ Len(c.values) = ValuesCount /\ ValuesCount \in Nat
    BY <1>1, SizesAre DEF IsRow, IsRecord
  <1>3. DOMAIN Fields = 1 .. 9 /\ Fields[2] = "measurement_type"
    BY NineFields DEF Fields
  <1> HIDE DEF c
  <1>4. ASSUME CsvRowOk(r) PROVE ValidRecord(c)
    <2>1. /\ \A k \in 1 .. 9 : FieldOk(k, r[Fields[k]])
          /\ \A i \in 1 .. ValuesCount : Strtoull(r.values[i]) \in Uint(2)
      BY <1>2, <1>3, <1>4, Zenon DEF CsvRowOk
    <2>2. \A k \in 1 .. 9 : c[Fields[k]] \in FieldSet(k)
      BY <1>1, <2>1, Zenon DEF FieldOk
    <2>3. c.measurement_type \in ValidMeasurementTypes
      <3>1. 2 \in 1 .. 9
        OBVIOUS
      <3>2. FieldOk(2, r[Fields[2]]) /\ c[Fields[2]] = Parsed(2, r[Fields[2]])
        BY <1>1, <2>1, <3>1
      <3>3. c[Fields[2]] \in ValidMeasurementTypes
        BY <1>3, <3>2, Zenon DEF FieldOk
      <3> QED BY <1>3, <3>3, Zenon
    <2>4. ToSet(c.values) \subseteq Uint(2)
      BY <1>1, <1>2, <2>1 DEF ToSet
    <2> QED BY <1>2, <1>3, <2>2, <2>3, <2>4, Zenon DEF ValidRecord, ValidValues
  <1>5. ASSUME CsvRowOk(r), NoMinus(r) PROVE c = r
    <2>1. ASSUME NEW k \in 1 .. 9 PROVE c[Fields[k]] = r[Fields[k]]
      <3>1. FieldOk(k, r[Fields[k]]) /\ (Fields[k] \notin Signed => r[Fields[k]] >= 0)
        BY <1>3, <1>5, Zenon DEF CsvRowOk, NoMinus
      <3>2. r[Fields[k]] \in Int
        BY DEF IsRow
      <3>3. Parsed(k, r[Fields[k]]) = r[Fields[k]]
        BY <3>1, <3>2, ParsedIs DEF FieldOk
      <3> QED BY <1>1, <3>3, Zenon
    <2>2. ASSUME NEW i \in 1 .. ValuesCount PROVE c.values[i] = r.values[i]
      <3>1. Strtoull(r.values[i]) \in Uint(2) /\ r.values[i] >= 0
        BY <1>2, <1>5, Zenon DEF CsvRowOk, NoMinus
      <3>2. r.values[i] \in Int
        BY DEF IsRow
      <3>3. Strtoull(r.values[i]) = r.values[i]
        BY <3>1, <3>2, StrtoullIs
      <3> QED BY <1>1, <3>3, Zenon
    <2>3. c.values = r.values
      <3>1. c.values = [i \in 1 .. ValuesCount |-> c.values[i]]
        BY <1>1, Zenon DEF IsRecord
      <3>2. r.values = [i \in 1 .. ValuesCount |-> r.values[i]]
        BY Zenon DEF IsRow, IsRecord
      <3>3. [i \in 1 .. ValuesCount |-> c.values[i]] = [i \in 1 .. ValuesCount |-> r.values[i]]
        BY <2>2, Zenon
      <3> QED BY <3>1, <3>2, <3>3, Zenon
    <2>4. ASSUME NEW f \in Keys PROVE c[f] = r[f]
      <3>1. f = "values" \/ \E k \in 1 .. 9 : f = Fields[k]
        BY FieldsDiffer DEF Keys
      <3> QED BY <2>1, <2>3, <3>1, Zenon
    <2>5. c = [f \in Keys |-> c[f]] /\ r = [f \in Keys |-> r[f]]
      BY <1>1, Zenon DEF IsRow, IsRecord
    <2> QED BY <2>4, <2>5, Zenon
  <1>6. ASSUME ValidRecord(r) PROVE CsvRowOk(r)
    <2>1. ASSUME NEW k \in 1 .. 9 PROVE FieldOk(k, r[Fields[k]])
      <3>1. r[Fields[k]] \in FieldSet(k) /\ r[Fields[k]] \in Int
        BY <1>3, <1>6, Zenon DEF ValidRecord, IsRow
      <3>2. Parsed(k, r[Fields[k]]) = r[Fields[k]] /\ (Widths[k] = 8 => ULLong(r[Fields[k]]))
        BY <3>1, ParsedIs
      <3>3. Fields[k] = "measurement_type" => r[Fields[k]] \in ValidMeasurementTypes
        BY <1>6, Zenon DEF ValidRecord
      <3> QED BY <3>1, <3>2, <3>3, Zenon DEF FieldOk
    <2>2. ASSUME NEW i \in 1 .. ValuesCount PROVE Strtoull(r.values[i]) \in Uint(2)
      <3>1. r.values[i] \in ToSet(r.values)
        BY <1>2 DEF ToSet
      <3>2. r.values[i] \in Uint(2) /\ r.values[i] \in Int
        BY <1>6, <3>1, Zenon DEF ValidRecord, ValidValues, IsRow
      <3>3. Strtoull(r.values[i]) = r.values[i]
        BY <3>2, StrtoullIs
      <3> QED BY <3>2, <3>3
    <2> QED BY <1>2, <1>3, <2>1, <2>2, Zenon DEF CsvRowOk
  <1> QED BY <1>1, <1>4, <1>5, <1>6, Zenon DEF c

\* A valid record has numbers to encode.
LEMMA ValidCodable ==
    ASSUME NEW r, IsRecord(r), ValidRecord(r)
    PROVE  Codable(r)
  <1>1. ASSUME NEW bytes \in {2, 4, 8} PROVE Uint(bytes) \subseteq Int /\ Sint(bytes) \subseteq Int
    <2>1. Byte ^ bytes \in Nat
      BY PowersGrow
    <2> QED BY <2>1 DEF Uint, Sint
  <1>2. ASSUME NEW k \in 1 .. 9 PROVE r[Fields[k]] \in Int
    <2>1. r[Fields[k]] \in FieldSet(k) /\ Widths[k] \in {2, 4, 8}
      BY NineFields, WidthsAre DEF ValidRecord
    <2>2. FieldSet(k) \subseteq Int
      BY <1>1, <2>1, Zenon DEF FieldSet
    <2> QED BY <2>1, <2>2, Zenon
  <1>3. DOMAIN r.values = 1 .. ValuesCount /\ r.values = [i \in 1 .. ValuesCount |-> r.values[i]]
    BY DEF IsRecord
  <1>4. ASSUME NEW i \in 1 .. ValuesCount PROVE r.values[i] \in Int
    <2>1. r.values[i] \in ToSet(r.values)
      BY <1>3 DEF ToSet
    <2>2. r.values[i] \in Uint(2)
      BY <2>1, Zenon DEF ValidRecord, ValidValues
    <2> QED BY <1>1, <2>2
  <1>5. r.values \in [1 .. ValuesCount -> Int]
    BY <1>3, <1>4, Zenon
  <1>6. r.values \in Seq(Int) /\ Len(r.values) = ValuesCount
    BY <1>5, SizesAre
  <1> QED BY <1>2, <1>6 DEF Codable
-------------------------------------------------------------------------------
(***************************************************************************)
(* The way of a record.                                                    *)
(***************************************************************************)
PathInv ==
    /\ input.program = CProgram => input.row \in Rows
    /\ pc \in {"encode", "receive", "archived"} => IsRecord(record)
    /\ pc \in {"receive", "archived"} => ValidRecord(record) /\ payload = Serialize(record)
    /\ pc = "archived" => row = record
    /\ input.program = CProgram /\ pc \in {"receive", "archived"} =>
          CsvRowOk(input.row) /\ record = CsvRecord(input.row)
    /\ input.program = CProgram /\ pc = "refused" => ~CsvRowOk(input.row)
    /\ pc # "hungup"

LEMMA RowsAre == \A r \in Rows : IsRow(r)
  <1> SUFFICES ASSUME NEW r \in Rows PROVE IsRow(r)
    OBVIOUS
  <1>1. /\ r = [f \in Keys |-> r[f]]
        /\ \A k \in DOMAIN Fields : r[Fields[k]] \in Int
        /\ r.values \in [1 .. ValuesCount -> Int]
    BY RowsAssumption, Zenon DEF Keys
  <1>2. /\ \A i \in 1 .. ValuesCount : r.values[i] \in Int
        /\ r.values = [i \in 1 .. ValuesCount |-> r.values[i]]
    BY <1>1, Zenon
  <1> QED BY <1>1, <1>2, NineFields, Zenon DEF IsRow, IsRecord

LEMMA KeysAre ==
    Keys = {"device_id", "measurement_type", "sequence_number",
            "dropped_records_total", "sensor_timestamp_us", "gps_timestamp_us",
            "gps_latitude_e7", "gps_longitude_e7", "gps_altitude_mm", "values"}
  <1>1. /\ Fields[1] = "device_id" /\ Fields[2] = "measurement_type"
        /\ Fields[3] = "sequence_number" /\ Fields[4] = "dropped_records_total"
        /\ Fields[5] = "sensor_timestamp_us" /\ Fields[6] = "gps_timestamp_us"
        /\ Fields[7] = "gps_latitude_e7" /\ Fields[8] = "gps_longitude_e7"
        /\ Fields[9] = "gps_altitude_mm"
    BY DEF Fields
  <1>2. ToSet(Fields) = {Fields[k] : k \in 1 .. 9}
    BY FieldsDiffer
  <1>3. \A x : x \in ToSet(Fields) <=>
           \/ x = Fields[1] \/ x = Fields[2] \/ x = Fields[3] \/ x = Fields[4] \/ x = Fields[5]
           \/ x = Fields[6] \/ x = Fields[7] \/ x = Fields[8] \/ x = Fields[9]
    BY <1>2, OneOfNine
  <1> QED BY <1>1, <1>3, Zenon DEF Keys

LEMMA GeneratesRecord ==
    ASSUME Generate
    PROVE  IsRecord(record')
  <1>1. PICK r :
          /\ record' = r
          /\ \E now \in Clock, dropped \in DroppedTotals :
                r = [device_id |-> config.device_id,
                     measurement_type |-> config.measurement_type,
                     sequence_number |-> nextSeq,
                     dropped_records_total |-> dropped % Byte ^ 4,
                     sensor_timestamp_us |-> last',
                     gps_timestamp_us |-> last',
                     gps_latitude_e7 |-> Scaled(config.gps_latitude, DegreeE7),
                     gps_longitude_e7 |-> Scaled(config.gps_longitude, DegreeE7),
                     gps_altitude_mm |-> Scaled(config.gps_altitude_m, MetreMm),
                     values |-> SampleValues]
    BY Zenon DEF Generate
  <1>2. r = [f \in Keys |-> r[f]]
    BY <1>1, KeysAre
  <1>3. r.values = SampleValues
    BY <1>1
  <1>4. SampleValues = [i \in 1 .. ValuesCount |-> SampleValues[i]]
    BY Zenon DEF SampleValues
  <1> QED BY <1>1, <1>2, <1>3, <1>4, Zenon DEF IsRecord

LEMMA InitPath == Init => PathInv
  <1> SUFFICES ASSUME Init PROVE PathInv
    OBVIOUS
  <1>1. pc = "start" /\ input \in Inputs \cup [program : {CProgram}, row : Rows]
    BY DEF Init
  <1>2. \A in \in Inputs : in.program # CProgram
    BY RecordPathAssumption DEF CProgram
  <1>3. input.program = CProgram => input.row \in Rows
    BY <1>1, <1>2
  <1> QED BY <1>1, <1>3 DEF PathInv

LEMMA NextPath ==
    ASSUME RunInv, PathInv, [Next]_vars
    PROVE  PathInv'
  <1>1. CASE Load
    BY <1>1 DEF Load, PathInv
  <1>2. CASE StartGenerator
    BY <1>2 DEF StartGenerator, PathInv, CProgram
  <1>3. CASE Generate
    <2>1. pc' = "encode" /\ input' = input
      BY <1>3 DEF Generate
    <2>2. IsRecord(record')
      BY <1>3, GeneratesRecord
    <2> QED BY <2>1, <2>2 DEF PathInv
  <1>4. CASE EncodeRecord
    <2>1. pc = "encode" /\ input.program # CProgram /\ ValidRecord(record) /\ IsRecord(record)
      BY <1>4 DEF EncodeRecord, RunInv, PathInv
    <2>2. payload' = Encode(record) /\ pc' = "receive" /\ UNCHANGED <<input, record>>
      BY <1>4, <2>1 DEF EncodeRecord
    <2>3. Encode(record) = Serialize(record)
      BY <2>1, ValidCodable, DecodedIs
    <2> QED BY <2>1, <2>2, <2>3 DEF PathInv
  <1>5. CASE ConvertRow
    <2>1. /\ input.program = CProgram /\ input' = input
          /\ \/ /\ CsvRowOk(input.row) /\ record' = CsvRecord(input.row)
                /\ payload' = Serialize(record') /\ pc' = "receive"
             \/ ~CsvRowOk(input.row) /\ pc' = "refused"
      BY <1>5 DEF ConvertRow
    <2>2. input.row \in Rows
      BY <2>1 DEF PathInv
    <2>3. CsvRowOk(input.row) =>
            IsRecord(CsvRecord(input.row)) /\ ValidRecord(CsvRecord(input.row))
      BY <2>2, RowsAre, RowRead
    <2> QED BY <2>1, <2>2, <2>3 DEF PathInv
  <1>6. CASE Receive
    <2>1. IsRecord(record) /\ ValidRecord(record) /\ payload = Serialize(record)
      BY <1>6 DEF Receive, PathInv
    <2>2. Decode(payload) = [valid |-> TRUE, record |-> record] /\ Row(record) = record
      BY <2>1, ValidCodable, DecodedIs
    <2>3. FitsRow(record)
      BY <2>1, ValidFits
    <2>4. Decode(payload).valid /\ Decode(payload).record = record
      BY <2>2
    <2>5. row' = record /\ pc' = "archived" /\ UNCHANGED <<input, record, payload>>
      BY <1>6, <2>2, <2>3, <2>4 DEF Receive
    <2>6. pc = "receive"
      BY <1>6 DEF Receive
    <2> QED BY <2>1, <2>5, <2>6 DEF PathInv
  <1>7. CASE NextRecord
    BY <1>7 DEF NextRecord, PathInv, CProgram
  <1>8. CASE UNCHANGED vars
    BY <1>8 DEF vars, PathInv
  <1> QED BY <1>1, <1>2, <1>3, <1>4, <1>5, <1>6, <1>7, <1>8 DEF Next

\* RecordSurvives.  struct.pack and the C serializer write the same bytes,
\* decode_record reads them back, and the Parquet row holds what was meant: the
\* record of the generator, or every number of the CSV row; and the C program
\* refuses a row only if it is no record.
THEOREM RecordsSurvive == Spec => []RecordSurvives
  <1>1. ASSUME PathInv PROVE RecordSurvives
    <2>1. ASSUME input.program = CProgram
          PROVE  IsRow(input.row)
      BY <1>1, <2>1, RowsAre DEF PathInv
    <2>2. ASSUME pc = "archived", NoMinus(Meant) PROVE row = Meant
      <3>1. CASE input.program = CProgram
        <4>1. Meant = input.row /\ row = CsvRecord(input.row) /\ CsvRowOk(input.row)
          BY <1>1, <2>2, <3>1 DEF PathInv, Meant
        <4> QED BY <2>1, <2>2, <3>1, <4>1, RowRead
      <3>2. CASE input.program # CProgram
        BY <1>1, <2>2, <3>2 DEF PathInv, Meant
      <3> QED BY <3>1, <3>2
    <2>3. ASSUME pc = "refused", input.program = CProgram PROVE ~ValidRecord(input.row)
      BY <1>1, <2>1, <2>3, RowRead DEF PathInv
    <2> QED BY <1>1, <2>2, <2>3 DEF RecordSurvives, PathInv
  <1> QED BY <1>1, InitStamp, NextStamp, InitLoaded, NextLoaded, InitRun, NextRun,
             InitPath, NextPath, PTL DEF Spec
===============================================================================
