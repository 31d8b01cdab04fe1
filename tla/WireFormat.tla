------------------------------- MODULE WireFormat ------------------------------
(***************************************************************************)
(* The record and its encodings: protocol.py (validate_record,             *)
(* encode_record, decode_record), the columns of a Parquet row, the C      *)
(* program's reading of CSV fields and its serialize_record.               *)
(*                                                                         *)
(* A byte has Byte values: 256 in the code, so that uint16 ends at         *)
(* Byte^2 - 1; a run takes 2, which keeps every width, sign and offset.    *)
(***************************************************************************)
EXTENDS Integers, Sequences, SequencesExt

CONSTANTS
    Byte,               \* 256
    ValuesCount         \* 296: SENSOR_VALUES_COUNT

ASSUME WireFormatAssumption ==
    /\ Byte \in Nat \ {0} /\ Byte % 2 = 0
    /\ ValuesCount \in Nat \ {0}

\* Facts of arithmetic, which are stated because the provers know nothing of
\* powers.
ASSUME PowersAssumption ==
    /\ Byte ^ 0 = 1
    /\ \A k \in 0 .. 7 : Byte ^ (k + 1) = Byte * Byte ^ k

Uint(bytes) == 0 .. Byte ^ bytes - 1

Sint(bytes) == -(Byte ^ bytes \div 2) .. Byte ^ bytes \div 2 - 1

ValidMeasurementTypes == {1, 2}

\* FORMAT "<HHIIQQiii", which the values (H) follow.
Fields == <<"device_id", "measurement_type", "sequence_number",
            "dropped_records_total", "sensor_timestamp_us", "gps_timestamp_us",
            "gps_latitude_e7", "gps_longitude_e7", "gps_altitude_mm">>

Widths == <<2, 2, 4, 4, 8, 8, 4, 4, 4>>

Signed == {"gps_latitude_e7", "gps_longitude_e7", "gps_altitude_mm"}

FieldSet(k) == IF Fields[k] \in Signed THEN Sint(Widths[k]) ELSE Uint(Widths[k])

\* The bytes before a field: < stands for no padding.
FieldAt[k \in 1 .. Len(Fields) + 1] ==
    IF k = 1 THEN 0 ELSE FieldAt[k - 1] + Widths[k - 1]

HeaderSize == FieldAt[Len(Fields) + 1]

RecordSize == HeaderSize + 2 * ValuesCount

\* The table of sample values: ValuesCount uint16, told apart by their place.
SampleValues == [i \in 1 .. ValuesCount |-> (Byte ^ 2 - i) % Byte ^ 2]

ValidValues(values) ==
    Len(values) = ValuesCount /\ ToSet(values) \subseteq Uint(2)

\* validate_record returns; else it raises ValueError.
ValidRecord(r) ==
    /\ \A k \in DOMAIN Fields : r[Fields[k]] \in FieldSet(k)
    /\ r.measurement_type \in ValidMeasurementTypes
    /\ ValidValues(r.values)

\* The bytes of an integer, the least significant first; two's complement.
LittleEndian(v, bytes) == [k \in 1 .. bytes |-> (v \div Byte ^ (k - 1)) % Byte]

Unsigned(bytes) ==
    LET From[k \in 1 .. Len(bytes) + 1] ==
            IF k > Len(bytes) THEN 0 ELSE bytes[k] + Byte * From[k + 1]
    IN  From[1]

TwosComplement(bytes) ==
    LET v == Unsigned(bytes)
    IN  IF v \in Sint(Len(bytes)) THEN v ELSE v - Byte ^ Len(bytes)

\* struct.pack of a valid record.
Encode(r) ==
    FlattenSeq([k \in DOMAIN Fields |-> LittleEndian(r[Fields[k]], Widths[k])])
        \o FlattenSeq([i \in DOMAIN r.values |-> LittleEndian(r.values[i], 2)])

Invalid == [valid |-> FALSE]

\* struct.unpack: the fields one after the other.
Unpacked(payload) ==
    LET Part(from, bytes) == SubSeq(payload, from + 1, from + bytes)
        Field(k) == IF Fields[k] \in Signed
                    THEN TwosComplement(Part(FieldAt[k], Widths[k]))
                    ELSE Unsigned(Part(FieldAt[k], Widths[k]))
    IN  [f \in ToSet(Fields) \cup {"values"} |->
            IF f = "values"
            THEN [i \in 1 .. ValuesCount |->
                    Unsigned(Part(HeaderSize + 2 * (i - 1), 2))]
            ELSE Field(CHOOSE k \in DOMAIN Fields : Fields[k] = f)]

\* decode_record: a ValueError for a wrong size or an unknown type.
Decode(payload) ==
    IF Len(payload) = RecordSize /\ ValidRecord(Unpacked(payload))
    THEN [valid |-> TRUE, record |-> Unpacked(payload)]
    ELSE Invalid
-------------------------------------------------------------------------------
(***************************************************************************)
(* The Parquet row: pa.array with a type raises on a value out of range.   *)
(***************************************************************************)

ColumnTypes == <<Uint(2), Uint(2), Uint(4), Uint(4), Uint(8), Uint(8),
                 Sint(4), Sint(4), Sint(4)>>

FitsRow(r) ==
    /\ \A k \in DOMAIN Fields : r[Fields[k]] \in ColumnTypes[k]
    /\ ToSet(r.values) \subseteq Uint(2)

\* _record_to_dict: every field goes into the column of its name.
Row(r) == [f \in ToSet(Fields) \cup {"values"} |-> r[f]]
-------------------------------------------------------------------------------
(***************************************************************************)
(* The C program: CSV fields, given as the integers their text stands for, *)
(* and serialize_record.                                                   *)
(***************************************************************************)

Magnitude(t) == IF t < 0 THEN -t ELSE t

ULLong(t) == Magnitude(t) \in Uint(8)

\* strtoull: a minus sign negates modulo 2^64; what is too large is ULLONG_MAX.
Strtoull(t) == IF ULLong(t) THEN t % Byte ^ 8 ELSE Byte ^ 8 - 1

\* strtoll: what is too large or too small is LLONG_MAX or LLONG_MIN.
Strtoll(t) == IF t \in Sint(8) THEN t
              ELSE IF t < 0 THEN -(Byte ^ 8 \div 2) ELSE Byte ^ 8 \div 2 - 1

Parsed(k, t) == IF Fields[k] \in Signed THEN Strtoll(t) ELSE Strtoull(t)

\* The checks on a field; only those of the time stamps look at ERANGE.
FieldOk(k, t) ==
    /\ Parsed(k, t) \in FieldSet(k)
    /\ Widths[k] = 8 => ULLong(t)
    /\ Fields[k] = "measurement_type" => Parsed(k, t) \in ValidMeasurementTypes

CsvRowOk(row) ==
    /\ \A k \in DOMAIN Fields : FieldOk(k, row[Fields[k]])
    /\ \A i \in DOMAIN row.values : Strtoull(row.values[i]) \in Uint(2)

\* The struct sensor_record that is filled from a row that passed.
CsvRecord(row) ==
    [f \in ToSet(Fields) \cup {"values"} |->
        IF f = "values" THEN [i \in DOMAIN row.values |-> Strtoull(row.values[i])]
        ELSE Parsed(CHOOSE k \in DOMAIN Fields : Fields[k] = f, row[f])]

\* Mutation: longitude and altitude are written in each other's place.
OffsetsSwapped == <<0, 2, 4, 8, 12, 20, 28, 36, 32>>

\* Where serialize_record writes its fields; the values start at 40.
Offsets == <<0, 2, 4, 8, 12, 20, 28, 32, 36>>

Serialize(r) ==
    [b \in 1 .. RecordSize |->
        IF b > 40
        THEN LittleEndian(r.values[(b - 41) \div 2 + 1], 2)[((b - 41) % 2) + 1]
        ELSE LET k == CHOOSE j \in DOMAIN Offsets :
                          b - Offsets[j] \in 1 .. Widths[j]
             IN  LittleEndian(r[Fields[k]], Widths[k])[b - Offsets[k]]]
===============================================================================
