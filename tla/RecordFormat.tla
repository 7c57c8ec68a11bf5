---------------------------- MODULE RecordFormat ----------------------------
(***************************************************************************)
(* The stored form of values and records: TypeSerializer of                *)
(* src/src/types/, TupleLayout, RecordSerializer, RecordView and           *)
(* RecordDeserializer of src/src/storage/.  A table gets its columns, a    *)
(* record is serialised, and the fields are read back one by one.          *)
(*                                                                         *)
(* A buffer is a sequence of cells.  A cell is a byte, or one of the 16-   *)
(* and 32-bit numbers of the format (a type id, a count, a length, an      *)
(* offset), which are one cell here.  Integer stands for every type of a   *)
(* fixed width, Text for CHAR, VARCHAR and BYTEA, Numeric for a value of   *)
(* fixed shape that is stored as a variable field.                         *)
(***************************************************************************)
EXTENDS Integers, SequencesExt

CONSTANTS Samples,       \* the non-null values of each type a column may have
          MaxFields,
          BitsPerByte,   \* 8: the columns one byte of the null bitmap covers
          Quote          \* the byte Json::to_string puts around a string

VARIABLES columns,  \* TupleLayout: m_columns, m_fixed_size, m_variable_count
          row,      \* the record that was serialised
          buffer,   \* its bytes
          fields    \* what RecordView::field returned, field by field

recordVars == <<columns, row, buffer, fields>>

HeaderCells == 2
FlagNulls == 2
FlagVarlen == 4

\* TypeID, in the order of the enumeration; the number of a type is its id.
TypeNames == <<"Null", "Boolean", "Integer", "Numeric", "Text", "Timestamp",
               "TimestampTZ", "JSON", "DICT", "Array", "Enum">>

TypeNumber(t) == CHOOSE n \in DOMAIN TypeNames : TypeNames[n] = t
TypeNamed(n) == IF n \in DOMAIN TypeNames THEN TypeNames[n] ELSE "Invalid"

\* TYPE_INFOS: the fixed size of a type, 0 when its length varies.
FixedSize(t) ==
    CASE t = "Boolean" -> 1
      [] t \in {"Integer", "Timestamp", "TimestampTZ", "Enum"} -> 2
      [] OTHER -> 0

NumericSize == 3

\* A Value: its type and one of the alternatives of its variant.
Value(t, bytes) == [type |-> t, bytes |-> bytes]
ArrayOf(element, items) == [type |-> "Array", element |-> element, items |-> items]
DictOf(entries) == [type |-> "DICT", entries |-> entries]
NullOf(t) == [type |-> t]
NullValue(v) == DOMAIN v = {"type"}
Throws == [failure |-> "throws"]

-----------------------------------------------------------------------------
(* TypeSerializer.                                                         *)

Tagged(type, bytes) == <<TypeNumber(type), Len(bytes)>> \o bytes

\* Dict keys are stored in the order of std::string, each as its length and bytes.
KeyBytes(k) == <<Len(k)>> \o k
KeyBefore(a, b) ==
    LET differ == {i \in DOMAIN a \cap DOMAIN b : a[i] # b[i]}
    IN  IF differ = {} THEN Len(a) < Len(b) ELSE a[Min(differ)] < b[Min(differ)]

RECURSIVE SerializeValue(_)
SerializeValue(v) ==
    IF NullValue(v) THEN <<>>
    ELSE CASE v.type \in {"Boolean", "Integer", "Numeric", "Text", "Timestamp", "TimestampTZ"} -> v.bytes
           [] v.type = "JSON" -> <<Quote>> \o v.bytes \o <<Quote>>
           [] v.type = "Array" ->
                FoldLeft(LAMBDA bytes, e : bytes \o Tagged(e.type, SerializeValue(e)),
                         <<Len(v.items)>>, v.items)
           [] v.type = "DICT" ->
                FoldLeft(LAMBDA bytes, k : bytes \o KeyBytes(k) \o
                                           Tagged(v.entries[k].type, SerializeValue(v.entries[k])),
                         <<Cardinality(DOMAIN v.entries)>>,
                         SetToSortSeq(DOMAIN v.entries, KeyBefore))

\* What the loops over elements carry: the offset, what was read, and whether a
\* "Buffer too small" was thrown.
Reading == [at |-> 1, items |-> <<>>, keys |-> <<>>, ok |-> TRUE]
TooSmall(d) == [d EXCEPT !.ok = FALSE]

\* The length and the bytes of a Dict key.
ReadKey(bytes, d) ==
    IF ~d.ok \/ d.at + 1 > Len(bytes) \/ d.at + 1 + bytes[d.at + 1] > Len(bytes) THEN TooSmall(d)
    ELSE [d EXCEPT !.at = @ + 1 + bytes[d.at + 1],
                   !.keys = Append(@, SubSeq(bytes, d.at + 2, d.at + 1 + bytes[d.at + 1]))]

RECURSIVE DeserializeValue(_, _)


\* The type, the length and the bytes of one element.
ReadElement(bytes, d) ==
    IF ~d.ok \/ d.at + 2 > Len(bytes) \/ d.at + 2 + bytes[d.at + 2] > Len(bytes) THEN TooSmall(d)
    ELSE LET length == bytes[d.at + 2]
             item == DeserializeValue(SubSeq(bytes, d.at + 3, d.at + 2 + length),
                                      TypeNamed(bytes[d.at + 1]))
         IN  IF item = Throws THEN TooSmall(d)
             ELSE [d EXCEPT !.at = @ + 2 + length, !.items = Append(@, item)]

AsDict(d) ==
    [k \in ToSet(d.keys) |-> d.items[CHOOSE i \in DOMAIN d.keys :
                                        /\ d.keys[i] = k
                                        /\ \A j \in DOMAIN d.keys : d.keys[j] = k => j <= i]]

DeserializeValue(bytes, t) ==
    LET repeat(Read(_, _)) ==
            FoldLeft(LAMBDA d, i : Read(bytes, d), Reading, [i \in 1 .. bytes[1] |-> i])
        fixed == IF t = "Numeric" THEN NumericSize ELSE FixedSize(t)
    IN  CASE t \in {"Boolean", "Integer", "Numeric", "Timestamp", "TimestampTZ"} ->
               IF Len(bytes) < fixed THEN Throws
               ELSE Value(IF t = "TimestampTZ" THEN "Timestamp" ELSE t, SubSeq(bytes, 1, fixed))
          [] t \in {"Text", "JSON"} -> Value(t, bytes)
          [] t = "Array" ->
               IF bytes = <<>> THEN Throws
               ELSE LET d == repeat(ReadElement)
                    IN  IF d.ok THEN ArrayOf("Invalid", d.items)
                                ELSE Throws
          [] t = "DICT" ->
               IF bytes = <<>> THEN Throws
               ELSE LET d == repeat(LAMBDA b, e : ReadElement(b, ReadKey(b, e)))
                    IN  IF d.ok THEN DictOf(AsDict(d)) ELSE Throws
          [] OTHER -> Throws

-----------------------------------------------------------------------------
(* TupleLayout, RecordSerializer and RecordView.                           *)

Varies(t) == FixedSize(t) = 0

\* TupleLayout::add_column.
AddColumn(t) ==
    /\ row = <<>> /\ Len(columns) < MaxFields
    /\ columns' = Append(columns,
         [type |-> t,
          offset |-> IF Varies(t) THEN 0
                     ELSE FoldLeft(LAMBDA n, c : n + FixedSize(c.type), 0, columns),
          fixed |-> FixedSize(t)])
    /\ UNCHANGED <<row, buffer, fields>>

FixedPart == FoldLeft(LAMBDA n, c : n + c.fixed, 0, columns)
Variable == {i \in DOMAIN columns : columns[i].fixed = 0}
BitmapCells == (Len(columns) + BitsPerByte - 1) \div BitsPerByte

\* The bitmap: bit i % 8 of byte i \div 8 says that column i is NULL.
NullBitmap(r) ==
    [b \in 1 .. BitmapCells |->
        FoldLeft(LAMBDA n, i : IF NullValue(r[i]) /\ (i - 1) \div BitsPerByte = b - 1
                               THEN n + 2 ^ ((i - 1) % BitsPerByte) ELSE n,
                 0, [i \in DOMAIN r |-> i])]

\* The fixed area: each field at the offset of its column, zeros for a NULL.
FixedArea(r) ==
    FoldLeft(LAMBDA area, i :
               IF columns[i].fixed = 0 \/ NullValue(r[i]) THEN area
               ELSE LET bytes == SerializeValue(r[i])
                    IN  [n \in DOMAIN area |->
                           IF n - columns[i].offset \in 1 .. Len(bytes)
                           THEN bytes[n - columns[i].offset] ELSE area[n]],
             [n \in 1 .. FixedPart |-> 0], [i \in DOMAIN r |-> i])

\* An offset for each variable field that is not NULL, then their bytes.
VariableArea(r) ==
    LET area == FoldLeft(LAMBDA a, i :
                   IF i \notin Variable \/ NullValue(r[i]) THEN a
                   ELSE [offsets |-> Append(a.offsets, Len(a.bytes)),
                         bytes |-> a.bytes \o SerializeValue(r[i])],
                 [offsets |-> <<>>, bytes |-> <<>>], [i \in DOMAIN r |-> i])
    IN  area.offsets \o area.bytes

RecordSerialize(r) ==
    LET nulls == \E i \in DOMAIN r : NullValue(r[i])
        body == (IF nulls THEN NullBitmap(r) ELSE <<>>) \o FixedArea(r) \o
                (IF Variable # {} THEN VariableArea(r) ELSE <<>>)
    IN  <<HeaderCells + Len(body),
          (IF nulls THEN FlagNulls ELSE 0) + (IF Variable # {} THEN FlagVarlen ELSE 0)>> \o body

\* The values a column may get: a sample of its type, or NULL.
FieldValues(t) == Samples[t] \union {NullOf(t)}

Store ==
    /\ row = <<>> /\ columns # <<>>
    /\ \E r \in FoldLeft(LAMBDA rows, c : {Append(s, v) : s \in rows, v \in FieldValues(c.type)},
                        {<<>>}, columns) :
          row' = r /\ buffer' = RecordSerialize(r)
    /\ UNCHANGED <<columns, fields>>

\* RecordView: what the constructor computes from the flags and the layout.
Flag(n) == (buffer[2] \div n) % 2 = 1
FixedStart == HeaderCells + (IF Flag(FlagNulls) THEN BitmapCells ELSE 0)
OffsetsStart == FixedStart + FixedPart
DataStart == OffsetsStart + (IF Flag(FlagVarlen) THEN Cardinality(Variable) ELSE 0)

IsNull(i) ==
    /\ Flag(FlagNulls)
    /\ (buffer[HeaderCells + 1 + (i - 1) \div BitsPerByte] \div 2 ^ ((i - 1) % BitsPerByte)) % 2 = 1

\* The index of a field in the offset array, counted from 0.
VarIndex(i) == Cardinality({j \in Variable : j < i /\ ~IsNull(j)})

\* A read outside the buffer, or of a length that is not one, is undefined.
Undefined == [failure |-> "undefined"]

\* A slot of the offset array; one that lies past the record has no value to give.
OffsetAt(slot) ==
    IF OffsetsStart + slot < Len(buffer) THEN buffer[OffsetsStart + slot + 1] ELSE Len(buffer) + 1

\* Seeded fault: the last variable field is taken to end with the offsets.
NextOffsetFirst(i) ==
    LET later == {j \in Variable : j > i /\ ~IsNull(j)}
    IN  IF later = {} THEN Len(buffer) - OffsetsStart
        ELSE OffsetAt(VarIndex(i) + 1)

\* Where a variable field ends: at the offset of the next one, whose index also
\* counts the NULL fields in between, or at the end of the record.
NextOffset(i) ==
    LET later == {j \in Variable : j > i /\ ~IsNull(j)}
        skipped == {j \in Variable : j > i /\ j < Min(later)}
    IN  IF later = {} THEN Len(buffer) - DataStart
        ELSE OffsetAt(VarIndex(i) + 1 + Cardinality(skipped))

\* RecordView::field_view of a field that is not NULL: where its bytes are.
FieldView(i) ==
    IF columns[i].fixed > 0
    THEN [first |-> FixedStart + columns[i].offset,
          last |-> FixedStart + columns[i].offset + columns[i].fixed]
    ELSE [first |-> DataStart + OffsetAt(VarIndex(i)), last |-> DataStart + NextOffset(i)]

\* RecordView::field: the value those bytes hold.
Field(i) ==
    LET view == FieldView(i)
    IN  IF IsNull(i) THEN NullOf(columns[i].type)
        ELSE IF view.last < view.first \/ view.last > Len(buffer) THEN Undefined
        ELSE DeserializeValue(SubSeq(buffer, view.first + 1, view.last), columns[i].type)

\* RecordDeserializer::deserialize, one field at a time.
ReadField ==
    /\ buffer # <<>> /\ Len(fields) < Len(columns)
    /\ ~ \E i \in DOMAIN fields : fields[i] \in {Throws, Undefined}
    /\ fields' = Append(fields, Field(Len(fields) + 1))
    /\ UNCHANGED <<columns, row, buffer>>

RecordInit == columns = <<>> /\ row = <<>> /\ buffer = <<>> /\ fields = <<>>

RecordNext ==
    \/ \E t \in DOMAIN Samples : AddColumn(t)
    \/ Store
    \/ ReadField

RecordSpec == RecordInit /\ [][RecordNext]_recordVars

-----------------------------------------------------------------------------
\* What is read back for a value: an array without its element type, a timestamp
\* without its zone, JSON with quotes added to a string; a NULL inside an array or
\* a dictionary is read as an empty string where that is a value of its type.
RECURSIVE ReadAs(_)
ReadAs(v) ==
    IF NullValue(v) THEN IF v.type \in {"Text", "JSON"} THEN Value(v.type, <<>>) ELSE Throws
    ELSE CASE v.type = "TimestampTZ" -> Value("Timestamp", v.bytes)
           [] v.type = "JSON" -> Value("JSON", <<Quote>> \o v.bytes \o <<Quote>>)
           [] v.type = "Array" ->
                IF \E i \in DOMAIN v.items : ReadAs(v.items[i]) = Throws THEN Throws
                ELSE ArrayOf("Invalid", [i \in DOMAIN v.items |-> ReadAs(v.items[i])])
           [] v.type = "DICT" ->
                IF \E k \in DOMAIN v.entries : ReadAs(v.entries[k]) = Throws THEN Throws
                ELSE DictOf([k \in DOMAIN v.entries |-> ReadAs(v.entries[k])])
           [] OTHER -> v

\* The offsets are written for the variable fields that are not NULL and looked for
\* as if there were one per variable column (record_view.cpp:61): the two agree when
\* all are present, or none is.
OffsetsAgree == (\A i \in Variable : ~NullValue(row[i])) \/ (\A i \in Variable : NullValue(row[i]))

(***************************************************************************)
(* A record that was serialised is read back field by field: a NULL as a   *)
(* NULL, a field of fixed size as it was, wherever NULLs and variable      *)
(* fields lie around it, and a variable field with what the format keeps   *)
(* of it, if no other variable field is NULL.  If one is, the variable     *)
(* fields are taken from the wrong place, and nothing is said of them.     *)
(* (RecordSerializer::serialize, RecordView::field.)                       *)
(***************************************************************************)
FieldsReadBack ==
    \A i \in DOMAIN fields :
        /\ NullValue(row[i]) => fields[i] = NullOf(columns[i].type)
        /\ ~NullValue(row[i]) /\ (i \in Variable => OffsetsAgree) => fields[i] = ReadAs(row[i])

\* A value of which the end is missing is refused, never read as a smaller value: no
\* strict prefix of the bytes of an array, a dictionary or a number deserialises
\* (the size checks of TypeSerializer::deserialize).
TruncatedRefused ==
    \A i \in DOMAIN row :
        row[i].type \notin {"Text", "JSON"} =>
            LET bytes == SerializeValue(row[i])
            IN  \A n \in 0 .. Len(bytes) - 1 :
                    DeserializeValue(SubSeq(bytes, 1, n), row[i].type) = Throws

=============================================================================
