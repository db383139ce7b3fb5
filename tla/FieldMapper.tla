---------------------------- MODULE FieldMapper -----------------------------
(***************************************************************************)
(* What the transform worker does with one record: the mapper (worker/     *)
(* transform/mapper.go), its type coercions (coercer.go) and the columnar  *)
(* batch it may go through first (pkg/arrow/buffer.go).                    *)
(*                                                                         *)
(* A value is a pair of its Go type and what the code can tell of it.  A   *)
(* string is known by what it parses as: "int", "decimal", "bool" (true,   *)
(* false and their short forms), "word" (yes, no, on, off), "date" or      *)
(* "text" of one letter case.  A float is the number of its halves, a time *)
(* its number of seconds.  A source path is the sequence of its segments,  *)
(* <<"name", n>> and <<"index", i>>; a destination path has names only.    *)
(***************************************************************************)
EXTENDS Integers, Sequences, SequencesExt, FiniteSets

Nil == <<"nil", 0>>
Err == <<"error", 0>>     \* the second result of a conversion is not nil
Str(as, x) == <<"string", <<as, x>>>>
Text == Str("text", "lower")

-----------------------------------------------------------------------------
(* coercer.go                                                               *)

\* int64 of a float: towards zero.
Truncated(halves) == IF halves >= 0 THEN halves \div 2 ELSE -((-halves) \div 2)

\* ParseInt, else ParseFloat cut to an integer.
StringToInt(s) ==
    IF s[1] = "int" THEN <<"int", s[2]>>
    ELSE IF s[1] = "decimal" THEN <<"int", Truncated(s[2])>> ELSE Err
IntToString(n) == Str("int", n)
StringToFloat(s) ==
    IF s[1] = "int" THEN <<"float", 2 * s[2]>>
    ELSE IF s[1] = "decimal" THEN <<"float", s[2]>> ELSE Err
\* As few digits as the value needs: 2.0 is written 2.
FloatToString(h) == IF h % 2 = 0 THEN Str("int", h \div 2) ELSE Str("decimal", h)
\* ParseBool takes 0 and 1 as well.
StringToBool(s) ==
    IF s[1] \in {"bool", "word"} THEN <<"bool", s[2]>>
    ELSE IF s[1] = "int" /\ s[2] \in {0, 1} THEN <<"bool", s[2] = 1>> ELSE Err
BoolToString(b) == Str("bool", b)
\* One of the formats, else a Unix timestamp.
StringToTime(s) == IF s[1] \in {"date", "int"} THEN <<"time", s[2]>> ELSE Err
TimeToString(t) == Str("date", t)
IntToFloat(n) == <<"float", 2 * n>>
FloatToInt(h) == <<"int", Truncated(h)>>
IntToBool(n) == <<"bool", n # 0>>
BoolToInt(b) == <<"int", IF b THEN 1 ELSE 0>>
FloatToBool(h) == <<"bool", h # 0>>
BoolToFloat(b) == <<"float", IF b THEN 2 ELSE 0>>

\* The label of what json.Unmarshal made; objects and arrays are called strings.
inferTypeString(v) == IF v[1] \in {"object", "array"} THEN "string" ELSE v[1]

\* An object printed as a string is none of the forms that parse.
toString(v) == IF v[1] = "string" THEN v[2] ELSE Text[2]

registerBuiltins(from, to, v) ==
    CASE from = "string" /\ to = "int"   -> StringToInt(toString(v))
      [] from = "string" /\ to = "float" -> StringToFloat(toString(v))
      [] from = "string" /\ to = "bool"  -> StringToBool(toString(v))
      [] from = "string" /\ to = "time"  -> StringToTime(toString(v))
      [] from = "int" /\ to = "string"   -> IntToString(v[2])
      [] from = "int" /\ to = "float"    -> IntToFloat(v[2])
      [] from = "int" /\ to = "bool"     -> IntToBool(v[2])
      [] from = "float" /\ to = "string" -> FloatToString(v[2])
      [] from = "float" /\ to = "int"    -> FloatToInt(v[2])
      [] from = "float" /\ to = "bool"   -> FloatToBool(v[2])
      [] from = "bool" /\ to = "string"  -> BoolToString(v[2])
      [] from = "bool" /\ to = "int"     -> BoolToInt(v[2])
      [] from = "bool" /\ to = "float"   -> BoolToFloat(v[2])
      [] from = "time" /\ to = "string"  -> TimeToString(v[2])
      [] OTHER -> Err

Coerce(v, from, to) ==
    IF v = Nil THEN Nil ELSE IF from = to THEN v ELSE registerBuiltins(from, to, v)

-----------------------------------------------------------------------------
(* mapper.go                                                                *)

Step(v, seg) ==
    CASE v[1] = "array" /\ seg[1] = "index" ->
            IF seg[2] \in 0..(Len(v[2]) - 1) THEN v[2][seg[2] + 1] ELSE Nil
      [] v[1] = "object" /\ seg[1] = "name" ->
            IF seg[2] \in DOMAIN v[2] THEN v[2][seg[2]] ELSE Nil
      [] OTHER -> Nil

getNestedValue(data, path) == FoldLeft(Step, <<"object", data>>, path)

\* The objects along the path, then from the last the new one of each: what is in the
\* way of the path is replaced by an object.
setNestedValue(data, path, v) ==
    LET n == Len(path)
        Inner(d, name) == IF name \in DOMAIN d /\ d[name][1] = "object" THEN d[name][2] ELSE <<>>
        objects[i \in 1..n] == IF i = 1 THEN data ELSE Inner(objects[i - 1], path[i - 1])
        built[i \in 1..n] ==
            LET new == IF i = n THEN v ELSE <<"object", built[i + 1]>> IN
            [f \in DOMAIN objects[i] \union {path[i]} |->
                IF f = path[i] THEN new ELSE objects[i][f]] IN
    built[1]

\* (Trimming and concat leave what a string parses as; a string here is one letter long.)
evaluateExpression(expr, v) ==
    CASE v = Nil -> Nil
      [] expr \in {"upper", "lower"} /\ v[1] = "string" ->
            IF v[2][1] = "text" THEN Str("text", expr) ELSE v
      [] expr = "negate" /\ v[1] = "float" -> <<"float", -v[2]>>
      [] expr = "tostring" /\ v[1] = "float" -> FloatToString(v[2])
      [] expr = "tostring" /\ v[1] = "bool" -> BoolToString(v[2])
      [] expr = "tostring" /\ v[1] \in {"object", "array"} -> Text
      [] expr = "length" /\ v[1] = "array" -> <<"int", Len(v[2])>>
      [] expr = "length" /\ v[1] = "string" -> <<"int", 1>>
      [] OTHER -> v

\* One mapping; Nil leaves the destination field out.
MappedValue(src, m) ==
    LET v == getNestedValue(src, m.source)
        transform == m.transform[1]
        arg == m.transform[2] IN
    CASE transform = "cast" /\ v # Nil /\ arg # "" -> Coerce(v, inferTypeString(v), arg)
      [] transform = "expression" -> evaluateExpression(arg, v)
      [] transform = "default" /\ v = Nil -> arg
      [] OTHER -> v

\* A cast that fails fails the record.
Apply(src, mappings) ==
    FoldLeft(LAMBDA dest, m :
                LET v == MappedValue(src, m) IN
                IF dest = Err \/ v = Nil THEN dest
                ELSE IF v = Err THEN Err
                ELSE <<"object", setNestedValue(dest[2], m.dest, v)>>,
             <<"object", <<>>>>, mappings)

-----------------------------------------------------------------------------
(* pkg/arrow/buffer.go: a column for every field of the schema.             *)

NewBatch(schema) == [f \in schema |-> <<>>]
AppendRecord(batch, src) ==
    [f \in DOMAIN batch |-> Append(batch[f], IF f \in DOMAIN src THEN src[f] ELSE Nil)]
ToRecords(batch, n) ==
    [i \in 1..n |-> [f \in {g \in DOMAIN batch : batch[g][i] # Nil} |-> batch[f][i]]]

applyMappingsRowwise(records, mappings) ==
    [i \in 1..Len(records) |-> Apply(records[i], mappings)]
applyMappingsColumnar(records, mappings, schema) ==
    LET batch == FoldLeft(AppendRecord, NewBatch(schema), records) IN
    applyMappingsRowwise(ToRecords(batch, Len(records)), mappings)

-----------------------------------------------------------------------------
\* A call with a schema gives what a call without one does, provided the schema has the
\* fields at which the source paths begin (buffer.go:87 drops the others silently).
ColumnarAgrees(records, Mappings, Schemas) ==
    \A ms \in Mappings, schema \in Schemas :
        (\A m \in ToSet(ms) : m.source[1][2] \in schema) =>
            applyMappingsColumnar(records, ms, schema) = applyMappingsRowwise(records, ms)

\* Mappings may be given in any order unless one writes over, or into, what another
\* writes.
OrderIrrelevant(records, Maps) ==
    \A m1, m2 \in Maps :
        ~IsPrefix(m1.dest, m2.dest) /\ ~IsPrefix(m2.dest, m1.dest) =>
            applyMappingsRowwise(records, <<m1, m2>>) = applyMappingsRowwise(records, <<m2, m1>>)

\* A value that is written as a string and read again is the value, and a number goes
\* through a conversion and back unchanged unless a fraction was cut off.
RoundTrips(values) ==
    \A v \in values, to \in {"string", "int", "float", "bool"} :
        LET there == Coerce(v, v[1], to)
            back == Coerce(there, to, v[1]) IN
        /\ to = "string" /\ v[1] # "string" => back = v
        /\ {v[1], to} = {"int", "float"} => back = v \/ (v[1] = "float" /\ v[2] % 2 = 1)
=============================================================================
