----------------------------- MODULE Transform -----------------------------
(***************************************************************************)
(* The activities of the transform phase as operators on sequences of      *)
(* records (internal/orchestration/activities/transform_activities.go).    *)
(*                                                                         *)
(* Of a record's data only two things matter here: whether it is a JSON    *)
(* object at all, and the text extractPrimaryKey makes of the fields of    *)
(* its primary key.  The text is not the key: values are formatted with %v *)
(* and joined with "|", a mapping may move a field onto the key or away    *)
(* from it, a coercion may change its value, and an absent field is        *)
(* "<nil>"; so records with different keys may have the same text.         *)
(***************************************************************************)
EXTENDS Naturals, Sequences, FiniteSets

CONSTANTS Mapped,       \* streams with field mappings
          Coerced,      \* streams with a mapping that sets CoerceType
          Keyed,        \* streams with a primary key
          Malformed,    \* records whose data does not unmarshal to an object
          Uncoercible,  \* records with a field that does not coerce
          SourceKey,    \* a record's key as text, when it comes from the source,
          MappedKey,    \* when the mappings moved its fields,
          CoercedKey    \* and when its fields are coerced

ASSUME TransformAssumption == Coerced \subseteq Mapped

(* A record on its way through the phase. *)
Data(rec) == [stream |-> rec.stream, rec |-> rec, key |-> SourceKey[rec]]
TransformIn(recs) == [i \in DOMAIN recs |-> Data(recs[i])]

(* What the loops of the activities return: the records at the positions    *)
(* kept, in their order.                                                     *)
AppendKept(ds, kept) ==
    LET out[n \in 0..Len(ds)] ==
          IF n = 0 THEN <<>>
          ELSE IF n \in kept THEN Append(out[n - 1], ds[n])
          ELSE out[n - 1]
    IN  out[Len(ds)]

(* MapFieldsActivity: a record that does not unmarshal is left out and      *)
(* reported; the mappings move fields, those of the key and onto them too.  *)
Mappable(d) == d.stream \notin Mapped \/ d.rec \notin Malformed
Moved(ds) ==
    [i \in DOMAIN ds |->
        [ds[i] EXCEPT !.key = IF ds[i].stream \in Mapped THEN MappedKey[ds[i].rec] ELSE @]]
MapFields(ds) == AppendKept(Moved(ds), {i \in DOMAIN ds : Mappable(ds[i])})
MapErrors(ds) == \E i \in DOMAIN ds : ~Mappable(ds[i])

(* CoerceTypesActivity: as above for data that does not unmarshal; a field  *)
(* that does not coerce is reported and kept as it is.                      *)
Coercible(d) == d.stream \notin Coerced \/ d.rec \notin Malformed
Converted(ds) ==
    [i \in DOMAIN ds |->
        [ds[i] EXCEPT !.key = IF ds[i].stream \in Coerced THEN CoercedKey[ds[i].rec] ELSE @]]
CoerceTypes(ds) == AppendKept(Converted(ds), {i \in DOMAIN ds : Coercible(ds[i])})
CoerceErrors(ds) ==
    \E i \in DOMAIN ds : ds[i].stream \in Coerced /\ ds[i].rec \in Malformed \cup Uncoercible

(* extractPrimaryKey: "" for data that does not unmarshal.                  *)
NoKey == ""
extractPrimaryKey(d) == IF d.rec \in Malformed THEN NoKey ELSE d.key

HasKey(d) == d.stream \in Keyed /\ extractPrimaryKey(d) # NoKey
SameKey(d, e) == d.stream = e.stream /\ extractPrimaryKey(d) = extractPrimaryKey(e)

(* Mutant of Deduplicate: records are compared with the one before only. *)
DeduplicateAdjacent(ds) ==
    AppendKept(ds, {i \in DOMAIN ds :
                      ~(i > 1 /\ HasKey(ds[i]) /\ SameKey(ds[i - 1], ds[i]))})

(* DeduplicateActivity: of the records of a stream with the same key the    *)
(* first is kept; records without a key all are.                            *)
Seen(ds, i) ==
    HasKey(ds[i]) /\ \E j \in 1..(i - 1) : HasKey(ds[j]) /\ SameKey(ds[j], ds[i])
Deduplicate(ds) == AppendKept(ds, {i \in DOMAIN ds : ~Seen(ds, i)})
=============================================================================
