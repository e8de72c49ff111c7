----------------------------- MODULE DataSchema -----------------------------
(* The schema of a route's request bodies that API discovery collects from  *)
(* samples: src/library/agent/api-discovery. String formats and the limits  *)
(* on depth, number and length of properties are left out.                  *)
EXTENDS Integers, Sequences, SequencesExt

CONSTANT Primitive   \* the names of primitive types, "null" among them

None == [type |-> "none"]

(* A document is a primitive value, [type |-> p]; an array, of which only   *)
(* the first element is looked at; or an object with some fields.           *)
AnArray(first) == [type |-> "array", first |-> first]
AnObject(fields) == [type |-> "object", fields |-> fields]

NoProperties == << >>

\* A schema: type holds one type, or several primitive ones.
Schema(type, properties, items) ==
    [type |-> {type}, optional |-> FALSE, properties |-> properties, items |-> items]

RECURSIVE getDataSchema(_)
getDataSchema(data) ==
    CASE data.type = "object" ->
             Schema("object",
                    [key \in DOMAIN data.fields |-> getDataSchema(data.fields[key])], None)
      [] data.type = "array" ->
             Schema("array", NoProperties,
                    IF data.first = None THEN None ELSE getDataSchema(data.first))
      [] OTHER -> Schema(data.type, NoProperties, None)

LatestType(first, second) == [first EXCEPT !.type = second.type]

\* Of two different types only primitive ones are put together; otherwise
\* the first stays, unless it is null.
mergeTypes(first, second) ==
    IF first.type \cup second.type \subseteq Primitive
    THEN [first EXCEPT !.type = @ \cup second.type]
    ELSE IF first.type = {"null"} THEN second ELSE first

AsOptional(schema) == [schema EXCEPT !.optional = TRUE]

RECURSIVE mergeDataSchemas(_, _)
mergeDataSchemas(first, second) ==
    IF first.type # second.type THEN mergeTypes(first, second)
    ELSE [first EXCEPT
             !.properties =
                 [key \in DOMAIN first.properties \cup DOMAIN second.properties |->
                     IF key \notin DOMAIN second.properties THEN AsOptional(@[key])
                     ELSE IF key \notin DOMAIN first.properties
                     THEN AsOptional(second.properties[key])
                     ELSE mergeDataSchemas(@[key], second.properties[key])],
             !.items =
                 IF None \in {first.items, second.items} THEN @
                 ELSE mergeDataSchemas(@, second.items)]

\* What a route holds after these bodies, see updateApiInfo.
SchemaOf(bodies) ==
    FoldLeft(LAMBDA schema, body : mergeDataSchemas(schema, getDataSchema(body)),
             getDataSchema(Head(bodies)), Tail(bodies))
----------------------------------------------------------------------------
RECURSIVE Describes(_, _)
Describes(schema, data) ==
    /\ data.type \in schema.type
    /\ data.type = "object" =>
           /\ \A key \in DOMAIN data.fields :
                  /\ key \in DOMAIN schema.properties
                  /\ Describes(schema.properties[key], data.fields[key])
           /\ \A key \in DOMAIN schema.properties \ DOMAIN data.fields :
                  schema.properties[key].optional
    /\ data.type = "array" /\ data.first # None /\ schema.items # None =>
           Describes(schema.items, data.first)

\* Merging of arrays or objects with something else is not supported.
RECURSIVE Mergeable(_, _)
Mergeable(one, other) ==
    \/ {one.type, other.type} \subseteq Primitive
    \/ /\ one.type = "object" /\ other.type = "object"
       /\ \A key \in DOMAIN one.fields \cap DOMAIN other.fields :
              Mergeable(one.fields[key], other.fields[key])
    \/ /\ one.type = "array" /\ other.type = "array"
       /\ None \in {one.first, other.first} \/ Mergeable(one.first, other.first)

\* The schema describes every body it was made from: each value's type is
\* one of the listed ones, and a field that any body lacks, at any depth, is
\* optional, whichever body came first.
SchemaDescribesItsSamples(bodies) ==
    (\A one, other \in ToSet(bodies) : Mergeable(one, other)) =>
        \A body \in ToSet(bodies) : Describes(SchemaOf(bodies), body)
=============================================================================
