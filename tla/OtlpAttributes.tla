---------------------------- MODULE OtlpAttributes ----------------------------
(***************************************************************************)
(* How an attribute is written into an OTLP message                        *)
(* (OtlpPopulateAttributeUtils).  A value is known by the alternative of   *)
(* the variant it is in, its C++ type, and becomes one of the five kinds   *)
(* of a protocol value, or stays unset.                                    *)
(***************************************************************************)
EXTENDS Integers, Sequences

CONSTANT Int64Bits      \* the width of a protocol integer, 64

ASSUME AttributesAssumption == Int64Bits \in Nat \ {0}

Integral == {"int", "int64_t", "unsigned int", "uint64_t"}

\* An unsigned integer that does not fit becomes negative.
AsInt64(n) == IF n < 2 ^ (Int64Bits - 1) THEN n ELSE n - 2 ^ Int64Bits

Unset == [kind |-> "unset"]

\* One value, and the elements of an array.
Scalar(type, v) ==
    CASE type = "bool"     -> [kind |-> "bool", value |-> v]
      [] type = "double"   -> [kind |-> "double", value |-> v]
      [] type \in Integral -> [kind |-> "int", value |-> AsInt64(v)]
      [] type = "string"   -> [kind |-> "string", value |-> v]
      [] OTHER             -> Unset

ArrayOf(type, elements) ==
    [kind |-> "array", value |-> [i \in DOMAIN elements |-> Scalar(type, elements[i])]]

\* A value that refers to what the caller keeps (AttributeValue): a string may
\* be a pointer or a view, and bytes are integers.
ViewValue(type, array, v) ==
    LET element == CASE type \in {"const char*", "string_view"} -> "string"
                     [] array /\ type = "uint8_t" -> "int"
                     [] OTHER -> type
    IN  IF array THEN ArrayOf(element, v) ELSE Scalar(element, v)

\* A value that is kept with its attribute (OwnedAttributeValue): an array of
\* bytes is in none of the branches and stays unset.
OwnedValue(type, array, v) ==
    IF ~array THEN Scalar(type, v)
    ELSE IF type = "uint8_t" THEN Unset
    ELSE ArrayOf(type, v)

\* An attribute of a span, a link, an event or a point.
Attribute(key, type, v) == [key |-> key, value |-> ViewValue(type, FALSE, v)]

\* An attribute of a resource.
Stored(key, v) == [key |-> key, value |-> OwnedValue("string", FALSE, v)]
=============================================================================
