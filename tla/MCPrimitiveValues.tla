------------------------- MODULE MCPrimitiveValues -------------------------
(* Instances of PrimitiveValues for TLC. *)
EXTENDS PrimitiveValues

\* Every type name with a handler, and one without.
MCTypes == {"B", "C", "D", "F", "I", "J", "S", "Z", "L", "[", "X"}

\* 0, TC_NULL, TC_OBJECT, and a byte with the sign bit set.
MCBytes == {0, 112, 115, 255}

\* A char, an object and a byte field over 0, the high byte of a surrogate
\* (0xD8) and TC_ENDBLOCKDATA, a tag content() leaves in Smooth.data.
MCTypesStream == {"C", "L", "B"}
MCBytesStream == {0, 216, 120}

=============================================================================
