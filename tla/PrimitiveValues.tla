--------------------------- MODULE PrimitiveValues ---------------------------
(***************************************************************************)
(* values() of the value-producing parser (src/unnamed/part_001 lines    *)
(* 2157-2184): for each field of a class, in declaration order, look up   *)
(* its type name in primitiveHandlers (src/pkg/ph.go lines 47-124) and    *)
(* store what the handler returns.  A handler reads a big-endian number   *)
(* with binary.Read straight from the bufio.Reader (lines 1631-1702), or, *)
(* for "L" and "[", calls content(nil).                                  *)
(*                                                                         *)
(* content() peeks a tag into Smooth.data, dispatches it to a tracing     *)
(* reader and returns nil.  The tracing readers are modelled in           *)
(* SerializationDumper; here an element they read is abstracted to the   *)
(* bytes it takes (any number the rest of the input allows) or a panic.  *)
(* Smooth.data keeps the tag when content() does nothing with it          *)
(* (TC_ENDBLOCKDATA, TC_RESET, TC_EXCEPTION and unknown bytes), and the  *)
(* primitive readers do not look there.  Bytes are chosen as they are     *)
(* read; a read at end of input by Smooth.peek yields 0 (its error is     *)
(* dropped).  Field names are taken to be distinct, so the map of values  *)
(* is kept as the sequence of values in field order.                      *)
(* The loop's skip of a nil field is left out: fieldDesc never returns   *)
(* a nil field without an error.                                          *)
(***************************************************************************)
EXTENDS Integers, Sequences

CONSTANTS
    Types,      \* field type names offered: B C D F I J S Z L [ and others
    Bytes,      \* byte values offered by the input
    InputLen,   \* bytes in the input
    MaxFields   \* most fields in the class

VARIABLES
    fields,     \* cls.fields, as their type names
    i,          \* the loop's next field, 1-based
    pos,        \* bytes taken from the bufio.Reader
    held,       \* Smooth.data: NoByte or the tag content() peeked
    vals,       \* the values stored, each with the bytes it was read from
    status      \* "running", "ok", "error", or "panic" inside content()

vars == <<fields, i, pos, held, vals, status>>

NoByte == -1
TC_NULL == 112

\* The tags content() hands to a reader (lines 1560-1586); the others fall
\* into a case with no statement or an empty handler.
ContentTags == {112, 113, 114, 115, 116, 117, 118, 119, 122, 124, 125, 126}

Nil == [kind |-> "nil"]

\* A big-endian number, and the same read as two's complement (Go's
\* int8, int16 and int32 from binary.Read).
RECURSIVE BigEndian(_)
BigEndian(bs) ==
    IF bs = <<>> THEN 0 ELSE BigEndian(SubSeq(bs, 1, Len(bs) - 1)) * 256 + bs[Len(bs)]
Signed(bs) ==
    (IF bs[1] >= 128 THEN bs[1] - 256 ELSE bs[1]) * 256^(Len(bs) - 1)
    + BigEndian(Tail(bs))

\* Go's rune conversion: a UTF-16 surrogate is not a valid rune, and
\* string(rune(x)) holds U+FFFD for it.
RuneOf(x) == IF x \in 55296..57343 THEN 65533 ELSE x

-----------------------------------------------------------------------------
(* primitiveHandlers (ph.go 47-124): the reader each type name calls, as  *)
(* the number of bytes binary.Read takes for its Go type, and the value   *)
(* built from those bytes.  int64 and the floats are kept as their bits.  *)

HandlerWidth(t) ==
    CASE t \in {"B", "Z"} -> 1 [] t \in {"C", "S"} -> 2
      [] t \in {"F", "I"} -> 4 [] t \in {"D", "J"} -> 8

\* Mutant of primitiveHandler: "Z" true only for a positive int8.
primitiveHandlerZPositive(t, bs) ==
    CASE t = "B" -> [kind |-> "Int8", v |-> Signed(bs)]
      [] t = "C" -> [kind |-> "Char", v |-> RuneOf(BigEndian(bs))]
      [] t = "D" -> [kind |-> "Float64", v |-> bs]
      [] t = "F" -> [kind |-> "Float32", v |-> bs]
      [] t = "I" -> [kind |-> "Int32", v |-> Signed(bs)]
      [] t = "J" -> [kind |-> "Int64", v |-> bs]
      [] t = "S" -> [kind |-> "Int16", v |-> Signed(bs)]
      [] t = "Z" -> [kind |-> "Bool", v |-> Signed(bs) > 0]

primitiveHandler(t, bs) ==
    CASE t = "B" -> [kind |-> "Int8", v |-> Signed(bs)]
      [] t = "C" -> [kind |-> "Char", v |-> RuneOf(BigEndian(bs))]
      [] t = "D" -> [kind |-> "Float64", v |-> bs]
      [] t = "F" -> [kind |-> "Float32", v |-> bs]
      [] t = "I" -> [kind |-> "Int32", v |-> Signed(bs)]
      [] t = "J" -> [kind |-> "Int64", v |-> bs]
      [] t = "S" -> [kind |-> "Int16", v |-> Signed(bs)]
      [] t = "Z" -> [kind |-> "Bool", v |-> Signed(bs) # 0]

NumberTypes == {"B", "C", "D", "F", "I", "J", "S", "Z"}
ContentTypes == {"L", "["}

-----------------------------------------------------------------------------
Init ==
    /\ fields \in UNION {[1..n -> Types] : n \in 0..MaxFields}
    /\ i = 1
    /\ pos = 0
    /\ held = NoByte
    /\ vals = <<>>
    /\ status = "running"

Running == status = "running" /\ i <= Len(fields)

\* The loop ends with every field read.
ValuesDone ==
    /\ status = "running" /\ i > Len(fields)
    /\ status' = "ok"
    /\ UNCHANGED <<fields, i, pos, held, vals>>

\* No handler for the type name: "unknown field type".
UnknownType ==
    /\ Running /\ fields[i] \notin NumberTypes \cup ContentTypes
    /\ status' = "error"
    /\ UNCHANGED <<fields, i, pos, held, vals>>

\* A number handler: binary.Read takes the bytes of the Go type from the
\* reader; with fewer left it takes them all and fails.
ReadNumber ==
    /\ Running /\ fields[i] \in NumberTypes
    /\ LET w == HandlerWidth(fields[i]) IN
       \/ /\ InputLen - pos < w
          /\ pos' = InputLen /\ status' = "error"
          /\ UNCHANGED <<i, vals>>
       \/ /\ InputLen - pos >= w
          /\ \E bs \in [1..w -> Bytes] :
                vals' = Append(vals, [raw |-> bs, val |-> primitiveHandler(fields[i], bs)])
          /\ pos' = pos + w /\ i' = i + 1
          /\ UNCHANGED status
    /\ UNCHANGED <<fields, held>>

\* "L" and "[": content(nil).  Smooth.peek returns the held byte or reads
\* one (0 at end of input); TC_NULL is popped by readNullReference; another
\* tag content() dispatches is read to its end; the rest stay
\* in Smooth.data.  The value stored is content()'s nil.
ReadContent ==
    /\ Running /\ fields[i] \in ContentTypes
    /\ \E b \in Bytes :
         LET fresh == held = NoByte /\ pos < InputLen
             tag == IF held # NoByte THEN held ELSE IF fresh THEN b ELSE 0
             at == IF fresh THEN pos + 1 ELSE pos
         IN \/ /\ tag = TC_NULL
               /\ held' = NoByte /\ pos' = at
            \/ /\ tag \in ContentTags \ {TC_NULL}
               /\ held' = NoByte /\ pos' \in at..InputLen
            \/ /\ tag \notin ContentTags
               /\ held' = tag /\ pos' = at
    /\ vals' = Append(vals, [raw |-> <<>>, val |-> Nil])
    /\ i' = i + 1
    /\ UNCHANGED <<fields, status>>

\* content() handed the tag to a tracing reader (lines 1560-1577) that hit a
\* log.Panicln part way through; readNullReference, for TC_NULL, cannot.
ContentPanics ==
    /\ Running /\ fields[i] \in ContentTypes
    /\ held = NoByte /\ pos < InputLen
    /\ Bytes \cap (ContentTags \ {TC_NULL}) # {}
    /\ pos' \in (pos + 1)..InputLen
    /\ status' = "panic"
    /\ UNCHANGED <<fields, i, held, vals>>

\* The caller has the result.
Returned == status # "running" /\ UNCHANGED vars

Next == ValuesDone \/ UnknownType \/ ReadNumber \/ ReadContent \/ ContentPanics
        \/ Returned

Spec == Init /\ [][Next]_vars


-----------------------------------------------------------------------------
(***************************************************************************)
(* What spec.md says of primitive values (sections 3 and 4.3): a field of *)
(* type B, C, D, F, I, J, S or Z is an Int8, Char (the UTF-16 code unit,  *)
(* surrogates surfaced as they are), Float64, Float32, Int32, Int64, Int16 *)
(* or Bool (any non-zero byte true), read big-endian from as many bytes as *)
(* the Java type has.                                                      *)
(***************************************************************************)
SpecWidth == [B |-> 1, C |-> 2, D |-> 8, F |-> 4, I |-> 4, J |-> 8, S |-> 2, Z |-> 1]

SpecValue(t, bs) ==
    CASE t = "B" -> [kind |-> "Int8", v |-> Signed(bs)]
      [] t = "C" -> [kind |-> "Char", v |-> BigEndian(bs)]
      [] t = "D" -> [kind |-> "Float64", v |-> bs]
      [] t = "F" -> [kind |-> "Float32", v |-> bs]
      [] t = "I" -> [kind |-> "Int32", v |-> Signed(bs)]
      [] t = "J" -> [kind |-> "Int64", v |-> bs]
      [] t = "S" -> [kind |-> "Int16", v |-> Signed(bs)]
      [] t = "Z" -> [kind |-> "Bool", v |-> \E k \in DOMAIN bs : bs[k] # 0]

\* When values() succeeds, every field has its value, in field order, and
\* each number field holds what its Java type means of exactly as many
\* bytes as that type has: the handler table of ph.go (which reader a type
\* name calls, and how its result is converted) against the stream format.
ValuesAsDeclared ==
    status = "ok" =>
        /\ Len(vals) = Len(fields)
        /\ \A k \in DOMAIN vals :
             IF fields[k] \in ContentTypes THEN vals[k].val = Nil
             ELSE /\ Len(vals[k].raw) = SpecWidth[fields[k]]
                  /\ vals[k].val = SpecValue(fields[k], vals[k].raw)

\* values() reads the stream as written.  In every step each field holds
\* what its Java type means of its own bytes (a char its UTF-16 code unit,
\* which the "C" handler's string(rune(x)) loses for a surrogate), and
\* Smooth.data stays a lookahead: while it holds a tag content() peeked, no
\* reader takes bytes from the bufio.Reader past it (the number handlers
\* call binary.Read on this.rd and never look at Smooth.data).
ValuesReadAsWritten ==
    [][ValuesAsDeclared' /\ (held # NoByte => pos' = pos)]_vars

=============================================================================
