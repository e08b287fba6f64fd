--------------------------- MODULE LengthDecoding ---------------------------
(***************************************************************************)
(* The numbers the tracing walker reads from the stream, one read at a    *)
(* time: which read (the site), the bytes the stream holds there, and the  *)
(* number the code makes of them.                                         *)
(***************************************************************************)
EXTENDS Integers, Sequences, WireDecode

CONSTANTS
    Bytes,    \* byte values offered at every position
    Sites     \* the reads checked

ASSUME Bytes \subseteq 0..127    \* keeps every big-endian u4 inside TLC's integers
ASSUME Sites \subseteq {"readUtf", "readFields", "readProxyClassDescInfo",
                        "readNewArray", "readLongBlockData", "readLongUtf",
                        "readPrevObject"}

VARIABLES
    site,    \* the function doing the read
    bytes,   \* the big-endian bytes it pops
    value    \* the number it computes, or NoValue before it has

vars == <<site, bytes, value>>

NoValue == -1

\* How many bytes each read pops.
Width ==
    [readUtf |-> 2, readFields |-> 2, readProxyClassDescInfo |-> 4,
     readNewArray |-> 4, readLongBlockData |-> 4, readLongUtf |-> 8,
     readPrevObject |-> 4]

\* The decoding each site's code performs.
CodeDecode(s, bs) ==
    CASE s \in {"readUtf", "readFields"} -> Decode16(bs)
      [] s \in {"readProxyClassDescInfo", "readNewArray", "readLongBlockData"}
             -> Decode32(bs)
      [] s = "readLongUtf" -> Decode64(bs)
      [] s = "readPrevObject" -> DecodePrevObject(bs)

\* A u8 length is offered only below 2^31 (its first four bytes are 0).
Init ==
    /\ site \in Sites
    /\ bytes \in {bs \in [1..Width[site] -> Bytes] :
                    \A i \in 1..(Width[site] - 4) : bs[i] = 0}
    /\ value = NoValue

Decode ==
    /\ value = NoValue
    /\ value' = CodeDecode(site, bytes)
    /\ UNCHANGED <<site, bytes>>

Done == value # NoValue /\ UNCHANGED vars

Next == Decode \/ Done

Spec == Init /\ [][Next]_vars

(* Every length, count and handle the walker reads is the big-endian      *)
(* number the stream wrote (the u2/u4/u8 of the format, spec.md), so a    *)
(* name, string, array or block of 256 or more bytes is read whole and    *)
(* the walker stays in step with the stream.                              *)
DecodedAsWritten == value # NoValue => value = BigEndian(bytes)

=============================================================================
