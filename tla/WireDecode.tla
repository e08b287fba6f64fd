----------------------------- MODULE WireDecode -----------------------------
(***************************************************************************)
(* How the tracing walker of src/unnamed/part_001 turns the big-endian    *)
(* bytes of a length, count or handle into a number, and the big-endian  *)
(* value the stream format means by them.                                *)
(*                                                                         *)
(* The walker writes `int(b1<<8) & 0xff00` with b1 a uint8: Go shifts in  *)
(* the operand's type, so b1<<8 is already 0 before the conversion, and   *)
(* only the last byte of every multi-byte number survives.  readPrevObject *)
(* alone uses binary.BigEndian.                                           *)
(***************************************************************************)
EXTENDS Integers, Sequences, Bitwise

\* b << n for a Go uint8 b: the result is a uint8 (a shift by 8 or more
\* leaves 0).
Uint8Shl(b, n) == IF n >= 8 THEN 0 ELSE (b * 2^n) % 256

\* readUtf line 380 and readFields line 791:
\* (int(b1<<8) & 0xff00) + int(b2&0xff)
Decode16(bs) == (Uint8Shl(bs[1], 8) & 65280) + (bs[2] & 255)

\* readProxyClassDescInfo lines 886-889, readNewArray lines 1388-1391 and
\* readLongBlockData lines 1537-1540: the same sum over four bytes.  The
\* masks 0xff000000 and 0xff0000 are applied to a shifted uint8 that is
\* already 0 and are left out (0xff000000 exceeds TLC's integers).
Decode32(bs) ==
    Uint8Shl(bs[1], 24) + Uint8Shl(bs[2], 16)
    + (Uint8Shl(bs[3], 8) & 65280) + (bs[4] & 255)

\* readLongUtf lines 759-766: the same over eight bytes (uint64).
Decode64(bs) ==
    Uint8Shl(bs[1], 56) + Uint8Shl(bs[2], 48) + Uint8Shl(bs[3], 40)
    + Uint8Shl(bs[4], 32) + Uint8Shl(bs[5], 24) + Uint8Shl(bs[6], 16)
    + (Uint8Shl(bs[7], 8) & 65280) + (bs[8] & 255)

\* The meaning of a big-endian byte sequence (binary.BigEndian, and the
\* stream format's u2, u4 and u8): the reference the decoders are held to.
RECURSIVE BigEndian(_)
BigEndian(bs) ==
    IF bs = <<>> THEN 0
    ELSE BigEndian(SubSeq(bs, 1, Len(bs) - 1)) * 256 + bs[Len(bs)]

\* readPrevObject lines 1455-1462: binary.BigEndian.Uint32 of the handle.
DecodePrevObject(bs) == BigEndian(bs)

\* The k big-endian bytes of a number v below 2^32 (the bytes above the
\* fourth are 0).
BytesOf(v, k) ==
    [i \in 1..k |-> IF k - i >= 4 THEN 0 ELSE (v \div 2^(8 * (k - i))) % 256]

=============================================================================
