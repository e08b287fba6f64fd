------------------------- MODULE SerializationDumper -------------------------
(***************************************************************************)
(* The tracing walker of src/unnamed/part_001 (parseStream and the read*  *)
(* functions), the code that ParseSerializedObject(buf) runs.             *)
(*                                                                         *)
(* The walker is a recursive descent over a byte buffer.  Every Go        *)
(* function that calls another is a procedure with an explicit frame on   *)
(* `stack` (head = innermost call) and a pc naming the point it resumes   *)
(* at; a step is the code between two calls.  Functions that call nothing *)
(* (readUtf, readPrevObject, readNullReference, readTC_STRING,            *)
(* readNewString, the block and primitive readers) are operators run      *)
(* inside the step of their caller.  Every lookahead is its own step,     *)
(* Smooth.peek, and the step after it dispatches on the buffered byte.    *)
(*                                                                         *)
(* The input is arbitrary attacker bytes.  Each read draws its byte from a *)
(* small set of values (a CONSTANT per kind of read) while the position   *)
(* is inside the buffer, and reads 0 past its end: binary.Read's EOF      *)
(* error is dropped by Smooth.peek/pop, so every read past the end yields *)
(* zero bytes.  The walker panics (log.Panicln, nil dereference, slice    *)
(* bounds) on malformed input: `status` becomes the reason and `stack`    *)
(* keeps the frames the goroutine held when it panicked.                  *)
(***************************************************************************)
EXTENDS Integers, Sequences, TLC, ClassDataDesc, WireDecode

CONSTANTS
    InputLen,    \* len(buf), which ParseSerializedObject makes maxDataBlockSize
    Leads,       \* first byte of the buffer (0xAC or an RMI packet type)
    Magics,      \* the 16-bit value at the STREAM_MAGIC position
    Versions,    \* the 16-bit value at the STREAM_VERSION position
    Tags,        \* bytes offered wherever the walker peeks a type code
    Flags,       \* classDescFlags bytes
    TypeCodes,   \* field type code bytes
    Lengths,     \* declared lengths and counts (utf, fields, arrays, blocks)
    NameKinds,   \* first characters of a non-empty class name
    RefHandles,  \* 32-bit wire handles read after TC_REFERENCE
    Entries      \* the entry points run: "parseStream" (ParseSerializedObject(buf))
                 \* and/or "ParseSerializedObject" (the exported method)

ASSUME InputLen \in Nat /\ Lengths \subseteq Nat /\ RefHandles \subseteq Nat
ASSUME NameKinds \subseteq {"[I", "[L", "A"}
ASSUME Entries \subseteq {"parseStream", "ParseSerializedObject"}

VARIABLES
    stack,       \* call stack of the recursive descent
    peeked,      \* Smooth.data: the lookahead byte, or NoByte
    nPos,        \* Smooth.nPos: bytes popped out of the lookahead buffer
    consumed,    \* position of the bufio.Reader in the input
    handleLog,   \* one entry per newHandle1 call: what the handle was given to
    classDescs,  \* _classDataDescriptions
    ret,         \* value returned by the procedure that returned last
    lastRef,     \* handle returned by the last readPrevObject
    status       \* "running", "done", or the reason of a panic

vars == <<stack, peeked, nPos, consumed, handleLog, classDescs, ret, lastRef,
          status>>

-----------------------------------------------------------------------------
(* Wire constants, src/pkg/ph.go lines 5-31 (0xAC, 0xED and the RMI bytes *)
(* are the values the protocol gives STREAM_MAGIC1/2, which no file of    *)
(* the repository defines).                                               *)
TC_NULL == 112
TC_REFERENCE == 113
TC_CLASSDESC == 114
TC_OBJECT == 115
TC_STRING == 116
TC_ARRAY == 117
TC_CLASS == 118
TC_BLOCKDATA == 119
TC_ENDBLOCKDATA == 120
TC_RESET == 121
TC_BLOCKDATALONG == 122
TC_EXCEPTION == 123
TC_LONGSTRING == 124
TC_PROXYCLASSDESC == 125
TC_ENUM == 126
STREAM_MAGIC1 == 172
STREAM_MAGIC2 == 237
STREAM_MAGIC == 44269                          \* 0xACED
STREAM_VERSION == 5
baseWireHandle == 8257536                      \* 0x7E0000

\* Field type codes 'B' 'C' 'D' 'F' 'I' 'J' 'S' 'Z' and the bytes each
\* primitive reader pops; '[' and 'L' are read as elements.
PrimSize == (66 :> 1) @@ (67 :> 2) @@ (68 :> 8) @@ (70 :> 4) @@ (73 :> 4)
            @@ (74 :> 8) @@ (83 :> 2) @@ (90 :> 1)
ARRAY_CODE == 91
OBJECT_CODE == 76
FieldTypeCodes == DOMAIN PrimSize \cup {ARRAY_CODE, OBJECT_CODE}

NoByte == -1

-----------------------------------------------------------------------------
(* Reading the buffer.                                                    *)

\* The value the code sees when it reads the k-byte big-endian encoding of
\* v at position p: bytes past the end of the buffer read as 0.
ReadAt(p, v, k) ==
    LET lost == k - (InputLen - p)     \* low-order bytes past the end
    IN  IF lost <= 0 THEN v
        ELSE IF lost >= 4 THEN 0       \* every value offered fits in 4 bytes
        ELSE (v \div 2^(8 * lost)) * 2^(8 * lost)

\* Mutant of Skip: a position advanced past the end of the buffer.
SkipPastEnd(p, k) == p + k

Skip(p, k) == IF p + k > InputLen THEN InputLen ELSE p + k

ByteAt(p, S) == IF p < InputLen THEN S ELSE {0}

\* readUtf at position p (lines 371-393): the class or field name it returns
\* and the position after it.
UtfAt(p) ==
    { LET len == Decode16(BytesOf(ReadAt(p, v, 2), 2))
          q == Skip(p, 2)
      IN [name |-> IF len = 0 THEN "" ELSE IF q < InputLen THEN c ELSE "A",
          next |-> Skip(q, len)] : v \in Lengths, c \in NameKinds }

\* Smooth.size (ClassDetailsImp.go 299-301)
size == InputLen - nPos

\* _handleValue: newHandle1 returns it and increments it (lines 300-308)
\* Mutant of handleValue: newHandle1 returning the incremented value.
handleValueIncremented == baseWireHandle + Len(handleLog) + 1

handleValue == baseWireHandle + Len(handleLog)

newHandle1(kind) == handleLog' = Append(handleLog, kind)

\* Smooth.add (ClassDetailsImp.go 285-287): data is empty whenever peek
\* calls it, so data becomes the one byte.
add(b1) == peeked' = b1

\* Smooth.pop of the byte a peek left in Smooth.data
PopTag == peeked' = NoByte /\ nPos' = nPos + 1

-----------------------------------------------------------------------------
(* Leaf readers: the functions that call no other read*; each fixes      *)
(* peeked, nPos, consumed, handleLog and lastRef.                          *)

\* readNullReference (lines 1476-1485)
ReadNullReference == PopTag /\ UNCHANGED <<consumed, handleLog, lastRef>>

\* readPrevObject (lines 1442-1474): a 4-byte handle, decoded correctly
ReadPrevObject ==
    /\ PopTag
    /\ \E h \in RefHandles : lastRef' = DecodePrevObject(BytesOf(ReadAt(consumed, h, 4), 4))
    /\ consumed' = Skip(consumed, 4)
    /\ UNCHANGED handleLog

\* readTC_STRING (lines 1415-1440): newHandle1, then readUtf
ReadTC_STRING ==
    /\ PopTag
    /\ newHandle1("string")
    /\ \E u \in UtfAt(consumed) : consumed' = u.next
    /\ UNCHANGED lastRef

\* readTC_LONGSTRING and readLongUtf (lines 712-782): 8-byte length
ReadTC_LONGSTRING ==
    /\ PopTag
    /\ newHandle1("string")
    /\ \E v \in Lengths :
          consumed' = Skip(Skip(consumed, 8), Decode64(BytesOf(ReadAt(consumed, v, 8), 8)))
    /\ UNCHANGED lastRef

\* readNewString (lines 686-705), for a lookahead in NewStringTags
NewStringTags == {TC_STRING, TC_LONGSTRING, TC_REFERENCE}

ReadNewString ==
    \/ peeked = TC_STRING /\ ReadTC_STRING
    \/ peeked = TC_LONGSTRING /\ ReadTC_LONGSTRING
    \/ peeked = TC_REFERENCE /\ ReadPrevObject

\* readBlockData (lines 1491-1517): 1-byte length
ReadBlockData ==
    /\ PopTag
    /\ \E v \in Lengths :
          consumed' = Skip(Skip(consumed, 1), ReadAt(consumed, v % 256, 1))
    /\ UNCHANGED <<handleLog, lastRef>>

\* readLongBlockData (lines 1519-1553): 4-byte length
ReadLongBlockData ==
    /\ PopTag
    /\ \E v \in Lengths :
          consumed' = Skip(Skip(consumed, 4), Decode32(BytesOf(ReadAt(consumed, v, 4), 4)))
    /\ UNCHANGED <<handleLog, lastRef>>

-----------------------------------------------------------------------------
(* Frames and calls.                                                      *)

NewFrame(proc, pc) == [proc |-> proc, pc |-> pc, cdd |-> <<>>, i |-> 0, n |-> 0]

top == Head(stack)

At(proc, pc) ==
    /\ status = "running"
    /\ stack # <<>>
    /\ top.proc = proc
    /\ top.pc = pc

SetTop(f) == stack' = <<f>> \o Tail(stack)

Goto(pc) == SetTop([top EXCEPT !.pc = pc])

\* Call proc with the caller's frame replaced by f (its resume point).
CallFrom(f, proc, pc) == stack' = <<NewFrame(proc, pc), f>> \o Tail(stack)

Call(proc, pc, resume) == CallFrom([top EXCEPT !.pc = resume], proc, pc)

\* A call whose result the caller returns unchanged.
TailCall(proc, pc) == SetTop(NewFrame(proc, pc))

\* The value a procedure returns: readContentElement's error, or
\* readClassDesc's chain (<<>> for a Go nil).
NoErr == [err |-> FALSE, cdd |-> <<>>]
Err == [err |-> TRUE, cdd |-> <<>>]
Cdd(c) == [err |-> FALSE, cdd |-> c]

Return(v) == stack' = Tail(stack) /\ ret' = v

Panic(reason) == status' = reason /\ UNCHANGED stack

\* The points where a function calls Smooth.peek.
PeekPoints ==
    { <<"readContentElement", "peek">>, <<"readClassDesc", "peek">>,
      <<"readTC_CLASSDESC", "className1">>, <<"readTC_CLASSDESC", "annotation">>,
      <<"readTC_PROXYCLASSDESC", "annotation">>, <<"readNewObject", "annotation">>,
      <<"readNewEnum", "name">>, <<"readArrayField", "peek">>,
      <<"readObjectField", "peek">>, <<"content", "peek">> }

Peeking == /\ status = "running" /\ stack # <<>>
           /\ <<top.proc, top.pc>> \in PeekPoints
           /\ peeked # NoByte

-----------------------------------------------------------------------------
Init ==
    /\ \E e \in Entries :
         stack = <<NewFrame(e, IF e = "parseStream" THEN "lead" ELSE "prelude")>>
    /\ peeked = NoByte
    /\ nPos = 0
    /\ consumed = 0
    /\ handleLog = <<>>
    /\ classDescs = <<>>
    /\ ret = NoErr
    /\ lastRef = 0
    /\ status = "running"

\* Smooth.peek (ClassDetailsImp.go 302-310): read a byte into Smooth.data
\* unless one is there already.
Peek ==
    /\ status = "running"
    /\ stack # <<>>
    /\ <<top.proc, top.pc>> \in PeekPoints
    /\ peeked = NoByte
    /\ \E b1 \in ByteAt(consumed, Tags) : add(b1)
    /\ consumed' = Skip(consumed, 1)
    /\ UNCHANGED <<stack, nPos, handleLog, classDescs, ret, lastRef, status>>

\* parseStream lines 247-270: a first byte other than 0xAC is popped as an
\* RMI packet type, whatever its value.
ParseStreamLead ==
    /\ At("parseStream", "lead")
    /\ \E b \in ByteAt(consumed, Leads) :
          IF b # STREAM_MAGIC1 THEN peeked' = NoByte /\ nPos' = nPos + 1
                               ELSE peeked' = b /\ nPos' = nPos
    /\ consumed' = Skip(consumed, 1)
    /\ Goto("magic")
    /\ UNCHANGED <<handleLog, classDescs, ret, lastRef, status>>

\* parseStream lines 272-287: a bad magic ends the walk; a bad version is
\* printed and the walk goes on.  The frame keeps the version in n.
ParseStreamMagic ==
    /\ At("parseStream", "magic")
    /\ \E m \in Magics, v \in Versions :
         LET b1 == IF peeked # NoByte THEN peeked
                   ELSE ReadAt(consumed, m, 2) \div 256
             p1 == IF peeked # NoByte THEN consumed ELSE Skip(consumed, 1)
             b2 == ReadAt(p1, m % 256, 1)
             p2 == Skip(p1, 1)
         IN /\ IF b1 # STREAM_MAGIC1 \/ b2 # STREAM_MAGIC2
                 THEN /\ consumed' = p2
                      /\ stack' = <<>>
                      /\ status' = "done"
                 ELSE /\ consumed' = Skip(p2, 2)
                      /\ SetTop([top EXCEPT !.pc = "loop",
                                             !.n = ReadAt(p2, v, 2)])
                      /\ status' = status
    /\ peeked' = NoByte
    /\ nPos' = IF peeked # NoByte THEN nPos + 1 ELSE nPos
    /\ UNCHANGED <<handleLog, classDescs, ret, lastRef>>

\* parseStream lines 289-297: while size() > 0, read a content element and
\* stop at the first error.
ParseStreamLoop ==
    /\ At("parseStream", "loop")
    /\ \/ size > 0 /\ Call("readContentElement", "peek", "after")
                   /\ UNCHANGED status
       \/ size <= 0 /\ stack' = <<>> /\ status' = "done"
    /\ UNCHANGED <<peeked, nPos, consumed, handleLog, classDescs, ret, lastRef>>

ParseStreamAfter ==
    /\ At("parseStream", "after")
    /\ \/ ret.err /\ stack' = <<>> /\ status' = "done"
       \/ ~ret.err /\ Goto("loop") /\ UNCHANGED status
    /\ UNCHANGED <<peeked, nPos, consumed, handleLog, classDescs, ret, lastRef>>

-----------------------------------------------------------------------------
(* The exported method ParseSerializedObject of SerializedObjectParser    *)
(* (lines 31-54).  magic() and version() (lines 1750-1772) read their u16 *)
(* from the bufio.Reader itself, with binary.Read: fewer than two bytes  *)
(* left is an error.  version() compares only the low byte, byte(ver),   *)
(* with STREAM_VERSION.  The loop runs content(nil) until end()           *)
(* (lines 1594-1602), which is true once the reader has no byte left,     *)
(* whatever Smooth.data holds; content never returns an error.           *)

ParseSerializedObjectPrelude ==
    /\ At("ParseSerializedObject", "prelude")
    /\ \E m \in Magics, v \in Versions :
         \/ /\ InputLen - consumed < 2 \/ m # STREAM_MAGIC
            /\ consumed' = Skip(consumed, 2)
            /\ stack' = <<>> /\ status' = "error"
         \/ /\ InputLen - consumed >= 2 /\ m = STREAM_MAGIC
            /\ InputLen - consumed < 4 \/ v % 256 # STREAM_VERSION
            /\ consumed' = Skip(consumed, 4)
            /\ stack' = <<>> /\ status' = "error"
         \/ /\ InputLen - consumed >= 4 /\ m = STREAM_MAGIC
            /\ v % 256 = STREAM_VERSION
            /\ consumed' = Skip(consumed, 4)
            /\ SetTop([top EXCEPT !.pc = "loop", !.n = v])
            /\ UNCHANGED status
    /\ UNCHANGED <<peeked, nPos, handleLog, classDescs, ret, lastRef>>

\* for !this.end(): content(nil) returns (nil, nil), which is appended.
ParseSerializedObjectLoop ==
    /\ At("ParseSerializedObject", "loop")
    /\ \/ consumed >= InputLen /\ stack' = <<>> /\ status' = "done"
       \/ consumed < InputLen /\ Call("content", "peek", "loop")
                              /\ UNCHANGED status
    /\ UNCHANGED <<peeked, nPos, consumed, handleLog, classDescs, ret, lastRef>>

-----------------------------------------------------------------------------
(* readContentElement (lines 544-604).  Go does not fall through: the     *)
(* empty `case TC_STRING:` and `case TC_CLASSDESC:` do nothing, and       *)
(* readException and handleReset (lines 1487-1489) are empty, so for      *)
(* these four tags the element returns nil with its byte still in         *)
(* Smooth.data.  Any other byte, TC_ENDBLOCKDATA included, is an error.   *)

\* The functions readContentElement calls that call other functions.
ElementProc ==
    (TC_OBJECT :> "readNewObject") @@ (TC_CLASS :> "readNewClass")
    @@ (TC_ARRAY :> "readNewArray") @@ (TC_ENUM :> "readNewEnum")
    @@ (TC_PROXYCLASSDESC :> "readTC_PROXYCLASSDESC")

NoOpTags == {TC_STRING, TC_CLASSDESC, TC_EXCEPTION, TC_RESET}

LeafTags == {TC_LONGSTRING, TC_REFERENCE, TC_NULL, TC_BLOCKDATA, TC_BLOCKDATALONG}

ReadContentElement ==
    /\ At("readContentElement", "peek")
    /\ peeked # NoByte
    /\ \/ /\ peeked \in DOMAIN ElementProc
          /\ Call(ElementProc[peeked], "start", "done")
          /\ UNCHANGED <<peeked, nPos, consumed, handleLog, ret, lastRef>>
       \/ /\ peeked \in LeafTags
          /\ \/ peeked = TC_LONGSTRING /\ ReadTC_LONGSTRING
             \/ peeked = TC_REFERENCE /\ ReadPrevObject
             \/ peeked = TC_NULL /\ ReadNullReference
             \/ peeked = TC_BLOCKDATA /\ ReadBlockData
             \/ peeked = TC_BLOCKDATALONG /\ ReadLongBlockData
          /\ Return(NoErr)
       \/ /\ peeked \in NoOpTags
          /\ Return(NoErr)
          /\ UNCHANGED <<peeked, nPos, consumed, handleLog, lastRef>>
       \/ /\ peeked \notin DOMAIN ElementProc \cup LeafTags \cup NoOpTags
          /\ Return(Err)
          /\ UNCHANGED <<peeked, nPos, consumed, handleLog, lastRef>>
    /\ UNCHANGED <<classDescs, status>>

ReadContentElementDone ==
    /\ At("readContentElement", "done")
    /\ Return(NoErr)
    /\ UNCHANGED <<peeked, nPos, consumed, handleLog, classDescs, lastRef, status>>

(* content (lines 1556-1590): the same readers as readContentElement,  *)
(* with TC_STRING and TC_CLASSDESC dispatched; TC_ENDBLOCKDATA, the      *)
(* empty handleReset and readException, and any unknown byte do nothing, *)
(* leaving the byte in Smooth.data.  It always returns (nil, nil).      *)
ContentProc == ElementProc @@ (TC_CLASSDESC :> "readTC_CLASSDESC")

ContentLeafTags == LeafTags \cup {TC_STRING}

Content ==
    /\ At("content", "peek")
    /\ peeked # NoByte
    /\ \/ /\ peeked \in DOMAIN ContentProc
          /\ Call(ContentProc[peeked], "start", "done")
          /\ UNCHANGED <<peeked, nPos, consumed, handleLog, ret, lastRef>>
       \/ /\ peeked \in ContentLeafTags
          /\ \/ peeked \in {TC_STRING, TC_LONGSTRING} /\ ReadNewString
             \/ peeked = TC_REFERENCE /\ ReadPrevObject
             \/ peeked = TC_NULL /\ ReadNullReference
             \/ peeked = TC_BLOCKDATA /\ ReadBlockData
             \/ peeked = TC_BLOCKDATALONG /\ ReadLongBlockData
          /\ Return(NoErr)
       \/ /\ peeked \notin DOMAIN ContentProc \cup ContentLeafTags
          /\ Return(NoErr)
          /\ UNCHANGED <<peeked, nPos, consumed, handleLog, lastRef>>
    /\ UNCHANGED <<classDescs, status>>

ContentDone ==
    /\ At("content", "done")
    /\ Return(NoErr)
    /\ UNCHANGED <<peeked, nPos, consumed, handleLog, classDescs, lastRef, status>>

-----------------------------------------------------------------------------
(* readClassDesc (lines 920-951) and readNewClassDesc (lines 817-837).     *)
(* readNewClassDesc's own default case is unreachable: both callers only  *)
(* call it for TC_CLASSDESC or TC_PROXYCLASSDESC.                          *)

ReadClassDesc ==
    /\ At("readClassDesc", "peek")
    /\ peeked # NoByte
    /\ \/ /\ peeked = TC_CLASSDESC
          /\ TailCall("readTC_CLASSDESC", "start")
          /\ UNCHANGED <<peeked, nPos, consumed, handleLog, ret, lastRef, status>>
       \/ /\ peeked = TC_PROXYCLASSDESC
          /\ TailCall("readTC_PROXYCLASSDESC", "start")
          /\ UNCHANGED <<peeked, nPos, consumed, handleLog, ret, lastRef, status>>
       \/ /\ peeked = TC_NULL
          /\ ReadNullReference
          /\ Return(Cdd(<<>>))
          /\ UNCHANGED status
       \/ /\ peeked = TC_REFERENCE
          /\ ReadPrevObject
          /\ LET r == ScanRef(classDescs, 1, 0, lastRef') IN
             IF r.outcome = "found"
             THEN Return(Cdd(r.cdd)) /\ UNCHANGED status
             ELSE /\ Panic(IF r.outcome = "nilDeref" THEN "classDescRefNil"
                                                     ELSE "invalidClassDescRef")
                  /\ UNCHANGED ret
       \/ /\ peeked \notin {TC_CLASSDESC, TC_PROXYCLASSDESC, TC_NULL, TC_REFERENCE}
          /\ Panic("illegalClassDesc")
          /\ UNCHANGED <<peeked, nPos, consumed, handleLog, ret, lastRef>>
    /\ UNCHANGED classDescs

\* classDescFlags validation (lines 455-468): TRUE when it panics.
BadFlags(b1) ==
    IF (b1 & SC_SERIALIZABLE) = SC_SERIALIZABLE
    THEN (b1 & SC_EXTERNALIZABLE) = SC_EXTERNALIZABLE
         \/ (b1 & SC_BLOCK_DATA) = SC_BLOCK_DATA
    ELSE IF (b1 & SC_EXTERNALIZABLE) = SC_EXTERNALIZABLE
    THEN (b1 & SC_WRITE_METHOD) = SC_WRITE_METHOD
    ELSE b1 # SC_Fail

\* readTC_CLASSDESC (lines 394-427): className, serialVersionUID, newHandle.
ReadTC_CLASSDESC ==
    /\ At("readTC_CLASSDESC", "start")
    /\ PopTag
    /\ \E u \in UtfAt(consumed) :
          /\ consumed' = Skip(u.next, 8)
          /\ SetTop([top EXCEPT !.pc = "info",
                     !.cdd = setLastClassHandle(addClass(NewClassDataDesc, u.name), handleValue)])
    /\ newHandle1("classDesc")
    /\ UNCHANGED <<classDescs, ret, lastRef, status>>

\* readClassDescInfo (lines 428-471) up to readFields' count (lines 784-792).
\* The flags are stored before they are validated.
ReadClassDescInfo ==
    /\ At("readTC_CLASSDESC", "info")
    /\ \E f \in ByteAt(consumed, Flags), c \in Lengths :
         LET p == Skip(consumed, 1)
             cdd == setLastClassDescFlags(top.cdd, f)
         IN IF BadFlags(f)
            THEN /\ consumed' = p
                 /\ SetTop([top EXCEPT !.cdd = cdd])
                 /\ status' = "illegalClassDescFlags"
            ELSE /\ consumed' = Skip(p, 2)
                 /\ SetTop([top EXCEPT !.pc = "field", !.cdd = cdd, !.i = 0,
                                       !.n = Decode16(BytesOf(ReadAt(p, c, 2), 2))])
                 /\ UNCHANGED status
    /\ UNCHANGED <<peeked, nPos, handleLog, classDescs, ret, lastRef>>

\* readFields' loop (lines 795-808) and readFieldDesc (lines 613-677): the
\* type code is added to the class before it is validated.
ReadFieldDesc ==
    /\ At("readTC_CLASSDESC", "field")
    /\ \/ /\ top.i < top.n
          /\ \E tc \in ByteAt(consumed, TypeCodes), u \in UtfAt(Skip(consumed, 1)) :
               IF tc \notin FieldTypeCodes
               THEN /\ consumed' = Skip(consumed, 1)
                    /\ SetTop([top EXCEPT !.cdd = addFieldToLastClass(@, tc)])
                    /\ status' = "illegalFieldTypeCode"
               ELSE /\ consumed' = u.next
                    /\ SetTop([top EXCEPT
                          !.cdd = addFieldToLastClass(@, tc),
                          !.pc = IF tc \in {ARRAY_CODE, OBJECT_CODE}
                                 THEN "className1" ELSE "field",
                          !.i = IF tc \in {ARRAY_CODE, OBJECT_CODE} THEN @ ELSE @ + 1])
                    /\ UNCHANGED status
       \/ /\ top.i >= top.n
          /\ Goto("annotation")
          /\ UNCHANGED <<consumed, status>>
    /\ UNCHANGED <<peeked, nPos, handleLog, classDescs, ret, lastRef>>

\* readFieldDesc line 674: className1 through readNewString.
ReadFieldClassName1 ==
    /\ At("readTC_CLASSDESC", "className1")
    /\ peeked # NoByte
    /\ \/ /\ peeked \in NewStringTags
          /\ ReadNewString
          /\ SetTop([top EXCEPT !.pc = "field", !.i = @ + 1])
          /\ UNCHANGED status
       \/ /\ peeked \notin NewStringTags
          /\ Panic("illegalNewString")
          /\ UNCHANGED <<peeked, nPos, consumed, handleLog, lastRef>>
    /\ UNCHANGED <<classDescs, ret>>

\* readTC_PROXYCLASSDESC (lines 844-870) and the interface count of
\* readProxyClassDescInfo (lines 877-890).
ReadTC_PROXYCLASSDESC ==
    /\ At("readTC_PROXYCLASSDESC", "start")
    /\ PopTag
    /\ newHandle1("proxyClassDesc")
    /\ \E c \in Lengths :
          /\ consumed' = Skip(consumed, 4)
          /\ SetTop([top EXCEPT !.pc = "iface", !.i = 0,
                     !.n = Decode32(BytesOf(ReadAt(consumed, c, 4), 4)),
                     !.cdd = setLastClassHandle(addClass(NewClassDataDesc, "A"), handleValue)])
    /\ UNCHANGED <<classDescs, ret, lastRef, status>>

\* readProxyClassDescInfo lines 892-902: the interface names.
ReadProxyInterfaceName ==
    /\ At("readTC_PROXYCLASSDESC", "iface")
    /\ \/ /\ top.i < top.n
          /\ \E u \in UtfAt(consumed) : consumed' = u.next
          /\ SetTop([top EXCEPT !.i = @ + 1])
       \/ /\ top.i >= top.n
          /\ Goto("annotation")
          /\ UNCHANGED consumed
    /\ UNCHANGED <<peeked, nPos, handleLog, classDescs, ret, lastRef, status>>

ClassDescProcs == {"readTC_CLASSDESC", "readTC_PROXYCLASSDESC"}

\* readClassAnnotation (lines 504-523): content elements until
\* TC_ENDBLOCKDATA, whose error return the loop ignores; then
\* readSuperClassDesc (lines 485-495).
ReadClassAnnotation ==
    /\ \E proc \in ClassDescProcs : At(proc, "annotation")
    /\ peeked # NoByte
    /\ \/ /\ peeked = TC_ENDBLOCKDATA
          /\ PopTag
          /\ Call("readClassDesc", "peek", "super")
       \/ /\ peeked # TC_ENDBLOCKDATA
          /\ Call("readContentElement", "peek", "annotation")
          /\ UNCHANGED <<peeked, nPos>>
    /\ UNCHANGED <<consumed, handleLog, classDescs, ret, lastRef, status>>

\* addSuperClassDesc (lines 477, 908), then readNewClassDesc appends the
\* chain to _classDataDescriptions (lines 824, 829) and returns it.
ReadSuperClassDesc ==
    /\ \E proc \in ClassDescProcs : At(proc, "super")
    /\ LET cdd == addSuperClassDesc(top.cdd, ret.cdd) IN
         /\ classDescs' = Append(classDescs, cdd)
         /\ Return(Cdd(cdd))
    /\ UNCHANGED <<peeked, nPos, consumed, handleLog, lastRef, status>>

-----------------------------------------------------------------------------
(* readNewObject (lines 954-977) and readClassData (lines 979-1056), which *)
(* only readNewObject calls: its locals live in the object's frame (cdd,  *)
(* i = classIndex + 1, n = index of the next field).                      *)

ReadNewObject ==
    /\ At("readNewObject", "start")
    /\ PopTag
    /\ Call("readClassDesc", "peek", "handle")
    /\ UNCHANGED <<consumed, handleLog, classDescs, ret, lastRef, status>>

\* newHandle1, then readClassData prints "N/A" for a nil class description
\* or walks the classes from the most super one down.
ReadNewObjectHandle ==
    /\ At("readNewObject", "handle")
    /\ newHandle1("object")
    /\ \/ ret.cdd = <<>> /\ Return(NoErr)
       \/ ret.cdd # <<>> /\ SetTop([top EXCEPT !.pc = "class", !.cdd = ret.cdd,
                                            !.i = getClassCount(ret.cdd)])
                     /\ UNCHANGED ret
    /\ UNCHANGED <<peeked, nPos, consumed, classDescs, lastRef, status>>

\* readClassData lines 990-999: the next class; values if SC_SERIALIZABLE.
ReadClassData ==
    /\ At("readNewObject", "class")
    /\ \/ /\ top.i = 0
          /\ Return(NoErr)
       \/ /\ top.i > 0
          /\ SetTop([top EXCEPT !.n = 1,
                     !.pc = IF isSC_SERIALIZABLE(getClassDetails(top.cdd, top.i - 1)) THEN "value"
                            ELSE "block"])
          /\ UNCHANGED ret
    /\ UNCHANGED <<peeked, nPos, consumed, handleLog, classDescs, lastRef, status>>

\* readFieldValue (lines 1124-1169) for a type code: primitives are popped
\* here; '[' and 'L' call readArrayField or readObjectField.  `f` is the
\* caller's frame to resume.  The default case is unreachable: every type
\* code reaching it passed readFieldDesc or is '['.
ReadFieldValue(tc, f) ==
    \/ /\ tc \in DOMAIN PrimSize
       /\ consumed' = Skip(consumed, PrimSize[tc])
       /\ SetTop(f)
    \/ /\ tc = ARRAY_CODE
       /\ CallFrom(f, "readArrayField", "peek")
       /\ UNCHANGED consumed
    \/ /\ tc = OBJECT_CODE
       /\ CallFrom(f, "readObjectField", "peek")
       /\ UNCHANGED consumed

\* readClassData lines 1004-1007 and readClassDataField (lines 1065-1075).
ReadClassDataField ==
    /\ At("readNewObject", "value")
    /\ LET fields == getFields(getClassDetails(top.cdd, top.i - 1)) IN
       \/ /\ top.n <= Len(fields)
          /\ ReadFieldValue(getTypeCode(fields[top.n]), [top EXCEPT !.n = @ + 1])
       \/ /\ top.n > Len(fields)
          /\ Goto("block")
          /\ UNCHANGED consumed
    /\ UNCHANGED <<peeked, nPos, handleLog, classDescs, ret, lastRef, status>>

\* readClassData lines 1013-1023: object annotations follow for
\* SC_SERIALIZABLE|SC_WRITE_METHOD and SC_EXTERNALIZABLE|SC_BLOCK_DATA;
\* SC_EXTERNALIZABLE alone panics.
ReadClassDataBlock ==
    /\ At("readNewObject", "block")
    /\ LET cd == getClassDetails(top.cdd, top.i - 1)
           hasBlockData == (isSC_SERIALIZABLE(cd) /\ isSC_WRITE_METHOD(cd))
                           \/ (isSC_EXTERNALIZABLE(cd) /\ isSC_BLOCK_DATA(cd))
       IN \/ /\ isSC_EXTERNALIZABLE(cd) /\ ~isSC_BLOCK_DATA(cd)
             /\ Panic("externalContents")
          \/ /\ ~(isSC_EXTERNALIZABLE(cd) /\ ~isSC_BLOCK_DATA(cd))
             /\ SetTop([top EXCEPT !.pc = IF hasBlockData THEN "annotation" ELSE "class",
                                   !.i = IF hasBlockData THEN @ ELSE @ - 1])
             /\ UNCHANGED status
    /\ UNCHANGED <<peeked, nPos, consumed, handleLog, classDescs, ret, lastRef>>

\* readClassData lines 1031-1041: the objectAnnotation loop.
ReadObjectAnnotation ==
    /\ At("readNewObject", "annotation")
    /\ peeked # NoByte
    /\ \/ /\ peeked = TC_ENDBLOCKDATA
          /\ PopTag
          /\ SetTop([top EXCEPT !.pc = "class", !.i = @ - 1])
       \/ /\ peeked # TC_ENDBLOCKDATA
          /\ Call("readContentElement", "peek", "annotation")
          /\ UNCHANGED <<peeked, nPos>>
    /\ UNCHANGED <<consumed, handleLog, classDescs, ret, lastRef, status>>

-----------------------------------------------------------------------------
(* readNewArray (lines 1356-1414).  Every element is read with the type   *)
(* code name[0:1], which is always '['.                                   *)

ReadNewArray ==
    /\ At("readNewArray", "start")
    /\ PopTag
    /\ Call("readClassDesc", "peek", "check")
    /\ UNCHANGED <<consumed, handleLog, classDescs, ret, lastRef, status>>

\* Lines 1371-1392: a nil description dereferences nil, a chain of more or
\* less than one class or a name not starting with '[' panics, and an
\* empty name fails the slice [0:1].
ReadNewArrayCheck ==
    /\ At("readNewArray", "check")
    /\ \/ ret.cdd = <<>> /\ Panic("nilClassDataDesc")
       \/ ret.cdd # <<>> /\ getClassCount(ret.cdd) # 1 /\ Panic("arrayClassCount")
       \/ ret.cdd # <<>> /\ getClassCount(ret.cdd) = 1 /\ getClassName(getClassDetails(ret.cdd, 0)) = ""
                     /\ Panic("sliceBounds")
       \/ ret.cdd # <<>> /\ getClassCount(ret.cdd) = 1 /\ getClassName(getClassDetails(ret.cdd, 0)) = "A"
                     /\ Panic("arrayClassName")
    /\ UNCHANGED <<peeked, nPos, consumed, handleLog, classDescs, ret, lastRef>>

ReadNewArraySize ==
    /\ At("readNewArray", "check")
    /\ ret.cdd # <<>>
    /\ getClassCount(ret.cdd) = 1
    /\ getClassName(getClassDetails(ret.cdd, 0)) \in {"[I", "[L"}
    /\ newHandle1("array")
    /\ \E c \in Lengths :
          /\ consumed' = Skip(consumed, 4)
          /\ SetTop([top EXCEPT !.pc = "elem", !.cdd = ret.cdd, !.i = 0,
                                !.n = Decode32(BytesOf(ReadAt(consumed, c, 4), 4))])
    /\ UNCHANGED <<peeked, nPos, classDescs, ret, lastRef, status>>

ReadNewArrayElement ==
    /\ At("readNewArray", "elem")
    /\ \/ /\ top.i < top.n
          /\ ReadFieldValue(ARRAY_CODE, [top EXCEPT !.i = @ + 1])
          /\ UNCHANGED ret
       \/ /\ top.i >= top.n
          /\ Return(NoErr)
          /\ UNCHANGED consumed
    /\ UNCHANGED <<peeked, nPos, handleLog, classDescs, lastRef, status>>

-----------------------------------------------------------------------------
(* readNewClass (lines 1334-1353) and readNewEnum (lines 334-358): the    *)
(* classDesc comes before the new handle.                                 *)

ReadNewClassOrEnum ==
    /\ \E proc \in {"readNewClass", "readNewEnum"} : At(proc, "start")
    /\ PopTag
    /\ Call("readClassDesc", "peek", "handle")
    /\ UNCHANGED <<consumed, handleLog, classDescs, ret, lastRef, status>>

ReadNewClassHandle ==
    /\ At("readNewClass", "handle")
    /\ newHandle1("class")
    /\ Return(NoErr)
    /\ UNCHANGED <<peeked, nPos, consumed, classDescs, lastRef, status>>

ReadNewEnumHandle ==
    /\ At("readNewEnum", "handle")
    /\ newHandle1("enum")
    /\ Goto("name")
    /\ UNCHANGED <<peeked, nPos, consumed, classDescs, ret, lastRef, status>>

\* readNewEnum line 354: enumConstantName through readNewString.
ReadNewEnumName ==
    /\ At("readNewEnum", "name")
    /\ peeked # NoByte
    /\ \/ peeked \in NewStringTags /\ ReadNewString /\ Return(NoErr)
                                   /\ UNCHANGED status
       \/ /\ peeked \notin NewStringTags
          /\ Panic("illegalNewString")
          /\ UNCHANGED <<peeked, nPos, consumed, handleLog, ret, lastRef>>
    /\ UNCHANGED classDescs

-----------------------------------------------------------------------------
(* readArrayField (lines 1237-1262) and readObjectField (lines            *)
(* 1267-1305): the value of a '[' or 'L' field or array element.  The     *)
(* object field accepts TC_STRING but not TC_LONGSTRING.                  *)

ReadArrayField ==
    /\ At("readArrayField", "peek")
    /\ peeked # NoByte
    /\ \/ peeked = TC_NULL /\ ReadNullReference /\ Return(NoErr) /\ UNCHANGED status
       \/ peeked = TC_REFERENCE /\ ReadPrevObject /\ Return(NoErr) /\ UNCHANGED status
       \/ /\ peeked = TC_ARRAY
          /\ TailCall("readNewArray", "start")
          /\ UNCHANGED <<peeked, nPos, consumed, handleLog, ret, lastRef, status>>
       \/ /\ peeked \notin {TC_NULL, TC_REFERENCE, TC_ARRAY}
          /\ Panic("unexpectedArrayField")
          /\ UNCHANGED <<peeked, nPos, consumed, handleLog, ret, lastRef>>
    /\ UNCHANGED classDescs

ObjectFieldProc ==
    (TC_OBJECT :> "readNewObject") @@ (TC_CLASS :> "readNewClass")
    @@ (TC_ARRAY :> "readNewArray") @@ (TC_ENUM :> "readNewEnum")

ReadObjectField ==
    /\ At("readObjectField", "peek")
    /\ peeked # NoByte
    /\ \/ peeked = TC_NULL /\ ReadNullReference /\ Return(NoErr) /\ UNCHANGED status
       \/ peeked = TC_REFERENCE /\ ReadPrevObject /\ Return(NoErr) /\ UNCHANGED status
       \/ peeked = TC_STRING /\ ReadTC_STRING /\ Return(NoErr) /\ UNCHANGED status
       \/ /\ peeked \in DOMAIN ObjectFieldProc
          /\ TailCall(ObjectFieldProc[peeked], "start")
          /\ UNCHANGED <<peeked, nPos, consumed, handleLog, ret, lastRef, status>>
       \/ /\ peeked \notin {TC_NULL, TC_REFERENCE, TC_STRING} \cup DOMAIN ObjectFieldProc
          /\ Panic("unexpectedObjectField")
          /\ UNCHANGED <<peeked, nPos, consumed, handleLog, ret, lastRef>>
    /\ UNCHANGED classDescs

-----------------------------------------------------------------------------
\* The process has exited (normally or by a panic): nothing more happens.
Terminated ==
    /\ status # "running"
    /\ UNCHANGED vars

Next ==
    \/ Peek
    \/ ParseStreamLead \/ ParseStreamMagic \/ ParseStreamLoop \/ ParseStreamAfter
    \/ ParseSerializedObjectPrelude \/ ParseSerializedObjectLoop
    \/ Content \/ ContentDone
    \/ ReadContentElement \/ ReadContentElementDone
    \/ ReadClassDesc
    \/ ReadTC_CLASSDESC \/ ReadClassDescInfo \/ ReadFieldDesc \/ ReadFieldClassName1
    \/ ReadTC_PROXYCLASSDESC \/ ReadProxyInterfaceName
    \/ ReadClassAnnotation \/ ReadSuperClassDesc
    \/ ReadNewObject \/ ReadNewObjectHandle \/ ReadClassData
    \/ ReadClassDataField \/ ReadClassDataBlock \/ ReadObjectAnnotation
    \/ ReadNewArray \/ ReadNewArrayCheck \/ ReadNewArraySize \/ ReadNewArrayElement
    \/ ReadNewClassOrEnum \/ ReadNewClassHandle \/ ReadNewEnumHandle \/ ReadNewEnumName
    \/ ReadArrayField \/ ReadObjectField
    \/ Terminated

\* The walker is one goroutine that always runs its next statement.
Spec == Init /\ [][Next]_vars /\ WF_vars(Next)

-----------------------------------------------------------------------------
(* Properties.                                                            *)

Procs == {"parseStream", "readContentElement", "readClassDesc",
          "readTC_CLASSDESC", "readTC_PROXYCLASSDESC", "readNewObject",
          "readNewArray", "readNewClass", "readNewEnum", "readArrayField",
          "readObjectField", "ParseSerializedObject", "content"}

ClassDetailsT == [name : {"", "[I", "[L", "A"}, handle : Int,
                  flags : 0..255, fields : Seq([typeCode : 0..255])]

FrameT == [proc : Procs, pc : STRING, cdd : Seq(ClassDetailsT), i : Nat, n : Nat]

HandleKinds == {"classDesc", "proxyClassDesc", "string", "object", "array",
                "class", "enum"}

TypeOK ==
    /\ stack \in Seq(FrameT)
    /\ peeked \in 0..255 \cup {NoByte}
    /\ nPos \in Nat
    /\ consumed \in 0..InputLen
    /\ handleLog \in Seq(HandleKinds)
    /\ classDescs \in Seq(Seq(ClassDetailsT))
    /\ ret \in [err : BOOLEAN, cdd : Seq(ClassDetailsT)]
    /\ lastRef \in Nat
    /\ status \in STRING

\* The handles the class model holds for the classes it has read.
ClassHandles ==
    UNION {{classDescs[j][k].handle : k \in DOMAIN classDescs[j]} :
               j \in DOMAIN classDescs}

\* _classDataDescriptions read for its handles: the chains of ClassRegistry.
ClassChains ==
    [j \in DOMAIN classDescs |->
        [k \in DOMAIN classDescs[j] |-> getHandle(classDescs[j][k])]]

Registry == INSTANCE ClassRegistry
    WITH Base <- baseWireHandle, Kinds <- HandleKinds,
         ClassKinds <- {"classDesc", "proxyClassDesc"},
         handles <- handleLog, classes <- ClassChains

(* The walker implements the class registry of the stream format: every  *)
(* newHandle1 gives out the next handle, and every chain readNewClassDesc *)
(* appends to _classDataDescriptions is recorded once, headed by the      *)
(* handle newHandle1 gave that class descriptor, and followed by a chain  *)
(* recorded before it.  readTC_CLASSDESC and readTC_PROXYCLASSDESC take   *)
(* the handle between reading the name and reading the body, in which     *)
(* strings, objects, annotations and super classes take handles and       *)
(* record classes of their own; readClassData walks a chain from its end, *)
(* so the super classes must follow the class in stream order.            *)
ImplementsClassRegistry == Registry!Spec

(* The walk ends: parseStream returns or the goroutine panics, on every  *)
(* input (readContentElement's no-op cases and the annotation loops are  *)
(* where it can fail to).                                                 *)
ParserTerminates == <>(status # "running")

(* A TC_REFERENCE in classDesc position that names a class descriptor    *)
(* already read resolves to it (readClassDesc lines 933-944) instead of  *)
(* panicking.                                                              *)
ClassDescRefResolves ==
    status = "classDescRefNil" => lastRef \notin ClassHandles

(* The elements of an array whose class is [I are ints: readNewArray     *)
(* reads each element with readFieldValue of the element type, and never *)
(* demands an array, null or reference for them (lines 1403-1405).      *)
PrimitiveArrayElementsRead ==
    status = "unexpectedArrayField" =>
        ~(/\ Len(stack) >= 2
          /\ stack[2].proc = "readNewArray"
          /\ stack[2].cdd[1].name = "[I")

(* The two class shapes every Java stream uses, a back-reference to a     *)
(* class descriptor already read and a primitive array, are walked        *)
(* without a panic: both of the properties above.                        *)
ClassesAndArraysRead == ClassDescRefResolves /\ PrimitiveArrayElementsRead

(* Content is only walked for a stream of version 5: neither parseStream *)
(* nor the exported method ParseSerializedObject reaches its content loop *)
(* after reading another STREAM_VERSION (spec.md: the u16 must equal 5). *)
VersionChecked ==
    \A k \in DOMAIN stack :
        ( \/ stack[k].proc = "parseStream" /\ stack[k].pc \in {"loop", "after"}
          \/ stack[k].proc = "ParseSerializedObject" /\ stack[k].pc = "loop" )
        => stack[k].n = 5

=============================================================================
