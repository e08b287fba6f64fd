------------------------------ MODULE PostProc ------------------------------
(***************************************************************************)
(* The post-processors of src/unnamed/part_001 (lines 2309-2443): given   *)
(* the decoded class data of a java.util.ArrayList, HashMap, EnumMap or    *)
(* HashSet, build the object's "value".  `data` is what the value parser  *)
(* collected: data[0] the []byte of the object's block data, then the     *)
(* elements (or keys and values) in stream order.                         *)
(*                                                                         *)
(* Data is abstracted to what the code tests of it:                      *)
(*   Block(ws)  a []byte, as its big-endian int32 words (len = 4 * Len)  *)
(*   Str(x)     a string                                                  *)
(*   Enum(x)    an enum constant: a map whose "value" is the string x    *)
(*   Obj        any other value                                           *)
(* A Go map[string]T is a function from strings; map[string]bool, whose   *)
(* entries are all true, is the set of its keys.                          *)
(***************************************************************************)
EXTENDS Integers, Sequences

CONSTANTS
    Words,      \* int32 values offered in a block (sizes, capacities)
    MaxWords,   \* most words in a block
    Names,      \* string values
    MaxElems    \* most elements after the block

VARIABLES
    data,       \* the data slice handed to the post-processor
    proc,       \* the post-processor that ran, or "none"
    result      \* what it returned

vars == <<data, proc, result>>

Block(ws) == [kind |-> "bytes", words |-> ws]
Str(x) == [kind |-> "string", val |-> x]
Enum(x) == [kind |-> "enum", val |-> x]
Obj == [kind |-> "object"]

IsString(e) == e.kind = "string"

\* A returned error, and a returned fields map whose "value" is v.
Fail == [ok |-> FALSE]
Ok(v) == [ok |-> TRUE, value |-> v]

\* Go's s[lo:hi] of a slice (0-based, hi exclusive).
GoSlice(s, lo, hi) == SubSeq(s, lo + 1, hi)

\* m[key] = v on a Go map.
Put(m, key, v) == [k \in DOMAIN m \cup {key} |-> IF k = key THEN v ELSE m[k]]

EmptyMap == [k \in {} |-> Obj]

\* postProcSize (lines 2309-2340): the int32 at byte `offset` of data[0].
postProcSize(d, offset) ==
    IF Len(d) < 1 THEN Fail
    ELSE IF d[1].kind # "bytes" THEN Fail
    ELSE IF 4 * Len(d[1].words) < offset + 4 THEN Fail
    ELSE Ok(d[1].words[offset \div 4 + 1])

\* listPostProc (lines 2343-2360)
listPostProc(d) ==
    LET sz == postProcSize(d, 0) IN
    IF ~sz.ok THEN Fail
    ELSE IF Len(d) # sz.value + 1 THEN Fail
    ELSE Ok(IF sz.value > 1 THEN GoSlice(d, 1, sz.value) ELSE <<>>)

\* The loop of mapPostProc and enumMapPostProc: for i < size, the key
\* data[2i+1] and the value data[2i+2]; a key of kind keyKind is stored
\* by its string, a later pair overwriting an earlier one.
RECURSIVE PairLoop(_, _, _, _, _)
PairLoop(d, size, keyKind, i, m) ==
    IF i >= size THEN m
    ELSE LET key == d[2 * i + 2]
             value == d[2 * i + 3]
         IN PairLoop(d, size, keyKind, i + 1,
                     IF key.kind = keyKind THEN Put(m, key.val, value) ELSE m)

\* Mutant of mapPostProc: the size read from the block's first word.
mapPostProcOffset0(d) ==
    LET sz == postProcSize(d, 0) IN
    IF ~sz.ok THEN Fail
    ELSE IF sz.value * 2 + 1 > Len(d) THEN Fail
    ELSE Ok(PairLoop(d, sz.value, "string", 0, EmptyMap))

\* mapPostProc (lines 2363-2387): string keys; the size after the capacity.
mapPostProc(d) ==
    LET sz == postProcSize(d, 4) IN
    IF ~sz.ok THEN Fail
    ELSE IF sz.value * 2 + 1 > Len(d) THEN Fail
    ELSE Ok(PairLoop(d, sz.value, "string", 0, EmptyMap))

\* Mutant of enumMapPostProc: the size read after a capacity word, as in
\* mapPostProc.
enumMapPostProcOffset4(d) ==
    LET sz == postProcSize(d, 4) IN
    IF ~sz.ok THEN Fail
    ELSE IF sz.value * 2 + 1 > Len(d) THEN Fail
    ELSE Ok(PairLoop(d, sz.value, "enum", 0, EmptyMap))

\* enumMapPostProc (lines 2390-2416): enum-constant keys, by their "value".
enumMapPostProc(d) ==
    LET sz == postProcSize(d, 0) IN
    IF ~sz.ok THEN Fail
    ELSE IF sz.value * 2 + 1 > Len(d) THEN Fail
    ELSE Ok(PairLoop(d, sz.value, "enum", 0, EmptyMap))

\* hashSetPostProc (lines 2419-2443): the size after capacity and load
\* factor; `for idx := range data[1:size]` takes key data[idx+1].
hashSetPostProc(d) ==
    LET sz == postProcSize(d, 8) IN
    IF ~sz.ok THEN Fail
    ELSE IF Len(d) # sz.value + 1 THEN Fail
    ELSE Ok(IF sz.value > 1
            THEN {d[idx + 2].val : idx \in {idx \in 0..(sz.value - 2) :
                                                IsString(d[idx + 2])}}
            ELSE {})

\* time.Unix(0, timestamp*int64(time.Millisecond)): the product wraps in
\* int64 unless |timestamp| <= 9223372036854, that is, for the words hi and
\* lo of the timestamp, unless hi*2^32 + (lo as uint32) lies in that range
\* (9223372036854 = 2147*2^32 + 2077252342).
NanosWrap(hi, lo) ==
    \/ hi > 2147
    \/ hi = 2147 /\ (lo < 0 \/ lo > 2077252342)
    \/ hi < -2148
    \/ hi = -2148 /\ (lo >= 0 \/ lo < -2077252342)

\* datePostProc (lines 2446-2469): the int64 in the first 8 bytes of
\* data[0], kept as its two words; a time.Time whose nanoseconds wrapped is
\* marked as such (its value is beyond TLC's integers).
datePostProc(d) ==
    IF Len(d) < 1 THEN Fail
    ELSE IF d[1].kind # "bytes" THEN Fail
    ELSE IF 4 * Len(d[1].words) < 8 THEN Fail
    ELSE LET ts == <<d[1].words[1], d[1].words[2]>> IN
         Ok(IF NanosWrap(ts[1], ts[2]) THEN [wrapped |-> ts] ELSE [ms |-> ts])

-----------------------------------------------------------------------------
Elems == {Str(x) : x \in Names} \cup {Enum(x) : x \in Names} \cup {Obj}

SeqsUpTo(S, n) == UNION {[1..k -> S] : k \in 0..n}

\* The data slices: a block (or, for the error path, another value) first.
Data ==
    { <<h>> \o t : h \in {Block(ws) : ws \in SeqsUpTo(Words, MaxWords)} \cup {Obj},
                   t \in SeqsUpTo(Elems, MaxElems) }

Init ==
    /\ data \in Data
    /\ proc = "none"
    /\ result = Fail

\* One action per post-processor, each applied to the same data.
ListPostProc == proc = "none" /\ proc' = "list" /\ result' = listPostProc(data)
                /\ UNCHANGED data
MapPostProc == proc = "none" /\ proc' = "map" /\ result' = mapPostProc(data)
               /\ UNCHANGED data
EnumMapPostProc == proc = "none" /\ proc' = "enumMap"
                   /\ result' = enumMapPostProc(data) /\ UNCHANGED data
HashSetPostProc == proc = "none" /\ proc' = "hashSet"
                   /\ result' = hashSetPostProc(data) /\ UNCHANGED data

DatePostProc == proc = "none" /\ proc' = "date"
                /\ result' = datePostProc(data) /\ UNCHANGED data

Done == proc # "none" /\ UNCHANGED vars

Next == ListPostProc \/ MapPostProc \/ EnumMapPostProc \/ HashSetPostProc \/ DatePostProc
        \/ Done

Spec == Init /\ [][Next]_vars

-----------------------------------------------------------------------------
(***************************************************************************)
(* What the Java classes write (their writeObject methods): after the     *)
(* block holding the size, an ArrayList its `size` elements, a HashSet    *)
(* its `size` elements, a HashMap and an EnumMap `size` key/value pairs.  *)
(* The size is the int32 at word 1 of the block (ArrayList, EnumMap), at  *)
(* word 2 (HashMap, after the capacity) or at word 3 (HashSet, after the  *)
(* capacity and the load factor).                                         *)
(***************************************************************************)
Elements == [i \in 1..(Len(data) - 1) |-> data[i + 1]]

\* The i-th key/value pair after the block, counting from 1.
PairAt(i) == <<data[2 * i], data[2 * i + 1]>>

\* The map the first `size` pairs mean, keeping the pairs whose key is of
\* kind keyKind; of two pairs with one key the later is the entry.
PairsMap(size, keyKind) ==
    LET Ks == {i \in 1..size : PairAt(i)[1].kind = keyKind}
        Last(k) == CHOOSE i \in Ks : PairAt(i)[1].val = k
                                     /\ \A j \in Ks : PairAt(j)[1].val = k => j <= i
    IN [k \in {PairAt(i)[1].val : i \in Ks} |-> PairAt(Last(k))[2]]

\* A list the code accepts holds every element of the ArrayList, in order
\* (listPostProc's data[1:size]).
ListPostProcKeepsElements ==
    proc = "list" /\ result.ok => result.value = Elements

\* A set the code accepts holds every string element of the HashSet
\* (hashSetPostProc's range over data[1:size]).
HashSetPostProcKeepsElements ==
    proc = "hashSet" /\ result.ok =>
        result.value = {Elements[i].val : i \in {i \in DOMAIN Elements :
                                                     IsString(Elements[i])}}

\* A Date the code accepts holds the instant java.util.Date.writeObject
\* wrote, the long of milliseconds at the start of the block
\* (datePostProc's timestamp*int64(time.Millisecond)).
DatePostProcKeepsTime ==
    proc = "date" /\ result.ok =>
        result.value = [ms |-> <<data[1].words[1], data[1].words[2]>>]

\* Every post-processor whose value is what writeObject wrote keeps it all:
\* the elements of an ArrayList and a HashSet (their data[1:size]), and
\* the instant of a Date.
PostProcKeepsWritten ==
    ListPostProcKeepsElements /\ HashSetPostProcKeepsElements
    /\ DatePostProcKeepsTime

\* The data holds the `size` pairs a map of that size writes.
HasPairs(size) == 2 * size + 1 <= Len(data)

\* A map the code accepts from a HashMap has its size in the block, all
\* its pairs, and holds
\* exactly its string-keyed ones, the size taken after the capacity
\* (mapPostProc's loop over data[2i+1], data[2i+2]).
MapPostProcKeepsPairs ==
    proc = "map" /\ result.ok =>
        Len(data[1].words) >= 2 /\
        LET size == data[1].words[2] IN
        HasPairs(size) /\ result.value = PairsMap(size, "string")

\* A map the code accepts from an EnumMap has all its pairs, and holds
\* exactly those keyed by an enum constant, under the constant's name, the
\* size taken from the block's first word (enumMapPostProc).
EnumMapPostProcKeepsPairs ==
    proc = "enumMap" /\ result.ok =>
        LET size == data[1].words[1] IN
        HasPairs(size) /\ result.value = PairsMap(size, "enum")

====
