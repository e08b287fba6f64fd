---------------------------- MODULE JsonFriendly ----------------------------
(***************************************************************************)
(* The minimal representation of src/unnamed/part_001 (lines 58-130):     *)
(* ParseSerializedObjectMinimal parses the stream and hands the content   *)
(* list to jsonFriendlyArray, which walks every value recursively:        *)
(*   - a map[string]interface{} loses its "extends" key and every value   *)
(*     that is a *clazz; the rest is converted, and the map is replaced   *)
(*     by its "value" when that key remains beside "@" or alone;          *)
(*   - a []interface{} is converted element by element;                   *)
(*   - any other value, a *clazz included, is returned as it is.          *)
(*                                                                         *)
(* A Go value is a record tagged by its dynamic type: a leaf ("nil", a    *)
(* "prim"itive, a "clazz" descriptor), an "arr" with its items, or a      *)
(* "map" with a function from its keys.  The values the parser could      *)
(* produce are bounded by nesting depth, items per slice and keys per map. *)
(***************************************************************************)
EXTENDS Integers, Sequences, FiniteSets

CONSTANTS
    Leaves,     \* dynamic types of the leaf values, from {"nil","prim","clazz"}
    Keys,       \* map keys offered ("value", "@", "extends", a field name)
    MaxItems,   \* most items in a slice
    MaxKeys,    \* most keys in a map
    MaxDepth    \* most levels of nested slices and maps

ASSUME Leaves \subseteq {"nil", "prim", "clazz"} /\ MaxDepth \in Nat

VARIABLES
    content,    \* the []interface{} that ParseSerializedObject returned
    result,     \* what ParseSerializedObjectMinimal returned
    ran         \* whether it has returned

vars == <<content, result, ran>>

Leaf(l) == [t |-> l]
Clazz == Leaf("clazz")
Arr(s) == [t |-> "arr", items |-> s]
MapV(f) == [t |-> "map", f |-> f]

-----------------------------------------------------------------------------
(* The promotion test of jsonFriendlyObject (lines 84-89), on the         *)
(* converted map jm.                                                      *)
Promotes(jm) ==
    /\ "value" \in DOMAIN jm
    /\ "@" \in DOMAIN jm \/ Cardinality(DOMAIN jm) = 1

RECURSIVE jsonFriendlyObjectRawLen(_), jsonFriendlyObject(_),
          jsonFriendlyArray(_), jsonFriendlyMap(_)

\* Mutant of jsonFriendlyObject: the single-key test made on the map as it
\* came in, len(m), rather than on the filtered jsonMap.
jsonFriendlyObjectRawLen(obj) ==
    CASE obj.t = "map" ->
            LET jm == jsonFriendlyMap(obj.f) IN
            IF "value" \in DOMAIN jm
               /\ ("@" \in DOMAIN jm \/ Cardinality(DOMAIN obj.f) = 1)
            THEN jm["value"] ELSE MapV(jm)
      [] obj.t = "arr" -> Arr(jsonFriendlyArray(obj.items))
      [] OTHER -> obj

\* jsonFriendlyObject (lines 78-102)
jsonFriendlyObject(obj) ==
    CASE obj.t = "map" ->
            LET jm == jsonFriendlyMap(obj.f) IN
            IF Promotes(jm) THEN jm["value"] ELSE MapV(jm)
      [] obj.t = "arr" -> Arr(jsonFriendlyArray(obj.items))
      [] OTHER -> obj

\* jsonFriendlyArray (lines 104-112)
jsonFriendlyArray(arrayObj) ==
    [idx \in DOMAIN arrayObj |-> jsonFriendlyObject(arrayObj[idx])]

\* jsonFriendlyMap (lines 114-130): "extends" and *clazz values skipped.
jsonFriendlyMap(mapObj) ==
    [k \in {k \in DOMAIN mapObj : k # "extends" /\ mapObj[k] # Clazz} |->
        jsonFriendlyObject(mapObj[k])]

-----------------------------------------------------------------------------
SeqsUpTo(S, n) == UNION {[1..k -> S] : k \in 0..n}

MapsOver(V) ==
    UNION {[K -> V] : K \in {K \in SUBSET Keys : Cardinality(K) <= MaxKeys}}

\* The values of nesting depth at most d.
RECURSIVE ValuesUpTo(_)
ValuesUpTo(d) ==
    IF d = 0 THEN {Leaf(l) : l \in Leaves}
    ELSE LET V == ValuesUpTo(d - 1) IN
         V \cup {Arr(s) : s \in SeqsUpTo(V, MaxItems)}
           \cup {MapV(f) : f \in MapsOver(V)}

Init ==
    /\ content \in {<<v>> : v \in ValuesUpTo(MaxDepth)}
    /\ result = <<>>
    /\ ran = FALSE

\* ParseSerializedObjectMinimal (lines 58-74), after a parse without error.
Minimal ==
    /\ ~ran
    /\ result' = jsonFriendlyArray(content)
    /\ ran' = TRUE
    /\ UNCHANGED content

\* The caller holds the result; nothing more happens.
Done == ran /\ UNCHANGED vars

Next == Minimal \/ Done

Spec == Init /\ [][Next]_vars

-----------------------------------------------------------------------------
(***************************************************************************)
(* What spec.md (sections 6 and 8) says of parseMinimal.                  *)
(***************************************************************************)

\* The minimal form is a fixed point: converting what
\* ParseSerializedObjectMinimal returned again changes nothing
\* (spec.md section 8, law "Idempotence").  It fails when the promotion
\* test of jsonFriendlyObject and the filtering of jsonFriendlyMap disagree
\* about which keys a map has.
MinimalIdempotent ==
    ran => jsonFriendlyArray(result) = result

=============================================================================
