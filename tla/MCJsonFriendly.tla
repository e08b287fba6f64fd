--------------------------- MODULE MCJsonFriendly ---------------------------
(* Instances of JsonFriendly for TLC. *)
EXTENDS JsonFriendly

\* The keys the value parser writes that jsonFriendly tests.
MCKeysSpecial == {"value", "@", "extends"}

MCLeavesAll == {"nil", "prim", "clazz"}

=============================================================================
