---------------------------- MODULE ClassRegistry ----------------------------
(***************************************************************************)
(* What the Java Object Serialization stream promises of handles and     *)
(* class descriptors: handles are given out in order from baseWireHandle, *)
(* each to one new object, and every class descriptor read is recorded    *)
(* once, under a handle given to a class descriptor, after the chain of   *)
(* its super class.  A chain is the sequence of the handles of a class    *)
(* and its super classes.                                                 *)
(*                                                                         *)
(* The tracing walker (SerializationDumper) implements it: handleLog is   *)
(* `handles`, and _classDataDescriptions, read for its handles, is        *)
(* `classes`.                                                              *)
(***************************************************************************)
EXTENDS Integers, Sequences

CONSTANTS
    Base,         \* the first handle (0x7E0000)
    Kinds,        \* what a handle can be given to
    ClassKinds    \* the kinds that are class descriptors

VARIABLES
    handles,      \* handles[i] is the kind given handle Base + i - 1
    classes       \* the recorded chains, oldest first

vars == <<handles, classes>>

\* The class-descriptor handles given out, and those already recorded.
ClassHandlesGiven ==
    {Base + i - 1 : i \in {i \in DOMAIN handles : handles[i] \in ClassKinds}}
Recorded == {classes[j][1] : j \in DOMAIN classes}

\* The super chains a new class can have: none, or one recorded before.
SuperChains == {<<>>} \cup {classes[j] : j \in DOMAIN classes}

Init == handles = <<>> /\ classes = <<>>

\* The next handle is given to a new object of some kind.
Assign == \E k \in Kinds : handles' = Append(handles, k) /\ UNCHANGED classes

\* A class descriptor whose handle was given out, and which is not yet
\* recorded, is recorded with a recorded (or no) super chain.
Record ==
    \E h \in ClassHandlesGiven \ Recorded, super \in SuperChains :
        /\ classes' = Append(classes, <<h>> \o super)
        /\ UNCHANGED handles

Next == Assign \/ Record

Spec == Init /\ [][Next]_vars

====
