---------------------------- MODULE ClassDataDesc ----------------------------
(***************************************************************************)
(* The class model of the tracing walker, src/pkg/ClassDetailsImp.go.      *)
(*                                                                         *)
(* A ClassDataDesc is the chain <<class, super class, super-super ...>> of *)
(* ClassDetails; a ClassDetails keeps the class name, its reference       *)
(* handle, its classDescFlags and the type codes of its fields.  Field    *)
(* names and className1 values are only printed, so they are left out.    *)
(* A Go nil *ClassDataDesc is the empty chain <<>>: no real chain is empty *)
(* because addClass always runs first.                                     *)
(*                                                                         *)
(* Class names are abstracted to what the walker tests of them: ""        *)
(* (empty), "[I" (primitive array class), "[L" (object array class) and   *)
(* "A" (any other name, the proxy name "<Dynamic Proxy Class>" included). *)
(***************************************************************************)
EXTENDS Integers, Sequences, Bitwise

\* classDescFlags bits, src/pkg/ph.go
SC_WRITE_METHOD == 1
SC_BLOCK_DATA == 8
SC_SERIALIZABLE == 2
SC_EXTERNALIZABLE == 4
SC_Fail == 0

-----------------------------------------------------------------------------
(* ClassField (ClassFieldImp.go).  Only the type code is kept: _name and  *)
(* _className1 are printed and never tested, so setName and              *)
(* setClassName1 change nothing the model keeps.                          *)

NewClassField(typeCode) == [typeCode |-> typeCode]

getTypeCode(cf) == cf.typeCode

-----------------------------------------------------------------------------
(* ClassDetails.  The Go values are pointers shared between the chains a  *)
(* class is copied into, but a ClassDetails is only changed while it is   *)
(* the last class of the chain under construction, before any copy is    *)
(* made, so the model copies values.                                      *)

\* ClassDetails._refHandle before setHandle is called (NewClassDetails)
NoHandle == -1

NewClassDetails(className) ==
    [name |-> className, handle |-> NoHandle, flags |-> 0, fields |-> <<>>]

getClassName(cd) == cd.name

\* Mutant of setHandle: the handle is not stored.
setHandleDropped(cd, handle) == cd

setHandle(cd, handle) == [cd EXCEPT !.handle = handle]

getHandle(cd) == cd.handle

setClassDescFlags(cd, classDescFlags) == [cd EXCEPT !.flags = classDescFlags]

addField(cd, cf) == [cd EXCEPT !.fields = Append(@, cf)]

getFields(cd) == cd.fields

\* The flag tests of ClassDetails.
isSC_SERIALIZABLE(cd)   == (cd.flags & SC_SERIALIZABLE) = SC_SERIALIZABLE
isSC_EXTERNALIZABLE(cd) == (cd.flags & SC_EXTERNALIZABLE) = SC_EXTERNALIZABLE
isSC_WRITE_METHOD(cd)   == (cd.flags & SC_WRITE_METHOD) = SC_WRITE_METHOD
isSC_BLOCK_DATA(cd)     == (cd.flags & SC_BLOCK_DATA) = SC_BLOCK_DATA

-----------------------------------------------------------------------------
(* ClassDataDesc: its _classDetails slice.                                *)

NewClassDataDesc == <<>>

\* The value getClassDetails returns for an index past the end.
NilClassDetails == [nil |-> TRUE]

getClassDetails(cdd, index) ==
    IF index >= Len(cdd) THEN NilClassDetails ELSE cdd[index + 1]

getClassCount(cdd) == Len(cdd)

\* The setters of ClassDataDesc all act on the most recently added class.
addClass(cdd, className) == Append(cdd, NewClassDetails(className))

setLastClassHandle(cdd, handle) == [cdd EXCEPT ![Len(cdd)] = setHandle(@, handle)]

setLastClassDescFlags(cdd, classDescFlags) ==
    [cdd EXCEPT ![Len(cdd)] = setClassDescFlags(@, classDescFlags)]

addFieldToLastClass(cdd, typeCode) ==
    [cdd EXCEPT ![Len(cdd)] = addField(@, NewClassField(typeCode))]

\* Mutant of addSuperClassDesc: the super chain put before the class.
addSuperClassDescFirst(cdd, scdd) == scdd \o cdd

\* Copies the super class chain behind this one; a nil super adds nothing.
addSuperClassDesc(cdd, scdd) == cdd \o scdd

\* Meant to return the chain from class `index` upward; the code copies the
\* whole chain and never uses `index`.
buildClassDataDescFromIndex(cdd, index) == cdd

(***************************************************************************)
(* The TC_REFERENCE branch of readClassDesc: search every chain read so   *)
(* far for a class whose handle is refHandle.  The Go loop increments     *)
(* classIndex before the lookup, so it never tests class 0 and calls      *)
(* getHandle on the nil that getClassDetails(count) returns.  Outcomes:   *)
(* "found" with the chain returned, "nilDeref" (runtime panic) or         *)
(* "invalid" (the log.Panicln after the loop).  c is the 1-based index    *)
(* into cdds, classIndex the Go loop variable.                            *)
(***************************************************************************)
RECURSIVE ScanRef(_, _, _, _)
ScanRef(cdds, c, classIndex, refHandle) ==
    IF c > Len(cdds) THEN [outcome |-> "invalid", cdd |-> <<>>]
    ELSE IF classIndex >= getClassCount(cdds[c])
         THEN ScanRef(cdds, c + 1, 0, refHandle)
         ELSE LET i == classIndex + 1
                  cd == getClassDetails(cdds[c], i)
              IN
              IF cd = NilClassDetails
              THEN [outcome |-> "nilDeref", cdd |-> <<>>]
              ELSE IF getHandle(cd) = refHandle
                   THEN [outcome |-> "found",
                         cdd |-> buildClassDataDescFromIndex(cdds[c], i)]
                   ELSE ScanRef(cdds, c, i, refHandle)

=============================================================================
