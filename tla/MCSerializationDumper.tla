------------------------ MODULE MCSerializationDumper ------------------------
(* Values of the constants of SerializationDumper for TLC.                *)
EXTENDS SerializationDumper

\* A buffer long enough for an object whose class has a super class and
\* one field, and a second element after it.
MCInputLen == 28

MCLeads == {172, 80}                    \* 0xAC, RMI Call 0x50
MCMagics == {44269}                     \* 0xACED
MCVersions == {5}
MCFlags == {2, 3}                       \* SC_SERIALIZABLE, | SC_WRITE_METHOD
MCTypeCodes == {73, 76}                 \* 'I', 'L'
MCLengths == {0, 1}
MCNameKinds == {"A", "[I"}
MCRefHandles == {8257536}               \* 0x7E0000

\* The type codes of objects, arrays and their class descriptors (a proxy
\* descriptor is the shortest super class), and one byte the walker does
\* not know.
MCTags == {TC_NULL, TC_REFERENCE, TC_CLASSDESC, TC_PROXYCLASSDESC, TC_OBJECT,
           TC_ARRAY, TC_ENDBLOCKDATA, 0}


\* A shorter buffer over every byte the walker dispatches on, a bad magic
\* (0xDEAD) and every kind of class name.
MCInputLenShort == 19
MCMagicsAll == {44269, 57005}
MCNameKindsAll == {"A", "[I", "[L"}
MCTagsAll == {TC_NULL, TC_REFERENCE, TC_CLASSDESC, TC_OBJECT, TC_STRING,
              TC_ARRAY, TC_CLASS, TC_BLOCKDATA, TC_ENDBLOCKDATA, TC_RESET,
              TC_BLOCKDATALONG, TC_EXCEPTION, TC_LONGSTRING,
              TC_PROXYCLASSDESC, TC_ENUM, 0}


\* A stream of its header and three bytes, the first a top-level TC_STRING
\* or TC_ENDBLOCKDATA.
MCInputLenString == 7
MCTagsString == {TC_STRING, TC_ENDBLOCKDATA}

\* Either of two streams, within 31 bytes: AC ED 00 05, a proxy class
\* descriptor with no interfaces, then an object whose class is a
\* TC_REFERENCE to that descriptor (17 bytes); or AC ED 00 05, then an int[]
\* of one element: TC_ARRAY, a class descriptor named [I (every length and
\* count 1, so it declares one int field), a null super class, the size and
\* the element.
MCInputLenRefIntArray == 31
MCTagsRefIntArray == {TC_PROXYCLASSDESC, TC_OBJECT, TC_REFERENCE, TC_ARRAY,
                      TC_CLASSDESC, TC_ENDBLOCKDATA, TC_NULL, 0}

\* A stream header of version 4, 5 or 0x0105 followed by one null element.
MCInputLenVersion == 6
MCVersionsAll == {4, 5, 261}


\* AC ED 00 05, then an object whose class declares one Object field (the
\* field's class name a TC_STRING or TC_REFERENCE), then the field's value:
\* every length and count is 1.
MCInputLenFields == 34
MCTagsFields == {TC_OBJECT, TC_CLASSDESC, TC_STRING, TC_REFERENCE, TC_NULL,
                 TC_ENUM, TC_ENDBLOCKDATA}
MCTypeCodesObject == {OBJECT_CODE}

=============================================================================
