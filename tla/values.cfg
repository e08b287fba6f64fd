\* values() over classes of up to two fields of any type, on 8 bytes.
SPECIFICATION Spec
CONSTANTS
    Types <- MCTypes
    Bytes <- MCBytes
    InputLen = 8
    MaxFields = 2
INVARIANT ValuesAsDeclared
