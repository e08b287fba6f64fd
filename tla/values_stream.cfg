\* A char, an object and a byte field over 4 bytes, surrogates and
\* TC_ENDBLOCKDATA offered.
SPECIFICATION Spec
CONSTANTS
    Types <- MCTypesStream
    Bytes <- MCBytesStream
    InputLen = 4
    MaxFields = 2
PROPERTY ValuesReadAsWritten
