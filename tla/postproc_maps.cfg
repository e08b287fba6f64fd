\* mapPostProc and enumMapPostProc against the pairs HashMap and EnumMap
\* write: sizes -1..2, up to 4 elements (two pairs, so a key can repeat).
CONSTANTS
    Words <- MCWords
    MaxWords = 3
    Names = {"a", "b"}
    MaxElems = 4
SPECIFICATION Spec
INVARIANTS
    MapPostProcKeepsPairs
    EnumMapPostProcKeepsPairs
