\* A class back-reference and an int[] array: the walker panics on both.
CONSTANTS
    InputLen <- MCInputLenRefIntArray
    Leads <- MCLeads
    Magics <- MCMagics
    Versions <- MCVersions
    Tags <- MCTagsRefIntArray
    Flags = {2}
    TypeCodes <- MCTypeCodes
    Lengths = {0, 1}
    NameKinds <- MCNameKinds
    RefHandles <- MCRefHandles
    Entries = {"parseStream"}
SPECIFICATION Spec
INVARIANT ClassesAndArraysRead
