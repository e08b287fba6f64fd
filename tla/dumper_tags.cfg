CONSTANTS
    InputLen <- MCInputLenShort
    Leads <- MCLeads
    Magics <- MCMagicsAll
    Versions <- MCVersions
    Tags <- MCTagsAll
    Flags <- MCFlags
    TypeCodes <- MCTypeCodes
    Lengths <- MCLengths
    NameKinds <- MCNameKindsAll
    RefHandles <- MCRefHandles
    Entries = {"parseStream", "ParseSerializedObject"}
SPECIFICATION Spec
PROPERTY ImplementsClassRegistry
