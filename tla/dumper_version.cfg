CONSTANTS
    InputLen <- MCInputLenVersion
    Leads <- MCLeads
    Magics <- MCMagics
    Versions <- MCVersionsAll
    Tags = {112}
    Flags <- MCFlags
    TypeCodes <- MCTypeCodes
    Lengths <- MCLengths
    NameKinds <- MCNameKinds
    RefHandles <- MCRefHandles
    Entries = {"parseStream", "ParseSerializedObject"}
SPECIFICATION Spec
INVARIANT VersionChecked
