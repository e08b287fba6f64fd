CONSTANTS
    InputLen <- MCInputLenString
    Leads <- MCLeads
    Magics <- MCMagics
    Versions <- MCVersions
    Tags <- MCTagsString
    Flags <- MCFlags
    TypeCodes <- MCTypeCodes
    Lengths <- MCLengths
    NameKinds <- MCNameKinds
    RefHandles <- MCRefHandles
    Entries = {"parseStream", "ParseSerializedObject"}
SPECIFICATION Spec
PROPERTY ParserTerminates
