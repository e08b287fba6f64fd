CONSTANTS
    InputLen <- MCInputLenFields
    Leads <- MCLeads
    Magics <- MCMagics
    Versions <- MCVersions
    Tags <- MCTagsFields
    Flags = {2}
    TypeCodes <- MCTypeCodesObject
    Lengths = {1}
    NameKinds <- MCNameKinds
    RefHandles <- MCRefHandles
    Entries = {"parseStream"}
SPECIFICATION Spec
PROPERTY ImplementsClassRegistry
