CONSTANTS
    InputLen <- MCInputLen
    Leads <- MCLeads
    Magics <- MCMagics
    Versions <- MCVersions
    Tags <- MCTags
    Flags <- MCFlags
    TypeCodes <- MCTypeCodes
    Lengths <- MCLengths
    NameKinds <- MCNameKinds
    RefHandles <- MCRefHandles
    Entries = {"parseStream"}
SPECIFICATION Spec
INVARIANT TypeOK
PROPERTY ImplementsClassRegistry
