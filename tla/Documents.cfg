SPECIFICATION DocumentSpec
CONSTANTS
    Null = Null
    Attrs <- MCAttrs
    SetAttrs <- MCSetAttrs
    ListAttrs <- MCListAttrs
    Scalars <- MCScalars
    Round <- MCRound
    Addresses = {a1, a2}
    MaxRecords = 2
    TypeOf <- MCTypeOf
    ProviderOf <- MCProviderOf
    Owner <- MCOwner
    Prefixed <- MCPrefixed
    Indices <- MCIndices
    MaxWildcards = 2
    Schema <- MCSchema
    NameOrder <- MCOrder
    SnakeOf <- MCSnakeOf
    SlugOf <- MCEmpty
    IntegerOf <- MCIntegerOf
    PartsOf <- MCPartsOf
    IdNames <- MCIdNames
    WithoutPrefix <- MCEmpty
    Unescape <- MCUnescape
    Escape <- MCEmpty
    Folded <- MCEmpty
    SelectorPath <- MCEmpty
    FileNames <- MCFileNames
    UnsafeKeys = {}
    MaxImportMoves = 4
    TokensOf <- TokensInItems
    WithTokens <- SubstituteReferenceTokens
    BindingRefused <- UncoveredTokens
    ZiaPageSize = 2
    ZiaMaxPages = 3
    ZccPageSize = 2
    ZccMaxPages = 3
    UnsafeSegments = {}
INVARIANTS
    ClearedUpdatesAreUnchanged
    GatedPlansAreConsented
    AssertCleanImpliesApplicable
    ScopedAssertSeesImportedDrift
    PolicyIsSafeHere
    PlannedTextAgreesHere
    TransformAccountsHere
    ScopeCoversFilesHere
    MovesReconcileHere
    EnvironmentsResolveHere
    ReferencesRoundTripHere
    CollectionsAreSound
    ReportTruthHere
CHECK_DEADLOCK FALSE
