\* Single jobs over each mix of sources, and up to three in one directory.
CONSTANTS
    UriWords <- Words
    SecKinds <- SecNodes
    ViolationWords <- Violations
    EventCategories <- EventTypes
    BlsKinds <- KindsOfBls
    MEASUREMENT_TYPES <- Measurements
    SectorWords <- BlsSectors
    KNOWN_CORRELATIONS <- Correlated
    MAX_STRANGLE_PAIRS_PER_CHAIN = 1
    SourceKinds <- KindsOfSources
    KeywordSources <- Keywords
    SectorKeywords <- AllSectors
    SIC_DIVISIONS <- Divisions
    EQUITY_TO_ECONOMIC_SECTORS <- EquityToEconomic
    US_STATES <- States
    CENSUS_REGIONS <- Censuses
    MeasurementClasses <- Aligned
    DatePredicates <- DatedBy
    CLASS_MAPPINGS <- Mappings
    PROPERTY_MAPPINGS <- Folds
    ClassName <- Local
    NotData <- Schema
    TypeRank <- Ranks
    MetaClasses <- MetaNames
    PinnedTypes <- Pins
    EXCLUDED_EDGE_PREDICATES <- NoEdge
    UnregisteredNames <- Unknown
    LiteralKinds <- Values
    DEFAULT_MARKET_SECTOR_PATTERNS <- MarketSectors
    MAX_LINKER_FAILURES = 1
    Stores <- Folders
    SEC_HANDLED_FEEDS <- Feeds
    Settings <- AllSettings
    Queues <- Runs
    ELSEWHERE_DAY = 3
    LATEST_PARTITION = 99
SPECIFICATION Spec
CHECK_DEADLOCK FALSE
INVARIANTS
    ChainsAreTotal
    EscalationIsRealRise
    FinestPeriodOnly
    HubsAreConnected
    OneCompanyPerSymbol
    HierarchyHasNoCircle
    TablesAgree
    FinishedRunsKeepTheirArtifacts
    GraphStatesItsDay
