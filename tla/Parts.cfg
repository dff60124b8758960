SPECIFICATION PartsSpec
CONSTANTS
    Kind <- AllKinds
    Client = {"c1", "c2"}
    Menus <- AllMenus
    RouterVersions <- Versions
    Rule = {"r1", "r2", "r3"}
    Stranger = {"s1"}
    MaxMoves = 2
    PlaceBefore <- Places
    Sequence <- ListedRules
    Field <- Fields
    MaxFields = 4
    Object = {"o1", "o2"}
    MaxTroubles = 3
    MaxMishaps = 3
    MaxWord = 63
    TimeUnit = {1, 2, 7}
    Digit = {0, 1, 3, 6, 9}
    MaxDigits = 3
    MaxParts = 2
    AddressBits = 5
INVARIANTS
    TypesOK
    NoChangesIsTrue
    SecondPlanIsEmpty
    SecretsSurvive
    RemovedIsCleared
    NamesMatch
    PlacedOnceAndForAll
    ErrorsSurvive
    OrderIsNoMatter
    Decodable
    UpgradedIsAsRead
    CertificateIsComplete
    FilesRemoved
    DurationIsExact
    RangeIsTheSame
PROPERTIES
    UnconfiguredKept
    OrderSettles
    BroughtToState
    BuiltInsComeTrue
CHECK_DEADLOCK FALSE
