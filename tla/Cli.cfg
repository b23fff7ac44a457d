SPECIFICATION Spec
CONSTANTS
    Clis = {c1, c2}
    Nodes <- MCNodes
    IpTexts <- MCIpTexts
    AddrTexts <- MCAddrTexts
    Account <- MCAccount
    UnknownUid = 9
    Absent = Absent
    NoSnapshot = NoSnapshot
    None = None
    Snapshots <- MCSnapshots
    ArgLists <- MCArgLists
    FilterArg <- MCFilterArg
    UserArg <- MCUserArg
    IntervalArgs = {"2"}
    MaxRounds = 2
    MaxRefreshes = 1
    MaxCrashes = 1
    PatternChars = {"a", "b"}
    MaxPattern = 4
    MaxText = 5
    Stems <- MCStems
    RangeEnds = {0, 9, 10}
INVARIANTS AnswerInStep UserFilterAgrees WildcardIsGlob FilterReadsBack
PROPERTIES NameStable NobodyHangs RestartListens
CHECK_DEADLOCK FALSE
