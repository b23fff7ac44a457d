SPECIFICATION Spec
CONSTANTS
    Callers = {t1, t2}
    Nobody = Nobody
    MaxId = 4
    MaxMeta = 3
    MaxStamp = 3
SYMMETRY Symmetry
INVARIANTS AnswerIsOwn MetadataNotOlder
PROPERTIES MetadataNeverRegresses ImplementsExchange
