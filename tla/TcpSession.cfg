SPECIFICATION Spec
CONSTANTS
    Callers = {t1, t2, t3}
    Nobody = Nobody
    MaxSends = 5
    MaxMeta = 3
    MaxStamp = 3
SYMMETRY Symmetry
INVARIANTS InStepOrDoomed MetadataNotOlder
PROPERTIES ForeignOnlyBeforeClose AnswersInOrder
