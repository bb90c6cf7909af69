SPECIFICATION Spec
CONSTANTS
    Sizes = {0, 1, 5}
    Overflows <- MCOverflows
    DefaultSize = 5
    DefaultOverflow = 3
INVARIANTS
    TypeOK
    SourceLeaksOnlyOnFailure
    EveryKeyArrivesOnce
    UriSurvivesCreate
    AcceptedConfigRenders
    FieldsReachTheDriver
